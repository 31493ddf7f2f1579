----------------------------- MODULE ProviderLogin ------------------------------
(***************************************************************************)
(* OAuth logins of a model provider and the tokens they leave (cool-       *)
(* app-server oauth.rs, its oauth_start and oauth_complete handlers, `cool *)
(* auth` of the CLI, and the drivers' answer to a 401).  Logins of the     *)
(* server and of CLI processes write one row of the providers table; every *)
(* process with a driver reads it through a ProviderTokenSource, which     *)
(* caches the bundle, renews it when it has expired or was refused, and    *)
(* writes the renewed bundle back.  The provider is external: for some     *)
(* accounts it replaces the refresh token at each use, and the used one is *)
(* dead from then on.                                                      *)
(***************************************************************************)
EXTENDS Integers, Sequences, SequencesExt, FiniteSets

CONSTANTS
    Logins,       \* login attempts; each that succeeds is an account of its own
    LoginBy,      \* per login: "server" (oauth_start, oauth_complete) or "cli"
    Drivers,      \* processes with a driver: each has one token source
    ModelUses,    \* model requests
    DriverOf,     \* per request: the driver that sends it
    Rotating,     \* the accounts whose refresh token is replaced at each use
    NoBundle,
    MaxRenewals,  \* bound: refreshes an account is granted
    MaxLosses     \* bound: process deaths and failed writes together

ASSUME LoginAssumption ==
    /\ LoginBy \in [Logins -> {"server", "cli"}] /\ DriverOf \in [ModelUses -> Drivers]
    /\ Rotating \subseteq Logins /\ {MaxRenewals, MaxLosses} \subseteq Nat
    /\ NoBundle \notin [account : Logins, access : Nat, refresh : Nat]

VARIABLES
    login,        \* per login: how far it is, and the row it found
    handshakes,   \* the pending map of the server, and which entries are too old
    rows,         \* the OAuth rows of the providers table: the bundle of each
    source,       \* per driver: the row it was opened on (0: none) and its cache
    use,          \* per request: where it is and the bundle in its hands
    renewals,     \* provider: per account, how often it was renewed
    accepted,         \* provider: per account, the refresh token it accepts
    lapsed,       \* provider: access tokens past their time, or revoked before it
    losses        \* accounts whose newest bundle a death or a failed write lost

loginVars == <<login, handshakes, rows, source, use, renewals, accepted, lapsed, losses>>
providerVars == <<renewals, accepted, lapsed>>

\* A bundle: the n-th access token of an account, and the refresh token with it.
Bundle(account, n, refresh) == [account |-> account, access |-> n, refresh |-> refresh]
NotAccepted(b) == \E why \in {"expired", "revoked"} : <<b.account, b.access, why>> \in lapsed
IsExpired(b) == <<b.account, b.access, "expired">> \in lapsed
LoginAt(l, at) == login' = [login EXCEPT ![l].at = at]
UseAt(u, at) == use' = [use EXCEPT ![u].at = at]
Lost == Cardinality(losses) < MaxLosses

-----------------------------------------------------------------------------
(* A login *)

\* The map forgets its old entries when one is added.
Starts(l) ==
    /\ login[l].at = "idle" /\ LoginAt(l, "started")
    /\ handshakes' = IF LoginBy[l] = "server"
                     THEN {h \in handshakes : ~h.old} \cup {[login |-> l, old |-> FALSE]}
                     ELSE handshakes
    /\ UNCHANGED <<rows, source, use, providerVars, losses>>
Ages(h) ==
    /\ ~h.old /\ handshakes' = (handshakes \ {h}) \cup {[h EXCEPT !.old = TRUE]}
    /\ UNCHANGED <<login, rows, source, use, providerVars, losses>>

\* The entry is taken before anything is checked.  A code of another handshake is told
\* by the state it carries, or else refused by the provider (its verifier differs).
Completes(l, h, code) ==
    /\ login[l].at = "started" /\ LoginBy[l] = "server" /\ h \in handshakes /\ h.login = l
    /\ handshakes' = handshakes \ {h}
    /\ LoginAt(l, IF ~h.old /\ code = l THEN "exchanging" ELSE "failed")
    /\ UNCHANGED <<rows, source, use, providerVars, losses>>
\* The loopback callback, the pasted code or the device poll of the CLI.
CliReturns(l, code) ==
    /\ login[l].at = "started" /\ LoginBy[l] = "cli"
    /\ LoginAt(l, IF code = l THEN "exchanging" ELSE "failed")
    /\ UNCHANGED <<handshakes, rows, source, use, providerVars, losses>>
\* The provider grants the account, or refuses the code.
Exchanges(l) ==
    /\ login[l].at = "exchanging"
    /\ \/ LoginAt(l, "granted") /\ accepted' = [accepted EXCEPT ![l] = 1]
       \/ LoginAt(l, "failed") /\ UNCHANGED accepted
    /\ UNCHANGED <<handshakes, rows, source, use, renewals, lapsed, losses>>
\* The row of this provider is looked for, and made when there was none: two calls.
FindsRow(l) ==
    /\ login[l].at = "granted"
    /\ login' = [login EXCEPT ![l] = IF rows = <<>> THEN [@ EXCEPT !.at = "making"]
                                     ELSE [@ EXCEPT !.at = "storing", !.row = 1]]
    /\ UNCHANGED <<handshakes, rows, source, use, providerVars, losses>>
MakesRow(l) ==
    /\ login[l].at = "making" /\ rows' = Append(rows, NoBundle)
    /\ login' = [login EXCEPT ![l] = [at |-> "storing", row |-> Len(rows) + 1]]
    /\ UNCHANGED <<handshakes, source, use, providerVars, losses>>
StoresLogin(l) ==
    /\ login[l].at = "storing" /\ LoginAt(l, "done")
    /\ rows' = [rows EXCEPT ![login[l].row] = Bundle(l, 0, 1)]
    /\ UNCHANGED <<handshakes, source, use, providerVars, losses>>

-----------------------------------------------------------------------------
(* A token source *)

\* A driver is built on the first row that has tokens.
OpensSource(d) ==
    /\ source[d].row = 0 /\ \E r \in DOMAIN rows : rows[r] # NoBundle
    /\ source' = [source EXCEPT ![d].row = SelectInSeq(rows, LAMBDA b : b # NoBundle)]
    /\ UNCHANGED <<login, handshakes, rows, use, providerVars, losses>>

Source(u) == source[DriverOf[u]]
Stored(u) == rows[Source(u).row]
Caches(u, b) == source' = [source EXCEPT ![DriverOf[u]].cached = b]
\* access_token holds the source's lock while it renews.
Locked(u) == \E v \in ModelUses : DriverOf[v] = DriverOf[u] /\ use[v].at \in {"renewing", "keeping"}

\* access_token: the cached bundle, the stored one when that has expired, and a renewal
\* when the stored one has expired too.
TakesToken(u) ==
    /\ use[u].at = "idle" /\ Source(u).row # 0 /\ ~Locked(u)
    /\ LET cached == IF Source(u).cached = NoBundle THEN Stored(u) ELSE Source(u).cached
           b == IF IsExpired(cached) THEN Stored(u) ELSE cached
       IN  /\ use' = [use EXCEPT ![u] = [at |-> IF IsExpired(b) THEN "renewing" ELSE "sending",
                                         bundle |-> b]]
           /\ IF IsExpired(b) THEN UNCHANGED source ELSE Caches(u, b)
    /\ UNCHANGED <<login, handshakes, rows, providerVars, losses>>

\* The provider's side of a refresh, and refresh_tokens, which keeps the old refresh
\* token when the answer has none.
Granted(u, renewed) ==
    LET b == use[u].bundle
    IN  /\ b.refresh = accepted[b.account] /\ renewals[b.account] < MaxRenewals
        /\ renewals' = [renewals EXCEPT ![b.account] = @ + 1]
        /\ accepted' = [accepted EXCEPT ![b.account] = IF b.account \in Rotating THEN @ + 1 ELSE @]
        /\ use' = [use EXCEPT ![u] = [at |-> renewed,
                      bundle |-> Bundle(b.account, renewals'[b.account], accepted'[b.account])]]
Renews(u, from, renewed) ==
    /\ use[u].at = from
    /\ \/ Granted(u, renewed)
       \/ UseAt(u, "failed") /\ UNCHANGED <<renewals, accepted>>
    /\ UNCHANGED <<login, handshakes, rows, source, lapsed, losses>>

\* Mutant: the renewed bundle is only cached.
CachesOnly(u, b) == UNCHANGED rows
Persists(u, b) == rows' = [rows EXCEPT ![Source(u).row] = b]
\* persist, then the cache; when the write fails the request does.
KeepsToken(u) ==
    /\ use[u].at = "keeping" /\ UseAt(u, "sending")
    /\ Persists(u, use[u].bundle) /\ Caches(u, use[u].bundle)
    /\ UNCHANGED <<login, handshakes, providerVars, losses>>
LosesToken(u) ==
    /\ use[u].at \in {"keeping", "rekeeping"} /\ Lost /\ losses' = losses \cup {use[u].bundle.account}
    /\ UseAt(u, "failed")
    /\ UNCHANGED <<login, handshakes, rows, source, providerVars>>

\* stream_once: a 401 is answered by one refresh and one more attempt.
SendsRequest(u) ==
    /\ use[u].at = "sending" /\ UseAt(u, IF NotAccepted(use[u].bundle) THEN "refused" ELSE "answered")
    /\ UNCHANGED <<login, handshakes, rows, source, providerVars, losses>>
\* refresh: the stored bundle, whatever is cached, and without the lock.
TakesStored(u) ==
    /\ use[u].at = "refused"
    /\ use' = [use EXCEPT ![u] = [at |-> "refreshing", bundle |-> Stored(u)]]
    /\ UNCHANGED <<login, handshakes, rows, source, providerVars, losses>>
KeepsRefreshed(u) ==
    /\ use[u].at = "rekeeping" /\ UseAt(u, "caching") /\ Persists(u, use[u].bundle)
    /\ UNCHANGED <<login, handshakes, source, providerVars, losses>>
CachesRefreshed(u) ==
    /\ use[u].at = "caching" /\ ~Locked(u) /\ UseAt(u, "resending") /\ Caches(u, use[u].bundle)
    /\ UNCHANGED <<login, handshakes, rows, providerVars, losses>>
ResendsRequest(u) ==
    /\ use[u].at = "resending" /\ UseAt(u, IF NotAccepted(use[u].bundle) THEN "failed" ELSE "answered")
    /\ UNCHANGED <<login, handshakes, rows, source, providerVars, losses>>

\* A process with a driver dies: its cache and what its requests held are gone.
SourceDies(d) ==
    /\ source[d].row # 0 /\ Lost
    /\ losses' = losses \cup {use[u].bundle.account :
                    u \in {v \in ModelUses : DriverOf[v] = d /\ use[v].at \in {"keeping", "rekeeping"}}}
    /\ source' = [source EXCEPT ![d] = [row |-> 0, cached |-> NoBundle]]
    /\ use' = [u \in ModelUses |-> IF DriverOf[u] = d /\ use[u].at # "idle"
                                   THEN [use[u] EXCEPT !.at = "failed"] ELSE use[u]]
    /\ UNCHANGED <<login, handshakes, rows, providerVars>>

\* The provider: an access token runs out, or is revoked.
Lapses(b, why) ==
    /\ ~NotAccepted(b) /\ lapsed' = lapsed \cup {<<b.account, b.access, why>>}
    /\ UNCHANGED <<login, handshakes, rows, source, use, renewals, accepted, losses>>

-----------------------------------------------------------------------------
LoginInit ==
    /\ login = [l \in Logins |-> [at |-> "idle", row |-> 0]]
    /\ handshakes = {} /\ rows = <<>>
    /\ source = [d \in Drivers |-> [row |-> 0, cached |-> NoBundle]]
    /\ use = [u \in ModelUses |-> [at |-> "idle", bundle |-> NoBundle]]
    /\ renewals = [l \in Logins |-> 0] /\ accepted = [l \in Logins |-> 0]
    /\ lapsed = {} /\ losses = {}

LoginStep(l) ==
    \/ Starts(l) \/ Exchanges(l) \/ FindsRow(l) \/ MakesRow(l) \/ StoresLogin(l)
    \/ \E code \in Logins : CliReturns(l, code) \/ \E h \in handshakes : Completes(l, h, code)
UseStep(u) ==
    \/ TakesToken(u) \/ Renews(u, "renewing", "keeping") \/ KeepsToken(u) \/ SendsRequest(u)
    \/ TakesStored(u) \/ Renews(u, "refreshing", "rekeeping") \/ KeepsRefreshed(u)
    \/ CachesRefreshed(u) \/ ResendsRequest(u) \/ LosesToken(u)
LoginNext ==
    \/ \E l \in Logins : LoginStep(l)
    \/ \E h \in handshakes : Ages(h)
    \/ \E d \in Drivers : OpensSource(d) \/ SourceDies(d)
    \/ \E u \in ModelUses : UseStep(u)
    \/ \E b \in (Range(rows) \cup {source[d].cached : d \in Drivers}) \ {NoBundle}, why \in {"expired", "revoked"} : Lapses(b, why)

LoginSpec == LoginInit /\ [][LoginNext]_loginVars

-----------------------------------------------------------------------------
(* Properties *)

Renewing(account) ==
    \E u \in ModelUses : use[u].at \in {"keeping", "rekeeping"} /\ use[u].bundle.account = account

\* The refresh token in the store is the one the provider accepts, unless a request is
\* about to store its successor or that write was lost: however requests of several
\* processes renew side by side with each other and with logins, none puts a used refresh
\* token over a newer one, which would end the login.
StoredLoginLives ==
    \A r \in DOMAIN rows :
        rows[r] # NoBundle =>
            \/ rows[r].refresh = accepted[rows[r].account]
            \/ Renewing(rows[r].account) \/ rows[r].account \in losses

\* The newest login of a row stays in it.  (Not so: a renewal that read the row before
\* the login writes the older account's bundle over it.)
NewestLoginStands ==
    [][\A u \in ModelUses, r \in DOMAIN rows :
          rows'[r] # rows[r] /\ rows[r] # NoBundle /\ use'[u] # use[u]
              => rows'[r].account = rows[r].account]_loginVars

\* Logins of one provider share one row.  (Not so: both may look before either makes it.)
OneRow == Len(rows) <= 1

\* A request that finds its account healthy is not failed by another one's renewal.
\* (Not so: of two renewals with one refresh token the provider refuses the second.)
RenewalsDoNotCollide ==
    [][\A u \in ModelUses : use[u].at = "refreshing" /\ use'[u].at = "failed" =>
          \A v \in ModelUses \ {u} :
              use[v].bundle # NoBundle => use[v].bundle.refresh = use[u].bundle.refresh]_loginVars
================================================================================
