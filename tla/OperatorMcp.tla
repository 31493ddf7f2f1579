------------------------------ MODULE OperatorMcp ------------------------------
(***************************************************************************)
(* The MCP servers an operator configures (cool-cli mcp_admin.rs,          *)
(* mcp_store.rs): one document of configs, a session per server that was   *)
(* connected, and the tools of connected servers in the registry the agent *)
(* calls from.  Requests run concurrently; the document, the sessions, the *)
(* record of registered names and the registry each have a lock of their   *)
(* own, held for one step, save that a registration holds the record's     *)
(* lock from its first step to its last.                                   *)
(***************************************************************************)
EXTENDS Naturals

CONSTANTS
    McpOffers,     \* external: the tools each server lists
    McpToolName,   \* qualified_name of a server's tool; two may be the same
    McpSituations  \* [file, wanted] : the configs at first, the requests sent

Dos == {"add", "install", "update", "remove", "connect", "disconnect", "reconnect"}
ASSUME McpAssumption ==
    /\ \A s \in DOMAIN McpOffers : \A t \in McpOffers[s] : <<s, t>> \in DOMAIN McpToolName
    /\ "builtin" \notin DOMAIN McpOffers     \* the owner of the tools that are no server's
    /\ \A x \in McpSituations :
          /\ DOMAIN x.file \subseteq DOMAIN McpOffers /\ DOMAIN x.wanted \subseteq Nat \ {0}
          /\ \A r \in DOMAIN x.wanted : x.wanted[r].do \in Dos /\ x.wanted[r].server \in DOMAIN McpOffers

VARIABLES
    wanted,      \* the requests of this behaviour
    mcpFile,     \* mcp-servers.json: the config of each server named in it
    mcpSession,  \* McpShared.sessions: "none", "connected", "error", "disconnected"
    recorded,    \* CliMcpAdmin.registered: the names registered for each server
    toolMap,     \* ToolRegistry.tools: the owner and the decision of each name
    recordLock,  \* the request that holds the record's lock, 0 for none
    request,     \* each request: where it is and what it holds
    latest       \* the request that ended last, 0 at first

mcpVars == <<wanted, mcpFile, mcpSession, recorded, toolMap, recordLock, request, latest>>

Hosts == DOMAIN McpOffers
AdminRequests == DOMAIN wanted
\* One function over another, and the function of one point.
Over(f, g) == [x \in DOMAIN f \cup DOMAIN g |-> IF x \in DOMAIN f THEN f[x] ELSE g[x]]
Only(x, value) == [y \in {x} |-> value]
Running == {r \in AdminRequests : request[r].at \notin {"unsent", "ended"}}

\* A config's declared capabilities decide; one that declares none it knows asks.
KnownCapabilities == {"read", "write", "execute", "network", "git", "send_external"}
ToolPolicy(config) == IF config.capabilities \cap KnownCapabilities = {} THEN "ask" ELSE "allow"

-----------------------------------------------------------------------------
(* The registry of public servers *)

TransportScore(p) == CASE p.transport = "stdio" -> 10 [] p.transport = "streamable-http" -> 5
                       [] p.transport = "sse" -> 3 [] OTHER -> 0
HintScore(p) == CASE p.hint = "npx" -> 2 [] p.hint = "uvx" -> 1 [] OTHER -> 0
\* The best score; of equals, the first the registry lists.
BestPackage(packages) ==
    LET Score(i) == TransportScore(packages[i]) + HintScore(packages[i])
    IN  packages[CHOOSE i \in DOMAIN packages :
            \A j \in DOMAIN packages : Score(j) < Score(i) \/ (Score(j) = Score(i) /\ i <= j)]
\* What runs it is the hint, or the registry's own, or the package itself.
PackageCommand(p) ==
    IF p.hint # "" THEN p.hint
    ELSE CASE p.registry = "npm" -> "npx" [] p.registry = "pypi" -> "uvx" [] OTHER -> p.id
PackageConfig(entry) ==
    LET p == BestPackage(entry)
        http == p.transport \in {"sse", "streamable-http", "http"}
    IN  [capabilities |-> {}, enabled |-> TRUE, transport |-> IF http THEN "http" ELSE "stdio",
         runs |-> IF http THEN "url" ELSE PackageCommand(p)]

-----------------------------------------------------------------------------
(* The steps of a request *)

\* seen: the configs it read; on: the server it works on; left: names or tools it has
\* still to go through; got: names it registered; todo: servers left to reconnect.
Unsent == [at |-> "unsent", seen |-> << >>, on |-> "", left |-> {}, got |-> {}, todo |-> {},
           answer |-> "", alone |-> FALSE]
McpInit ==
    /\ \E s \in McpSituations : wanted = s.wanted /\ mcpFile = s.file
    /\ mcpSession = [s \in Hosts |-> "none"] /\ recorded = [s \in Hosts |-> {}]
    /\ toolMap = Only("builtin", [owner |-> "builtin", decision |-> "allow"])
    /\ recordLock = 0 /\ request = [r \in DOMAIN wanted |-> Unsent] /\ latest = 0

Submits(r) ==
    /\ request[r].at = "unsent" /\ \A q \in AdminRequests : q < r => request[q].at # "unsent"
    /\ request' = [q \in AdminRequests |->
          IF q = r THEN [request[q] EXCEPT !.at = IF wanted[r].do = "install" THEN "fetch" ELSE "read",
                                           !.alone = Running = {}, !.on = wanted[r].server]
          ELSE IF q \in Running THEN [request[q] EXCEPT !.alone = FALSE] ELSE request[q]]
    /\ UNCHANGED <<wanted, mcpFile, mcpSession, recorded, toolMap, recordLock, latest>>

Moves(r, next) == request' = [request EXCEPT ![r] = next] /\ UNCHANGED latest
Ends(r, answer) ==
    /\ request' = [request EXCEPT ![r] = [@ EXCEPT !.at = "ended", !.answer = answer, !.left = {}]]
    /\ latest' = r

\* The registry does not know it, or a server of that name is already there.
Fetches(r) ==
    /\ request[r].at = "fetch"
    /\ \/ Ends(r, "failed")
       \/ IF wanted[r].server \in DOMAIN mcpFile THEN Ends(r, "duplicate")
          ELSE Moves(r, [request[r] EXCEPT !.at = "read"])
    /\ UNCHANGED <<wanted, mcpFile, mcpSession, recorded, toolMap, recordLock>>

\* The server a request works on next, and how: enabled servers are reconnected, then the
\* disabled ones put down.
Continues(o) ==
    LET enabled == {s \in o.todo : o.seen[s].enabled}
    IN  IF enabled # {} THEN {[o EXCEPT !.at = "list", !.on = s, !.todo = @ \ {s}] : s \in enabled}
        ELSE {[o EXCEPT !.at = "put down", !.on = s, !.todo = @ \ {s}] : s \in o.todo}
Proceeds(r, o) ==
    IF o.todo = {} THEN Ends(r, IF wanted[r].do \in {"connect", "install"} THEN o.answer ELSE "ok")
    ELSE \E next \in Continues(o) : Moves(r, next)

Reads(r) ==
    LET do == wanted[r].do
        o == [request[r] EXCEPT !.seen = mcpFile]
        known == wanted[r].server \in DOMAIN mcpFile
    IN  /\ request[r].at = "read"
        /\ \/ do \in {"add", "install"} /\ known /\ Ends(r, "duplicate")
           \/ do \in {"add", "install"} /\ ~known /\ Moves(r, [o EXCEPT !.at = "write"])
           \/ do = "reconnect" /\ Proceeds(r, [o EXCEPT !.todo = DOMAIN mcpFile])
           \/ do \in {"update", "remove", "connect", "disconnect"} /\ ~known /\ Ends(r, "not_found")
           \/ do \in {"update", "remove"} /\ known /\ Moves(r, [o EXCEPT !.at = "write"])
           \/ do = "connect" /\ known /\ Moves(r, [o EXCEPT !.at = "list"])
           \/ do = "disconnect" /\ known /\ Moves(r, [o EXCEPT !.at = "put down"])
        /\ UNCHANGED <<wanted, mcpFile, mcpSession, recorded, toolMap, recordLock>>

\* The whole document is written, from the one read: an update keeps what it does not name.
Written(r) ==
    LET seen == request[r].seen
        s == wanted[r].server
    IN  CASE wanted[r].do = "add" -> Over(seen, Only(s, wanted[r].config))
          [] wanted[r].do = "install" -> Over(seen, Only(s, PackageConfig(wanted[r].config)))
          [] wanted[r].do = "update" -> [seen EXCEPT ![s] = Over(wanted[r].config, @)]
          [] wanted[r].do = "remove" -> [x \in DOMAIN seen \ {s} |-> seen[x]]
Writes(r) ==
    /\ request[r].at = "write" /\ mcpFile' = Written(r)
    /\ CASE wanted[r].do = "add" -> Ends(r, "ok")
         [] wanted[r].do = "install" -> Moves(r, [request[r] EXCEPT !.at = "reread"])
         [] OTHER -> Moves(r, [request[r] EXCEPT !.at = "forget"])
    /\ UNCHANGED <<wanted, mcpSession, recorded, toolMap, recordLock>>
WriteFails(r) ==
    /\ request[r].at = "write" /\ Ends(r, "failed")
    /\ UNCHANGED <<wanted, mcpFile, mcpSession, recorded, toolMap, recordLock>>
\* An installed server is connected by the same request, if it is still there.
Rereads(r) ==
    /\ request[r].at = "reread"
    /\ IF wanted[r].server \in DOMAIN mcpFile
       THEN Moves(r, [request[r] EXCEPT !.at = "list", !.seen = mcpFile]) ELSE Ends(r, "failed")
    /\ UNCHANGED <<wanted, mcpFile, mcpSession, recorded, toolMap, recordLock>>

\* An update or a removal drops the session, a disconnect leaves it disconnected.
Forgets(r) ==
    /\ request[r].at \in {"forget", "put down"}
    /\ mcpSession' = [mcpSession EXCEPT ![request[r].on] = IF request[r].at = "forget" THEN "none" ELSE "disconnected"]
    /\ Moves(r, [request[r] EXCEPT !.at = "take"])
    /\ UNCHANGED <<wanted, mcpFile, recorded, toolMap, recordLock>>

\* tools/list answers or fails; the config it was asked with is the one read before.
Lists(r) ==
    /\ request[r].at = "list"
    /\ \E status \in {"connected", "error"} :
          /\ mcpSession' = [mcpSession EXCEPT ![request[r].on] = status]
          /\ Moves(r, [request[r] EXCEPT !.at = IF status = "connected" THEN "lock" ELSE "take", !.answer = status])
    /\ UNCHANGED <<wanted, mcpFile, recorded, toolMap, recordLock>>

\* unregister_server_tools: the names are taken out of the record, then out of the
\* registry one at a time, the record's lock given back in between.
Unrecords(r) ==
    LET s == request[r].on
    IN  /\ request[r].at = "take" /\ recordLock = 0
        /\ recorded' = [recorded EXCEPT ![s] = {}]
        /\ Moves(r, [request[r] EXCEPT !.at = "drop", !.left = recorded[s]])
        /\ UNCHANGED <<wanted, mcpFile, mcpSession, toolMap, recordLock>>
ToolsWithout(names) == [n \in DOMAIN toolMap \ names |-> toolMap[n]]
Drops(r) ==
    /\ request[r].at = "drop"
    /\ \/ \E n \in request[r].left :
             toolMap' = ToolsWithout({n}) /\ Moves(r, [request[r] EXCEPT !.left = @ \ {n}])
       \/ request[r].left = {} /\ Proceeds(r, request[r]) /\ UNCHANGED toolMap
    /\ UNCHANGED <<wanted, mcpFile, mcpSession, recorded, recordLock>>

\* register_server_tools: the names registered before are dropped, then each tool is
\* registered unless its name is taken, then the names are recorded.
\* Mutant: the record's lock is not kept until the names are recorded.
ReplacesUnlocked(r) ==
    LET s == request[r].on
    IN  /\ request[r].at = "lock" /\ recordLock = 0
        /\ recorded' = [recorded EXCEPT ![s] = {}] /\ toolMap' = ToolsWithout(recorded[s])
        /\ Moves(r, [request[r] EXCEPT !.at = "register", !.left = McpOffers[s], !.got = {}])
        /\ UNCHANGED <<wanted, mcpFile, mcpSession, recordLock>>
Replaces(r) ==
    LET s == request[r].on
    IN  /\ request[r].at = "lock" /\ recordLock = 0 /\ recordLock' = r
        /\ recorded' = [recorded EXCEPT ![s] = {}] /\ toolMap' = ToolsWithout(recorded[s])
        /\ Moves(r, [request[r] EXCEPT !.at = "register", !.left = McpOffers[s], !.got = {}])
        /\ UNCHANGED <<wanted, mcpFile, mcpSession>>
Registers(r) ==
    LET s == request[r].on
    IN  /\ request[r].at = "register"
        /\ \E t \in request[r].left :
             LET n == McpToolName[<<s, t>>]
                 o == [request[r] EXCEPT !.left = @ \ {t}]
             IN  IF n \in DOMAIN toolMap THEN Moves(r, o) /\ UNCHANGED toolMap
                 ELSE /\ toolMap' = Over(toolMap, Only(n, [owner |-> s, decision |-> ToolPolicy(request[r].seen[s])]))
                      /\ Moves(r, [o EXCEPT !.got = @ \cup {n}])
        /\ UNCHANGED <<wanted, mcpFile, mcpSession, recorded, recordLock>>
Records(r) ==
    /\ request[r].at = "register" /\ request[r].left = {}
    /\ recorded' = [recorded EXCEPT ![request[r].on] = request[r].got] /\ recordLock' = 0
    /\ Proceeds(r, [request[r] EXCEPT !.got = {}])
    /\ UNCHANGED <<wanted, mcpFile, mcpSession, toolMap>>

McpNext ==
    \E r \in AdminRequests :
       \/ Submits(r) \/ Fetches(r) \/ Reads(r) \/ Writes(r) \/ WriteFails(r) \/ Rereads(r) \/ Forgets(r)
       \/ Lists(r) \/ Unrecords(r) \/ Drops(r) \/ Replaces(r) \/ Registers(r) \/ Records(r)
McpSpec == McpInit /\ [][McpNext]_mcpVars

-----------------------------------------------------------------------------
(* Properties *)

Owned(s) == {n \in DOMAIN toolMap : toolMap[n].owner = s}

\* The record and the registry tell the same names, but for those a request is about to
\* remove or to record: no tool is left that nothing will ever remove, none is removed by a
\* server that did not register it, and no tool of another kind is replaced
\* (mcp_admin.rs:366-373: the lock is held so that racing connects do not leak entries).
ToolsTracked ==
    /\ "builtin" \in DOMAIN toolMap
    /\ \A s \in Hosts :
         /\ recorded[s] \subseteq Owned(s)
         /\ Owned(s) = recorded[s] \cup (UNION {request[r].left : r \in {q \in AdminRequests : request[q].at = "drop" /\ request[q].on = s}})
                                   \cup (UNION {request[r].got : r \in {q \in AdminRequests : request[q].at = "register" /\ request[q].on = s}})

\* After a request that met no other, the registry is what its outcome says: a changed,
\* removed, disconnected or failing server has no tool in it (mcp_admin.rs:577), a connected
\* one has every tool it lists under the decision its config now gives, unless the name is
\* another's.
Current(s) == \A n \in Owned(s) : toolMap[n].decision = ToolPolicy(mcpFile[s])
Offered(s) ==
    /\ mcpSession[s] = "connected" /\ Current(s)
    /\ \A t \in McpOffers[s] : McpToolName[<<s, t>>] \in DOMAIN toolMap
Down(s) == mcpSession[s] # "connected" /\ Owned(s) = {}
OutcomeOf(r) ==
    LET s == wanted[r].server
        ok == request[r].answer \in {"ok", "connected"}
    IN  CASE wanted[r].do \in {"update", "remove", "disconnect"} -> ok => Down(s)
          [] wanted[r].do = "connect" -> IF ok THEN Offered(s) ELSE request[r].answer = "error" => Down(s)
          [] wanted[r].do = "install" -> request[r].answer = "connected" => Offered(s) /\ ToolPolicy(mcpFile[s]) = "ask"
          [] wanted[r].do = "reconnect" -> \A x \in DOMAIN mcpFile :
                Down(x) \/ (mcpFile[x].enabled /\ mcpSession[x] = "connected" /\ Current(x))
          [] wanted[r].do = "add" -> ok => s \in DOMAIN mcpFile
OutcomeHolds == latest # 0 /\ Running = {} /\ request[latest].alone => OutcomeOf(latest)

\* What requests do to the servers an operator configures keeps the agent's registry tracked,
\* and true to the outcome each of them is told (mcp_admin.rs, CliMcpAdmin).
McpHolds == ToolsTracked /\ OutcomeHolds

\* Not so: a connect that was listing while an update or a removal passed registers the
\* tools under the old config (mcp_admin.rs:577 "A config change invalidates the cached
\* session and its agent tools"); and two requests that change the document at once both
\* answer ok, with one change in it.
NoStaleTools == Running = {} => \A s \in Hosts : \A n \in Owned(s) : s \in DOMAIN mcpFile /\ toolMap[n].decision = ToolPolicy(mcpFile[s])
AddsAreKept ==
    Running = {} => \A r \in AdminRequests : wanted[r].do = "add" /\ request[r].answer = "ok"
                        => wanted[r].server \in DOMAIN mcpFile \/ \E q \in AdminRequests : wanted[q].do = "remove"
\* A tool whose name was another server's is not registered when that name becomes free.
ConnectedOffersAll ==
    Running = {} => \A s \in Hosts : mcpSession[s] = "connected" =>
                        \A t \in McpOffers[s] : McpToolName[<<s, t>>] \in DOMAIN toolMap
================================================================================
