----------------------------- MODULE KeyedCommands ------------------------------
(***************************************************************************)
(* The commands that change the legacy tables (cool-app-server             *)
(* legacy/mod.rs and admin.rs, cool-cli rss_feed.rs, cool-store domains),  *)
(* each run under the idempotency key its client chose (cool-store         *)
(* idempotency.rs): reserve the key, run the action, store its answer.     *)
(*                                                                         *)
(* Every store function locks the one connection; what it does under one   *)
(* lock is a section here, and a command is the sequence of its sections,  *)
(* so that commands of several clients, and retries of one, interleave     *)
(* between sections.  One thing goes wrong in a behaviour: a section fails  *)
(* with an error of the file, or the process dies.  The tables have plain INTEGER PRIMARY   *)
(* KEYs and foreign keys are not enforced: the id of a deleted last row is *)
(* given again; `birth` tells rows of one id apart and is not in the file. *)
(***************************************************************************)
EXTENDS Integers, Sequences, SequencesExt, FiniteSets

CONSTANTS
    Scripts,        \* the situations: rows there from the start, and the commands sent
    FeedKeeps       \* MAX_ENTRIES_PER_SUB

ASSUME KeyedAssumption == FeedKeeps \in Nat \ {0}

VARIABLES
    script,         \* the situation, fixed
    tables,         \* per table: its rows, by id
    births,         \* rows born so far
    claims,         \* rust_idempotency: the keys taken
    tries,          \* per command sent: how far it is
    chatLinks,      \* rust_conversation_links: the birth a conversation id was linked at
    execRuns,       \* the exec keys of replays: the canonical run of a replay row
    auxRuns,        \* canonical runs started for replays
    driving,        \* in memory: tasks driving each of those runs
    mishaps         \* [broken, crashed]: what has gone wrong so far; at most one thing does

keyedVars == <<script, tables, births, claims, tries, chatLinks, execRuns, auxRuns, driving, mishaps>>
linkVars == <<chatLinks, execRuns, auxRuns, driving>>

SentCommands == DOMAIN script.commands
NoneYet == [x \in {} |-> 0]
BlankRow == [birth |-> 0, of |-> 0, name |-> "", state |-> 0]
NoAnswer == [made |-> 0, row |-> BlankRow, count |-> 0]
RowIds(t) == DOMAIN tables[t]
NewId(t) == 1 + (IF RowIds(t) = {} THEN 0 ELSE CHOOSE n \in RowIds(t) : \A m \in RowIds(t) : m <= n)
ChildTable == [conversation |-> "message", feed |-> "entry", hook |-> "delivery"]
ParentTable == [message |-> "conversation", run |-> "conversation", entry |-> "feed", delivery |-> "hook"]

-----------------------------------------------------------------------------
(* Commands as sequences of sections.  Id 0 is the row the command made itself.    *)

Section(do, t, id) == [do |-> do, table |-> t, id |-> id, name |-> "", state |-> 0, skips |-> 0]
Reads(t, id) == Section("read", t, id)
Makes(t, of, name, state) == [Section("make", t, of) EXCEPT !.name = name, !.state = state]
Sets(t, id, name, state) == [Section("set", t, id) EXCEPT !.name = name, !.state = state]
Removes(t, id) == Section("remove", t, id)

\* A command with its key; a replay goes on after its answer is stored.
Keyed(key, action) == [key |-> key, action |-> action, then |-> <<>>]

CreateConversation(title) == <<Makes("conversation", 0, title, 0), Reads("conversation", 0)>>
UpdateConversation(id, title) == <<Sets("conversation", id, title, 0), Reads("conversation", id)>>
DeleteConversation(id) == <<Removes("conversation", id)>>
\* Id 0: into the conversation the command made.
AddMessage(id, text) == <<[Section("say", "message", id) EXCEPT !.name = text], Section("heard", "message", id)>>
\* A failing section of one conversation skips the rest of it, and only of it.
BulkConversations(ids, action, folder) ==
    FlattenSeq([i \in DOMAIN ids |->
        IF action = "delete"
        THEN <<[Removes("conversation", ids[i]) EXCEPT !.skips = 1], Section("count", "", 0)>>
        ELSE <<[Sets("conversation", ids[i], folder, 0) EXCEPT !.skips = 2],
               [Reads("conversation", ids[i]) EXCEPT !.skips = 1], Section("count", "", 0)>>])

CreateProvider(isDefault) ==
    <<Makes("provider", 0, "", FALSE), Reads("provider", 0)>>
        \o IF isDefault THEN <<Section("default", "provider", 0), Reads("provider", 0)>> ELSE <<>>
UpdateProvider(id, isDefault) ==
    <<[Section("patch", "provider", id) EXCEPT !.state = isDefault], Reads("provider", id)>>
DeleteProvider(id) == <<Removes("provider", id)>>

CreateProfile(slug) == <<Makes("profile", 0, slug, "own"), Reads("profile", 0)>>
UpdateProfile(id, slug) == <<Sets("profile", id, slug, "own"), Reads("profile", id)>>
DeleteProfile(id) == <<Removes("profile", id)>>
SeedProfiles(slugs) ==
    FlattenSeq([i \in DOMAIN slugs |->
        <<[Section("preset", "profile", 0) EXCEPT !.name = slugs[i]],
          Makes("profile", 0, slugs[i], "builtin"), Reads("profile", 0), Section("count", "", 0)>>])
CloneProfile(id) == <<Reads("profile", id), Section("slug", "profile", 0),
                      [Makes("profile", 0, <<>>, "own") EXCEPT !.do = "copy"], Reads("profile", 0)>>
Playground(profile, prompt) ==
    <<Reads("profile", profile)>> \o CreateConversation("playground")
        \o IF prompt = "" THEN <<>>
           ELSE AddMessage(0, prompt)

Subscribe(url) == <<Makes("feed", 0, url, 0), Reads("feed", 0)>>
Unsubscribe(id) == <<Removes("feed", id)>>
EntryRead(id) == <<[Section("mark", "entry", id) EXCEPT !.state = TRUE]>>
\* The title and site the feed names itself are not kept here: filling them in is a read.
FetchFeed(id, guids) ==
    <<Reads("feed", id), Section("download", "feed", id), Reads("feed", id)>>
        \o [i \in DOMAIN guids |-> [Section("entry", "feed", id) EXCEPT !.name = guids[i]]]
        \o <<Section("prune", "feed", id), Section("recount", "feed", id)>>

CreateHook == <<Makes("hook", 0, "", 0), Reads("hook", 0)>>
UpdateHook(id, name) == <<Sets("hook", id, name, 0), Reads("hook", id)>>
DeleteHook(id) == <<Removes("hook", id)>>
ReplayWebhook(event, id) ==
    <<Reads("delivery", event), Reads("hook", id), Makes("delivery", id, "again", "processing"),
      Section("dispatch", "task", 0), Section("outcome", "delivery", 0), Reads("delivery", 0)>>

ReplayExecution(run, chat) ==
    <<Reads("run", run), Reads("conversation", chat)>> \o AddMessage(chat, "[Replay]")
        \o <<Makes("run", chat, "replay", 0), Reads("run", 0)>>
\* What inspector_replay does after the answer is stored, whoever stored it.
SpawnReplay(chat) ==
    <<[Section("linked", "", chat) EXCEPT !.skips = 2], Reads("conversation", chat), Section("link", "", chat),
      Section("exec", "", 0), Section("start", "", 0), Section("record", "", 0),
      Section("bind", "run", 0), Section("drive", "", 0)>>

-----------------------------------------------------------------------------
(* The situations: sound tables, and commands the operators above build.           *)

EntriesIn(rows, feed) == {n \in DOMAIN rows["entry"] : rows["entry"][n].of = feed}
DefaultsIn(rows) == {n \in DOMAIN rows["provider"] : rows["provider"][n].state}
OneDefaultIn(rows) == Cardinality(DefaultsIn(rows)) <= 1
FeedsAgreeIn(rows) ==
    /\ \A f \in DOMAIN rows["feed"] : rows["feed"][f].state = Cardinality(EntriesIn(rows, f))
    /\ \A m, n \in DOMAIN rows["entry"] :
          m # n /\ rows["entry"][m].of = rows["entry"][n].of => rows["entry"][m].name # rows["entry"][n].name
NoOrphansIn(rows) == \A t \in {"message", "entry", "delivery"} :
    \A n \in DOMAIN rows[t] : rows[t][n].of \in DOMAIN rows[ParentTable[t]]

KeyedTables == {"conversation", "message", "run", "provider", "profile", "feed", "entry", "hook", "delivery"}
\* The order of the entries stands for the times they were published at.
SoundRow(t, r) ==
    /\ DOMAIN r = DOMAIN BlankRow
    /\ t = "provider" => r.state \in BOOLEAN
    /\ t = "entry" => r.name \in Int
SoundRows(rows) ==
    /\ DOMAIN rows = KeyedTables
    /\ \A t \in KeyedTables :
          /\ IsFiniteSet(DOMAIN rows[t]) /\ DOMAIN rows[t] \subseteq Nat \ {0}
          /\ \A n \in DOMAIN rows[t] : SoundRow(t, rows[t][n])
    /\ OneDefaultIn(rows) /\ FeedsAgreeIn(rows) /\ NoOrphansIn(rows)

TablesOf == [make |-> KeyedTables \ {"message", "entry"}, copy |-> {"profile"}, say |-> {"message"},
             set |-> {"conversation", "profile", "hook"}, default |-> {"provider"}, patch |-> {"provider"},
             remove |-> {"conversation", "provider", "profile", "feed", "hook"}]
SoundSection(s) ==
    /\ DOMAIN s = DOMAIN Section("", "", 0) /\ s.skips \in Nat /\ s.id \in Nat
    /\ s.do \in DOMAIN TablesOf => s.table \in TablesOf[s.do]
    /\ s.do \in {"make", "copy"} =>
          /\ s.id # 0 <=> s.table \in {"run", "delivery"}
          /\ s.table = "provider" => s.state = FALSE
          /\ s.table = "feed" => s.state = 0
    /\ s.do = "patch" => s.state \in BOOLEAN
    /\ s.do = "entry" => s.name \in Int
\* An action that makes one row of a run, or fails.
MakesRun(action) ==
    /\ \A i \in DOMAIN action : action[i].skips = 0 /\ action[i].do \in {"read", "say", "heard", "make"}
                                /\ (action[i].do = "make" => action[i].table = "run")
    /\ \E i \in DOMAIN action : action[i].do = "make"
SoundCommand(c) ==
    /\ Len(c.action) \in Nat /\ c.action = [i \in 1..Len(c.action) |-> c.action[i]]
    /\ \A i \in DOMAIN c.action : SoundSection(c.action[i])
    /\ c.then # <<>> => MakesRun(c.action) /\ c.then = SpawnReplay(c.then[1].id)
ASSUME ScriptsAssumption ==
    \A s \in Scripts : SoundRows(s.rows) /\ \A a \in DOMAIN s.commands : SoundCommand(s.commands[a])

-----------------------------------------------------------------------------
(* Taking and giving back a key *)

Try(a) == tries[a]
CommandOf(a) == script.commands[a]
KeyOf(a) == CommandOf(a).key
Broken == mishaps.broken
GoneWrong == mishaps.broken \/ mishaps.crashed
CommandAt(a, at) == tries' = [tries EXCEPT ![a].at = at]

\* An answer: the row made or read last, and how many.
IsGiven(a, answer) ==
    tries' = [tries EXCEPT ![a].answer = answer, ![a].made = answer.made, ![a].todo = CommandOf(a).then,
                           ![a].at = IF CommandOf(a).then = <<>> THEN "ok" ELSE "then"]

\* A claim that is only pending is taken over by the next attempt.
ReserveOverPending(a) ==
    /\ Try(a).at = "idle"
    /\ LET key == KeyOf(a) IN
       IF key \notin DOMAIN claims \/ ~claims[key].done
       THEN /\ claims' = [k \in DOMAIN claims \cup {key} |->
                             IF k = key THEN [input |-> CommandOf(a).action, done |-> FALSE, answer |-> NoAnswer] ELSE claims[k]]
            /\ tries' = [tries EXCEPT ![a].at = "work", ![a].todo = CommandOf(a).action]
       ELSE /\ UNCHANGED claims
            /\ IF claims[key].input = CommandOf(a).action
               THEN IsGiven(a, claims[key].answer) ELSE CommandAt(a, "refused")
    /\ UNCHANGED <<script, tables, births, linkVars, mishaps>>

\* reserve_idempotent: a pending key is refused, a done one answers what it stored.
ReserveKey(a) ==
    /\ Try(a).at = "idle"
    /\ LET key == KeyOf(a) IN
       IF key \notin DOMAIN claims
       THEN /\ claims' = [k \in DOMAIN claims \cup {key} |->
                             IF k = key THEN [input |-> CommandOf(a).action, done |-> FALSE, answer |-> NoAnswer] ELSE claims[k]]
            /\ tries' = [tries EXCEPT ![a].at = "work", ![a].todo = CommandOf(a).action]
       ELSE /\ UNCHANGED claims
            /\ IF claims[key].input = CommandOf(a).action /\ claims[key].done
               THEN IsGiven(a, claims[key].answer) ELSE CommandAt(a, "refused")
    /\ UNCHANGED <<script, tables, births, linkVars, mishaps>>
Forgets(key) == [k \in DOMAIN claims \ {key} |-> claims[k]]
\* release_idempotent: its own failure is ignored and leaves the key pending.
ReleaseKey(a) ==
    /\ Try(a).at = "failing" /\ CommandAt(a, "failed")
    /\ \/ claims' = Forgets(KeyOf(a)) /\ UNCHANGED mishaps
       \/ ~GoneWrong /\ mishaps' = [mishaps EXCEPT !.broken = TRUE] /\ UNCHANGED claims
    /\ UNCHANGED <<script, tables, births, linkVars>>

\* complete_idempotent: when it fails the caller hears an error and the key stays pending.
CompleteKey(a) ==
    /\ Try(a).at = "work" /\ Try(a).todo = <<>>
    /\ LET answer == [made |-> Try(a).made, row |-> Try(a).seen, count |-> Try(a).count] IN
       \/ /\ claims' = [claims EXCEPT ![KeyOf(a)].done = TRUE, ![KeyOf(a)].answer = answer]
          /\ IsGiven(a, answer) /\ UNCHANGED mishaps
       \/ /\ ~GoneWrong /\ mishaps' = [mishaps EXCEPT !.broken = TRUE]
          /\ CommandAt(a, "unknown") /\ UNCHANGED claims
    /\ UNCHANGED <<script, tables, births, linkVars>>

-----------------------------------------------------------------------------
(* The sections *)

Does(a, do) == Try(a).at = "work" /\ Try(a).todo # <<>> /\ Head(Try(a).todo).do = do
Now(a) == Head(Try(a).todo)
Target(a) == IF Now(a).id = 0 THEN Try(a).made ELSE Now(a).id
There(t, id) == id \in RowIds(t)
RestOf(a) == Tail(Try(a).todo)
GoesTo(a, changes) == tries' = [tries EXCEPT ![a] = [changes EXCEPT !.todo = RestOf(a)]]
Wrote(a) == [Try(a) EXCEPT !.writes = @ + 1]
\* A section of a bulk that fails skips to the next conversation, any other ends the action.
Fails(a) ==
    IF Now(a).skips > 0
    THEN tries' = [tries EXCEPT ![a].todo = SubSeq(@, 2 + Now(a).skips, Len(@))]
    ELSE CommandAt(a, "failing")
Stays == UNCHANGED <<script, claims, linkVars, mishaps>>
NoWrite == UNCHANGED <<tables, births>> /\ Stays

WithRow(t, id, row) == [tables EXCEPT ![t] = [n \in RowIds(t) \cup {id} |-> IF n = id THEN row ELSE tables[t][n]]]
WithoutRows(t, id) ==
    [u \in DOMAIN tables |->
        IF u = t THEN [n \in RowIds(t) \ {id} |-> tables[t][n]]
        ELSE IF t \in DOMAIN ChildTable /\ u = ChildTable[t]
        THEN [n \in {m \in RowIds(u) : tables[u][m].of # id} |-> tables[u][n]]
        ELSE tables[u]]
Inserted(t, of, name, state) ==
    /\ births' = births + 1
    /\ tables' = WithRow(t, NewId(t), [birth |-> births + 1, of |-> of, name |-> name, state |-> state])
\* Feeds have one url each, profiles one slug.
Taken(t, name, but) == t \in {"feed", "profile"} /\ \E n \in RowIds(t) \ {but} : tables[t][n].name = name

ReadSection(a) ==
    /\ Does(a, "read")
    /\ IF There(Now(a).table, Target(a))
       THEN GoesTo(a, [Try(a) EXCEPT !.seen = tables[Now(a).table][Target(a)]]) ELSE Fails(a)
    /\ NoWrite
CountSection(a) == Does(a, "count") /\ GoesTo(a, [Try(a) EXCEPT !.count = @ + 1]) /\ NoWrite

MakeSection(a) ==
    /\ Does(a, "make") \/ Does(a, "copy")
    /\ LET s == Now(a)
           name == IF s.do = "copy" THEN Try(a).slug ELSE s.name
       IN IF (s.id # 0 => There(ParentTable[s.table], s.id)) /\ ~Taken(s.table, name, 0)
          THEN Inserted(s.table, s.id, name, s.state) /\ GoesTo(a, [Wrote(a) EXCEPT !.made = NewId(s.table)])
          ELSE Fails(a) /\ UNCHANGED <<tables, births>>
    /\ Stays
SetSection(a) ==
    /\ Does(a, "set")
    /\ LET s == Now(a) IN
       IF There(s.table, s.id) /\ ~Taken(s.table, s.name, s.id)
       THEN tables' = [tables EXCEPT ![s.table][s.id].name = s.name] /\ GoesTo(a, Wrote(a))
       ELSE Fails(a) /\ UNCHANGED tables
    /\ UNCHANGED births /\ Stays
\* A built-in profile is not deleted.
RemoveSection(a) ==
    /\ Does(a, "remove")
    /\ LET s == Now(a) IN
       IF There(s.table, s.id) /\ (s.table = "profile" => tables[s.table][s.id].state # "builtin")
       THEN tables' = WithoutRows(s.table, s.id) /\ GoesTo(a, Wrote(a))
       ELSE Fails(a) /\ UNCHANGED tables
    /\ UNCHANGED births /\ Stays

SaySection(a) ==
    /\ Does(a, "say")
    /\ IF There("conversation", Target(a))
       THEN Inserted("message", Target(a), Now(a).name, 0) /\ GoesTo(a, [Wrote(a) EXCEPT !.said = NewId("message")])
       ELSE Fails(a) /\ UNCHANGED <<tables, births>>
    /\ Stays
HeardSection(a) ==
    /\ Does(a, "heard")
    /\ IF There("conversation", Target(a)) /\ There("message", Try(a).said)
          /\ tables["message"][Try(a).said].of = Target(a)
       THEN GoesTo(a, Try(a)) ELSE Fails(a)
    /\ NoWrite

\* set_default_provider is one transaction.
DefaultSection(a) ==
    /\ Does(a, "default")
    /\ IF There("provider", Target(a))
       THEN /\ tables' = [tables EXCEPT !["provider"] =
                            [n \in RowIds("provider") |-> [@[n] EXCEPT !.state = (n = Target(a))]]]
            /\ GoesTo(a, Wrote(a))
       ELSE Fails(a) /\ UNCHANGED tables
    /\ UNCHANGED births /\ Stays
\* update_provider is two statements that commit by themselves, under one lock: an error, or
\* a death, between them leaves no default.
PatchSection(a) ==
    /\ Does(a, "patch")
    /\ LET s == Now(a)
           cleared == [n \in RowIds("provider") |->
                         [tables["provider"][n] EXCEPT !.state = @ /\ (n = s.id \/ ~s.state)]]
       IN \/ /\ There("provider", s.id) /\ GoesTo(a, Wrote(a)) /\ UNCHANGED mishaps
             /\ tables' = [tables EXCEPT !["provider"] = [cleared EXCEPT ![s.id].state = s.state]]
          \/ /\ There("provider", s.id) /\ s.state /\ ~GoneWrong
             /\ tables' = [tables EXCEPT !["provider"] = cleared]
             /\ mishaps' = [mishaps EXCEPT !.broken = TRUE]
             /\ tries' = [tries EXCEPT ![a] = [Wrote(a) EXCEPT !.at = "failing"]]
          \/ ~There("provider", s.id) /\ Fails(a) /\ UNCHANGED <<tables, mishaps>>
    /\ UNCHANGED <<births, script, claims, linkVars>>

\* One look-up per candidate; another command may take the slug before it is used.
SlugSection(a) ==
    /\ Does(a, "slug")
    /\ LET slug == Try(a).seen.name \o <<"copy", Try(a).tried>> IN
       IF Taken("profile", slug, 0) THEN tries' = [tries EXCEPT ![a].tried = @ + 1]
          ELSE GoesTo(a, [Try(a) EXCEPT !.slug = slug])
    /\ NoWrite
PresetSection(a) ==
    /\ Does(a, "preset")
    /\ IF Taken("profile", Now(a).name, 0)
       THEN tries' = [tries EXCEPT ![a].todo = SubSeq(@, 5, Len(@))] ELSE GoesTo(a, Try(a))
    /\ NoWrite

\* The feed comes, or it does not, or it cannot be parsed: then only the failure is recorded.
DownloadSection(a) ==
    /\ Does(a, "download")
    /\ \/ GoesTo(a, Try(a))
       \/ tries' = [tries EXCEPT ![a].todo = <<Reads("feed", Now(a).id)>>]
    /\ NoWrite
Entries(feed) == EntriesIn(tables, feed)
EntrySection(a) ==
    /\ Does(a, "entry")
    /\ LET s == Now(a) IN
       \/ /\ There("feed", s.id) /\ \A n \in Entries(s.id) : tables["entry"][n].name # s.name
          /\ births' = births + 1
          /\ tables' = [WithRow("entry", NewId("entry"), [birth |-> births + 1, of |-> s.id, name |-> s.name, state |-> FALSE])
                         EXCEPT !["feed"][s.id].state = @ + 1]
          /\ GoesTo(a, [Wrote(a) EXCEPT !.count = @ + 1])
       \/ /\ There("feed", s.id) /\ \E n \in Entries(s.id) : tables["entry"][n].name = s.name
          /\ GoesTo(a, Try(a)) /\ UNCHANGED <<tables, births>>
       \/ ~There("feed", s.id) /\ Fails(a) /\ UNCHANGED <<tables, births>>
    /\ Stays
\* The oldest go first; a guid stands for its time of publication too.
PruneSection(a) ==
    /\ Does(a, "prune")
    /\ LET id == Now(a).id
           over == Cardinality(Entries(id)) - FeedKeeps
           oldest == {n \in Entries(id) :
                        Cardinality({m \in Entries(id) : tables["entry"][m].name < tables["entry"][n].name}) < over}
       IN IF Try(a).count = 0 THEN GoesTo(a, Try(a)) /\ UNCHANGED tables
          ELSE IF ~There("feed", id) THEN Fails(a) /\ UNCHANGED tables
          ELSE /\ GoesTo(a, Try(a))
               /\ tables' = IF over <= 0 THEN tables
                            ELSE [tables EXCEPT !["entry"] = [n \in RowIds("entry") \ oldest |-> @[n]],
                                                !["feed"][id].state = FeedKeeps]
    /\ UNCHANGED births /\ Stays
RecountSection(a) ==
    /\ Does(a, "recount")
    /\ LET id == Now(a).id IN
       IF There("feed", id)
       THEN tables' = [tables EXCEPT !["feed"][id].state = Cardinality(Entries(id))] /\ GoesTo(a, Try(a))
       ELSE Fails(a) /\ UNCHANGED tables
    /\ UNCHANGED births /\ Stays
MarkSection(a) ==
    /\ Does(a, "mark")
    /\ LET s == Now(a) IN
       IF There("entry", s.id)
       THEN tables' = [tables EXCEPT !["entry"][s.id].state = s.state] /\ GoesTo(a, Wrote(a))
       ELSE Fails(a) /\ UNCHANGED tables
    /\ UNCHANGED births /\ Stays

\* The task of a hook is dispatched, or its dispatch fails: either way the delivery says so.
DispatchSection(a) ==
    /\ Does(a, "dispatch")
    /\ \E how \in {"completed", "failed"} :
          GoesTo(a, [Try(a) EXCEPT !.dispatched = how, !.writes = @ + (IF how = "completed" THEN 1 ELSE 0)])
    /\ NoWrite
OutcomeSection(a) ==
    /\ Does(a, "outcome")
    /\ IF There("delivery", Target(a))
       THEN tables' = [tables EXCEPT !["delivery"][Target(a)].state = Try(a).dispatched] /\ GoesTo(a, Wrote(a))
       ELSE Fails(a) /\ UNCHANGED tables
    /\ UNCHANGED births /\ Stays

-----------------------------------------------------------------------------
(* After the answer: a replay is given a session, a canonical run and a driver *)

Follows(a, do) == Try(a).at = "then" /\ Head(Try(a).todo).do = do
EndsThen(todo) == IF todo = <<>> THEN "ok" ELSE "then"
GoesOn(a, skipped) ==
    LET todo == SubSeq(Try(a).todo, 2 + skipped, Len(Try(a).todo))
    IN tries' = [tries EXCEPT ![a].todo = todo, ![a].at = EndsThen(todo)]
KeepsTables == UNCHANGED <<script, tables, births, claims, mishaps>>

\* A conversation linked once is not looked at again.
LinkedSection(a) ==
    /\ Follows(a, "linked")
    /\ GoesOn(a, IF Now(a).id \in DOMAIN chatLinks THEN Now(a).skips ELSE 0)
    /\ KeepsTables /\ UNCHANGED linkVars
ChatSection(a) ==
    /\ Follows(a, "read")
    /\ IF There("conversation", Now(a).id) THEN GoesOn(a, 0) ELSE CommandAt(a, "failed")
    /\ KeepsTables /\ UNCHANGED linkVars
LinkSection(a) ==
    /\ Follows(a, "link") /\ GoesOn(a, 0)
    /\ LET chat == Now(a).id
           born == IF There("conversation", chat) THEN tables["conversation"][chat].birth ELSE 0
       IN chatLinks' = [c \in DOMAIN chatLinks \cup {chat} |->
                           IF c \in DOMAIN chatLinks THEN chatLinks[c] ELSE born]
    /\ KeepsTables /\ UNCHANGED <<execRuns, auxRuns, driving>>

\* A replay that was started before is bound again, the result ignored, and driven if no
\* task of this process has it.
ExecSection(a) ==
    /\ Follows(a, "exec")
    /\ LET row == Try(a).answer.made IN
       IF row \in DOMAIN execRuns
       THEN tries' = [tries EXCEPT ![a].run = execRuns[row],
                                   ![a].todo = <<Section("rebind", "run", 0), Section("undriven", "", 0), Section("drive", "", 0)>>]
       ELSE GoesOn(a, 0)
    /\ KeepsTables /\ UNCHANGED linkVars
StartSection(a) ==
    /\ Follows(a, "start")
    /\ auxRuns' = auxRuns + 1 /\ driving' = Append(driving, 0)
    /\ tries' = [tries EXCEPT ![a].run = auxRuns + 1, ![a].todo = RestOf(a)]
    /\ KeepsTables /\ UNCHANGED <<chatLinks, execRuns>>
\* The key is inserted: it fails when another attempt has recorded it.
RecordSection(a) ==
    /\ Follows(a, "record")
    /\ LET row == Try(a).answer.made IN
       IF row \in DOMAIN execRuns THEN CommandAt(a, "failed") /\ UNCHANGED execRuns
       ELSE /\ GoesOn(a, 0)
            /\ execRuns' = [r \in DOMAIN execRuns \cup {row} |-> IF r = row THEN Try(a).run ELSE execRuns[r]]
    /\ KeepsTables /\ UNCHANGED <<chatLinks, auxRuns, driving>>
\* Rows of runs are never deleted, with their conversation neither.
BindSection(a) ==
    /\ \/ Follows(a, "bind") \/ Follows(a, "rebind")
    /\ tables' = [tables EXCEPT !["run"][Try(a).answer.made].state = Try(a).run] /\ GoesOn(a, 0)
    /\ UNCHANGED <<script, births, claims, mishaps, linkVars>>
UndrivenSection(a) ==
    /\ Follows(a, "undriven")
    /\ GoesOn(a, IF driving[Try(a).run] > 0 THEN 1 ELSE 0)
    /\ KeepsTables /\ UNCHANGED linkVars
DriveSection(a) ==
    /\ Follows(a, "drive") /\ GoesOn(a, 0)
    /\ driving' = [driving EXCEPT ![Try(a).run] = @ + 1]
    /\ KeepsTables /\ UNCHANGED <<chatLinks, execRuns, auxRuns>>

-----------------------------------------------------------------------------
(* What can go wrong *)

\* A section meets an error of the file and changes nothing.
SectionBreaks(a) ==
    /\ ~GoneWrong /\ mishaps' = [mishaps EXCEPT !.broken = TRUE]
    /\ \/ Try(a).at = "work" /\ Try(a).todo # <<>> /\ Now(a).do \notin {"count", "download", "dispatch"} /\ Fails(a)
       \/ Try(a).at = "then" /\ Now(a).do \notin {"undriven", "drive", "rebind"} /\ CommandAt(a, "failed")
       \/ Follows(a, "rebind") /\ GoesOn(a, 0)
    /\ UNCHANGED <<script, tables, births, claims, linkVars>>
KeyedCrash ==
    /\ ~GoneWrong /\ mishaps' = [mishaps EXCEPT !.crashed = TRUE]
    /\ \E a \in SentCommands : Try(a).at \in {"work", "failing", "then"}
    /\ tries' = [a \in SentCommands |-> IF Try(a).at \in {"work", "failing", "then"} THEN [Try(a) EXCEPT !.at = "gone"]
                                 ELSE [Try(a) EXCEPT !.before = (@ \/ Try(a).at # "idle")]]
    /\ driving' = [r \in DOMAIN driving |-> 0]
    /\ UNCHANGED <<script, tables, births, claims, chatLinks, execRuns, auxRuns>>

KeyedInit ==
    /\ script \in Scripts
    /\ tables = script.rows /\ births = 10
    /\ claims = NoneYet /\ chatLinks = NoneYet /\ execRuns = NoneYet
    /\ auxRuns = 0 /\ driving = <<>>
    /\ mishaps = [broken |-> FALSE, crashed |-> FALSE]
    /\ tries = [a \in DOMAIN script.commands |->
                  [at |-> "idle", todo |-> <<>>, made |-> 0, seen |-> BlankRow, count |-> 0, said |-> 0, slug |-> <<>>,
                   tried |-> 1, dispatched |-> "", writes |-> 0, answer |-> NoAnswer, run |-> 0, before |-> FALSE]]

SectionStep(a) ==
    \/ ReadSection(a) \/ CountSection(a) \/ MakeSection(a) \/ SetSection(a) \/ RemoveSection(a)
    \/ SaySection(a) \/ HeardSection(a) \/ DefaultSection(a) \/ PatchSection(a) \/ SlugSection(a)
    \/ PresetSection(a) \/ DownloadSection(a) \/ EntrySection(a) \/ PruneSection(a) \/ RecountSection(a)
    \/ MarkSection(a) \/ DispatchSection(a) \/ OutcomeSection(a)
ReplayStep(a) ==
    \/ LinkedSection(a) \/ ChatSection(a) \/ LinkSection(a) \/ ExecSection(a) \/ StartSection(a)
    \/ RecordSection(a) \/ BindSection(a) \/ UndrivenSection(a) \/ DriveSection(a)
KeyedNext ==
    \/ \E a \in SentCommands : ReserveKey(a) \/ SectionStep(a) \/ CompleteKey(a) \/ ReleaseKey(a) \/ ReplayStep(a) \/ SectionBreaks(a)
    \/ KeyedCrash
KeyedSpec == KeyedInit /\ [][KeyedNext]_keyedVars

-----------------------------------------------------------------------------
(* Properties *)

IsAnswered(a) == Try(a).at \in {"ok", "then"}
Rivals == {p \in SentCommands \X SentCommands : p[1] # p[2] /\ KeyOf(p[1]) = KeyOf(p[2])}

\* Two attempts with one key that are answered are answered alike, and asked the same
\* (idempotency.rs:6-10).
SameAnswer == \A p \in Rivals :
    IsAnswered(p[1]) /\ IsAnswered(p[2]) =>
        Try(p[1]).answer = Try(p[2]).answer /\ CommandOf(p[1]).action = CommandOf(p[2]).action
\* Two attempts with one key both change the tables only when one of them ended in an error
\* and gave the key back (idempotency.rs:12-17).
EffectsOnce == \A p \in Rivals :
    Try(p[1]).writes > 0 /\ Try(p[2]).writes > 0 =>
        \E i \in 1..2 : Try(p[i]).at = "failed" /\ Try(p[i]).answer = NoAnswer
\* At most one provider is the default, whatever overlaps and breaks.
OneDefault == OneDefaultIn(tables)
\* The entry count of a feed counts its entries, and no entry is stored twice, although the
\* schema has no index that says so and two fetches of one feed overlap.
FeedsAgree == FeedsAgreeIn(tables)
\* Messages, entries and deliveries have their conversation, feed and hook: nothing is added
\* to a parent that another command deletes.
NoOrphans == NoOrphansIn(tables)
\* A replay that answered with success has a canonical run of its own that a task of the
\* process drives, and its row is bound to that run unless the binding met an error.
ReplaysRun == \A a \in SentCommands :
    Try(a).at = "ok" /\ CommandOf(a).then # <<>> /\ ~Try(a).before =>
        LET row == Try(a).answer.made IN
        /\ row \in DOMAIN execRuns /\ driving[execRuns[row]] > 0
        /\ ~Broken => tables["run"][row].state = execRuns[row]

CommandsHold == SameAnswer /\ EffectsOnce /\ OneDefault /\ FeedsAgree /\ NoOrphans /\ ReplaysRun

\* What the code or its comments say and the code does not do; each can be added to the run.
\* A key is given back only by an action that did nothing (idempotency.rs:14-17, "the outcome
\* is known: it failed").
ErrorsDidNothing == \A a \in SentCommands : Try(a).at = "failed" /\ Try(a).answer = NoAnswer => Try(a).writes = 0
\* A replay is driven by one task (cool-app-server lib.rs:4783-4785, "never reaches here twice").
OneDriver == \A r \in DOMAIN driving : driving[r] <= 1
\* A conversation is linked to the session that was opened for it, not for a deleted one
\* whose id it was given.
FreshChat == \A c \in DOMAIN chatLinks :
    There("conversation", c) => tables["conversation"][c].birth = chatLinks[c]
================================================================================
