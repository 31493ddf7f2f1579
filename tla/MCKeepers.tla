------------------------------- MODULE MCKeepers -------------------------------
(* The parts that keep something for others, for TLC in one run: a research run  *)
(* and its children, the approval rules, the checkpoints of the working files,   *)
(* the model's context, the plugin store, the legacy tables and the commands on  *)
(* them, the logins of a model provider, the history given in pages, and the file *)
(* tools.  They do not share state, so each behaviour focuses on one of them: its *)
(* component is the whole of its specification, the others stay at one initial    *)
(* state.                                                                         *)
EXTENDS Research, ApprovalRules, FileCheckpoints, ContextCompaction, PluginStore,
        LegacyMirror, ProviderLogin, KeyedCommands, HistoryPages, FileEdits, TLC

CONSTANTS req1, req2, login1, login2, use1, use2, driver1, driver2

VARIABLE focus
Keepers == {"research", "rules", "checkpoints", "context", "plugins", "mirror", "login", "commands", "pages", "edits"}
keepers == <<focus, researchVars, ruleVars, checkpointVars, contextVars, pluginVars,
             mirrorVars, loginVars, keyedVars, pagesVars, editVars>>

-----------------------------------------------------------------------------
(* Constants *)

ResearchLaunches == [by : {"research"}, isolated : {FALSE}, linked : {FALSE}]

\* Two approvals to remember, up to the names of the rules, tickets and requests.
SampleRequests ==
    {a \in [{req1, req2} -> [scope : {"session", "project", "user"}, rule : {"g", "h"},
                                ticket : {1, 2}]] :
        /\ a[req1].rule = "g" /\ a[req1].ticket = 1
        /\ a[req1].scope = "session" => a[req2].scope = "session"
        /\ a[req1].scope = "project" => a[req2].scope # "user"}

\* A login of the server and one of a CLI process; a request of either's driver.
SampleLoginBy == login1 :> "server" @@ login2 :> "cli"
SampleDriverOf == use1 :> driver1 @@ use2 :> driver2

Writing(f) == [tool |-> "write_file", path |-> f]
Shell(f) == [tool |-> "shell", path |-> f]
SampleBatches == {<<Writing("a")>>, <<Shell("b")>>, <<Writing("a"), Writing("b")>>}

\* The tables and the commands of each situation; a key sent twice is a retry.
Seeded(birth, of, name, state) == [birth |-> birth, of |-> of, name |-> name, state |-> state]
NoRows == [t \in {"conversation", "message", "run", "provider", "profile", "feed", "entry", "hook", "delivery"} |-> <<>>]
Chats == [NoRows EXCEPT !["conversation"] = <<Seeded(1, 0, "c1", 0), Seeded(2, 0, "c2", 0)>>, !["message"] = <<Seeded(3, 2, "m", 0)>>]
Ran == [NoRows EXCEPT !["conversation"] = <<Seeded(1, 0, "c1", 0)>>, !["message"] = <<Seeded(2, 1, "m", 0)>>, !["run"] = <<Seeded(3, 1, "r", 0)>>]
ReplayOf1 == [Keyed("replay", ReplayExecution(1, 1)) EXCEPT !.then = SpawnReplay(1)]
Situation(seeded, sent) == [rows |-> seeded, commands |-> sent]
SampleScripts ==
  { Situation(NoRows, <<Keyed("k", CreateConversation("a"))>>),
    Situation(NoRows, <<Keyed("k", CreateConversation("a")), Keyed("k", CreateConversation("a")), Keyed("k", CreateConversation("b"))>>),
    Situation(Chats, <<Keyed("k", BulkConversations(<<1, 2>>, "delete", "")), Keyed("k", BulkConversations(<<1, 2>>, "delete", "")), Keyed("l", AddMessage(2, "x"))>>),
    Situation(Chats, <<Keyed("k", BulkConversations(<<1, 2>>, "move", "f")), Keyed("l", DeleteConversation(2)), Keyed("m", UpdateConversation(2, "u"))>>),
    Situation([NoRows EXCEPT !["provider"] = <<Seeded(1, 0, "p", TRUE)>>],
       <<Keyed("k", CreateProvider(TRUE)), Keyed("k", CreateProvider(TRUE)), Keyed("l", UpdateProvider(1, TRUE)), Keyed("m", DeleteProvider(1))>>),
    Situation([NoRows EXCEPT !["provider"] = <<Seeded(1, 0, "p", TRUE)>>], <<Keyed("k", CreateProvider(TRUE)), Keyed("l", UpdateProvider(1, TRUE)), Keyed("m", DeleteProvider(2))>>),
    Situation([NoRows EXCEPT !["profile"] = <<Seeded(1, 0, <<"coder">>, "own")>>],
       <<Keyed("k", CloneProfile(1)), Keyed("l", CloneProfile(1)), Keyed("m", SeedProfiles(<<<<"coder">>, <<"writer">>>>))>>),
    Situation([Chats EXCEPT !["profile"] = <<Seeded(4, 0, <<"coder">>, "own")>>],
       <<Keyed("k", Playground(1, "hi")), Keyed("l", DeleteConversation(3)), Keyed("n", DeleteProfile(1)), Keyed("m", UpdateProfile(1, <<"c">>))>>),
    Situation([NoRows EXCEPT !["feed"] = <<Seeded(1, 0, "u", 1)>>, !["entry"] = <<Seeded(2, 1, 2, FALSE)>>],
       <<Keyed("k", FetchFeed(1, <<1, 3>>)), Keyed("m", Unsubscribe(1)), Keyed("n", Subscribe("u"))>>),
    Situation([NoRows EXCEPT !["feed"] = <<Seeded(1, 0, "u", 1)>>, !["entry"] = <<Seeded(2, 1, 2, FALSE)>>],
       <<Keyed("k", FetchFeed(1, <<1, 3, 4>>)), Keyed("l", FetchFeed(1, <<3, 4>>)), Keyed("m", EntryRead(1))>>),
    Situation([NoRows EXCEPT !["hook"] = <<Seeded(1, 0, "h", 0)>>, !["delivery"] = <<Seeded(2, 1, "e", "received")>>],
       <<Keyed("k", ReplayWebhook(1, 1)), Keyed("k", ReplayWebhook(1, 1)), Keyed("l", DeleteHook(1))>>),
    Situation([NoRows EXCEPT !["hook"] = <<Seeded(1, 0, "h", 0)>>], <<Keyed("m", UpdateHook(1, "g")), Keyed("n", CreateHook), Keyed("l", DeleteHook(2))>>),
    Situation(Ran, <<ReplayOf1, ReplayOf1, Keyed("l", DeleteConversation(1))>>),
    Situation(Ran, <<ReplayOf1, Keyed("l", DeleteConversation(1)), Keyed("m", CreateConversation("new"))>>)}

\* Turns with reasoning, steers, failures and a long answer; a legacy assistant row with up to
\* two calls, with or without ids, then rows that may or may not answer them.
Turn(run, kinds) == [i \in DOMAIN kinds |-> [kind |-> kinds[i], run |-> run]]
SampleTranscripts ==
  { Turn(1, <<"started", "user">>),
    Turn(1, <<"started", "user", "reasoning", "content", "usage", "assistant", "other", "tool", "reasoning", "user", "reasoning", "usage", "assistant", "completed">>)
      \o Turn(2, <<"started", "user", "reasoning", "failed">>),
    Turn(1, <<"started", "user", "usage", "assistant", "other", "tool", "tool", "failed">>)
      \o Turn(2, <<"started", "user", "reasoning", "cancelled">>) \o Turn(3, <<"started", "user", "reasoning", "content", "assistant", "completed">>),
    Turn(1, <<"started", "user", "reasoning", "disconnected">>)
      \o Turn(2, <<"started", "summary", "completed">>) \o Turn(3, <<"started", "user", "content", "content", "content", "content", "content", "content", "usage", "assistant", "completed">>)}
OldRow(role, group, id, name) == [role |-> role, calls |-> group, id |-> id, name |-> name]
OldCall(id, name) == [id |-> id, name |-> name]
OldAsks == {OldRow("assistant", group, <<>>, "") : group \in
    {<<>>, <<OldCall(<<"a">>, "read")>>, <<OldCall(<<"a">>, "read"), OldCall(<<"b">>, "read")>>,
     <<OldCall(<<>>, "read"), OldCall(<<"b">>, "edit")>>, <<OldCall(<<"a">>, "read"), OldCall(<<"a">>, "edit")>>}}
OldResults == {OldRow("tool", <<>>, id, name) : id \in {<<>>, <<"a">>, <<"b">>}, name \in {"read", "edit", "tool"}}
OldWords == {OldRow(role, <<>>, <<>>, "") : role \in {"user", "system"}}
SampleRows == {<<x, y>> : x \in OldAsks \cup OldResults \cup OldWords, y \in OldAsks \cup OldResults \cup OldWords}
    \cup {<<x, y, z, u>> : x \in OldAsks, y \in OldResults, z \in OldAsks \cup OldWords \cup {OldRow("tool", <<>>, <<"a">>, "edit")}, u \in OldResults}

\* Every short text made another; two calls of one file, through links, of a new file and of a
\* protected one; a script too long to trace.
Anchor(old, new, all) == [old |-> old, new |-> new, all |-> all]
EditOf(path, anchors, create) ==
    [tool |-> "edit", path |-> path, edits |-> anchors, create |-> create, append |-> FALSE, text |-> << >>]
WriteOf(path, text, append) ==
    [tool |-> "write", path |-> path, edits |-> << >>, create |-> FALSE, append |-> append, text |-> text]
LoopingEdit == EditOf("l9", << >>, FALSE)
FilesWith(text) ==
    "f" :> TextFile(text) @@ "g" :> NoFile @@ "policy" :> TextFile(<<"x">>)
    @@ "l1" :> Link("f") @@ "l2" :> Link("policy") @@ "l3" :> Link("l2") @@ "l9" :> Link("l9")
BatchOf(text, first, second) == [files |-> FilesWith(text), wanted |-> "e1" :> first @@ "e2" :> second]
TextsUpTo(n) == UNION {[1..k -> {"x", "y"}] : k \in 0..n}
TurnsInto(text, other) == BatchOf(text, EditOf("f", <<Anchor(text, other, FALSE)>>, FALSE), LoopingEdit)
FirstEdits ==
    {EditOf("f", <<Anchor(<<"y">>, <<"x", "x">>, FALSE)>>, FALSE),
     EditOf("l1", <<Anchor(<<"x">>, << >>, TRUE), Anchor(<<"y">>, <<"x">>, FALSE)>>, FALSE),
     EditOf("g", <<Anchor(<< >>, <<"x">>, FALSE)>>, TRUE), EditOf("l3", <<Anchor(<<"x">>, << >>, FALSE)>>, FALSE)}
SecondEdits ==
    {EditOf("f", <<Anchor(<<"x">>, <<"y">>, FALSE)>>, FALSE), EditOf("f", <<Anchor(<<"x", "y">>, <<"y", "y">>, FALSE)>>, FALSE),
     WriteOf("f", <<"y", "y">>, TRUE), WriteOf("l2", <<"y">>, FALSE), WriteOf("f", <<"x", "y">>, FALSE),
     EditOf("g", <<Anchor(<< >>, <<"x">>, FALSE)>>, FALSE), LoopingEdit}
SampleEdits ==
    {[files |-> "g" :> NoFile, wanted |-> [c \in EditCalls |-> EditOf("g", << >>, FALSE)]]}
    \cup {BatchOf(<<"x", "y", "x">>, a, b) : a \in FirstEdits, b \in SecondEdits}
    \cup {TurnsInto(t, u) : t \in TextsUpTo(4) \ {<< >>}, u \in TextsUpTo(4)}
    \cup {TurnsInto(<<"x", "y", "x", "x", "x", "x", "y", "x", "x">>, [i \in 1..7 |-> "x"])}

\* What the state holds while a behaviour is about something else: as little as there can be.
NoBatch == CHOOSE g \in EditBatches : DOMAIN g.files = {"g"}
FirstScript == CHOOSE s \in SampleScripts : \A o \in SampleScripts : Len(s.commands) <= Len(o.commands)
FirstTranscript == CHOOSE s \in SampleTranscripts : \A o \in SampleTranscripts : Len(s) <= Len(o)

-----------------------------------------------------------------------------
Init ==
    /\ focus \in Keepers
    /\ ResearchInit /\ PluginInit /\ LoginInit
    /\ RulesInit /\ (focus # "rules" => asked = (CHOOSE a \in Requests : TRUE) /\ ~malformed)
    /\ CheckpointInit /\ (focus # "checkpoints" => git /\ files = [f \in Files |-> Absent])
    /\ ContextInit /\ (focus # "context" => prompted)
    /\ MirrorInit /\ (focus # "mirror" => tied)
    /\ script \in (IF focus = "commands" THEN Scripts ELSE {FirstScript}) /\ KeyedInit
    /\ given \in (IF focus = "edits" THEN EditBatches ELSE {NoBatch}) /\ EditInit
    /\ transcript \in (IF focus = "pages" THEN Transcripts \cup {<< >>} ELSE {FirstTranscript}) /\ PagesInit

\* The questions are alike: it does not matter which is asked first.
FirstQuestion == CHOOSE s \in Subs : TRUE
QuestionsInTurn ==
    question'[FirstQuestion] \in {"idle", "queued"} => \A s \in Subs : question'[s] \in {"idle", "queued"}

\* Attempts of one command are alike: it does not matter which is first.
RetriesInTurn == \A a, b \in SentCommands :
    a < b /\ script.commands[a] = script.commands[b] /\ tries'[a].at = "idle" => tries'[b].at = "idle"

\* What is rewound is a run of three events at most.
LongRunsStay == Len(logged'["turn"]) > MaxMirrored => phase'["seed"] = "none"

Next ==
    /\ UNCHANGED focus
    /\ \/ /\ focus = "research" /\ ResearchNext /\ QuestionsInTurn
          /\ UNCHANGED <<ruleVars, checkpointVars, contextVars, pluginVars, mirrorVars, loginVars, keyedVars, pagesVars, editVars>>
       \/ /\ focus = "rules" /\ RulesNext
          /\ UNCHANGED <<researchVars, checkpointVars, contextVars, pluginVars, mirrorVars, loginVars, keyedVars, pagesVars, editVars>>
       \/ /\ focus = "checkpoints" /\ CheckpointNext
          /\ UNCHANGED <<researchVars, ruleVars, contextVars, pluginVars, mirrorVars, loginVars, keyedVars, pagesVars, editVars>>
       \/ /\ focus = "context" /\ ContextNext
          /\ UNCHANGED <<researchVars, ruleVars, checkpointVars, pluginVars, mirrorVars, loginVars, keyedVars, pagesVars, editVars>>
       \/ /\ focus = "plugins" /\ PluginNext
          /\ UNCHANGED <<researchVars, ruleVars, checkpointVars, contextVars, mirrorVars, loginVars, keyedVars, pagesVars, editVars>>
       \/ /\ focus = "mirror" /\ MirrorNext /\ LongRunsStay
          /\ UNCHANGED <<researchVars, ruleVars, checkpointVars, contextVars, pluginVars, loginVars, keyedVars, pagesVars, editVars>>
       \/ /\ focus = "login" /\ LoginNext
          /\ UNCHANGED <<researchVars, ruleVars, checkpointVars, contextVars, pluginVars,
                         mirrorVars, keyedVars, pagesVars, editVars>>
       \/ /\ focus = "commands" /\ KeyedNext /\ RetriesInTurn
          /\ UNCHANGED <<researchVars, ruleVars, checkpointVars, contextVars, pluginVars,
                         mirrorVars, loginVars, pagesVars, editVars>>
       \/ /\ focus = "pages" /\ PagesNext
          /\ UNCHANGED <<researchVars, ruleVars, checkpointVars, contextVars, pluginVars,
                         mirrorVars, loginVars, keyedVars, editVars>>
       \/ /\ focus = "edits" /\ EditNext
          /\ UNCHANGED <<researchVars, ruleVars, checkpointVars, contextVars, pluginVars, mirrorVars,
                         loginVars, keyedVars, pagesVars>>

Spec == Init /\ [][Next]_keepers

\* The files are what the tools and the user left: a rewind puts back what the discarded calls
\* found, and an edit is made whole, where it may be, and reported as it was made.
FilesHold == RestoreUndoes /\ (focus = "edits" => EditsHold)

\* What is shown of a session's history loses nothing of it: neither the context of the model
\* when it is compacted or replayed (context.rs), nor when it is given in pages (session_history) or
\* comes from a legacy conversation (legacy_history_events).
HistoryHolds == CompactionKeepsAll /\ PagesHold
================================================================================
