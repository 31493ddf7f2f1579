------------------------------ MODULE MCFollowers -------------------------------
(* The parts that follow something to its end, for TLC in one run: event streams   *)
(* and the facade, plans, an editor's ACP session, a call of the model, calls of   *)
(* extensions, a client's connection, and a tool call that runs a program.  They do *)
(* not share state, so each behaviour focuses on one of them: its component is the *)
(* whole of its specification, the others stay where they start.  An ACP session   *)
(* has two foci: one prompt with everything that can happen to it, and two that    *)
(* only run; extensions have their hooks and the worker.                           *)
EXTENDS RunStreams, MCPlanExecution, AcpBridge, ModelCalls, ExtensionCalls, Connection,
        ProcessRuns, TLC

CONSTANTS pr1, pr2

VARIABLE focus
Parts == {"streams", "plans", "prompt", "prompts", "call", "hooks", "worker", "connection", "process"}
Editing == {"prompt", "prompts"}
parts == <<focus, streamVars, planVars, acpVars, callVars, extVars, connVars, processVars>>

SampleRunLogs == pr1 :> 3 @@ pr2 :> 1

\* Per driver a whole answer, with one or two calls, and the answers that go wrong in it: an
\* error in the stream, a line that is not JSON, a call that was never given its arguments.
SampleWires ==
    "chat" :> {<<"thought", "text", "text", "head", "half", "half", "close", "usage", "stop">>,
               <<"text", "overloaded">>, <<"text", "garbled">>}
 @@ "anthropic" :> {<<"text", "head", "half", "half", "close", "text", "usage", "stop">>,
                    <<"usage", "overloaded">>, <<"text", "head", "half", "half", "usage", "stop">>}
 @@ "gemini" :> {<<"usage", "text", "call", "call", "text", "usage", "stop">>,
                 <<"usage", "overloaded">>}

\* Two hooks side by side, one after them, one of a later order; all reviewed, or two of them.
Over(transport, order, parallel) == [over |-> transport, order |-> order, parallel |-> parallel]
SampleHooks == <<Over("http", 1, TRUE), Over("stdio", 1, TRUE), Over("http", 1, FALSE), Over("command", 2, TRUE)>>
SampleReviews == {1..4, {1, 4}}

SampleSends == {<<"init", "prompt", "subscribe", "get">>, <<"get", "init", "get", "init">>, <<"bad", "init", "aux", "prompt">>}

\* Programs that write more than fits, with input and without, in each launcher; one leaves a
\* process behind that has its pipes, one may not be started.
Program(mode, launcher, network, given, out, err, keeps) ==
    [mode |-> mode, launcher |-> launcher, network |-> network, input |-> given,
     out |-> [stdout |-> out, stderr |-> err], keeps |-> keeps]
SamplePrograms ==
    {Program("tool", "host", "allow", 0, 7, 2, FALSE), Program("tool", "bwrap", "ask", 3, 4, 1, FALSE),
     Program("tool", "host", "deny", 0, 1, 1, FALSE), Program("tool", "host", "allow", 0, 5, 3, TRUE),
     Program("diagnostics", "host", "allow", 0, 3, 3, FALSE),
     Program("diagnostics", "disabled", "allow", 0, 3, 3, FALSE)}

-----------------------------------------------------------------------------
Init ==
    /\ focus \in Parts
    /\ StreamsInit /\ PlanInit /\ AcpInit /\ CallInit /\ ExtensionInit /\ ConnectionInit
    /\ ProcessInit
    /\ focus # "call" => driver = "chat"
    /\ focus # "plans" => depends = (CHOOSE g \in Graphs : TRUE) /\ delegated = {}
    /\ focus # "hooks" => reviewed = 1..4
    /\ focus # "connection" => sends = (CHOOSE s \in Sends : TRUE)
    /\ focus # "process" => program = (CHOOSE p \in Programs : TRUE)

Next ==
    /\ UNCHANGED focus
    /\ \/ /\ focus = "streams" /\ StreamsNext /\ UNCHANGED <<planVars, acpVars, callVars, extVars, connVars, processVars>>
       \/ /\ focus = "plans" /\ PlanNext /\ UNCHANGED <<streamVars, acpVars, callVars, extVars, connVars, processVars>>
       \/ /\ focus = "prompt" /\ AcpNext /\ UNCHANGED bridge[pr2]
          /\ UNCHANGED <<streamVars, planVars, callVars, extVars, connVars, processVars>>
       \/ /\ focus = "prompts" /\ AcpNext /\ UNCHANGED <<acpCancels, misreads>>
          /\ Len(turn'[pr1].log) <= 2
          /\ UNCHANGED <<streamVars, planVars, callVars, extVars, connVars, processVars>>
       \/ focus = "call" /\ CallNext /\ UNCHANGED <<streamVars, planVars, acpVars, extVars, connVars, processVars>>
       \/ /\ focus = "hooks" /\ HooksNext
          /\ UNCHANGED <<streamVars, planVars, acpVars, callVars, connVars, processVars>>
       \/ /\ focus = "worker" /\ WorkerNext
          /\ UNCHANGED <<streamVars, planVars, acpVars, callVars, connVars, processVars>>
       \/ /\ focus = "connection" /\ ConnectionNext
          /\ UNCHANGED <<streamVars, planVars, acpVars, callVars, extVars, processVars>>
       \/ /\ focus = "process" /\ ProcessNext
          /\ UNCHANGED <<streamVars, planVars, acpVars, callVars, extVars, connVars>>

\* The fairness of each component, where it is the one that moves.
Fairness ==
    /\ \A w \in Writers : WF_streamVars(focus = "streams" /\ PublishStep(w))
    /\ \A c \in Followers : WF_streamVars(focus = "streams" /\ StreamStep(c))
    /\ \A k \in Executions : WF_planVars(focus = "plans" /\ LoopStep(k))
    /\ WF_acpVars(focus \in Editing /\ \E e \in inflight : Broadcasts(e))
    /\ WF_acpVars(focus \in Editing /\ ServingStep)
    /\ \A p \in AcpPrompts : WF_acpVars(focus \in Editing /\ TaskStep(p))
    /\ WF_callVars(focus = "call" /\ ModelLoopStep)
    /\ WF_callVars(focus = "call" /\ TimesOut)
    /\ WF_connVars(focus = "connection" /\ ServeStep)
    /\ WF_connVars(focus = "connection" /\ WriterStep)
    /\ \A r \in CallNumbers : WF_connVars(focus = "connection" /\ r \in Calls /\ HandlerStep(r))
    /\ \A r \in CallNumbers : WF_connVars(focus = "connection" /\ r \in Calls /\ StopsTold(r))
    /\ WF_processVars(focus = "process" /\ CallStep)
    /\ \A s \in Streams : WF_processVars(focus = "process" /\ DrainStep(s))

Spec == Init /\ [][Next]_parts /\ Fairness

\* What follows something comes to its end: the open streams of an ended run, the loops of a
\* plan that stays cancelled, an editor's prompt whose run has ended, a call of the model, a
\* connection whose client is gone, and a call that runs a program.
EveryFollowerEnds ==
    /\ FollowersEnd /\ CancelStopsPlan /\ PromptsAnswered
    /\ CallEnds /\ ConnectionEnds /\ ProcessCallEnds
================================================================================
