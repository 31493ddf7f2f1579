--------------------------- MODULE MCDurableStore ---------------------------
(* DurableStore for TLC.  Each instance says how many requests of each        *)
(* operation it allows.  The keys of one operation are interchangeable, so    *)
(* it is enough to let them be used in order.                                 *)
EXTENDS DurableStore, TLC

VARIABLE work   \* what a behaviour is about; it keeps to that, within bounds of its own

AtMost(requests) ==
    [scope \in Scopes |-> IF scope \in DOMAIN requests THEN requests[scope] ELSE 0]

SessionRequests ==
    AtMost("session.create" :> 1 @@ "session.prompt" :> 2 @@ "session.steer" :> 2
           @@ "run.cancel" :> 2 @@ "approval.resolve" :> 2)
CopyRequests ==
    AtMost("session.create" :> 1 @@ "session.prompt" :> 2 @@ "session.fork" :> 1
           @@ "session.rewind" :> 2 @@ "approval.resolve" :> 1
           @@ "run.cancel" :> 1 @@ "session.for_conversation" :> 2)

KeysInOrder ==
    \A scope \in Scopes, k, l \in Key : k < l /\ idem[scope][l] # 0 => idem[scope][k] # 0

Sort(kinds) == {i \in Rows : events[i].kind \in kinds}
\* Without tickets; the only failed calls are those that an interruption fails.
TurnsOnly == approvals = <<>> /\ Len(events) \notin Sort({"ToolFailed"})
             /\ \A i \in Rows : events[i].calls \subseteq {1}
\* One run, cancelled at most once and never steered.
TicketsOnly ==
    /\ Len(runs) <= 1 /\ Cardinality(Recorded("run.cancel")) <= 1
    /\ Recorded("session.steer") = {} /\ Sort({"RunStarted", "RunCompleted"}) = {}

\* Conversation turns and their copies: no client disturbs them, nothing crashes.
CopiesOnly ==
    /\ crashes = 0 /\ intents = {} /\ approvals = <<>>
    /\ \A c \in Conversation : links[c] = 0
    /\ Sort({"AssistantItem"}) = {}
    /\ \A r \in Runs : runs[r].purpose # "auxiliary"
\* A turn, an auxiliary run and linked sessions: nothing copied, no turn completes.
RestartsOnly ==
    /\ Recorded("session.fork") = {} /\ Recorded("session.rewind") = {}
    /\ Cardinality(Recorded("session.prompt")) <= 1
    /\ \A i \in Sort({"UserItem", "SessionCompacted", "RunCompleted"}) :
          runs[events[i].run].purpose = "seed"

Grows(n) == Serving /\ events' # events => Len(events') <= n
Within ==
    CASE work = "turns" -> TurnsOnly' /\ Grows(4)
      [] work = "tickets" -> TicketsOnly' /\ Grows(5)
      [] work = "copies" -> CopiesOnly'
      [] work = "restarts" -> RestartsOnly' /\ Grows(3)
      [] work = "interleaved copies" -> intents' = {}

MCNext == Next /\ UNCHANGED work /\ KeysInOrder' /\ Within
Working == [][MCNext]_<<vars, work>> /\ WF_vars(RecoveryNext)

SessionInit == Init /\ work \in {"turns", "tickets"}
SessionSpec == SessionInit /\ Working
CopyInit == Init /\ work \in {"copies", "restarts"}
CopySpec == CopyInit /\ Working
InterleavedInit == Init /\ work = "interleaved copies"
InterleavedSpec == InterleavedInit /\ Working
=============================================================================
