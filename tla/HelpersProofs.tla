----------------------------- MODULE HelpersProofs -----------------------------
(***************************************************************************)
(* What a turn may rely on about those it asks for help.                   *)
(*                                                                         *)
(* Its children, proved for any number of them and however they are        *)
(* launched, awaited, steered and cancelled, by a turn's tools and by a    *)
(* research pipeline alike: the records of a child agree, an end it has    *)
(* shown stays, a child that completes has heard every steer, and a        *)
(* pipeline never has more children open than it has permits.              *)
(*                                                                         *)
(* Its extensions, proved for any hooks, reviews, requests and number of   *)
(* restarts: nothing is carried out twice, what is reported as completed   *)
(* was carried out, and a hook acts only as reviewed and in its turn.      *)
(*                                                                         *)
(* Its programs, proved for any pipes, chunks, caps and limits: what the   *)
(* call shows of a program is the true beginning and end of what that      *)
(* wrote, within the room of an output, and nothing is left running.       *)
(***************************************************************************)
EXTENDS Research, ExtensionCalls, ProcessRuns, SequenceTheorems, FiniteSetTheorems, TLAPS

-----------------------------------------------------------------------------
(* The invariant of a child *)

SendType == [at : {"none"}] \cup [at : {"checked", "appended", "queued_unseen", "steer"}, to : Subs]
ChildrenTyped == SubTypeOK /\ sends \in [Sends -> SendType]

Unrecorded == {"none", "created"}
Unstarted == Unrecorded \cup {"recorded", "spawned", "preparing", "forking"}

\* The row is there from create_subagent_run on, and only from then on is the child awaited
\* or cancelled.  From its finalizing on the execution carries the row's own end, which is
\* what the child's run and the lifecycle run are then given.
ChildOK(s) ==
    /\ job[s] \in Unrecorded <=> subRow[s] = "none"
    /\ job[s] \in Unrecorded \cup {"recorded"} => waiter[s] = "idle"
    /\ cancelling[s] # "none" => subRow[s] # "none"
    /\ job[s] \in {"committing", "finalizing"} => ending[s] \in SubEnded
    /\ job[s] \in {"finishing", "closing"} => ending[s] \in SubEnded /\ subRow[s] = ending[s]
    /\ job[s] = "closing" => childRun[s] = ending[s]
    /\ job[s] \in Unstarted \cup {"failing"} => lifecycle[s] = "none"
    /\ lifecycle[s] \in SubEnded =>
          /\ job[s] \in {"leaving", "gone"}
          /\ subRow[s] = lifecycle[s] /\ childRun[s] = lifecycle[s]
    /\ job[s] = "gone" \/ waiter[s] = "answered" => subRow[s] \in SubEnded

\* What a child's context has received is its conversation up to the cursor.
HeardOK(s) ==
    /\ cursor[s] <= Len(steers[s]) /\ delivered[s] = SubSeq(steers[s], 1, cursor[s])
    /\ job[s] \in Unstarted => cursor[s] = 0

ChildrenInv == ChildrenTyped /\ \A s \in Subs : ChildOK(s) /\ HeardOK(s)

-----------------------------------------------------------------------------
(* A step of one child *)

ChildStep(s) ==
    \/ LaunchStep(s) \/ JobStep(s) \/ AwaitBegins(s) \/ AwaitStep(s) \/ CollectTimesOut(s)
    \/ CancelSignals(s) \/ CancelWrites(s)

\* It leaves the others and every conversation alone, keeps an end the row shows, and what
\* the child has received grows to the whole conversation or not at all.
ChildMoved(s) ==
    /\ SubTypeOK' /\ UNCHANGED <<plan, steers, sends>>
    /\ \A t \in Subs \ {s} :
          /\ job'[t] = job[t] /\ subRow'[t] = subRow[t] /\ childRun'[t] = childRun[t]
          /\ lifecycle'[t] = lifecycle[t] /\ ending'[t] = ending[t] /\ waiter'[t] = waiter[t]
          /\ cancelling'[t] = cancelling[t]
          /\ cursor'[t] = cursor[t] /\ delivered'[t] = delivered[t]
    /\ ChildOK(s)'
    /\ subRow[s] \in SubEnded => subRow'[s] = subRow[s]
    /\ job'[s] \in Unstarted => job[s] \in Unstarted
    /\ \/ cursor'[s] = cursor[s] /\ delivered'[s] = delivered[s]
       \/ /\ cursor'[s] = Len(steers[s]) /\ delivered'[s] = steers[s]
          /\ job'[s] \notin Unstarted
    /\ job[s] = "running" /\ job'[s] = "committing" /\ ending'[s] = "completed"
          => delivered[s] = steers[s]

LEMMA LaunchMoves ==
    ASSUME ChildrenInv, NEW s \in Subs, LaunchStep(s)
    PROVE  ChildMoved(s)
  <1> USE DEF ChildrenInv, ChildrenTyped, SubTypeOK, ChildOK, ChildMoved, Unrecorded, Unstarted,
              Executing, SubEnded, subRecords, subTree, subSteers, subCallers
  <1>1. CASE LaunchCreates(s)
    BY <1>1 DEF LaunchCreates
  <1>2. CASE LaunchRecords(s)
    BY <1>2 DEF LaunchRecords
  <1>3. CASE LaunchSpawns(s)
    BY <1>3 DEF LaunchSpawns
  <1> QED BY <1>1, <1>2, <1>3 DEF LaunchStep

LEMMA SetupMoves ==
    ASSUME ChildrenInv, NEW s \in Subs,
           JobStarts(s) \/ JobPrepares(s) \/ JobBegins(s) \/ JobSetupFails(s) \/ JobFailsChild(s)
    PROVE  ChildMoved(s)
  <1> USE DEF ChildrenInv, ChildrenTyped, SubTypeOK, ChildOK, ChildMoved, Unrecorded, Unstarted,
              Executing, SubEnded, subRecords, subTree, subSteers, subCallers
  <1>1. CASE JobStarts(s)
    <2>1. \/ job' = [job EXCEPT ![s] = "leaving"] /\ subRow' = subRow
          \/ /\ job' = [job EXCEPT ![s] = "preparing"] /\ subRow[s] \notin SubEnded
             /\ subRow' = [subRow EXCEPT ![s] = "running"]
      BY <1>1 DEF JobStarts
    <2>2. /\ job[s] = "spawned"
          /\ UNCHANGED <<plan, childRun, lifecycle, live, stopSent, ending, subTree, subSteers,
                         subCallers>>
      BY <1>1 DEF JobStarts
    <2>3. CASE job' = [job EXCEPT ![s] = "leaving"] /\ subRow' = subRow
      BY <2>2, <2>3
    <2>4. CASE /\ job' = [job EXCEPT ![s] = "preparing"] /\ subRow[s] \notin SubEnded
               /\ subRow' = [subRow EXCEPT ![s] = "running"]
      BY <2>2, <2>4
    <2> QED BY <2>1, <2>3, <2>4
  <1>2. CASE JobPrepares(s)
    BY <1>2 DEF JobPrepares
  <1>3. CASE JobBegins(s)
    <2>1. job[s] = "forking" /\ cursor[s] = 0
      BY <1>3 DEF JobBegins, HeardOK
    <2>2. cursor' = cursor
      BY <1>3, <2>1 DEF JobBegins
    <2>3. CASE plan.linked
      BY <1>3, <2>1, <2>2, <2>3 DEF JobBegins
    <2>4. CASE ~plan.linked
      BY <1>3, <2>1, <2>2, <2>4 DEF JobBegins
    <2> QED BY <2>3, <2>4
  <1>4. CASE JobSetupFails(s)
    BY <1>4 DEF JobSetupFails, Finalized
  <1>5. CASE JobFailsChild(s)
    BY <1>5 DEF JobFailsChild
  <1> QED BY <1>1, <1>2, <1>3, <1>4, <1>5

\* Draining what lies behind the cursor makes what was received the whole conversation.
LEMMA DrainsAll ==
    ASSUME NEW S, NEW q \in Seq(S), NEW c \in Nat, c <= Len(q)
    PROVE  SubSeq(q, 1, c) \o SubSeq(q, c + 1, Len(q)) = q
  <1>1. SubSeq(q, 1, c) \o SubSeq(q, c + 1, Len(q)) = SubSeq(q, 1, Len(q))
    <2>1. Len(q) \in Nat
      BY LenProperties
    <2>2. 1 \in 1..Len(q) + 1 /\ c \in 1 - 1..Len(q) /\ Len(q) \in c..Len(q)
      BY <2>1
    <2> QED BY <2>2, ConcatAdjacentSubSeq
  <1> QED BY <1>1, SubSeqFull

LEMMA RunMoves ==
    ASSUME ChildrenInv, NEW s \in Subs,
           JobEdits(s) \/ JobDrains(s) \/ (\E status \in SubEnded : JobRunEnds(s, status))
    PROVE  ChildMoved(s)
  <1>1. steers[s] \in Seq(Sends) /\ cursor[s] \in Nat /\ Len(steers[s]) \in Nat
    BY LenProperties DEF ChildrenInv, ChildrenTyped, SubTypeOK
  <1>2. cursor[s] <= Len(steers[s]) /\ delivered[s] = SubSeq(steers[s], 1, cursor[s])
    BY DEF ChildrenInv, HeardOK
  <1>3. delivered[s] \o SubSeq(steers[s], cursor[s] + 1, Len(steers[s])) = steers[s]
    BY <1>1, <1>2, DrainsAll
  <1> USE DEF ChildrenInv, ChildrenTyped, SubTypeOK, ChildOK, ChildMoved, Unrecorded, Unstarted,
              Executing, SubEnded, subRecords, subTree, subSteers, subCallers
  <1>4. CASE JobEdits(s)
    BY <1>4 DEF JobEdits
  <1>5. CASE JobDrains(s)
    <2>1. /\ delivered' = [delivered EXCEPT ![s] = steers[s]]
          /\ cursor' = [cursor EXCEPT ![s] = Len(steers[s])] /\ job[s] = "running"
          /\ UNCHANGED <<plan, subRecords, live, stopSent, job, ending, subTree, steers, sends,
                         subCallers>>
      BY <1>3, <1>5 DEF JobDrains
    <2>2. /\ delivered' \in [Subs -> Seq(Sends)] /\ cursor' \in [Subs -> Nat]
          /\ delivered'[s] = steers[s] /\ cursor'[s] = Len(steers[s])
          /\ \A t \in Subs \ {s} : delivered'[t] = delivered[t] /\ cursor'[t] = cursor[t]
      BY <1>1, <2>1
    <2>3. SubTypeOK'
      BY <2>1, <2>2
    <2>4. ChildOK(s)'
      BY <2>1
    <2> QED BY <2>1, <2>2, <2>3, <2>4
  <1>6. ASSUME NEW status \in SubEnded, JobRunEnds(s, status)
        PROVE  ChildMoved(s)
    <2>1. cursor[s] = Len(steers[s]) => delivered[s] = steers[s]
      BY <1>1, <1>2, SubSeqFull
    <2> QED BY <1>6, <2>1 DEF JobRunEnds
  <1> QED BY <1>4, <1>5, <1>6

LEMMA EndMoves ==
    ASSUME ChildrenInv, NEW s \in Subs,
           \/ JobCommits(s) \/ JobFinalizes(s) \/ JobFinishes(s) \/ JobCloses(s) \/ JobPanics(s)
           \/ JobLeaves(s)
    PROVE  ChildMoved(s)
  <1>0. ASSUME JobCommits(s)
        PROVE  /\ checkout' \in [Subs -> {"none", "clean", "dirty"}]
               /\ branch' \in [Subs -> {"none", "empty", "edited"}]
    <2>0. /\ checkout \in [Subs -> {"none", "clean", "dirty"}]
          /\ branch \in [Subs -> {"none", "empty", "edited"}]
      BY DEF ChildrenInv, ChildrenTyped, SubTypeOK
    <2>1. CASE UNCHANGED subTree
      BY <2>0, <2>1 DEF subTree
    <2>2. CASE /\ checkout' = [checkout EXCEPT ![s] = "none"]
               /\ \/ branch' = [branch EXCEPT ![s] = "edited"]
                  \/ branch' = branch
      BY <2>0, <2>2
    <2> QED BY <1>0, <2>1, <2>2, Zenon DEF JobCommits
  <1> USE DEF ChildrenInv, ChildrenTyped, SubTypeOK, ChildOK, ChildMoved, Unrecorded, Unstarted,
              Executing, SubEnded, subRecords, subTree, subSteers, subCallers
  <1>1. CASE JobCommits(s)
    <2>1. /\ job[s] = "committing" /\ job' = [job EXCEPT ![s] = "finalizing"]
          /\ UNCHANGED <<plan, subRecords, live, stopSent, ending, subSteers, subCallers>>
      BY <1>1 DEF JobCommits
    <2> QED BY <1>0, <1>1, <2>1
  <1>2. CASE JobFinalizes(s)
    <2>1. ending[s] \in SubEnded
      BY <1>2 DEF JobFinalizes
    <2>2. CASE subRow[s] \in SubEnded
      BY <1>2, <2>1, <2>2 DEF JobFinalizes, Finalized
    <2>3. CASE subRow[s] \notin SubEnded
      BY <1>2, <2>1, <2>3 DEF JobFinalizes, Finalized
    <2> QED BY <2>2, <2>3
  <1>3. CASE JobFinishes(s)
    <2>1. ending[s] \in SubEnded /\ subRow[s] = ending[s]
      BY <1>3 DEF JobFinishes
    <2>2. SubTypeOK'
      BY <1>3, <2>1 DEF JobFinishes
    <2>3. ChildOK(s)'
      BY <1>3, <2>1 DEF JobFinishes
    <2> QED BY <1>3, <2>2, <2>3 DEF JobFinishes
  <1>4. CASE JobCloses(s)
    BY <1>4 DEF JobCloses
  <1>5. CASE JobPanics(s)
    BY <1>5 DEF JobPanics
  <1>6. CASE JobLeaves(s)
    BY <1>6 DEF JobLeaves, Finalized
  <1> QED BY <1>1, <1>2, <1>3, <1>4, <1>5, <1>6

LEMMA CallerMoves ==
    ASSUME ChildrenInv, NEW s \in Subs,
           \/ AwaitBegins(s) \/ AwaitStep(s) \/ CollectTimesOut(s) \/ CancelSignals(s)
           \/ CancelWrites(s)
    PROVE  ChildMoved(s)
  <1> USE DEF ChildrenInv, ChildrenTyped, SubTypeOK, ChildOK, ChildMoved, Unrecorded, Unstarted,
              Executing, SubEnded, subRecords, subTree, subSteers, subCallers
  <1>1. CASE AwaitBegins(s)
    BY <1>1 DEF AwaitBegins
  <1>2. CASE AwaitSignals(s)
    BY <1>2 DEF AwaitSignals
  <1>3. CASE AwaitCancels(s)
    BY <1>3 DEF AwaitCancels, Finalized
  <1>4. CASE AwaitReads(s)
    BY <1>4 DEF AwaitReads
  <1>5. CASE CollectTimesOut(s)
    BY <1>5 DEF CollectTimesOut
  <1>6. CASE CancelSignals(s)
    BY <1>6 DEF CancelSignals
  <1>7. CASE CancelWrites(s)
    BY <1>7 DEF CancelWrites, Finalized
  <1> QED BY <1>1, <1>2, <1>3, <1>4, <1>5, <1>6, <1>7 DEF AwaitStep

LEMMA ChildMoves ==
    ASSUME ChildrenInv, NEW s \in Subs, ChildStep(s)
    PROVE  ChildMoved(s)
  BY LaunchMoves, SetupMoves, RunMoves, EndMoves, CallerMoves DEF ChildStep, JobStep

-----------------------------------------------------------------------------
(* Steers, and the parent *)

\* A steer appended behind what was received does not change it.
LEMMA AppendKeeps ==
    ASSUME NEW S, NEW q \in Seq(S), NEW m \in S, NEW c \in Nat, c <= Len(q)
    PROVE  SubSeq(Append(q, m), 1, c) = SubSeq(q, 1, c)
  <1>1. Len(q) \in Nat /\ Append(q, m) = q \o <<m>> /\ <<m>> \in Seq(S)
    BY LenProperties, AppendIsConcat
  <1>2. CASE c = 0
    BY <1>2, SubSeqEmpty
  <1>3. CASE c # 0
    <2>1. 1 \in 1..Len(q) /\ c \in 1..Len(q)
      BY <1>1, <1>3
    <2>2. SubSeq(q \o <<m>>, 1, c) = SubSeq(q, 1, c)
      BY <1>1, <2>1, SubSeqOfConcat1
    <2> QED BY <1>1, <2>2
  <1> QED BY <1>2, <1>3

ChildKept == UNCHANGED <<plan, subRecords, live, stopSent, job, ending, subTree, cursor, delivered,
                         subCallers>>

LEMMA SendMoves ==
    ASSUME ChildrenInv, NEW m \in Sends, SendStep(m)
    PROVE  /\ ChildKept /\ sends' \in [Sends -> SendType] /\ steers' \in [Subs -> Seq(Sends)]
           /\ \A s \in Subs : steers'[s] = steers[s] \/ steers'[s] = Append(steers[s], m)
  <1>1. /\ sends \in [Sends -> SendType] /\ steers \in [Subs -> Seq(Sends)]
    BY DEF ChildrenInv, ChildrenTyped, SubTypeOK
  <1>2. ASSUME NEW s \in Subs, SendChecks(m, s)
        PROVE  /\ ChildKept /\ sends' \in [Sends -> SendType] /\ steers' = steers
    <2>1. [at |-> "checked", to |-> s] \in SendType
      BY DEF SendType
    <2> QED BY <1>1, <1>2, <2>1 DEF SendChecks, ChildKept
  <1>3. ASSUME sends[m].at \in {"checked", "appended"}
        PROVE  sends[m].to \in Subs
               /\ [sends[m] EXCEPT !.at = "appended"] = [at |-> "appended", to |-> sends[m].to]
    BY <1>1, <1>3 DEF SendType
  <1>4. \A s \in Subs : \A where \in {"appended", "queued_unseen", "steer"} :
            [at |-> where, to |-> s] \in SendType
    BY DEF SendType
  <1>5. CASE SendAppends(m)
    <2>1. sends' = [sends EXCEPT ![m] = [at |-> "appended", to |-> sends[m].to]]
      BY <1>1, <1>3, <1>5 DEF SendAppends
    <2>2. sends[m].to \in Subs
      BY <1>3, <1>5 DEF SendAppends
    <2>3. Append(steers[sends[m].to], m) \in Seq(Sends)
      BY <1>1, <2>2, AppendProperties
    <2>4. steers' = [steers EXCEPT ![sends[m].to] = Append(steers[sends[m].to], m)]
      BY <1>5 DEF SendAppends
    <2>5. steers' \in [Subs -> Seq(Sends)]
      BY <1>1, <2>3, <2>4
    <2>6. sends' \in [Sends -> SendType]
      BY <1>1, <1>4, <2>1, <2>2
    <2> QED BY <1>1, <1>5, <2>2, <2>4, <2>5, <2>6 DEF SendAppends, ChildKept
  <1>6. CASE SendAnswers(m)
    <2>1. sends[m].to \in Subs
      BY <1>3, <1>6 DEF SendAnswers
    <2>2. PICK where \in {"queued_unseen", "steer"} :
              sends' = [sends EXCEPT ![m] = [at |-> where, to |-> sends[m].to]]
      BY <1>6 DEF SendAnswers
    <2>3. sends' \in [Sends -> SendType]
      BY <1>1, <1>4, <2>1, <2>2
    <2> QED BY <1>1, <1>6, <2>3 DEF SendAnswers, ChildKept
  <1> QED BY <1>1, <1>2, <1>5, <1>6 DEF SendStep

ParentTold ==
    /\ parentStop' \in BOOLEAN
    /\ UNCHANGED <<plan, subRecords, live, stopSent, job, ending, subTree, subSteers, cancelling,
                   waiter>>

-----------------------------------------------------------------------------
(* Any number of children *)

ChildrenNext ==
    \/ \E s \in Subs : ChildStep(s)
    \/ \E m \in Sends : SendStep(m)
    \/ ParentTold

LEMMA ChildrenStart == SubInit => ChildrenInv
  <1>1. ASSUME SubInit
        PROVE  ChildrenTyped
    <2>1. [at |-> "none"] \in SendType
      BY DEF SendType
    <2>2. <<>> \in Seq(Sends)
      BY EmptySeq
    <2>3. plan \in LaunchPlanType
      BY <1>1, SubagentAssumption DEF SubInit
    <2> QED BY <1>1, <2>1, <2>2, <2>3 DEF SubInit, ChildrenTyped, SubTypeOK
  <1>2. ASSUME SubInit, NEW s \in Subs
        PROVE  ChildOK(s) /\ HeardOK(s)
    <2>1. Len(<<>>) = 0 /\ SubSeq(<<>>, 1, 0) = <<>>
      BY EmptySeq, SubSeqEmpty
    <2> QED BY <1>2, <2>1 DEF SubInit, ChildOK, HeardOK, Unrecorded, Unstarted, SubEnded
  <1> QED BY <1>1, <1>2 DEF ChildrenInv

LEMMA ChildrenStep ==
    ASSUME ChildrenInv, ChildrenNext \/ UNCHANGED subVars
    PROVE  ChildrenInv'
  <1>1. ASSUME NEW s \in Subs, ChildStep(s)
        PROVE  ChildrenInv'
    <2>1. ChildMoved(s)
      BY <1>1, ChildMoves
    <2>2. ChildrenTyped'
      BY <2>1 DEF ChildMoved, ChildrenInv, ChildrenTyped
    <2>3. ASSUME NEW t \in Subs \ {s}
          PROVE  ChildOK(t)' /\ HeardOK(t)'
      BY <2>1 DEF ChildMoved, ChildrenInv, ChildOK, HeardOK
    <2>4. steers[s] \in Seq(Sends) /\ Len(steers[s]) \in Nat
      BY LenProperties DEF ChildrenInv, ChildrenTyped, SubTypeOK
    <2>5. HeardOK(s)'
      BY <2>1, <2>4, SubSeqFull DEF ChildMoved, ChildrenInv, HeardOK
    <2> QED BY <2>1, <2>2, <2>3, <2>5 DEF ChildMoved, ChildrenInv
  <1>2. ASSUME NEW m \in Sends, SendStep(m)
        PROVE  ChildrenInv'
    <2>1. /\ ChildKept /\ sends' \in [Sends -> SendType] /\ steers' \in [Subs -> Seq(Sends)]
          /\ \A s \in Subs : steers'[s] = steers[s] \/ steers'[s] = Append(steers[s], m)
      BY <1>2, SendMoves
    <2>2. ChildrenTyped'
      BY <2>1 DEF ChildKept, ChildrenInv, ChildrenTyped, SubTypeOK, subRecords, subTree, subCallers
    <2>3. ASSUME NEW s \in Subs
          PROVE  HeardOK(s)'
      <3>1. /\ steers[s] \in Seq(Sends) /\ cursor[s] \in Nat
            /\ cursor[s] <= Len(steers[s]) /\ delivered[s] = SubSeq(steers[s], 1, cursor[s])
            /\ job[s] \in Unstarted => cursor[s] = 0
        BY DEF ChildrenInv, ChildrenTyped, SubTypeOK, HeardOK
      <3>2. /\ SubSeq(Append(steers[s], m), 1, cursor[s]) = delivered[s]
            /\ Len(steers[s]) \in Nat /\ Len(Append(steers[s], m)) = Len(steers[s]) + 1
        BY <3>1, AppendKeeps, AppendProperties, LenProperties
      <3>3. cursor' = cursor /\ delivered' = delivered /\ job' = job
        BY <2>1 DEF ChildKept
      <3>4. CASE steers'[s] = steers[s]
        BY <3>1, <3>3, <3>4 DEF HeardOK
      <3>5. CASE steers'[s] = Append(steers[s], m)
        BY <3>1, <3>2, <3>3, <3>5 DEF HeardOK
      <3> QED BY <2>1, <3>4, <3>5
    <2>4. \A s \in Subs : ChildOK(s)'
      BY <2>1 DEF ChildKept, ChildrenInv, ChildOK, subRecords, subCallers
    <2> QED BY <2>2, <2>3, <2>4 DEF ChildrenInv
  <1>3. CASE ParentTold
    BY <1>3 DEF ParentTold, ChildrenInv, ChildrenTyped, SubTypeOK, ChildOK, HeardOK, subRecords,
                subTree, subSteers
  <1>4. CASE UNCHANGED subVars
    BY <1>4 DEF subVars, ChildrenInv, ChildrenTyped, SubTypeOK, ChildOK, HeardOK, subRecords,
                subTree, subSteers, subCallers
  <1> QED BY <1>1, <1>2, <1>3, <1>4 DEF ChildrenNext

\* What a step promises of the children, whichever it is.
StepKeeps ==
    /\ \A s \in Subs : subRow[s] \in SubEnded => subRow'[s] = subRow[s]
    /\ \A s \in Subs : job[s] = "running" /\ job'[s] = "committing" /\ ending'[s] = "completed"
                         => delivered[s] = steers[s]

LEMMA ChildrenKeep ==
    ASSUME ChildrenInv, ChildrenNext \/ UNCHANGED subVars
    PROVE  StepKeeps
  <1>1. ASSUME NEW s \in Subs, ChildStep(s)
        PROVE  StepKeeps
    BY <1>1, ChildMoves DEF ChildMoved, StepKeeps
  <1>2. ASSUME NEW m \in Sends, SendStep(m)
        PROVE  StepKeeps
    BY <1>2, SendMoves DEF ChildKept, StepKeeps, subRecords
  <1>3. CASE ParentTold
    BY <1>3 DEF ParentTold, StepKeeps, subRecords
  <1>4. CASE UNCHANGED subVars
    BY <1>4 DEF subVars, StepKeeps, subRecords
  <1> QED BY <1>1, <1>2, <1>3, <1>4 DEF ChildrenNext

LEMMA ChildrenAgree == ChildrenInv => OutcomesAgree
  BY DEF ChildrenInv, ChildOK, OutcomesAgree

-----------------------------------------------------------------------------
(* The children of a turn's tools *)

LEMMA ToolSteps == ToolNext => ChildrenNext
  <1>1. StopParent => ParentTold
    BY DEF StopParent, ParentTold
  <1> QED BY <1>1 DEF ToolNext, ChildrenNext, ChildStep

\* Where a child's lifecycle run has ended, its row and its agent run ended the same way, and
\* a child whose execution is gone is not left open (SubagentExecutor, finalize_subagent_run).
THEOREM ToolOutcomes == ToolSpec => []OutcomesAgree
  <1>1. ChildrenInv /\ [ToolNext]_subVars => ChildrenInv'
    BY ChildrenStep, ToolSteps
  <1> QED BY <1>1, ChildrenStart, ChildrenAgree, PTL DEF ToolSpec

\* An end a child's row has shown is never replaced.
THEOREM ToolEndsStay == ToolSpec => EndsStay
  <1>1. ChildrenInv /\ [ToolNext]_subVars => ChildrenInv'
    BY ChildrenStep, ToolSteps
  <1>2. ChildrenInv /\ [ToolNext]_subVars
            => [\A s \in Subs : subRow[s] \in SubEnded => subRow'[s] = subRow[s]]_subVars
    BY ChildrenKeep, ToolSteps DEF StepKeeps
  <1> QED BY <1>1, <1>2, ChildrenStart, PTL DEF ToolSpec, EndsStay

\* A child that completes has received every steer appended by then, once and in order
\* (LegacyTranscriptSink.drain_steers).
THEOREM ToolHeardAll == ToolSpec => CompletedHeardAll
  <1>1. ChildrenInv /\ [ToolNext]_subVars => ChildrenInv'
    BY ChildrenStep, ToolSteps
  <1>2. ChildrenInv /\ [ToolNext]_subVars
            => [\A s \in Subs : job[s] = "running" /\ job'[s] = "committing"
                                   /\ ending'[s] = "completed"
                                  => delivered[s] = steers[s]]_subVars
    BY ChildrenKeep, ToolSteps DEF StepKeeps
  <1> QED BY <1>1, <1>2, ChildrenStart, PTL DEF ToolSpec, CompletedHeardAll

-----------------------------------------------------------------------------
(* The researchers of a pipeline *)

\* Before its gather no question is asked; a question in the queue has launched nothing, one
\* with a permit is not awaited yet, and one that is done left no child open.
QuestionOK(s) ==
    /\ question[s] # "aborted"
    /\ stage \in {"none", "created", "decompose"} => question[s] = "idle"
    /\ question[s] \in {"idle", "queued"} => job[s] = "none"
    /\ question[s] = "permitted" => waiter[s] = "idle"
    /\ question[s] = "done" => job[s] = "none" \/ subRow[s] \in SubEnded

\* A panic takes the permits with the gather's tasks; until then they bound the children.
GatherInv ==
    stage # "panicked" =>
        /\ \A s \in Subs : QuestionOK(s)
        /\ Cardinality(Permits) <= MaxConcurrent
        /\ stage # "gather" => Permits = {}

ResearchInv == ChildrenInv /\ ResearchTypeOK /\ GatherInv

LEMMA PermitsCounted == IsFiniteSet(Permits) /\ Cardinality(Permits) \in Nat
  BY SubagentAssumption, FS_Subset, FS_CardinalityType DEF Permits

LEMMA FewerPermits ==
    ASSUME Permits' \subseteq Permits
    PROVE  Cardinality(Permits') <= Cardinality(Permits)
  BY PermitsCounted, FS_Subset

LEMMA OneMorePermit ==
    ASSUME NEW s, Permits' \subseteq Permits \cup {s}
    PROVE  Cardinality(Permits') <= Cardinality(Permits) + 1
  <1>1. /\ IsFiniteSet(Permits \cup {s})
        /\ Cardinality(Permits \cup {s}) \in {Cardinality(Permits), Cardinality(Permits) + 1}
    BY PermitsCounted, FS_AddElement
  <1>2. /\ Cardinality(Permits') \in Nat
        /\ Cardinality(Permits') <= Cardinality(Permits \cup {s})
    BY <1>1, FS_Subset, FS_CardinalityType
  <1> QED BY <1>1, <1>2, PermitsCounted

\* The steps of a question and of its child, seen from the children.
LEMMA ResearchSteps ==
    ASSUME ResearchTypeOK, ResearchNext
    PROVE  ChildrenNext \/ UNCHANGED subVars
  <1>1. StopParent \/ RevokeSignals => ParentTold
    BY DEF StopParent, RevokeSignals, ParentTold, ResearchTypeOK, SubTypeOK
  <1>2. ASSUME PipelineStep
        PROVE  UNCHANGED subVars
    BY <1>2 DEF PipelineStep, ResearchCreates, ResearchSpawns, Decompose, GatherEnds, Collect,
                Synthesize, Persist, ResearchFinishes, ResearchCancels, ResearchReports,
                ResearchPanics
  <1>3. ASSUME NEW s \in Subs, QuestionStep(s)
        PROVE  ChildStep(s) \/ UNCHANGED subVars
    BY <1>3 DEF QuestionStep, QuestionStarts, QuestionLaunches, QuestionWaits, QuestionFails,
                QuestionAwaits, QuestionEnds, ChildStep
  <1>4. RevokeWrites => UNCHANGED subVars
    BY DEF RevokeWrites
  <1> QED BY <1>1, <1>2, <1>3, <1>4 DEF ResearchNext, RunCancel, ChildrenNext, ChildStep

LEMMA ResearchTyped ==
    ASSUME ResearchTypeOK, SubTypeOK', ResearchNext \/ UNCHANGED researchVars
    PROVE  ResearchTypeOK'
  <1> USE DEF ResearchTypeOK, Working, SubEnded
  <1>1. CASE UNCHANGED researchVars
    BY <1>1 DEF researchVars, pipelineVars
  <1>2. CASE UNCHANGED pipelineVars
    BY <1>2 DEF pipelineVars
  <1>3. CASE ResearchCreates \/ ResearchSpawns
    BY <1>3 DEF ResearchCreates, ResearchSpawns
  <1>4. CASE Decompose
    BY <1>4 DEF Decompose, PassTo
  <1>5. CASE GatherEnds \/ Collect \/ Synthesize \/ Persist
    BY <1>5 DEF GatherEnds, Collect, Synthesize, Persist, PassTo
  <1>6. CASE ResearchFinishes
    BY <1>6 DEF ResearchFinishes
  <1>7. CASE ResearchCancels \/ ResearchReports
    BY <1>7 DEF ResearchCancels, ResearchReports
  <1>8. CASE ResearchPanics
    BY <1>8 DEF ResearchPanics
  <1>9. CASE RevokeWrites \/ RevokeSignals
    BY <1>9 DEF RevokeWrites, RevokeSignals
  <1>10. ASSUME NEW s \in Subs, QuestionStep(s)
         PROVE  ResearchTypeOK'
    BY <1>2, <1>10 DEF QuestionStep, QuestionStarts, QuestionLaunches, QuestionWaits,
                       QuestionFails, QuestionAwaits, QuestionEnds
  <1> QED BY <1>1, <1>2, <1>3, <1>4, <1>5, <1>6, <1>7, <1>8, <1>9, <1>10
          DEF ResearchNext, PipelineStep, RunCancel

\* The pipeline's own steps.
LEMMA PipelineGathers ==
    ASSUME ResearchInv, PipelineStep
    PROVE  GatherInv'
  <1>1. /\ question \in [Subs -> {"idle", "queued", "permitted", "waiting", "done", "aborted"}]
        /\ UNCHANGED subVars => UNCHANGED <<job, subRow, waiter>>
    BY DEF ResearchInv, ResearchTypeOK, subVars, subRecords, subCallers
  <1>2. Cardinality({}) = 0 /\ MaxConcurrent \in Nat
    BY FS_EmptySet, ResearchAssumption
  <1>3. ASSUME stage # "panicked", UNCHANGED <<question, job, subRow, waiter>>, stage' # "gather",
               Permits = {},
               stage' \in {"none", "created", "decompose"}
                   => stage \in {"none", "created", "decompose"}
        PROVE  GatherInv'
    <2>1. Permits' = {}
      BY <1>3 DEF Permits
    <2>2. \A s \in Subs : QuestionOK(s)'
      BY <1>3 DEF ResearchInv, ResearchTypeOK, Working, GatherInv, QuestionOK
    <2> QED BY <1>2, <2>1, <2>2 DEF GatherInv
  <1>4. ASSUME stage # "gather", stage # "panicked"
        PROVE  Permits = {}
    BY <1>4 DEF ResearchInv, GatherInv
  <1>5. CASE ResearchCreates \/ ResearchSpawns
    BY <1>1, <1>3, <1>4, <1>5 DEF ResearchCreates, ResearchSpawns
  <1>6. CASE Decompose
    <2>1. CASE stage' = "failing" /\ UNCHANGED question
      BY <1>1, <1>3, <1>4, <1>6, <2>1 DEF Decompose
    <2>2. CASE PassTo("gather") /\ question' = [s \in Subs |-> "queued"]
      <3>1. stage' \in {"gather", "cancelling"} /\ UNCHANGED <<job, subRow, waiter>>
        BY <1>1, <1>6, <2>2 DEF Decompose, PassTo
      <3>2. Permits' = {}
        BY <2>2 DEF Permits
      <3>3. \A s \in Subs : question[s] = "idle" /\ job[s] = "none"
        BY <1>6 DEF Decompose, ResearchInv, GatherInv, QuestionOK
      <3>4. \A s \in Subs : QuestionOK(s)'
        BY <2>2, <3>1, <3>3 DEF QuestionOK
      <3> QED BY <1>2, <3>2, <3>4 DEF GatherInv
    <2> QED BY <1>6, <2>1, <2>2 DEF Decompose
  <1>7. CASE GatherEnds
    <2>1. Permits = {}
      BY <1>7 DEF GatherEnds, Permits
    <2> QED BY <1>1, <1>3, <1>7, <2>1 DEF GatherEnds
  <1>8. CASE Collect \/ Synthesize \/ Persist
    BY <1>1, <1>3, <1>4, <1>8 DEF Collect, Synthesize, Persist, PassTo
  <1>9. CASE ResearchFinishes \/ ResearchCancels \/ ResearchReports
    BY <1>1, <1>3, <1>4, <1>9 DEF ResearchFinishes, ResearchCancels, ResearchReports
  <1>10. CASE ResearchPanics
    BY <1>10 DEF ResearchPanics, GatherInv
  <1> QED BY <1>5, <1>6, <1>7, <1>8, <1>9, <1>10 DEF PipelineStep

\* A step of one question or its child leaves the others' as they are.
LEMMA OneQuestion ==
    ASSUME ResearchInv, NEW s \in Subs, ChildMoved(s) \/ UNCHANGED subVars, stage' = stage,
           stage # "panicked", QuestionOK(s)',
           \A t \in Subs \ {s} : question'[t] = question[t],
           Cardinality(Permits') <= MaxConcurrent, stage # "gather" => Permits' \subseteq Permits
    PROVE  GatherInv'
  <1>1. \A t \in Subs \ {s} : /\ job'[t] = job[t] /\ subRow'[t] = subRow[t]
                              /\ waiter'[t] = waiter[t]
    BY DEF ChildMoved, subVars, subRecords, subCallers
  <1>2. \A t \in Subs : QuestionOK(t)'
    BY <1>1 DEF ResearchInv, GatherInv, QuestionOK
  <1> QED BY <1>2 DEF ResearchInv, GatherInv

\* Launching, executing and cancelling a child moves no question.
LEMMA ChildrenGather ==
    ASSUME ResearchInv, NEW s \in Subs, UNCHANGED pipelineVars,
           \/ JobStep(s) \/ CancelSignals(s) \/ CancelWrites(s)
           \/ QuestionLaunches(s) \/ QuestionAwaits(s)
    PROVE  GatherInv'
  <1>1. ChildMoved(s)
    BY ChildMoves DEF ResearchInv, ChildStep, QuestionLaunches, QuestionAwaits
  <1>2. UNCHANGED <<stage, question>> /\ Permits' = Permits
    BY DEF pipelineVars, Permits
  <1>3. CASE stage = "panicked"
    BY <1>2, <1>3 DEF GatherInv
  <1>4. CASE stage # "panicked"
    <2>1. QuestionOK(s) /\ Cardinality(Permits) <= MaxConcurrent
      BY <1>4 DEF ResearchInv, GatherInv
    <2>2. subRow[s] \in SubEnded => subRow'[s] \in SubEnded
      BY <1>1 DEF ChildMoved
    <2>3. ChildOK(s)
      BY DEF ResearchInv, ChildrenInv
    <2>4. ASSUME JobStep(s)
          PROVE  waiter' = waiter /\ job[s] # "none"
      BY <2>4 DEF JobStep, JobStarts, JobPrepares, JobBegins, JobEdits, JobDrains, JobRunEnds,
                  JobCommits, JobFinalizes, JobFinishes, JobCloses, JobSetupFails,
                  JobFailsChild, JobPanics, JobLeaves, subCallers
    <2>5. ASSUME CancelSignals(s) \/ CancelWrites(s)
          PROVE  UNCHANGED <<waiter, job>>
      BY <2>5 DEF CancelSignals, CancelWrites
    <2>6. ASSUME QuestionLaunches(s)
          PROVE  /\ waiter' = waiter /\ question[s] \notin {"idle", "queued"}
                 /\ question[s] = "done" => subRow'[s] \in SubEnded
      BY <2>1, <2>2, <2>3, <2>6
      DEF QuestionLaunches, LaunchStep, LaunchCreates, LaunchRecords, LaunchSpawns, QuestionOK,
          ChildOK, Unrecorded, SubEnded, subCallers
    <2>7. ASSUME QuestionAwaits(s)
          PROVE  question[s] = "waiting"
      BY <2>7 DEF QuestionAwaits
    <2>8. QuestionOK(s)'
      <3>1. CASE JobStep(s)
        BY <1>2, <2>1, <2>2, <2>4, <3>1 DEF QuestionOK
      <3>2. CASE CancelSignals(s) \/ CancelWrites(s)
        BY <1>2, <2>1, <2>2, <2>5, <3>2 DEF QuestionOK
      <3>3. CASE QuestionLaunches(s)
        BY <1>2, <2>1, <2>2, <2>6, <3>3 DEF QuestionOK
      <3>4. CASE QuestionAwaits(s)
        BY <1>2, <2>1, <2>7, <3>4 DEF QuestionOK
      <3> QED BY <3>1, <3>2, <3>3, <3>4
    <2> QED BY <1>1, <1>2, <1>4, <2>1, <2>8, OneQuestion
  <1> QED BY <1>3, <1>4

\* A question's own steps: a permit is taken only while one is free.
LEMMA QuestionGathers ==
    ASSUME ResearchInv, NEW s \in Subs,
           QuestionStarts(s) \/ QuestionWaits(s) \/ QuestionFails(s) \/ QuestionEnds(s)
    PROVE  GatherInv'
  <1>1. /\ question \in [Subs -> {"idle", "queued", "permitted", "waiting", "done", "aborted"}]
        /\ ChildOK(s) /\ Cardinality(Permits) \in Nat /\ MaxConcurrent \in Nat
    BY PermitsCounted, ResearchAssumption DEF ResearchInv, ResearchTypeOK, ChildrenInv
  <1>2. UNCHANGED stage /\ (ChildMoved(s) \/ UNCHANGED subVars)
    BY ChildMoves DEF ResearchInv, ChildStep, QuestionStarts, QuestionWaits, QuestionFails,
                      QuestionEnds
  <1>3. \A t \in Subs \ {s} : question'[t] = question[t]
    BY <1>1 DEF QuestionStarts, QuestionWaits, QuestionFails, QuestionEnds
  <1>4. CASE stage = "panicked"
    BY <1>2, <1>4 DEF GatherInv
  <1>5. CASE stage # "panicked"
    <2>1. QuestionOK(s) /\ Cardinality(Permits) <= MaxConcurrent
      BY <1>5 DEF ResearchInv, GatherInv
    <2>2. CASE QuestionStarts(s)
      <3>1. /\ stage = "gather" /\ question[s] = "queued" /\ job' = job /\ waiter' = waiter
            /\ question'[s] \in {"done", "permitted"} /\ Cardinality(Permits) < MaxConcurrent
        BY <1>1, <2>2 DEF QuestionStarts, subVars, subCallers
      <3>2. QuestionOK(s)'
        BY <1>1, <1>2, <2>1, <3>1 DEF QuestionOK, ChildOK, Unrecorded
      <3>3. Permits' \subseteq Permits \cup {s}
        BY <1>3 DEF Permits
      <3>4. IsFiniteSet(Permits') /\ Cardinality(Permits') \in Nat
        BY SubagentAssumption, FS_Subset, FS_CardinalityType DEF Permits
      <3>5. Cardinality(Permits') <= MaxConcurrent
        BY <1>1, <3>1, <3>3, <3>4, OneMorePermit
      <3> QED BY <1>2, <1>3, <1>5, <3>1, <3>2, <3>5, OneQuestion
    <2>3. ASSUME question[s] \in {"permitted", "waiting"}, QuestionOK(s)'
          PROVE  GatherInv'
      <3>1. Permits' \subseteq Permits
        BY <1>3, <2>3 DEF Permits
      <3>2. IsFiniteSet(Permits') /\ Cardinality(Permits') \in Nat
        BY SubagentAssumption, FS_Subset, FS_CardinalityType DEF Permits
      <3>3. Cardinality(Permits') <= MaxConcurrent
        BY <1>1, <2>1, <3>1, <3>2, FewerPermits
      <3> QED BY <1>2, <1>3, <1>5, <2>3, <3>1, <3>3, OneQuestion
    <2>4. CASE QuestionWaits(s)
      <3>1. question[s] = "permitted" /\ question'[s] = "waiting"
        BY <1>1, <2>4 DEF QuestionWaits
      <3> QED BY <1>2, <2>1, <2>3, <3>1 DEF QuestionOK
    <2>5. CASE QuestionFails(s)
      <3>1. /\ question[s] = "permitted" /\ question'[s] = "done" /\ job' = job
            /\ job[s] = "none"
        BY <1>1, <2>5 DEF QuestionFails, subVars
      <3> QED BY <1>2, <2>1, <2>3, <3>1 DEF QuestionOK
    <2>6. CASE QuestionEnds(s)
      <3>1. /\ question[s] = "waiting" /\ question'[s] = "done" /\ subRow' = subRow
            /\ subRow[s] \in SubEnded
        BY <1>1, <2>6 DEF QuestionEnds, subVars, subRecords, ChildOK
      <3> QED BY <1>2, <2>1, <2>3, <3>1 DEF QuestionOK
    <2> QED BY <2>2, <2>4, <2>5, <2>6
  <1> QED BY <1>4, <1>5

LEMMA ResearchStep ==
    ASSUME ResearchInv, ResearchNext \/ UNCHANGED researchVars
    PROVE  ResearchInv'
  <1>1. ChildrenNext \/ UNCHANGED subVars
    BY ResearchSteps DEF ResearchInv, researchVars
  <1>2. ChildrenInv'
    BY <1>1, ChildrenStep DEF ResearchInv
  <1>3. ResearchTypeOK'
    BY <1>2, ResearchTyped DEF ResearchInv, ChildrenInv, ChildrenTyped
  <1>4. GatherInv'
    <2>1. ASSUME UNCHANGED <<stage, question, job, subRow, waiter>>
          PROVE  GatherInv'
      BY <2>1 DEF ResearchInv, GatherInv, QuestionOK, Permits
    <2>2. CASE UNCHANGED researchVars
      BY <2>1, <2>2 DEF researchVars, pipelineVars, subVars, subRecords, subCallers
    <2>3. CASE RunCancel \/ RevokeWrites \/ RevokeSignals
      BY <2>1, <2>3 DEF RunCancel, RevokeWrites, RevokeSignals, StopParent, pipelineVars, subVars,
                        subRecords, subCallers
    <2>4. CASE PipelineStep
      BY <2>4, PipelineGathers
    <2>5. ASSUME NEW s \in Subs, QuestionStep(s)
          PROVE  GatherInv'
      <3>1. CASE QuestionLaunches(s) \/ QuestionAwaits(s)
        BY <3>1, ChildrenGather DEF QuestionLaunches, QuestionAwaits
      <3> QED BY <2>5, <3>1, QuestionGathers DEF QuestionStep
    <2>6. ASSUME NEW s \in Subs, UNCHANGED pipelineVars,
                 JobStep(s) \/ CancelSignals(s) \/ CancelWrites(s)
          PROVE  GatherInv'
      BY <2>6, ChildrenGather
    <2> QED BY <2>2, <2>3, <2>4, <2>5, <2>6 DEF ResearchNext
  <1> QED BY <1>2, <1>3, <1>4 DEF ResearchInv

LEMMA ResearchStart == ResearchInit => ResearchInv
  <1>1. ASSUME ResearchInit
        PROVE  ResearchTypeOK /\ GatherInv
    <2>1. ChildrenInv
      BY <1>1, ChildrenStart DEF ResearchInit
    <2>2. Permits = {} /\ \A s \in Subs : job[s] = "none" /\ question[s] = "idle"
      BY <1>1 DEF ResearchInit, SubInit, Permits
    <2>3. GatherInv
      BY <2>2, FS_EmptySet, ResearchAssumption DEF GatherInv, QuestionOK
    <2>4. ResearchTypeOK
      BY <1>1, <2>1 DEF ResearchInit, ResearchTypeOK, ChildrenInv, ChildrenTyped
    <2> QED BY <2>3, <2>4
  <1> QED BY <1>1, ChildrenStart DEF ResearchInit, ResearchInv

LEMMA FewChildren == ResearchInv => ChildrenBounded
  <1>1. ASSUME ResearchInv, stage # "panicked"
        PROVE  OpenChildren \subseteq Permits
    BY <1>1 DEF ResearchInv, ResearchTypeOK, ChildrenInv, ChildOK, GatherInv, QuestionOK,
                OpenChildren, Permits, Unrecorded, SubEnded
  <1>2. ASSUME ResearchInv, stage # "panicked"
        PROVE  Cardinality(OpenChildren) <= MaxConcurrent
    <2>1. /\ Cardinality(OpenChildren) <= Cardinality(Permits)
          /\ Cardinality(OpenChildren) \in Nat
      BY <1>1, <1>2, PermitsCounted, FS_Subset, FS_CardinalityType
    <2> QED BY <1>2, <2>1, PermitsCounted, ResearchAssumption DEF ResearchInv, GatherInv
  <1>3. ASSUME ResearchInv, stage \in {"reporting", "ended"}
        PROVE  OpenChildren = {}
    BY <1>1, <1>3 DEF ResearchInv, GatherInv
  <1> QED BY <1>2, <1>3 DEF ChildrenBounded

\* A pipeline never has more children open than it has permits, and leaves none open when it
\* ends, cancelled in the middle of the gather or not (gather_findings, its semaphore).
THEOREM ResearchBounded == ResearchSpec => []ChildrenBounded
  <1>1. ResearchInv /\ [ResearchNext]_researchVars => ResearchInv'
    BY ResearchStep
  <1> QED BY <1>1, ResearchStart, FewChildren, PTL DEF ResearchSpec

\* A pipeline's researchers keep the promises of a turn's children: their records agree and
\* an end they have shown stays (SubagentExecutor.launch is the same for both).
THEOREM ResearchersAgree == ResearchSpec => []OutcomesAgree /\ EndsStay
  <1>1. ResearchInv /\ [ResearchNext]_researchVars => ResearchInv'
    BY ResearchStep
  <1>2. ResearchInv /\ [ResearchNext]_researchVars
            => [\A s \in Subs : subRow[s] \in SubEnded => subRow'[s] = subRow[s]]_subVars
    BY ResearchSteps, ChildrenKeep DEF ResearchInv, StepKeeps, researchVars
  <1>3. ResearchInv => OutcomesAgree
    BY ChildrenAgree DEF ResearchInv
  <1> QED BY <1>1, <1>2, <1>3, ResearchStart, PTL DEF ResearchSpec, EndsStay

-----------------------------------------------------------------------------
(* The extensions of a turn: hooks and worker together *)

ExtensionSpec == ExtensionInit /\ [][ExtensionNext]_extVars

-----------------------------------------------------------------------------
(* The hooks *)

HookPlaces == {"waiting", "opening", "opened", "initialized", "acted", "answered", "broken",
               "completed", "failed", "blocked"}
Invocation == [at : HookPlaces, attempt : Nat, acts : Nat]

\* A hook that has been let through, and may act or has acted.
Admitted(h) == hook[h].at \notin {"waiting", "blocked", "failed"} \/ hook[h].acts > 0

\* How often a hook acted goes with where it is: a call is sent again only while the first
\* attempt cannot have reached its tool.  An admitted hook was reviewed, and those before it
\* had ended; they stay ended.
HookOK(h) ==
    /\ hook[h].at \in {"waiting", "opening", "opened", "initialized", "blocked"} => hook[h].acts = 0
    /\ hook[h].at \in {"acted", "answered", "completed"} => hook[h].acts = 1
    /\ hook[h].acts \in 0..1
    /\ Admitted(h) => h \in reviewed /\ ItsTurn(h)
HooksInv == hook \in [HookIds -> Invocation] /\ \A h \in HookIds : HookOK(h)

\* A step of a hook changes no other, reopens none that has ended, and admits it only in its
\* turn.
HookMoved(h) ==
    /\ hook' \in [HookIds -> Invocation] /\ reviewed' = reviewed
    /\ \A g \in HookIds : g # h => hook'[g] = hook[g]
    /\ HookEnded(h) => HookEnded(h)'
    /\ hook'[h].at \in {"waiting", "opening", "opened", "initialized", "blocked"}
          => hook'[h].acts = 0
    /\ hook'[h].at \in {"acted", "answered", "completed"} => hook'[h].acts = 1
    /\ hook'[h].acts \in 0..1
    /\ Admitted(h)' => Admitted(h) \/ (h \in reviewed /\ ItsTurn(h))

LEMMA HookMoves ==
    ASSUME HooksInv, NEW h \in HookIds, HookStep(h)
    PROVE  HookMoved(h)
  <1> USE DEF HooksInv, HookOK, Admitted, HookEnded, Invocation, HookPlaces, HookMoved
  <1>1. CASE Invokes(h)
    BY <1>1 DEF Invokes, HookAt
  <1>2. ASSUME hook[h].at = "opening", EndsProcess(h)
        PROVE  HookMoved(h)
    BY <1>2 DEF EndsProcess, ActsAnd, HookAt
  <1>3. CASE CallsProcess(h) \/ RunsCommand(h)
    BY <1>2, <1>3 DEF CallsProcess, RunsCommand
  <1>4. CASE OpensSession(h)
    BY <1>4 DEF OpensSession, HookAt
  <1>5. CASE Notifies(h)
    BY <1>5 DEF Notifies, HookAt
  <1>6. CASE PostsCall(h)
    BY <1>6 DEF PostsCall, ActsAnd
  <1>7. CASE Expired(h, "opened") \/ Expired(h, "initialized")
    BY <1>7 DEF Expired, Again
  <1>8. CASE CallBreaks(h) \/ CallAnswered(h)
    BY <1>8 DEF CallBreaks, CallAnswered, HookAt
  <1>9. CASE Audits(h)
    BY <1>9 DEF Audits, HookAt
  <1> QED BY <1>1, <1>3, <1>4, <1>5, <1>6, <1>7, <1>8, <1>9 DEF HookStep

\* A hook whose turn has come does not lose it.
LEMMA TurnStays ==
    ASSUME NEW g \in HookIds, ItsTurn(g), \A h \in HookIds : HookEnded(h) => HookEnded(h)'
    PROVE  ItsTurn(g)'
  BY DEF ItsTurn, Before

LEMMA HooksStep ==
    ASSUME HooksInv, HooksNext \/ UNCHANGED <<hook, reviewed>>
    PROVE  HooksInv'
  <1>1. ASSUME UNCHANGED <<hook, reviewed>>
        PROVE  HooksInv'
    BY <1>1 DEF HooksInv, HookOK, Admitted, ItsTurn, Before, HookEnded
  <1>2. ASSUME NEW h \in HookIds, HookStep(h)
        PROVE  HooksInv'
    <2>1. HookMoved(h)
      BY <1>2, HookMoves
    <2>2. \A g \in HookIds : HookEnded(g) => HookEnded(g)'
      BY <2>1 DEF HookMoved, HookEnded
    <2>3. \A g \in HookIds : ItsTurn(g) => ItsTurn(g)'
      BY <2>2, TurnStays
    <2>4. HookOK(h)'
      BY <2>1, <2>3 DEF HookMoved, HooksInv, HookOK
    <2>5. ASSUME NEW g \in HookIds, g # h
          PROVE  HookOK(g)'
      BY <2>1, <2>3, <2>5 DEF HookMoved, HooksInv, HookOK, Admitted
    <2> QED BY <2>1, <2>4, <2>5 DEF HooksInv, HookMoved
  <1>3. ASSUME NEW s \in sessions, ServerForgets(s)
        PROVE  HooksInv'
    BY <1>1, <1>3 DEF ServerForgets
  <1> QED BY <1>1, <1>2, <1>3 DEF HooksNext

-----------------------------------------------------------------------------
(* The worker *)

RequestPlaces == {"new", "locked", "sent", "failing", "completed", "unknown outcome", "error",
                  "given up"}
Requesting == [at : RequestPlaces, id : Nat, answer : WorkerCalls \cup {NoCaller}, acts : Nat]
Line == Nat \X WorkerCalls
WorkerState == [alive : BOOLEAN, attempt : Nat, next : Nat, torn : BOOLEAN]
WorkerTyped ==
    /\ request \in [WorkerCalls -> Requesting]
    /\ worker \in WorkerState
    /\ toWorker \in Seq(Line) /\ fromWorker \in Seq(Line)
    /\ holder \in WorkerCalls \cup {NoCaller}

\* A request that waits has the lock; one that was not sent was not carried out; one that is
\* reported as completed was, and the answer is its own.
RequestOK(c) ==
    /\ request[c].at \in {"locked", "sent", "failing"} => holder = c
    /\ request[c].at \in {"new", "locked"} => request[c].acts = 0
    /\ request[c].acts \in 0..1
    /\ request[c].at = "completed" => request[c].acts = 1 /\ request[c].answer = c

\* A line in a pipe carries the id of the request that wrote it, an id this process of the
\* worker has had, and nobody who waits for an answer waits under the id of another.  The
\* request was carried out n times.
LineOK(e, n) ==
    /\ request[e[2]].at \notin {"new", "locked"}
    /\ e[1] = request[e[2]].id /\ e[1] < worker.next
    /\ request[e[2]].acts = n
    /\ \A d \in WorkerCalls : request[d].at = "sent" /\ request[d].id = e[1] => d = e[2]
PipesInv ==
    /\ \A e \in ToSet(toWorker) : LineOK(e, 0)
    /\ \A e \in ToSet(fromWorker) : LineOK(e, 1)
    /\ \A i, j \in 1..Len(toWorker) : i # j => toWorker[i][2] # toWorker[j][2]
WorkerInv == WorkerTyped /\ PipesInv /\ \A c \in WorkerCalls : RequestOK(c)

LEMMA WorkerChanges ==
    ASSUME NEW w \in WorkerState, NEW n \in Nat, NEW b \in BOOLEAN
    PROVE  /\ w.next \in Nat /\ w.attempt \in Nat /\ w.torn \in BOOLEAN
           /\ [w EXCEPT !.next = n, !.torn = b] \in WorkerState
           /\ [w EXCEPT !.next = n, !.torn = b].next = n
           /\ [w EXCEPT !.alive = b] \in WorkerState /\ [w EXCEPT !.alive = b].next = w.next
           /\ [w EXCEPT !.alive = b, !.attempt = n] \in WorkerState
           /\ [w EXCEPT !.alive = b, !.attempt = n].next = w.next
           /\ [w EXCEPT !.torn = b] \in WorkerState /\ [w EXCEPT !.torn = b].next = w.next
           /\ [alive |-> TRUE, attempt |-> n, next |-> 2, torn |-> FALSE] \in WorkerState
  BY DEF WorkerState

LEMMA PipeTail ==
    ASSUME NEW S, NEW s \in Seq(S), s # <<>>
    PROVE  /\ Tail(s) \in Seq(S) /\ Len(s) \in Nat /\ Len(s) > 0
           /\ Head(s) = s[1] /\ s[1] \in S /\ Len(Tail(s)) = Len(s) - 1
           /\ \A i \in 1..Len(Tail(s)) : i + 1 \in 1..Len(s) /\ Tail(s)[i] = s[i + 1]
           /\ ToSet(Tail(s)) \subseteq ToSet(s) /\ s[1] \in ToSet(s)
  <1>1. /\ Tail(s) \in Seq(S) /\ Len(s) \in Nat /\ Len(s) > 0
        /\ Head(s) = s[1] /\ s[1] \in S /\ Len(Tail(s)) = Len(s) - 1
        /\ \A i \in 1..Len(Tail(s)) : i + 1 \in 1..Len(s) /\ Tail(s)[i] = s[i + 1]
    OBVIOUS
  <1>2. DOMAIN s = 1..Len(s) /\ DOMAIN Tail(s) = 1..Len(Tail(s))
    BY <1>1
  <1> QED BY <1>1, <1>2 DEF ToSet

LEMMA PipeAppend ==
    ASSUME NEW S, NEW s \in Seq(S), NEW x \in S
    PROVE  /\ Append(s, x) \in Seq(S) /\ Len(s) \in Nat /\ Len(Append(s, x)) = Len(s) + 1
           /\ \A i \in 1..Len(s) : Append(s, x)[i] = s[i]
           /\ Append(s, x)[Len(s) + 1] = x
           /\ ToSet(Append(s, x)) \subseteq ToSet(s) \cup {x}
  <1>1. /\ Append(s, x) \in Seq(S) /\ Len(s) \in Nat /\ Len(Append(s, x)) = Len(s) + 1
        /\ \A i \in 1..Len(s) : Append(s, x)[i] = s[i]
        /\ Append(s, x)[Len(s) + 1] = x
    OBVIOUS
  <1>2. DOMAIN s = 1..Len(s) /\ DOMAIN Append(s, x) = 1..(Len(s) + 1)
    BY <1>1
  <1>3. \A i \in 1..(Len(s) + 1) : i \in 1..Len(s) \/ i = Len(s) + 1
    BY <1>1
  <1> QED BY <1>1, <1>2, <1>3 DEF ToSet

LEMMA PipeLines ==
    ASSUME NEW S, NEW s \in Seq(S)
    PROVE  /\ ToSet(s) \subseteq S /\ Len(s) \in Nat /\ \A i \in 1..Len(s) : s[i] \in ToSet(s)
           /\ ToSet(<<>>) = {} /\ <<>> \in Seq(S) /\ Len(<<>>) = 0
  BY DEF ToSet

\* A step that sends nothing and lets nothing act leaves the lines true.
Settles ==
    /\ worker'.next = worker.next
    /\ \A d \in WorkerCalls :
          /\ request'[d].id = request[d].id /\ request'[d].acts = request[d].acts
          /\ request'[d].at = "sent" => request[d].at = "sent"
          /\ request'[d].at \in {"new", "locked"} => request[d].at \in {"new", "locked"}

LEMMA LineStays ==
    ASSUME Settles, NEW e \in Line, NEW n, LineOK(e, n)
    PROVE  LineOK(e, n)'
  BY DEF Settles, LineOK, Line

LEMMA PipesSettle ==
    ASSUME WorkerTyped, PipesInv, Settles, toWorker' = toWorker \/ toWorker' = <<>>,
           \/ fromWorker' = fromWorker \/ fromWorker' = <<>>
           \/ fromWorker # <<>> /\ fromWorker' = Tail(fromWorker)
    PROVE  PipesInv' /\ toWorker' \in Seq(Line) /\ fromWorker' \in Seq(Line)
  <1>1. toWorker \in Seq(Line) /\ fromWorker \in Seq(Line)
    BY DEF WorkerTyped
  <1>2. ToSet(toWorker) \subseteq Line /\ ToSet(fromWorker) \subseteq Line
    BY <1>1, PipeLines
  <1>3. /\ toWorker' \in Seq(Line) /\ ToSet(toWorker') \subseteq ToSet(toWorker)
        /\ toWorker' = toWorker \/ Len(toWorker') = 0
    BY <1>1, PipeLines
  <1>4. fromWorker' \in Seq(Line) /\ ToSet(fromWorker') \subseteq ToSet(fromWorker)
    <2> PICK s \in Seq(Line) : s = fromWorker
      BY <1>1
    <2>1. ToSet(<<>>) = {} /\ <<>> \in Seq(Line)
      BY <1>1, PipeLines
    <2>2. s # <<>> => Tail(s) \in Seq(Line) /\ ToSet(Tail(s)) \subseteq ToSet(s)
      BY PipeTail
    <2>3. fromWorker' = s \/ fromWorker' = <<>> \/ (s # <<>> /\ fromWorker' = Tail(s))
      OBVIOUS
    <2> QED BY <2>1, <2>2, <2>3
  <1>5. \A e \in ToSet(toWorker') : LineOK(e, 0)'
    BY <1>2, <1>3, LineStays DEF PipesInv
  <1>6. \A e \in ToSet(fromWorker') : LineOK(e, 1)'
    BY <1>2, <1>4, LineStays DEF PipesInv
  <1>7. \A i, j \in 1..Len(toWorker') : i # j => toWorker'[i][2] # toWorker'[j][2]
    BY <1>3 DEF PipesInv
  <1> QED BY <1>3, <1>4, <1>5, <1>6, <1>7 DEF PipesInv

LEMMA LineWritten ==
    ASSUME WorkerInv, NEW c \in WorkerCalls, WritesLine(c)
    PROVE  WorkerInv'
  <1> PICK n \in Nat : n = worker.next
    BY DEF WorkerInv, WorkerTyped, WorkerState
  <1>1. /\ toWorker \in Seq(Line) /\ fromWorker \in Seq(Line) /\ <<n, c>> \in Line
        /\ ToSet(toWorker) \subseteq Line /\ ToSet(fromWorker) \subseteq Line
    BY PipeLines DEF WorkerInv, WorkerTyped, Line
  <1>2. /\ request[c].at = "locked" /\ request[c].acts = 0 /\ holder = c /\ holder' = c
        /\ request' = [request EXCEPT ![c].id = n, ![c].at = "sent"]
        /\ worker'.next = n + 1 /\ fromWorker' = fromWorker
        /\ toWorker' = toWorker \/ toWorker' = Append(toWorker, <<n, c>>)
    BY DEF WritesLine, NextId, WorkerInv, WorkerTyped, RequestOK
  <1>3. /\ request' \in [WorkerCalls -> Requesting]
        /\ request'[c].at = "sent" /\ request'[c].id = n /\ request'[c].acts = 0
        /\ \A d \in WorkerCalls : d # c => request'[d] = request[d]
    <2> DEFINE sent == [request[c] EXCEPT !.id = n, !.at = "sent"]
    <2>1. request \in [WorkerCalls -> Requesting]
      BY DEF WorkerInv, WorkerTyped
    <2>2. sent \in Requesting /\ sent.at = "sent" /\ sent.id = n /\ sent.acts = request[c].acts
      BY <2>1 DEF Requesting, RequestPlaces
    <2>3. request' = [request EXCEPT ![c] = sent]
      BY <1>2, <2>1
    <2> HIDE DEF sent
    <2> QED BY <1>2, <2>1, <2>2, <2>3
  <1>4. \A d \in WorkerCalls : request[d].at # "sent"
    BY <1>2 DEF WorkerInv, RequestOK
  <1>5. ASSUME NEW e \in Line, NEW k, LineOK(e, k)
        PROVE  LineOK(e, k)' /\ e[2] # c /\ e[2] \in WorkerCalls
    <2>1. e[2] \in WorkerCalls /\ e[1] \in Nat /\ e[2] # c /\ e[1] < n
      BY <1>2, <1>5 DEF LineOK, Line
    <2>2. request'[e[2]] = request[e[2]]
      BY <1>3, <2>1
    <2>3. \A d \in WorkerCalls : request'[d].at = "sent" => d = c
      BY <1>3, <1>4
    <2>4. e[1] < n + 1 /\ e[1] # n
      BY <2>1
    <2> QED BY <1>2, <1>3, <1>5, <2>1, <2>2, <2>3, <2>4 DEF LineOK
  <1>6. LineOK(<<n, c>>, 0)'
    <2>1. \A d \in WorkerCalls : request'[d].at = "sent" => d = c
      BY <1>3, <1>4
    <2> QED BY <1>2, <1>3, <2>1 DEF LineOK
  <1>7. PipesInv' /\ toWorker' \in Seq(Line)
    <2>1. ToSet(toWorker') \subseteq ToSet(toWorker) \cup {<<n, c>>} /\ toWorker' \in Seq(Line)
      <3> PICK s \in Seq(Line) : s = toWorker
        BY <1>1
      <3>1. Append(s, <<n, c>>) \in Seq(Line) /\ ToSet(Append(s, <<n, c>>)) \subseteq ToSet(s) \cup {<<n, c>>}
        BY <1>1, PipeAppend
      <3>2. toWorker' = s \/ toWorker' = Append(s, <<n, c>>)
        BY <1>2
      <3> QED BY <3>1, <3>2
    <2>2. \A i, j \in 1..Len(toWorker') : i # j => toWorker'[i][2] # toWorker'[j][2]
      <3>1. CASE toWorker' = toWorker
        BY <3>1 DEF WorkerInv, PipesInv
      <3>2. CASE toWorker' = Append(toWorker, <<n, c>>)
        <4>1. /\ Len(toWorker) \in Nat /\ Len(toWorker') = Len(toWorker) + 1
              /\ \A i \in 1..Len(toWorker) : toWorker'[i] = toWorker[i]
              /\ toWorker'[Len(toWorker) + 1] = <<n, c>>
          BY <1>1, <3>2, PipeAppend
        <4>2. \A i \in 1..Len(toWorker) : toWorker'[i][2] # c
          BY <1>1, <1>5, <4>1, PipeLines DEF WorkerInv, PipesInv
        <4>3. \A i \in 1..Len(toWorker') : i \in 1..Len(toWorker) \/ i = Len(toWorker) + 1
          BY <4>1
        <4>4. toWorker'[Len(toWorker) + 1][2] = c
          BY <4>1
        <4> QED BY <4>1, <4>2, <4>3, <4>4 DEF WorkerInv, PipesInv
      <3> QED BY <1>2, <3>1, <3>2
    <2>3. \A e \in ToSet(toWorker') : LineOK(e, 0)'
      BY <1>1, <1>5, <1>6, <2>1 DEF WorkerInv, PipesInv
    <2>4. \A e \in ToSet(fromWorker') : LineOK(e, 1)'
      BY <1>1, <1>2, <1>5 DEF WorkerInv, PipesInv
    <2> QED BY <2>1, <2>2, <2>3, <2>4 DEF PipesInv
  <1>8. ASSUME NEW d \in WorkerCalls
        PROVE  RequestOK(d)'
    BY <1>2, <1>3 DEF WorkerInv, RequestOK
  <1>9. worker' \in WorkerState
    <2>1. worker \in WorkerState
          /\ worker' = [worker EXCEPT !.next = @ + 1, !.torn = FALSE]
      BY DEF WritesLine, WorkerInv, WorkerTyped
    <2>2. [worker EXCEPT !.next = n + 1, !.torn = FALSE] \in WorkerState
      <3>1. n + 1 \in Nat /\ FALSE \in BOOLEAN
        OBVIOUS
      <3> QED BY <2>1, <3>1, WorkerChanges
    <2> QED BY <2>1, <2>2
  <1> QED BY <1>1, <1>2, <1>3, <1>7, <1>8, <1>9 DEF WorkerInv, WorkerTyped

LEMMA LineActedOn ==
    ASSUME WorkerInv, WorkerActs
    PROVE  WorkerInv'
  <1>1. /\ toWorker \in Seq(Line) /\ fromWorker \in Seq(Line)
        /\ ToSet(toWorker) \subseteq Line /\ ToSet(fromWorker) \subseteq Line
    BY PipeLines DEF WorkerInv, WorkerTyped
  <1> PICK e \in Line : e = toWorker[1] /\ e = Head(toWorker) /\ e \in ToSet(toWorker)
    BY <1>1, PipeTail DEF WorkerActs
  <1> PICK c \in WorkerCalls : c = e[2]
    BY DEF Line
  <1>2. LineOK(e, 0)
    BY DEF WorkerInv, PipesInv
  <1>3. /\ request' = [request EXCEPT ![c].acts = @ + 1]
        /\ worker' = worker /\ holder' = holder
        /\ toWorker' = Tail(toWorker) /\ toWorker # <<>>
        /\ fromWorker' = fromWorker \/ fromWorker' = Append(fromWorker, e)
    BY DEF WorkerActs, workerVars
  <1>4. /\ request' \in [WorkerCalls -> Requesting] /\ request'[c].acts = 1
        /\ request'[c].at = request[c].at /\ request'[c].id = request[c].id
        /\ request'[c].answer = request[c].answer
        /\ \A d \in WorkerCalls : d # c => request'[d] = request[d]
    <2>1. request[c] \in Requesting /\ request[c].acts = 0
      BY <1>2 DEF WorkerInv, WorkerTyped, LineOK
    <2>2. [request[c] EXCEPT !.acts = @ + 1] \in Requesting
      BY <2>1 DEF Requesting
    <2>3. /\ request' \in [WorkerCalls -> Requesting]
          /\ request'[c] = [request[c] EXCEPT !.acts = @ + 1]
          /\ \A d \in WorkerCalls : d # c => request'[d] = request[d]
      BY <1>3, <2>2 DEF WorkerInv, WorkerTyped
    <2> QED BY <2>1, <2>3 DEF Requesting
  <1>5. ASSUME NEW f \in Line, NEW k, LineOK(f, k), f[2] # c
        PROVE  LineOK(f, k)'
    <2>1. f[2] \in WorkerCalls
      BY DEF Line
    <2>2. request'[f[2]] = request[f[2]]
      BY <1>4, <1>5, <2>1
    <2>3. \A d \in WorkerCalls : request'[d].at = request[d].at /\ request'[d].id = request[d].id
      BY <1>4
    <2> QED BY <1>3, <1>5, <2>2, <2>3 DEF LineOK
  <1>6. LineOK(e, 1)'
    <2>1. \A d \in WorkerCalls : request'[d].at = request[d].at /\ request'[d].id = request[d].id
      BY <1>4
    <2> QED BY <1>2, <1>3, <1>4, <2>1 DEF LineOK
  <1>7. /\ toWorker' \in Seq(Line) /\ Len(toWorker) \in Nat /\ Len(toWorker') = Len(toWorker) - 1
        /\ \A i \in 1..Len(toWorker') : i + 1 \in 1..Len(toWorker) /\ toWorker'[i] = toWorker[i + 1]
        /\ ToSet(toWorker') \subseteq ToSet(toWorker) /\ Len(toWorker) > 0
    BY <1>1, <1>3, PipeTail
  <1>8. \A i, j \in 1..Len(toWorker') : i # j => toWorker'[i][2] # toWorker'[j][2]
    <2> SUFFICES ASSUME NEW i \in 1..Len(toWorker'), NEW j \in 1..Len(toWorker'), i # j
                 PROVE  toWorker'[i][2] # toWorker'[j][2]
      OBVIOUS
    <2>1. i + 1 \in 1..Len(toWorker) /\ j + 1 \in 1..Len(toWorker) /\ i + 1 # j + 1
      BY <1>7
    <2>2. toWorker[i + 1][2] # toWorker[j + 1][2]
      BY <2>1 DEF WorkerInv, PipesInv
    <2> QED BY <1>7, <2>2
  <1>9. ASSUME NEW f \in ToSet(toWorker')
        PROVE  LineOK(f, 0)'
    <2>1. PICK i \in 1..Len(toWorker') : f = toWorker'[i]
      <3>1. DOMAIN toWorker' = 1..Len(toWorker')
        BY <1>7
      <3> QED BY <1>9, <3>1 DEF ToSet
    <2>2. 1 \in 1..Len(toWorker) /\ i + 1 # 1 /\ i + 1 \in 1..Len(toWorker)
      BY <1>7
    <2>3. f[2] # c
      BY <1>7, <2>1, <2>2 DEF WorkerInv, PipesInv
    <2>4. f \in Line /\ LineOK(f, 0)
      BY <1>1, <1>7 DEF WorkerInv, PipesInv
    <2> QED BY <1>5, <2>3, <2>4
  <1>10. fromWorker' \in Seq(Line) /\ ToSet(fromWorker') \subseteq ToSet(fromWorker) \cup {e}
    <2> PICK s \in Seq(Line) : s = fromWorker
      BY <1>1
    <2>1. Append(s, e) \in Seq(Line) /\ ToSet(Append(s, e)) \subseteq ToSet(s) \cup {e}
      BY PipeAppend
    <2>2. fromWorker' = s \/ fromWorker' = Append(s, e)
      BY <1>3
    <2> QED BY <2>1, <2>2
  <1>11. ASSUME NEW f \in ToSet(fromWorker')
         PROVE  LineOK(f, 1)'
    <2>1. f \in ToSet(fromWorker) \/ f = e
      BY <1>10, <1>11
    <2>2. ASSUME f \in ToSet(fromWorker) PROVE f \in Line /\ LineOK(f, 1) /\ f[2] # c
      BY <1>1, <1>2, <2>2 DEF WorkerInv, PipesInv, LineOK
    <2> QED BY <1>5, <1>6, <2>1, <2>2
  <1>12. ASSUME NEW d \in WorkerCalls
         PROVE  RequestOK(d)'
    BY <1>2, <1>3, <1>4 DEF WorkerInv, RequestOK, LineOK
  <1> QED BY <1>3, <1>4, <1>7, <1>8, <1>9, <1>10, <1>11, <1>12 DEF WorkerInv, WorkerTyped, PipesInv

\* A step of the holder that sends nothing leaves what it leaves of the pipes true.
RequestSettled(c) ==
    /\ request' \in [WorkerCalls -> Requesting]
    /\ \A d \in WorkerCalls : d # c => request'[d] = request[d]
    /\ request'[c].id = request[c].id /\ request'[c].acts = request[c].acts
    /\ request'[c].at = "sent" => request[c].at = "sent"
    /\ request'[c].at \in {"new", "locked"} => request[c].at \in {"new", "locked"}
    /\ request'[c].at = "completed" =>
          \/ request[c].at = "completed" /\ request'[c].answer = request[c].answer
          \/ request[c].acts = 1 /\ request'[c].answer = c

LEMMA RequestSettles ==
    ASSUME WorkerInv, NEW c \in WorkerCalls,
           TakesLock(c) \/ SendFails(c) \/ ReadsAnswer(c) \/ AnswerFails(c) \/ RestartFails(c) \/ GivesUp(c)
    PROVE  WorkerInv'
  <1> USE DEF RequestAt
  <1>1. /\ request \in [WorkerCalls -> Requesting]
        /\ worker \in WorkerState
        /\ toWorker \in Seq(Line) /\ fromWorker \in Seq(Line)
    BY DEF WorkerInv, WorkerTyped
  <1>2. ASSUME ReadsAnswer(c), Head(fromWorker)[1] = request[c].id
        PROVE  Head(fromWorker)[2] = c /\ request[c].acts = 1
    <2>1. PICK e \in Line : e = Head(fromWorker) /\ e \in ToSet(fromWorker)
      <3> PICK s \in Seq(Line) : s = fromWorker
        BY <1>1
      <3>1. s # <<>> => Head(s) = s[1] /\ s[1] \in Line /\ s[1] \in ToSet(s)
        BY PipeTail
      <3> QED BY <1>2, <3>1 DEF ReadsAnswer
    <2>2. LineOK(e, 1)
      BY <2>1 DEF WorkerInv, PipesInv
    <2>3. request[c].at = "sent"
      BY <1>2 DEF ReadsAnswer
    <2> QED BY <1>2, <2>1, <2>2, <2>3 DEF LineOK
  <1>3. RequestSettled(c)
    <2> USE DEF RequestSettled
    <2>1. \A q \in Requesting, at \in RequestPlaces :
             /\ [q EXCEPT !.at = at] \in Requesting
             /\ [q EXCEPT !.at = at].at = at /\ [q EXCEPT !.at = at].id = q.id
             /\ [q EXCEPT !.at = at].acts = q.acts
      BY DEF Requesting
    <2>2. CASE ReadsAnswer(c)
      <3>1. CASE Head(fromWorker)[1] # request[c].id
        BY <1>1, <2>2, <3>1 DEF ReadsAnswer
      <3>2. CASE Head(fromWorker)[1] = request[c].id
        <4>1. request' = [request EXCEPT ![c] = [@ EXCEPT !.at = "completed", !.answer = c]]
          BY <1>1, <1>2, <2>2, <3>2 DEF ReadsAnswer
        <4> DEFINE told == [request[c] EXCEPT !.at = "completed", !.answer = c]
        <4>2. /\ told \in Requesting /\ told.at = "completed" /\ told.answer = c
              /\ told.id = request[c].id /\ told.acts = request[c].acts
          <5>1. request[c] \in Requesting /\ "completed" \in RequestPlaces
            BY <1>1 DEF RequestPlaces
          <5>2. PICK q \in Requesting, at \in RequestPlaces : q = request[c] /\ at = "completed"
            BY <5>1
          <5>3. /\ [q EXCEPT !.at = at, !.answer = c] \in Requesting
                /\ [q EXCEPT !.at = at, !.answer = c].at = at
                /\ [q EXCEPT !.at = at, !.answer = c].answer = c
                /\ [q EXCEPT !.at = at, !.answer = c].id = q.id
                /\ [q EXCEPT !.at = at, !.answer = c].acts = q.acts
            BY DEF Requesting
          <5> QED BY <5>2, <5>3
        <4>3. request' = [request EXCEPT ![c] = told]
          BY <4>1
        <4> HIDE DEF told
        <4> QED BY <1>1, <1>2, <2>2, <3>2, <4>2, <4>3
      <3> QED BY <3>1, <3>2
    <2>3. ASSUME NEW at \in RequestPlaces \ {"new", "sent", "completed"},
                 request' = [request EXCEPT ![c].at = at],
                 at = "locked" => request[c].at = "new"
          PROVE  RequestSettled(c)
      <3>1. request[c] \in Requesting /\ at \in RequestPlaces
        BY <1>1
      <3>2. /\ [request[c] EXCEPT !.at = at] \in Requesting
            /\ [request[c] EXCEPT !.at = at].at = at
            /\ [request[c] EXCEPT !.at = at].id = request[c].id
            /\ [request[c] EXCEPT !.at = at].acts = request[c].acts
        BY <2>1, <3>1
      <3>3. /\ request' \in [WorkerCalls -> Requesting]
            /\ request'[c] = [request[c] EXCEPT !.at = at]
            /\ \A d \in WorkerCalls : d # c => request'[d] = request[d]
        BY <1>1, <2>3, <3>2
      <3> QED BY <2>3, <3>2, <3>3
    <2>4. CASE TakesLock(c) \/ SendFails(c) \/ AnswerFails(c) \/ RestartFails(c) \/ GivesUp(c)
      BY <2>3, <2>4 DEF TakesLock, SendFails, AnswerFails, RestartFails, GivesUp, RequestPlaces
    <2> QED BY <2>2, <2>4
  <1>4. /\ worker' \in WorkerState
        /\ worker'.next = worker.next
    <2>1. CASE TakesLock(c) \/ SendFails(c) \/ ReadsAnswer(c) \/ AnswerFails(c)
      BY <1>1, <2>1 DEF TakesLock, SendFails, ReadsAnswer, AnswerFails
    <2>2. CASE RestartFails(c)
      <3>1. /\ worker' = [worker EXCEPT !.alive = FALSE, !.attempt = worker.attempt + 1]
            /\ worker.attempt + 1 \in Nat
        BY <1>1, <2>2 DEF RestartFails, WorkerState
      <3>2. \A n \in Nat : /\ [worker EXCEPT !.alive = FALSE, !.attempt = n] \in WorkerState
                           /\ [worker EXCEPT !.alive = FALSE, !.attempt = n].next = worker.next
        BY <1>1, WorkerChanges
      <3> QED BY <3>1, <3>2
    <2>3. CASE GivesUp(c)
      <3>1. PICK b \in BOOLEAN : worker' = [worker EXCEPT !.torn = b]
        <4> DEFINE left == worker.torn \/ (request[c].at = "locked" /\ worker.alive)
        <4>1. worker' = [worker EXCEPT !.torn = left] /\ left \in BOOLEAN
          BY <1>1, <2>3, Zenon DEF GivesUp
        <4> QED BY <4>1
      <3> QED BY <1>1, <3>1, WorkerChanges
    <2> QED BY <2>1, <2>2, <2>3
  <1>5. Settles
    BY <1>3, <1>4 DEF Settles, RequestSettled
  <1>6. /\ toWorker' = toWorker \/ toWorker' = <<>>
        /\ \/ fromWorker' = fromWorker \/ fromWorker' = <<>>
           \/ fromWorker # <<>> /\ fromWorker' = Tail(fromWorker)
    BY DEF TakesLock, SendFails, ReadsAnswer, AnswerFails, RestartFails, GivesUp
  <1>7. PipesInv' /\ toWorker' \in Seq(Line) /\ fromWorker' \in Seq(Line)
    BY <1>5, <1>6, PipesSettle DEF WorkerInv
  <1>8. /\ holder' \in WorkerCalls \cup {NoCaller}
        /\ request'[c].at \in {"locked", "sent", "failing"} => holder' = c
        /\ holder' = holder \/ holder \in {c, NoCaller}
    <2>1. /\ holder \in WorkerCalls \cup {NoCaller}
          /\ request[c].at \in {"locked", "sent", "failing"} => holder = c
      BY DEF WorkerInv, WorkerTyped, RequestOK
    <2>2. CASE TakesLock(c)
      BY <1>1, <2>1, <2>2 DEF TakesLock
    <2>3. CASE SendFails(c) \/ AnswerFails(c)
      BY <1>1, <2>1, <2>3 DEF SendFails, AnswerFails
    <2>4. CASE ReadsAnswer(c)
      <3>1. holder' = NoCaller => request'[c].at = "completed" \/ UNCHANGED <<request, holder>>
        BY <1>1, <2>4 DEF ReadsAnswer, Requesting
      <3> QED BY <2>1, <2>4, <3>1 DEF ReadsAnswer
    <2>5. CASE RestartFails(c) \/ GivesUp(c)
      <3>1. request'[c].at \in {"error", "given up"}
        <4>1. ASSUME NEW at, RequestAt(c, at) PROVE request'[c].at = at
          BY <1>1, <4>1 DEF RequestAt, Requesting
        <4> QED BY <2>5, <4>1 DEF RestartFails, GivesUp
      <3>2. holder' = NoCaller /\ (holder = c \/ request[c].at = "failing")
        BY <2>5 DEF RestartFails, GivesUp
      <3> QED BY <2>1, <3>1, <3>2
    <2> QED BY <2>2, <2>3, <2>4, <2>5
  <1>9. RequestOK(c)'
    BY <1>3, <1>8 DEF WorkerInv, RequestOK, RequestSettled
  <1>10. ASSUME NEW d \in WorkerCalls, d # c
         PROVE  RequestOK(d)'
    BY <1>3, <1>8, <1>10, ExtensionAssumption DEF WorkerInv, RequestOK, RequestSettled
  <1> QED BY <1>3, <1>4, <1>7, <1>8, <1>9, <1>10 DEF WorkerInv, WorkerTyped, RequestSettled

\* A new worker has nothing to answer.
LEMMA WorkerRestarted ==
    ASSUME WorkerInv, NEW c \in WorkerCalls, Restarts(c)
    PROVE  WorkerInv'
  <1> USE DEF RequestAt
  <1>1. /\ request' = [request EXCEPT ![c].at = "unknown outcome"] /\ holder' = NoCaller
        /\ worker' = Respawned /\ toWorker' = <<>> /\ fromWorker' = <<>> /\ holder = c
    BY DEF Restarts, WorkerInv, RequestOK
  <1>2. /\ request' \in [WorkerCalls -> Requesting]
        /\ request'[c].at = "unknown outcome" /\ request'[c].acts = request[c].acts
        /\ \A d \in WorkerCalls : d # c => request'[d] = request[d]
    BY <1>1 DEF WorkerInv, WorkerTyped, Requesting, RequestPlaces
  <1>3. worker' \in WorkerState
    <2>1. worker.attempt + 1 \in Nat
      BY DEF WorkerInv, WorkerTyped, WorkerState
    <2> QED BY <1>1, <2>1, WorkerChanges DEF Respawned, WorkerInv, WorkerTyped
  <1>4. PipesInv' /\ toWorker' \in Seq(Line) /\ fromWorker' \in Seq(Line)
    <2>1. ToSet(<<>>) = {} /\ <<>> \in Seq(Line) /\ Len(<<>>) = 0
      BY DEF ToSet
    <2>2. ToSet(toWorker') = {} /\ ToSet(fromWorker') = {} /\ Len(toWorker') = 0
      BY <1>1, <2>1
    <2>3. \A i, j \in 1..Len(toWorker') : i # j => toWorker'[i][2] # toWorker'[j][2]
      BY <2>2
    <2> HIDE DEF Line
    <2> QED BY <1>1, <2>1, <2>2, <2>3 DEF PipesInv
  <1>5. ASSUME NEW d \in WorkerCalls
        PROVE  RequestOK(d)'
    BY <1>1, <1>2 DEF WorkerInv, RequestOK
  <1> QED BY <1>1, <1>2, <1>3, <1>4, <1>5 DEF WorkerInv, WorkerTyped

LEMMA WorkerStep ==
    ASSUME WorkerInv, WorkerNext \/ UNCHANGED workerVars
    PROVE  WorkerInv'
  <1>1. ASSUME NEW c \in WorkerCalls, RequestStep(c)
        PROVE  WorkerInv'
    BY <1>1, RequestSettles, LineWritten, WorkerRestarted DEF RequestStep
  <1>2. CASE WorkerActs
    BY <1>2, LineActedOn
  <1>3. ASSUME toWorker' = toWorker \/ toWorker' = <<>>, UNCHANGED <<holder, request, fromWorker>>,
               worker' = worker \/ worker' = [worker EXCEPT !.alive = FALSE]
        PROVE  WorkerInv'
    <2>1. /\ worker' \in WorkerState
          /\ worker'.next = worker.next
      <3>1. worker \in WorkerState
        BY DEF WorkerInv, WorkerTyped
      <3>2. /\ [worker EXCEPT !.alive = FALSE] \in WorkerState
            /\ [worker EXCEPT !.alive = FALSE].next = worker.next
        BY <3>1, WorkerChanges
      <3> QED BY <1>3, <3>1, <3>2
    <2>2. Settles
      BY <1>3, <2>1 DEF Settles
    <2>3. PipesInv' /\ toWorker' \in Seq(Line) /\ fromWorker' \in Seq(Line)
      BY <1>3, <2>2, PipesSettle DEF WorkerInv
    <2>4. \A d \in WorkerCalls : RequestOK(d)'
      BY <1>3 DEF WorkerInv, RequestOK
    <2> QED BY <1>3, <2>1, <2>3, <2>4 DEF WorkerInv, WorkerTyped
  <1>4. CASE WorkerDies
    BY <1>3, <1>4 DEF WorkerDies
  <1>5. CASE UNCHANGED workerVars
    BY <1>3, <1>5 DEF workerVars
  <1> QED BY <1>1, <1>2, <1>4, <1>5 DEF WorkerNext

-----------------------------------------------------------------------------
\* However sessions expire, answers come late, the worker dies or a caller leaves: nothing is
\* carried out twice, what is reported as completed was, under its own request's answer, and
\* a hook acts only as it was reviewed and after those before it have ended.
THEOREM NothingTwice == ExtensionSpec => []ExtensionsHold
  <1>1. ExtensionInit => HooksInv /\ WorkerInv
    <2> SUFFICES ASSUME ExtensionInit PROVE HooksInv /\ WorkerInv
      OBVIOUS
    <2>1. HooksInv
      BY DEF ExtensionInit, HooksInv, HookOK, Admitted, Invocation, HookPlaces
    <2>2. WorkerTyped
      BY DEF ExtensionInit, WorkerTyped, Requesting, RequestPlaces, WorkerState
    <2>3. PipesInv
      <3>1. ToSet(<<>>) = {} /\ Len(<<>>) = 0
        BY DEF ToSet
      <3> QED BY <3>1 DEF ExtensionInit, PipesInv
    <2>4. \A c \in WorkerCalls : RequestOK(c)
      BY DEF ExtensionInit, RequestOK
    <2> QED BY <2>1, <2>2, <2>3, <2>4 DEF WorkerInv
  <1>2. HooksInv /\ WorkerInv /\ [ExtensionNext]_extVars => HooksInv' /\ WorkerInv'
    <2> SUFFICES ASSUME HooksInv, WorkerInv, [ExtensionNext]_extVars
                 PROVE  HooksInv' /\ WorkerInv'
      OBVIOUS
    <2>1. ASSUME HooksNext
          PROVE  UNCHANGED workerVars
      <3>1. ASSUME NEW h \in HookIds, HookStep(h)
            PROVE  UNCHANGED workerVars
        BY <3>1 DEF HookStep, Invokes, CallsProcess, RunsCommand, EndsProcess, OpensSession, Notifies,
                    PostsCall, Expired, CallBreaks, CallAnswered, Audits
      <3>2. ASSUME NEW s \in sessions, ServerForgets(s)
            PROVE  UNCHANGED workerVars
        BY <3>2 DEF ServerForgets
      <3> QED BY <2>1, <3>1, <3>2 DEF HooksNext
    <2>2. ASSUME WorkerNext
          PROVE  UNCHANGED <<hook, reviewed>>
      <3>1. ASSUME NEW c \in WorkerCalls, RequestStep(c)
            PROVE  UNCHANGED hookVars
        BY <3>1 DEF RequestStep, TakesLock, WritesLine, SendFails, ReadsAnswer, AnswerFails, Restarts,
                    RestartFails, GivesUp
      <3>2. ASSUME WorkerActs \/ WorkerDies
            PROVE  UNCHANGED hookVars
        BY <3>2 DEF WorkerActs, WorkerDies
      <3> QED BY <2>2, <3>1, <3>2 DEF WorkerNext, hookVars
    <2>3. CASE HooksNext
      BY <2>1, <2>3, HooksStep, WorkerStep
    <2>4. CASE WorkerNext
      BY <2>2, <2>4, HooksStep, WorkerStep
    <2>5. CASE UNCHANGED extVars
      BY <2>5, HooksStep, WorkerStep DEF extVars, workerVars
    <2> QED BY <2>3, <2>4, <2>5 DEF ExtensionNext
  <1>3. HooksInv /\ WorkerInv => ExtensionsHold
    BY DEF HooksInv, WorkerInv, HookOK, RequestOK, Admitted, Invocation, ExtensionsHold, ActsOnce,
           HooksInTurn
  <1> QED BY <1>1, <1>2, <1>3, PTL DEF ExtensionSpec

-----------------------------------------------------------------------------
(* What is captured of a program's output *)

\* The cut points of run_bounded_process are minima of two counts.
LEMMA MinOfTwo ==
    ASSUME NEW a \in Nat, NEW b \in Nat
    PROVE  Min({a, b}) = IF a <= b THEN a ELSE b
  <1>1. PICK m \in {a, b} : \A y \in {a, b} : m <= y
    <2>1. CASE a <= b
      BY <2>1
    <2>2. CASE ~(a <= b)
      BY <2>2
    <2> QED BY <2>1, <2>2
  <1>2. Min({a, b}) \in {a, b} /\ \A y \in {a, b} : Min({a, b}) <= y
    BY <1>1, Zenon DEF Min
  <1> QED BY <1>2

\* A run of bytes, and what is left of it by cutting.
LEMMA NumbersAre ==
    ASSUME NEW a \in Int, NEW b \in Int, a <= b + 1
    PROVE  /\ Numbers(a, b) \in Seq(Int) /\ Len(Numbers(a, b)) = b - a + 1
           /\ \A i \in 1..(b - a + 1) : Numbers(a, b)[i] = a + i - 1
  <1>1. b - a + 1 \in Nat
    OBVIOUS
  <1>2. Numbers(a, b) \in [1..(b - a + 1) -> Int]
    BY DEF Numbers
  <1> QED BY <1>1, <1>2 DEF Numbers

LEMMA NoNumbers ==
    ASSUME NEW a \in Int
    PROVE  Numbers(a + 1, a) = << >>
  <1>1. Numbers(a + 1, a) \in Seq(Int) /\ Len(Numbers(a + 1, a)) = 0
    BY NumbersAre
  <1> QED BY <1>1, EmptySeq

LEMMA NumbersJoin ==
    ASSUME NEW a \in Int, NEW b \in Int, NEW c \in Int, a <= b + 1, b <= c
    PROVE  Numbers(a, b) \o Numbers(b + 1, c) = Numbers(a, c)
  <1> DEFINE s == Numbers(a, b)
             t == Numbers(b + 1, c)
             u == Numbers(a, c)
             st == s \o t
  <1>1. s \in Seq(Int) /\ Len(s) = b - a + 1 /\ \A i \in 1..(b - a + 1) : s[i] = a + i - 1
    BY NumbersAre
  <1>2. t \in Seq(Int) /\ Len(t) = c - b /\ \A i \in 1..(c - b) : t[i] = b + i
    <2>1. b + 1 \in Int /\ b + 1 <= c + 1 /\ c - (b + 1) + 1 = c - b
      OBVIOUS
    <2>2. t \in Seq(Int) /\ Len(t) = c - (b + 1) + 1 /\ \A i \in 1..(c - (b + 1) + 1) : t[i] = (b + 1) + i - 1
      BY <2>1, NumbersAre, Zenon
    <2> QED BY <2>1, <2>2
  <1>3. u \in Seq(Int) /\ Len(u) = c - a + 1 /\ \A i \in 1..(c - a + 1) : u[i] = a + i - 1
    <2>1. a <= c + 1
      OBVIOUS
    <2> QED BY <2>1, NumbersAre, Zenon
  <1> HIDE DEF s, t, u
  <1>4. /\ st \in Seq(Int) /\ Len(st) = Len(s) + Len(t)
        /\ \A i \in 1..(Len(s) + Len(t)) : st[i] = IF i <= Len(s) THEN s[i] ELSE t[i - Len(s)]
    BY <1>1, <1>2, ConcatProperties, Zenon
  <1> HIDE DEF st
  <1>5. Len(st) = Len(u)
    BY <1>1, <1>2, <1>3, <1>4
  <1>6. ASSUME NEW i \in 1..Len(st)
        PROVE  st[i] = u[i]
    <2>1. CASE i <= Len(s)
      BY <1>1, <1>2, <1>3, <1>4, <2>1
    <2>2. CASE ~(i <= Len(s))
      <3>1. i - Len(s) \in 1..(c - b) /\ i \in 1..(c - a + 1) /\ i \in 1..(Len(s) + Len(t))
        BY <1>1, <1>2, <1>4, <2>2
      <3>2. st[i] = t[i - Len(s)]
        BY <1>4, <2>2, <3>1
      <3>3. t[i - Len(s)] = b + (i - Len(s))
        BY <1>2, <3>1
      <3>4. u[i] = a + i - 1
        BY <1>3, <3>1
      <3> QED BY <1>1, <3>2, <3>3, <3>4
    <2> QED BY <2>1, <2>2
  <1>7. st = u
    BY <1>3, <1>4, <1>5, <1>6, SeqEqual
  <1> QED BY <1>7 DEF s, t, u, st

LEMMA NumbersCut ==
    ASSUME NEW a \in Int, NEW b \in Int, NEW i \in Int, NEW j \in Int,
           1 <= i, i <= j + 1, j <= b - a + 1
    PROVE  SubSeq(Numbers(a, b), i, j) = Numbers(a + i - 1, a + j - 1)
  <1> DEFINE s == Numbers(a, b)
             u == Numbers(a + i - 1, a + j - 1)
             v == SubSeq(s, i, j)
  <1>1. s \in Seq(Int) /\ Len(s) = b - a + 1 /\ \A k \in 1..(b - a + 1) : s[k] = a + k - 1
    <2>1. a <= b + 1
      OBVIOUS
    <2> QED BY <2>1, NumbersAre, Zenon
  <1>2. u \in Seq(Int) /\ Len(u) = j - i + 1 /\ \A k \in 1..(j - i + 1) : u[k] = a + i + k - 2
    <2>1. ASSUME NEW p \in Int, NEW q \in Int, p = a + i - 1, q = a + j - 1
          PROVE  /\ Numbers(p, q) \in Seq(Int) /\ Len(Numbers(p, q)) = j - i + 1
                 /\ \A k \in 1..(j - i + 1) : Numbers(p, q)[k] = a + i + k - 2
      <3>1. p <= q + 1 /\ q - p + 1 = j - i + 1
        BY <2>1
      <3>2. /\ Numbers(p, q) \in Seq(Int) /\ Len(Numbers(p, q)) = q - p + 1
            /\ \A k \in 1..(q - p + 1) : Numbers(p, q)[k] = p + k - 1
        BY <3>1, NumbersAre, Zenon
      <3> QED BY <2>1, <3>1, <3>2
    <2>2. a + i - 1 \in Int /\ a + j - 1 \in Int
      OBVIOUS
    <2> QED BY <2>1, <2>2, Zenon
  <1> HIDE DEF s, u
  <1>3. \A k \in i..j : s[k] \in Int
    BY <1>1
  <1>4. /\ v \in Seq(Int) /\ Len(v) = IF i <= j THEN j - i + 1 ELSE 0
        /\ \A k \in 1..(j - i + 1) : v[k] = s[i + k - 1]
    BY <1>3, SubSeqProperties
  <1> HIDE DEF v
  <1>5. \A k \in 1..(j - i + 1) : i + k - 1 \in 1..(b - a + 1)
    OBVIOUS
  <1>6. Len(v) = Len(u) /\ \A k \in 1..Len(v) : v[k] = u[k]
    BY <1>1, <1>2, <1>4, <1>5
  <1>7. v = u
    BY <1>2, <1>4, <1>6, SeqEqual
  <1> QED BY <1>7 DEF s, u, v

\* The two counts a capture is cut at, whatever the call's mode is.
LEMMA CapsAreNat == HeadOf \in Nat /\ TailOf \in Nat
  BY ProcessAssumption DEF HeadOf, TailOf

Captures == [head : Seq(Int), tail : Seq(Int), total : Nat, joined : BOOLEAN]
First(n) == Min({n, HeadOf})
LastBytes(n) == Min({n, TailOf})
\* The head has the first bytes of what was read, the tail the last.
BytesOK(c) ==
    /\ c \in Captures
    /\ c.head = Numbers(1, First(c.total))
    /\ c.tail = Numbers(c.total - LastBytes(c.total) + 1, c.total)

LEMMA CutsAre ==
    ASSUME NEW n \in Nat
    PROVE  /\ First(n) \in 0..n /\ First(n) = IF n <= HeadOf THEN n ELSE HeadOf
           /\ LastBytes(n) \in 0..n /\ LastBytes(n) = IF n <= TailOf THEN n ELSE TailOf
  BY CapsAreNat, MinOfTwo DEF First, LastBytes

\* One read moves both: the head by what it has room for, the tail to the new end.
LEMMA HeadGrows ==
    ASSUME NEW t \in Nat, NEW n \in Nat
    PROVE  LET room == HeadOf - First(t)
           IN  Numbers(1, First(t)) \o SubSeq(Numbers(t + 1, t + n), 1, Min({n, room}))
                   = Numbers(1, First(t + n))
  <1> DEFINE h == First(t)
             room == HeadOf - h
             m == Min({n, room})
  <1>1. h \in 0..t /\ h = (IF t <= HeadOf THEN t ELSE HeadOf) /\ HeadOf \in Nat
    BY CutsAre, CapsAreNat
  <1>2. First(t + n) = IF t + n <= HeadOf THEN t + n ELSE HeadOf
    BY CutsAre
  <1> HIDE DEF h
  <1>3. room \in Nat
    BY <1>1
  <1> HIDE DEF room
  <1>4. m = IF n <= room THEN n ELSE room
    BY <1>3, MinOfTwo
  <1>5. m \in 0..n
    BY <1>3, <1>4
  <1> HIDE DEF m
  <1>6. SubSeq(Numbers(t + 1, t + n), 1, m) = Numbers(t + 1, t + m)
    <2>1. ASSUME NEW a \in Int, NEW b \in Int, a = t + 1, b = t + n
          PROVE  SubSeq(Numbers(a, b), 1, m) = Numbers(t + 1, t + m)
      <3>1. 1 \in Int /\ m \in Int /\ 1 <= 1 /\ 1 <= m + 1 /\ m <= b - a + 1
        BY <1>5, <2>1
      <3>2. SubSeq(Numbers(a, b), 1, m) = Numbers(a + 1 - 1, a + m - 1)
        BY <3>1, NumbersCut, ZenonT(60)
      <3>3. a + 1 - 1 = t + 1 /\ a + m - 1 = t + m
        BY <2>1, <3>1
      <3> QED BY <3>2, <3>3
    <2>2. t + 1 \in Int /\ t + n \in Int
      OBVIOUS
    <2> QED BY <2>1, <2>2, Zenon
  <1>7. Numbers(1, h) \o Numbers(t + 1, t + m) = Numbers(1, First(t + n))
    <2>1. CASE t <= HeadOf
      <3>1. h = t /\ First(t + n) = t + m
        BY <1>1, <1>2, <1>4, <2>1 DEF room
      <3>2. 1 \in Int /\ t \in Int /\ t + m \in Int /\ 1 <= t + 1 /\ t <= t + m
        BY <1>5
      <3>3. Numbers(1, t) \o Numbers(t + 1, t + m) = Numbers(1, t + m)
        BY <3>2, NumbersJoin, ZenonT(60)
      <3> QED BY <3>1, <3>3
    <2>2. CASE ~(t <= HeadOf)
      <3>1. h = HeadOf /\ m = 0 /\ First(t + n) = h /\ t + m = t
        BY <1>1, <1>2, <1>4, <2>2 DEF room
      <3>2. Numbers(t + 1, t + m) = << >>
        BY <3>1, NoNumbers
      <3>3. Numbers(1, h) \in Seq(Int)
        <4>1. 1 \in Int /\ h \in Int /\ 1 <= h + 1
          BY <1>1
        <4> QED BY <4>1, NumbersAre, Zenon
      <3> QED BY <3>1, <3>2, <3>3, ConcatEmptySeq
    <2> QED BY <2>1, <2>2
  <1> QED BY <1>6, <1>7 DEF h, room, m

\* What the last bytes of a run of bytes are.
LEMMA EndingOfNumbers ==
    ASSUME NEW a \in Int, NEW b \in Int, NEW n \in Nat, n <= b - a + 1
    PROVE  Ending(Numbers(a, b), n) = Numbers(b - n + 1, b)
  <1>1. a <= b + 1
    OBVIOUS
  <1>2. Len(Numbers(a, b)) = b - a + 1
    BY <1>1, NumbersAre, Zenon
  <1>3. ASSUME NEW i \in Int, NEW j \in Int, i = (b - a + 1) - n + 1, j = b - a + 1
        PROVE  SubSeq(Numbers(a, b), i, j) = Numbers(b - n + 1, b)
    <2>1. 1 <= i /\ i <= j + 1 /\ j <= b - a + 1
      BY <1>3
    <2>2. SubSeq(Numbers(a, b), i, j) = Numbers(a + i - 1, a + j - 1)
      BY <2>1, NumbersCut, ZenonT(60)
    <2>3. a + i - 1 = b - n + 1 /\ a + j - 1 = b
      BY <1>3
    <2> QED BY <2>2, <2>3
  <1>4. (b - a + 1) - n + 1 \in Int /\ b - a + 1 \in Int
    OBVIOUS
  <1>5. SubSeq(Numbers(a, b), (b - a + 1) - n + 1, b - a + 1) = Numbers(b - n + 1, b)
    BY <1>3, <1>4, Zenon
  <1> QED BY <1>2, <1>5 DEF Ending

LEMMA TailMoves ==
    ASSUME NEW t \in Nat, NEW n \in Nat
    PROVE  LastOf(Numbers(t - LastBytes(t) + 1, t) \o Numbers(t + 1, t + n), TailOf)
               = Numbers((t + n) - LastBytes(t + n) + 1, t + n)
  <1> DEFINE x == LastBytes(t)
             y == LastBytes(t + n)
  <1>1. /\ x \in 0..t /\ x = (IF t <= TailOf THEN t ELSE TailOf)
        /\ y \in 0..(t + n) /\ y = (IF t + n <= TailOf THEN t + n ELSE TailOf)
        /\ TailOf \in Nat
    BY CutsAre, CapsAreNat
  <1> HIDE DEF x, y
  <1>2. ASSUME NEW a \in Int, NEW b \in Int, a = t - x + 1, b = t + n
        PROVE  LastOf(Numbers(a, t) \o Numbers(t + 1, b), TailOf) = Numbers(b - y + 1, b)
    <2>1. a <= t + 1 /\ t <= b /\ t \in Int /\ a <= b + 1 /\ b - a + 1 = x + n
      BY <1>1, <1>2
    <2>2. Numbers(a, t) \o Numbers(t + 1, b) = Numbers(a, b)
      BY <2>1, NumbersJoin, ZenonT(60)
    <2>3. Len(Numbers(a, b)) = b - a + 1
      BY <2>1, NumbersAre, Zenon
    <2>4. Min({TailOf, x + n}) = y
      <3>1. x + n \in Nat
        BY <1>1
      <3>2. Min({TailOf, x + n}) = IF TailOf <= x + n THEN TailOf ELSE x + n
        BY <1>1, <3>1, MinOfTwo, Zenon
      <3> QED BY <1>1, <3>2
    <2>5. y \in Nat /\ y <= b - a + 1
      BY <1>1, <2>1
    <2>6. Ending(Numbers(a, b), y) = Numbers(b - y + 1, b)
      BY <2>5, EndingOfNumbers, Zenon
    <2> QED BY <2>1, <2>2, <2>3, <2>4, <2>6 DEF LastOf
  <1>3. t - x + 1 \in Int /\ t + n \in Int
    BY <1>1
  <1>4. LastOf(Numbers(t - x + 1, t) \o Numbers(t + 1, t + n), TailOf) = Numbers((t + n) - y + 1, t + n)
    BY <1>2, <1>3, Zenon
  <1> QED BY <1>4 DEF x, y

LEMMA BodyIs ==
    ASSUME NEW c, BytesOK(c)
    PROVE  LET n == c.total
               first == Min({n, HeadOf})
               last == Min({n - first, TailOf})
           IN  Body(c) = Numbers(1, first) \o Marker(n - first - last) \o Numbers(n - last + 1, n)
  <1> DEFINE n == c.total
             first == Min({n, HeadOf})
             last == Min({n - first, TailOf})
             x == LastBytes(n)
  <1>1. /\ c.head = Numbers(1, first) /\ c.tail = Numbers(n - x + 1, n) /\ n \in Nat
    BY DEF BytesOK, Captures, First
  <1>2. first \in 0..n /\ x \in 0..n /\ x = (IF n <= TailOf THEN n ELSE TailOf) /\ TailOf \in Nat
    BY <1>1, CutsAre, CapsAreNat DEF First
  <1> HIDE DEF n, first, x
  <1>3. last = (IF n - first <= TailOf THEN n - first ELSE TailOf)
    <2>1. n - first \in Nat
      BY <1>1, <1>2
    <2> QED BY <1>2, <2>1, MinOfTwo
  <1>4. last \in 0..(n - first)
    BY <1>1, <1>2, <1>3
  <1>5. Len(c.head) = first /\ c.head \in Seq(Int)
    <2>1. 1 \in Int /\ first \in Int /\ 1 <= first + 1 /\ first - 1 + 1 = first
      BY <1>2
    <2>2. Len(Numbers(1, first)) = first - 1 + 1 /\ Numbers(1, first) \in Seq(Int)
      BY <2>1, NumbersAre, Zenon
    <2> QED BY <1>1, <2>1, <2>2
  <1>6. Len(c.tail) = x
    <2>1. ASSUME NEW a \in Int, a = n - x + 1
          PROVE  Len(Numbers(a, n)) = x
      <3>1. n \in Int /\ a <= n + 1 /\ n - a + 1 = x
        BY <1>1, <1>2, <2>1
      <3>2. Len(Numbers(a, n)) = n - a + 1
        BY <3>1, NumbersAre, Zenon
      <3> QED BY <3>1, <3>2
    <2>2. n - x + 1 \in Int
      BY <1>1, <1>2
    <2> QED BY <1>1, <2>1, <2>2
  <1>7. CASE first = n
    <2>1. last = 0 /\ n - first - last = 0 /\ n - last + 1 = n + 1
      BY <1>1, <1>4, <1>7
    <2>2. Numbers(n + 1, n) = << >>
      BY <1>1, NoNumbers
    <2>3. Body(c) = c.head
      BY <1>5, <1>7 DEF Body, Cut, n
    <2>4. Marker(n - first - last) = << >>
      BY <2>1 DEF Marker
    <2>5. (c.head \o << >>) \o << >> = c.head
      BY <1>5, ConcatEmptySeq
    <2>6. Body(c) = Numbers(1, first) \o Marker(n - first - last) \o Numbers(n - last + 1, n)
      <3> HIDE DEF last
      <3> QED BY <1>1, <2>1, <2>2, <2>3, <2>4, <2>5
    <2> QED BY <2>6 DEF n, first, last
  <1>8. CASE first # n
    <2>1. Min({n - first, x}) = last
      <3>1. n - first \in Nat /\ x \in Nat
        BY <1>1, <1>2
      <3>2. Min({n - first, x}) = IF n - first <= x THEN n - first ELSE x
        BY <3>1, MinOfTwo, Zenon
      <3> QED BY <1>1, <1>2, <1>3, <3>2
    <2> HIDE DEF last
    <2>2. Ending(c.tail, last) = Numbers(n - last + 1, n)
      <3>1. ASSUME NEW a \in Int, a = n - x + 1
            PROVE  Ending(Numbers(a, n), last) = Numbers(n - last + 1, n)
        <4>1. n \in Int /\ last \in Nat /\ last <= n - a + 1
          BY <1>1, <1>2, <1>3, <1>4, <3>1
        <4> QED BY <4>1, EndingOfNumbers, Zenon
      <3>2. n - x + 1 \in Int
        BY <1>1, <1>2
      <3> QED BY <1>1, <3>1, <3>2
    <2>3. Body(c) = LET beyond == Min({n - first, x})
                        omitted == n - first - beyond
                    IN  c.head \o (IF omitted > 0 THEN <<-omitted>> ELSE << >>) \o Ending(c.tail, beyond)
      BY <1>5, <1>6, <1>8 DEF Body, Cut, n
    <2>4. Body(c) = c.head \o (IF n - first - last > 0 THEN <<-(n - first - last)>> ELSE << >>)
                        \o Ending(c.tail, last)
      BY <2>1, <2>3
    <2>5. (IF n - first - last > 0 THEN <<-(n - first - last)>> ELSE << >>) = Marker(n - first - last)
      BY <1>1, <1>2, <1>4 DEF Marker
    <2>6. Body(c) = Numbers(1, first) \o Marker(n - first - last) \o Numbers(n - last + 1, n)
      BY <1>1, <2>2, <2>4, <2>5
    <2> QED BY <2>6 DEF n, first, last
  <1> QED BY <1>7, <1>8

LEMMA BodyType ==
    ASSUME NEW c, BytesOK(c)
    PROVE  Body(c) \in Seq(Int)
  <1> DEFINE n == c.total
             first == Min({n, HeadOf})
             last == Min({n - first, TailOf})
  <1>1. n \in Nat /\ first \in 0..n
    BY CutsAre DEF BytesOK, Captures, First
  <1>2. last \in 0..(n - first)
    <2> HIDE DEF first, n
    <2>1. n - first \in Nat /\ TailOf \in Nat
      BY <1>1, CapsAreNat
    <2> QED BY <2>1, MinOfTwo
  <1>3. Body(c) = Numbers(1, first) \o Marker(n - first - last) \o Numbers(n - last + 1, n)
    BY BodyIs
  <1> HIDE DEF n, first, last
  <1>4. Numbers(1, first) \in Seq(Int)
    <2>1. 1 \in Int /\ first \in Int /\ 1 <= first + 1
      BY <1>1
    <2> QED BY <2>1, NumbersAre, Zenon
  <1>5. Numbers(n - last + 1, n) \in Seq(Int)
    <2>1. n - last + 1 \in Int /\ n \in Int /\ n - last + 1 <= n + 1
      BY <1>1, <1>2
    <2> QED BY <2>1, NumbersAre, Zenon
  <1>6. Marker(n - first - last) \in Seq(Int)
    BY <1>1, <1>2 DEF Marker
  <1> QED BY <1>3, <1>4, <1>5, <1>6

-----------------------------------------------------------------------------
(* What is shown of it *)

LEMMA EndingIs ==
    ASSUME NEW s \in Seq(Int), NEW n \in Nat, n <= Len(s)
    PROVE  Ending(s, n) \in Seq(Int) /\ Len(Ending(s, n)) = n
  <1>1. Len(s) \in Nat /\ Len(s) - n + 1 \in Int /\ \A i \in (Len(s) - n + 1)..Len(s) : s[i] \in Int
    OBVIOUS
  <1>2. /\ SubSeq(s, Len(s) - n + 1, Len(s)) \in Seq(Int)
        /\ Len(SubSeq(s, Len(s) - n + 1, Len(s))) =
               IF Len(s) - n + 1 <= Len(s) THEN Len(s) - (Len(s) - n + 1) + 1 ELSE 0
    BY <1>1, SubSeqProperties
  <1> QED BY <1>1, <1>2 DEF Ending

LEMMA ViewIs ==
    ASSUME NEW s \in Seq(Int), NEW h \in Nat, NEW t \in Nat
    PROVE  /\ View(s, h, t) \in Seq(Int)
           /\ Len(View(s, h, t)) = IF Len(s) <= h + t THEN Len(s) ELSE h + t + 1
  <1>1. CASE Len(s) <= h + t
    BY <1>1 DEF View
  <1>2. CASE ~(Len(s) <= h + t)
    <2>1. SubSeq(s, 1, h) \in Seq(Int) /\ Len(SubSeq(s, 1, h)) = h
      <3>1. \A i \in 1..h : s[i] \in Int
        BY <1>2
      <3>2. SubSeq(s, 1, h) \in Seq(Int) /\ Len(SubSeq(s, 1, h)) = IF 1 <= h THEN h - 1 + 1 ELSE 0
        BY <3>1, SubSeqProperties
      <3> QED BY <3>2
    <2>2. Ending(s, t) \in Seq(Int) /\ Len(Ending(s, t)) = t
      BY <1>2, EndingIs
    <2>3. <<-(Len(s) - h - t)>> \in Seq(Int) /\ Len(<<-(Len(s) - h - t)>>) = 1
      OBVIOUS
    <2> DEFINE a == SubSeq(s, 1, h)
               b == <<-(Len(s) - h - t)>>
               c == Ending(s, t)
    <2>4. View(s, h, t) = a \o b \o c
      BY <1>2 DEF View
    <2> HIDE DEF a, b, c
    <2>5. a \o b \in Seq(Int) /\ Len(a \o b) = h + 1
      BY <2>1, <2>3, ConcatProperties DEF a, b
    <2>6. (a \o b) \o c \in Seq(Int) /\ Len((a \o b) \o c) = h + 1 + t
      BY <2>2, <2>5, ConcatProperties DEF c
    <2> QED BY <1>2, <2>4, <2>6
  <1> QED BY <1>1, <1>2

LEMMA LessIs ==
    ASSUME NEW a \in Nat, NEW b \in Nat
    PROVE  Less(a, b) \in 0..a /\ (Less(a, b) > 0 => Less(a, b) = a - b)
  BY DEF Less

\* A view takes no more than the room it is given, its marker included.
LEMMA ViewFits ==
    ASSUME NEW s \in Seq(Int), NEW room \in Nat
    PROVE  ViewWithin(s, room) \in Seq(Int) /\ Len(ViewWithin(s, room)) <= room
  <1> DEFINE inner == Less(room, MarkerRoom)
             quarter == inner \div 4
             tail == Min({TailCap, quarter})
             head == Min({HeadShown, inner - tail})
  <1>1. {TailCap, HeadShown, MarkerRoom} \subseteq Nat /\ MarkerRoom > 0
    BY ProcessAssumption
  <1>2. inner \in 0..room /\ (inner > 0 => inner = room - MarkerRoom)
    BY <1>1, LessIs
  <1> HIDE DEF inner
  <1>3. quarter \in 0..inner
    BY <1>2
  <1> HIDE DEF quarter
  <1>4. tail \in 0..inner
    BY <1>1, <1>2, <1>3, MinOfTwo
  <1> HIDE DEF tail
  <1>5. head \in 0..(inner - tail)
    <2>1. inner - tail \in Nat /\ HeadShown \in Nat
      BY <1>1, <1>2, <1>4
    <2> QED BY <2>1, MinOfTwo
  <1> HIDE DEF head
  <1>6. CASE inner = 0
    <2>1. ViewWithin(s, room) = << >>
      BY <1>6 DEF ViewWithin, inner
    <2> QED BY <2>1
  <1>7. CASE inner # 0
    <2>1. ViewWithin(s, room) = View(s, head, tail)
      BY <1>7 DEF ViewWithin, inner, quarter, tail, head
    <2>2. head \in Nat /\ tail \in Nat
      BY <1>2, <1>4, <1>5
    <2>3. /\ View(s, head, tail) \in Seq(Int)
          /\ Len(View(s, head, tail)) = IF Len(s) <= head + tail THEN Len(s) ELSE head + tail + 1
      BY <2>2, ViewIs, Zenon
    <2>4. head + tail + 1 <= room
      BY <1>1, <1>2, <1>4, <1>5, <1>7
    <2>5. Len(View(s, head, tail)) <= room
      BY <2>2, <2>3, <2>4
    <2> QED BY <2>1, <2>3, <2>5
  <1> QED BY <1>6, <1>7

LEMMA ShapeFits ==
    ASSUME NEW s \in Seq(Int), NEW room \in Nat
    PROVE  /\ Len(Shape(s, room).text) \in Nat /\ Shape(s, room).left \in Nat
           /\ Len(Shape(s, room).text) + Shape(s, room).left <= room
           /\ Shape(s, room).text # s => Shape(s, room).spilled
  <1>1. CASE Len(s) <= room
    BY <1>1 DEF Shape
  <1>2. CASE ~(Len(s) <= room)
    <2> DEFINE view == ViewWithin(s, room)
               rest == Less(room, Len(view))
    <2>1. Shape(s, room) = [text |-> view, spilled |-> TRUE, left |-> Less(rest, PathLength)]
      BY <1>2 DEF Shape
    <2>2. view \in Seq(Int) /\ Len(view) <= room
      BY ViewFits
    <2> HIDE DEF view
    <2>3. Len(view) \in Nat /\ PathLength \in Nat
      BY <2>2, ProcessAssumption
    <2>4. rest = room - Len(view) /\ rest \in Nat
      BY <2>2, <2>3 DEF Less
    <2> HIDE DEF rest
    <2>5. Less(rest, PathLength) \in 0..rest
      BY <2>3, <2>4, LessIs
    <2> QED BY <2>1, <2>2, <2>3, <2>4, <2>5
  <1> QED BY <1>1, <1>2

-----------------------------------------------------------------------------
(* A call that runs a program *)

Phases == {"spawn", "feed", "wait", "kill", "join", "done"}
Codes == {"none", "success", "failure", "killed"}

\* What was read of a stream; once its task is joined nobody can add to it.
CaptureInv ==
    /\ wrote \in [Streams -> Nat] /\ capture \in [Streams -> Captures]
    /\ \A s \in Streams : BytesOK(capture[s])
    /\ \A s \in Streams : capture[s].joined =>
          phase \notin {"spawn", "feed"} /\ ~Holds /\ capture[s].total = wrote[s]

\* Where the call is says who runs and what may have been answered.
PhaseInv ==
    /\ program \in Programs /\ phase \in Phases
    /\ process \in [alive : BOOLEAN, kept : BOOLEAN, code : Codes]
    /\ phase = "spawn" => ~Holds
    /\ phase \in {"join", "done"} => ~process.alive
    /\ phase \notin {"kill", "done"} => answer = ""
    /\ phase = "kill" => answer \in {"timeout", "cancelled"}
    /\ phase = "done" /\ answer \in {"timeout", "cancelled"} => ~process.kept
    /\ Answered => \A s \in Streams : capture[s].joined
ProcessInv == CaptureInv /\ PhaseInv /\ ShownWithinBudget

LEMMA ProcessStarts == ProcessInit => ProcessInv
  <1>1. Empty \in Captures
    BY << >> \in Seq(Int) DEF Empty, Captures
  <1>2. BytesOK(Empty)
    <2>1. First(0) = 0 /\ LastBytes(0) = 0
      BY CutsAre
    <2>2. Numbers(0 + 1, 0) = << >>
      <3>1. 0 \in Int
        OBVIOUS
      <3> QED BY <3>1, NoNumbers, Zenon
    <2> QED BY <1>1, <2>1, <2>2 DEF BytesOK, Empty
  <1>3. ASSUME ProcessInit
        PROVE  CaptureInv
    <2>1. wrote = [s \in Streams |-> 0] /\ capture = [s \in Streams |-> Empty]
      BY <1>3 DEF ProcessInit
    <2>2. Empty.joined = FALSE
      BY DEF Empty
    <2> QED BY <1>1, <1>2, <2>1, <2>2 DEF CaptureInv
  <1>4. ASSUME ProcessInit
        PROVE  PhaseInv /\ ShownWithinBudget
    <2>1. program \in Programs /\ phase = "spawn" /\ answer = "" /\ process = [alive |-> FALSE, kept |-> FALSE, code |-> "none"]
      BY <1>4 DEF ProcessInit
    <2> QED BY <2>1 DEF PhaseInv, Phases, Codes, Holds, Answered, ShownWithinBudget
  <1> QED BY <1>3, <1>4 DEF ProcessInv

\* The steps that neither read a pipe nor write one.
LEMMA CaptureStays ==
    ASSUME CaptureInv, UNCHANGED <<program, wrote, capture>>, Holds' => Holds \/ phase = "spawn",
           phase' \in {"spawn", "feed"} => phase \in {"spawn", "feed"}
    PROVE  CaptureInv'
  <1>1. \A s \in Streams : BytesOK(capture[s])'
    BY DEF CaptureInv, BytesOK, First, LastBytes, HeadOf, TailOf
  <1> QED BY <1>1 DEF CaptureInv

LEMMA ProgramStep ==
    ASSUME ProcessInv, NEW s \in Streams, ProgramWrites(s)
    PROVE  ProcessInv'
  <1> USE DEF ProcessInv, ProgramWrites
  <1>1. wrote' \in [Streams -> Nat]
    BY DEF CaptureInv
  <1>2. \A t \in Streams : ~capture[t].joined
    BY DEF CaptureInv
  <1>3. \A t \in Streams : BytesOK(capture[t])'
    BY DEF CaptureInv, BytesOK, First, LastBytes, HeadOf, TailOf
  <1>4. CaptureInv'
    BY <1>1, <1>2, <1>3 DEF CaptureInv
  <1>5. PhaseInv'
    BY DEF PhaseInv, Holds, Answered
  <1>6. ShownWithinBudget'
    BY DEF ShownWithinBudget, Answered
  <1> QED BY <1>4, <1>5, <1>6

LEMMA ReadKeeps ==
    ASSUME NEW c, BytesOK(c), NEW n \in Nat
    PROVE  BytesOK([head |-> c.head \o SubSeq(Numbers(c.total + 1, c.total + n), 1, Min({n, HeadOf - Len(c.head)})),
                    tail |-> LastOf(c.tail \o Numbers(c.total + 1, c.total + n), TailOf),
                    total |-> c.total + n, joined |-> c.joined])
  <1> DEFINE t == c.total
             x == c.head \o SubSeq(Numbers(t + 1, t + n), 1, Min({n, HeadOf - Len(c.head)}))
             y == LastOf(c.tail \o Numbers(t + 1, t + n), TailOf)
             d == [head |-> x, tail |-> y, total |-> t + n, joined |-> c.joined]
  <1>1. /\ c.head = Numbers(1, First(t)) /\ c.tail = Numbers(t - LastBytes(t) + 1, t)
        /\ t \in Nat /\ c.joined \in BOOLEAN
    BY DEF BytesOK, Captures
  <1> HIDE DEF t
  <1>2. x = Numbers(1, First(t + n))
    <2>1. First(t) \in Nat
      BY <1>1, CutsAre
    <2>2. Len(Numbers(1, First(t))) = First(t)
      <3>1. 1 \in Int /\ First(t) \in Int /\ 1 <= First(t) + 1
        BY <2>1
      <3>2. Len(Numbers(1, First(t))) = First(t) - 1 + 1
        BY <3>1, NumbersAre, Zenon
      <3> QED BY <2>1, <3>2
    <2>3. Numbers(1, First(t)) \o SubSeq(Numbers(t + 1, t + n), 1, Min({n, HeadOf - First(t)}))
              = Numbers(1, First(t + n))
      BY <1>1, HeadGrows, Zenon
    <2> QED BY <1>1, <2>2, <2>3, Zenon
  <1>3. y = Numbers((t + n) - LastBytes(t + n) + 1, t + n)
    BY <1>1, TailMoves, Zenon
  <1> HIDE DEF x, y
  <1>4. First(t + n) \in Nat /\ LastBytes(t + n) \in 0..(t + n)
    BY <1>1, CutsAre
  <1>5. x \in Seq(Int)
    <2>1. 1 \in Int /\ First(t + n) \in Int /\ 1 <= First(t + n) + 1
      BY <1>4
    <2> QED BY <1>2, <2>1, NumbersAre, Zenon
  <1>6. y \in Seq(Int)
    <2>1. /\ (t + n) - LastBytes(t + n) + 1 \in Int /\ t + n \in Int
          /\ (t + n) - LastBytes(t + n) + 1 <= (t + n) + 1
      BY <1>1, <1>4
    <2> QED BY <1>3, <2>1, NumbersAre, Zenon
  <1>7. d \in Captures
    BY <1>1, <1>5, <1>6 DEF Captures
  <1>8. d.head = x /\ d.tail = y /\ d.total = t + n
    OBVIOUS
  <1> HIDE DEF d
  <1>9. BytesOK(d)
    BY <1>2, <1>3, <1>7, <1>8 DEF BytesOK
  <1> QED BY <1>9 DEF d, x, y, t

LEMMA ReadStep ==
    ASSUME ProcessInv, NEW s \in Streams, Drains(s)
    PROVE  ProcessInv'
  <1>1. PICK n \in 1..ChunkMax : Chunk(s, n)
    BY DEF Drains
  <1>2. /\ ~capture[s].joined /\ Draining
        /\ UNCHANGED <<program, phase, process, input, wrote, cancelled, answer, output>>
    BY DEF Drains
  <1>3. CaptureInv /\ PhaseInv /\ ShownWithinBudget
    BY DEF ProcessInv
  <1> DEFINE c == capture[s]
             d == [head |-> c.head \o SubSeq(Numbers(c.total + 1, c.total + n), 1, Min({n, HeadOf - Len(c.head)})),
                   tail |-> LastOf(c.tail \o Numbers(c.total + 1, c.total + n), TailOf),
                   total |-> c.total + n, joined |-> c.joined]
  <1>4. c \in Captures /\ BytesOK(c) /\ n \in Nat
    BY <1>3, ProcessAssumption DEF CaptureInv
  <1>5. capture' = [capture EXCEPT ![s] = d]
    BY <1>1 DEF Chunk
  <1>6. BytesOK(d) /\ d.joined = c.joined
    BY <1>4, ReadKeeps
  <1> HIDE DEF d
  <1>7. capture' \in [Streams -> Captures] /\ \A u \in Streams : BytesOK(capture'[u])
    <2>1. d \in Captures
      BY <1>6 DEF BytesOK
    <2> QED BY <1>3, <1>5, <1>6, <2>1 DEF CaptureInv
  <1>8. \A u \in Streams : BytesOK(capture[u])'
    <2>1. HeadOf' = HeadOf /\ TailOf' = TailOf
      BY <1>2 DEF HeadOf, TailOf
    <2> QED BY <1>7, <2>1 DEF BytesOK, First, LastBytes
  <1>9. CaptureInv'
    BY <1>2, <1>3, <1>5, <1>6, <1>7, <1>8 DEF CaptureInv, Holds
  <1>10. ~Answered
    BY <1>2, <1>3 DEF PhaseInv
  <1>11. PhaseInv' /\ ShownWithinBudget'
    BY <1>2, <1>3, <1>10 DEF PhaseInv, Holds, Answered, ShownWithinBudget
  <1> QED BY <1>9, <1>11 DEF ProcessInv

LEMMA JoinStep ==
    ASSUME ProcessInv, NEW s \in Streams, DrainEnds(s)
    PROVE  ProcessInv'
  <1>0. CaptureInv /\ PhaseInv /\ ShownWithinBudget
    BY DEF ProcessInv
  <1>1. /\ ~capture[s].joined /\ Draining /\ ~Holds /\ capture[s].total = wrote[s]
        /\ capture' = [capture EXCEPT ![s].joined = TRUE]
        /\ UNCHANGED <<program, phase, process, input, wrote, cancelled, answer, output>>
    BY DEF DrainEnds
  <1>2. capture' \in [Streams -> Captures]
    BY <1>0, <1>1 DEF CaptureInv, Captures
  <1>3. \A u \in Streams : /\ capture'[u].head = capture[u].head /\ capture'[u].tail = capture[u].tail
                           /\ capture'[u].total = capture[u].total
                           /\ u # s => capture'[u] = capture[u]
    BY <1>0, <1>1 DEF CaptureInv, Captures
  <1>4. \A u \in Streams : BytesOK(capture[u])'
    <2>1. HeadOf' = HeadOf /\ TailOf' = TailOf
      BY <1>1 DEF HeadOf, TailOf
    <2>2. \A u \in Streams : BytesOK(capture[u])
      BY <1>0 DEF CaptureInv
    <2>3. ASSUME NEW u \in Streams
          PROVE  /\ capture'[u] \in Captures
                 /\ capture'[u].head = Numbers(1, First(capture'[u].total))
                 /\ capture'[u].tail = Numbers(capture'[u].total - LastBytes(capture'[u].total) + 1, capture'[u].total)
      BY <1>2, <1>3, <2>2 DEF BytesOK
    <2> QED BY <2>1, <2>3 DEF BytesOK, First, LastBytes
  <1>5. CaptureInv'
    BY <1>0, <1>1, <1>2, <1>3, <1>4 DEF CaptureInv, Holds, Draining
  <1>6. ~Answered
    BY <1>0, <1>1 DEF PhaseInv
  <1>7. PhaseInv' /\ ShownWithinBudget'
    BY <1>0, <1>1, <1>6 DEF PhaseInv, Holds, Answered, ShownWithinBudget
  <1> QED BY <1>5, <1>7 DEF ProcessInv

\* What both streams show fits the output, the second within what the first leaves.
LEMMA ShapesStep ==
    ASSUME ProcessInv, Shapes
    PROVE  ProcessInv'
  <1> USE DEF ProcessInv
  <1>1. /\ phase = "join" /\ (\A s \in Streams : capture[s].joined)
        /\ phase' = "done" /\ answer' = process.code
        /\ UNCHANGED <<program, process, input, wrote, capture, cancelled>>
    BY DEF Shapes, Concludes
  <1>2. CaptureInv'
    BY <1>1, CaptureStays DEF Holds
  <1>3. PhaseInv'
    BY <1>1 DEF PhaseInv, Phases, Codes, Holds, Answered
  <1>4. ASSUME program.mode = "tool"
        PROVE  /\ Len(output'["stdout"].text) + Len(output'["stderr"].text) <= MaxOutput
               /\ \A s \in Streams : output'[s].text # Body(capture[s]) => output'[s].spilled
    <2> DEFINE one == Body(capture["stdout"])
               two == Body(capture["stderr"])
               out == Shape(one, MaxOutput)
               err == Shape(two, out.left)
    <2>1. one \in Seq(Int) /\ two \in Seq(Int)
      <3>1. BytesOK(capture["stdout"]) /\ BytesOK(capture["stderr"])
        BY DEF CaptureInv, Streams
      <3> QED BY <3>1, BodyType, Zenon
    <2>2. output' = [stdout |-> Shown(out), stderr |-> Shown(err)]
      BY <1>4 DEF Shapes
    <2> HIDE DEF one, two
    <2>3. /\ Len(out.text) \in Nat /\ out.left \in Nat /\ Len(out.text) + out.left <= MaxOutput
          /\ out.text # one => out.spilled
      <3>1. MaxOutput \in Nat
        BY ProcessAssumption
      <3> QED BY <2>1, <3>1, ShapeFits, Zenon
    <2> HIDE DEF out
    <2>4. /\ Len(err.text) \in Nat /\ err.left \in Nat /\ Len(err.text) + err.left <= out.left
          /\ err.text # two => err.spilled
      BY <2>1, <2>3, ShapeFits, Zenon
    <2> HIDE DEF err
    <2>5. /\ output'["stdout"].text = out.text /\ output'["stdout"].spilled = out.spilled
          /\ output'["stderr"].text = err.text /\ output'["stderr"].spilled = err.spilled
      BY <2>2 DEF Shown
    <2>6. Len(out.text) + Len(err.text) <= MaxOutput
      <3>1. MaxOutput \in Nat
        BY ProcessAssumption
      <3>2. ASSUME NEW a \in Nat, NEW b \in Nat, NEW e \in Nat, NEW f \in Nat, NEW m \in Nat,
                   a + b <= m, e + f <= b
            PROVE  a + e <= m
        BY <3>2
      <3> QED BY <2>3, <2>4, <3>1, <3>2, Zenon
    <2> QED BY <2>3, <2>4, <2>5, <2>6 DEF Streams, one, two
  <1>5. \A s \in Streams : Body(capture[s])' = Body(capture[s])
    BY <1>1 DEF Body, Cut
  <1>6. ShownWithinBudget'
    BY <1>1, <1>4, <1>5 DEF ShownWithinBudget
  <1> QED BY <1>2, <1>3, <1>6

\* The other steps of the call, of the program and of its turn answer nothing of the program.
LEMMA QuietStep ==
    ASSUME ProcessInv, (CallStep /\ ~Shapes) \/ Dropped \/ TurnCancels \/ TakesInput \/ Exits \/ KeptLeaves
    PROVE  ProcessInv'
  <1> USE DEF ProcessInv
  <1>1. UNCHANGED <<program, wrote, capture, output>> 
    BY DEF CallStep, Spawns, Feeds, Reaps, ProcessTimesOut, HearsCancel, Waits, Kills, Dropped, TurnCancels,
           TakesInput, Exits, KeptLeaves
  <1>2. /\ Holds' => Holds \/ phase = "spawn"
        /\ phase' \in {"spawn", "feed"} => phase \in {"spawn", "feed"}
    BY DEF CallStep, Spawns, Feeds, Reaps, ProcessTimesOut, HearsCancel, Waits, Kills, Dropped, TurnCancels,
           TakesInput, Exits, KeptLeaves, Concludes, Holds, PhaseInv
  <1>3. CaptureInv'
    BY <1>1, <1>2, CaptureStays
  <1>4. Answered' => Answered
    BY DEF CallStep, Spawns, Feeds, Reaps, ProcessTimesOut, HearsCancel, Waits, Kills, Dropped, TurnCancels,
           TakesInput, Exits, KeptLeaves, Concludes, Answered, PhaseInv
  <1>5. PhaseInv'
    <2>1. Answered' => \A s \in Streams : capture'[s].joined
      BY <1>1, <1>4 DEF PhaseInv
    <2> USE DEF PhaseInv, Phases, Codes, Holds, Concludes
    <2>2. CASE Spawns
      BY <2>1, <2>2 DEF Spawns, Launchable
    <2>3. CASE Feeds
      BY <2>1, <2>3 DEF Feeds
    <2>4. CASE Reaps \/ ProcessTimesOut \/ HearsCancel
      BY <2>1, <2>4 DEF Reaps, ProcessTimesOut, HearsCancel, Waits
    <2>5. CASE Kills
      BY <2>1, <2>5 DEF Kills
    <2>6. CASE Dropped
      BY <2>1, <2>6 DEF Dropped
    <2>7. CASE TurnCancels \/ TakesInput
      BY <2>1, <2>7 DEF TurnCancels, TakesInput
    <2>8. CASE Exits
      <3>1. program.keeps \in BOOLEAN
        BY ProcessAssumption
      <3>2. PICK code \in {"success", "failure"} :
                  process' = [alive |-> FALSE, kept |-> program.keeps, code |-> code]
        BY <2>8 DEF Exits
      <3>3. process.alive /\ UNCHANGED <<program, phase, answer>>
        BY <2>8 DEF Exits
      <3>4. process' \in [alive : BOOLEAN, kept : BOOLEAN, code : Codes] /\ ~process'.alive
        BY <3>1, <3>2
      <3>5. phase \notin {"spawn", "join", "done"}
        BY <3>3
      <3> HIDE DEF Codes
      <3> QED BY <2>1, <3>3, <3>4, <3>5
    <2>9. CASE KeptLeaves
      BY <2>1, <2>9 DEF KeptLeaves
    <2> QED BY <2>2, <2>3, <2>4, <2>5, <2>6, <2>7, <2>8, <2>9 DEF CallStep
  <1>6. ShownWithinBudget'
    BY <1>1, <1>4 DEF ShownWithinBudget, Body, Cut, HeadOf, TailOf
  <1> QED BY <1>3, <1>5, <1>6

\* A tool call that ran a program answers with the true beginning and end of what it wrote, within
\* the output it may take, and leaves nothing running (run_bounded_process, drain_stream,
\* StreamCapture::body, head_tail_view): for any programs, pipes, chunks, caps and limits, whatever
\* the timeout, a cancel, or processes that keep the pipes do.
THEOREM OutputIsTrue == ProcessSpec => []ProcessHolds
  <1>1. ProcessInv /\ [ProcessNext]_processVars => ProcessInv'
    <2> SUFFICES ASSUME ProcessInv, [ProcessNext]_processVars
                 PROVE  ProcessInv'
      OBVIOUS
    <2>1. CASE \E s \in Streams : ProgramWrites(s) \/ DrainStep(s)
      BY <2>1, ProgramStep, ReadStep, JoinStep DEF DrainStep
    <2>2. CASE Shapes
      BY <2>2, ShapesStep
    <2>3. CASE (CallStep /\ ~Shapes) \/ Dropped \/ TurnCancels \/ TakesInput \/ Exits \/ KeptLeaves
      BY <2>3, QuietStep
    <2>4. CASE UNCHANGED processVars
      BY <2>4 DEF processVars, ProcessInv, CaptureInv, PhaseInv, BytesOK, First, LastBytes, HeadOf, TailOf,
                  Holds, Answered, ShownWithinBudget, Body, Cut
    <2> QED BY <2>1, <2>2, <2>3, <2>4 DEF ProcessNext
  <1>2. ProcessInv => ProcessHolds
    <2> SUFFICES ASSUME ProcessInv PROVE ProcessHolds
      OBVIOUS
    <2>1. CaptureIsTrue
      <3>1. ASSUME Answered, NEW s \in Streams
            PROVE  BytesOK(capture[s]) /\ capture[s].total = wrote[s]
        BY <3>1 DEF ProcessInv, CaptureInv, PhaseInv
      <3> QED BY <3>1, BodyIs DEF CaptureIsTrue
    <2>2. NothingRunsOn
      BY DEF ProcessInv, PhaseInv, NothingRunsOn
    <2> QED BY <2>1, <2>2 DEF ProcessInv, ProcessHolds
  <1> QED BY ProcessStarts, <1>1, <1>2, PTL DEF ProcessSpec
================================================================================
