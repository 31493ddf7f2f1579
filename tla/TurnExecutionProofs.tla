------------------------- MODULE TurnExecutionProofs -------------------------
(***************************************************************************)
(* What one turn of an agent promises, proved for any set of calls,        *)
(* questions and steers and any number of iterations: how NthOf counts a   *)
(* finite set off; the types; what each step may do to the log, to the     *)
(* stages of the calls and to the tickets; consent before effect; one      *)
(* answer per call; and the order in which steers reach the model.         *)
(***************************************************************************)
EXTENDS TurnExecution, SequenceTheorems, FiniteSetTheorems, TLAPS

-----------------------------------------------------------------------------
(* Counting off a finite set of numbers *)

Rank(S, x) == Cardinality({y \in S : y <= x})

\* Every element has a rank, and no two the same.
LEMMA RanksDiffer ==
    ASSUME NEW S \in SUBSET Nat, IsFiniteSet(S)
    PROVE  /\ Cardinality(S) \in Nat
           /\ \A x \in S : Rank(S, x) \in 1..Cardinality(S)
           /\ \A x, z \in S : Rank(S, x) = Rank(S, z) => x = z
  <1>1. Cardinality(S) \in Nat
    BY FS_CardinalityType
  <1>2. ASSUME NEW x \in S
        PROVE  Rank(S, x) \in 1..Cardinality(S)
    <2> DEFINE T == {y \in S : y <= x}
    <2>1. T \in SUBSET S /\ {x} \in SUBSET T
      OBVIOUS
    <2>2. IsFiniteSet(T) /\ Cardinality(T) <= Cardinality(S) /\ Cardinality(T) \in Nat
      BY <2>1, FS_Subset, FS_CardinalityType
    <2>3. Cardinality({x}) = 1 /\ Cardinality({x}) <= Cardinality(T)
      <3> HIDE DEF T
      <3> QED BY <2>1, <2>2, FS_Subset, FS_Singleton
    <2> QED BY <1>1, <2>2, <2>3 DEF Rank
  <1>3. ASSUME NEW x \in S, NEW z \in S, x < z
        PROVE  Rank(S, x) # Rank(S, z)
    <2> DEFINE T == {y \in S : y <= x}
               U == {y \in S : y <= z}
    <2>1. (\A y \in S : y <= x => y <= z) /\ ~(z <= x) /\ z <= z
      BY <1>3
    <2>2. T \in SUBSET U /\ U \in SUBSET S /\ z \in U /\ z \notin T
      BY <2>1
    <2>3. IsFiniteSet(U)
      BY <2>2, FS_Subset
    <2>4. Cardinality(U) = Cardinality(T) => U = T
      <3> HIDE DEF T, U
      <3> QED BY <2>2, <2>3, FS_Subset
    <2> QED BY <2>2, <2>4 DEF Rank
  <1>4. \A x, z \in S : x < z \/ z < x \/ x = z
    OBVIOUS
  <1> QED BY <1>1, <1>2, <1>3, <1>4

\* NthOf counts the elements off: every rank has its element, every element its rank.
LEMMA NthOfCounts ==
    ASSUME NEW S \in SUBSET Nat, IsFiniteSet(S)
    PROVE  /\ \A k \in 1..Cardinality(S) : NthOf(S, k) \in S /\ Rank(S, NthOf(S, k)) = k
           /\ \A x \in S : Rank(S, x) \in 1..Cardinality(S) /\ NthOf(S, Rank(S, x)) = x
  <1> DEFINE n == Cardinality(S)
             f == [x \in S |-> Rank(S, x)]
  <1>1. n \in Nat /\ (\A x \in S : Rank(S, x) \in 1..n)
        /\ \A x, z \in S : Rank(S, x) = Rank(S, z) => x = z
    BY RanksDiffer
  <1>2. f \in Injection(S, 1..n)
    BY <1>1 DEF Injection, IsInjective
  <1>3. IsFiniteSet(1..n) /\ Cardinality(1..n) = n
    BY <1>1, FS_Interval
  <1>4. f \in Surjection(S, 1..n)
    <2> HIDE DEF f
    <2> QED BY <1>2, <1>3, FS_Injection
  <1>5. \A k \in 1..n : \E x \in S : Rank(S, x) = k
    BY <1>4 DEF Surjection
  <1>6. \A k \in 1..n : NthOf(S, k) \in S /\ Rank(S, NthOf(S, k)) = k
    BY <1>5 DEF NthOf, Rank
  <1>7. ASSUME NEW x \in S
        PROVE  NthOf(S, Rank(S, x)) = x
    <2>1. PICK k : k = Rank(S, x)
      OBVIOUS
    <2> QED BY <1>1, <1>6, <2>1
  <1> QED BY <1>1, <1>6, <1>7

-----------------------------------------------------------------------------
(* What a step can write to the log *)

\* The events the program writes: a user item says something.
Named == {e \in Event : e.kind = "UserItem" => e.msg # NoMsg}
Typed == TypeOK /\ log \in Seq(Named)

Kept == UNCHANGED <<log, status>>
Grown(kind, calls, msg) == ~Terminal /\ Accepts(kind) /\ Append1(kind, calls, msg)

\* Emit stores the event of a run that takes it, or finds it stored, or writes
\* nothing; then the loop goes on, or unwinds.
LEMMA EmitOutcomes ==
    ASSUME NEW kind, NEW calls, NEW msg, NEW next, NEW progress,
           Emit(kind, calls, msg, next, progress)
    PROVE  /\ Kept \/ Grown(kind, calls, msg)
           /\ \/ /\ pc' = next /\ stage' = progress /\ UNCHANGED <<gate, waiters>>
                 /\ (AlreadyStored(kind, calls) /\ Kept) \/ Grown(kind, calls, msg)
              \/ Unwind
           /\ record' \in {record, "terminal"}
           /\ UNCHANGED <<tickets, signal, signalling, answers, notifying, announced, link,
                          closed, iteration, steerCursor, delivered, expired>>
  <1> DEFINE stored  == AlreadyStored(kind, calls)
  <1>1. PICK fits \in BOOLEAN :
          LET appends == ~stored /\ fits /\ Accepts(kind)
          IN  /\ IF appends THEN Append1(kind, calls, msg) ELSE UNCHANGED <<log, status>>
              /\ IF stored \/ (appends /\ link)
                 THEN pc' = next /\ stage' = progress /\ UNCHANGED <<gate, waiters>>
                 ELSE Unwind
              /\ record' = IF kind \in TerminalKinds /\ (stored \/ appends)
                           THEN "terminal" ELSE record
              /\ UNCHANGED <<tickets, signal, signalling, answers, notifying, announced, link,
                             closed, iteration, steerCursor, delivered, expired>>
    BY DEF Emit
  <1> HIDE DEF stored
  <1>2. Accepts(kind) => ~Terminal
    BY DEF Accepts
  <1>3. CASE ~stored /\ fits /\ Accepts(kind)
    BY <1>1, <1>2, <1>3 DEF Kept, Grown
  <1>4. CASE ~(~stored /\ fits /\ Accepts(kind))
    BY <1>1, <1>4 DEF Kept, stored
  <1> QED BY <1>3, <1>4

\* The failures a cancel writes, one for each call without a result.
Failures == [k \in 1..Cardinality(PendingCalls) |->
                Ev("ToolFailed", {NthOf(PendingCalls, k)}, NoMsg)]

LEMMA PendingFinite ==
    ASSUME TypeOK
    PROVE  PendingCalls \in SUBSET Calls /\ PendingCalls \in SUBSET Nat
           /\ IsFiniteSet(PendingCalls) /\ Cardinality(PendingCalls) \in Nat
  <1>1. PendingCalls \in SUBSET Calls
    <2>1. \A i \in DOMAIN log : log[i] \in Event
      BY DEF TypeOK
    <2>2. \A i \in DOMAIN log : log[i].calls \in SUBSET Calls
      BY <2>1 DEF Event
    <2> QED BY <2>2 DEF PendingCalls, CallsIn
  <1>2. Calls \in SUBSET Nat /\ IsFiniteSet(Calls)
    BY ConstantsAssumption
  <1> QED BY <1>1, <1>2, FS_Subset, FS_CardinalityType

LEMMA FailuresTyped ==
    ASSUME TypeOK
    PROVE  /\ Failures \in Seq(Named) /\ Len(Failures) = Cardinality(PendingCalls)
           /\ \A k \in 1..Len(Failures) :
                 /\ Failures[k] = Ev("ToolFailed", {NthOf(PendingCalls, k)}, NoMsg)
                 /\ NthOf(PendingCalls, k) \in PendingCalls
                 /\ Rank(PendingCalls, NthOf(PendingCalls, k)) = k
           /\ \A c \in PendingCalls :
                 \E k \in 1..Len(Failures) : NthOf(PendingCalls, k) = c
  <1>1. PICK P : P = PendingCalls
    OBVIOUS
  <1>2. PICK n : n = Cardinality(P)
    OBVIOUS
  <1>3. P \in SUBSET Calls /\ P \in SUBSET Nat /\ IsFiniteSet(P) /\ n \in Nat
    BY <1>1, <1>2, PendingFinite
  <1>4. /\ \A k \in 1..n : NthOf(P, k) \in P /\ Rank(P, NthOf(P, k)) = k
        /\ \A c \in P : Rank(P, c) \in 1..n /\ NthOf(P, Rank(P, c)) = c
    BY <1>2, <1>3, NthOfCounts
  <1>5. Failures = [k \in 1..n |-> Ev("ToolFailed", {NthOf(P, k)}, NoMsg)]
    BY <1>1, <1>2 DEF Failures
  <1>6. \A k \in 1..n : Ev("ToolFailed", {NthOf(P, k)}, NoMsg) \in Named
    BY <1>3, <1>4 DEF Ev, Named, Event, Kinds, ResultKinds
  <1>7. Failures \in [1..n -> Named]
    BY <1>5, <1>6
  <1>8. Failures \in Seq(Named) /\ Len(Failures) = n
    BY <1>3, <1>7
  <1> QED BY <1>1, <1>2, <1>4, <1>5, <1>8

LEMMA CancelTyped ==
    ASSUME Typed, AcceptCancel
    PROVE  /\ log' = log \o (Failures \o <<Ev("RunCancelled", {}, NoMsg)>>)
           /\ Failures \o <<Ev("RunCancelled", {}, NoMsg)>> \in Seq(Named)
           /\ log' \in Seq(Named) /\ status' = "cancelled" /\ ~Terminal
  <1>1. Failures \in Seq(Named) /\ log \in Seq(Named)
    BY FailuresTyped DEF Typed
  <1>2. <<Ev("RunCancelled", {}, NoMsg)>> \in Seq(Named)
    BY DEF Ev, Named, Event, Kinds, TerminalKinds
  <1>3. log' = (log \o Failures) \o <<Ev("RunCancelled", {}, NoMsg)>>
    BY DEF AcceptCancel, Failures
  <1>4. log' = log \o (Failures \o <<Ev("RunCancelled", {}, NoMsg)>>)
    BY <1>1, <1>2, <1>3, ConcatAssociative
  <1>5. Failures \o <<Ev("RunCancelled", {}, NoMsg)>> \in Seq(Named)
    BY <1>1, <1>2
  <1>6. log' \in Seq(Named)
    <2>1. PICK ending \in Seq(Named) : ending = Failures \o <<Ev("RunCancelled", {}, NoMsg)>>
      BY <1>5
    <2> QED BY <1>1, <1>4, <2>1
  <1> QED BY <1>4, <1>5, <1>6 DEF AcceptCancel

-----------------------------------------------------------------------------
(* Types *)

LEMMA NamedEvents ==
    /\ \A e \in Seq(Named) : e \in Seq(Event)
    /\ \A kind \in Kinds, calls \in SUBSET Calls, msg \in Steers \cup {Prompt, NoMsg} :
          (kind = "UserItem" => msg # NoMsg) => Ev(kind, calls, msg) \in Named
  <1>1. Named \subseteq Event
    BY DEF Named
  <1>2. \A e \in Seq(Named) : e \in Seq(Event)
    BY <1>1, SeqMonotonic
  <1>3. ASSUME NEW kind \in Kinds, NEW calls \in SUBSET Calls,
               NEW msg \in Steers \cup {Prompt, NoMsg}, kind = "UserItem" => msg # NoMsg
        PROVE  Ev(kind, calls, msg) \in Named
    BY <1>3 DEF Named, Event, Ev
  <1> QED BY <1>2, <1>3

\* The steers of a log are messages of clients.
LEMMA SteersTyped ==
    ASSUME NEW l \in Seq(Named)
    PROVE  /\ SteersAt(l) \in SUBSET (1..Len(l)) /\ IsFiniteSet(SteersAt(l))
           /\ SteersAt(l) \in SUBSET Nat /\ Cardinality(SteersAt(l)) \in Nat
           /\ SteersIn(l) \in Seq(Steers) /\ Len(SteersIn(l)) = Cardinality(SteersAt(l))
  <1>1. PICK A : A = SteersAt(l)
    OBVIOUS
  <1>2. A \in SUBSET (1..Len(l)) /\ Len(l) \in Nat /\ A \in SUBSET Nat
    BY <1>1 DEF SteersAt
  <1>3. IsFiniteSet(A) /\ Cardinality(A) \in Nat
    <2>1. IsFiniteSet(1..Len(l))
      BY <1>2, FS_Interval
    <2>2. IsFiniteSet(A)
      BY <1>2, <2>1, FS_Subset
    <2> QED BY <2>2, FS_CardinalityType
  <1>4. PICK n \in Nat : n = Cardinality(A)
    BY <1>3
  <1>5. \A k \in 1..n : NthOf(A, k) \in A
    BY <1>2, <1>3, <1>4, NthOfCounts
  <1>6. \A i \in A : l[i].msg \in Steers
    BY <1>1 DEF SteersAt, IsSteer, Named, Event
  <1>7. SteersIn(l) = [k \in 1..n |-> l[NthOf(A, k)].msg]
    BY <1>1, <1>4 DEF SteersIn
  <1>8. SteersIn(l) \in [1..n -> Steers]
    BY <1>5, <1>6, <1>7
  <1>9. SteersIn(l) \in Seq(Steers) /\ Len(SteersIn(l)) = n
    BY <1>4, <1>8
  <1> QED BY <1>1, <1>2, <1>3, <1>4, <1>9

LEMMA EmitTypes ==
    ASSUME Typed, NEW kind \in Kinds, NEW calls \in SUBSET Calls,
           NEW msg \in Steers \cup {Prompt, NoMsg}, kind = "UserItem" => msg # NoMsg, NEW next \in Points,
           NEW progress \in [Calls -> Stages], Emit(kind, calls, msg, next, progress)
    PROVE  Typed'
  <1>1. Ev(kind, calls, msg) \in Named
    BY NamedEvents
  <1>2. log' \in Seq(Named) /\ status' \in Statuses
    <2>1. CASE Kept
      BY <2>1 DEF Kept, Typed, TypeOK
    <2>2. CASE Grown(kind, calls, msg)
      <3>1. log' = Append(log, Ev(kind, calls, msg)) /\ status' = EventStatus(kind)
        BY <2>2 DEF Grown, Append1
      <3>2. EventStatus(kind) \in Statuses
        BY DEF EventStatus, Statuses, Typed, TypeOK
      <3> QED BY <1>1, <3>1, <3>2 DEF Typed
    <2> QED BY <2>1, <2>2, EmitOutcomes
  <1>3. pc' \in Points /\ stage' \in [Calls -> Stages] /\ gate' \in [Calls -> GatePositions]
        /\ waiters' \subseteq Calls
    BY EmitOutcomes DEF Unwind, Dropped, Typed, TypeOK, Points, Stages, GatePositions
  <1>4. record' \in {"absent", "live", "terminal"}
    BY EmitOutcomes DEF Typed, TypeOK
  <1>5. log' \in Seq(Event)
    BY <1>2, NamedEvents
  <1> QED BY <1>2, <1>3, <1>4, <1>5, EmitOutcomes DEF Typed, TypeOK

LEMMA Append1Types ==
    ASSUME Typed, NEW kind \in Kinds, NEW calls \in SUBSET Calls,
           NEW msg \in Steers \cup {Prompt, NoMsg}, kind = "UserItem" => msg # NoMsg, Append1(kind, calls, msg)
    PROVE  log' \in Seq(Named) /\ status' \in Statuses
  <1>1. Ev(kind, calls, msg) \in Named
    BY NamedEvents
  <1>2. EventStatus(kind) \in Statuses
    BY DEF EventStatus, Statuses, Typed, TypeOK
  <1> QED BY <1>1, <1>2 DEF Append1, Typed, TypeOK

LEMMA DroppedTypes ==
    ASSUME Typed, NEW calls \in SUBSET Calls, Dropped(calls)
    PROVE  stage' \in [Calls -> Stages] /\ gate' \in [Calls -> GatePositions]
           /\ waiters' \subseteq Calls
  BY DEF Dropped, Typed, TypeOK, Stages, GatePositions

LEMMA LoopStepTypes ==
    ASSUME Typed, LoopStep
    PROVE  Typed'
  <1> USE DEF durable, memory
  <1>0. \A k \in {"RunStarted", "UserItem", "RunCompleted", "RunFailed", "RunCancelled"} : k \in Kinds
    BY DEF Kinds, TerminalKinds
  <1>1. ASSUME RegisterRun \/ SpawnRun \/ EndGating \/ NoticeCancel \/ CancelBatch \/ StreamInterrupted
        PROVE  Typed'
    BY <1>1 DEF RegisterRun, SpawnRun, EndGating, NoticeCancel, CancelBatch, StreamInterrupted,
                Move, Typed, TypeOK, Points
  <1>2. ASSUME LoadHistory \/ BeginTurn \/ DrainLast
        PROVE  Typed'
    <2>1. \A l \in Seq(Named) : SteersIn(l) \in Seq(Steers)
      BY SteersTyped
    <2>2. SubSeq(log, steerCursor + 1, Len(log)) \in Seq(Named)
      BY DEF Typed, TypeOK
    <2>3. NewSteers \in Seq(Steers) /\ SteersIn(log) \in Seq(Steers)
      BY <2>1, <2>2 DEF NewSteers, Typed, TypeOK
    <2>4. delivered' \in Seq(Steers) /\ steerCursor' \in Nat
      <3>1. PICK new \in Seq(Steers) : new = NewSteers
        BY <2>3
      <3>2. delivered \o new \in Seq(Steers) /\ Len(log) \in Nat
        BY DEF Typed, TypeOK
      <3> QED BY <1>2, <2>3, <3>1, <3>2
              DEF LoadHistory, BeginTurn, DrainLast, DrainSteers, Typed, TypeOK
    <2>5. iteration' \in Nat /\ pc' \in Points
      BY <1>2 DEF LoadHistory, BeginTurn, DrainLast, EndIteration, Move, Typed, TypeOK, Points
    <2>6. UNCHANGED <<durable, memory, stage, gate, expired>>
      BY <1>2 DEF LoadHistory, BeginTurn, DrainLast, EndIteration, Move
    <2> QED BY <2>4, <2>5, <2>6 DEF Typed, TypeOK
  <1>3. ASSUME StartLoop
        PROVE  Typed'
    <2>1. Emit("RunStarted", {}, NoMsg, "prompting", stage)
      BY <1>3 DEF StartLoop
    <2> QED BY <1>0, <2>1, EmitTypes DEF Typed, TypeOK, Points
  <1>4. ASSUME RecordPrompt
        PROVE  Typed'
    <2>1. Emit("UserItem", {}, Prompt, IF MaxIterations = 0 THEN "failing" ELSE "turn", stage)
      BY <1>4 DEF RecordPrompt
    <2>2. (IF MaxIterations = 0 THEN "failing" ELSE "turn") \in Points
      BY DEF Points
    <2>3. Prompt # NoMsg /\ Prompt \in Steers \cup {Prompt, NoMsg}
      BY ConstantsAssumption
    <2> QED BY <1>0, <2>1, <2>2, <2>3, EmitTypes DEF Typed, TypeOK
  <1>5. ASSUME CompleteRun \/ FinishFailed \/ FinishCancelled
        PROVE  Typed'
    <2>1. \E k \in {"RunCompleted", "RunFailed", "RunCancelled"} : Emit(k, {}, NoMsg, "ended", stage)
      BY <1>5 DEF CompleteRun, FinishFailed, FinishCancelled
    <2> QED BY <1>0, <2>1, EmitTypes DEF Typed, TypeOK, Points
  <1>6. ASSUME StreamUndeliverable
        PROVE  Typed'
    BY <1>6, DroppedTypes DEF StreamUndeliverable, Unwind, InJoinSet, Typed, TypeOK, Points
  <1>7. ASSUME SettleError
        PROVE  Typed'
    <2>1. log' \in Seq(Named) /\ status' \in Statuses /\ record' \in {"absent", "live", "terminal"}
      BY <1>7, CancelTyped DEF SettleError, Typed, TypeOK, Statuses
    <2>2. log' \in Seq(Event)
      BY <2>1, NamedEvents
    <2> QED BY <1>7, <2>1, <2>2 DEF SettleError, Typed, TypeOK, Points
  <1>8. ASSUME SpawnTools
        PROVE  Typed'
    BY <1>8 DEF SpawnTools, Typed, TypeOK, Points, Stages
  <1>9. ASSUME FinishBatch
        PROVE  Typed'
    BY <1>9 DEF FinishBatch, EndIteration, Move, Typed, TypeOK, Points
  <1> QED BY <1>1, <1>2, <1>3, <1>4, <1>5, <1>6, <1>7, <1>8, <1>9 DEF LoopStep

LEMMA CallStepTypes ==
    ASSUME Typed, NEW c \in Calls, CallStep(c)
    PROVE  Typed'
  <1> DEFINE at(s) == [stage EXCEPT ![c] = s]
  <1>1. \A s \in Stages : at(s) \in [Calls -> Stages]
    BY DEF Typed, TypeOK
  <1>2. {c} \in SUBSET Calls /\ pc \in Points /\ NoMsg \in Steers \cup {Prompt, NoMsg}
    BY DEF Typed, TypeOK
  <1>3. {"requested", "settled", "started", "runnable"} \subseteq Stages
        /\ {"ToolRequested", "ToolStarted", "ToolFailed", "ToolCompleted"} \subseteq Kinds
    BY DEF Stages, Kinds, ResultKinds
  <1>4. ASSUME RequestCall(c) \/ StartCall(c) \/ RefuseCall(c) \/ CloseCall(c) \/ JoinTool(c)
        PROVE  Typed'
    <2>1. \E k \in {"ToolRequested", "ToolStarted", "ToolFailed", "ToolCompleted"},
             s \in {"requested", "settled", "started"} : Emit(k, {c}, NoMsg, pc, at(s))
      BY <1>4 DEF RequestCall, StartCall, RefuseCall, CloseCall, JoinTool
    <2>2. PICK k \in {"ToolRequested", "ToolStarted", "ToolFailed", "ToolCompleted"},
               s \in {"requested", "settled", "started"} : Emit(k, {c}, NoMsg, pc, at(s))
      BY <2>1
    <2>3. k \in Kinds /\ at(s) \in [Calls -> Stages] /\ k # "UserItem"
      BY <1>1, <1>3
    <2> HIDE DEF at
    <2> QED BY <1>2, <2>2, <2>3, EmitTypes
  <1>5. ASSUME AllowCall(c)
        PROVE  Typed'
    BY <1>5 DEF AllowCall, Typed, TypeOK, durable, memory, Stages, GatePositions
  <1>6. ASSUME GateFails(c)
        PROVE  Typed'
    BY <1>6, DroppedTypes DEF GateFails, Unwind, InJoinSet, Typed, TypeOK, durable, Points
  <1> QED BY <1>4, <1>5, <1>6 DEF CallStep

LEMMA GateStepTypes ==
    ASSUME Typed, NEW c \in Calls, GateStep(c),
           gate[c] \in {"listening", "announced"} => log # <<>> /\ Decision(c) # "none"
    PROVE  Typed'
  <1> USE DEF durable, memory
  <1>0. Id(c) \in CallIds /\ Decision(c) \in {"none", "pending"} \cup Outcomes
    BY DEF Id, CallIds, Decision, Typed, TypeOK
  <1>1. ASSUME OpenTicket(c)
        PROVE  Typed'
    <2>1. CASE UNCHANGED durable
      <3>1. gate' \in [Calls -> GatePositions]
        BY <1>1 DEF OpenTicket, Typed, TypeOK, GatePositions
      <3> QED BY <1>1, <2>1, <3>1 DEF OpenTicket, Typed, TypeOK
    <2>2. CASE ~UNCHANGED durable
      <3>1. Append1("ApprovalRequired", {c}, NoMsg)
            /\ tickets' = [tickets EXCEPT ![Id(c)] = "pending"]
            /\ gate' = [gate EXCEPT ![c] = "ticketed"]
        BY <1>1, <2>2 DEF OpenTicket
      <3>2. log' \in Seq(Named) /\ status' \in Statuses
        BY <3>1, Append1Types DEF Kinds
      <3>3. log' \in Seq(Event)
        BY <3>2, NamedEvents
      <3>4. tickets' \in [CallIds -> {"none", "pending"} \cup Outcomes]
            /\ gate' \in [Calls -> GatePositions]
        BY <3>1 DEF Typed, TypeOK, GatePositions
      <3> QED BY <1>1, <3>2, <3>3, <3>4 DEF OpenTicket, Typed, TypeOK
    <2> QED BY <2>1, <2>2
  <1>2. ASSUME RegisterWaiter(c)
        PROVE  Typed'
    BY <1>2 DEF RegisterWaiter, Typed, TypeOK, GatePositions
  <1>3. ASSUME Announce(c)
        PROVE  Typed'
    <2>1. log[Len(log)] \in Event
      BY <1>3 DEF Announce, Typed, TypeOK
    <2>2. Last(log).calls \in SUBSET Calls
      BY <2>1 DEF Last, Event
    <2> QED BY <1>3, <2>2 DEF Announce, Typed, TypeOK, GatePositions
  <1>4. ASSUME Recheck(c)
        PROVE  Typed'
    <2>1. CASE Decision(c) = "pending"
      BY <1>4, <2>1 DEF Recheck, Typed, TypeOK, GatePositions
    <2>2. CASE Decision(c) # "pending"
      BY <1>0, <1>4, <2>2 DEF Recheck, Typed, TypeOK, GatePositions
    <2> QED BY <2>1, <2>2
  <1>5. ASSUME ReceiveDecision(c) \/ GateCancelled(c)
        PROVE  Typed'
    BY <1>5 DEF ReceiveDecision, GateCancelled, LeaveGate, Typed, TypeOK, GatePositions
  <1>6. ASSUME AnswerQuestion(c)
        PROVE  Typed'
    BY <1>6 DEF AnswerQuestion, Typed, TypeOK, GatePositions, Stages
  <1> QED BY <1>1, <1>2, <1>3, <1>4, <1>5, <1>6 DEF GateStep

LEMMA OtherTypes ==
    ASSUME Typed, \A c \in notifying : Decision(c) \in Outcomes,
           \/ EndGrace \/ HandlerStep \/ ModelStep \/ CancelRun \/ LinkBreaks \/ Finished
           \/ \E c \in Calls : Timer(c) \/ ToolStep(c) \/ UserStep(c)
           \/ \E m \in Steers : SteerRun(m)
    PROVE  Typed'
  <1> USE DEF durable, memory, task
  <1>1. ASSUME EndGrace
        PROVE  Typed'
    BY <1>1, DroppedTypes DEF EndGrace, InJoinSet, Typed, TypeOK, Points
  <1>2. ASSUME SignalCancel \/ CloseConnection \/ LinkBreaks \/ Finished
        PROVE  Typed'
    BY <1>2 DEF SignalCancel, CloseConnection, LinkBreaks, Finished, vars, Typed, TypeOK
  <1>3. ASSUME NEW c \in Calls, NotifyWaiter(c)
        PROVE  Typed'
    BY <1>3 DEF NotifyWaiter, Typed, TypeOK
  <1>4. ASSUME ModelFails
        PROVE  Typed'
    BY <1>4 DEF ModelFails, Move, Typed, TypeOK, Points
  <1>5. ASSUME NEW asked \in SUBSET InStage({"unused"}), ModelAnswers(asked)
        PROVE  Typed'
    <2>1. PICK progress : progress = [c \in Calls |-> IF c \in asked THEN "listed" ELSE stage[c]]
      OBVIOUS
    <2>2. PICK next \in {"finishing", "gating"} :
             Emit("AssistantItem", asked, NoMsg, next, progress)
      BY <1>5, <2>1 DEF ModelAnswers
    <2>3. progress \in [Calls -> Stages] /\ asked \in SUBSET Calls /\ next \in Points
      BY <2>1 DEF Typed, TypeOK, Stages, InStage, Points
    <2> QED BY <2>2, <2>3, EmitTypes DEF Kinds
  <1>6. ASSUME CancelRun
        PROVE  Typed'
    <2>1. log' \in Seq(Named) /\ status' \in Statuses
      BY <1>6, CancelTyped DEF CancelRun, Statuses
    <2>2. log' \in Seq(Event)
      BY <2>1, NamedEvents
    <2> QED BY <1>6, <2>1, <2>2 DEF CancelRun, Typed, TypeOK
  <1>7. ASSUME NEW c \in Calls, NEW result \in {"ok", "failed"}, FinishTool(c, result)
        PROVE  Typed'
    BY <1>7 DEF FinishTool, Typed, TypeOK, Stages
  <1>8. ASSUME NEW c \in Calls, Timer(c)
        PROVE  Typed'
    <2>1. ~Expires(c)
      BY DEF Expires, RequestId, TicketId
    <2> QED BY <1>8, <2>1 DEF Timer, QuestionTimesOut, QuestionGivesUp, AbandonQuestion,
                              Typed, TypeOK, Stages, GatePositions
  <1>9. ASSUME NEW c \in Calls, NEW decision \in {"approved", "denied"},
               ResolveApproval(c, decision)
        PROVE  Typed'
    <2>1. log' \in Seq(Named) /\ status' \in Statuses
      BY <1>9, Append1Types DEF ResolveApproval, Kinds
    <2>2. log' \in Seq(Event)
      BY <2>1, NamedEvents
    <2>3. tickets' \in [CallIds -> {"none", "pending"} \cup Outcomes]
      BY <1>9 DEF ResolveApproval, Typed, TypeOK, Outcomes
    <2> QED BY <1>9, <2>1, <2>2, <2>3 DEF ResolveApproval, Typed, TypeOK
  <1>10. ASSUME NEW m \in Steers, SteerRun(m)
         PROVE  Typed'
    <2>1. m # NoMsg
      BY ConstantsAssumption
    <2>2. log' \in Seq(Named) /\ status' \in Statuses
      BY <1>10, <2>1, Append1Types DEF SteerRun, Kinds
    <2>3. log' \in Seq(Event)
      BY <2>2, NamedEvents
    <2> QED BY <1>10, <2>2, <2>3 DEF SteerRun, Typed, TypeOK
  <1> QED BY <1>1, <1>2, <1>3, <1>4, <1>5, <1>6, <1>7, <1>8, <1>9, <1>10
          DEF HandlerStep, ModelStep, ToolStep, UserStep

-----------------------------------------------------------------------------
(* What a step does to the log, the calls and the gate *)

\* A step writes nothing, one event to a run that is live, or a cancel.
LogStep ==
    \/ Kept
    \/ \E kind \in Kinds, calls \in SUBSET Calls, msg \in Steers \cup {Prompt, NoMsg} :
          (kind = "UserItem" => msg # NoMsg) /\ Grown(kind, calls, msg)
    \/ AcceptCancel

\* The stages a call goes through, but for being allowed and being started.
Advances == {<<"unused", "listed">>, <<"listed", "requested">>,
             <<"requested", "settled">>, <<"started", "executing">>,
             <<"executing", "ok">>, <<"executing", "failed">>, <<"executing", "aborted">>,
             <<"ok", "aborted">>, <<"failed", "aborted">>, <<"ok", "settled">>,
             <<"failed", "settled">>, <<"aborted", "settled">>}
StagesAdvance(progress) ==
    \A c \in Calls : progress[c] = stage[c] \/ <<stage[c], progress[c]>> \in Advances

\* Nothing is heard or decided; a gate may be left.
GateQuiet ==
    /\ UNCHANGED <<tickets, answers, notifying>>
    /\ \A c \in Calls : gate'[c] # gate[c] => gate'[c] = "outside" /\ stage'[c] # "requested"

LEMMA DroppedAdvances ==
    ASSUME Typed, Dropped(InJoinSet)
    PROVE  /\ StagesAdvance(stage')
           /\ \A c \in Calls : gate'[c] # gate[c] => gate'[c] = "outside" /\ stage'[c] # "requested"
  BY DEF Dropped, InJoinSet, StagesAdvance, Advances, Typed, TypeOK

LEMMA EmitEffects ==
    ASSUME Typed, NEW kind \in Kinds, NEW calls \in SUBSET Calls,
           NEW msg \in Steers \cup {Prompt, NoMsg}, kind = "UserItem" => msg # NoMsg,
           NEW next, NEW progress, StagesAdvance(progress),
           Emit(kind, calls, msg, next, progress)
    PROVE  LogStep /\ StagesAdvance(stage') /\ GateQuiet
  <1>1. LogStep
    BY EmitOutcomes DEF LogStep
  <1>2. CASE Unwind
    BY <1>1, <1>2, EmitOutcomes, DroppedAdvances DEF Unwind, GateQuiet
  <1>3. CASE stage' = progress /\ UNCHANGED gate
    BY <1>1, <1>3, EmitOutcomes DEF StagesAdvance, GateQuiet
  <1> QED BY <1>2, <1>3, EmitOutcomes

LEMMA LoopStepEffects ==
    ASSUME Typed, LoopStep
    PROVE  LogStep /\ StagesAdvance(stage') /\ GateQuiet
  <1> USE DEF durable, memory
  <1>0. StagesAdvance(stage)
    BY DEF StagesAdvance
  <1>1. ASSUME \/ RegisterRun \/ SpawnRun \/ EndGating \/ NoticeCancel \/ CancelBatch
               \/ StreamInterrupted \/ LoadHistory \/ BeginTurn \/ DrainLast \/ FinishBatch
        PROVE  UNCHANGED <<durable, answers, notifying, stage, gate>>
    BY <1>1 DEF RegisterRun, SpawnRun, EndGating, NoticeCancel, CancelBatch, StreamInterrupted,
                LoadHistory, BeginTurn, DrainLast, FinishBatch, EndIteration, Move
  <1>2. ASSUME UNCHANGED <<durable, answers, notifying, stage, gate>>
        PROVE  LogStep /\ StagesAdvance(stage') /\ GateQuiet
    BY <1>0, <1>2 DEF LogStep, Kept, GateQuiet, StagesAdvance
  <1>3. ASSUME StartLoop \/ CompleteRun \/ FinishFailed \/ FinishCancelled \/ RecordPrompt
        PROVE  LogStep /\ StagesAdvance(stage') /\ GateQuiet
    <2>1. PICK kind \in Kinds, msg \in {Prompt, NoMsg}, next \in Points :
             (kind = "UserItem" => msg = Prompt) /\ Emit(kind, {}, msg, next, stage)
      BY <1>3 DEF StartLoop, CompleteRun, FinishFailed, FinishCancelled, RecordPrompt,
                  Kinds, TerminalKinds, Points
    <2>2. Prompt # NoMsg
      BY ConstantsAssumption
    <2> QED BY <1>0, <2>1, <2>2, EmitEffects
  <1>4. ASSUME StreamUndeliverable
        PROVE  LogStep /\ StagesAdvance(stage') /\ GateQuiet
    BY <1>4, DroppedAdvances DEF StreamUndeliverable, Unwind, LogStep, Kept, GateQuiet
  <1>5. ASSUME SettleError
        PROVE  LogStep /\ StagesAdvance(stage') /\ GateQuiet
    BY <1>0, <1>5 DEF SettleError, LogStep, Kept, GateQuiet, StagesAdvance
  <1>6. ASSUME SpawnTools
        PROVE  LogStep /\ StagesAdvance(stage') /\ GateQuiet
    BY <1>6 DEF SpawnTools, LogStep, Kept, GateQuiet, StagesAdvance, Advances, Typed, TypeOK
  <1> QED BY <1>1, <1>2, <1>3, <1>4, <1>5, <1>6 DEF LoopStep

LEMMA CallStepEffects ==
    ASSUME Typed, NEW c \in Calls, CallStep(c)
    PROVE  LogStep /\ GateQuiet /\ (StagesAdvance(stage') \/ AllowCall(c) \/ StartCall(c))
  <1> USE DEF durable, memory
  <1>1. ASSUME NEW kind \in {"ToolRequested", "ToolFailed", "ToolCompleted"},
               NEW s \in {"requested", "settled"}, <<stage[c], s>> \in Advances,
               Emit(kind, {c}, NoMsg, pc, [stage EXCEPT ![c] = s])
        PROVE  LogStep /\ StagesAdvance(stage') /\ GateQuiet
    <2>1. PICK progress : progress = [stage EXCEPT ![c] = s]
      OBVIOUS
    <2>2. StagesAdvance(progress)
      BY <1>1, <2>1 DEF StagesAdvance, Typed, TypeOK
    <2>3. kind \in Kinds /\ kind # "UserItem" /\ {c} \in SUBSET Calls
      BY DEF Kinds, ResultKinds
    <2>4. Emit(kind, {c}, NoMsg, pc, progress)
      BY <1>1, <2>1
    <2> QED BY <2>2, <2>3, <2>4, EmitEffects
  <1>2. ASSUME RequestCall(c) \/ RefuseCall(c) \/ CloseCall(c) \/ JoinTool(c)
        PROVE  LogStep /\ StagesAdvance(stage') /\ GateQuiet
    <2>1. \E kind \in {"ToolRequested", "ToolFailed", "ToolCompleted"}, s \in {"requested", "settled"} :
             <<stage[c], s>> \in Advances
             /\ Emit(kind, {c}, NoMsg, pc, [stage EXCEPT ![c] = s])
      BY <1>2 DEF RequestCall, RefuseCall, CloseCall, JoinTool, Advances
    <2> QED BY <1>1, <2>1
  <1>3. ASSUME AllowCall(c)
        PROVE  LogStep /\ GateQuiet
    BY <1>3 DEF AllowCall, LogStep, Kept, GateQuiet, Typed, TypeOK
  <1>4. ASSUME GateFails(c)
        PROVE  LogStep /\ StagesAdvance(stage') /\ GateQuiet
    BY <1>4, DroppedAdvances DEF GateFails, Unwind, LogStep, Kept, GateQuiet
  <1>5. ASSUME StartCall(c)
        PROVE  LogStep /\ GateQuiet
    <2>1. PICK progress : Emit("ToolStarted", {c}, NoMsg, pc, progress)
      BY <1>5 DEF StartCall
    <2>2. LogStep
      <3>1. Kept \/ Grown("ToolStarted", {c}, NoMsg)
        BY <2>1, EmitOutcomes
      <3>2. /\ "ToolStarted" \in Kinds /\ "ToolStarted" # "UserItem"
            /\ {c} \in SUBSET Calls /\ NoMsg \in Steers \cup {Prompt, NoMsg}
        BY DEF Kinds
      <3> QED BY <3>1, <3>2 DEF LogStep
    <2> QED BY <2>1, <2>2, EmitOutcomes, DroppedAdvances DEF Unwind, GateQuiet
  <1> QED BY <1>2, <1>3, <1>4, <1>5 DEF CallStep

LEMMA GateStepEffects ==
    ASSUME Typed, NEW c \in Calls, GateStep(c)
    PROVE  LogStep /\ StagesAdvance(stage')
  <1> USE DEF durable, memory
  <1>1. ASSUME OpenTicket(c)
        PROVE  LogStep /\ StagesAdvance(stage')
    <2>1. StagesAdvance(stage')
      BY <1>1 DEF OpenTicket, StagesAdvance
    <2>2. Kept \/ Grown("ApprovalRequired", {c}, NoMsg)
      BY <1>1 DEF OpenTicket, Kept, Grown, Accepts
    <2> QED BY <2>1, <2>2 DEF LogStep, Kinds
  <1>2. ASSUME RegisterWaiter(c) \/ Announce(c) \/ Recheck(c) \/ ReceiveDecision(c)
               \/ GateCancelled(c)
        PROVE  LogStep /\ StagesAdvance(stage')
    BY <1>2 DEF RegisterWaiter, Announce, Recheck, ReceiveDecision, GateCancelled, LeaveGate,
                LogStep, Kept, StagesAdvance
  <1>3. ASSUME AnswerQuestion(c)
        PROVE  LogStep /\ StagesAdvance(stage') /\ GateQuiet
    BY <1>3 DEF AnswerQuestion, LogStep, Kept, StagesAdvance, Advances, GateQuiet, Typed, TypeOK
  <1> QED BY <1>1, <1>2, <1>3 DEF GateStep

LEMMA OtherEffects ==
    ASSUME Typed,
           \/ EndGrace \/ HandlerStep \/ ModelStep \/ CancelRun \/ LinkBreaks \/ Finished
           \/ \E c \in Calls : Timer(c) \/ ToolStep(c) \/ UserStep(c)
           \/ \E m \in Steers : SteerRun(m)
    PROVE  /\ LogStep /\ StagesAdvance(stage')
           /\ \/ GateQuiet
              \/ \E c \in Calls : NotifyWaiter(c) \/ UserStep(c)
  <1> USE DEF durable, memory, task
  <1>1. ASSUME EndGrace
        PROVE  LogStep /\ StagesAdvance(stage') /\ GateQuiet
    BY <1>1, DroppedAdvances DEF EndGrace, LogStep, Kept, GateQuiet
  <1>2. ASSUME SignalCancel \/ CloseConnection \/ LinkBreaks \/ Finished \/ ModelFails
        PROVE  LogStep /\ StagesAdvance(stage') /\ GateQuiet
    BY <1>2 DEF SignalCancel, CloseConnection, LinkBreaks, Finished, ModelFails, Move, vars,
                LogStep, Kept, GateQuiet, StagesAdvance
  <1>3. ASSUME NEW c \in Calls, NotifyWaiter(c)
        PROVE  LogStep /\ StagesAdvance(stage')
    BY <1>3 DEF NotifyWaiter, LogStep, Kept, StagesAdvance
  <1>4. ASSUME NEW asked \in SUBSET InStage({"unused"}), ModelAnswers(asked)
        PROVE  LogStep /\ StagesAdvance(stage') /\ GateQuiet
    <2>1. PICK progress : progress = [c \in Calls |-> IF c \in asked THEN "listed" ELSE stage[c]]
      OBVIOUS
    <2>2. PICK next : Emit("AssistantItem", asked, NoMsg, next, progress)
      BY <1>4, <2>1 DEF ModelAnswers
    <2>3. StagesAdvance(progress) /\ asked \in SUBSET Calls
      BY <2>1 DEF StagesAdvance, Advances, InStage
    <2> QED BY <2>2, <2>3, EmitEffects DEF Kinds
  <1>5. ASSUME CancelRun
        PROVE  LogStep /\ StagesAdvance(stage') /\ GateQuiet
    BY <1>5 DEF CancelRun, LogStep, GateQuiet, StagesAdvance
  <1>6. ASSUME NEW c \in Calls, NEW result \in {"ok", "failed"}, FinishTool(c, result)
        PROVE  LogStep /\ StagesAdvance(stage') /\ GateQuiet
    BY <1>6 DEF FinishTool, LogStep, Kept, GateQuiet, StagesAdvance, Advances, Typed, TypeOK
  <1>7. ASSUME NEW c \in Calls, Timer(c)
        PROVE  LogStep /\ StagesAdvance(stage') /\ GateQuiet
    <2>1. ~Expires(c)
      BY DEF Expires, RequestId, TicketId
    <2> QED BY <1>7, <2>1 DEF Timer, QuestionTimesOut, QuestionGivesUp, AbandonQuestion,
                  LogStep, Kept, GateQuiet, StagesAdvance, Advances, Typed, TypeOK
  <1>8. ASSUME NEW c \in Calls, NEW decision \in {"approved", "denied"},
               ResolveApproval(c, decision)
        PROVE  LogStep /\ StagesAdvance(stage')
    <2>1. Accepts("ApprovalResolved")
      BY <1>8 DEF ResolveApproval, Accepts
    <2> QED BY <1>8, <2>1 DEF ResolveApproval, LogStep, Grown, Kinds, StagesAdvance
  <1>9. ASSUME NEW m \in Steers, SteerRun(m)
        PROVE  LogStep /\ StagesAdvance(stage') /\ GateQuiet
    <2>1. m # NoMsg /\ Accepts("UserItem")
      BY <1>9, ConstantsAssumption DEF SteerRun, Accepts
    <2> QED BY <1>9, <2>1 DEF SteerRun, LogStep, Grown, Kinds, StagesAdvance, GateQuiet
  <1> QED BY <1>1, <1>2, <1>3, <1>4, <1>5, <1>6, <1>7, <1>8, <1>9
          DEF HandlerStep, ModelStep, ToolStep, UserStep

-----------------------------------------------------------------------------
(* The log only grows, and ends with its run *)

LEMMA LogGrows ==
    ASSUME Typed, LogStep
    PROVE  /\ log' \in Seq(Named) /\ Len(log) \in Nat /\ Len(log') \in Nat
           /\ Len(log') >= Len(log)
           /\ \A i \in 1..Len(log) : log'[i] = log[i]
           /\ Terminal => Kept /\ Terminal'
  <1>1. log \in Seq(Named) /\ Len(log) \in Nat
    BY DEF Typed
  <1>2. CASE Kept
    BY <1>1, <1>2 DEF Kept, Terminal
  <1>3. ASSUME NEW kind \in Kinds, NEW calls \in SUBSET Calls,
               NEW msg \in Steers \cup {Prompt, NoMsg}, kind = "UserItem" => msg # NoMsg,
               Grown(kind, calls, msg)
        PROVE  /\ log' \in Seq(Named) /\ Len(log') \in Nat /\ Len(log') >= Len(log)
               /\ \A i \in 1..Len(log) : log'[i] = log[i]
               /\ ~Terminal
    <2>1. Ev(kind, calls, msg) \in Named
      BY <1>3, NamedEvents
    <2>2. log' = Append(log, Ev(kind, calls, msg)) /\ ~Terminal
      BY <1>3 DEF Grown, Append1
    <2> QED BY <1>1, <2>1, <2>2
  <1>4. CASE AcceptCancel
    <2>1. log' \in Seq(Named) /\ \E ending \in Seq(Named) : log' = log \o ending
      BY <1>4, CancelTyped
    <2>2. ~Terminal
      BY <1>4 DEF AcceptCancel
    <2> QED BY <1>1, <2>1, <2>2
  <1> QED BY <1>1, <1>2, <1>3, <1>4 DEF LogStep

\* An event of that kind about a call of that id is in the log.
OnRecord(kind, id) == \E i \in DOMAIN log : log[i].kind = kind /\ id \in IdsOf(log[i].calls)

LEMMA RecordsStay ==
    ASSUME Typed, LogStep, NEW kind, NEW id, OnRecord(kind, id)
    PROVE  OnRecord(kind, id)'
  <1>1. PICK i \in 1..Len(log) : log[i].kind = kind /\ id \in IdsOf(log[i].calls)
    BY DEF OnRecord, Typed
  <1>2. i \in DOMAIN log' /\ log'[i] = log[i]
    <2>1. i \in 1..Len(log') /\ log'[i] = log[i]
      BY LogGrows
    <2>2. DOMAIN log' = 1..Len(log')
      BY LogGrows
    <2> QED BY <2>1, <2>2
  <1> QED BY <1>1, <1>2 DEF OnRecord, IdsOf, Id

LEMMA RecordsOnAppend ==
    ASSUME Typed, NEW kind \in Kinds, NEW c \in Calls, Grown(kind, {c}, NoMsg)
    PROVE  OnRecord(kind, Id(c))'
  <1>1. log' = Append(log, Ev(kind, {c}, NoMsg)) /\ log \in Seq(Named)
    BY DEF Grown, Append1, Typed
  <1>2. Len(log) + 1 \in DOMAIN log' /\ log'[Len(log) + 1] = Ev(kind, {c}, NoMsg)
    BY <1>1
  <1>3. Id(c) \in IdsOf({c})
    BY DEF IdsOf
  <1> QED BY <1>2, <1>3 DEF OnRecord, Ev, IdsOf, Id

-----------------------------------------------------------------------------
(* Tickets *)

Held == {"ticketed", "reused", "listening", "announced", "waiting"} \cup Outcomes

\* A call in the gate has a ticket, what reaches it is the ticket's decision, and
\* the log holds the request and the decision.
GateInv ==
    \A c \in Calls :
        /\ gate[c] \in Held => Decision(c) # "none"
        /\ gate[c] \in Outcomes => Decision(c) = gate[c]
        /\ answers[c] # "none" => Decision(c) = answers[c]
        /\ c \in notifying => Decision(c) \in Outcomes
        /\ Decision(c) # "none" => OnRecord("ApprovalRequired", Id(c))
        /\ Decision(c) \in Outcomes => OnRecord("ApprovalResolved", Id(c))

\* The steps that touch a ticket: the gate opens it, a user decides it.
TicketOpened(c) ==
    /\ InGate(c) /\ gate[c] = "outside" /\ Decision(c) = "none"
    /\ tickets' = [tickets EXCEPT ![Id(c)] = "pending"]
    /\ Grown("ApprovalRequired", {c}, NoMsg)
TicketDecided(c, decision) ==
    /\ Decision(c) = "pending" /\ tickets' = [tickets EXCEPT ![Id(c)] = decision]
    /\ Grown("ApprovalResolved", {c}, NoMsg)
TicketStep ==
    \/ UNCHANGED tickets
    \/ \E c \in Calls : TicketOpened(c) /\ OpenTicket(c)
    \/ \E c \in Calls, decision \in {"approved", "denied"} :
          TicketDecided(c, decision) /\ ResolveApproval(c, decision)

LEMMA NextSplit ==
    ASSUME Next
    PROVE  \/ LoopStep
           \/ \E c \in Calls : CallStep(c)
           \/ \E c \in Calls : GateStep(c)
           \/ \/ EndGrace \/ HandlerStep \/ ModelStep \/ CancelRun \/ LinkBreaks \/ Finished
              \/ \E c \in Calls : Timer(c) \/ ToolStep(c) \/ UserStep(c)
              \/ \E m \in Steers : SteerRun(m)
  BY DEF Next

LEMMA StepEffects ==
    ASSUME Typed, Next
    PROVE  /\ LogStep
           /\ \/ StagesAdvance(stage')
              \/ \E c \in Calls : GateQuiet /\ (AllowCall(c) \/ StartCall(c))
  BY NextSplit, LoopStepEffects, CallStepEffects, GateStepEffects, OtherEffects

LEMMA TicketSteps ==
    ASSUME Typed, Next
    PROVE  TicketStep
  <1> USE DEF durable, memory
  <1>1. ASSUME GateQuiet
        PROVE  TicketStep
    BY <1>1 DEF GateQuiet, TicketStep
  <1>2. ASSUME NEW c \in Calls, GateStep(c)
        PROVE  TicketStep
    <2>1. CASE OpenTicket(c)
      BY <2>1 DEF OpenTicket, TicketStep, TicketOpened, Grown, Accepts
    <2>2. CASE ~OpenTicket(c)
      BY <1>2, <2>2 DEF GateStep, RegisterWaiter, Announce, Recheck, ReceiveDecision,
                        GateCancelled, LeaveGate, AnswerQuestion, TicketStep
    <2> QED BY <2>1, <2>2
  <1>3. ASSUME NEW c \in Calls, NotifyWaiter(c) \/ UserStep(c)
        PROVE  TicketStep
    <2>1. CASE NotifyWaiter(c)
      BY <2>1 DEF NotifyWaiter, TicketStep
    <2>2. ASSUME NEW decision \in {"approved", "denied"}, ResolveApproval(c, decision)
          PROVE  TicketStep
      BY <2>2 DEF ResolveApproval, TicketStep, TicketDecided, Grown, Accepts
    <2> QED BY <1>3, <2>1, <2>2 DEF UserStep
  <1> QED BY <1>1, <1>2, <1>3, NextSplit, LoopStepEffects, CallStepEffects, OtherEffects

\* A ticket never goes away, and a decision never changes.
DecisionStands(c) ==
    /\ Decision(c) # "none" => Decision(c)' # "none"
    /\ Decision(c) \in Outcomes => Decision(c)' = Decision(c)

LEMMA DecisionsStand ==
    ASSUME Typed, TicketStep, NEW c \in Calls
    PROVE  DecisionStands(c)
  <1>1. tickets \in [CallIds -> {"none", "pending"} \cup Outcomes]
    BY DEF Typed, TypeOK
  <1>2. \A d \in Calls : Id(d) \in CallIds
    BY DEF CallIds
  <1> QED BY <1>1, <1>2 DEF TicketStep, TicketOpened, TicketDecided, DecisionStands, Decision,
                            Outcomes, Id

\* The first four parts of GateInv, of one call.
InStep(c) ==
    /\ gate[c] \in Held => Decision(c) # "none"
    /\ gate[c] \in Outcomes => Decision(c) = gate[c]
    /\ answers[c] # "none" => Decision(c) = answers[c]
    /\ c \in notifying => Decision(c) \in Outcomes

LEMMA GateStepKeepsInStep ==
    ASSUME Typed, GateInv, NEW c \in Calls, GateStep(c), NEW d \in Calls
    PROVE  InStep(d)'
  <1> USE DEF durable, memory
  <1>0. /\ InStep(d) /\ gate \in [Calls -> GatePositions]
        /\ answers \in [Calls -> {"none"} \cup Outcomes]
        /\ tickets \in [CallIds -> {"none", "pending"} \cup Outcomes]
        /\ Id(c) \in CallIds /\ Id(d) \in CallIds
        /\ Decision(c) \in {"none", "pending"} \cup Outcomes
    BY DEF GateInv, InStep, Typed, TypeOK, CallIds, Decision
  <1>1. ASSUME OpenTicket(c)
        PROVE  InStep(d)'
    <2>1. CASE UNCHANGED tickets
      BY <1>0, <1>1, <2>1 DEF OpenTicket, InStep, Held, Outcomes, Decision, Id
    <2>2. CASE ~UNCHANGED tickets
      <3>1. tickets' = [tickets EXCEPT ![Id(c)] = "pending"] /\ Decision(c) = "none"
            /\ gate' = [gate EXCEPT ![c] = "ticketed"] /\ UNCHANGED <<answers, notifying>>
        BY <1>1, <2>2 DEF OpenTicket
      <3>2. CASE Id(d) = Id(c)
        <4>1. Decision(d) = "none" /\ Decision(d)' = "pending"
          BY <1>0, <3>1, <3>2 DEF Decision, Id
        <4>2. gate[d] \notin Held /\ answers[d] = "none" /\ d \notin notifying
          BY <1>0, <4>1 DEF InStep, Held, Outcomes
        <4> QED BY <1>0, <3>1, <4>1, <4>2 DEF InStep, Held, Outcomes
      <3>3. CASE Id(d) # Id(c)
        <4>1. Decision(d)' = Decision(d) /\ gate'[d] = gate[d]
          BY <1>0, <3>1, <3>3 DEF Decision, Id
        <4> QED BY <1>0, <3>1, <4>1 DEF InStep
      <3> QED BY <3>2, <3>3
    <2> QED BY <2>1, <2>2
  <1>2. ASSUME UNCHANGED tickets, UNCHANGED notifying,
               \/ gate'[d] \in {gate[d], "outside", "error"} /\ answers'[d] \in {answers[d], "none"}
               \/ /\ gate[d] \in {"ticketed", "reused", "listening", "announced"}
                  /\ gate'[d] \in {"listening", "announced", "waiting"}
                  /\ answers'[d] \in {answers[d], "none"}
               \/ gate'[d] = Decision(d) /\ gate[d] \in Held /\ answers'[d] = answers[d]
        PROVE  InStep(d)'
    <2>1. Decision(d)' = Decision(d)
      BY <1>2 DEF Decision, Id
    <2>2. "none" \notin Outcomes /\ "pending" \notin Outcomes
      BY DEF Outcomes
    <2>3. {"outside", "error"} \cap Held = {} /\ Outcomes \subseteq Held
          /\ {"listening", "announced", "waiting"} \cap Outcomes = {}
      BY DEF Held, Outcomes
    <2> QED BY <1>0, <1>2, <2>1, <2>2, <2>3 DEF InStep, Held
  <1>3. ASSUME RegisterWaiter(c) \/ Announce(c) \/ GateCancelled(c) \/ AnswerQuestion(c)
        PROVE  InStep(d)'
    BY <1>0, <1>2, <1>3 DEF RegisterWaiter, Announce, GateCancelled, LeaveGate, AnswerQuestion
  <1>4. ASSUME Recheck(c)
        PROVE  InStep(d)'
    BY <1>0, <1>2, <1>4 DEF Recheck, Held
  <1>5. ASSUME ReceiveDecision(c)
        PROVE  InStep(d)'
    <2>1. answers[c] = Decision(c)
      BY <1>5 DEF ReceiveDecision, GateInv
    <2> QED BY <1>0, <1>2, <1>5, <2>1 DEF ReceiveDecision, LeaveGate, Held
  <1> QED BY <1>1, <1>3, <1>4, <1>5 DEF GateStep

LEMMA DecisionsKeepInStep ==
    ASSUME Typed, GateInv, NEW c \in Calls, NotifyWaiter(c) \/ UserStep(c), NEW d \in Calls
    PROVE  InStep(d)'
  <1>0. /\ InStep(c) /\ InStep(d) /\ gate \in [Calls -> GatePositions]
        /\ answers \in [Calls -> {"none"} \cup Outcomes]
        /\ tickets \in [CallIds -> {"none", "pending"} \cup Outcomes]
        /\ Id(c) \in CallIds /\ Id(d) \in CallIds
        /\ "none" \notin Outcomes /\ "pending" \notin Outcomes
    BY DEF GateInv, InStep, Typed, TypeOK, CallIds, Outcomes
  <1>1. CASE NotifyWaiter(c)
    <2>1. Decision(d)' = Decision(d) /\ gate'[d] = gate[d] /\ (d \in notifying' => d \in notifying)
      BY <1>1 DEF NotifyWaiter, Decision, Id, durable, task
    <2>2. answers'[d] = answers[d] \/ (Id(d) = Id(c) /\ answers'[d] = Decision(c))
      BY <1>1 DEF NotifyWaiter
    <2>3. Id(d) = Id(c) => Decision(d) = Decision(c)
      BY DEF Decision
    <2> QED BY <1>0, <2>1, <2>2, <2>3 DEF InStep
  <1>2. ASSUME NEW decision \in {"approved", "denied"}, ResolveApproval(c, decision)
        PROVE  InStep(d)'
    <2>1. decision \in Outcomes /\ Decision(c) = "pending"
          /\ tickets' = [tickets EXCEPT ![Id(c)] = decision]
          /\ gate' = gate /\ answers' = answers /\ notifying' = notifying \cup {c}
      BY <1>2 DEF ResolveApproval, Outcomes, task
    <2>2. CASE Id(d) = Id(c)
      <3>1. Decision(d) = "pending" /\ Decision(d)' = decision
        BY <1>0, <2>1, <2>2 DEF Decision, Id
      <3>2. gate[d] \notin Outcomes /\ answers[d] = "none"
        BY <1>0, <3>1 DEF InStep
      <3> QED BY <1>0, <2>1, <3>1, <3>2 DEF InStep
    <2>3. CASE Id(d) # Id(c)
      <3>1. Decision(d)' = Decision(d) /\ d # c
        BY <1>0, <2>1, <2>3 DEF Decision, Id
      <3> QED BY <1>0, <2>1, <3>1 DEF InStep
    <2> QED BY <2>2, <2>3
  <1> QED BY <1>1, <1>2 DEF UserStep

LEMMA QuietKeepsInStep ==
    ASSUME Typed, GateInv, GateQuiet, NEW d \in Calls
    PROVE  InStep(d)'
  <1>1. InStep(d) /\ Decision(d)' = Decision(d) /\ gate'[d] \in {gate[d], "outside"}
        /\ answers' = answers /\ notifying' = notifying
    BY DEF GateInv, InStep, GateQuiet, Decision, Id
  <1>2. "outside" \notin Held /\ "outside" \notin Outcomes
    BY DEF Held, Outcomes
  <1> QED BY <1>1, <1>2 DEF InStep

\* The request and the decision of a ticket are on record.
LEMMA TicketsRecorded ==
    ASSUME Typed, GateInv, TicketStep, LogStep, NEW d \in Calls
    PROVE  /\ Decision(d)' # "none" => OnRecord("ApprovalRequired", Id(d))'
           /\ Decision(d)' \in Outcomes => OnRecord("ApprovalResolved", Id(d))'
  <1>0. /\ tickets \in [CallIds -> {"none", "pending"} \cup Outcomes] /\ Id(d) \in CallIds
        /\ "none" \notin Outcomes /\ "pending" \notin Outcomes
        /\ "ApprovalRequired" \in Kinds /\ "ApprovalResolved" \in Kinds
    BY DEF Typed, TypeOK, CallIds, Outcomes, Kinds
  <1>1. /\ Decision(d) # "none" => OnRecord("ApprovalRequired", Id(d))'
        /\ Decision(d) \in Outcomes => OnRecord("ApprovalResolved", Id(d))'
    BY RecordsStay DEF GateInv, Id
  <1>2. CASE Decision(d)' = Decision(d)
    BY <1>1, <1>2
  <1>3. ASSUME NEW c \in Calls, TicketOpened(c), Id(d) = Id(c)
        PROVE  OnRecord("ApprovalRequired", Id(d))' /\ Decision(d)' = "pending"
    BY <1>0, <1>3, RecordsOnAppend DEF TicketOpened, Decision, Id
  <1>4. ASSUME NEW c \in Calls, NEW decision \in {"approved", "denied"},
               TicketDecided(c, decision), Id(d) = Id(c)
        PROVE  OnRecord("ApprovalResolved", Id(d))' /\ Decision(d) = "pending"
    BY <1>0, <1>4, RecordsOnAppend DEF TicketDecided, Decision, Id
  <1>5. \/ Decision(d)' = Decision(d)
        \/ \E c \in Calls : TicketOpened(c) /\ Id(d) = Id(c)
        \/ \E c \in Calls, decision \in {"approved", "denied"} :
              TicketDecided(c, decision) /\ Id(d) = Id(c)
    BY <1>0 DEF TicketStep, TicketOpened, TicketDecided, Decision, Id
  <1> QED BY <1>0, <1>1, <1>2, <1>3, <1>4, <1>5

TypeInv == Typed /\ GateInv

\* TypeOK and GateInv are inductive together: a gate that re-reads a ticket finds one.
LEMMA TypeInvariant == Spec => []TypeInv
  <1>1. Init => TypeInv
    <2> SUFFICES ASSUME Init PROVE TypeInv
      OBVIOUS
    <2>1. TypeOK
      <3>1. log \in Seq(Event) /\ delivered \in Seq(Steers)
        BY DEF Init
      <3>2. tickets \in [CallIds -> {"none", "pending"} \cup Outcomes]
        BY DEF Init
      <3>3. stage \in [Calls -> Stages] /\ gate \in [Calls -> GatePositions]
            /\ answers \in [Calls -> {"none"} \cup Outcomes]
        BY DEF Init, Stages, GatePositions
      <3> QED BY <3>1, <3>2, <3>3 DEF Init, TypeOK, Statuses, Points
    <2>2. log \in Seq(Named)
      BY DEF Init
    <2>3. \A c \in Calls : Id(c) \in CallIds /\ Decision(c) = "none"
      BY DEF Init, CallIds, Decision
    <2>4. GateInv
      BY <2>3 DEF Init, GateInv, Held, Outcomes
    <2> QED BY <2>1, <2>2, <2>4 DEF TypeInv, Typed
  <1>2. TypeInv /\ [Next]_vars => TypeInv'
    <2> SUFFICES ASSUME Typed, GateInv, [Next]_vars PROVE TypeInv'
      BY DEF TypeInv
    <2>1. CASE UNCHANGED vars
      BY <2>1 DEF vars, durable, memory, task, TypeInv, Typed, TypeOK, GateInv, Decision, OnRecord, Id
    <2>2. CASE Next
      <3>1. \A c \in Calls : gate[c] \in {"listening", "announced"}
                                => log # <<>> /\ Decision(c) # "none"
        BY DEF GateInv, Held, OnRecord
      <3>2. \A c \in notifying : Decision(c) \in Outcomes
        BY DEF GateInv, Typed, TypeOK
      <3>3. Typed'
        BY <2>2, <3>1, <3>2, NextSplit, LoopStepTypes, CallStepTypes, GateStepTypes, OtherTypes
      <3>4. \A d \in Calls : InStep(d)'
        BY <2>2, NextSplit, LoopStepEffects, CallStepEffects, OtherEffects,
           GateStepKeepsInStep, DecisionsKeepInStep, QuietKeepsInStep
      <3>5. TicketStep /\ LogStep
        BY <2>2, TicketSteps, StepEffects
      <3>6. GateInv'
        BY <3>4, <3>5, TicketsRecorded DEF GateInv, InStep
      <3> QED BY <3>3, <3>6 DEF TypeInv
    <2> QED BY <2>1, <2>2
  <1> QED BY <1>1, <1>2, PTL DEF Spec

\* In every state of a turn, each variable has its type.
THEOREM TurnTyped == Spec => []TypeOK
  <1>1. TypeInv => TypeOK
    BY DEF TypeInv, Typed
  <1> QED BY <1>1, TypeInvariant, PTL

-----------------------------------------------------------------------------
(* Consent *)

\* The driver names every call of the turn differently, as providers do.
DistinctIds == \A c, d \in Calls : Id(c) = Id(d) => c = d

\* A call that is put to the user has no ticket before it is requested; once it may
\* run it has none at all or an approved one.
ConsentInv ==
    \A c \in Calls :
        /\ stage[c] \in {"unused", "listed"} => Decision(c) = "none"
        /\ stage[c] = "requested" /\ gate[c] = "outside" => Decision(c) = "none"
        /\ c \notin Questions /\ stage[c] \in {"runnable", "started", "executing", "ok", "failed"}
              => Decision(c) \in {"none", "approved"}

\* A tool that runs was announced by its tool.started.
StartedInv ==
    \A c \in Calls : stage[c] \in {"started", "executing", "ok", "failed"}
                        => c \in CallsIn({"ToolStarted"})

\* A call that is still requested leaves the gate by no step.
LEMMA GateKept ==
    ASSUME Typed, Next, NEW d \in Calls, gate'[d] = "outside", stage'[d] = "requested"
    PROVE  gate[d] = "outside"
  <1>1. ASSUME GateQuiet
        PROVE  gate[d] = "outside"
    BY <1>1 DEF GateQuiet
  <1>2. ASSUME NEW c \in Calls, GateStep(c)
        PROVE  gate[d] = "outside"
    <2>1. /\ gate \in [Calls -> GatePositions] /\ stage \in [Calls -> Stages]
          /\ answers[c] # "outside" /\ Decision(c) # "outside"
      BY DEF Typed, TypeOK, Decision, CallIds, Outcomes
    <2>2. CASE AnswerQuestion(c)
      BY <2>1, <2>2 DEF AnswerQuestion
    <2>3. CASE OpenTicket(c)
      BY <2>1, <2>3 DEF OpenTicket
    <2>4. CASE RegisterWaiter(c) \/ Announce(c) \/ Recheck(c) \/ ReceiveDecision(c)
               \/ GateCancelled(c)
      BY <2>1, <2>4 DEF RegisterWaiter, Announce, Recheck, ReceiveDecision, GateCancelled,
                        LeaveGate
    <2> QED BY <1>2, <2>2, <2>3, <2>4 DEF GateStep
  <1>3. ASSUME NEW c \in Calls, NotifyWaiter(c) \/ UserStep(c)
        PROVE  gate[d] = "outside"
    BY <1>3 DEF NotifyWaiter, UserStep, ResolveApproval, task
  <1> QED BY <1>1, <1>2, <1>3, NextSplit, LoopStepEffects, CallStepEffects, OtherEffects

\* The log goes on naming the calls it named.
LEMMA CallsStay ==
    ASSUME Typed, LogStep, NEW kinds, NEW c \in CallsIn(kinds)
    PROVE  c \in CallsIn(kinds)'
  <1>1. PICK i \in 1..Len(log) : log[i].kind \in kinds /\ c \in log[i].calls
    BY DEF CallsIn, Typed
  <1>2. i \in DOMAIN log' /\ log'[i] = log[i]
    BY LogGrows
  <1> QED BY <1>1, <1>2 DEF CallsIn

LEMMA CallsOnAppend ==
    ASSUME Typed, NEW kind \in Kinds, NEW calls \in SUBSET Calls, NEW msg,
           Grown(kind, calls, msg), NEW kinds, kind \in kinds
    PROVE  calls \subseteq CallsIn(kinds)'
  <1>1. log' = Append(log, Ev(kind, calls, msg)) /\ log \in Seq(Named)
    BY DEF Grown, Append1, Typed
  <1>2. Len(log) + 1 \in DOMAIN log' /\ log'[Len(log) + 1] = Ev(kind, calls, msg)
    BY <1>1
  <1> QED BY <1>2 DEF CallsIn, Ev

LEMMA StartedKept ==
    ASSUME Typed, StartedInv, Next
    PROVE  StartedInv'
  <1> SUFFICES ASSUME NEW d \in Calls, stage'[d] \in {"started", "executing", "ok", "failed"}
               PROVE  d \in CallsIn({"ToolStarted"})'
    BY DEF StartedInv
  <1>1. CASE stage[d] \in {"started", "executing", "ok", "failed"}
    BY <1>1, StepEffects, CallsStay DEF StartedInv
  <1>2. ASSUME NEW c \in Calls, StartCall(c), stage[d] \notin {"started", "executing", "ok", "failed"}
        PROVE  d \in CallsIn({"ToolStarted"})'
    <2>1. PICK progress : progress = [stage EXCEPT ![c] = "started"]
      OBVIOUS
    <2>2. Emit("ToolStarted", {c}, NoMsg, pc, progress)
      BY <1>2, <2>1 DEF StartCall
    <2>3. ~Unwind
      BY <1>2, DroppedAdvances DEF Unwind, StagesAdvance, Advances
    <2>4. stage' = progress /\ Grown("ToolStarted", {c}, NoMsg)
      BY <2>2, <2>3, EmitOutcomes DEF AlreadyStored
    <2>5. c = d
      BY <1>2, <2>1, <2>4 DEF Typed, TypeOK
    <2> QED BY <2>4, <2>5, CallsOnAppend DEF Kinds
  <1>3. ASSUME NEW c \in Calls, AllowCall(c), stage[d] \notin {"started", "executing", "ok", "failed"}
        PROVE  FALSE
    BY <1>3 DEF AllowCall, Typed, TypeOK
  <1>4. CASE StagesAdvance(stage') /\ stage[d] \notin {"started", "executing", "ok", "failed"}
    BY <1>4 DEF StagesAdvance, Advances
  <1> QED BY <1>1, <1>2, <1>3, <1>4, StepEffects

LEMMA ConsentKept ==
    ASSUME DistinctIds, Typed, GateInv, ConsentInv, Next
    PROVE  ConsentInv'
  <1> DEFINE Runs == {"runnable", "started", "executing", "ok", "failed"}
  <1> SUFFICES ASSUME NEW d \in Calls
               PROVE  /\ stage'[d] \in {"unused", "listed"} => Decision(d)' = "none"
                      /\ stage'[d] = "requested" /\ gate'[d] = "outside" => Decision(d)' = "none"
                      /\ d \notin Questions /\ stage'[d] \in Runs
                            => Decision(d)' \in {"none", "approved"}
    BY DEF ConsentInv
  <1>1. TicketStep /\ tickets \in [CallIds -> {"none", "pending"} \cup Outcomes]
        /\ \A c \in Calls : Id(c) \in CallIds
    BY TicketSteps DEF Typed, TypeOK, CallIds
  <1>2. ASSUME NEW c \in Calls, TicketOpened(c) /\ OpenTicket(c), c = d
        PROVE  stage'[d] = stage[d] /\ gate'[d] # "outside"
               /\ (stage[d] = "requested" \/ (d \in Questions /\ stage[d] = "executing"))
    <2>1. gate' = [gate EXCEPT ![c] = "ticketed"]
      <3>1. Decision(c)' = "pending" /\ Decision(c) = "none"
        BY <1>1, <1>2 DEF TicketOpened, Decision, Id
      <3>2. tickets' # tickets
        BY <3>1 DEF Decision, Id
      <3> QED BY <1>2, <3>1, <3>2 DEF OpenTicket, durable
    <2> QED BY <1>2, <2>1 DEF OpenTicket, InGate, Typed, TypeOK
  <1>3. ASSUME NEW c \in Calls, NEW decision \in {"approved", "denied"},
               TicketDecided(c, decision) /\ ResolveApproval(c, decision), c = d
        PROVE  stage'[d] = stage[d] /\ gate'[d] = gate[d] /\ Decision(d) = "pending"
    BY <1>3 DEF TicketDecided, ResolveApproval, task
  <1>4. \/ Decision(d)' = Decision(d)
        \/ \E c \in Calls : TicketOpened(c) /\ OpenTicket(c) /\ c = d
        \/ \E c \in Calls, decision \in {"approved", "denied"} :
              TicketDecided(c, decision) /\ ResolveApproval(c, decision) /\ c = d
    BY <1>1 DEF TicketStep, TicketOpened, TicketDecided, Decision, Id, DistinctIds
  <1>5. CASE \E c \in Calls : TicketOpened(c) /\ OpenTicket(c) /\ c = d
    BY <1>2, <1>5
  <1>6. CASE \E c \in Calls, decision \in {"approved", "denied"} :
                TicketDecided(c, decision) /\ ResolveApproval(c, decision) /\ c = d
    BY <1>3, <1>6 DEF ConsentInv
  <1>7. CASE Decision(d)' = Decision(d)
    <2>1. CASE stage'[d] = stage[d]
      BY <1>7, <2>1, GateKept DEF ConsentInv
    <2>2. CASE <<stage[d], stage'[d]>> \in Advances
      <3>1. stage'[d] # "unused" /\ (stage'[d] = "listed" => stage[d] = "unused")
            /\ (stage'[d] = "requested" => stage[d] = "listed")
            /\ (stage'[d] \in Runs => stage[d] \in Runs)
        BY <2>2 DEF Advances
      <3> QED BY <1>7, <3>1 DEF ConsentInv
    <2>3. CASE AllowCall(d)
      <3>1. stage'[d] = "runnable" /\ stage[d] = "requested" /\ gate[d] \in {"outside", "approved"}
        BY <2>3 DEF AllowCall, Typed, TypeOK
      <3>2. Decision(d) \in {"none", "approved"}
        BY <3>1 DEF ConsentInv, GateInv, Outcomes
      <3> QED BY <1>7, <3>1, <3>2
    <2>4. CASE StartCall(d)
      <3>1. stage[d] = "runnable"
        BY <2>4 DEF StartCall, First, InStage
      <3>2. stage'[d] \in {"runnable", "started"}
        <4>1. PICK progress : progress = [stage EXCEPT ![d] = "started"]
          OBVIOUS
        <4>2. Emit("ToolStarted", {d}, NoMsg, pc, progress)
          BY <2>4, <4>1 DEF StartCall
        <4>3. stage' = progress \/ Unwind
          BY <4>2, EmitOutcomes
        <4> QED BY <3>1, <4>1, <4>3, DroppedAdvances
                DEF Unwind, StagesAdvance, Advances, Typed, TypeOK
      <3> QED BY <1>7, <3>1, <3>2 DEF ConsentInv
    <2>5. ASSUME NEW c \in Calls, c # d, AllowCall(c) \/ StartCall(c)
          PROVE  stage'[d] = stage[d] \/ <<stage[d], stage'[d]>> \in Advances
      <3>1. CASE AllowCall(c)
        BY <2>5, <3>1 DEF AllowCall, Typed, TypeOK
      <3>2. CASE StartCall(c)
        <4>1. PICK progress : progress = [stage EXCEPT ![c] = "started"]
          OBVIOUS
        <4>2. Emit("ToolStarted", {c}, NoMsg, pc, progress)
          BY <3>2, <4>1 DEF StartCall
        <4>3. stage' = progress \/ Unwind
          BY <4>2, EmitOutcomes
        <4> QED BY <2>5, <4>1, <4>3, DroppedAdvances DEF Unwind, StagesAdvance, Typed, TypeOK
      <3> QED BY <2>5, <3>1, <3>2
    <2> QED BY <2>1, <2>2, <2>3, <2>4, <2>5, StepEffects DEF StagesAdvance
  <1> QED BY <1>4, <1>5, <1>6, <1>7

\* A tool runs only after its tool.started, and, where the driver names every call of
\* the turn differently, only if nobody was asked about it or the answer was yes.
THEOREM EffectsHaveConsent == DistinctIds => (Spec => []ConsentBeforeEffect)
  <1> SUFFICES ASSUME DistinctIds PROVE Spec => []ConsentBeforeEffect
    OBVIOUS
  <1>1. Init => StartedInv /\ ConsentInv
    BY DEF Init, StartedInv, ConsentInv, Decision, CallIds
  <1>2. TypeInv /\ StartedInv /\ ConsentInv /\ [Next]_vars => (StartedInv /\ ConsentInv)'
    <2> SUFFICES ASSUME Typed, GateInv, StartedInv, ConsentInv, [Next]_vars
                 PROVE  (StartedInv /\ ConsentInv)'
      BY DEF TypeInv
    <2>1. CASE UNCHANGED vars
      BY <2>1 DEF vars, durable, memory, task, StartedInv, ConsentInv, Decision, Id, CallsIn
    <2>2. CASE Next
      BY <2>2, StartedKept, ConsentKept
    <2> QED BY <2>1, <2>2
  <1>3. StartedInv /\ ConsentInv => ConsentBeforeEffect
    BY DEF StartedInv, ConsentInv, ConsentBeforeEffect, InJoinSet
  <1> QED BY <1>1, <1>2, <1>3, TypeInvariant, PTL DEF Spec

\* An approval the gate passes on was given to the call that waits for it, where the
\* driver names every call of the turn differently.
THEOREM ApprovalsAreForTheCall == DistinctIds => (Spec => []ApprovedForItself)
  <1> SUFFICES ASSUME DistinctIds PROVE Spec => []ApprovedForItself
    OBVIOUS
  <1>1. TypeInv => ApprovedForItself
    <2> SUFFICES ASSUME Typed, GateInv, NEW c \in Calls, gate[c] = "approved"
                 PROVE  c \in CallsIn({"ApprovalResolved"})
      BY DEF TypeInv, ApprovedForItself
    <2>1. OnRecord("ApprovalResolved", Id(c))
      BY DEF GateInv, Outcomes
    <2>2. PICK i \in DOMAIN log : log[i].kind = "ApprovalResolved" /\ Id(c) \in IdsOf(log[i].calls)
      BY <2>1 DEF OnRecord
    <2>3. log[i].calls \in SUBSET Calls
      <3>1. log[i] \in Event
        BY DEF Typed, TypeOK
      <3> QED BY <3>1 DEF Event
    <2>4. c \in log[i].calls
      BY <2>2, <2>3 DEF IdsOf, DistinctIds
    <2> QED BY <2>2, <2>4 DEF CallsIn
  <1> QED BY <1>1, TypeInvariant, PTL

-----------------------------------------------------------------------------
(* Every call has one result *)

\* Where the loop is tells how far the calls of the turn can be.
StagesAt(point) ==
    CASE point = "gating" -> {"unused", "listed", "requested", "runnable", "settled"}
      [] point = "dispatching" -> {"unused", "runnable", "started", "settled"}
      [] point \in {"joining", "grace"} -> {"unused", "executing", "ok", "failed", "settled"}
      [] point = "closing" -> {"unused", "aborted", "settled"}
      [] point \in {"erred", "ended"} -> Stages \ {"executing", "ok", "failed"}
      [] OTHER -> {"unused", "settled"}
BatchInv == \A c \in Calls : stage[c] \in StagesAt(pc)

LEMMA UnwindBatch ==
    ASSUME Typed, Unwind
    PROVE  BatchInv'
  BY DEF Unwind, Dropped, InJoinSet, BatchInv, StagesAt, Typed, TypeOK, Stages

LEMMA EmitBatch ==
    ASSUME Typed, NEW kind, NEW calls, NEW msg, NEW next, NEW progress,
           Emit(kind, calls, msg, next, progress), \A c \in Calls : progress[c] \in StagesAt(next)
    PROVE  BatchInv'
  <1>1. CASE Unwind
    BY <1>1, UnwindBatch
  <1>2. CASE pc' = next /\ stage' = progress
    BY <1>2 DEF BatchInv
  <1> QED BY <1>1, <1>2, EmitOutcomes

LEMMA LoopStepBatch ==
    ASSUME Typed, BatchInv, LoopStep
    PROVE  BatchInv'
  <1>1. ASSUME RegisterRun \/ SpawnRun \/ LoadHistory \/ BeginTurn \/ StreamInterrupted \/ DrainLast
        PROVE  BatchInv'
    BY <1>1 DEF RegisterRun, SpawnRun, LoadHistory, BeginTurn, StreamInterrupted, DrainLast,
                EndIteration, Move, BatchInv, StagesAt
  <1>2. ASSUME EndGating
        PROVE  BatchInv'
    BY <1>2 DEF EndGating, InStage, Move, BatchInv, StagesAt
  <1>3. ASSUME SpawnTools
        PROVE  BatchInv'
    BY <1>3 DEF SpawnTools, InStage, BatchInv, StagesAt
  <1>4. ASSUME FinishBatch
        PROVE  BatchInv'
    BY <1>4 DEF FinishBatch, EndIteration, InJoinSet, Move, BatchInv, StagesAt
  <1>5. ASSUME NoticeCancel \/ CancelBatch
        PROVE  BatchInv'
    BY <1>5 DEF NoticeCancel, CancelBatch, InStage, Move, BatchInv, StagesAt
  <1>6. ASSUME SettleError
        PROVE  BatchInv'
    BY <1>6 DEF SettleError, BatchInv, StagesAt
  <1>7. ASSUME StreamUndeliverable
        PROVE  BatchInv'
    BY <1>7, UnwindBatch DEF StreamUndeliverable
  <1>8. ASSUME StartLoop \/ RecordPrompt \/ CompleteRun \/ FinishFailed \/ FinishCancelled
        PROVE  BatchInv'
    <2>1. PICK kind \in Kinds, msg \in {Prompt, NoMsg},
               next \in {"prompting", "failing", "turn", "ended"} :
             Emit(kind, {}, msg, next, stage)
      BY <1>8 DEF StartLoop, RecordPrompt, CompleteRun, FinishFailed, FinishCancelled, Kinds,
                  TerminalKinds
    <2>2. \A c \in Calls : stage[c] \in {"unused", "settled"}
      BY <1>8 DEF StartLoop, RecordPrompt, CompleteRun, FinishFailed, FinishCancelled,
                  BatchInv, StagesAt
    <2>3. \A c \in Calls : stage[c] \in StagesAt(next)
      BY <2>2 DEF StagesAt, Stages
    <2> QED BY <2>1, <2>3, EmitBatch
  <1> QED BY <1>1, <1>2, <1>3, <1>4, <1>5, <1>6, <1>7, <1>8 DEF LoopStep

LEMMA CallStepBatch ==
    ASSUME Typed, BatchInv, NEW c \in Calls, CallStep(c)
    PROVE  BatchInv'
  <1>0. stage \in [Calls -> Stages]
    BY DEF Typed, TypeOK
  <1>1. ASSUME NEW s, NEW kind, Emit(kind, {c}, NoMsg, pc, [stage EXCEPT ![c] = s]),
               s \in StagesAt(pc)
        PROVE  BatchInv'
    <2>1. PICK progress : progress = [stage EXCEPT ![c] = s]
      OBVIOUS
    <2>2. PICK next : next = pc
      OBVIOUS
    <2>3. \A d \in Calls : progress[d] \in StagesAt(next)
      BY <1>0, <1>1, <2>1, <2>2 DEF BatchInv
    <2>4. Emit(kind, {c}, NoMsg, next, progress)
      BY <1>1, <2>1, <2>2
    <2> QED BY <2>3, <2>4, EmitBatch
  <1>2. ASSUME RequestCall(c) \/ RefuseCall(c) \/ StartCall(c) \/ JoinTool(c) \/ CloseCall(c)
        PROVE  BatchInv'
    <2>1. \E s \in {"requested", "settled", "started"}, kind \in Kinds :
             s \in StagesAt(pc) /\ Emit(kind, {c}, NoMsg, pc, [stage EXCEPT ![c] = s])
      BY <1>2 DEF RequestCall, RefuseCall, StartCall, JoinTool, CloseCall, StagesAt, Kinds,
                  ResultKinds
    <2> QED BY <1>1, <2>1
  <1>3. ASSUME AllowCall(c)
        PROVE  BatchInv'
    BY <1>0, <1>3 DEF AllowCall, BatchInv, StagesAt
  <1>4. ASSUME GateFails(c)
        PROVE  BatchInv'
    BY <1>4, UnwindBatch DEF GateFails
  <1> QED BY <1>2, <1>3, <1>4 DEF CallStep

LEMMA OtherBatch ==
    ASSUME Typed, BatchInv,
           \/ \E c \in Calls : GateStep(c)
           \/ EndGrace \/ HandlerStep \/ ModelStep \/ CancelRun \/ LinkBreaks \/ Finished
           \/ \E c \in Calls : Timer(c) \/ ToolStep(c) \/ UserStep(c)
           \/ \E m \in Steers : SteerRun(m)
    PROVE  BatchInv'
  <1>0. stage \in [Calls -> Stages]
    BY DEF Typed, TypeOK
  <1>1. ASSUME UNCHANGED <<pc, stage>>
        PROVE  BatchInv'
    BY <1>1 DEF BatchInv
  <1>2. ASSUME NEW c \in Calls, pc' = pc, stage[c] = "executing",
               stage' = [stage EXCEPT ![c] = "ok"] \/ stage' = [stage EXCEPT ![c] = "failed"]
        PROVE  BatchInv'
    <2>1. pc \in {"joining", "grace"}
      BY <1>2 DEF BatchInv, StagesAt
    <2> QED BY <1>0, <1>2, <2>1 DEF BatchInv, StagesAt
  <1>3. ASSUME NEW c \in Calls, GateStep(c)
        PROVE  BatchInv'
    <2>1. CASE AnswerQuestion(c)
      BY <1>2, <2>1 DEF AnswerQuestion
    <2>2. CASE ~AnswerQuestion(c)
      BY <1>1, <1>3, <2>2 DEF GateStep, OpenTicket, RegisterWaiter, Announce, Recheck,
                              ReceiveDecision, GateCancelled, LeaveGate
    <2> QED BY <2>1, <2>2
  <1>4. ASSUME EndGrace
        PROVE  BatchInv'
    BY <1>4 DEF EndGrace, Dropped, InJoinSet, BatchInv, StagesAt
  <1>5. ASSUME HandlerStep \/ CancelRun \/ LinkBreaks \/ Finished \/ \E m \in Steers : SteerRun(m)
        PROVE  BatchInv'
    BY <1>1, <1>5 DEF HandlerStep, SignalCancel, CloseConnection, NotifyWaiter, CancelRun,
                      LinkBreaks, Finished, SteerRun, vars, task
  <1>6. ASSUME ModelFails
        PROVE  BatchInv'
    BY <1>6 DEF ModelFails, Move, BatchInv, StagesAt
  <1>7. ASSUME NEW asked \in SUBSET InStage({"unused"}), ModelAnswers(asked)
        PROVE  BatchInv'
    <2>1. PICK progress : progress = [c \in Calls |-> IF c \in asked THEN "listed" ELSE stage[c]]
      OBVIOUS
    <2>2. PICK next : next = IF asked = {} THEN "finishing" ELSE "gating"
      OBVIOUS
    <2>3. Emit("AssistantItem", asked, NoMsg, next, progress)
      BY <1>7, <2>1, <2>2 DEF ModelAnswers
    <2>4. \A c \in Calls : progress[c] \in StagesAt(next)
      <3>1. \A c \in Calls : stage[c] \in {"unused", "settled"}
        BY <1>7 DEF ModelAnswers, BatchInv, StagesAt
      <3> QED BY <2>1, <2>2, <3>1 DEF StagesAt
    <2> QED BY <2>3, <2>4, EmitBatch
  <1>8. ASSUME NEW c \in Calls, Timer(c) \/ ToolStep(c) \/ UserStep(c)
        PROVE  BatchInv'
    <2>1. CASE UserStep(c)
      BY <1>1, <2>1 DEF UserStep, ResolveApproval, task
    <2>2. CASE ToolStep(c)
      BY <1>2, <2>2 DEF ToolStep, FinishTool
    <2>3. CASE Timer(c)
      <3>1. ~Expires(c)
        BY DEF Expires, RequestId, TicketId
      <3> QED BY <1>1, <1>2, <2>3, <3>1 DEF Timer, QuestionTimesOut, QuestionGivesUp, AbandonQuestion
    <2> QED BY <1>8, <2>1, <2>2, <2>3
  <1> QED BY <1>3, <1>4, <1>5, <1>6, <1>7, <1>8 DEF ModelStep

\* A call has one result at most.
Once ==
    \A c \in Calls : \A i, j \in DOMAIN log :
        /\ log[i].kind \in ResultKinds /\ c \in log[i].calls
        /\ log[j].kind \in ResultKinds /\ c \in log[j].calls
        => i = j

ListKinds == {"AssistantItem", "ToolRequested"}
Working == pc \notin {"erred", "ended"}

\* As long as the run is live and its loop works, the log and the loop agree about
\* what was listed and what has its result.
Tracked ==
    ~Terminal /\ Working
       => \A c \in Calls : /\ c \in CallsIn(ResultKinds) <=> stage[c] = "settled"
                           /\ c \in CallsIn(ListKinds) <=> stage[c] # "unused"

\* A run ends with every call it listed answered.
Closed == Terminal => PendingCalls = {}

AnsweredInv == Once /\ Tracked /\ Closed

SameAnswers == \A c \in Calls : /\ stage'[c] = "settled" <=> stage[c] = "settled"
                                /\ stage'[c] = "unused" <=> stage[c] = "unused"

LEMMA KeptAnswers ==
    ASSUME AnsweredInv, Kept, Working' => Working /\ SameAnswers
    PROVE  AnsweredInv'
  <1>1. /\ CallsIn(ResultKinds)' = CallsIn(ResultKinds) /\ CallsIn(ListKinds)' = CallsIn(ListKinds)
        /\ PendingCalls' = PendingCalls /\ (Terminal' <=> Terminal)
    BY DEF Kept, CallsIn, PendingCalls, Terminal
  <1>2. Once'
    BY DEF AnsweredInv, Once, Kept
  <1>3. Tracked'
    BY <1>1 DEF AnsweredInv, Tracked, SameAnswers
  <1> QED BY <1>1, <1>2, <1>3 DEF AnsweredInv, Closed

LEMMA CallsAfterAppend ==
    ASSUME Typed, NEW kind \in Kinds, NEW calls \in SUBSET Calls, NEW msg,
           Grown(kind, calls, msg), NEW kinds
    PROVE  CallsIn(kinds)' = CallsIn(kinds) \cup (IF kind \in kinds THEN calls ELSE {})
  <1>1. log' = Append(log, Ev(kind, calls, msg)) /\ log \in Seq(Named)
    BY DEF Grown, Append1, Typed
  <1>2. /\ DOMAIN log = 1..Len(log) /\ Len(log) \in Nat
        /\ DOMAIN log' = 1..(Len(log) + 1) /\ log'[Len(log) + 1] = Ev(kind, calls, msg)
        /\ \A i \in 1..Len(log) : log'[i] = log[i]
    BY <1>1
  <1>3. \A c : c \in CallsIn(kinds)' <=> c \in CallsIn(kinds) \/ (kind \in kinds /\ c \in calls)
    <2> TAKE c
    <2>1. c \in CallsIn(kinds) <=> \E i \in 1..Len(log) : log[i].kind \in kinds /\ c \in log[i].calls
      BY <1>2 DEF CallsIn
    <2>2. c \in CallsIn(kinds)'
            <=> \E i \in 1..(Len(log) + 1) : log'[i].kind \in kinds /\ c \in log'[i].calls
      BY <1>2 DEF CallsIn
    <2>3. Ev(kind, calls, msg).kind = kind /\ Ev(kind, calls, msg).calls = calls
      BY DEF Ev
    <2>4. \A i : i \in 1..(Len(log) + 1) <=> i \in 1..Len(log) \/ i = Len(log) + 1
      BY <1>2
    <2> QED BY <1>2, <2>1, <2>2, <2>3, <2>4
  <1> QED BY <1>3

LEMMA OnceOnAppend ==
    ASSUME Typed, Once, NEW kind \in Kinds, NEW calls \in SUBSET Calls, NEW msg,
           Grown(kind, calls, msg),
           kind \in ResultKinds => calls \cap CallsIn(ResultKinds) = {}
    PROVE  Once'
  <1>1. log' = Append(log, Ev(kind, calls, msg)) /\ log \in Seq(Named)
    BY DEF Grown, Append1, Typed
  <1>2. /\ DOMAIN log = 1..Len(log) /\ Len(log) \in Nat
        /\ DOMAIN log' = 1..(Len(log) + 1) /\ log'[Len(log) + 1] = Ev(kind, calls, msg)
        /\ \A i \in 1..Len(log) : log'[i] = log[i]
    BY <1>1
  <1>3. \A i : i \in 1..(Len(log) + 1) <=> i \in 1..Len(log) \/ i = Len(log) + 1
    BY <1>2
  <1>4. Ev(kind, calls, msg).kind = kind /\ Ev(kind, calls, msg).calls = calls
    BY DEF Ev
  <1>5. SUFFICES ASSUME NEW c \in Calls, NEW i \in DOMAIN log', NEW j \in DOMAIN log',
                        log'[i].kind \in ResultKinds /\ c \in log'[i].calls,
                        log'[j].kind \in ResultKinds /\ c \in log'[j].calls
                 PROVE  i = j
    BY DEF Once
  <1>6. \A k \in 1..Len(log) : log[k].kind \in ResultKinds /\ c \in log[k].calls
                                  => c \in CallsIn(ResultKinds)
    BY <1>2 DEF CallsIn
  <1>7. CASE i \in 1..Len(log) /\ j \in 1..Len(log)
    BY <1>2, <1>5, <1>7 DEF Once
  <1>8. CASE i \in 1..Len(log) /\ j = Len(log) + 1
    BY <1>2, <1>4, <1>5, <1>6, <1>8
  <1>9. CASE j \in 1..Len(log) /\ i = Len(log) + 1
    BY <1>2, <1>4, <1>5, <1>6, <1>9
  <1> QED BY <1>2, <1>3, <1>7, <1>8, <1>9

\* An event that is neither a listing, nor a result, nor an end.
LEMMA PlainAnswers ==
    ASSUME Typed, AnsweredInv, NEW kind \in {"UserItem", "ApprovalRequired", "ApprovalResolved"},
           NEW calls \in SUBSET Calls, NEW msg, Grown(kind, calls, msg),
           Working' => Working /\ SameAnswers
    PROVE  AnsweredInv'
  <1>1. kind \in Kinds /\ kind \notin ResultKinds /\ kind \notin ListKinds
    BY DEF Kinds, ResultKinds, ListKinds
  <1>2. CallsIn(ResultKinds)' = CallsIn(ResultKinds) /\ CallsIn(ListKinds)' = CallsIn(ListKinds)
    <2>1. /\ CallsIn(ResultKinds)' = CallsIn(ResultKinds) \cup (IF kind \in ResultKinds THEN calls ELSE {})
          /\ CallsIn(ListKinds)' = CallsIn(ListKinds) \cup (IF kind \in ListKinds THEN calls ELSE {})
      BY <1>1, CallsAfterAppend
    <2> QED BY <1>1, <2>1
  <1>3. Once'
    BY <1>1, OnceOnAppend DEF AnsweredInv
  <1>4. ~Terminal /\ ~Terminal'
    BY DEF Grown, Append1, EventStatus, Terminal
  <1> QED BY <1>2, <1>3, <1>4 DEF AnsweredInv, Tracked, Closed, SameAnswers

LEMMA EmitAnswers ==
    ASSUME Typed, AnsweredInv, Working, NEW kind \in Kinds, NEW calls \in SUBSET Calls,
           NEW msg, NEW next, NEW progress, Emit(kind, calls, msg, next, progress),
           kind \in ResultKinds => \A c \in calls : stage[c] # "settled",
           kind \in TerminalKinds => \A c \in Calls : stage[c] \in {"unused", "settled"},
           \A c \in Calls :
              /\ progress[c] = "settled" <=> stage[c] = "settled" \/ (kind \in ResultKinds /\ c \in calls)
              /\ progress[c] # "unused" <=> stage[c] # "unused" \/ (kind \in ListKinds /\ c \in calls)
    PROVE  AnsweredInv'
  <1>1. CASE Grown(kind, calls, msg)
    <2>1. ~Terminal /\ status' = EventStatus(kind)
      BY <1>1 DEF Grown, Append1
    <2>2. \A c \in Calls : /\ c \in CallsIn(ResultKinds) <=> stage[c] = "settled"
                           /\ c \in CallsIn(ListKinds) <=> stage[c] # "unused"
      BY <2>1 DEF AnsweredInv, Tracked
    <2>3. Once'
      BY <1>1, <2>2, OnceOnAppend DEF AnsweredInv
    <2>4. /\ CallsIn(ResultKinds)' = CallsIn(ResultKinds) \cup (IF kind \in ResultKinds THEN calls ELSE {})
          /\ CallsIn(ListKinds)' = CallsIn(ListKinds) \cup (IF kind \in ListKinds THEN calls ELSE {})
      BY <1>1, CallsAfterAppend
    <2>5. Tracked'
      <3>1. CASE Unwind
        BY <3>1 DEF Unwind, Tracked, Working
      <3>2. CASE stage' = progress
        BY <2>2, <2>4, <3>2 DEF Tracked
      <3> QED BY <3>1, <3>2, EmitOutcomes
    <2>6. Closed'
      <3>1. CASE kind \in TerminalKinds
        <4>1. kind \notin ResultKinds /\ kind \notin ListKinds
          BY <3>1 DEF TerminalKinds, ResultKinds, ListKinds
        <4>2. \A c \in Calls : c \in CallsIn(ListKinds) => c \in CallsIn(ResultKinds)
          BY <2>2, <3>1
        <4>3. CallsIn(ListKinds) \ CallsIn(ResultKinds) = {}
          BY <4>2, PendingFinite DEF Typed, PendingCalls, ListKinds
        <4> QED BY <2>4, <4>1, <4>3 DEF Closed, PendingCalls, ListKinds
      <3>2. CASE kind \notin TerminalKinds
        BY <2>1, <3>2 DEF EventStatus, TerminalKinds, Closed, Terminal
      <3> QED BY <3>1, <3>2
    <2> QED BY <2>3, <2>5, <2>6 DEF AnsweredInv
  <1>2. CASE Kept
    <2>1. CASE Unwind
      BY <1>2, <2>1, KeptAnswers DEF Unwind, Working
    <2>2. CASE AlreadyStored(kind, calls)
      <3>1. Terminal /\ Terminal'
        BY <1>2, <2>2 DEF AlreadyStored, Terminal, Kept
      <3>2. PendingCalls' = PendingCalls /\ Once'
        BY <1>2 DEF Kept, PendingCalls, CallsIn, AnsweredInv, Once
      <3> QED BY <3>1, <3>2 DEF AnsweredInv, Tracked, Closed
    <2> QED BY <1>1, <2>1, <2>2, EmitOutcomes
  <1> QED BY <1>1, <1>2, EmitOutcomes

\* A cancel answers what is pending, each call once.
LEMMA CancelAnswers ==
    ASSUME Typed, AnsweredInv, AcceptCancel
    PROVE  AnsweredInv'
  <1>1. PICK P : P = PendingCalls
    OBVIOUS
  <1>2. PICK F \in Seq(Named) : F = Failures
    BY FailuresTyped DEF Typed
  <1>3. PICK E : E = Ev("RunCancelled", {}, NoMsg)
    OBVIOUS
  <1>4. PICK Nth : \A k \in 1..Len(F) : Nth[k] = NthOf(P, k)
    <2>1. \A k \in 1..Len(F) : [j \in 1..Len(F) |-> NthOf(P, j)][k] = NthOf(P, k)
      OBVIOUS
    <2> QED BY <2>1
  <1>5. /\ \A k \in 1..Len(F) : F[k] = Ev("ToolFailed", {Nth[k]}, NoMsg) /\ Nth[k] \in P
        /\ \A c \in P : \E k \in 1..Len(F) : Nth[k] = c
    BY <1>1, <1>2, <1>4, FailuresTyped DEF Typed
  <1>6. \A k, j \in 1..Len(F) : Nth[k] = Nth[j] => k = j
    <2> TAKE k, j \in 1..Len(F)
    <2>1. Rank(P, Nth[k]) = k /\ Rank(P, Nth[j]) = j
      BY <1>1, <1>2, <1>4, FailuresTyped DEF Typed
    <2> QED BY <2>1
  <1>7. E \in Named /\ E.kind = "RunCancelled" /\ E.calls = {}
    BY <1>3, CancelTyped DEF Ev, Named, Event, Kinds, TerminalKinds
  <1>8. log' = log \o (F \o <<E>>) /\ log \in Seq(Named) /\ status' = "cancelled"
    BY <1>2, <1>3, CancelTyped DEF Typed
  <1>9. PICK n \in Nat, m \in Nat : n = Len(log) /\ m = Len(F)
    BY <1>2, <1>8
  <1>10. /\ DOMAIN log = 1..n /\ DOMAIN log' = 1..(n + m + 1)
         /\ \A i \in 1..n : log'[i] = log[i]
         /\ \A k \in 1..m : log'[n + k] = F[k]
         /\ log'[n + m + 1] = E
    <2>1. F \o <<E>> \in Seq(Named) /\ Len(F \o <<E>>) = m + 1
          /\ (\A k \in 1..m : (F \o <<E>>)[k] = F[k]) /\ (F \o <<E>>)[m + 1] = E
      BY <1>2, <1>7, <1>9
    <2>2. PICK G \in Seq(Named) : G = F \o <<E>>
      BY <2>1
    <2>3. Len(log \o G) = n + m + 1 /\ log \o G \in Seq(Named)
          /\ (\A i \in 1..n : (log \o G)[i] = log[i])
          /\ \A k \in 1..(m + 1) : (log \o G)[n + k] = G[k]
      BY <1>8, <1>9, <2>1, <2>2
    <2> QED BY <1>8, <1>9, <2>1, <2>2, <2>3
  <1>11. \A i \in 1..(n + m + 1) :
            \/ i \in 1..n
            \/ \E k \in 1..m : i = n + k
            \/ i = n + m + 1
    <2> TAKE i \in 1..(n + m + 1)
    <2>1. CASE i > n /\ i <= n + m
      <3>1. i - n \in 1..m /\ i = n + (i - n)
        BY <2>1
      <3> QED BY <3>1
    <2> QED BY <2>1
  <1>12. \A k \in 1..m : log'[n + k].kind = "ToolFailed" /\ log'[n + k].calls = {Nth[k]} /\ Nth[k] \in P
    <2> TAKE k \in 1..m
    <2>1. log'[n + k] = F[k]
      BY <1>10
    <2>2. F[k] = Ev("ToolFailed", {Nth[k]}, NoMsg) /\ Nth[k] \in P
      BY <1>5, <1>9
    <2>3. F[k].kind = "ToolFailed" /\ F[k].calls = {Nth[k]}
      BY <2>2 DEF Ev
    <2> QED BY <2>1, <2>2, <2>3
  <1>13. \A c \in P : c \notin CallsIn(ResultKinds)
    BY <1>1 DEF PendingCalls
  <1>14. Once'
    <2> SUFFICES ASSUME NEW c \in Calls, NEW i \in 1..(n + m + 1), NEW j \in 1..(n + m + 1),
                        log'[i].kind \in ResultKinds /\ c \in log'[i].calls,
                        log'[j].kind \in ResultKinds /\ c \in log'[j].calls
                 PROVE  i = j
      BY <1>10 DEF Once
    <2>1. \A k \in 1..n : log'[k].kind \in ResultKinds /\ c \in log'[k].calls => c \notin P
      <3> SUFFICES ASSUME NEW k \in 1..n, log'[k].kind \in ResultKinds, c \in log'[k].calls
                   PROVE  c \notin P
        OBVIOUS
      <3>1. k \in DOMAIN log /\ log[k].kind \in ResultKinds /\ c \in log[k].calls
        BY <1>10
      <3>2. c \in CallsIn(ResultKinds)
        BY <3>1 DEF CallsIn
      <3> QED BY <1>13, <3>2
    <2>2. \A k \in 1..m : c \in log'[n + k].calls => c = Nth[k] /\ c \in P
      BY <1>12
    <2>3. c \notin log'[n + m + 1].calls
      BY <1>7, <1>10
    <2>4. CASE i \in 1..n /\ j \in 1..n
      BY <1>10, <2>4 DEF AnsweredInv, Once
    <2>5. ASSUME NEW k \in 1..m, i = n + k, NEW l \in 1..m, j = n + l
          PROVE  i = j
      BY <1>6, <1>9, <2>2, <2>5
    <2> QED BY <1>11, <2>1, <2>2, <2>3, <2>4, <2>5
  <1>15. PendingCalls' = {}
    <2>1. \A c : c \in CallsIn(ListKinds)' => c \in CallsIn(ListKinds)
      <3> SUFFICES ASSUME NEW c, NEW i \in 1..(n + m + 1), log'[i].kind \in ListKinds, c \in log'[i].calls
                   PROVE  c \in CallsIn(ListKinds)
        BY <1>10 DEF CallsIn
      <3>1. i \in 1..n
        BY <1>7, <1>10, <1>11, <1>12 DEF ListKinds
      <3> QED BY <1>10, <3>1 DEF CallsIn
    <2>2. \A c \in CallsIn(ResultKinds) : c \in CallsIn(ResultKinds)'
      <3> SUFFICES ASSUME NEW c, NEW i \in 1..n, log[i].kind \in ResultKinds, c \in log[i].calls
                   PROVE  c \in CallsIn(ResultKinds)'
        BY <1>10 DEF CallsIn
      <3>1. i \in DOMAIN log' /\ log'[i] = log[i]
        BY <1>10
      <3> QED BY <3>1 DEF CallsIn
    <2>3. \A c \in P : c \in CallsIn(ResultKinds)'
      <3> TAKE c \in P
      <3>1. PICK k \in 1..m : Nth[k] = c
        BY <1>5, <1>9
      <3>2. n + k \in DOMAIN log' /\ log'[n + k].kind = "ToolFailed" /\ c \in log'[n + k].calls
        BY <1>10, <1>12, <3>1
      <3> QED BY <3>2 DEF CallsIn, ResultKinds
    <2> QED BY <1>1, <2>1, <2>2, <2>3 DEF PendingCalls, ListKinds
  <1>16. Terminal'
    BY <1>8 DEF Terminal
  <1> QED BY <1>14, <1>15, <1>16 DEF AnsweredInv, Tracked, Closed

LEMMA LoopStepAnswers ==
    ASSUME Typed, BatchInv, AnsweredInv, LoopStep
    PROVE  AnsweredInv'
  <1> USE DEF durable
  <1>1. ASSUME \/ RegisterRun \/ SpawnRun \/ EndGating \/ NoticeCancel \/ CancelBatch
               \/ StreamInterrupted \/ LoadHistory \/ BeginTurn \/ DrainLast \/ FinishBatch
        PROVE  AnsweredInv'
    <2>1. Kept /\ UNCHANGED stage /\ Working
      BY <1>1 DEF RegisterRun, SpawnRun, EndGating, NoticeCancel, CancelBatch, StreamInterrupted,
                  LoadHistory, BeginTurn, DrainLast, FinishBatch, EndIteration, Move, Kept, Working
    <2> QED BY <2>1, KeptAnswers DEF SameAnswers
  <1>2. ASSUME StartLoop \/ CompleteRun \/ FinishFailed \/ FinishCancelled \/ RecordPrompt
        PROVE  AnsweredInv'
    <2>1. PICK kind \in {"RunStarted", "UserItem"} \cup TerminalKinds, msg \in {Prompt, NoMsg}, next \in Points :
             Emit(kind, {}, msg, next, stage)
      BY <1>2 DEF StartLoop, CompleteRun, FinishFailed, FinishCancelled, RecordPrompt, TerminalKinds, Points
    <2>2. kind \in Kinds /\ kind \notin ResultKinds /\ kind \notin ListKinds
      BY DEF Kinds, TerminalKinds, ResultKinds, ListKinds
    <2>3. Working /\ \A c \in Calls : stage[c] \in {"unused", "settled"}
      BY <1>2 DEF StartLoop, CompleteRun, FinishFailed, FinishCancelled, RecordPrompt, Working,
                  BatchInv, StagesAt
    <2> QED BY <2>1, <2>2, <2>3, EmitAnswers
  <1>3. ASSUME StreamUndeliverable
        PROVE  AnsweredInv'
    BY <1>3, KeptAnswers DEF StreamUndeliverable, Unwind, Working, Kept
  <1>4. ASSUME SettleError
        PROVE  AnsweredInv'
    BY <1>4, KeptAnswers, CancelAnswers DEF SettleError, Working, Kept
  <1>5. ASSUME SpawnTools
        PROVE  AnsweredInv'
    BY <1>5, KeptAnswers DEF SpawnTools, Working, Kept, SameAnswers, Typed, TypeOK
  <1> QED BY <1>1, <1>2, <1>3, <1>4, <1>5 DEF LoopStep

LEMMA CallStepAnswers ==
    ASSUME Typed, BatchInv, AnsweredInv, NEW c \in Calls, CallStep(c)
    PROVE  AnsweredInv'
  <1>0. stage \in [Calls -> Stages]
    BY DEF Typed, TypeOK
  <1>1. ASSUME NEW s, NEW kind \in Kinds, Emit(kind, {c}, NoMsg, pc, [stage EXCEPT ![c] = s]),
               Working, stage[c] \notin {"settled", "unused"}, s # "unused",
               kind \in ResultKinds <=> s = "settled", kind \notin TerminalKinds
        PROVE  AnsweredInv'
    <2>1. PICK progress : progress = [stage EXCEPT ![c] = s]
      OBVIOUS
    <2>2. PICK next : next = pc
      OBVIOUS
    <2>3. Emit(kind, {c}, NoMsg, next, progress) /\ {c} \in SUBSET Calls
      BY <1>1, <2>1, <2>2
    <2>4. \A d \in Calls :
             /\ progress[d] = "settled" <=> stage[d] = "settled" \/ (kind \in ResultKinds /\ d \in {c})
             /\ progress[d] # "unused" <=> stage[d] # "unused" \/ (kind \in ListKinds /\ d \in {c})
      BY <1>0, <1>1, <2>1
    <2> QED BY <1>1, <2>3, <2>4, EmitAnswers
  <1>2. ASSUME RequestCall(c) \/ RefuseCall(c) \/ StartCall(c) \/ JoinTool(c) \/ CloseCall(c)
        PROVE  AnsweredInv'
    <2>1. \E s \in {"requested", "settled", "started"}, kind \in Kinds :
             /\ Emit(kind, {c}, NoMsg, pc, [stage EXCEPT ![c] = s])
             /\ kind \in ResultKinds <=> s = "settled"
             /\ kind \notin TerminalKinds
      BY <1>2 DEF RequestCall, RefuseCall, StartCall, JoinTool, CloseCall, Kinds,
                  ResultKinds, TerminalKinds
    <2>2. Working /\ stage[c] \notin {"settled", "unused"}
      BY <1>2 DEF RequestCall, RefuseCall, StartCall, JoinTool, CloseCall, First, InStage, Working
    <2> QED BY <1>1, <2>1, <2>2
  <1>3. ASSUME AllowCall(c)
        PROVE  AnsweredInv'
    <2>1. Kept /\ Working /\ SameAnswers
      BY <1>0, <1>3 DEF AllowCall, durable, Kept, Working, SameAnswers
    <2> QED BY <2>1, KeptAnswers
  <1>4. ASSUME GateFails(c)
        PROVE  AnsweredInv'
    BY <1>4, KeptAnswers DEF GateFails, Unwind, Working, Kept, durable
  <1> QED BY <1>2, <1>3, <1>4 DEF CallStep

LEMMA OtherAnswers ==
    ASSUME Typed, BatchInv, AnsweredInv,
           \/ \E c \in Calls : GateStep(c)
           \/ EndGrace \/ HandlerStep \/ ModelStep \/ CancelRun \/ LinkBreaks \/ Finished
           \/ \E c \in Calls : Timer(c) \/ ToolStep(c) \/ UserStep(c)
           \/ \E m \in Steers : SteerRun(m)
    PROVE  AnsweredInv'
  <1> USE DEF durable, task
  <1>0. stage \in [Calls -> Stages]
    BY DEF Typed, TypeOK
  <1>1. ASSUME Kept, UNCHANGED pc, SameAnswers
        PROVE  AnsweredInv'
    BY <1>1, KeptAnswers DEF Working
  <1>2. ASSUME NEW c \in Calls, stage[c] = "executing",
               stage' = [stage EXCEPT ![c] = "ok"] \/ stage' = [stage EXCEPT ![c] = "failed"]
        PROVE  SameAnswers
    BY <1>0, <1>2 DEF SameAnswers
  <1>3. ASSUME NEW c \in Calls, GateStep(c)
        PROVE  AnsweredInv'
    <2>1. CASE AnswerQuestion(c)
      BY <1>1, <1>2, <2>1 DEF AnswerQuestion, Kept
    <2>2. CASE OpenTicket(c)
      <3>1. UNCHANGED <<pc, stage>> /\ (Kept \/ Grown("ApprovalRequired", {c}, NoMsg))
        BY <2>2 DEF OpenTicket, Kept, Grown, Accepts
      <3>2. SameAnswers /\ (Working' => Working)
        BY <3>1 DEF SameAnswers, Working
      <3> QED BY <3>1, <3>2, KeptAnswers, PlainAnswers
    <2>3. CASE ~AnswerQuestion(c) /\ ~OpenTicket(c)
      <3>1. UNCHANGED <<pc, stage>> /\ Kept
        BY <1>3, <2>3 DEF GateStep, RegisterWaiter, Announce, Recheck, ReceiveDecision,
                          GateCancelled, LeaveGate, Kept
      <3> QED BY <1>1, <3>1 DEF SameAnswers
    <2> QED BY <2>1, <2>2, <2>3
  <1>4. ASSUME EndGrace
        PROVE  AnsweredInv'
    <2>1. Kept /\ SameAnswers /\ Working
      BY <1>0, <1>4 DEF EndGrace, Dropped, InJoinSet, Kept, SameAnswers, Working
    <2> QED BY <2>1, KeptAnswers
  <1>5. ASSUME HandlerStep \/ LinkBreaks \/ Finished
        PROVE  AnsweredInv'
    <2>1. Kept /\ UNCHANGED <<pc, stage>>
      BY <1>5 DEF HandlerStep, SignalCancel, CloseConnection, NotifyWaiter, LinkBreaks, Finished,
                  vars, Kept
    <2> QED BY <1>1, <2>1 DEF SameAnswers
  <1>6. ASSUME CancelRun
        PROVE  AnsweredInv'
    BY <1>6, CancelAnswers DEF CancelRun
  <1>7. ASSUME ModelFails
        PROVE  AnsweredInv'
    <2>1. Kept /\ UNCHANGED stage /\ Working
      BY <1>7 DEF ModelFails, Move, Kept, Working
    <2> QED BY <2>1, KeptAnswers DEF SameAnswers
  <1>8. ASSUME NEW asked \in SUBSET InStage({"unused"}), ModelAnswers(asked)
        PROVE  AnsweredInv'
    <2>1. PICK progress : progress = [c \in Calls |-> IF c \in asked THEN "listed" ELSE stage[c]]
      OBVIOUS
    <2>2. PICK next : Emit("AssistantItem", asked, NoMsg, next, progress)
      BY <1>8, <2>1 DEF ModelAnswers
    <2>3. Working /\ asked \in SUBSET Calls /\ \A c \in asked : stage[c] = "unused"
      BY <1>8 DEF ModelAnswers, Working, InStage
    <2>4. "AssistantItem" \in Kinds /\ "AssistantItem" \in ListKinds
          /\ "AssistantItem" \notin ResultKinds /\ "AssistantItem" \notin TerminalKinds
      BY DEF Kinds, ListKinds, ResultKinds, TerminalKinds
    <2>5. \A c \in Calls : /\ progress[c] = "settled" <=> stage[c] = "settled"
                           /\ progress[c] # "unused" <=> stage[c] # "unused" \/ c \in asked
      BY <2>1, <2>3
    <2> QED BY <2>2, <2>3, <2>4, <2>5, EmitAnswers
  <1>9. ASSUME NEW c \in Calls, Timer(c) \/ ToolStep(c)
        PROVE  AnsweredInv'
    <2>1. CASE ToolStep(c)
      BY <1>1, <1>2, <2>1 DEF ToolStep, FinishTool, Kept
    <2>2. CASE Timer(c)
      <3>1. ~Expires(c)
        BY DEF Expires, RequestId, TicketId
      <3>2. Kept /\ UNCHANGED pc
        BY <2>2, <3>1 DEF Timer, QuestionTimesOut, QuestionGivesUp, AbandonQuestion, Kept
      <3>3. SameAnswers
        BY <1>0, <2>2, <3>1 DEF Timer, QuestionTimesOut, QuestionGivesUp, AbandonQuestion,
                                SameAnswers
      <3> QED BY <1>1, <3>2, <3>3
    <2> QED BY <1>9, <2>1, <2>2
  <1>10. ASSUME NEW c \in Calls, UserStep(c)
         PROVE  AnsweredInv'
    <2>1. UNCHANGED <<pc, stage>> /\ Grown("ApprovalResolved", {c}, NoMsg)
      BY <1>10 DEF UserStep, ResolveApproval, Grown, Accepts
    <2> QED BY <2>1, PlainAnswers DEF SameAnswers, Working
  <1>11. ASSUME NEW m \in Steers, SteerRun(m)
         PROVE  AnsweredInv'
    <2>1. UNCHANGED <<pc, stage>> /\ Grown("UserItem", {}, m)
      BY <1>11 DEF SteerRun, Grown, Accepts
    <2> QED BY <2>1, PlainAnswers DEF SameAnswers, Working
  <1> QED BY <1>3, <1>4, <1>5, <1>6, <1>7, <1>8, <1>9, <1>10, <1>11 DEF ModelStep

\* No call ever has two results, and whenever the model is asked again, and once the
\* run has ended, every call it listed has one.
THEOREM CallsGetOneAnswer == Spec => []CallsAnsweredOnce
  <1>1. Init => BatchInv /\ AnsweredInv
    <2> SUFFICES ASSUME Init PROVE BatchInv /\ AnsweredInv
      OBVIOUS
    <2>1. DOMAIN log = {}
      BY DEF Init
    <2>2. \A kinds : CallsIn(kinds) = {}
      BY <2>1 DEF CallsIn
    <2> QED BY <2>1, <2>2 DEF Init, BatchInv, StagesAt, AnsweredInv, Once, Tracked, Closed, Terminal
  <1>2. TypeInv /\ BatchInv /\ AnsweredInv /\ [Next]_vars => (BatchInv /\ AnsweredInv)'
    <2> SUFFICES ASSUME Typed, BatchInv, AnsweredInv, [Next]_vars
                 PROVE  (BatchInv /\ AnsweredInv)'
      BY DEF TypeInv
    <2>1. CASE UNCHANGED vars
      <3>1. Kept /\ UNCHANGED <<pc, stage>>
        BY <2>1 DEF vars, durable, task, Kept
      <3> QED BY <3>1, KeptAnswers DEF SameAnswers, Working, BatchInv
    <2>2. CASE Next
      <3>1. BatchInv'
        BY <2>2, NextSplit, LoopStepBatch, CallStepBatch, OtherBatch
      <3>2. AnsweredInv'
        BY <2>2, NextSplit, LoopStepAnswers, CallStepAnswers, OtherAnswers
      <3> QED BY <3>1, <3>2
    <2> QED BY <2>1, <2>2
  <1>3. TypeInv /\ BatchInv /\ AnsweredInv => CallsAnsweredOnce
    <2> SUFFICES ASSUME Typed, BatchInv, AnsweredInv PROVE CallsAnsweredOnce
      BY DEF TypeInv
    <2>1. ASSUME NEW c \in Calls
          PROVE  Cardinality(ResultsOf(c)) <= 1
      <3>1. ResultsOf(c) = {} \/ \E i \in ResultsOf(c) : ResultsOf(c) = {i}
        BY DEF ResultsOf, AnsweredInv, Once
      <3>2. PICK R : R = ResultsOf(c)
        OBVIOUS
      <3>3. CASE R = {}
        BY <3>2, <3>3, FS_EmptySet
      <3>4. ASSUME NEW i, R = {i}
            PROVE  Cardinality(ResultsOf(c)) <= 1
        <4>1. Cardinality({i}) = 1
          BY FS_Singleton
        <4> QED BY <3>2, <3>4, <4>1
      <3> QED BY <3>1, <3>2, <3>3, <3>4
    <2>2. ASSUME Terminal \/ pc \in {"turn", "streaming"}
          PROVE  PendingCalls = {}
      <3>1. CASE Terminal
        BY <3>1 DEF AnsweredInv, Closed
      <3>2. CASE ~Terminal
        <4>1. \A c \in Calls : stage[c] \in {"unused", "settled"}
          BY <2>2, <3>2 DEF BatchInv, StagesAt
        <4>2. \A c \in Calls : c \in CallsIn(ListKinds) => c \in CallsIn(ResultKinds)
          BY <2>2, <3>2, <4>1 DEF AnsweredInv, Tracked, Working
        <4> QED BY <4>2, PendingFinite DEF Typed, PendingCalls, ListKinds
      <3> QED BY <3>1, <3>2
    <2> QED BY <2>1, <2>2 DEF CallsAnsweredOnce
  <1> QED BY <1>1, <1>2, <1>3, TypeInvariant, PTL DEF Spec

-----------------------------------------------------------------------------
(* Steers *)

\* Moving a set of numbers up does not change its size.
LEMMA ShiftedSize ==
    ASSUME NEW S \in SUBSET Nat, IsFiniteSet(S), NEW n \in Nat
    PROVE  IsFiniteSet({n + j : j \in S}) /\ Cardinality({n + j : j \in S}) = Cardinality(S)
  <1> DEFINE T == {n + j : j \in S}
             f == [j \in S |-> n + j]
  <1>1. f \in Bijection(S, T)
    <2>1. f \in [S -> T]
      OBVIOUS
    <2>2. \A i, j \in S : f[i] = f[j] => i = j
      OBVIOUS
    <2>3. \A x \in T : \E j \in S : f[j] = x
      OBVIOUS
    <2> HIDE DEF f, T
    <2> QED BY <2>1, <2>2, <2>3 DEF Bijection, Injection, Surjection, IsInjective
  <1> HIDE DEF f, T
  <1>2. ExistsBijection(S, T)
    BY <1>1 DEF ExistsBijection
  <1>3. IsFiniteSet(T) /\ Cardinality(T) = Cardinality(S)
    BY <1>2, FS_Bijection
  <1> QED BY <1>3 DEF T

\* The size of a set and a set above it.
LEMMA StackedSize ==
    ASSUME NEW n \in Nat, NEW A \in SUBSET (1..n), NEW S \in SUBSET (Nat \ {0}), IsFiniteSet(S)
    PROVE  /\ IsFiniteSet(A) /\ IsFiniteSet(A \cup {n + j : j \in S})
           /\ Cardinality(A \cup {n + j : j \in S}) = Cardinality(A) + Cardinality(S)
  <1>1. PICK T : T = {n + j : j \in S}
    OBVIOUS
  <1>2. IsFiniteSet(T) /\ Cardinality(T) = Cardinality(S)
    <2>1. S \in SUBSET Nat
      OBVIOUS
    <2> QED BY <1>1, <2>1, ShiftedSize
  <1>3. IsFiniteSet(A)
    <2>1. IsFiniteSet(1..n)
      BY FS_Interval
    <2> QED BY <2>1, FS_Subset
  <1>4. A \cap T = {}
    <2>1. \A j \in S : n + j \notin 1..n
      OBVIOUS
    <2> QED BY <1>1, <2>1
  <1>5. Cardinality(A) \in Nat /\ Cardinality(S) \in Nat /\ Cardinality(A \cap T) = 0
    BY <1>3, <1>4, FS_CardinalityType, FS_EmptySet
  <1>6. IsFiniteSet(A \cup T) /\ Cardinality(A \cup T) = Cardinality(A) + Cardinality(T) - Cardinality(A \cap T)
    BY <1>2, <1>3, FS_Union
  <1> QED BY <1>1, <1>2, <1>3, <1>5, <1>6

\* What the two pieces of a joined sequence are in the whole, and how a sequence is cut.
LEMMA JoinedLog ==
    ASSUME NEW s \in Seq(Named), NEW t \in Seq(Named), NEW u, u = s \o t
    PROVE  /\ u \in Seq(Named) /\ Len(u) = Len(s) + Len(t)
           /\ \A i \in 1..Len(s) : u[i] = s[i]
           /\ \A j \in 1..Len(t) : u[Len(s) + j] = t[j]
  OBVIOUS

LEMMA JoinedSteers ==
    ASSUME NEW s \in Seq(Steers), NEW t \in Seq(Steers), NEW u, u = s \o t
    PROVE  /\ u \in Seq(Steers) /\ Len(u) = Len(s) + Len(t)
           /\ \A i \in 1..Len(s) : u[i] = s[i]
           /\ \A j \in 1..Len(t) : u[Len(s) + j] = t[j]
  OBVIOUS

LEMMA CutLog ==
    ASSUME NEW l \in Seq(Named), NEW c \in 0..Len(l)
    PROVE  /\ SubSeq(l, 1, c) \in Seq(Named) /\ SubSeq(l, c + 1, Len(l)) \in Seq(Named)
           /\ SubSeq(l, 1, c) \o SubSeq(l, c + 1, Len(l)) = l
  <1>1. PICK n \in Nat : n = Len(l)
    OBVIOUS
  <1>2. c \in Nat /\ c <= n /\ n - c \in Nat /\ \A i \in 1..n : l[i] \in Named
    BY <1>1
  <1>3. PICK s, t : s = SubSeq(l, 1, c) /\ t = SubSeq(l, c + 1, n)
    OBVIOUS
  <1>4. s \in Seq(Named) /\ Len(s) = c /\ \A i \in 1..c : s[i] = l[i]
    <2>1. \A i \in 1..c : l[i] \in Named
      BY <1>2
    <2> QED BY <1>2, <1>3, <2>1
  <1>5. t \in Seq(Named) /\ Len(t) = n - c /\ \A j \in 1..(n - c) : t[j] = l[c + j]
    <2>1. \A i \in (c + 1)..n : l[i] \in Named
      BY <1>2
    <2>2. PICK d \in Int : d = c + 1
      BY <1>2
    <2>3. PICK w : w = SubSeq(l, d, n)
      OBVIOUS
    <2>4. /\ w \in Seq(Named) /\ Len(w) = IF d <= n THEN n - d + 1 ELSE 0
          /\ \A j \in 1..(n - d + 1) : w[j] = l[d + j - 1]
      BY <2>1, <2>2, <2>3, SubSeqProperties
    <2>5. n - d + 1 = n - c /\ Len(w) = n - c
      BY <1>2, <2>2, <2>4
    <2>6. \A j \in 1..(n - c) : w[j] = l[c + j]
      <3> TAKE j \in 1..(n - c)
      <3>1. d + j - 1 = c + j /\ j \in 1..(n - d + 1)
        BY <1>2, <2>2
      <3> QED BY <2>4, <3>1
    <2>7. w = t
      BY <1>3, <2>2, <2>3
    <2> QED BY <2>4, <2>5, <2>6, <2>7
  <1>6. PICK u : u = s \o t
    OBVIOUS
  <1>7. u \in Seq(Named) /\ Len(u) = n
        /\ (\A i \in 1..c : u[i] = s[i]) /\ \A j \in 1..(n - c) : u[c + j] = t[j]
    <2>1. /\ u \in Seq(Named) /\ Len(u) = Len(s) + Len(t)
          /\ \A i \in 1..Len(s) : u[i] = s[i]
          /\ \A j \in 1..Len(t) : u[Len(s) + j] = t[j]
      <3>1. s \in Seq(Named) /\ t \in Seq(Named)
        BY <1>4, <1>5
      <3> QED BY <1>6, <3>1, JoinedLog
    <2> QED BY <1>2, <1>4, <1>5, <2>1
  <1>8. ASSUME NEW i \in 1..n
        PROVE  u[i] = l[i]
    <2>1. CASE i \in 1..c
      BY <1>4, <1>7, <2>1
    <2>2. CASE i \notin 1..c
      <3>1. PICK j \in 1..(n - c) : i = c + j
        <4>1. i - c \in 1..(n - c) /\ i = c + (i - c)
          BY <1>2, <2>2
        <4> QED BY <4>1
      <3> QED BY <1>5, <1>7, <3>1
    <2> QED BY <2>1, <2>2
  <1>9. u = l
    <2>1. Len(u) = Len(l) /\ \A i \in 1..Len(u) : u[i] = l[i]
      BY <1>1, <1>7, <1>8
    <2> QED BY <1>7, <2>1, SeqEqual
  <1> QED BY <1>1, <1>3, <1>4, <1>5, <1>6, <1>9

\* The steers of two pieces of a log, one after the other.
LEMMA SteersConcat ==
    ASSUME NEW s \in Seq(Named), NEW t \in Seq(Named)
    PROVE  SteersIn(s \o t) = SteersIn(s) \o SteersIn(t)
  <1>1. PICK n \in Nat, m \in Nat : n = Len(s) /\ m = Len(t)
    OBVIOUS
  <1>2. PICK u : u = s \o t
    OBVIOUS
  <1>3. u \in Seq(Named) /\ Len(u) = n + m
        /\ (\A i \in 1..n : u[i] = s[i]) /\ \A j \in 1..m : u[n + j] = t[j]
    BY <1>1, <1>2, JoinedLog
  <1>4. PICK A, B, C : A = SteersAt(s) /\ B = SteersAt(t) /\ C = SteersAt(u)
    OBVIOUS
  <1>5. /\ A \in SUBSET (1..n) /\ IsFiniteSet(A) /\ A \in SUBSET Nat
        /\ B \in SUBSET (1..m) /\ IsFiniteSet(B) /\ B \in SUBSET Nat /\ B \in SUBSET (Nat \ {0})
        /\ C \in SUBSET (1..(n + m)) /\ IsFiniteSet(C) /\ C \in SUBSET Nat
    BY <1>1, <1>3, <1>4, SteersTyped
  <1>6. C = A \cup {n + j : j \in B}
    <2>1. \A i \in 1..n : i \in C <=> i \in A
      BY <1>1, <1>2, <1>3, <1>4 DEF SteersAt, IsSteer
    <2>2. \A j \in 1..m : n + j \in C <=> j \in B
      BY <1>1, <1>2, <1>3, <1>4 DEF SteersAt, IsSteer
    <2>3. \A i \in 1..(n + m) : i \in 1..n \/ (i - n \in 1..m /\ i = n + (i - n))
      OBVIOUS
    <2>4. ASSUME NEW i \in C
          PROVE  i \in A \cup {n + j : j \in B}
      BY <1>5, <2>1, <2>2, <2>3
    <2>5. A \subseteq C /\ \A j \in B : n + j \in C
      BY <1>5, <2>1, <2>2
    <2> QED BY <2>4, <2>5
  <1>7. PICK a \in Nat, b \in Nat : a = Cardinality(A) /\ b = Cardinality(B)
    BY <1>5, FS_CardinalityType
  <1>8. Cardinality(C) = a + b
    BY <1>5, <1>6, <1>7, StackedSize
  <1>9. ASSUME NEW k \in 1..a
        PROVE  NthOf(A, k) \in A /\ NthOf(C, k) = NthOf(A, k)
    <2>1. PICK x \in A : x = NthOf(A, k) /\ Rank(A, x) = k
      BY <1>5, <1>7, NthOfCounts
    <2>2. {y \in C : y <= x} = {y \in A : y <= x}
      <3>1. \A j \in B : ~(n + j <= x)
        BY <1>5
      <3> QED BY <1>6, <3>1
    <2>3. Rank(C, x) = k /\ x \in C
      BY <1>6, <2>1, <2>2 DEF Rank
    <2>4. NthOf(C, Rank(C, x)) = x
      BY <1>5, <2>3, NthOfCounts
    <2> QED BY <2>1, <2>3, <2>4
  <1>10. ASSUME NEW l \in 1..b
         PROVE  NthOf(B, l) \in B /\ NthOf(C, a + l) = n + NthOf(B, l)
    <2>1. PICK j \in B : j = NthOf(B, l) /\ Rank(B, j) = l
      BY <1>5, <1>7, NthOfCounts
    <2>2. PICK S : S = {i \in B : i <= j}
      OBVIOUS
    <2>3. S \in SUBSET (Nat \ {0}) /\ S \in SUBSET B /\ IsFiniteSet(S) /\ Cardinality(S) = l
      <3>1. S \in SUBSET B
        BY <2>2
      <3>2. IsFiniteSet(S)
        BY <1>5, <3>1, FS_Subset
      <3> QED BY <1>5, <2>1, <2>2, <3>1, <3>2 DEF Rank
    <2>4. {y \in C : y <= n + j} = A \cup {n + i : i \in S}
      <3>1. \A x \in A : x <= n + j
        BY <1>5
      <3>2. \A i \in B : n + i <= n + j <=> i <= j
        BY <1>5
      <3>3. ASSUME NEW y \in C, y <= n + j
            PROVE  y \in A \cup {n + i : i \in S}
        <4>1. CASE \E i \in B : y = n + i
          <5>1. PICK i \in B : y = n + i
            BY <4>1
          <5>2. i \in S
            BY <2>2, <3>2, <3>3, <5>1
          <5> QED BY <5>1, <5>2
        <4> QED BY <1>6, <4>1
      <3>4. \A i \in S : i \in B /\ i <= j
        BY <2>2
      <3>5. A \subseteq C /\ \A i \in S : n + i \in C /\ n + i <= n + j
        BY <1>6, <3>2, <3>4
      <3> QED BY <3>1, <3>3, <3>5
    <2>5. Cardinality(A \cup {n + i : i \in S}) = a + l
      BY <1>5, <1>7, <2>3, StackedSize
    <2>6. Rank(C, n + j) = a + l /\ n + j \in C
      BY <1>6, <2>4, <2>5 DEF Rank
    <2>7. NthOf(C, Rank(C, n + j)) = n + j
      BY <1>5, <2>6, NthOfCounts
    <2> QED BY <2>1, <2>6, <2>7
  <1>11. PICK p \in Seq(Steers), q \in Seq(Steers), r \in Seq(Steers) :
            p = SteersIn(s) /\ q = SteersIn(t) /\ r = SteersIn(u)
    BY <1>3, SteersTyped
  <1>12. /\ Len(p) = a /\ Len(q) = b /\ Len(r) = a + b
         /\ \A k \in 1..a : p[k] = s[NthOf(A, k)].msg
         /\ \A l \in 1..b : q[l] = t[NthOf(B, l)].msg
         /\ \A k \in 1..(a + b) : r[k] = u[NthOf(C, k)].msg
    <2>1. Len(p) = a /\ Len(q) = b /\ Len(r) = a + b
      BY <1>3, <1>4, <1>7, <1>8, <1>11, SteersTyped
    <2>2. p = [k \in 1..a |-> s[NthOf(A, k)].msg] /\ q = [l \in 1..b |-> t[NthOf(B, l)].msg]
          /\ r = [k \in 1..(a + b) |-> u[NthOf(C, k)].msg]
      BY <1>4, <1>7, <1>8, <1>11 DEF SteersIn
    <2> QED BY <2>1, <2>2
  <1>13. \A k \in 1..a : r[k] = p[k]
    <2> TAKE k \in 1..a
    <2>1. k \in 1..(a + b)
      BY <1>7
    <2>2. NthOf(A, k) \in 1..n /\ NthOf(C, k) = NthOf(A, k)
      BY <1>5, <1>9
    <2>3. r[k] = u[NthOf(C, k)].msg /\ p[k] = s[NthOf(A, k)].msg
      BY <1>12, <2>1
    <2>4. u[NthOf(A, k)] = s[NthOf(A, k)]
      BY <1>3, <2>2
    <2> QED BY <2>2, <2>3, <2>4, Zenon
  <1>14. \A l \in 1..b : r[a + l] = q[l]
    <2> TAKE l \in 1..b
    <2>1. a + l \in 1..(a + b)
      BY <1>7
    <2>2. NthOf(B, l) \in 1..m /\ NthOf(C, a + l) = n + NthOf(B, l)
      BY <1>5, <1>10
    <2>3. r[a + l] = u[NthOf(C, a + l)].msg /\ q[l] = t[NthOf(B, l)].msg
      BY <1>12, <2>1
    <2>4. u[n + NthOf(B, l)] = t[NthOf(B, l)]
      BY <1>3, <2>2
    <2> QED BY <2>2, <2>3, <2>4
  <1>15. PICK w : w = p \o q
    OBVIOUS
  <1>16. /\ w \in Seq(Steers) /\ Len(w) = a + b
         /\ \A k \in 1..a : w[k] = p[k]
         /\ \A l \in 1..b : w[a + l] = q[l]
    <2>1. /\ w \in Seq(Steers) /\ Len(w) = Len(p) + Len(q)
          /\ \A k \in 1..Len(p) : w[k] = p[k]
          /\ \A l \in 1..Len(q) : w[Len(p) + l] = q[l]
      BY <1>15, JoinedSteers
    <2> QED BY <1>12, <2>1
  <1>17. ASSUME NEW k \in 1..(a + b)
         PROVE  r[k] = w[k]
    <2>1. CASE k \in 1..a
      BY <1>13, <1>16, <2>1
    <2>2. CASE k \notin 1..a
      <3>1. PICK l \in 1..b : k = a + l
        <4>1. k - a \in 1..b /\ k = a + (k - a)
          BY <1>7, <2>2
        <4> QED BY <4>1
      <3> QED BY <1>14, <1>16, <3>1
    <2> QED BY <2>1, <2>2
  <1>18. r = w
    <2>1. Len(r) = Len(w) /\ \A k \in 1..Len(r) : r[k] = w[k]
      BY <1>12, <1>16, <1>17
    <2> QED BY <1>16, <2>1, SeqEqual
  <1> QED BY <1>2, <1>11, <1>15, <1>18

SteersInv == steerCursor \in 0..Len(log) /\ SteersInOrder

LEMMA SteersKept ==
    ASSUME Typed, SteersInv, LogStep, UNCHANGED <<delivered, steerCursor>>
    PROVE  SteersInv'
  <1>1. PICK c \in Nat : c = steerCursor
    BY DEF Typed, TypeOK
  <1>2. c <= Len(log) /\ log \in Seq(Named) /\ log' \in Seq(Named) /\ Len(log') >= Len(log)
        /\ \A i \in 1..Len(log) : log'[i] = log[i]
    BY <1>1, LogGrows DEF SteersInv, Typed
  <1>3. SubSeq(log', 1, c) = SubSeq(log, 1, c)
    BY <1>2
  <1>4. delivered = SteersIn(SubSeq(log, 1, c))
    BY <1>1 DEF SteersInv, SteersInOrder
  <1>5. steerCursor' = c /\ delivered' = SteersIn(SubSeq(log', 1, c))
    BY <1>1, <1>3, <1>4
  <1>6. c \in 0..Len(log')
    BY <1>2
  <1> QED BY <1>5, <1>6 DEF SteersInv, SteersInOrder

\* A loop that has read the whole log.
LEMMA SteersAllRead ==
    ASSUME Typed, log' = log, delivered' = SteersIn(log), steerCursor' = Len(log)
    PROVE  SteersInv'
  <1>1. PICK l \in Seq(Named) : l = log
    BY DEF Typed
  <1>2. SubSeq(l, 1, Len(l)) = l /\ Len(l) \in 0..Len(l)
    BY SubSeqFull
  <1>3. log' = l /\ delivered' = SteersIn(l) /\ steerCursor' = Len(l)
    BY <1>1
  <1>4. steerCursor' \in 0..Len(log') /\ delivered' = SteersIn(SubSeq(log', 1, steerCursor'))
    BY <1>2, <1>3
  <1> QED BY <1>4 DEF SteersInv, SteersInOrder

LEMMA SteersRead ==
    ASSUME Typed, SteersInv, LoadHistory \/ (DrainSteers /\ UNCHANGED log)
    PROVE  SteersInv'
  <1>1. log' = log
    BY DEF LoadHistory, Move, durable
  <1>2. CASE LoadHistory
    BY <1>1, <1>2, SteersAllRead DEF LoadHistory
  <1>3. CASE DrainSteers
    <2>0. PICK l \in Seq(Named) : l = log
      BY DEF Typed
    <2>1. PICK c \in 0..Len(l) : l = log /\ c = steerCursor
      BY <2>0 DEF SteersInv
    <2>2. PICK s, t : s = SubSeq(l, 1, c) /\ t = SubSeq(l, c + 1, Len(l))
      OBVIOUS
    <2>3. s \in Seq(Named) /\ t \in Seq(Named) /\ s \o t = l
      BY <2>2, CutLog
    <2>4. SteersIn(s \o t) = SteersIn(s) \o SteersIn(t)
      BY <2>3, SteersConcat
    <2>5. delivered = SteersIn(s) /\ NewSteers = SteersIn(t)
      BY <2>1, <2>2 DEF SteersInv, SteersInOrder, NewSteers
    <2>6. delivered' = delivered \o NewSteers /\ steerCursor' = Len(log)
      BY <1>3 DEF DrainSteers
    <2>7. delivered' = SteersIn(log)
      BY <2>1, <2>3, <2>4, <2>5, <2>6
    <2> QED BY <1>1, <2>6, <2>7, SteersAllRead
  <1> QED BY <1>2, <1>3

\* What the steps of the loop do to its reading of the log.
LEMMA SteerSteps ==
    ASSUME Next
    PROVE  \/ UNCHANGED <<delivered, steerCursor>>
           \/ LoadHistory
           \/ DrainSteers /\ UNCHANGED log
  <1> USE DEF durable, memory, task
  <1>1. ASSUME LoopStep
        PROVE  \/ UNCHANGED <<delivered, steerCursor>>
               \/ LoadHistory
               \/ DrainSteers /\ UNCHANGED log
    BY <1>1 DEF LoopStep, RegisterRun, SpawnRun, StartLoop, RecordPrompt, BeginTurn,
                StreamInterrupted, StreamUndeliverable, DrainLast, CompleteRun, FinishFailed,
                FinishCancelled, SettleError, EndGating, SpawnTools, FinishBatch, NoticeCancel,
                CancelBatch, EndIteration, Move, Emit
  <1>2. ASSUME NEW c \in Calls, CallStep(c)
        PROVE  UNCHANGED <<delivered, steerCursor>>
    BY <1>2 DEF CallStep, RequestCall, RefuseCall, AllowCall, GateFails, StartCall, JoinTool,
                CloseCall, Emit
  <1>3. ASSUME NEW c \in Calls, GateStep(c)
        PROVE  UNCHANGED <<delivered, steerCursor>>
    BY <1>3 DEF GateStep, OpenTicket, RegisterWaiter, Announce, Recheck, ReceiveDecision,
                GateCancelled, LeaveGate, AnswerQuestion
  <1>4. ASSUME NEW c \in Calls, Timer(c) \/ ToolStep(c) \/ UserStep(c)
        PROVE  UNCHANGED <<delivered, steerCursor>>
    BY <1>4 DEF Timer, QuestionTimesOut, QuestionGivesUp, AbandonQuestion, ToolStep, FinishTool,
                UserStep, ResolveApproval
  <1>5. ASSUME \/ EndGrace \/ HandlerStep \/ ModelStep \/ CancelRun \/ LinkBreaks \/ Finished
               \/ \E m \in Steers : SteerRun(m)
        PROVE  UNCHANGED <<delivered, steerCursor>>
    BY <1>5 DEF EndGrace, HandlerStep, SignalCancel, CloseConnection, NotifyWaiter, ModelStep,
                ModelFails, ModelAnswers, Move, Emit, CancelRun, LinkBreaks, Finished, SteerRun, vars
  <1> QED BY <1>1, <1>2, <1>3, <1>4, <1>5 DEF Next

\* The history the model sees holds every steer up to the cursor once, in the order
\* the clients' steers were accepted.
THEOREM SteersArriveInOrder == Spec => []SteersInOrder
  <1>1. Init => SteersInv
    <2> SUFFICES ASSUME Init PROVE SteersInv
      OBVIOUS
    <2>1. log = <<>> /\ SubSeq(log, 1, steerCursor) = <<>> /\ delivered = <<>>
      BY DEF Init
    <2>2. <<>> \in Seq(Named) /\ Len(<<>>) = 0
      OBVIOUS
    <2>3. SteersAt(<<>>) = {}
      BY DEF SteersAt
    <2>4. SteersIn(<<>>) \in Seq(Steers) /\ Len(SteersIn(<<>>)) = 0
      BY <2>2, <2>3, SteersTyped, FS_EmptySet
    <2>5. SteersIn(<<>>) = <<>>
      BY <2>4
    <2>6. steerCursor = 0 /\ Len(log) = 0
      BY <2>1, <2>2 DEF Init
    <2>7. SteersIn(SubSeq(log, 1, steerCursor)) = <<>>
      BY <2>1, <2>5
    <2>8. steerCursor \in 0..Len(log)
      BY <2>6
    <2> QED BY <2>1, <2>7, <2>8 DEF SteersInv, SteersInOrder
  <1>2. TypeInv /\ SteersInv /\ [Next]_vars => SteersInv'
    <2> SUFFICES ASSUME Typed, SteersInv, [Next]_vars PROVE SteersInv'
      BY DEF TypeInv
    <2>1. CASE UNCHANGED vars
      BY <2>1, SteersKept DEF vars, durable, task, LogStep, Kept
    <2>2. CASE Next
      BY <2>2, StepEffects, SteerSteps, SteersKept, SteersRead
    <2> QED BY <2>1, <2>2
  <1>3. SteersInv => SteersInOrder
    BY DEF SteersInv
  <1> QED BY <1>1, <1>2, <1>3, TypeInvariant, PTL DEF Spec

-----------------------------------------------------------------------------
(* The turn leads the life of a run *)

\* The promise of RunLifecycle about one run, of which the turn is all there is: its
\* row has begun when the turn does, so this life starts with an open run.
TurnLife == INSTANCE RunLifecycle WITH
    Ends   <- TerminalKinds,
    phase  <- [r \in {1} |-> IF Terminal THEN "closed" ELSE "open"],
    length <- [r \in {1} |-> Len(log)],
    log    <- [r \in {1} |-> {[seq |-> i, kind |-> log[i].kind] : i \in DOMAIN log}]

FollowsLifecycle ==
    /\ TurnLife!Begun = {1} /\ ~Terminal /\ log = <<>>
    /\ [][TurnLife!Next]_(TurnLife!lifecycle)

Lines == {[seq |-> i, kind |-> log[i].kind] : i \in DOMAIN log}

\* What a step that writes adds: events of which only the last ends the run.
Adds(new) ==
    /\ new \in Seq(Named) /\ Len(new) > 0 /\ ~Terminal /\ log' = log \o new
    /\ \A i \in 1..Len(new) : new[i].kind \in TerminalKinds => i = Len(new)
    /\ Terminal' <=> new[Len(new)].kind \in TerminalKinds

LEMMA LinesAdded ==
    ASSUME Typed, NEW new, Adds(new)
    PROVE  /\ Len(log) \in Nat /\ Len(new) \in Nat /\ Len(log') = Len(log) + Len(new)
           /\ Lines' = Lines \cup {[seq |-> Len(log) + i, kind |-> new[i].kind] : i \in 1..Len(new)}
           /\ \A e \in Lines : e.seq \in 1..Len(log)
  <1> DEFINE n == Len(log)
             m == Len(new)
             added == {[seq |-> n + i, kind |-> new[i].kind] : i \in 1..m}
  <1>1. log \in Seq(Named) /\ new \in Seq(Named) /\ n \in Nat /\ m \in Nat /\ log' = log \o new
    BY DEF Typed, Adds
  <1>2. /\ Len(log') = n + m /\ DOMAIN log = 1..n /\ DOMAIN log' = 1..(n + m)
        /\ \A i \in 1..n : log'[i] = log[i]
        /\ \A i \in 1..m : log'[n + i] = new[i]
    BY <1>1
  <1>3. \A e \in Lines : e.seq \in 1..n
    BY <1>2 DEF Lines
  <1>4. Lines \subseteq Lines'
    <2> SUFFICES ASSUME NEW i \in 1..n PROVE [seq |-> i, kind |-> log[i].kind] \in Lines'
      BY <1>2 DEF Lines
    <2>1. i \in DOMAIN log' /\ log'[i] = log[i]
      BY <1>1, <1>2
    <2> QED BY <2>1 DEF Lines
  <1>5. added \subseteq Lines'
    <2> SUFFICES ASSUME NEW i \in 1..m PROVE [seq |-> n + i, kind |-> new[i].kind] \in Lines'
      OBVIOUS
    <2>1. n + i \in DOMAIN log' /\ log'[n + i] = new[i]
      BY <1>1, <1>2
    <2> QED BY <2>1 DEF Lines
  <1>6. Lines' \subseteq Lines \cup added
    <2> SUFFICES ASSUME NEW i \in 1..(n + m)
                 PROVE  [seq |-> i, kind |-> log'[i].kind] \in Lines \cup added
      BY <1>2 DEF Lines
    <2>1. CASE i \in 1..n
      BY <1>2, <2>1 DEF Lines
    <2>2. CASE i \notin 1..n
      <3>1. i - n \in 1..m /\ i = n + (i - n)
        BY <1>1, <2>2
      <3>2. log'[i] = new[i - n]
        BY <1>2, <3>1
      <3>3. [seq |-> n + (i - n), kind |-> new[i - n].kind] \in added
        BY <3>1
      <3> QED BY <3>1, <3>2, <3>3
    <2> QED BY <2>1, <2>2
  <1> QED BY <1>1, <1>2, <1>3, <1>4, <1>5, <1>6

\* Such a step is a Write of the lifecycle.
LEMMA AddsWrites ==
    ASSUME Typed, NEW new, Adds(new)
    PROVE  TurnLife!Write(1)
  <1>1. PICK n \in Nat : n = Len(log)
    BY DEF Typed
  <1>2. PICK m \in Nat : m = Len(new) /\ m > 0
    BY DEF Adds
  <1>3. PICK added : added = {[seq |-> n + i, kind |-> new[i].kind] : i \in 1..m}
    OBVIOUS
  <1>4. Len(log') = n + m /\ Lines' = Lines \cup added /\ \A e \in Lines : e.seq \in 1..n
    BY <1>1, <1>2, <1>3, LinesAdded
  <1>5. \A i \in 1..m : n + i >= n + 1 /\ ~(n + i <= n)
    OBVIOUS
  <1>6. \A e \in added : e.seq >= n + 1 /\ ~(e.seq <= n)
    BY <1>3, <1>5
  <1>7. \A e \in Lines : e.seq <= n /\ ~(e.seq >= n + 1)
    BY <1>4
  <1>8. {e \in Lines' : e.seq <= n} = Lines /\ {e \in Lines' : e.seq >= n + 1} = added
    BY <1>4, <1>6, <1>7
  <1>9. {e.seq : e \in added} = (n + 1)..(n + m)
    <2>1. \A e \in added : e.seq \in (n + 1)..(n + m)
      BY <1>3
    <2>2. ASSUME NEW k \in (n + 1)..(n + m)
          PROVE  \E e \in added : e.seq = k
      <3>1. k - n \in 1..m /\ n + (k - n) = k
        OBVIOUS
      <3>2. [seq |-> n + (k - n), kind |-> new[k - n].kind] \in added
        BY <1>3, <3>1
      <3> QED BY <3>1, <3>2
    <2> QED BY <2>1, <2>2
  <1>10. \A e \in added : e.kind \in TerminalKinds => e.seq = n + m
    <2>1. \A i \in 1..m : new[i].kind \in TerminalKinds => i = m
      BY <1>2 DEF Adds
    <2> QED BY <1>3, <2>1
  <1>11. \A e, f \in added : e.seq = f.seq => e = f
    <2> SUFFICES ASSUME NEW i \in 1..m, NEW j \in 1..m, n + i = n + j PROVE i = j
      BY <1>3
    <2> QED OBVIOUS
  <1>12. ~Terminal /\ (Terminal' <=> \E e \in added : e.kind \in TerminalKinds)
    <2>1. ~Terminal /\ (Terminal' <=> new[m].kind \in TerminalKinds)
      BY <1>2 DEF Adds
    <2>2. [seq |-> n + m, kind |-> new[m].kind] \in added
      <3>1. m \in 1..m
        BY <1>2
      <3> QED BY <1>3, <3>1
    <2>3. ASSUME NEW e \in added, e.kind \in TerminalKinds
          PROVE  new[m].kind \in TerminalKinds
      <3>1. PICK i \in 1..m : e = [seq |-> n + i, kind |-> new[i].kind]
        BY <1>3
      <3>2. i = m
        BY <1>2, <2>3, <3>1 DEF Adds
      <3> QED BY <2>3, <3>1, <3>2
    <2> QED BY <2>1, <2>2, <2>3
  <1>13. n + m >= n + 1
    BY <1>2
  <1>14. /\ [r \in {1} |-> Len(log)][1] = n /\ [r \in {1} |-> Len(log)]'[1] = n + m
         /\ [r \in {1} |-> IF Terminal THEN "closed" ELSE "open"][1] = "open"
         /\ [r \in {1} |-> IF Terminal THEN "closed" ELSE "open"]'[1]
              = IF \E e \in added : e.kind \in TerminalKinds THEN "closed" ELSE "open"
         /\ [r \in {1} |-> {[seq |-> i, kind |-> log[i].kind] : i \in DOMAIN log}][1] = Lines
         /\ [r \in {1} |-> {[seq |-> i, kind |-> log[i].kind] : i \in DOMAIN log}]'[1] = Lines'
    BY <1>1, <1>4, <1>12 DEF Lines
  <1>15. TurnLife!Gains(1, n + 1)
    BY <1>8, <1>9, <1>10, <1>11, <1>13, <1>14 DEF TurnLife!Gains
  <1>16. TurnLife!Begun' = TurnLife!Begun /\ TurnLife!Kept(TurnLife!Begun \ {1})
    BY DEF TurnLife!Begun, TurnLife!Kept
  <1> QED BY <1>8, <1>14, <1>15, <1>16
          DEF TurnLife!Write, TurnLife!Gains, TurnLife!Kept, TurnLife!Begun

\* One event that the run takes.
LEMMA GrownAdds ==
    ASSUME Typed, NEW kind \in Kinds, NEW calls \in SUBSET Calls,
           NEW msg \in Steers \cup {Prompt, NoMsg}, kind = "UserItem" => msg # NoMsg,
           Grown(kind, calls, msg)
    PROVE  Adds(<<Ev(kind, calls, msg)>>)
  <1>1. PICK e \in Named : e = Ev(kind, calls, msg) /\ e.kind = kind
    BY NamedEvents DEF Ev
  <1>2. <<e>> \in Seq(Named) /\ Len(<<e>>) = 1 /\ <<e>>[1] = e
    OBVIOUS
  <1>3. ~Terminal /\ status' = EventStatus(kind) /\ log' = Append(log, e)
    BY <1>1 DEF Grown, Append1
  <1>4. log' = log \o <<e>>
    BY <1>3 DEF Typed
  <1>5. Terminal' <=> kind \in TerminalKinds
    BY <1>3 DEF EventStatus, Terminal, TerminalKinds
  <1> QED BY <1>1, <1>2, <1>3, <1>4, <1>5 DEF Adds

\* A cancel: the failures of the calls without a result, then the end.
LEMMA CancelAdds ==
    ASSUME Typed, AcceptCancel
    PROVE  Adds(Failures \o <<Ev("RunCancelled", {}, NoMsg)>>)
  <1>1. PICK e : e = Ev("RunCancelled", {}, NoMsg)
    OBVIOUS
  <1>2. PICK f \in Seq(Named) : f = Failures
    BY FailuresTyped DEF Typed
  <1>3. \A k \in 1..Len(f) : f[k].kind = "ToolFailed"
    <2>1. \A k \in 1..Len(f) : f[k] = Ev("ToolFailed", {NthOf(PendingCalls, k)}, NoMsg)
      BY <1>2, FailuresTyped DEF Typed
    <2>2. \A c : Ev("ToolFailed", {c}, NoMsg).kind = "ToolFailed"
      BY DEF Ev
    <2> QED BY <2>1, <2>2
  <1>4. e \in Named /\ e.kind \in TerminalKinds
    BY <1>1 DEF Ev, Named, Event, Kinds, TerminalKinds
  <1>5. PICK new : new = f \o <<e>>
    OBVIOUS
  <1>6. /\ new \in Seq(Named) /\ Len(new) = Len(f) + 1 /\ Len(f) \in Nat
        /\ new[Len(f) + 1] = e /\ \A k \in 1..Len(f) : new[k] = f[k]
    BY <1>4, <1>5
  <1>7. "ToolFailed" \notin TerminalKinds
    BY DEF TerminalKinds
  <1>8. \A k \in 1..Len(new) : new[k].kind \in TerminalKinds => k = Len(new)
    BY <1>3, <1>6, <1>7
  <1>9. log' = log \o new /\ status' = "cancelled" /\ ~Terminal
    BY <1>1, <1>2, <1>5, CancelTyped
  <1>10. Terminal'
    BY <1>9 DEF Terminal
  <1>11. Len(new) > 0 /\ new[Len(new)].kind \in TerminalKinds
    BY <1>4, <1>6
  <1>12. Adds(new)
    BY <1>6, <1>8, <1>9, <1>10, <1>11 DEF Adds
  <1> QED BY <1>1, <1>2, <1>5, <1>12

(* The turn implements the run of RunLifecycle: whatever its loop, its gate, its  *)
(* tools, a steer or a cancel writes goes to the end of an open log in one piece, *)
(* numbered on without a gap; the one event that ends the run is the last of it;  *)
(* and an ended run is written no more (append_event_tx, accept_cancel).          *)
THEOREM TurnFollowsLifecycle == Spec => FollowsLifecycle
  <1>1. Init => TurnLife!Begun = {1} /\ ~Terminal /\ log = <<>>
    BY DEF Init, Terminal, TurnLife!Begun
  <1>2. Typed /\ [Next]_vars => [TurnLife!Next]_(TurnLife!lifecycle)
    <2> SUFFICES ASSUME Typed, [Next]_vars PROVE [TurnLife!Next]_(TurnLife!lifecycle)
      OBVIOUS
    <2>1. ASSUME Kept
          PROVE  UNCHANGED TurnLife!lifecycle
      BY <2>1 DEF Kept, Terminal, TurnLife!lifecycle
    <2>2. ASSUME NEW new, Adds(new)
          PROVE  TurnLife!Next
      <3>1. TurnLife!Write(1)
        BY <2>2, AddsWrites
      <3>2. 1 \in TurnLife!Begun
        BY DEF TurnLife!Begun
      <3> QED BY <3>1, <3>2 DEF TurnLife!Next
    <2>3. CASE UNCHANGED vars
      <3>1. Kept
        BY <2>3 DEF vars, durable, Kept
      <3> QED BY <2>1, <3>1
    <2>4. CASE Next
      <3>1. LogStep
        BY <2>4, StepEffects
      <3>2. CASE Kept
        BY <2>1, <3>2
      <3>3. CASE AcceptCancel
        BY <2>2, <3>3, CancelAdds
      <3>4. ASSUME NEW kind \in Kinds, NEW calls \in SUBSET Calls,
                   NEW msg \in Steers \cup {Prompt, NoMsg}, kind = "UserItem" => msg # NoMsg,
                   Grown(kind, calls, msg)
            PROVE  TurnLife!Next
        BY <2>2, <3>4, GrownAdds
      <3> QED BY <3>1, <3>2, <3>3, <3>4 DEF LogStep
    <2> QED BY <2>3, <2>4
  <1>3. TypeInv => Typed
    BY DEF TypeInv
  <1> QED BY <1>1, <1>2, <1>3, TypeInvariant, PTL DEF Spec, FollowsLifecycle

=============================================================================
