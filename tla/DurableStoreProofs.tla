------------------------ MODULE DurableStoreProofs ------------------------
(***************************************************************************)
(* The safety theorems of the durable store.                               *)
(*                                                                         *)
(* The first part proves type correctness and referential integrity, and   *)
(* the row-by-row effect of the two writers, append_event_tx and the seed  *)
(* runs.  In the second the three tables every theorem is about change in  *)
(* one of six ways whatever the operation: StepShapes reduces Next to them *)
(* and each theorem is proved over the six shapes instead of the nineteen  *)
(* actions.  The last part shows, again shape by shape, that the store     *)
(* implements RunLifecycle.                                                *)
(***************************************************************************)
EXTENDS DurableStore, SequenceTheorems, FiniteSetTheorems, WellFoundedInduction, NaturalsInduction, TLAPS

\* An event body as the operations build it.
BodyType == [kind : Kinds, calls : SUBSET Call, ref : Nat, origin : Nat]

\* The rows built for typed bodies are event rows, one per body.
LEMMA RowsOfType ==
    ASSUME TypeOK, NEW r \in Nat, NEW base \in Nat, NEW bodies \in Seq(BodyType)
    PROVE  /\ RowsOf(r, base, bodies) \in Seq(EventRow)
           /\ Len(RowsOf(r, base, bodies)) = Len(bodies)
  <1>1. Len(bodies) \in Nat /\ \A i \in 1..Len(bodies) : bodies[i] \in BodyType
    OBVIOUS
  <1>2. Len(events) \in Nat
    BY DEF TypeOK
  <1> DEFINE row(i) == [run |-> r, seq |-> base + i, kind |-> bodies[i].kind,
                        calls |-> bodies[i].calls, ref |-> bodies[i].ref,
                        origin |-> IF bodies[i].origin = 0 THEN Len(events) + i
                                   ELSE bodies[i].origin]
  <1>3. \A i \in 1..Len(bodies) : row(i) \in EventRow
    BY <1>1, <1>2 DEF BodyType, EventRow
  <1>4. RowsOf(r, base, bodies) = [i \in 1..Len(bodies) |-> row(i)]
    BY DEF RowsOf
  <1> HIDE DEF row
  <1> QED BY <1>1, <1>3, <1>4

\* A bounded nonempty set of numbers has a maximum (Max is defined with CHOOSE).
LEMMA NatSetHasMax ==
    ASSUME NEW n \in Nat, NEW S \in SUBSET (1..n), S # {}
    PROVE  Max(S) \in S /\ \A x \in S : x <= Max(S)
  <1> DEFINE less == {p \in Nat \X Nat : p[1] < p[2]}
             T == {n - x : x \in S}
  <1>1. IsWellFoundedOn(less, Nat)
    <2>1. OpToRel(<, Nat) = less
      BY Zenon DEF OpToRel
    <2> QED BY <2>1, NatLessThanWellFounded, Zenon
  <1>2. T \subseteq Nat /\ T # {}
    <2>1. \A x \in S : x \in Nat /\ x <= n /\ n - x \in T
      OBVIOUS
    <2>2. \A x \in S : n - x \in Nat
      BY <2>1
    <2> QED BY <2>2
  <1>3. \E m \in T : \A y \in T : ~(<<y, m>> \in less)
    <2> HIDE DEF less, T
    <2> QED BY <1>1, <1>2, WFMin, Zenon
  <1>4. PICK m \in T : \A y \in T : ~(<<y, m>> \in less)
    BY <1>3
  <1>5. PICK x \in S : m = n - x
    OBVIOUS
  <1>6. \A y \in S : y <= x
    <2> TAKE y \in S
    <2>1. n - y \in T /\ n - y \in Nat /\ n - x \in Nat /\ x \in Nat /\ y \in Nat
      OBVIOUS
    <2>2. ~(n - y < n - x)
      BY <2>1, <1>4, <1>5
    <2> QED BY <2>1, <2>2
  <1> QED BY <1>6 DEF Max

\* A function on 1..n is a sequence of length n.
LEMMA SeqOfFunction ==
    ASSUME NEW n \in Nat, NEW S, NEW f \in [1..n -> S]
    PROVE  f \in Seq(S) /\ Len(f) = n
  OBVIOUS

\* Appending rows keeps the old ones in place.
LEMMA ConcatRows ==
    ASSUME NEW S, NEW s \in Seq(S), NEW t \in Seq(S)
    PROVE  /\ s \o t \in Seq(S)
           /\ Len(s \o t) = Len(s) + Len(t)
           /\ \A i \in 1..Len(s) : (s \o t)[i] = s[i]
           /\ \A i \in 1..Len(t) : (s \o t)[Len(s) + i] = t[i]
  BY ConcatProperties

\* The same for event rows.
LEMMA ConcatEvents ==
    ASSUME NEW old \in Seq(EventRow), NEW rows \in Seq(EventRow)
    PROVE  /\ old \o rows \in Seq(EventRow)
           /\ Len(old \o rows) = Len(old) + Len(rows)
           /\ \A i \in 1..Len(old) : (old \o rows)[i] = old[i]
           /\ \A i \in 1..Len(rows) : (old \o rows)[Len(old) + i] = rows[i]
  BY ConcatRows

\* Concatenation of bodies, element by element.
LEMMA ConcatBodies ==
    ASSUME NEW s \in Seq(BodyType), NEW t \in Seq(BodyType)
    PROVE  /\ s \o t \in Seq(BodyType)
           /\ Len(s \o t) = Len(s) + Len(t)
           /\ \A i \in 1..Len(s) : (s \o t)[i] = s[i]
           /\ \A i \in 1..Len(t) : (s \o t)[Len(s) + i] = t[i]
  BY ConcatRows

\* The calls an interruption answers form a sequence of calls.
LEMMA PendingOrderings ==
    ASSUME TypeOK, NEW r, NEW calls \in Orderings(PendingCalls(r), Less)
    PROVE  calls \in Seq(Call)
  <1>1. PendingCalls(r) \subseteq Call
    BY DEF PendingCalls
  <1>2. Cardinality(PendingCalls(r)) \in Nat
    BY <1>1, StoreAssumption, FS_Subset, FS_CardinalityType
  <1>3. calls \in [1..Cardinality(PendingCalls(r)) -> Call]
    BY <1>1 DEF Orderings
  <1> QED BY <1>2, <1>3, SeqOfFunction

\* The rows a fork or a rewind copies form a sequence of rowids.
LEMMA CopyOrderings ==
    ASSUME TypeOK, NEW s, NEW cursor, NEW maxSeq,
           NEW source \in Orderings(CopiedRows(s, cursor, maxSeq), CopyOrder)
    PROVE  source \in Seq(Rows)
  <1>1. CopiedRows(s, cursor, maxSeq) \subseteq Rows
    BY DEF CopiedRows, VisibleRows
  <1>2. IsFiniteSet(Rows)
    <2>1. Len(events) \in Nat /\ Rows = 1..Len(events)
      BY DEF TypeOK, Rows
    <2> QED BY <2>1, FS_Interval
  <1>3. Cardinality(CopiedRows(s, cursor, maxSeq)) \in Nat
    BY <1>1, <1>2, FS_Subset, FS_CardinalityType
  <1>4. source \in [1..Cardinality(CopiedRows(s, cursor, maxSeq)) -> Rows]
    BY <1>1 DEF Orderings
  <1> QED BY <1>3, <1>4, SeqOfFunction

\* The cursors a copy is asked for are rowids or 0.
LEMMA CursorsType ==
    ASSUME TypeOK
    PROVE  \A s : CopyCursors(s) \subseteq Nat
  <1>1. Rows \subseteq Nat
    <2>1. Len(events) \in Nat /\ Rows = 1..Len(events)
      BY DEF TypeOK, Rows
    <2> QED BY <2>1
  <1>2. \A s : VisibleRows(s) \subseteq Rows
    BY DEF VisibleRows
  <1>3. \A s : CopiedRows(s, Len(events), Len(events)) \subseteq Rows
    BY <1>2 DEF CopiedRows
  <1>4. 0 \in Nat
    OBVIOUS
  <1> QED
    <2>1. TAKE s
    <2>2. CopyCursors(s) = {0} \cup CopiedRows(s, Len(events), Len(events))
      BY DEF CopyCursors
    <2>3. CopiedRows(s, Len(events), Len(events)) \subseteq Rows
      BY <1>3
    <2> QED BY <1>1, <1>4, <2>2, <2>3

\* The bodies of an interruption: tool failures, then the closing event.
LEMMA InterruptionType ==
    ASSUME NEW calls \in Seq(Call), NEW closing \in Kinds
    PROVE  /\ Interruption(calls, closing) \in Seq(BodyType)
           /\ Len(Interruption(calls, closing)) = Len(calls) + 1
           /\ Interruption(calls, closing)[Len(calls) + 1].kind = closing
           /\ \A i \in 1..Len(calls) : Interruption(calls, closing)[i].kind = "ToolFailed"
  <1> DEFINE f == [i \in 1..Len(calls) |-> Body("ToolFailed", {calls[i]}, 0)]
             g == <<Body(closing, {}, 0)>>
  <1>1. \A i \in 1..Len(calls) : Body("ToolFailed", {calls[i]}, 0) \in BodyType
    BY DEF Body, BodyType, Kinds, ExecutorKinds, ToolResultKinds
  <1>2. f \in Seq(BodyType) /\ Len(f) = Len(calls)
    BY <1>1
  <1>3. Body(closing, {}, 0) \in BodyType
    BY DEF Body, BodyType
  <1>4. g \in Seq(BodyType) /\ Len(g) = 1 /\ g[1].kind = closing
    BY <1>3 DEF Body
  <1>5. \A i \in 1..Len(calls) : f[i].kind = "ToolFailed"
    BY DEF Body
  <1>6. Interruption(calls, closing) = f \o g
    BY DEF Interruption
  <1> HIDE DEF f, g
  <1>7. /\ f \o g \in Seq(BodyType) /\ Len(f \o g) = Len(f) + Len(g)
        /\ \A i \in 1..Len(f) : (f \o g)[i] = f[i]
        /\ \A i \in 1..Len(g) : (f \o g)[Len(f) + i] = g[i]
    BY <1>2, <1>4, ConcatBodies
  <1>8. 1 \in 1..Len(g)
    BY <1>4
  <1>9. (f \o g)[Len(calls) + 1] = g[1]
    BY <1>2, <1>7, <1>8
  <1> QED BY <1>2, <1>4, <1>5, <1>6, <1>7, <1>9

\* What is copied has a kind, and none that only a steer has.
LEMMA CopiedKindType ==
    ASSUME NEW kind \in Kinds
    PROVE  CopiedKind(kind) \in Kinds /\ CopiedKind(kind) # "SteerItem"
           /\ CopiedKind(kind) \in {kind, "UserItem"}
  BY DEF CopiedKind, Kinds, ExecutorKinds

\* Copied events are well typed; remapping keeps the cursor a number.
LEMMA CopyBodiesType ==
    ASSUME TypeOK, NEW source \in Seq(Rows)
    PROVE  CopyBodies(source) \in Seq(BodyType) /\ Len(CopyBodies(source)) = Len(source)
  <1>1. \A i \in 1..Len(source) : events[source[i]] \in EventRow
    BY DEF TypeOK, Rows
  <1>2. \A i \in 1..Len(source) : RemapCursor(source, i) \in Nat
    <2> TAKE i \in 1..Len(source)
    <2> DEFINE covered == {j \in 1..(i - 1) : source[j] <= events[source[i]].ref}
    <2>1. covered # {} => Max(covered) \in Nat
      <3>1. i - 1 \in Nat /\ covered \in SUBSET (1..(i - 1))
        OBVIOUS
      <3>2. covered \subseteq Nat
        OBVIOUS
      <3> HIDE DEF covered
      <3> HAVE covered # {}
      <3>3. Max(covered) \in covered
        BY <3>1, NatSetHasMax, Zenon
      <3> QED BY <3>2, <3>3
    <2>2. Len(events) \in Nat /\ events[source[i]].ref \in Nat
      <3>1. Len(events) \in Nat
        BY DEF TypeOK
      <3>2. events[source[i]] \in EventRow
        BY <1>1
      <3> QED BY <3>1, <3>2 DEF EventRow
    <2>3. RemapCursor(source, i) = CASE events[source[i]].kind # "SessionCompacted" -> events[source[i]].ref
                                     [] covered = {} -> Len(events) + 1
                                     [] OTHER -> Len(events) + 1 + Max(covered)
      BY DEF RemapCursor
    <2> HIDE DEF covered
    <2> QED BY <2>1, <2>2, <2>3
  <1> DEFINE body(i) == [kind |-> CopiedKind(events[source[i]].kind), calls |-> events[source[i]].calls,
                         ref |-> RemapCursor(source, i), origin |-> events[source[i]].origin]
  <1>3. \A i \in 1..Len(source) : body(i) \in BodyType
    BY <1>1, <1>2, CopiedKindType DEF EventRow, BodyType
  <1>4. CopyBodies(source) = [i \in 1..Len(source) |-> body(i)]
    BY DEF CopyBodies
  <1> HIDE DEF body
  <1> QED BY <1>3, <1>4

-----------------------------------------------------------------------------
(* What the two ways of writing events do to the tables. *)

Nonempty(bodies) == bodies \in Seq(BodyType) /\ Len(bodies) > 0

\* The row of an appended event.
IsRowOf(row, r, seq, body) ==
    /\ row \in EventRow
    /\ row.run = r /\ row.seq = seq /\ row.kind = body.kind
    /\ row.calls = body.calls /\ row.ref = body.ref

\* What appending bodies to the event table does, row by row.
LEMMA AppendedRows ==
    ASSUME TypeOK, NEW r \in Nat, NEW base \in Nat, NEW bodies \in Seq(BodyType),
           events' = events \o RowsOf(r, base, bodies)
    PROVE  /\ events' \in Seq(EventRow)
           /\ Len(events') = Len(events) + Len(bodies)
           /\ \A i \in 1..Len(events) : events'[i] = events[i]
           /\ \A i \in 1..Len(bodies) : IsRowOf(events'[Len(events) + i], r, base + i, bodies[i])
  <1> DEFINE rows == RowsOf(r, base, bodies)
  <1>1. rows \in Seq(EventRow) /\ Len(rows) = Len(bodies)
    BY RowsOfType
  <1>2. \A i \in 1..Len(bodies) : IsRowOf(rows[i], r, base + i, bodies[i])
    <2>1. \A i \in 1..Len(bodies) : rows[i] \in EventRow
      BY <1>1
    <2> QED BY <2>1 DEF RowsOf, IsRowOf
  <1>3. events \in Seq(EventRow)
    BY DEF TypeOK
  <1> HIDE DEF rows
  <1>4. events' = events \o rows
    BY DEF rows
  <1>5. /\ events \o rows \in Seq(EventRow)
        /\ Len(events \o rows) = Len(events) + Len(rows)
        /\ \A i \in 1..Len(events) : (events \o rows)[i] = events[i]
        /\ \A i \in 1..Len(rows) : (events \o rows)[Len(events) + i] = rows[i]
    BY <1>1, <1>3, ConcatEvents
  <1>6. \A i \in 1..Len(bodies) : events'[Len(events) + i] = rows[i]
    BY <1>1, <1>4, <1>5, Zenon
  <1>7. \A i \in 1..Len(bodies) : IsRowOf(events'[Len(events) + i], r, base + i, bodies[i])
    BY <1>2, <1>6, Zenon
  <1> QED BY <1>1, <1>4, <1>5, <1>7, Zenon

\* An event leads to a known status.
LEMMA EventStatusType ==
    ASSUME NEW kind, NEW status \in Statuses
    PROVE  EventStatus(kind, status) \in Statuses
  BY DEF EventStatus, Statuses

\* What append_event_tx does to the three tables, row by row.
LEMMA AppendTxEffect ==
    ASSUME TypeOK, ReferencesValid, NEW r \in Runs, NEW bodies, Nonempty(bodies),
           AppendTx(r, bodies)
    PROVE  /\ events' \in Seq(EventRow)
           /\ Len(events') = Len(events) + Len(bodies)
           /\ \A i \in 1..Len(events) : events'[i] = events[i]
           /\ \A i \in 1..Len(bodies) :
                 IsRowOf(events'[Len(events) + i], r, runs[r].lastSeq + i, bodies[i])
           /\ runs' \in Seq(RunRow) /\ DOMAIN runs' = Runs
           /\ \A x \in Runs : /\ runs'[x].session = runs[x].session
                              /\ runs'[x].purpose = runs[x].purpose
                              /\ x # r => runs'[x] = runs[x]
           /\ runs'[r].lastSeq = runs[r].lastSeq + Len(bodies)
           /\ runs'[r].status = EventStatus(bodies[Len(bodies)].kind, runs[r].status)
           /\ sessions' \in Seq(SessionRow) /\ DOMAIN sessions' = Sessions
           /\ \A s \in Sessions :
                 sessions'[s].activeRun =
                    IF /\ IsTerminal(runs'[r].status) /\ s = runs[r].session
                       /\ sessions[s].activeRun = r
                    THEN 0 ELSE sessions[s].activeRun
  <1>1. /\ runs \in Seq(RunRow) /\ Len(runs) \in Nat /\ Runs = 1..Len(runs)
        /\ sessions \in Seq(SessionRow) /\ Sessions = 1..Len(sessions)
        /\ Len(bodies) \in Nat /\ bodies \in Seq(BodyType)
    BY DEF TypeOK, Runs, Sessions, Nonempty
  <1>2. r \in Nat /\ runs[r] \in RunRow /\ runs[r].lastSeq \in Nat /\ runs[r].session \in Sessions
    <2>1. r \in 1..Len(runs)
      BY <1>1
    <2>2. r \in Nat /\ runs[r] \in RunRow
      BY <2>1, <1>1
    <2>3. runs[r].lastSeq \in Nat
      BY <2>2 DEF RunRow
    <2>4. runs[r].session \in Sessions
      BY DEF ReferencesValid
    <2> QED BY <2>2, <2>3, <2>4
  <1>3. events' = events \o RowsOf(r, runs[r].lastSeq, bodies)
    BY DEF AppendTx
  <1>4. /\ events' \in Seq(EventRow)
        /\ Len(events') = Len(events) + Len(bodies)
        /\ \A i \in 1..Len(events) : events'[i] = events[i]
        /\ \A i \in 1..Len(bodies) :
              IsRowOf(events'[Len(events) + i], r, runs[r].lastSeq + i, bodies[i])
    BY <1>1, <1>2, <1>3, AppendedRows
  <1> DEFINE next == EventStatus(bodies[Len(bodies)].kind, runs[r].status)
             row == [runs[r] EXCEPT !.status = next, !.lastSeq = @ + Len(bodies)]
  <1>5. next \in Statuses
    BY <1>2, EventStatusType DEF RunRow
  <1>6. /\ row \in RunRow /\ row.session = runs[r].session /\ row.purpose = runs[r].purpose
        /\ row.lastSeq = runs[r].lastSeq + Len(bodies) /\ row.status = next
    <2>1. Len(bodies) + runs[r].lastSeq \in Nat /\ runs[r].lastSeq + Len(bodies) \in Nat
      BY <1>1, <1>2
    <2> HIDE DEF next
    <2> QED BY <1>2, <1>5, <2>1 DEF RunRow
  <1>7. runs' = [runs EXCEPT ![r] = row]
    BY DEF AppendTx, AppendedRun
  <1>8. /\ runs' \in Seq(RunRow) /\ DOMAIN runs' = Runs
        /\ \A x \in Runs : /\ runs'[x].session = runs[x].session
                           /\ runs'[x].purpose = runs[x].purpose
                           /\ x # r => runs'[x] = runs[x]
        /\ runs'[r].lastSeq = runs[r].lastSeq + Len(bodies)
        /\ runs'[r].status = next
    <2> HIDE DEF next, row
    <2> QED BY <1>1, <1>6, <1>7 DEF Runs
  <1> DEFINE s == runs[r].session
             ended == [sessions[s] EXCEPT !.activeRun = 0]
  <1>9. sessions' = IF IsTerminal(next) /\ sessions[s].activeRun = r
                    THEN [sessions EXCEPT ![s] = ended] ELSE sessions
    BY DEF AppendTx
  <1>10. ended \in SessionRow /\ ended.activeRun = 0
    <2>1. s \in 1..Len(sessions)
      BY <1>1, <1>2
    <2> HIDE DEF s
    <2>2. sessions[s] \in SessionRow
      BY <2>1, <1>1
    <2> QED BY <2>2 DEF SessionRow
  <1>11. /\ sessions' \in Seq(SessionRow) /\ DOMAIN sessions' = Sessions
         /\ \A x \in Sessions :
               sessions'[x].activeRun =
                  IF IsTerminal(next) /\ x = s /\ sessions[x].activeRun = r
                  THEN 0 ELSE sessions[x].activeRun
    <2>1. s \in Sessions
      BY <1>2
    <2> HIDE DEF next, row, s, ended
    <2>2. CASE IsTerminal(next) /\ sessions[s].activeRun = r
      <3>1. sessions' = [sessions EXCEPT ![s] = ended]
        BY <1>9, <2>2
      <3> QED BY <1>1, <1>10, <2>1, <2>2, <3>1 DEF Sessions
    <2>3. CASE ~(IsTerminal(next) /\ sessions[s].activeRun = r)
      <3>1. sessions' = sessions
        BY <1>9, <2>3
      <3> QED BY <1>1, <2>3, <3>1 DEF Sessions
    <2> QED BY <2>2, <2>3
  <1> HIDE DEF next
  <1> QED BY <1>4, <1>8, <1>11 DEF next

\* A seed run: run.started, the bodies in the middle, run.completed.
LEMMA SeedEventsEffect ==
    ASSUME TypeOK, NEW middle \in Seq(BodyType), SeedEvents(middle)
    PROVE  /\ events' \in Seq(EventRow)
           /\ Len(events') = Len(events) + Len(middle) + 2
           /\ \A i \in 1..Len(events) : events'[i] = events[i]
           /\ \A i \in 1..(Len(middle) + 2) :
                 /\ events'[Len(events) + i].run = NewRun
                 /\ events'[Len(events) + i].seq = i
  <1> DEFINE first == <<Body("RunStarted", {}, 0)>>
             last == <<Body("RunCompleted", {}, 0)>>
             bodies == (first \o middle) \o last
  <1>1. first \in Seq(BodyType) /\ Len(first) = 1 /\ last \in Seq(BodyType) /\ Len(last) = 1
    BY DEF Body, BodyType, Kinds, ExecutorKinds
  <1>2. first \o middle \in Seq(BodyType) /\ Len(first \o middle) = 1 + Len(middle)
    <2> HIDE DEF first, last, bodies
    <2>1. first \o middle \in Seq(BodyType) /\ Len(first \o middle) = Len(first) + Len(middle)
      BY <1>1, ConcatRows
    <2> QED BY <1>1, <2>1
  <1>3. bodies \in Seq(BodyType) /\ Len(bodies) = Len(middle) + 2
    <2> HIDE DEF first, last
    <2> QED BY <1>1, <1>2, ConcatRows
  <1>4. events' = events \o RowsOf(NewRun, 0, bodies)
    BY DEF SeedEvents
  <1>5. NewRun \in Nat
    BY DEF TypeOK, NewRun
  <1> HIDE DEF bodies
  <1>6. /\ events' \in Seq(EventRow)
        /\ Len(events') = Len(events) + Len(bodies)
        /\ \A i \in 1..Len(events) : events'[i] = events[i]
        /\ \A i \in 1..Len(bodies) : IsRowOf(events'[Len(events) + i], NewRun, 0 + i, bodies[i])
    BY <1>3, <1>4, <1>5, AppendedRows
  <1>7. Len(events) \in Nat /\ Len(middle) \in Nat
    BY DEF TypeOK
  <1> QED BY <1>3, <1>6, <1>7 DEF IsRowOf

\* Recording a result keeps the idempotency table well typed.
LEMMA RecordType ==
    ASSUME TypeOK, NEW scope \in Scopes, NEW k \in Key, NEW result \in Nat,
           Record(scope, k, result)
    PROVE  idem' \in [Scopes -> [Key -> Nat]]
  BY DEF TypeOK, Record

\* Rowids are 1..Len, and the next one is fresh.
LEMMA NewIds ==
    ASSUME TypeOK
    PROVE  /\ Len(sessions) \in Nat /\ Sessions = 1..Len(sessions) /\ NewSession = Len(sessions) + 1
           /\ Len(runs) \in Nat /\ Runs = 1..Len(runs) /\ NewRun = Len(runs) + 1
           /\ Len(events) \in Nat /\ Rows = 1..Len(events)
           /\ Len(approvals) \in Nat /\ Approvals = 1..Len(approvals)
  BY DEF TypeOK, Sessions, Runs, Rows, Approvals, NewSession, NewRun

-----------------------------------------------------------------------------
(* Type correctness and the foreign keys. *)

\* The part of both invariants about the three tables every operation writes.
TablesOK ==
    /\ sessions \in Seq(SessionRow) /\ runs \in Seq(RunRow) /\ events \in Seq(EventRow)
    /\ \A r \in Runs : runs[r].session \in Sessions
    /\ \A i \in Rows : events[i].run \in Runs

OtherTypes ==
    /\ idem \in [Scopes -> [Key -> Nat]]
    /\ intents \subseteq Runs
    /\ approvals \in Seq(ApprovalRow)
    /\ \A a \in Approvals : approvals[a].run \in Runs
    /\ links \in [Conversation -> Nat]
    /\ mode \in {"serving", "down", "recovering"}
    /\ todo \subseteq [run : Nat, cancelled : BOOLEAN]
    /\ \A t \in todo : t.run \in Runs
    /\ crashes \in Nat

\* The two invariants are the tables' part and the rest.
LEMMA TypeParts ==
    /\ TypeOK /\ ReferencesValid <=> TablesOK /\ OtherTypes
    /\ (TypeOK /\ ReferencesValid)' <=> TablesOK' /\ OtherTypes'
  <1>1. TypeOK /\ ReferencesValid <=> TablesOK /\ OtherTypes
    <2>1. TypeOK => Runs \subseteq Nat
      BY NewIds
    <2>2. TablesOK => Runs \subseteq Nat
      BY DEF TablesOK, Runs
    <2> QED BY <2>1, <2>2 DEF TypeOK, ReferencesValid, TablesOK, OtherTypes
  <1> QED BY <1>1, PTL

\* append_event_tx keeps the tables' part.
LEMMA AppendTxTables ==
    ASSUME TypeOK, ReferencesValid, NEW r \in Runs, NEW bodies, Nonempty(bodies),
           AppendTx(r, bodies)
    PROVE  TablesOK' /\ Runs' = Runs
  <1>1. /\ Len(events) \in Nat /\ Rows = 1..Len(events) /\ Len(bodies) \in Nat
        /\ Runs' = Runs /\ Sessions' = Sessions
    BY NewIds, AppendTxEffect DEF Runs, Sessions, Nonempty
  <1>2. \A i \in Rows' : events'[i].run \in Runs
    <2> TAKE i \in Rows'
    <2>1. i \in 1..(Len(events) + Len(bodies))
      BY AppendTxEffect, <1>1 DEF Rows
    <2>2. CASE i <= Len(events)
      <3>1. i \in Rows /\ events'[i] = events[i]
        <4>1. \A x \in 1..Len(events) : events'[x] = events[x]
          BY AppendTxEffect
        <4> QED BY <1>1, <2>1, <2>2, <4>1
      <3> QED BY <3>1 DEF ReferencesValid
    <2>3. CASE i > Len(events)
      <3>1. i - Len(events) \in 1..Len(bodies) /\ Len(events) + (i - Len(events)) = i
        BY <1>1, <2>1, <2>3
      <3>2. IsRowOf(events'[Len(events) + (i - Len(events))], r,
                    runs[r].lastSeq + (i - Len(events)), bodies[i - Len(events)])
        BY <3>1, AppendTxEffect
      <3> QED BY <3>1, <3>2 DEF IsRowOf
    <2> QED BY <1>1, <2>1, <2>2, <2>3
  <1>3. \A x \in Runs : runs'[x].session \in Sessions
    BY AppendTxEffect DEF ReferencesValid
  <1> QED BY <1>1, <1>2, <1>3, AppendTxEffect DEF TablesOK

\* A seed run for session s, after the old run rows became `old`.
LEMMA SeedTables ==
    ASSUME TypeOK, ReferencesValid, NEW middle \in Seq(BodyType), SeedEvents(middle),
           NEW s \in Nat, NEW old \in Seq(RunRow), Len(old) = Len(runs),
           \A r \in Runs : old[r].session = runs[r].session,
           runs' = Append(old, SeedRun(s, middle)),
           sessions' \in Seq(SessionRow), Sessions \subseteq Sessions', s \in Sessions'
    PROVE  TablesOK' /\ Runs \subseteq Runs' /\ NewRun \in Runs'
  <1>1. /\ Len(runs) \in Nat /\ Runs = 1..Len(runs) /\ NewRun = Len(runs) + 1
        /\ Len(events) \in Nat /\ Rows = 1..Len(events) /\ Len(middle) \in Nat
    BY NewIds
  <1>2. SeedRun(s, middle) \in RunRow /\ SeedRun(s, middle).session = s
    BY <1>1 DEF SeedRun, RunRow, Statuses, Purposes
  <1>3. /\ runs' \in Seq(RunRow) /\ Len(runs') = Len(runs) + 1
        /\ \A r \in Runs : runs'[r] = old[r]
        /\ runs'[NewRun] = SeedRun(s, middle)
    <2> DEFINE seed == SeedRun(s, middle)
    <2>1. seed \in RunRow /\ runs' = Append(old, seed)
      BY <1>2
    <2> HIDE DEF seed
    <2>2. /\ runs' \in Seq(RunRow) /\ Len(runs') = Len(runs) + 1
          /\ \A r \in Runs : runs'[r] = old[r]
          /\ runs'[NewRun] = seed
      BY <1>1, <2>1
    <2> QED BY <2>2 DEF seed
  <1>4. Runs' = 1..(Len(runs) + 1)
    BY <1>3 DEF Runs
  <1>5. \A r \in Runs' : runs'[r].session \in Sessions'
    <2> TAKE r \in Runs'
    <2>1. CASE r \in Runs
      BY <1>3, <2>1 DEF ReferencesValid
    <2>2. CASE r = NewRun
      BY <1>2, <1>3, <2>2
    <2> QED BY <1>1, <1>4, <2>1, <2>2
  <1>6. \A i \in Rows' : events'[i].run \in Runs'
    <2> TAKE i \in Rows'
    <2>1. i \in 1..(Len(events) + (Len(middle) + 2))
      BY SeedEventsEffect, <1>1 DEF Rows
    <2>2. CASE i <= Len(events)
      <3>1. i \in Rows /\ events'[i] = events[i]
        BY <1>1, <2>1, <2>2, SeedEventsEffect
      <3> QED BY <1>1, <1>4, <3>1 DEF ReferencesValid
    <2>3. CASE i > Len(events)
      <3>1. i - Len(events) \in 1..(Len(middle) + 2) /\ Len(events) + (i - Len(events)) = i
        BY <1>1, <2>1, <2>3
      <3>2. events'[Len(events) + (i - Len(events))].run = NewRun
        BY <3>1, SeedEventsEffect
      <3> QED BY <1>1, <1>4, <3>1, <3>2
    <2> QED BY <1>1, <2>1, <2>2, <2>3
  <1>7. events' \in Seq(EventRow)
    BY SeedEventsEffect
  <1> QED BY <1>1, <1>3, <1>4, <1>5, <1>6, <1>7 DEF TablesOK

\* An operation that touches none of the smaller tables.
LEMMA OthersKept ==
    ASSUME OtherTypes, Runs \subseteq Runs', idem' \in [Scopes -> [Key -> Nat]],
           UNCHANGED <<intents, approvals, links, mode, todo, crashes>>
    PROVE  OtherTypes'
  BY DEF OtherTypes, Approvals

\* Inserting a run of an existing session keeps the tables' part.
LEMMA AppendRun ==
    ASSUME TypeOK, ReferencesValid, NEW s \in Sessions, NEW purpose \in Purposes,
           runs' = Append(runs, [session |-> s, status |-> "running", lastSeq |-> 0,
                                 purpose |-> purpose]),
           sessions' \in Seq(SessionRow), Sessions' = Sessions, events' = events
    PROVE  TablesOK' /\ Runs \subseteq Runs'
  <1> DEFINE row == [session |-> s, status |-> "running", lastSeq |-> 0, purpose |-> purpose]
  <1>1. /\ Len(runs) \in Nat /\ Runs = 1..Len(runs) /\ s \in Nat /\ runs \in Seq(RunRow)
    BY NewIds DEF TypeOK
  <1>2. row \in RunRow /\ row.session = s
    BY <1>1 DEF RunRow, Statuses
  <1>3. /\ runs' \in Seq(RunRow) /\ Runs' = 1..(Len(runs) + 1)
        /\ \A r \in Runs : runs'[r] = runs[r]
        /\ runs'[Len(runs) + 1] = row
    <2>1. runs' = Append(runs, row)
      OBVIOUS
    <2> HIDE DEF row
    <2> QED BY <1>1, <1>2, <2>1 DEF Runs
  <1>4. \A r \in Runs' : runs'[r].session \in Sessions'
    <2> TAKE r \in Runs'
    <2>1. CASE r \in Runs
      BY <1>3, <2>1 DEF ReferencesValid
    <2>2. CASE r = Len(runs) + 1
      BY <1>2, <1>3, <2>2
    <2> QED BY <1>1, <1>3, <2>1, <2>2
  <1>5. events' \in Seq(EventRow) /\ Rows' = Rows /\ \A i \in Rows : events[i].run \in Runs
    BY DEF TypeOK, ReferencesValid, Rows
  <1> QED BY <1>1, <1>3, <1>4, <1>5 DEF TablesOK

\* What inserting a session does, row by row.
LEMMA AppendSession ==
    ASSUME TypeOK, sessions' = Append(sessions, [activeRun |-> 0])
    PROVE  /\ sessions' \in Seq(SessionRow)
           /\ Sessions' = 1..(Len(sessions) + 1)
           /\ \A s \in Sessions : sessions'[s] = sessions[s]
           /\ sessions'[NewSession].activeRun = 0
  <1>1. [activeRun |-> 0] \in SessionRow
    BY DEF SessionRow
  <1>2. sessions \in Seq(SessionRow) /\ NewSession = Len(sessions) + 1 /\ Len(sessions) \in Nat
        /\ Sessions = 1..Len(sessions)
    BY NewIds DEF TypeOK
  <1> DEFINE row == [activeRun |-> 0]
  <1>3. row \in SessionRow /\ sessions' = Append(sessions, row) /\ row.activeRun = 0
    BY <1>1
  <1> HIDE DEF row
  <1>4. /\ sessions' \in Seq(SessionRow) /\ Len(sessions') = Len(sessions) + 1
        /\ \A s \in Sessions : sessions'[s] = sessions[s]
        /\ sessions'[NewSession] = row
    BY <1>2, <1>3
  <1> QED BY <1>2, <1>3, <1>4 DEF Sessions

\* The run rows after a rewind of session s superseded its runs.
LEMMA RewoundRows ==
    ASSUME TypeOK, NEW s
    PROVE  LET old == [r \in Runs |-> IF runs[r].session = s
                                      THEN [runs[r] EXCEPT !.status = "rewound"]
                                      ELSE runs[r]]
           IN  /\ old \in Seq(RunRow) /\ Len(old) = Len(runs)
               /\ \A r \in Runs : old[r].session = runs[r].session
  <1> DEFINE row(r) == IF runs[r].session = s THEN [runs[r] EXCEPT !.status = "rewound"]
                       ELSE runs[r]
  <1>1. Len(runs) \in Nat /\ Runs = 1..Len(runs) /\ \A r \in Runs : runs[r] \in RunRow
    BY NewIds DEF TypeOK
  <1>2. \A r \in Runs : row(r) \in RunRow /\ row(r).session = runs[r].session
    BY <1>1 DEF RunRow, Statuses
  <1> DEFINE f == [r \in 1..Len(runs) |-> row(r)]
  <1>3. f \in Seq(RunRow) /\ Len(f) = Len(runs) /\ \A r \in Runs : f[r].session = runs[r].session
    <2> HIDE DEF row
    <2> QED BY <1>1, <1>2
  <1> QED BY <1>1, <1>3

\* Session operations keep types and references.
LEMMA SessionTypeStep ==
    ASSUME TypeOK, ReferencesValid, SessionNext
    PROVE  TablesOK' /\ OtherTypes'
  <1> USE TypeParts
  <1>1. OtherTypes /\ TablesOK
    OBVIOUS
  <1>2. ASSUME NEW k \in Key, CreateSession(k) PROVE TablesOK' /\ OtherTypes'
    <2>1. /\ sessions' = Append(sessions, [activeRun |-> 0]) /\ runs' = runs /\ events' = events
          /\ Runs' = Runs /\ Rows' = Rows
      BY <1>2 DEF CreateSession, Runs, Rows
    <2>2. TablesOK'
      BY <1>1, <2>1, AppendSession, NewIds DEF TablesOK
    <2>3. idem' \in [Scopes -> [Key -> Nat]]
      <3>1. "session.create" \in Scopes /\ NewSession \in Nat
        BY NewIds DEF Scopes
      <3>2. Record("session.create", k, NewSession)
        BY <1>2 DEF CreateSession
      <3> QED BY <3>1, <3>2, RecordType
    <2> QED BY <1>1, <1>2, <2>1, <2>2, <2>3, OthersKept DEF CreateSession
  <1>3. ASSUME NEW s \in Sessions, NEW k \in Key, StartRun(s, k) PROVE TablesOK' /\ OtherTypes'
    <2>1. idem' \in [Scopes -> [Key -> Nat]]
      <3>1. "session.prompt" \in Scopes /\ NewRun \in Nat
        BY NewIds DEF Scopes
      <3>2. Record("session.prompt", k, NewRun)
        BY <1>3 DEF StartRun
      <3> QED BY <3>1, <3>2, RecordType
    <2>2. sessions' \in Seq(SessionRow) /\ Sessions' = Sessions
      <3> DEFINE row == [sessions[s] EXCEPT !.activeRun = NewRun]
      <3>1. s \in 1..Len(sessions) /\ sessions \in Seq(SessionRow) /\ NewRun \in Nat
        BY NewIds DEF TypeOK
      <3>2. sessions[s] \in SessionRow
        BY <3>1
      <3>3. row \in SessionRow
        BY <3>1, <3>2 DEF SessionRow
      <3>4. sessions' = [sessions EXCEPT ![s] = row]
        BY <1>3 DEF StartRun
      <3> HIDE DEF row
      <3> QED BY <3>1, <3>3, <3>4 DEF Sessions
    <2>3. TablesOK' /\ Runs \subseteq Runs'
      BY <1>3, <2>2, AppendRun DEF StartRun, Purposes
    <2> QED BY <1>1, <1>3, <2>1, <2>3, OthersKept DEF StartRun
  <1>4. ASSUME NEW s \in Sessions, StartAuxiliaryRun(s) PROVE TablesOK' /\ OtherTypes'
    <2>1. sessions' \in Seq(SessionRow) /\ Sessions' = Sessions /\ idem' \in [Scopes -> [Key -> Nat]]
      BY <1>4 DEF StartAuxiliaryRun, Sessions, TypeOK
    <2>2. TablesOK' /\ Runs \subseteq Runs'
      BY <1>4, <2>1, AppendRun DEF StartAuxiliaryRun, Purposes
    <2> QED BY <1>1, <1>4, <2>1, <2>2, OthersKept DEF StartAuxiliaryRun
  <1>5. ASSUME NEW s \in Sessions, NEW k \in Key, NEW cursor, NEW maxSeq,
               ForkSession(s, k, cursor, maxSeq)
        PROVE  TablesOK' /\ OtherTypes'
    <2>1. PICK source \in Orderings(CopiedRows(s, cursor, maxSeq), CopyOrder) :
              /\ SeedEvents(CopyBodies(source))
              /\ runs' = Append(runs, SeedRun(NewSession, source))
      BY <1>5 DEF ForkSession
    <2>2. source \in Seq(Rows)
      BY CopyOrderings
    <2>3. CopyBodies(source) \in Seq(BodyType) /\ Len(CopyBodies(source)) = Len(source)
      BY <2>2, CopyBodiesType
    <2>4. SeedRun(NewSession, source) = SeedRun(NewSession, CopyBodies(source))
      BY <2>3 DEF SeedRun
    <2>5. /\ sessions' \in Seq(SessionRow) /\ Sessions \subseteq Sessions' /\ NewSession \in Sessions'
          /\ NewSession \in Nat
      BY <1>5, AppendSession, NewIds DEF ForkSession
    <2>6. TablesOK' /\ Runs \subseteq Runs'
      BY <2>1, <2>3, <2>4, <2>5, SeedTables DEF TypeOK
    <2>7. idem' \in [Scopes -> [Key -> Nat]]
      BY <1>5, <2>5, RecordType DEF ForkSession, Scopes
    <2> QED BY <1>1, <1>5, <2>6, <2>7, OthersKept DEF ForkSession
  <1>6. ASSUME NEW s \in Sessions, NEW k \in Key, NEW cursor \in Nat, RewindSession(s, k, cursor)
        PROVE  TablesOK' /\ OtherTypes'
    <2> DEFINE old == [r \in Runs |-> IF runs[r].session = s
                                      THEN [runs[r] EXCEPT !.status = "rewound"]
                                      ELSE runs[r]]
    <2>1. PICK source \in Orderings(CopiedRows(s, cursor, Len(events)), CopyOrder) :
              LET middle == Append(CopyBodies(source), Body("RunRewound", {}, cursor))
              IN  SeedEvents(middle) /\ runs' = Append(old, SeedRun(s, middle))
      BY <1>6 DEF RewindSession
    <2> DEFINE middle == Append(CopyBodies(source), Body("RunRewound", {}, cursor))
    <2>2. middle \in Seq(BodyType)
      <3>1. source \in Seq(Rows)
        BY CopyOrderings
      <3>2. CopyBodies(source) \in Seq(BodyType)
        BY <3>1, CopyBodiesType
      <3>3. Body("RunRewound", {}, cursor) \in BodyType
        BY DEF Body, BodyType, Kinds
      <3> QED BY <3>2, <3>3
    <2>3. old \in Seq(RunRow) /\ Len(old) = Len(runs) /\ \A r \in Runs : old[r].session = runs[r].session
      BY RewoundRows
    <2>4. sessions' \in Seq(SessionRow) /\ Sessions' = Sessions /\ s \in Nat
      <3> DEFINE row == [sessions[s] EXCEPT !.activeRun = 0]
      <3>1. s \in 1..Len(sessions) /\ sessions \in Seq(SessionRow)
        BY NewIds DEF TypeOK
      <3>2. sessions[s] \in SessionRow
        BY <3>1
      <3>3. row \in SessionRow
        BY <3>2 DEF SessionRow
      <3>4. sessions' = [sessions EXCEPT ![s] = row]
        BY <1>6 DEF RewindSession
      <3> HIDE DEF row
      <3> QED BY <3>1, <3>3, <3>4 DEF Sessions
    <2>5. TablesOK' /\ Runs \subseteq Runs'
      <3>1. SeedEvents(middle) /\ runs' = Append(old, SeedRun(s, middle))
        BY <2>1
      <3> HIDE DEF middle, old
      <3> QED BY <2>2, <2>3, <2>4, <3>1, SeedTables
    <2>6. idem' \in [Scopes -> [Key -> Nat]]
      <3>1. Record("session.rewind", k, NewRun)
        BY <1>6 DEF RewindSession
      <3>2. "session.rewind" \in Scopes /\ NewRun \in Nat
        BY NewIds DEF Scopes
      <3> QED BY <3>1, <3>2, RecordType
    <2> QED BY <1>1, <1>6, <2>5, <2>6, OthersKept DEF RewindSession
  <1>7. ASSUME NEW c \in Conversation, NEW k \in Key, NEW n \in Nat, LinkConversation(c, k, n)
        PROVE  TablesOK' /\ OtherTypes'
    <2>1. CASE LinkNewConversation(c, k, n)
      <3> DEFINE imported == [i \in 1..n |-> Body("UserItem", {}, 0)]
      <3>1. Body("UserItem", {}, 0) \in BodyType
        BY DEF Body, BodyType, Kinds, ExecutorKinds
      <3>2. imported \in Seq(BodyType)
        BY <3>1
      <3>3. SeedEvents(imported) /\ runs' = Append(runs, SeedRun(NewSession, imported))
        BY <2>1 DEF LinkNewConversation
      <3>4. /\ sessions' \in Seq(SessionRow) /\ Sessions \subseteq Sessions'
            /\ NewSession \in Sessions' /\ NewSession \in Nat
        BY <2>1, AppendSession, NewIds DEF LinkNewConversation
      <3>5. TablesOK' /\ Runs \subseteq Runs'
        <4> HIDE DEF imported
        <4> QED BY <3>2, <3>3, <3>4, SeedTables DEF TypeOK
      <3>6. idem' \in [Scopes -> [Key -> Nat]]
        BY <2>1, <3>4, RecordType DEF LinkNewConversation, Scopes
      <3>7. links' \in [Conversation -> Nat]
        BY <2>1, <3>4 DEF LinkNewConversation, TypeOK
      <3>8. UNCHANGED <<intents, approvals, mode, todo, crashes>>
        BY <1>7 DEF LinkConversation
      <3> QED BY <1>1, <3>5, <3>6, <3>7, <3>8 DEF OtherTypes, Approvals
    <2>2. CASE LinkKnownConversation(c, k)
      <3>1. links[c] \in Nat
        BY DEF TypeOK
      <3>2. idem' \in [Scopes -> [Key -> Nat]]
        BY <2>2, <3>1, RecordType DEF LinkKnownConversation, Scopes
      <3>3. UNCHANGED <<sessions, runs, events, links, intents, approvals, mode, todo, crashes>>
        BY <1>7, <2>2 DEF LinkConversation, LinkKnownConversation
      <3> QED BY <1>1, <3>2, <3>3 DEF TablesOK, OtherTypes, Runs, Rows, Sessions, Approvals
    <2> QED BY <1>7, <2>1, <2>2 DEF LinkConversation
  <1>8. ASSUME NEW c \in Conversation, NEW s \in Sessions, NEW k \in Key,
               BindSessionToConversation(c, s, k)
        PROVE  TablesOK' /\ OtherTypes'
    <2>1. s \in Nat
      BY NewIds
    <2>2. idem' \in [Scopes -> [Key -> Nat]] /\ links' \in [Conversation -> Nat]
      BY <1>8, <2>1, RecordType DEF BindSessionToConversation, Scopes, TypeOK
    <2>3. UNCHANGED <<sessions, runs, events, intents, approvals, mode, todo, crashes>>
      BY <1>8 DEF BindSessionToConversation
    <2> QED BY <1>1, <2>2, <2>3 DEF TablesOK, OtherTypes, Runs, Rows, Sessions, Approvals
  <1>9. 0..MaxImported \subseteq Nat
    BY StoreAssumption
  <1>10. \A s : CopyCursors(s) \subseteq Nat
    BY CursorsType
  <1> QED BY <1>2, <1>3, <1>4, <1>5, <1>6, <1>7, <1>8, <1>9, <1>10 DEF SessionNext

\* An operation that appends events to one run and leaves approvals alone.
LEMMA AppendTxKeeps ==
    ASSUME TypeOK, ReferencesValid, NEW r \in Runs, NEW bodies, Nonempty(bodies),
           AppendTx(r, bodies), idem' \in [Scopes -> [Key -> Nat]], intents' \subseteq Runs,
           approvals' \in Seq(ApprovalRow), \A a \in Approvals' : approvals'[a].run \in Runs,
           todo' \subseteq todo, UNCHANGED <<links, mode, crashes>>
    PROVE  TablesOK' /\ OtherTypes'
  <1>1. TablesOK' /\ Runs' = Runs
    BY AppendTxTables
  <1>2. OtherTypes
    BY TypeParts
  <1> QED BY <1>1, <1>2 DEF OtherTypes

\* A single well-typed body.
LEMMA OneBody ==
    ASSUME NEW kind \in Kinds, NEW calls \in SUBSET Call, NEW ref \in Nat
    PROVE  /\ Nonempty(<<Body(kind, calls, ref)>>)
           /\ Len(<<Body(kind, calls, ref)>>) = 1
           /\ <<Body(kind, calls, ref)>>[1].kind = kind
  <1>1. Body(kind, calls, ref) \in BodyType /\ Body(kind, calls, ref).kind = kind
    BY DEF Body, BodyType
  <1> QED BY <1>1 DEF Nonempty

\* An interruption ends with its closing event.
LEMMA InterruptionNonempty ==
    ASSUME TypeOK, NEW r, NEW calls \in Orderings(PendingCalls(r), Less), NEW closing \in Kinds
    PROVE  /\ Nonempty(Interruption(calls, closing))
           /\ Interruption(calls, closing)[Len(Interruption(calls, closing))].kind = closing
  <1>1. calls \in Seq(Call)
    BY PendingOrderings
  <1>2. Len(calls) \in Nat
    BY <1>1
  <1> QED BY <1>1, <1>2, InterruptionType DEF Nonempty

\* What executors append is well typed.
LEMMA EventArguments ==
    ASSUME TypeOK, NEW r, NEW kind \in AppendKinds,
           NEW calls \in EventCalls(kind), NEW ref \in EventRefs(r, kind)
    PROVE  kind \in Kinds /\ calls \in SUBSET Call /\ ref \in Nat
  <1>1. kind \in Kinds
    BY StoreAssumption DEF Kinds
  <1>2. calls \in SUBSET Call
    BY DEF EventCalls
  <1>3. ref \in Nat
    BY NewIds DEF EventRefs, VisibleRows
  <1> QED BY <1>1, <1>2, <1>3

\* Appends, steers and cancels keep types and references.
LEMMA RunTypeStep ==
    ASSUME TypeOK, ReferencesValid, RunNext
    PROVE  TablesOK' /\ OtherTypes'
  <1>1. /\ \A a \in Approvals : approvals[a].run \in Runs /\ approvals \in Seq(ApprovalRow)
        /\ intents \subseteq Runs /\ approvals \in Seq(ApprovalRow)
        /\ idem \in [Scopes -> [Key -> Nat]] /\ Len(events) + 1 \in Nat
    BY NewIds DEF TypeOK, ReferencesValid
  <1>2. ASSUME NEW r \in Runs, NEW kind \in AppendKinds, NEW calls \in EventCalls(kind),
               NEW ref \in EventRefs(r, kind), AppendEventAuto(r, kind, calls, ref)
        PROVE  TablesOK' /\ OtherTypes'
    <2>1. Nonempty(<<Body(kind, calls, ref)>>)
      BY EventArguments, OneBody
    <2>2. /\ AppendTx(r, <<Body(kind, calls, ref)>>)
          /\ UNCHANGED <<idem, intents, approvals, links, mode, todo, crashes>>
      BY <1>2 DEF AppendEventAuto
    <2> QED BY <1>1, <2>1, <2>2, AppendTxKeeps DEF Approvals
  <1>3. ASSUME NEW r \in Runs, NEW k \in Key, SteerRun(r, k)
        PROVE  TablesOK' /\ OtherTypes'
    <2>1. Nonempty(<<Body("SteerItem", {}, 0)>>)
      BY OneBody DEF Kinds, ExecutorKinds
    <2>2. /\ AppendTx(r, <<Body("SteerItem", {}, 0)>>)
          /\ Record("session.steer", k, Len(events) + 1)
          /\ UNCHANGED <<intents, approvals, links, mode, todo, crashes>>
      BY <1>3 DEF SteerRun
    <2>3. idem' \in [Scopes -> [Key -> Nat]]
      BY <1>1, <2>2, RecordType DEF Scopes
    <2> QED BY <1>1, <2>1, <2>2, <2>3, AppendTxKeeps DEF Approvals
  <1>4. ASSUME NEW r \in Runs, NEW k \in Key, AcceptCancel(r, k)
        PROVE  TablesOK' /\ OtherTypes'
    <2>1. PICK calls \in Orderings(PendingCalls(r), Less) :
              AppendTx(r, Interruption(calls, "RunCancelled"))
      BY <1>4 DEF AcceptCancel
    <2>2. Nonempty(Interruption(calls, "RunCancelled"))
      BY InterruptionNonempty DEF Kinds, ExecutorKinds
    <2>3. /\ Record("run.cancel", k, r) /\ intents' = intents \cup {r}
          /\ UNCHANGED <<approvals, links, mode, todo, crashes>>
      BY <1>4 DEF AcceptCancel
    <2>4. idem' \in [Scopes -> [Key -> Nat]]
      <3>1. r \in Nat
        BY NewIds
      <3> QED BY <2>3, <3>1, RecordType DEF Scopes
    <2> QED BY <1>1, <2>1, <2>2, <2>3, <2>4, AppendTxKeeps DEF Approvals
  <1> QED BY <1>2, <1>3, <1>4 DEF RunNext

\* Deciding a ticket keeps types and references.
LEMMA DecideType ==
    ASSUME TypeOK, ReferencesValid, NEW a \in Approvals,
           NEW state \in Decisions \cup {"timed_out"}, DecideApproval(a, state),
           idem' \in [Scopes -> [Key -> Nat]],
           UNCHANGED <<intents, links, mode, todo, crashes>>
    PROVE  TablesOK' /\ OtherTypes'
  <1>1. /\ Approvals = 1..Len(approvals) /\ approvals \in Seq(ApprovalRow)
        /\ approvals[a] \in ApprovalRow
    BY NewIds DEF TypeOK
  <1>2. approvals[a].call \in Call /\ approvals[a].revision \in Nat /\ a \in Nat
    BY <1>1 DEF ApprovalRow
  <1> DEFINE row == [approvals[a] EXCEPT !.state = state, !.revision = @ + 1]
  <1>3. row \in ApprovalRow /\ row.run = approvals[a].run
    <2> DEFINE States == Decisions \cup {"pending", "timed_out"}
    <2>1. ApprovalRow = [run : Nat, call : Call, state : States, revision : Nat]
      BY DEF ApprovalRow
    <2>2. state \in States /\ approvals[a].revision + 1 \in Nat
      BY <1>2
    <2> HIDE DEF States
    <2> QED BY <1>1, <2>1, <2>2
  <1>4. approvals' = [approvals EXCEPT ![a] = row]
    BY DEF DecideApproval
  <1>5. /\ approvals' \in Seq(ApprovalRow) /\ Approvals' = Approvals
        /\ \A x \in Approvals : approvals'[x].run = approvals[x].run
    <2> HIDE DEF row
    <2> QED BY <1>1, <1>3, <1>4 DEF Approvals
  <1>6. \A x \in Approvals' : approvals'[x].run \in Runs
    BY <1>5 DEF ReferencesValid
  <1>7. approvals[a].run \in Runs /\ intents' \subseteq Runs
    BY DEF ReferencesValid
  <1> DEFINE body == <<Body("ApprovalResolved", {approvals[a].call}, a)>>
  <1>8. Nonempty(body) /\ AppendTx(approvals[a].run, body)
    BY <1>2, OneBody DEF DecideApproval, Kinds
  <1> HIDE DEF body
  <1> QED BY <1>5, <1>6, <1>7, <1>8, AppendTxKeeps

\* Approval operations keep types and references.
LEMMA ApprovalTypeStep ==
    ASSUME TypeOK, ReferencesValid, ApprovalNext
    PROVE  TablesOK' /\ OtherTypes'
  <1>1. ASSUME NEW r \in Runs, NEW c \in Call, CreateApproval(r, c)
        PROVE  TablesOK' /\ OtherTypes'
    <2> DEFINE row == [run |-> r, call |-> c, state |-> "pending", revision |-> 1]
               body == <<Body("ApprovalRequired", {c}, Len(approvals) + 1)>>
    <2>1. /\ approvals \in Seq(ApprovalRow) /\ Len(approvals) \in Nat
          /\ Approvals = 1..Len(approvals) /\ r \in Nat /\ intents \subseteq Runs
          /\ idem \in [Scopes -> [Key -> Nat]]
      BY NewIds DEF TypeOK, ReferencesValid
    <2>2. row \in ApprovalRow /\ row.run = r
      BY <2>1 DEF ApprovalRow
    <2>3. approvals' = Append(approvals, row)
      BY <1>1 DEF CreateApproval
    <2>4. /\ approvals' \in Seq(ApprovalRow) /\ Approvals' = 1..(Len(approvals) + 1)
          /\ \A a \in Approvals : approvals'[a] = approvals[a]
          /\ approvals'[Len(approvals) + 1] = row
      <3> HIDE DEF row
      <3> QED BY <2>1, <2>2, <2>3 DEF Approvals
    <2>5. \A a \in Approvals' : approvals'[a].run \in Runs
      <3> TAKE a \in Approvals'
      <3>1. CASE a \in Approvals
        BY <2>4, <3>1 DEF ReferencesValid
      <3>2. CASE a = Len(approvals) + 1
        BY <2>2, <2>4, <3>2
      <3> QED BY <2>1, <2>4, <3>1, <3>2
    <2>6. Nonempty(body)
      <3>1. "ApprovalRequired" \in Kinds /\ {c} \in SUBSET Call /\ Len(approvals) + 1 \in Nat
        BY <2>1 DEF Kinds
      <3> QED BY <3>1, OneBody
    <2>7. AppendTx(r, body) /\ UNCHANGED <<idem, intents, links, mode, todo, crashes>>
      BY <1>1 DEF CreateApproval
    <2> HIDE DEF row, body
    <2> QED BY <2>1, <2>4, <2>5, <2>6, <2>7, AppendTxKeeps
  <1>2. ASSUME NEW a \in Approvals, NEW k \in Key, NEW revision, NEW decision \in Decisions,
               ResolveApproval(a, k, revision, decision)
        PROVE  TablesOK' /\ OtherTypes'
    <2>1. /\ DecideApproval(a, decision) /\ Record("approval.resolve", k, a)
          /\ UNCHANGED <<intents, links, mode, todo, crashes>>
      BY <1>2 DEF ResolveApproval
    <2>2. a \in Nat
      BY NewIds
    <2>3. idem' \in [Scopes -> [Key -> Nat]]
      BY <2>1, <2>2, RecordType DEF Scopes
    <2> QED BY <2>1, <2>3, DecideType
  <1>3. ASSUME NEW a \in Approvals, ExpireApproval(a)
        PROVE  TablesOK' /\ OtherTypes'
    <2>1. /\ DecideApproval(a, "timed_out")
          /\ UNCHANGED <<idem, intents, links, mode, todo, crashes>>
      BY <1>3 DEF ExpireApproval
    <2>2. idem' \in [Scopes -> [Key -> Nat]]
      BY <2>1 DEF TypeOK
    <2> QED BY <2>1, <2>2, DecideType
  <1> QED BY <1>1, <1>2, <1>3 DEF ApprovalNext

\* Crashes and recovery keep types and references.
LEMMA RecoveryTypeStep ==
    ASSUME TypeOK, ReferencesValid, Crash \/ RecoveryNext
    PROVE  TablesOK' /\ OtherTypes'
  <1>1. TablesOK /\ OtherTypes
    BY TypeParts
  <1>2. CASE Crash
    BY <1>1, <1>2 DEF Crash, TablesOK, OtherTypes, Sessions, Runs, Rows, Approvals
  <1>3. CASE BeginRecovery
    <2>1. \A t \in todo' : t \in [run : Nat, cancelled : BOOLEAN] /\ t.run \in Runs
      <3> TAKE t \in todo'
      <3>1. PICK r \in Runs : t = [run |-> r, cancelled |-> r \in intents]
        BY <1>3, Zenon DEF BeginRecovery
      <3>2. r \in Nat
        BY NewIds
      <3>3. CASE r \in intents
        <4>1. (r \in intents) = TRUE
          BY <3>3
        <4>2. t = [run |-> r, cancelled |-> TRUE]
          BY <3>1, <4>1, Zenon
        <4> QED BY <3>2, <4>2
      <3>4. CASE r \notin intents
        <4>1. (r \in intents) = FALSE
          BY <3>4
        <4>2. t = [run |-> r, cancelled |-> FALSE]
          BY <3>1, <4>1, Zenon
        <4> QED BY <3>2, <4>2
      <3> QED BY <3>3, <3>4
    <2> QED BY <1>1, <1>3, <2>1 DEF BeginRecovery, TablesOK, OtherTypes, Sessions, Runs, Rows, Approvals
  <1>4. ASSUME NEW t \in todo, RecoverRun(t) PROVE TablesOK' /\ OtherTypes'
    <2> DEFINE closing == IF t.cancelled THEN "RunCancelled" ELSE "RunInterrupted"
    <2>1. PICK calls \in Orderings(PendingCalls(t.run), Less) :
              AppendTx(t.run, Interruption(calls, closing))
      BY <1>4 DEF RecoverRun
    <2>2. closing \in Kinds
      BY DEF Kinds, ExecutorKinds
    <2>3. t.run \in Runs /\ intents \subseteq Runs
      BY DEF ReferencesValid
    <2> HIDE DEF closing
    <2>4. Nonempty(Interruption(calls, closing))
      BY <2>2, InterruptionNonempty
    <2>5. todo' \subseteq todo /\ UNCHANGED <<idem, intents, approvals, links, mode, crashes>>
      BY <1>4 DEF RecoverRun
    <2>6. /\ idem' \in [Scopes -> [Key -> Nat]] /\ approvals' \in Seq(ApprovalRow)
          /\ \A a \in Approvals' : approvals'[a].run \in Runs
      BY <1>1, <2>5 DEF OtherTypes, Approvals
    <2> QED BY <2>1, <2>3, <2>4, <2>5, <2>6, AppendTxKeeps
  <1>5. CASE FinishRecovery
    BY <1>1, <1>5 DEF FinishRecovery, TablesOK, OtherTypes, Sessions, Runs, Rows, Approvals
  <1> QED BY <1>2, <1>3, <1>4, <1>5 DEF RecoveryNext

\* Every step keeps types and references.
LEMMA TypeStep == TypeOK /\ ReferencesValid /\ [Next]_vars => (TypeOK /\ ReferencesValid)'
  <1> SUFFICES ASSUME TypeOK, ReferencesValid, [Next]_vars PROVE TablesOK' /\ OtherTypes'
    BY TypeParts
  <1>1. CASE UNCHANGED vars
    <2>1. TablesOK /\ OtherTypes
      BY TypeParts
    <2> QED BY <1>1, <2>1 DEF vars, TablesOK, OtherTypes, Sessions, Runs, Rows, Approvals
  <1>2. CASE Next
    BY <1>2, SessionTypeStep, RunTypeStep, ApprovalTypeStep, RecoveryTypeStep DEF Next
  <1> QED BY <1>1, <1>2

\* Every column keeps its type and every foreign key its target, across crashes.
THEOREM TypeCorrect == Spec => [](TypeOK /\ ReferencesValid)
  <1>1. Init => TypeOK /\ ReferencesValid
    BY DEF Init, TypeOK, ReferencesValid, Sessions, Runs, Rows, Approvals
  <1> QED BY <1>1, TypeStep, PTL DEF Spec

-----------------------------------------------------------------------------
(* The six shapes of a step. *)

Quiet == UNCHANGED <<sessions, runs, events>>

NewEmptySession == /\ sessions' = Append(sessions, [activeRun |-> 0])
                   /\ UNCHANGED <<runs, events>>

FreshRun(s, purpose) == [session |-> s, status |-> "running", lastSeq |-> 0, purpose |-> purpose]

NewTurn(s) ==
    /\ sessions[s].activeRun # 0 => IsTerminal(runs[sessions[s].activeRun].status)
    /\ runs' = Append(runs, FreshRun(s, "turn"))
    /\ sessions' = [sessions EXCEPT ![s].activeRun = NewRun]
    /\ events' = events

NewAuxiliary(s) ==
    /\ runs' = Append(runs, FreshRun(s, "auxiliary"))
    /\ UNCHANGED <<sessions, events>>

SeededSession(middle) ==
    /\ SeedEvents(middle)
    /\ runs' = Append(runs, SeedRun(NewSession, middle))
    /\ sessions' = Append(sessions, [activeRun |-> 0])

Superseded(s) == [r \in Runs |-> IF runs[r].session = s
                                 THEN [runs[r] EXCEPT !.status = "rewound"]
                                 ELSE runs[r]]

Rewound(s, middle) ==
    /\ \A r \in Runs : runs[r].session = s => IsTerminal(runs[r].status)
    /\ SeedEvents(middle)
    /\ runs' = Append(Superseded(s), SeedRun(s, middle))
    /\ sessions' = [sessions EXCEPT ![s].activeRun = 0]

\* Only the last event of a transaction ends a run; none in the middle of a seed run
\* carries a status at all, nor is it a steer of that run.
EndsLast(bodies) == \A i \in 1..Len(bodies) : bodies[i].kind \in TerminalKinds => i = Len(bodies)
Retold(middle) == \A i \in 1..Len(middle) : middle[i].kind \notin StatusKinds \cup {"SteerItem"}

SessionShape ==
    \/ Quiet
    \/ NewEmptySession
    \/ \E s \in Sessions : NewTurn(s)
    \/ \E s \in Sessions : NewAuxiliary(s)
    \/ \E middle \in Seq(BodyType) : Retold(middle) /\ SeededSession(middle)
    \/ \E s \in Sessions, middle \in Seq(BodyType) : Retold(middle) /\ Rewound(s, middle)

Shape ==
    \/ SessionShape
    \/ \E r \in Runs, bodies \in Seq(BodyType) : Len(bodies) > 0 /\ EndsLast(bodies)
                                               /\ AppendTx(r, bodies)

\* A transaction of one event.
LEMMA OneBodyEndsLast ==
    ASSUME NEW body
    PROVE  EndsLast(<<body>>)
  BY DEF EndsLast

\* An interruption closes with its last event only.
LEMMA InterruptionEndsLast ==
    ASSUME TypeOK, NEW r, NEW calls \in Orderings(PendingCalls(r), Less), NEW closing \in Kinds
    PROVE  EndsLast(Interruption(calls, closing))
  <1>1. calls \in Seq(Call)
    BY PendingOrderings
  <1>2. /\ Len(Interruption(calls, closing)) = Len(calls) + 1 /\ Len(calls) \in Nat
        /\ \A i \in 1..Len(calls) : Interruption(calls, closing)[i].kind = "ToolFailed"
    BY <1>1, InterruptionType
  <1> QED BY <1>2 DEF EndsLast, TerminalKinds

\* What a fork or a rewind copies is conversation, never an end, and its own item.
LEMMA CopiesAreRetold ==
    ASSUME TypeOK, NEW s, NEW cursor, NEW maxSeq,
           NEW source \in Orderings(CopiedRows(s, cursor, maxSeq), CopyOrder)
    PROVE  Retold(CopyBodies(source))
  <1>1. source \in Seq(Rows) /\ Len(CopyBodies(source)) = Len(source)
    BY CopyOrderings, CopyBodiesType
  <1>2. source \in [1..Cardinality(CopiedRows(s, cursor, maxSeq)) -> CopiedRows(s, cursor, maxSeq)]
    BY DEF Orderings
  <1>3. \A i \in 1..Len(source) : source[i] \in CopiedRows(s, cursor, maxSeq)
    <2>1. DOMAIN source = 1..Len(source)
      BY <1>1
    <2> QED BY <1>2, <2>1, Zenon
  <1>4. \A j \in CopiedRows(s, cursor, maxSeq) : events[j].kind \notin StatusKinds
    BY DEF CopiedRows, IsHistoryKind, ToolResultKinds, TerminalKinds, StatusKinds
  <1>5. \A i \in 1..Len(source) : CopyBodies(source)[i].kind = CopiedKind(events[source[i]].kind)
    BY DEF CopyBodies
  <1>6. \A i \in 1..Len(source) : events[source[i]].kind \in Kinds
    <2>1. \A j \in CopiedRows(s, cursor, maxSeq) : j \in Rows
      BY DEF CopiedRows, VisibleRows
    <2>2. \A j \in Rows : events[j] \in EventRow
      BY DEF TypeOK, Rows
    <2>3. \A j \in Rows : events[j].kind \in Kinds
      BY <2>2 DEF EventRow
    <2> QED BY <1>3, <2>1, <2>3
  <1>7. "UserItem" \notin StatusKinds
    BY DEF StatusKinds, TerminalKinds
  <1>8. ASSUME NEW i \in 1..Len(source)
        PROVE  CopyBodies(source)[i].kind \notin StatusKinds \cup {"SteerItem"}
    <2>1. events[source[i]].kind \notin StatusKinds
      BY <1>3, <1>4
    <2> QED BY <1>5, <1>6, <1>7, <2>1, CopiedKindType
  <1> QED BY <1>1, <1>8 DEF Retold

\* Session operations have one of the shapes.
LEMMA SessionShapes ==
    ASSUME TypeOK, ReferencesValid, SessionNext
    PROVE  SessionShape
  <1>1. ASSUME NEW k \in Key, CreateSession(k) PROVE SessionShape
    BY <1>1 DEF CreateSession, SessionShape, NewEmptySession
  <1>2. ASSUME NEW s \in Sessions, NEW k \in Key, StartRun(s, k) PROVE SessionShape
    <2>1. NewTurn(s)
      BY <1>2 DEF StartRun, NewTurn, FreshRun
    <2> QED BY <2>1 DEF SessionShape
  <1>3. ASSUME NEW s \in Sessions, StartAuxiliaryRun(s) PROVE SessionShape
    <2>1. NewAuxiliary(s)
      BY <1>3 DEF StartAuxiliaryRun, NewAuxiliary, FreshRun
    <2> QED BY <2>1 DEF SessionShape
  <1>4. ASSUME NEW s \in Sessions, NEW k \in Key, NEW cursor, NEW maxSeq,
               ForkSession(s, k, cursor, maxSeq)
        PROVE  SessionShape
    <2>1. PICK source \in Orderings(CopiedRows(s, cursor, maxSeq), CopyOrder) :
              /\ SeedEvents(CopyBodies(source))
              /\ runs' = Append(runs, SeedRun(NewSession, source))
      BY <1>4 DEF ForkSession
    <2>2. CopyBodies(source) \in Seq(BodyType) /\ Len(CopyBodies(source)) = Len(source)
      BY CopyOrderings, CopyBodiesType
    <2>3. SeedRun(NewSession, source) = SeedRun(NewSession, CopyBodies(source))
      BY <2>2 DEF SeedRun
    <2>4. SeededSession(CopyBodies(source))
      BY <1>4, <2>1, <2>3 DEF SeededSession, ForkSession
    <2>5. Retold(CopyBodies(source))
      BY CopiesAreRetold
    <2> QED BY <2>2, <2>4, <2>5 DEF SessionShape
  <1>5. ASSUME NEW s \in Sessions, NEW k \in Key, NEW cursor \in Nat, RewindSession(s, k, cursor)
        PROVE  SessionShape
    <2>1. PICK source \in Orderings(CopiedRows(s, cursor, Len(events)), CopyOrder) :
              LET middle == Append(CopyBodies(source), Body("RunRewound", {}, cursor))
              IN  SeedEvents(middle) /\ runs' = Append(Superseded(s), SeedRun(s, middle))
      BY <1>5 DEF RewindSession, Superseded
    <2> DEFINE middle == Append(CopyBodies(source), Body("RunRewound", {}, cursor))
    <2>2. middle \in Seq(BodyType)
      <3>1. CopyBodies(source) \in Seq(BodyType)
        BY CopyOrderings, CopyBodiesType
      <3>2. Body("RunRewound", {}, cursor) \in BodyType
        BY DEF Body, BodyType, Kinds
      <3> QED BY <3>1, <3>2
    <2>3. Rewound(s, middle)
      BY <1>5, <2>1 DEF RewindSession, Rewound
    <2>4. Retold(middle)
      <3>1. Retold(CopyBodies(source)) /\ CopyBodies(source) \in Seq(BodyType)
        BY CopiesAreRetold, CopyOrderings, CopyBodiesType
      <3>2. Body("RunRewound", {}, cursor).kind \notin StatusKinds \cup {"SteerItem"}
        BY DEF Body, TerminalKinds, StatusKinds
      <3> QED BY <3>1, <3>2 DEF Retold
    <2> HIDE DEF middle
    <2> QED BY <2>2, <2>3, <2>4 DEF SessionShape
  <1>6. ASSUME NEW c \in Conversation, NEW k \in Key, NEW n \in Nat, LinkConversation(c, k, n)
        PROVE  SessionShape
    <2>1. CASE LinkNewConversation(c, k, n)
      <3> DEFINE imported == [i \in 1..n |-> Body("UserItem", {}, 0)]
      <3>1. Body("UserItem", {}, 0) \in BodyType
        BY DEF Body, BodyType, Kinds, ExecutorKinds
      <3>2. imported \in Seq(BodyType)
        BY <3>1
      <3>3. SeededSession(imported)
        BY <2>1 DEF LinkNewConversation, SeededSession
      <3>4. Retold(imported)
        BY DEF Retold, Body, TerminalKinds, StatusKinds
      <3> HIDE DEF imported
      <3> QED BY <3>2, <3>3, <3>4 DEF SessionShape
    <2>2. CASE LinkKnownConversation(c, k)
      BY <2>2 DEF LinkKnownConversation, SessionShape, Quiet
    <2> QED BY <1>6, <2>1, <2>2 DEF LinkConversation
  <1>7. ASSUME NEW c \in Conversation, NEW s \in Sessions, NEW k \in Key,
               BindSessionToConversation(c, s, k)
        PROVE  SessionShape
    BY <1>7 DEF BindSessionToConversation, SessionShape, Quiet
  <1>8. 0..MaxImported \subseteq Nat
    BY StoreAssumption
  <1>9. \A s : CopyCursors(s) \subseteq Nat
    BY CursorsType
  <1> QED BY <1>1, <1>2, <1>3, <1>4, <1>5, <1>6, <1>7, <1>8, <1>9 DEF SessionNext

\* Every step of the store changes sessions, runs and events in one of the shapes.
LEMMA StepShapes ==
    ASSUME TypeOK, ReferencesValid, [Next]_vars
    PROVE  Shape
  <1>1. ASSUME NEW r \in Runs, NEW bodies, Nonempty(bodies), EndsLast(bodies), AppendTx(r, bodies)
        PROVE  Shape
    BY <1>1 DEF Shape, SessionShape, Nonempty
  <1>2. CASE RunNext
    <2>1. ASSUME NEW r \in Runs, NEW kind \in AppendKinds, NEW calls \in EventCalls(kind),
                 NEW ref \in EventRefs(r, kind), AppendEventAuto(r, kind, calls, ref)
          PROVE  Shape
      <3>1. Nonempty(<<Body(kind, calls, ref)>>)
        BY EventArguments, OneBody
      <3>2. AppendTx(r, <<Body(kind, calls, ref)>>)
        BY <2>1 DEF AppendEventAuto
      <3> QED BY <1>1, <3>1, <3>2, OneBodyEndsLast
    <2>2. ASSUME NEW r \in Runs, NEW k \in Key, SteerRun(r, k) PROVE Shape
      <3>1. Nonempty(<<Body("SteerItem", {}, 0)>>)
        BY OneBody DEF Kinds, ExecutorKinds
      <3>2. AppendTx(r, <<Body("SteerItem", {}, 0)>>)
        BY <2>2 DEF SteerRun
      <3> QED BY <1>1, <3>1, <3>2, OneBodyEndsLast
    <2>3. ASSUME NEW r \in Runs, NEW k \in Key, AcceptCancel(r, k) PROVE Shape
      <3>1. PICK calls \in Orderings(PendingCalls(r), Less) :
                AppendTx(r, Interruption(calls, "RunCancelled"))
        BY <2>3 DEF AcceptCancel
      <3>2. Nonempty(Interruption(calls, "RunCancelled")) /\ EndsLast(Interruption(calls, "RunCancelled"))
        BY InterruptionNonempty, InterruptionEndsLast DEF Kinds, ExecutorKinds
      <3> QED BY <1>1, <3>1, <3>2
    <2> QED BY <1>2, <2>1, <2>2, <2>3 DEF RunNext
  <1>3. ASSUME NEW a \in Approvals, NEW state, DecideApproval(a, state) PROVE Shape
    <2> DEFINE body == <<Body("ApprovalResolved", {approvals[a].call}, a)>>
    <2>1. approvals[a] \in ApprovalRow /\ a \in Nat
      BY NewIds DEF TypeOK
    <2>2. {approvals[a].call} \in SUBSET Call /\ approvals[a].run \in Runs
      BY <2>1 DEF ApprovalRow, ReferencesValid
    <2>3. Nonempty(body)
      BY <2>1, <2>2, OneBody DEF Kinds
    <2>4. AppendTx(approvals[a].run, body) /\ EndsLast(body)
      BY <1>3, OneBodyEndsLast DEF DecideApproval
    <2> HIDE DEF body
    <2> QED BY <1>1, <2>2, <2>3, <2>4
  <1>4. CASE ApprovalNext
    <2>1. ASSUME NEW r \in Runs, NEW c \in Call, CreateApproval(r, c) PROVE Shape
      <3> DEFINE body == <<Body("ApprovalRequired", {c}, Len(approvals) + 1)>>
      <3>1. Nonempty(body)
        <4>1. Len(approvals) + 1 \in Nat /\ "ApprovalRequired" \in Kinds /\ {c} \in SUBSET Call
          BY NewIds DEF Kinds
        <4> QED BY <4>1, OneBody
      <3>2. AppendTx(r, body) /\ EndsLast(body)
        BY <2>1, OneBodyEndsLast DEF CreateApproval
      <3> HIDE DEF body
      <3> QED BY <1>1, <3>1, <3>2
    <2> QED BY <1>3, <1>4, <2>1 DEF ApprovalNext, ResolveApproval, ExpireApproval
  <1>5. CASE Crash \/ RecoveryNext
    <2>1. ASSUME NEW t \in todo, RecoverRun(t) PROVE Shape
      <3> DEFINE closing == IF t.cancelled THEN "RunCancelled" ELSE "RunInterrupted"
      <3>1. PICK calls \in Orderings(PendingCalls(t.run), Less) :
                AppendTx(t.run, Interruption(calls, closing))
        BY <2>1 DEF RecoverRun
      <3>2. closing \in Kinds /\ t.run \in Runs
        BY DEF Kinds, ExecutorKinds, ReferencesValid
      <3> HIDE DEF closing
      <3>3. Nonempty(Interruption(calls, closing)) /\ EndsLast(Interruption(calls, closing))
        BY <3>2, InterruptionNonempty, InterruptionEndsLast
      <3> QED BY <1>1, <3>1, <3>2, <3>3
    <2>2. CASE Crash \/ BeginRecovery \/ FinishRecovery
      BY <2>2 DEF Crash, BeginRecovery, FinishRecovery, Shape, SessionShape, Quiet
    <2> QED BY <1>5, <2>1, <2>2 DEF RecoveryNext
  <1>6. CASE UNCHANGED vars
    BY <1>6 DEF vars, Shape, SessionShape, Quiet
  <1> QED BY <1>2, <1>4, <1>5, <1>6, SessionShapes DEF Next, Shape

-----------------------------------------------------------------------------
(* What the shapes do, row by row. *)

\* A run inserted after the old rows.
LEMMA InsertedRun ==
    ASSUME TypeOK, NEW old \in Seq(RunRow), Len(old) = Len(runs), NEW row \in RunRow,
           runs' = Append(old, row)
    PROVE  /\ Runs' = Runs \cup {NewRun} /\ NewRun \notin Runs /\ NewRun # 0
           /\ \A r \in Runs : runs'[r] = old[r]
           /\ runs'[NewRun] = row
  <1>1. Len(runs) \in Nat /\ Runs = 1..Len(runs) /\ NewRun = Len(runs) + 1
    BY NewIds
  <1>2. /\ Len(runs') = Len(runs) + 1 /\ Runs' = 1..Len(runs')
        /\ \A r \in 1..Len(runs) : runs'[r] = old[r]
        /\ runs'[Len(runs) + 1] = row
    BY <1>1 DEF Runs
  <1> QED BY <1>1, <1>2

\* The row start_run and start_auxiliary_run insert.
LEMMA FreshRunRow ==
    ASSUME TypeOK, NEW s \in Sessions, NEW purpose \in Purposes
    PROVE  /\ FreshRun(s, purpose) \in RunRow
           /\ FreshRun(s, purpose).session = s /\ FreshRun(s, purpose).purpose = purpose
           /\ FreshRun(s, purpose).status = "running" /\ FreshRun(s, purpose).lastSeq = 0
  BY NewIds DEF FreshRun, RunRow, Statuses

\* The row a fork, a rewind or an import inserts.
LEMMA SeedRunRow ==
    ASSUME NEW s \in Nat, NEW middle \in Seq(BodyType)
    PROVE  /\ SeedRun(s, middle) \in RunRow
           /\ SeedRun(s, middle).session = s /\ SeedRun(s, middle).purpose = "seed"
           /\ SeedRun(s, middle).status = "completed"
           /\ SeedRun(s, middle).lastSeq = Len(middle) + 2
  BY DEF SeedRun, RunRow, Statuses, Purposes

\* Only the active run of one session changes.
LEMMA SessionUpdate ==
    ASSUME TypeOK, NEW s \in Sessions, NEW x \in Nat,
           sessions' = [sessions EXCEPT ![s].activeRun = x]
    PROVE  /\ Sessions' = Sessions /\ sessions'[s].activeRun = x
           /\ \A y \in Sessions : y # s => sessions'[y] = sessions[y]
  <1>1. sessions[s] \in SessionRow
    BY NewIds DEF TypeOK
  <1> DEFINE row == [sessions[s] EXCEPT !.activeRun = x]
  <1>2. row.activeRun = x /\ sessions' = [sessions EXCEPT ![s] = row]
    BY <1>1 DEF SessionRow
  <1> HIDE DEF row
  <1> QED BY <1>2 DEF Sessions

\* The rows a rewind supersedes.
LEMMA SupersededRows ==
    ASSUME TypeOK, NEW s
    PROVE  /\ Superseded(s) \in Seq(RunRow) /\ Len(Superseded(s)) = Len(runs)
           /\ \A r \in Runs :
                 /\ Superseded(s)[r].session = runs[r].session
                 /\ Superseded(s)[r].lastSeq = runs[r].lastSeq
                 /\ Superseded(s)[r].status = IF runs[r].session = s THEN "rewound"
                                              ELSE runs[r].status
                 /\ runs[r].session # s => Superseded(s)[r] = runs[r]
  <1>1. Superseded(s) \in Seq(RunRow) /\ Len(Superseded(s)) = Len(runs)
    BY RewoundRows DEF Superseded
  <1>2. \A r \in Runs : runs[r] \in RunRow
    BY NewIds DEF TypeOK
  <1>3. \A r \in Runs : Superseded(s)[r] = IF runs[r].session = s
                                           THEN [runs[r] EXCEPT !.status = "rewound"]
                                           ELSE runs[r]
    BY DEF Superseded
  <1> QED BY <1>1, <1>2, <1>3 DEF RunRow

\* The two ways the code says that a run has ended agree.
LEMMA EndedIsTerminal ==
    ASSUME TypeOK, NEW r \in Runs
    PROVE  Live(r) <=> ~IsTerminal(runs[r].status)
  <1>1. runs[r] \in RunRow
    BY NewIds DEF TypeOK
  <1> QED BY <1>1 DEF Live, IsTerminal, RunRow, Statuses

-----------------------------------------------------------------------------
(* The active-run column names the live turn. *)

LiveStatuses == {"queued", "running", "awaiting_approval"}

\* Each shape keeps OneLiveTurn.
LEMMA TurnStep ==
    ASSUME TypeOK, ReferencesValid, OneLiveTurn, Shape
    PROVE  OneLiveTurn'
  <1> DEFINE TurnOK(r) == runs'[r].status \in LiveStatuses /\ runs'[r].purpose = "turn"
                             => sessions'[runs'[r].session].activeRun = r
             ActiveOK(s) == sessions'[s].activeRun # 0 =>
                               /\ sessions'[s].activeRun \in Runs'
                               /\ runs'[sessions'[s].activeRun].status \in LiveStatuses
                               /\ runs'[sessions'[s].activeRun].session = s
  <1>1. SUFFICES (\A r \in Runs' : TurnOK(r)) /\ (\A s \in Sessions' : ActiveOK(s))
    BY DEF OneLiveTurn, Live, LiveStatuses
  <1>2. /\ \A r \in Runs : runs[r].status \in LiveStatuses /\ runs[r].purpose = "turn"
                              => sessions[runs[r].session].activeRun = r
        /\ \A s \in Sessions : sessions[s].activeRun # 0 =>
                               /\ sessions[s].activeRun \in Runs
                               /\ runs[sessions[s].activeRun].status \in LiveStatuses
                               /\ runs[sessions[s].activeRun].session = s
    BY DEF OneLiveTurn, Live, LiveStatuses
  <1>3. \A r \in Runs : /\ runs[r] \in RunRow /\ runs[r].session \in Sessions
                        /\ r # 0 /\ runs[r].session \in Nat
    BY NewIds DEF TypeOK, ReferencesValid
  <1>4. CASE Quiet
    BY <1>2, <1>4 DEF Quiet, Runs, Sessions
  <1>5. ASSUME sessions' = Append(sessions, [activeRun |-> 0]), Runs \subseteq Runs',
               \A r \in Runs : runs'[r] = runs[r],
               \A r \in Runs' \ Runs : runs'[r].status \notin LiveStatuses
        PROVE  (\A r \in Runs' : TurnOK(r)) /\ (\A s \in Sessions' : ActiveOK(s))
    <2>1. /\ Sessions' = Sessions \cup {NewSession} /\ sessions'[NewSession].activeRun = 0
          /\ \A s \in Sessions : sessions'[s] = sessions[s]
      BY <1>5, AppendSession, NewIds
    <2>2. /\ Runs \subseteq Runs' /\ \A r \in Runs : runs'[r] = runs[r]
          /\ \A r \in Runs' \ Runs : runs'[r].status \notin LiveStatuses
      BY <1>5
    <2>3. \A r \in Runs : TurnOK(r)
      BY <1>2, <1>3, <2>1, <2>2
    <2>4. \A s \in Sessions : ActiveOK(s)
      BY <1>2, <2>1, <2>2
    <2> QED BY <2>1, <2>2, <2>3, <2>4
  <1>6. CASE NewEmptySession
    BY <1>5, <1>6 DEF NewEmptySession, Runs
  <1>7. ASSUME NEW s \in Sessions, NewTurn(s)
        PROVE  (\A r \in Runs' : TurnOK(r)) /\ (\A x \in Sessions' : ActiveOK(x))
    <2> DEFINE row == FreshRun(s, "turn")
    <2>1. row \in RunRow /\ row.session = s /\ row.status = "running"
      BY FreshRunRow DEF Purposes
    <2>2. runs' = Append(runs, row) /\ runs \in Seq(RunRow)
      BY <1>7 DEF NewTurn, TypeOK
    <2> HIDE DEF row
    <2>3. /\ Runs' = Runs \cup {NewRun} /\ NewRun \notin Runs /\ NewRun # 0
          /\ \A r \in Runs : runs'[r] = runs[r]
          /\ runs'[NewRun] = row
      BY <2>1, <2>2, InsertedRun
    <2>4. /\ Sessions' = Sessions /\ sessions'[s].activeRun = NewRun
          /\ \A y \in Sessions : y # s => sessions'[y] = sessions[y]
      <3>1. NewRun \in Nat /\ sessions' = [sessions EXCEPT ![s].activeRun = NewRun]
        BY <1>7, NewIds DEF NewTurn
      <3> QED BY <3>1, SessionUpdate
    <2>5. sessions[s].activeRun = 0
      <3>1. ASSUME sessions[s].activeRun # 0 PROVE FALSE
        <4>1. IsTerminal(runs[sessions[s].activeRun].status)
          BY <1>7, <3>1 DEF NewTurn
        <4>2. runs[sessions[s].activeRun].status \in LiveStatuses
          BY <1>2, <3>1
        <4> QED BY <4>1, <4>2 DEF IsTerminal, LiveStatuses
      <3> QED BY <3>1
    <2>6. \A r \in Runs' : TurnOK(r)
      <3>1. TurnOK(NewRun)
        BY <2>1, <2>3, <2>4
      <3>2. \A r \in Runs : TurnOK(r)
        BY <1>2, <1>3, <2>3, <2>4, <2>5
      <3> QED BY <2>3, <3>1, <3>2
    <2>7. \A x \in Sessions : ActiveOK(x)
      <3>1. ActiveOK(s)
        BY <2>1, <2>3, <2>4 DEF LiveStatuses
      <3>2. \A x \in Sessions : x # s => ActiveOK(x)
        BY <1>2, <2>3, <2>4
      <3> QED BY <3>1, <3>2
    <2> QED BY <2>4, <2>6, <2>7
  <1>8. ASSUME NEW s \in Sessions, NewAuxiliary(s)
        PROVE  (\A r \in Runs' : TurnOK(r)) /\ (\A x \in Sessions' : ActiveOK(x))
    <2> DEFINE row == FreshRun(s, "auxiliary")
    <2>1. row \in RunRow /\ row.purpose = "auxiliary"
      BY FreshRunRow DEF Purposes
    <2>2. runs' = Append(runs, row) /\ runs \in Seq(RunRow) /\ sessions' = sessions
      BY <1>8 DEF NewAuxiliary, TypeOK
    <2> HIDE DEF row
    <2>3. /\ Runs' = Runs \cup {NewRun} /\ NewRun \notin Runs /\ NewRun # 0
          /\ \A r \in Runs : runs'[r] = runs[r]
          /\ runs'[NewRun] = row
      BY <2>1, <2>2, InsertedRun
    <2>4. Sessions' = Sessions /\ sessions' = sessions
      BY <2>2 DEF Sessions
    <2>5. TurnOK(NewRun)
      BY <2>1, <2>3
    <2>6. \A r \in Runs : TurnOK(r)
      BY <1>2, <2>3, <2>4
    <2>7. \A x \in Sessions : ActiveOK(x)
      BY <1>2, <2>3, <2>4
    <2> QED BY <2>3, <2>4, <2>5, <2>6, <2>7
  <1>9. ASSUME NEW r \in Runs, NEW bodies \in Seq(BodyType), Len(bodies) > 0, AppendTx(r, bodies)
        PROVE  (\A x \in Runs' : TurnOK(x)) /\ (\A s \in Sessions' : ActiveOK(s))
    <2>1. /\ Runs' = Runs /\ Sessions' = Sessions /\ runs' \in Seq(RunRow)
          /\ \A x \in Runs : /\ runs'[x].session = runs[x].session
                             /\ runs'[x].purpose = runs[x].purpose
                             /\ x # r => runs'[x] = runs[x]
          /\ \A s \in Sessions :
                sessions'[s].activeRun =
                   IF /\ IsTerminal(runs'[r].status) /\ s = runs[r].session
                      /\ sessions[s].activeRun = r
                   THEN 0 ELSE sessions[s].activeRun
      BY <1>9, AppendTxEffect DEF Runs, Sessions, Nonempty
    <2>2. IsTerminal(runs'[r].status) <=> runs'[r].status \notin LiveStatuses
      <3>1. runs'[r] \in RunRow
        BY <2>1, NewIds DEF Runs
      <3> QED BY <3>1 DEF RunRow, Statuses, IsTerminal, LiveStatuses
    <2>3. runs[r].status \in LiveStatuses
      <3>1. ~IsTerminal(runs[r].status)
        BY <1>9 DEF AppendTx, AcceptsEvent
      <3> QED BY <1>3, <3>1 DEF RunRow, Statuses, IsTerminal, LiveStatuses
    <2>4. \A x \in Runs : TurnOK(x)
      <3> TAKE x \in Runs
      <3>1. CASE x = r
        BY <1>2, <1>3, <2>1, <2>2, <2>3, <3>1
      <3>2. CASE x # r
        <4>1. runs'[x] = runs[x] /\ runs[x].session \in Sessions
          BY <1>3, <2>1, <3>2
        <4>2. HAVE runs'[x].status \in LiveStatuses /\ runs'[x].purpose = "turn"
        <4>3. sessions[runs[x].session].activeRun = x
          BY <1>2, <4>1, <4>2
        <4> QED BY <2>1, <3>2, <4>1, <4>3
      <3> QED BY <3>1, <3>2
    <2>5. \A s \in Sessions : ActiveOK(s)
      <3> TAKE s \in Sessions
      <3> HAVE sessions'[s].activeRun # 0
      <3>1. sessions'[s].activeRun = sessions[s].activeRun
            /\ ~(IsTerminal(runs'[r].status) /\ s = runs[r].session /\ sessions[s].activeRun = r)
        BY <2>1
      <3> DEFINE a == sessions[s].activeRun
      <3>2. a \in Runs /\ runs[a].status \in LiveStatuses /\ runs[a].session = s
        BY <1>2, <3>1
      <3> HIDE DEF a
      <3>3. runs'[a].status \in LiveStatuses /\ runs'[a].session = s
        BY <2>1, <2>2, <3>1, <3>2 DEF a
      <3> QED BY <2>1, <3>1, <3>2, <3>3 DEF a
    <2> QED BY <2>1, <2>4, <2>5
  <1>10. ASSUME NEW middle \in Seq(BodyType), SeededSession(middle)
         PROVE  (\A x \in Runs' : TurnOK(x)) /\ (\A s \in Sessions' : ActiveOK(s))
    <2> DEFINE row == SeedRun(NewSession, middle)
    <2>1. row \in RunRow /\ row.status = "completed"
      BY SeedRunRow, NewIds
    <2>2. runs' = Append(runs, row) /\ runs \in Seq(RunRow)
      BY <1>10 DEF SeededSession, TypeOK
    <2> HIDE DEF row
    <2>3. /\ Runs' = Runs \cup {NewRun} /\ \A r \in Runs : runs'[r] = runs[r]
          /\ runs'[NewRun] = row
      BY <2>1, <2>2, InsertedRun
    <2> QED BY <1>5, <1>10, <2>1, <2>3 DEF SeededSession, LiveStatuses
  <1>11. ASSUME NEW s \in Sessions, NEW middle \in Seq(BodyType), Rewound(s, middle)
         PROVE  (\A x \in Runs' : TurnOK(x)) /\ (\A y \in Sessions' : ActiveOK(y))
    <2> DEFINE row == SeedRun(s, middle)
               old == Superseded(s)
    <2>1. row \in RunRow /\ row.status = "completed"
      BY SeedRunRow, NewIds
    <2>2. /\ old \in Seq(RunRow) /\ Len(old) = Len(runs)
          /\ \A r \in Runs : /\ old[r].session = runs[r].session
                             /\ runs[r].session = s => old[r].status = "rewound"
                             /\ runs[r].session # s => old[r] = runs[r]
      BY SupersededRows
    <2>3. runs' = Append(old, row)
      BY <1>11 DEF Rewound
    <2> HIDE DEF row, old
    <2>4. /\ Runs' = Runs \cup {NewRun} /\ \A r \in Runs : runs'[r] = old[r]
          /\ runs'[NewRun] = row
      BY <2>1, <2>2, <2>3, InsertedRun
    <2>5. /\ Sessions' = Sessions /\ sessions'[s].activeRun = 0
          /\ \A y \in Sessions : y # s => sessions'[y] = sessions[y]
      BY <1>11, SessionUpdate DEF Rewound
    <2>6. \A x \in Runs' : TurnOK(x)
      <3>1. TurnOK(NewRun)
        BY <2>1, <2>4 DEF LiveStatuses
      <3>2. \A r \in Runs : TurnOK(r)
        BY <1>2, <1>3, <2>2, <2>4, <2>5 DEF LiveStatuses
      <3> QED BY <2>4, <3>1, <3>2
    <2>7. \A y \in Sessions : ActiveOK(y)
      BY <1>2, <2>2, <2>4, <2>5
    <2> QED BY <2>5, <2>6, <2>7
  <1> HIDE DEF TurnOK, ActiveOK
  <1> QED BY <1>4, <1>6, <1>7, <1>8, <1>9, <1>10, <1>11 DEF Shape, SessionShape

\* At most one turn of a session is live and active_run_id names it, whatever
\* mixture of prompts, steers, cancels, approvals, forks, rewinds, crashes and
\* partial recoveries ran: start_run's single-column guard is enough.
THEOREM OneTurnAtATime == Spec => []OneLiveTurn
  <1>1. Init => OneLiveTurn
    BY DEF Init, OneLiveTurn, Runs, Sessions
  <1>2. TypeOK /\ ReferencesValid /\ OneLiveTurn /\ [Next]_vars => OneLiveTurn'
    BY StepShapes, TurnStep
  <1> QED BY <1>1, <1>2, TypeCorrect, PTL DEF Spec

-----------------------------------------------------------------------------
(* Ended runs are sealed and the log is append-only. *)

\* Events appended after the old ones.
LEMMA OldRowsKept ==
    ASSUME TypeOK, events' \in Seq(EventRow), NEW n \in Nat, Len(events') = Len(events) + n,
           \A i \in 1..Len(events) : events'[i] = events[i]
    PROVE  \A i \in Rows : i \in Rows' /\ events'[i] = events[i]
  <1>1. Len(events) \in Nat /\ Rows = 1..Len(events) /\ Rows' = 1..Len(events')
    BY NewIds DEF Rows
  <1> QED BY <1>1

\* Each shape is a sealed step.
LEMMA SealedStep ==
    ASSUME TypeOK, ReferencesValid, Shape
    PROVE  Sealed
  <1> DEFINE LogKept == \A i \in Rows : i \in Rows' /\ events'[i] = events[i]
             EndKept(r) == ~Live(r) =>
                               /\ runs'[r].lastSeq = runs[r].lastSeq
                               /\ runs'[r].status \in {runs[r].status, "rewound"}
  <1>1. SUFFICES LogKept /\ \A r \in Runs : EndKept(r)
    BY DEF Sealed
  <1>2. CASE Quiet \/ NewEmptySession
    BY <1>2 DEF Quiet, NewEmptySession, Rows
  <1>3. ASSUME NEW s \in Sessions, NEW purpose \in Purposes,
               runs' = Append(runs, FreshRun(s, purpose)), events' = events
        PROVE  LogKept /\ \A r \in Runs : EndKept(r)
    <2> DEFINE row == FreshRun(s, purpose)
    <2>1. row \in RunRow /\ runs' = Append(runs, row) /\ runs \in Seq(RunRow)
      BY <1>3, FreshRunRow DEF TypeOK
    <2> HIDE DEF row
    <2>2. \A r \in Runs : runs'[r] = runs[r]
      BY <2>1, InsertedRun
    <2> QED BY <1>3, <2>2 DEF Rows
  <1>4. CASE \E s \in Sessions : NewTurn(s) \/ NewAuxiliary(s)
    BY <1>3, <1>4 DEF NewTurn, NewAuxiliary, Purposes
  <1>5. ASSUME NEW r \in Runs, NEW bodies \in Seq(BodyType), Len(bodies) > 0, AppendTx(r, bodies)
        PROVE  LogKept /\ \A x \in Runs : EndKept(x)
    <2>1. /\ events' \in Seq(EventRow) /\ Len(events') = Len(events) + Len(bodies)
          /\ \A i \in 1..Len(events) : events'[i] = events[i]
          /\ \A x \in Runs : x # r => runs'[x] = runs[x]
      BY <1>5, AppendTxEffect DEF Nonempty
    <2>2. LogKept
      <3>1. Len(bodies) \in Nat
        OBVIOUS
      <3> QED BY <2>1, <3>1, OldRowsKept
    <2>3. Live(r)
      BY <1>5, EndedIsTerminal DEF AppendTx, AcceptsEvent
    <2> QED BY <2>1, <2>2, <2>3
  <1>6. ASSUME NEW s \in Nat, NEW middle \in Seq(BodyType), SeedEvents(middle),
               NEW old \in Seq(RunRow), Len(old) = Len(runs),
               runs' = Append(old, SeedRun(s, middle)),
               \A r \in Runs : /\ old[r].lastSeq = runs[r].lastSeq
                               /\ old[r].status \in {runs[r].status, "rewound"}
        PROVE  LogKept /\ \A r \in Runs : EndKept(r)
    <2> DEFINE row == SeedRun(s, middle)
    <2>1. row \in RunRow /\ runs' = Append(old, row)
      BY <1>6, SeedRunRow
    <2> HIDE DEF row
    <2>2. \A r \in Runs : runs'[r] = old[r]
      BY <1>6, <2>1, InsertedRun
    <2>3. /\ events' \in Seq(EventRow) /\ Len(events') = Len(events) + Len(middle) + 2
          /\ \A i \in 1..Len(events) : events'[i] = events[i]
      BY <1>6, SeedEventsEffect
    <2>4. Len(middle) + 2 \in Nat /\ Len(events') = Len(events) + (Len(middle) + 2)
      BY <2>3, NewIds
    <2>5. LogKept
      BY <2>3, <2>4, OldRowsKept
    <2> QED BY <1>6, <2>2, <2>5
  <1>7. ASSUME NEW middle \in Seq(BodyType), SeededSession(middle)
        PROVE  LogKept /\ \A r \in Runs : EndKept(r)
    <2>1. NewSession \in Nat /\ runs \in Seq(RunRow)
      BY NewIds DEF TypeOK
    <2> QED BY <1>6, <1>7, <2>1 DEF SeededSession
  <1>8. ASSUME NEW s \in Sessions, NEW middle \in Seq(BodyType), Rewound(s, middle)
        PROVE  LogKept /\ \A r \in Runs : EndKept(r)
    <2>1. s \in Nat
      BY NewIds
    <2>2. /\ Superseded(s) \in Seq(RunRow) /\ Len(Superseded(s)) = Len(runs)
          /\ \A r \in Runs : /\ Superseded(s)[r].lastSeq = runs[r].lastSeq
                             /\ Superseded(s)[r].status \in {runs[r].status, "rewound"}
      BY SupersededRows
    <2> QED BY <1>6, <1>8, <2>1, <2>2 DEF Rewound
  <1> HIDE DEF LogKept, EndKept
  <1> QED BY <1>2, <1>4, <1>5, <1>7, <1>8 DEF Shape, SessionShape

\* No operation, and no crash or recovery, rewrites an event or adds one to a
\* run that has ended; such a run can only be superseded.
THEOREM RunsStaySealed == Spec => EndedRunsSealed
  <1>1. TypeOK /\ ReferencesValid /\ [Next]_vars => [Sealed]_vars
    BY StepShapes, SealedStep
  <1> QED BY <1>1, TypeCorrect, PTL DEF Spec, EndedRunsSealed

-----------------------------------------------------------------------------
(* Logs have no gaps. *)

LogOf(log, r) == {i \in DOMAIN log : log[i].run = r}

\* The rows of run r in `log` are numbered 1..n, in rowid order.
Numbered(log, r, n) ==
    /\ {log[i].seq : i \in LogOf(log, r)} = 1..n
    /\ \A i, j \in LogOf(log, r) : i < j => log[i].seq < log[j].seq

\* Appending n rows to run r numbers them on from `base` and leaves the other
\* runs' rows alone.
LEMMA AppendNumbers ==
    ASSUME TypeOK, NEW r, NEW base \in Nat, NEW n \in Nat, Numbered(events, r, base),
           events' \in Seq(EventRow), Len(events') = Len(events) + n,
           \A i \in 1..Len(events) : events'[i] = events[i],
           \A i \in 1..n : /\ events'[Len(events) + i].run = r
                           /\ events'[Len(events) + i].seq = base + i
    PROVE  /\ Numbered(events', r, base + n)
           /\ \A x, m : x # r /\ Numbered(events, x, m) => Numbered(events', x, m)
  <1> DEFINE L == Len(events)
             New == (L + 1)..(L + n)
             Old(x) == {i \in Rows : events[i].run = x}
             Now(x) == {i \in Rows' : events'[i].run = x}
  <1>1. L \in Nat /\ Rows = 1..L /\ Rows' = 1..(L + n)
    <2>1. Rows' = 1..Len(events')
      BY DEF Rows
    <2> QED BY <2>1, NewIds
  <1>a. \A i \in Rows : events'[i] = events[i] /\ events[i].seq \in Nat
    <2>1. \A i \in Rows : events[i] \in EventRow
      BY NewIds DEF TypeOK
    <2> QED BY <1>1, <2>1 DEF EventRow
  <1>b. \A i \in 1..n : events'[L + i].run = r /\ events'[L + i].seq = base + i
    OBVIOUS
  <1> HIDE DEF L
  <1>2. Rows' = Rows \cup New
    BY <1>1
  <1>3. \A i \in New : /\ events'[i].run = r /\ events'[i].seq = base + (i - L)
                       /\ i - L \in 1..n /\ i \in Nat /\ i > L
    <2> TAKE i \in New
    <2>1. i - L \in 1..n /\ i \in Nat /\ i > L /\ L + (i - L) = i
      BY <1>1
    <2> QED BY <1>b, <2>1
  <1>4. Now(r) = Old(r) \cup New /\ \A x : x # r => Now(x) = Old(x)
    BY <1>a, <1>2, <1>3
  <1>5. \A i \in Old(r) : events[i].seq \in 1..base
    BY DEF Numbered, LogOf, Rows
  <1>6. \A k \in 1..base : \E i \in Old(r) : events[i].seq = k
    BY DEF Numbered, LogOf, Rows
  <1>7. {events'[i].seq : i \in Now(r)} = 1..(base + n)
    <2>1. \A i \in Now(r) : events'[i].seq \in 1..(base + n)
      <3> TAKE i \in Now(r)
      <3>1. CASE i \in Old(r)
        BY <1>a, <1>5, <3>1
      <3>2. CASE i \in New
        BY <1>3, <3>2
      <3> QED BY <1>4, <3>1, <3>2
    <2>2. \A k \in 1..(base + n) : \E i \in Now(r) : events'[i].seq = k
      <3> TAKE k \in 1..(base + n)
      <3>1. CASE k \in 1..base
        <4>1. PICK i \in Old(r) : events[i].seq = k
          BY <1>6, <3>1
        <4> QED BY <1>a, <1>4, <4>1
      <3>2. CASE k \notin 1..base
        <4>1. k - base \in 1..n /\ base + (k - base) = k
          BY <3>2
        <4>2. L + (k - base) \in New
          BY <1>1, <4>1
        <4>3. events'[L + (k - base)].seq = k
          BY <1>b, <4>1
        <4> QED BY <1>4, <4>2, <4>3
      <3> QED BY <3>1, <3>2
    <2> QED BY <2>1, <2>2
  <1>8. \A i, j \in Now(r) : i < j => events'[i].seq < events'[j].seq
    <2> TAKE i, j \in Now(r)
    <2> HAVE i < j
    <2>1. CASE i \in Old(r) /\ j \in Old(r)
      BY <1>a, <2>1 DEF Numbered, LogOf, Rows
    <2>2. CASE i \in Old(r) /\ j \in New
      <3>1. events'[i].seq \in 1..base
        BY <1>a, <1>5, <2>2
      <3>2. events'[j].seq = base + (j - L) /\ j - L \in 1..n
        BY <1>3, <2>2
      <3> QED BY <3>1, <3>2
    <2>3. CASE i \in New /\ j \in Old(r)
      BY <1>1, <1>3, <2>3
    <2>4. CASE i \in New /\ j \in New
      BY <1>1, <1>3, <2>4
    <2> QED BY <1>4, <2>1, <2>2, <2>3, <2>4
  <1>9. Numbered(events', r, base + n)
    BY <1>7, <1>8 DEF Numbered, LogOf, Rows
  <1>10. ASSUME NEW x, NEW m, x # r, Numbered(events, x, m) PROVE Numbered(events', x, m)
    <2>1. Now(x) = Old(x) /\ \A i \in Old(x) : events'[i] = events[i]
      BY <1>a, <1>4, <1>10
    <2>2. {events[i].seq : i \in Old(x)} = 1..m
          /\ \A i, j \in Old(x) : i < j => events[i].seq < events[j].seq
      BY <1>10 DEF Numbered, LogOf, Rows
    <2>3. {events'[i].seq : i \in Now(x)} = 1..m
          /\ \A i, j \in Now(x) : i < j => events'[i].seq < events'[j].seq
      <3> HIDE DEF Now, Old
      <3> QED BY <2>1, <2>2
    <2> QED BY <2>3 DEF Numbered, LogOf, Rows
  <1> QED BY <1>9, <1>10

\* Each shape keeps every log numbered.
LEMMA GapFreeStep ==
    ASSUME TypeOK, ReferencesValid, LogGapFree, Shape
    PROVE  LogGapFree'
  <1>1. SUFFICES \A r \in Runs' : Numbered(events', r, runs'[r].lastSeq)
    BY DEF LogGapFree, Numbered, RowsOfRun, LogOf, Rows
  <1>2. \A r \in Runs : Numbered(events, r, runs[r].lastSeq)
    BY DEF LogGapFree, Numbered, RowsOfRun, LogOf, Rows
  <1>3. Numbered(events, NewRun, 0)
    <2>1. LogOf(events, NewRun) = {}
      BY NewIds DEF LogOf, Rows, ReferencesValid
    <2> QED BY <2>1 DEF Numbered
  <1>4. ASSUME events' = events PROVE \A r, n : Numbered(events, r, n) => Numbered(events', r, n)
    BY <1>4 DEF Numbered, LogOf
  <1>5. CASE Quiet \/ NewEmptySession
    <2>1. runs' = runs /\ events' = events
      BY <1>5 DEF Quiet, NewEmptySession
    <2> QED BY <1>2, <1>4, <2>1 DEF Runs
  <1>6. ASSUME NEW s \in Sessions, NEW purpose \in Purposes,
               runs' = Append(runs, FreshRun(s, purpose)), events' = events
        PROVE  \A r \in Runs' : Numbered(events', r, runs'[r].lastSeq)
    <2> DEFINE row == FreshRun(s, purpose)
    <2>1. row \in RunRow /\ row.lastSeq = 0 /\ runs' = Append(runs, row) /\ runs \in Seq(RunRow)
      BY <1>6, FreshRunRow DEF TypeOK
    <2> HIDE DEF row
    <2>2. /\ Runs' = Runs \cup {NewRun} /\ \A r \in Runs : runs'[r] = runs[r]
          /\ runs'[NewRun] = row
      BY <2>1, InsertedRun
    <2>3. \A r \in Runs : Numbered(events', r, runs'[r].lastSeq)
      BY <1>2, <1>4, <1>6, <2>2
    <2>4. Numbered(events', NewRun, 0)
      BY <1>3, <1>4, <1>6
    <2>5. ASSUME NEW r, r = NewRun PROVE Numbered(events', r, runs'[r].lastSeq)
      <3>1. runs'[r].lastSeq = 0
        BY <2>1, <2>2, <2>5
      <3> QED BY <2>4, <2>5, <3>1
    <2> QED BY <2>2, <2>3, <2>5
  <1>7. CASE \E s \in Sessions : NewTurn(s) \/ NewAuxiliary(s)
    BY <1>6, <1>7 DEF NewTurn, NewAuxiliary, Purposes
  <1>8. ASSUME NEW r \in Runs, NEW bodies \in Seq(BodyType), Len(bodies) > 0, AppendTx(r, bodies)
        PROVE  \A x \in Runs' : Numbered(events', x, runs'[x].lastSeq)
    <2> DEFINE base == runs[r].lastSeq
               n == Len(bodies)
    <2>1. base \in Nat /\ n \in Nat
      <3>1. runs[r] \in RunRow
        BY NewIds DEF TypeOK
      <3> QED BY <3>1 DEF RunRow
    <2>2. /\ events' \in Seq(EventRow) /\ Len(events') = Len(events) + n
          /\ \A i \in 1..Len(events) : events'[i] = events[i]
          /\ \A i \in 1..n : IsRowOf(events'[Len(events) + i], r, base + i, bodies[i])
          /\ Runs' = Runs /\ \A x \in Runs : x # r => runs'[x] = runs[x]
          /\ runs'[r].lastSeq = base + n
      BY <1>8, AppendTxEffect DEF Nonempty, Runs
    <2>3. \A i \in 1..n : /\ events'[Len(events) + i].run = r
                          /\ events'[Len(events) + i].seq = base + i
      BY <2>2 DEF IsRowOf
    <2>4. Numbered(events, r, base)
      BY <1>2
    <2> HIDE DEF base, n
    <2>5. /\ Numbered(events', r, base + n)
          /\ \A x, m : x # r /\ Numbered(events, x, m) => Numbered(events', x, m)
      BY <2>1, <2>2, <2>3, <2>4, AppendNumbers
    <2>6. ASSUME NEW x \in Runs PROVE Numbered(events', x, runs'[x].lastSeq)
      <3>1. CASE x = r
        BY <2>2, <2>5, <3>1
      <3>2. CASE x # r
        BY <1>2, <2>2, <2>5, <3>2
      <3> QED BY <3>1, <3>2
    <2> QED BY <2>2, <2>6
  <1>9. ASSUME NEW s \in Nat, NEW middle \in Seq(BodyType), SeedEvents(middle),
               NEW old \in Seq(RunRow), Len(old) = Len(runs),
               runs' = Append(old, SeedRun(s, middle)),
               \A r \in Runs : old[r].lastSeq = runs[r].lastSeq
        PROVE  \A r \in Runs' : Numbered(events', r, runs'[r].lastSeq)
    <2> DEFINE row == SeedRun(s, middle)
               n == Len(middle) + 2
    <2>1. row \in RunRow /\ row.lastSeq = n /\ runs' = Append(old, row) /\ n \in Nat
      BY <1>9, SeedRunRow
    <2> HIDE DEF row
    <2>2. /\ Runs' = Runs \cup {NewRun} /\ NewRun \notin Runs
          /\ \A r \in Runs : runs'[r] = old[r]
          /\ runs'[NewRun] = row
      BY <1>9, <2>1, InsertedRun
    <2>3. /\ events' \in Seq(EventRow) /\ Len(events') = Len(events) + Len(middle) + 2
          /\ \A i \in 1..Len(events) : events'[i] = events[i]
          /\ \A i \in 1..n : /\ events'[Len(events) + i].run = NewRun
                             /\ events'[Len(events) + i].seq = i
      BY <1>9, SeedEventsEffect
    <2>4. Len(events') = Len(events) + n /\ \A i \in 1..n : i = 0 + i
      BY <2>3, NewIds
    <2> HIDE DEF n
    <2>5. \A i \in 1..n : /\ events'[Len(events) + i].run = NewRun
                          /\ events'[Len(events) + i].seq = 0 + i
      BY <2>3, <2>4
    <2>6. /\ Numbered(events', NewRun, 0 + n)
          /\ \A x, m : x # NewRun /\ Numbered(events, x, m) => Numbered(events', x, m)
      BY <1>3, <2>1, <2>3, <2>4, <2>5, AppendNumbers
    <2>7. ASSUME NEW r \in Runs' PROVE Numbered(events', r, runs'[r].lastSeq)
      <3>1. CASE r = NewRun
        <4>1. runs'[r].lastSeq = n
          BY <2>1, <2>2, <3>1
        <4>2. 0 + n = n
          BY <2>1
        <4> QED BY <2>6, <3>1, <4>1, <4>2
      <3>2. CASE r # NewRun
        <4>1. r \in Runs /\ runs'[r].lastSeq = runs[r].lastSeq
          BY <1>9, <2>2, <2>7, <3>2
        <4> QED BY <1>2, <2>6, <3>2, <4>1
      <3> QED BY <3>1, <3>2
    <2> QED BY <2>7
  <1>10. ASSUME NEW middle \in Seq(BodyType), SeededSession(middle)
         PROVE  \A r \in Runs' : Numbered(events', r, runs'[r].lastSeq)
    <2>1. NewSession \in Nat /\ runs \in Seq(RunRow)
      BY NewIds DEF TypeOK
    <2> QED BY <1>9, <1>10, <2>1 DEF SeededSession
  <1>11. ASSUME NEW s \in Sessions, NEW middle \in Seq(BodyType), Rewound(s, middle)
         PROVE  \A r \in Runs' : Numbered(events', r, runs'[r].lastSeq)
    <2>1. s \in Nat
      BY NewIds
    <2>2. /\ Superseded(s) \in Seq(RunRow) /\ Len(Superseded(s)) = Len(runs)
          /\ \A r \in Runs : Superseded(s)[r].lastSeq = runs[r].lastSeq
      BY SupersededRows
    <2> QED BY <1>9, <1>11, <2>1, <2>2 DEF Rewound
  <1> QED BY <1>5, <1>7, <1>8, <1>10, <1>11 DEF Shape, SessionShape

\* Whichever writers appended to a run, its events are numbered 1..last_seq in
\* the order they were written, so a client that resumes from a seq misses
\* nothing and sees nothing twice.
THEOREM LogsHaveNoGaps == Spec => []LogGapFree
  <1>1. Init => LogGapFree
    BY DEF Init, LogGapFree, Runs
  <1>2. TypeOK /\ ReferencesValid /\ LogGapFree /\ [Next]_vars => LogGapFree'
    BY StepShapes, GapFreeStep
  <1> QED BY <1>1, <1>2, TypeCorrect, PTL DEF Spec

-----------------------------------------------------------------------------
(* Recovery closes every run a crash left open. *)

\* While recovery runs, its query result still lists every live run.
RecoveryCovers ==
    mode = "recovering" => \A r \in Runs : Live(r) => \E t \in todo : t.run = r

\* Requests are served in mode "serving" only and leave the mode alone.
LEMMA ServingOnly ==
    ASSUME SessionNext \/ RunNext \/ ApprovalNext
    PROVE  mode = "serving" /\ mode' = mode
  <1>1. CASE SessionNext
    BY <1>1 DEF SessionNext, CreateSession, StartRun, StartAuxiliaryRun, ForkSession,
                RewindSession, LinkConversation, BindSessionToConversation, Serving
  <1>2. CASE RunNext
    BY <1>2 DEF RunNext, AppendEventAuto, SteerRun, AcceptCancel, Serving
  <1>3. CASE ApprovalNext
    BY <1>3 DEF ApprovalNext, CreateApproval, ResolveApproval, ExpireApproval, Serving
  <1> QED BY <1>1, <1>2, <1>3

\* Recovering a run ends it and touches no other run.
LEMMA RecoverRunEnds ==
    ASSUME TypeOK, ReferencesValid, NEW t \in todo, RecoverRun(t)
    PROVE  /\ Runs' = Runs /\ IsTerminal(runs'[t.run].status)
           /\ \A r \in Runs : r # t.run => runs'[r] = runs[r]
  <1> DEFINE closing == IF t.cancelled THEN "RunCancelled" ELSE "RunInterrupted"
  <1>1. PICK calls \in Orderings(PendingCalls(t.run), Less) :
            AppendTx(t.run, Interruption(calls, closing))
    BY DEF RecoverRun
  <1>2. closing \in {"RunCancelled", "RunInterrupted"} /\ closing \in Kinds /\ t.run \in Runs
    BY DEF Kinds, ExecutorKinds, ReferencesValid
  <1> HIDE DEF closing
  <1> DEFINE bodies == Interruption(calls, closing)
  <1>3. Nonempty(bodies) /\ bodies[Len(bodies)].kind = closing
    BY <1>2, InterruptionNonempty
  <1>4. AppendTx(t.run, bodies)
    BY <1>1
  <1> HIDE DEF bodies
  <1>5. /\ Runs' = Runs /\ \A r \in Runs : r # t.run => runs'[r] = runs[r]
        /\ runs'[t.run].status = EventStatus(bodies[Len(bodies)].kind, runs[t.run].status)
    BY <1>2, <1>3, <1>4, AppendTxEffect DEF Runs
  <1>6. IsTerminal(EventStatus(closing, runs[t.run].status))
    BY <1>2 DEF EventStatus, IsTerminal
  <1> QED BY <1>3, <1>5, <1>6

\* Every step keeps the query result covering.
LEMMA RecoveryCoversStep ==
    ASSUME TypeOK, ReferencesValid, RecoveryCovers, [Next]_vars
    PROVE  RecoveryCovers'
  <1>1. CASE SessionNext \/ RunNext \/ ApprovalNext
    BY <1>1, ServingOnly DEF RecoveryCovers
  <1>2. CASE Crash \/ FinishRecovery
    BY <1>2 DEF Crash, FinishRecovery, RecoveryCovers
  <1>3. CASE BeginRecovery
    <2> SUFFICES ASSUME NEW r \in Runs, Live(r) PROVE \E t \in todo' : t.run = r
      BY <1>3 DEF BeginRecovery, RecoveryCovers, Runs, Live
    <2>1. [run |-> r, cancelled |-> r \in intents] \in todo'
      BY <1>3, Zenon DEF BeginRecovery, Live, RecoverableStatuses
    <2> QED BY <2>1
  <1>4. ASSUME NEW t \in todo, RecoverRun(t) PROVE RecoveryCovers'
    <2>1. /\ Runs' = Runs /\ IsTerminal(runs'[t.run].status)
          /\ \A r \in Runs : r # t.run => runs'[r] = runs[r]
      BY <1>4, RecoverRunEnds
    <2>2. mode = "recovering" /\ todo' = todo \ {t}
      BY <1>4 DEF RecoverRun
    <2> SUFFICES ASSUME NEW r \in Runs, Live(r)' PROVE \E u \in todo' : u.run = r
      BY <2>1 DEF RecoveryCovers
    <2>3. r # t.run
      BY <2>1 DEF Live, IsTerminal
    <2>4. Live(r)
      BY <2>1, <2>3 DEF Live
    <2>5. PICK u \in todo : u.run = r
      BY <2>2, <2>4 DEF RecoveryCovers
    <2> QED BY <2>2, <2>3, <2>5
  <1>5. CASE UNCHANGED vars
    BY <1>5 DEF vars, RecoveryCovers, Runs, Live
  <1> QED BY <1>1, <1>2, <1>3, <1>4, <1>5 DEF Next, RecoveryNext

\* However often recovery is itself cut by a crash, the server it hands over to
\* finds no live run of an earlier process, so every session accepts a prompt.
THEOREM RecoveryHandsOverClean == Spec => RecoveryLeavesNoLiveRun
  <1>1. Init => RecoveryCovers
    BY DEF Init, RecoveryCovers
  <1>2. TypeOK /\ ReferencesValid /\ RecoveryCovers /\ [Next]_vars => RecoveryCovers'
    BY RecoveryCoversStep
  <1>3. RecoveryCovers /\ [Next]_vars => [HandsOverClean]_vars
    <2> SUFFICES ASSUME RecoveryCovers, Next, mode = "recovering", mode' = "serving"
                 PROVE  \A r \in Runs : ~Live(r)
      BY DEF HandsOverClean
    <2>1. FinishRecovery
      BY ServingOnly DEF Next, RecoveryNext, Crash, BeginRecovery, RecoverRun
    <2> QED BY <2>1 DEF FinishRecovery, RecoveryCovers
  <1> QED BY <1>1, <1>2, <1>3, TypeCorrect, PTL DEF Spec, RecoveryLeavesNoLiveRun

-----------------------------------------------------------------------------
(* The durable store implements RunLifecycle.  The six shapes map to the   *)
(* steps of the abstract specification: an append transaction to Write, a  *)
(* new run to Start, a seed run (with the runs a rewind supersedes) to     *)
(* Seed, and the rest to stuttering.                                       *)

\* The events of a run, as the mapping sees them.
Entry(seq, kind) == [seq |-> seq, kind |-> kind]
Log(r) == {Entry(events[i].seq, events[i].kind) : i \in RowsOfRun(r)}
Entries(base, bodies) == {Entry(base + i, bodies[i].kind) : i \in 1..Len(bodies)}

\* The mapped variables, run by run.
LEMMA MappedRuns ==
    /\ Lifecycle!Begun = Runs /\ Lifecycle!Begun' = Runs'
    /\ \A r \in Runs : /\ [x \in Runs |-> Phase(runs[x].status)][r] = Phase(runs[r].status)
                       /\ [x \in Runs |-> runs[x].lastSeq][r] = runs[r].lastSeq
                       /\ [x \in Runs |-> {[seq |-> events[i].seq, kind |-> events[i].kind] :
                                              i \in RowsOfRun(x)}][r] = Log(r)
  BY DEF Lifecycle!Begun, Log, Entry

\* A run of which a reader sees no change.
Still(r) ==
    /\ r \in Runs /\ r \in Runs' /\ Log(r)' = Log(r)
    /\ Phase(runs'[r].status) = Phase(runs[r].status) /\ runs'[r].lastSeq = runs[r].lastSeq

\* Appended rows enlarge the log of their run and no other's.
LEMMA LogGrows ==
    ASSUME TypeOK, NEW r, NEW base \in Nat, NEW bodies \in Seq(BodyType),
           Len(events') = Len(events) + Len(bodies), events' \in Seq(EventRow),
           \A i \in 1..Len(events) : events'[i] = events[i],
           \A i \in 1..Len(bodies) : IsRowOf(events'[Len(events) + i], r, base + i, bodies[i])
    PROVE  /\ Log(r)' = Log(r) \cup Entries(base, bodies)
           /\ \A x : x # r => Log(x)' = Log(x)
  <1> DEFINE L == Len(events)
             New == (L + 1)..(L + Len(bodies))
             now(i) == Entry(events'[i].seq, events'[i].kind)
  <1>1. L \in Nat /\ Len(bodies) \in Nat /\ Rows = 1..L /\ Rows' = 1..(L + Len(bodies))
    <2>1. Rows' = 1..Len(events')
      BY DEF Rows
    <2> QED BY <2>1, NewIds
  <1>2. Rows' = Rows \cup New
    BY <1>1
  <1>3. \A i \in Rows : events'[i] = events[i]
    BY <1>1
  <1>4. \A i \in New : /\ i - L \in 1..Len(bodies) /\ i = L + (i - L)
                       /\ events'[i].run = r
                       /\ now(i) = Entry(base + (i - L), bodies[i - L].kind)
    <2> TAKE i \in New
    <2>1. i - L \in 1..Len(bodies) /\ i = L + (i - L)
      BY <1>1
    <2>2. IsRowOf(events'[L + (i - L)], r, base + (i - L), bodies[i - L])
      BY <2>1
    <2> QED BY <2>1, <2>2 DEF IsRowOf
  <1>5. /\ RowsOfRun(r)' = RowsOfRun(r) \cup New
        /\ \A x : x # r => RowsOfRun(x)' = RowsOfRun(x)
    <2>1. \A x : RowsOfRun(x)' = {i \in Rows' : events'[i].run = x}
      BY DEF RowsOfRun
    <2> QED BY <1>2, <1>3, <1>4, <2>1 DEF RowsOfRun
  <1>6. Entries(base, bodies) = {now(i) : i \in New}
    <2>1. ASSUME NEW j \in 1..Len(bodies) PROVE Entry(base + j, bodies[j].kind) \in {now(i) : i \in New}
      <3>1. L + j \in New /\ (L + j) - L = j
        BY <1>1, <2>1
      <3>2. now(L + j) = Entry(base + j, bodies[j].kind)
        BY <1>4, <3>1
      <3> QED BY <3>1, <3>2
    <2>2. \A i \in New : now(i) \in Entries(base, bodies)
      BY <1>4 DEF Entries
    <2> QED BY <2>1, <2>2 DEF Entries
  <1>7. \A x : Log(x)' = {now(i) : i \in RowsOfRun(x)'}
    BY DEF Log
  <1>8. \A x : {now(i) : i \in RowsOfRun(x)} = Log(x)
    <2>1. \A x : \A i \in RowsOfRun(x) : i \in Rows /\ now(i) = Entry(events[i].seq, events[i].kind)
      BY <1>3 DEF RowsOfRun
    <2> HIDE DEF now
    <2> QED BY <2>1 DEF Log
  <1> HIDE DEF now, New
  <1> QED BY <1>5, <1>6, <1>7, <1>8

\* Where the events of a log can be numbered.
LEMMA LogSeqs ==
    ASSUME TypeOK, LogGapFree, NEW r \in Runs
    PROVE  \A e \in Log(r) : e.seq \in Nat /\ e.seq <= runs[r].lastSeq
  <1>1. {events[i].seq : i \in RowsOfRun(r)} = 1..runs[r].lastSeq
    BY DEF LogGapFree
  <1>2. runs[r].lastSeq \in Nat
    <2>1. runs[r] \in RunRow
      BY NewIds DEF TypeOK
    <2> QED BY <2>1 DEF RunRow
  <1>3. \A i \in RowsOfRun(r) : events[i].seq \in 1..runs[r].lastSeq
    BY <1>1
  <1> QED BY <1>2, <1>3 DEF Log, Entry

\* A transaction that adds these bodies to the log of run r is a gain.
LEMMA GainedRows ==
    ASSUME NEW r \in Runs', NEW base \in Nat, NEW bodies \in Seq(BodyType), Len(bodies) > 0,
           EndsLast(bodies), NEW old, Log(r)' = old \cup Entries(base, bodies),
           \A e \in old : e.seq \in Nat /\ e.seq <= base,
           runs'[r].lastSeq = base + Len(bodies),
           Phase(runs'[r].status) = IF bodies[Len(bodies)].kind \in TerminalKinds
                                    THEN "closed" ELSE "open"
    PROVE  Lifecycle!Gains(r, base + 1)
  <1> DEFINE n == Len(bodies)
             gained == {e \in Log(r)' : e.seq >= base + 1}
  <1>1. n \in Nat /\ n > 0
    OBVIOUS
  <1>2. gained = Entries(base, bodies)
    <2>1. \A e \in Entries(base, bodies) : e.seq >= base + 1
      BY DEF Entries, Entry
    <2>2. \A e \in old : ~(e.seq >= base + 1)
      OBVIOUS
    <2> QED BY <2>1, <2>2
  <1>3. \A e \in gained : \E i \in 1..n : e.seq = base + i /\ e.kind = bodies[i].kind /\ e = Entry(base + i, bodies[i].kind)
    BY <1>2 DEF Entries, Entry
  <1>4. \A i \in 1..n : Entry(base + i, bodies[i].kind) \in gained
    BY <1>2 DEF Entries
  <1> HIDE DEF gained
  <1>5. {e.seq : e \in gained} = (base + 1)..(base + n)
    <2>1. \A e \in gained : e.seq \in (base + 1)..(base + n)
      BY <1>1, <1>3
    <2>2. \A k \in (base + 1)..(base + n) : \E e \in gained : e.seq = k
      <3> TAKE k \in (base + 1)..(base + n)
      <3>1. k - base \in 1..n /\ base + (k - base) = k
        BY <1>1
      <3>2. Entry(base + (k - base), bodies[k - base].kind) \in gained
        BY <1>4, <3>1
      <3> QED BY <3>1, <3>2 DEF Entry
    <2> QED BY <2>1, <2>2
  <1>6. \A e \in gained : e.kind \in TerminalKinds => e.seq = base + n
    BY <1>3 DEF EndsLast
  <1>7. \A e, f \in gained : e.seq = f.seq => e = f
    BY <1>3
  <1>8. (\E e \in gained : e.kind \in TerminalKinds) <=> bodies[n].kind \in TerminalKinds
    <2>1. Entry(base + n, bodies[n].kind) \in gained
      BY <1>1, <1>4
    <2>2. Entry(base + n, bodies[n].kind).kind = bodies[n].kind
      BY DEF Entry
    <2>3. ASSUME NEW e \in gained, e.kind \in TerminalKinds PROVE bodies[n].kind \in TerminalKinds
      BY <1>3, <2>3 DEF EndsLast
    <2> QED BY <2>1, <2>2, <2>3
  <1>9. base + n >= base + 1
    BY <1>1
  <1>10. /\ Log(r)' = {[seq |-> events'[i].seq, kind |-> events'[i].kind] : i \in RowsOfRun(r)'}
    BY DEF Log, Entry
  <1> QED BY <1>5, <1>6, <1>7, <1>8, <1>9, <1>10 DEF Lifecycle!Gains, gained

-----------------------------------------------------------------------------
(* The shapes are steps of the lifecycle. *)

\* An append transaction is a Write.
LEMMA WriteShape ==
    ASSUME TypeOK, ReferencesValid, LogGapFree, NEW r \in Runs, NEW bodies \in Seq(BodyType),
           Len(bodies) > 0, EndsLast(bodies), AppendTx(r, bodies)
    PROVE  Lifecycle!Write(r)
  <1> DEFINE n == Len(bodies)
  <1>0. PICK base : base = runs[r].lastSeq
    OBVIOUS
  <1>1. base \in Nat /\ runs[r].status \in Statuses /\ n \in Nat
    <2>1. runs[r] \in RunRow
      BY NewIds DEF TypeOK
    <2> QED BY <1>0, <2>1 DEF RunRow
  <1>2. /\ events' \in Seq(EventRow) /\ Len(events') = Len(events) + n
        /\ \A i \in 1..Len(events) : events'[i] = events[i]
        /\ \A i \in 1..n : IsRowOf(events'[Len(events) + i], r, base + i, bodies[i])
        /\ Runs' = Runs /\ \A x \in Runs : x # r => runs'[x] = runs[x]
        /\ runs'[r].lastSeq = base + n
        /\ runs'[r].status = EventStatus(bodies[n].kind, runs[r].status)
    BY <1>0, AppendTxEffect DEF Nonempty, Runs
  <1>3. Phase(runs[r].status) = "open"
    <2>1. ~IsTerminal(runs[r].status)
      BY DEF AppendTx, AcceptsEvent
    <2> QED BY <2>1 DEF IsTerminal, Phase
  <1>4. Phase(runs'[r].status) = IF bodies[n].kind \in TerminalKinds THEN "closed" ELSE "open"
    <2>1. ~IsTerminal(runs[r].status)
      BY DEF AppendTx, AcceptsEvent
    <2> QED BY <1>2, <2>1 DEF IsTerminal, Phase, EventStatus, TerminalKinds
  <1>5. /\ Log(r)' = Log(r) \cup Entries(base, bodies)
        /\ \A x : x # r => Log(x)' = Log(x)
    BY <1>1, <1>2, LogGrows
  <1>6. \A e \in Log(r) : e.seq \in Nat /\ e.seq <= base
    BY <1>0, LogSeqs
  <1>7. {e \in Log(r)' : e.seq <= base} = Log(r)
    <2>1. \A e \in Entries(base, bodies) : ~(e.seq <= base)
      BY <1>1 DEF Entries, Entry
    <2> QED BY <1>5, <1>6, <2>1
  <1>8. Lifecycle!Gains(r, base + 1)
    <2>1. r \in Runs' /\ runs'[r].lastSeq = base + Len(bodies)
      BY <1>2
    <2>2. Phase(runs'[r].status) = IF bodies[Len(bodies)].kind \in TerminalKinds
                                   THEN "closed" ELSE "open"
      BY <1>4
    <2> QED BY <1>1, <1>5, <1>6, <2>1, <2>2, GainedRows, Zenon
  <1>9. Lifecycle!Kept(Lifecycle!Begun \ {r})
    <2>1. \A x \in Runs \ {r} : Still(x)
      BY <1>2, <1>5 DEF Still
    <2> QED BY <2>1 DEF Lifecycle!Kept, Lifecycle!Begun, Still, Log, Entry
  <1>10. Lifecycle!Begun' = Lifecycle!Begun
    BY <1>2, MappedRuns
  <1>11. /\ [x \in Runs |-> Phase(runs[x].status)][r] = "open"
         /\ [x \in Runs |-> runs[x].lastSeq][r] = base
         /\ [x \in Runs |-> {[seq |-> events[i].seq, kind |-> events[i].kind] :
                                i \in RowsOfRun(x)}][r] = Log(r)
    BY <1>0, <1>3, MappedRuns
  <1>12. [x \in Runs |-> {[seq |-> events[i].seq, kind |-> events[i].kind] :
                                i \in RowsOfRun(x)}]'[r] = Log(r)'
    BY <1>2 DEF Log, Entry
  <1>13. Lifecycle!Gains(r, [x \in Runs |-> runs[x].lastSeq][r] + 1)
    BY <1>8, <1>11 DEF Lifecycle!Gains
  <1>14. {e \in [x \in Runs |-> {[seq |-> events[i].seq, kind |-> events[i].kind] :
                                i \in RowsOfRun(x)}]'[r] : e.seq <= [x \in Runs |-> runs[x].lastSeq][r]}
           = [x \in Runs |-> {[seq |-> events[i].seq, kind |-> events[i].kind] :
                                i \in RowsOfRun(x)}][r]
    BY <1>7, <1>11, <1>12
  <1>15. [x \in Runs |-> Phase(runs[x].status)][r] = "open"
    BY <1>11
  <1> HIDE DEF n
  <1> QED BY <1>9, <1>10, <1>13, <1>14, <1>15 DEF Lifecycle!Write, Lifecycle!Gains, Lifecycle!Kept, Lifecycle!Begun

\* A run inserted without events is a Start.
LEMMA StartShape ==
    ASSUME TypeOK, ReferencesValid, NEW s \in Sessions, NEW purpose \in Purposes,
           runs' = Append(runs, FreshRun(s, purpose)), events' = events
    PROVE  \E r \in Lifecycle!Begun' \ Lifecycle!Begun : Lifecycle!Start(r)
  <1>1. PICK r : r = NewRun
    OBVIOUS
  <1>2. /\ Runs' = Runs \cup {r} /\ r \notin Runs /\ \A x \in Runs : runs'[x] = runs[x]
        /\ runs'[r] = FreshRun(s, purpose)
    <2>1. FreshRun(s, purpose) \in RunRow /\ runs \in Seq(RunRow)
      BY FreshRunRow DEF TypeOK
    <2> QED BY <1>1, <2>1, InsertedRun
  <1>3. Phase(runs'[r].status) = "open" /\ runs'[r].lastSeq = 0
    BY <1>2, FreshRunRow DEF Phase
  <1>4. \A x : Log(x)' = Log(x)
    BY DEF Log, RowsOfRun, Rows
  <1>5. Log(r)' = {}
    <2>1. RowsOfRun(r) = {}
      BY <1>2 DEF RowsOfRun, ReferencesValid
    <2> QED BY <1>4, <2>1 DEF Log
  <1>6. Lifecycle!Kept(Lifecycle!Begun)
    <2>1. \A x \in Runs : Still(x)
      BY <1>2, <1>4 DEF Still
    <2> QED BY <2>1 DEF Lifecycle!Kept, Lifecycle!Begun, Still, Log, Entry
  <1>7. Lifecycle!Begins(r) /\ r \in Lifecycle!Begun' \ Lifecycle!Begun
    BY <1>2, MappedRuns DEF Lifecycle!Begins
  <1>8. Lifecycle!Start(r)
    <2>1. /\ [x \in Runs |-> Phase(runs[x].status)]'[r] = "open"
          /\ [x \in Runs |-> runs[x].lastSeq]'[r] = 0
      BY <1>2, <1>3
    <2>2. [x \in Runs |-> {[seq |-> events[i].seq, kind |-> events[i].kind] :
                                i \in RowsOfRun(x)}]'[r] = {}
      BY <1>2, <1>5 DEF Log, Entry
    <2> QED BY <1>6, <1>7, <2>1, <2>2 DEF Lifecycle!Start
  <1> QED BY <1>7, <1>8

\* The bodies of a seed run.
LEMMA SeedBodies ==
    ASSUME NEW middle \in Seq(BodyType), Retold(middle), NEW bodies,
           bodies = (<<Body("RunStarted", {}, 0)>> \o middle) \o <<Body("RunCompleted", {}, 0)>>
    PROVE  /\ bodies \in Seq(BodyType) /\ Len(bodies) = Len(middle) + 2
           /\ EndsLast(bodies) /\ bodies[Len(bodies)].kind \in TerminalKinds
  <1> DEFINE first == <<Body("RunStarted", {}, 0)>>
             last == <<Body("RunCompleted", {}, 0)>>
             front == first \o middle
  <1>1. /\ first \in Seq(BodyType) /\ Len(first) = 1 /\ first[1].kind = "RunStarted"
        /\ last \in Seq(BodyType) /\ Len(last) = 1 /\ last[1].kind = "RunCompleted"
    BY DEF Body, BodyType, Kinds, ExecutorKinds
  <1>2. Len(middle) \in Nat /\ bodies = front \o last
    OBVIOUS
  <1> HIDE DEF first, last
  <1>3. /\ front \in Seq(BodyType) /\ Len(front) = 1 + Len(middle)
        /\ front[1] = first[1] /\ \A i \in 1..Len(middle) : front[1 + i] = middle[i]
    <2>1. /\ front \in Seq(BodyType) /\ Len(front) = Len(first) + Len(middle)
          /\ \A i \in 1..Len(first) : front[i] = first[i]
          /\ \A i \in 1..Len(middle) : front[Len(first) + i] = middle[i]
      BY <1>1, ConcatBodies
    <2> HIDE DEF front
    <2> QED BY <1>1, <2>1
  <1>4. \A i \in 1..Len(front) : front[i].kind \notin TerminalKinds
    <2> SUFFICES ASSUME NEW i \in 1..Len(front) PROVE front[i].kind \notin TerminalKinds
      OBVIOUS
    <2> HIDE DEF front
    <2>1. CASE i = 1
      BY <1>1, <1>3, <2>1 DEF TerminalKinds
    <2>2. CASE i # 1
      <3>1. i - 1 \in 1..Len(middle) /\ 1 + (i - 1) = i
        BY <1>2, <1>3, <2>2
      <3>2. front[i] = middle[i - 1]
        BY <1>3, <3>1
      <3> QED BY <3>1, <3>2 DEF Retold, StatusKinds
    <2> QED BY <2>1, <2>2
  <1> HIDE DEF front
  <1>5. /\ bodies \in Seq(BodyType) /\ Len(bodies) = Len(front) + 1
        /\ \A i \in 1..Len(front) : bodies[i] = front[i]
        /\ bodies[Len(front) + 1] = last[1]
    BY <1>1, <1>2, <1>3, ConcatBodies
  <1>6. EndsLast(bodies)
    BY <1>2, <1>3, <1>4, <1>5 DEF EndsLast
  <1> QED BY <1>1, <1>2, <1>3, <1>5, <1>6 DEF TerminalKinds

\* A run inserted with its log is a Seed, whichever closed runs it supersedes.
LEMMA SeedShape ==
    ASSUME TypeOK, ReferencesValid, NEW s \in Nat, NEW middle \in Seq(BodyType),
           Retold(middle), SeedEvents(middle), NEW old \in Seq(RunRow), Len(old) = Len(runs),
           runs' = Append(old, SeedRun(s, middle)), NEW replaced \in SUBSET Runs,
           \A x \in Runs : old[x].lastSeq = runs[x].lastSeq,
           \A x \in replaced : IsTerminal(runs[x].status) /\ old[x].status = "rewound",
           \A x \in Runs \ replaced : old[x].status = runs[x].status
    PROVE  \E r \in Lifecycle!Begun' \ Lifecycle!Begun :
              \E gone \in SUBSET Lifecycle!Begun : Lifecycle!Seed(r, gone)
  <1>1. PICK r : r = NewRun
    OBVIOUS
  <1>2. PICK bodies :
           bodies = (<<Body("RunStarted", {}, 0)>> \o middle) \o <<Body("RunCompleted", {}, 0)>>
    OBVIOUS
  <1>3. /\ bodies \in Seq(BodyType) /\ Len(bodies) = Len(middle) + 2
        /\ EndsLast(bodies) /\ bodies[Len(bodies)].kind \in TerminalKinds
    BY <1>2, SeedBodies
  <1>4. Len(middle) \in Nat /\ Len(bodies) \in Nat /\ Len(bodies) > 0 /\ r \in Nat
    BY <1>1, <1>3, NewIds
  <1>5. events' = events \o RowsOf(r, 0, bodies)
    BY <1>1, <1>2 DEF SeedEvents
  <1>6. /\ Runs' = Runs \cup {r} /\ r \notin Runs /\ \A x \in Runs : runs'[x] = old[x]
        /\ runs'[r] = SeedRun(s, middle)
    <2>1. SeedRun(s, middle) \in RunRow
      BY SeedRunRow
    <2> QED BY <1>1, <2>1, InsertedRun
  <1>7. /\ events' \in Seq(EventRow)
        /\ Len(events') = Len(events) + Len(bodies)
        /\ \A i \in 1..Len(events) : events'[i] = events[i]
        /\ \A i \in 1..Len(bodies) : IsRowOf(events'[Len(events) + i], r, 0 + i, bodies[i])
    BY <1>3, <1>4, <1>5, AppendedRows
  <1>8. /\ Log(r)' = Log(r) \cup Entries(0, bodies)
        /\ \A x : x # r => Log(x)' = Log(x)
    BY <1>3, <1>7, LogGrows
  <1>9. Log(r) = {}
    <2>1. RowsOfRun(r) = {}
      BY <1>6 DEF RowsOfRun, ReferencesValid
    <2> QED BY <2>1 DEF Log
  <1>10. /\ Phase(runs'[r].status) = "closed" /\ runs'[r].lastSeq = 0 + Len(bodies)
    BY <1>3, <1>4, <1>6, SeedRunRow DEF Phase
  <1>11. Lifecycle!Gains(r, 0 + 1)
    <2>1. \A e \in Log(r) : e.seq \in Nat /\ e.seq <= 0
      BY <1>9
    <2>2. r \in Runs' /\ 0 \in Nat
      BY <1>6
    <2>3. Phase(runs'[r].status) = IF bodies[Len(bodies)].kind \in TerminalKinds
                                   THEN "closed" ELSE "open"
      BY <1>3, <1>10
    <2> QED BY <1>3, <1>4, <1>8, <1>10, <2>1, <2>2, <2>3, GainedRows, Zenon
  <1>12. Lifecycle!Kept(Lifecycle!Begun \ replaced)
    <2>1. \A x \in Runs \ replaced : Still(x)
      BY <1>6, <1>8 DEF Still
    <2> QED BY <2>1 DEF Lifecycle!Kept, Lifecycle!Begun, Still, Log, Entry
  <1>13. \A x \in replaced :
            /\ Phase(runs[x].status) # "open" /\ Phase(runs'[x].status) = "superseded"
            /\ runs'[x].lastSeq = runs[x].lastSeq /\ Log(x)' = Log(x)
            /\ x \in Runs /\ x \in Runs'
    BY <1>6, <1>8 DEF Phase, IsTerminal
  <1>14. /\ Lifecycle!Begins(r) /\ r \in Lifecycle!Begun' \ Lifecycle!Begun
         /\ Lifecycle!Begun = Runs
    BY <1>6, MappedRuns DEF Lifecycle!Begins
  <1>15. Lifecycle!Seed(r, replaced)
    <2>1. \A x \in replaced :
             /\ [y \in Runs |-> Phase(runs[y].status)][x] # "open"
             /\ [y \in Runs |-> Phase(runs[y].status)]'[x] = "superseded"
             /\ [y \in Runs |-> runs[y].lastSeq]'[x] = [y \in Runs |-> runs[y].lastSeq][x]
      BY <1>13
    <2>2. \A x \in replaced :
             [y \in Runs |-> {[seq |-> events[i].seq, kind |-> events[i].kind] :
                                 i \in RowsOfRun(y)}]'[x]
           = [y \in Runs |-> {[seq |-> events[i].seq, kind |-> events[i].kind] :
                                 i \in RowsOfRun(y)}][x]
      BY <1>13 DEF Log, Entry
    <2>3. [y \in Runs |-> Phase(runs[y].status)]'[r] = "closed"
      BY <1>6, <1>10
    <2>4. Lifecycle!Gains(r, 1)
      <3>1. 0 + 1 = 1
        OBVIOUS
      <3> QED BY <1>11, <3>1
    <2> QED BY <1>12, <1>14, <2>1, <2>2, <2>3, <2>4 DEF Lifecycle!Seed
  <1>16. replaced \in SUBSET Lifecycle!Begun
    BY <1>14
  <1> QED BY <1>14, <1>15, <1>16

\* Every shape is a step of the lifecycle or leaves it alone.
LEMMA LifecycleStep ==
    ASSUME TypeOK, ReferencesValid, LogGapFree, Shape
    PROVE  [Lifecycle!Next]_(Lifecycle!lifecycle)
  <1>1. CASE Quiet \/ NewEmptySession
    <2>1. runs' = runs /\ events' = events
      BY <1>1 DEF Quiet, NewEmptySession
    <2>2. UNCHANGED Lifecycle!lifecycle
      BY <2>1 DEF Lifecycle!lifecycle, Runs, RowsOfRun, Rows
    <2> QED BY <2>2
  <1>2. CASE \E s \in Sessions : NewTurn(s) \/ NewAuxiliary(s)
    <2>1. PICK s \in Sessions, purpose \in Purposes :
             runs' = Append(runs, FreshRun(s, purpose)) /\ events' = events
      BY <1>2 DEF NewTurn, NewAuxiliary, Purposes
    <2> QED BY <2>1, StartShape DEF Lifecycle!Next
  <1>3. ASSUME NEW r \in Runs, NEW bodies \in Seq(BodyType), Len(bodies) > 0, EndsLast(bodies),
               AppendTx(r, bodies)
        PROVE  Lifecycle!Next
    <2>1. Lifecycle!Write(r) /\ r \in Lifecycle!Begun
      BY <1>3, WriteShape, MappedRuns
    <2> QED BY <2>1 DEF Lifecycle!Next
  <1>4. ASSUME NEW middle \in Seq(BodyType), Retold(middle), SeededSession(middle)
        PROVE  Lifecycle!Next
    <2>1. NewSession \in Nat /\ runs \in Seq(RunRow)
      BY NewIds DEF TypeOK
    <2>2. SeedEvents(middle) /\ runs' = Append(runs, SeedRun(NewSession, middle))
      BY <1>4 DEF SeededSession
    <2>3. PICK replaced : replaced = {}
      OBVIOUS
    <2>4. \E r \in Lifecycle!Begun' \ Lifecycle!Begun :
             \E gone \in SUBSET Lifecycle!Begun : Lifecycle!Seed(r, gone)
      BY <1>4, <2>1, <2>2, <2>3, SeedShape
    <2> QED BY <2>4 DEF Lifecycle!Next
  <1>5. ASSUME NEW s \in Sessions, NEW middle \in Seq(BodyType), Retold(middle),
               Rewound(s, middle)
        PROVE  Lifecycle!Next
    <2> DEFINE replaced == {x \in Runs : runs[x].session = s}
               old == Superseded(s)
    <2>1. s \in Nat /\ replaced \in SUBSET Runs
      BY NewIds
    <2>2. /\ old \in Seq(RunRow) /\ Len(old) = Len(runs)
          /\ \A x \in Runs : old[x].lastSeq = runs[x].lastSeq
          /\ \A x \in replaced : old[x].status = "rewound"
          /\ \A x \in Runs \ replaced : old[x].status = runs[x].status
      BY SupersededRows
    <2>3. /\ SeedEvents(middle) /\ runs' = Append(old, SeedRun(s, middle))
          /\ \A x \in replaced : IsTerminal(runs[x].status)
      BY <1>5 DEF Rewound
    <2> HIDE DEF replaced, old
    <2>4. \E r \in Lifecycle!Begun' \ Lifecycle!Begun :
             \E gone \in SUBSET Lifecycle!Begun : Lifecycle!Seed(r, gone)
      BY <1>5, <2>1, <2>2, <2>3, SeedShape
    <2> QED BY <2>4 DEF Lifecycle!Next
  <1> QED BY <1>1, <1>2, <1>3, <1>4, <1>5 DEF Shape, SessionShape

\* A reader that knows a run by its id and the seqs of its log, as run.events
\* and run.subscribe do, sees the lifecycle whatever the operations, crashes and
\* restarts: no event after the terminal one, no gap, no rewritten event, and an
\* end that nothing reopens.
THEOREM StoreImplementsLifecycle == Spec => RunsFollowLifecycle
  <1>1. Init => Lifecycle!Init
    <2>1. ASSUME Init PROVE Runs = {}
      BY <2>1 DEF Init, Runs
    <2> QED BY <2>1, MappedRuns DEF Lifecycle!Init
  <1>2. TypeOK /\ ReferencesValid /\ LogGapFree /\ [Next]_vars
           => [Lifecycle!Next]_(Lifecycle!lifecycle)
    BY StepShapes, LifecycleStep
  <1> QED BY <1>1, <1>2, TypeCorrect, LogsHaveNoGaps, PTL DEF Spec, RunsFollowLifecycle, Lifecycle!Spec
===============================================================================
