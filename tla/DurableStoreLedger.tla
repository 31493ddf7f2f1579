-------------------------- MODULE DurableStoreLedger --------------------------
(***************************************************************************)
(* What the durable store's side tables promise: conversation links,       *)
(* cancel intents, approval tickets and idempotency records agree with the *)
(* runs and the log they are about.                                        *)
(*                                                                         *)
(* Three lemmas say what a step does to the rows of each run: a session    *)
(* operation writes only rows of a run it inserts (SessionRows), every     *)
(* other write appends to one run that was live (AppendedTo), and what is  *)
(* left writes no row at all.  The invariants are proved over these.       *)
(***************************************************************************)
EXTENDS DurableStoreProofs

-----------------------------------------------------------------------------
(* Conversation links. *)

\* A link names a session that exists, and no two name the same one.
LinksInjective ==
    /\ \A c \in Conversation : links[c] \in 0..Len(sessions)
    /\ \A c, d \in Conversation : c # d /\ links[c] # 0 => links[c] # links[d]

\* No shape takes a session away.
LEMMA SessionsGrow ==
    ASSUME TypeOK, ReferencesValid, Shape
    PROVE  Len(sessions') \in Nat /\ Len(sessions') >= Len(sessions)
  <1>1. sessions \in Seq(SessionRow) /\ Len(sessions) \in Nat
    BY DEF TypeOK
  <1>2. CASE Quiet
    BY <1>1, <1>2 DEF Quiet
  <1>3. CASE NewEmptySession \/ \E middle \in Seq(BodyType) : SeededSession(middle)
    BY <1>1, <1>3 DEF NewEmptySession, SeededSession
  <1>4. CASE \/ \E s \in Sessions : NewTurn(s) \/ NewAuxiliary(s)
             \/ \E s \in Sessions, middle \in Seq(BodyType) : Rewound(s, middle)
    BY <1>1, <1>4 DEF NewTurn, NewAuxiliary, Rewound
  <1>5. ASSUME NEW r \in Runs, NEW bodies, AppendTx(r, bodies)
        PROVE  Len(sessions') = Len(sessions)
    BY <1>1, <1>5 DEF AppendTx
  <1> QED BY <1>1, <1>2, <1>3, <1>4, <1>5 DEF Shape, SessionShape

LinkKept(c) == links[c] # 0 => links'[c] = links[c]
LinkAlone(c) == \A d \in Conversation : c # d /\ links'[c] # 0 => links'[c] # links'[d]

\* A step that sets one link, to a session no other link names, keeps the invariant.
LEMMA OneLinkSet ==
    ASSUME TypeOK, LinksInjective, NEW c \in Conversation, NEW s \in Nat,
           links' = [links EXCEPT ![c] = s], s # 0 /\ s <= Len(sessions'),
           Len(sessions') \in Nat, Len(sessions') >= Len(sessions),
           \/ links[c] = s
           \/ links[c] = 0 /\ \A d \in Conversation : links[d] # s
    PROVE  LinksInjective' /\ \A d \in Conversation : LinkKept(d) /\ LinkAlone(d)
  <1>1. links \in [Conversation -> Nat] /\ Len(sessions) \in Nat
    BY DEF TypeOK
  <1>2. \A d \in Conversation : links'[d] = IF d = c THEN s ELSE links[d]
    BY <1>1
  <1>3. \A d \in Conversation : links'[d] \in 0..Len(sessions')
    BY <1>1, <1>2 DEF LinksInjective
  <1>4. \A d \in Conversation : LinkAlone(d)
    <2> SUFFICES ASSUME NEW d \in Conversation, NEW e \in Conversation, d # e, links'[d] # 0
                 PROVE  links'[d] # links'[e]
      BY DEF LinkAlone
    <2>1. CASE links[c] = s
      BY <1>2, <2>1 DEF LinksInjective
    <2>2. CASE \A x \in Conversation : links[x] # s
      BY <1>2, <2>2 DEF LinksInjective
    <2> QED BY <2>1, <2>2
  <1>5. \A d \in Conversation : LinkKept(d)
    BY <1>2 DEF LinkKept
  <1> QED BY <1>3, <1>4, <1>5 DEF LinksInjective, LinkAlone

\* Every step keeps the links, and keeps them apart.
LEMMA LinksStep ==
    ASSUME TypeOK, ReferencesValid, LinksInjective, [Next]_vars
    PROVE  LinksInjective' /\ \A d \in Conversation : LinkKept(d) /\ LinkAlone(d)
  <1>1. Len(sessions') \in Nat /\ Len(sessions') >= Len(sessions)
    BY StepShapes, SessionsGrow
  <1>2. Len(sessions) \in Nat /\ Sessions = 1..Len(sessions) /\ NewSession = Len(sessions) + 1
    BY NewIds
  <1>3. ASSUME links' = links
        PROVE  LinksInjective' /\ \A d \in Conversation : LinkKept(d) /\ LinkAlone(d)
    BY <1>1, <1>2, <1>3 DEF LinksInjective, LinkKept, LinkAlone
  <1>4. ASSUME NEW c \in Conversation, NEW k \in Key, NEW n \in Nat, LinkConversation(c, k, n)
        PROVE  LinksInjective' /\ \A d \in Conversation : LinkKept(d) /\ LinkAlone(d)
    <2>1. CASE LinkNewConversation(c, k, n)
      <3>1. links[c] = 0 /\ links' = [links EXCEPT ![c] = NewSession]
            /\ sessions' = Append(sessions, [activeRun |-> 0])
        BY <2>1 DEF LinkNewConversation
      <3>2. Len(sessions') = NewSession
        BY <1>2, <3>1 DEF TypeOK
      <3>3. \A d \in Conversation : links[d] # NewSession
        BY <1>2 DEF LinksInjective
      <3>4. NewSession \in Nat /\ NewSession # 0 /\ NewSession <= Len(sessions')
        BY <1>2, <3>2
      <3> QED BY <1>1, <3>1, <3>3, <3>4, OneLinkSet
    <2>2. CASE LinkKnownConversation(c, k)
      BY <1>3, <2>2 DEF LinkKnownConversation
    <2> QED BY <1>4, <2>1, <2>2 DEF LinkConversation
  <1>5. ASSUME NEW c \in Conversation, NEW s \in Sessions, NEW k \in Key,
               BindSessionToConversation(c, s, k)
        PROVE  LinksInjective' /\ \A d \in Conversation : LinkKept(d) /\ LinkAlone(d)
    <2>1. s \in Nat /\ s # 0 /\ s <= Len(sessions')
      BY <1>1, <1>2
    <2>2. /\ links' = [links EXCEPT ![c] = s]
          /\ links[c] = s \/ (links[c] = 0 /\ \A d \in Conversation : links[d] # s)
      BY <1>5 DEF BindSessionToConversation
    <2> QED BY <1>1, <2>1, <2>2, OneLinkSet
  <1>6. 0..MaxImported \subseteq Nat
    BY StoreAssumption
  <1>7. CASE SessionNext
    <2>1. CASE \/ \E c \in Conversation, k \in Key, n \in 0..MaxImported : LinkConversation(c, k, n)
               \/ \E c \in Conversation, s \in Sessions, k \in Key : BindSessionToConversation(c, s, k)
      BY <1>4, <1>5, <1>6, <2>1
    <2>2. CASE ~ \/ \E c \in Conversation, k \in Key, n \in 0..MaxImported : LinkConversation(c, k, n)
                 \/ \E c \in Conversation, s \in Sessions, k \in Key : BindSessionToConversation(c, s, k)
      <3>1. links' = links
        BY <1>7, <2>2 DEF SessionNext, CreateSession, StartRun, StartAuxiliaryRun, ForkSession, RewindSession
      <3> QED BY <1>3, <3>1
    <2> QED BY <2>1, <2>2
  <1>8. CASE RunNext \/ ApprovalNext \/ Crash \/ RecoveryNext \/ UNCHANGED vars
    <2>1. links' = links
      BY <1>8 DEF RunNext, AppendEventAuto, SteerRun, AcceptCancel, ApprovalNext, CreateApproval,
                  ResolveApproval, ExpireApproval, Crash, RecoveryNext, BeginRecovery, RecoverRun,
                  FinishRecovery, vars
    <2> QED BY <1>3, <2>1
  <1> QED BY <1>7, <1>8 DEF Next

\* Link, bind, import and fork requests never move a conversation to another session and
\* never give a session to two conversations, in whatever order they come.
THEOREM LinksNeverMove == Spec => LinksStable
  <1>1. Init => LinksInjective
    BY DEF Init, LinksInjective
  <1>2. TypeOK /\ ReferencesValid /\ LinksInjective /\ [Next]_vars => LinksInjective'
    BY LinksStep
  <1>3. TypeOK /\ ReferencesValid /\ LinksInjective /\ [Next]_vars =>
           [/\ \A c \in Conversation : links[c] # 0 => links'[c] = links[c]
            /\ \A c, d \in Conversation : c # d /\ links'[c] # 0 => links'[c] # links'[d]]_vars
    BY LinksStep DEF LinkKept, LinkAlone
  <1> QED BY <1>1, <1>2, <1>3, TypeCorrect, PTL DEF Spec, LinksStable

-----------------------------------------------------------------------------
(* What a step does to the rows of one run. *)

\* No event of run x was written, removed or changed.
Untouched(x) ==
    /\ \A i \in Rows : i \in Rows' /\ events'[i] = events[i]
    /\ \A i \in Rows' \ Rows : events'[i].run # x

\* A run whose rows are untouched has the same log and the same unanswered calls.
LEMMA UntouchedRows ==
    ASSUME NEW x, Untouched(x)
    PROVE  /\ RowsOfRun(x)' = RowsOfRun(x)
           /\ \A i \in RowsOfRun(x) : events'[i] = events[i]
           /\ PendingCalls(x)' = PendingCalls(x)
  <1>1. /\ RowsOfRun(x)' = RowsOfRun(x)
        /\ \A i \in RowsOfRun(x) : events'[i] = events[i]
    BY DEF Untouched, RowsOfRun
  <1>2. \A i \in Rows : events'[i] = events[i]
    BY DEF Untouched
  <1>3. /\ \A i \in Rows' : events'[i].run = x => i \in Rows
        /\ Rows \subseteq Rows'
    BY DEF Untouched
  <1>4. ASSUME NEW c \in Call
        PROVE  c \in PendingCalls(x)' <=> c \in PendingCalls(x)
    BY <1>2, <1>3, Zenon DEF PendingCalls
  <1> QED BY <1>1, <1>4 DEF PendingCalls

\* Nothing is written when the event table stays.
LEMMA QuietRows ==
    ASSUME events' = events
    PROVE  \A x : Untouched(x)
  BY DEF Untouched, Rows

\* What append_event_tx does, run by run: it takes a live run and writes only there.
LEMMA AppendedTo ==
    ASSUME TypeOK, ReferencesValid, NEW r \in Runs, NEW bodies, Nonempty(bodies),
           AppendTx(r, bodies)
    PROVE  /\ Live(r) /\ Runs' = Runs
           /\ \A x \in Runs : x # r => Untouched(x) /\ runs'[x] = runs[x]
           /\ \A x \in Runs : runs'[x].purpose = runs[x].purpose
           /\ runs'[r].status = EventStatus(bodies[Len(bodies)].kind, runs[r].status)
           /\ \A i \in Rows : i \in Rows' /\ events'[i] = events[i]
           /\ Rows' = 1..(Len(events) + Len(bodies))
           /\ \A k \in 1..Len(bodies) :
                 /\ Len(events) + k \in Rows'
                 /\ IsRowOf(events'[Len(events) + k], r, runs[r].lastSeq + k, bodies[k])
           /\ \A i \in Rows' \ Rows : \E k \in 1..Len(bodies) : i = Len(events) + k
  <1>1. /\ events' \in Seq(EventRow)
        /\ Len(events') = Len(events) + Len(bodies)
        /\ \A i \in 1..Len(events) : events'[i] = events[i]
        /\ \A i \in 1..Len(bodies) :
              IsRowOf(events'[Len(events) + i], r, runs[r].lastSeq + i, bodies[i])
        /\ DOMAIN runs' = Runs
        /\ \A x \in Runs : /\ runs'[x].purpose = runs[x].purpose
                           /\ x # r => runs'[x] = runs[x]
    BY AppendTxEffect
  <1>2. Len(events) \in Nat /\ Rows = 1..Len(events) /\ Len(bodies) \in Nat /\ Len(bodies) > 0
    BY NewIds DEF Nonempty
  <1>3. Rows' = 1..(Len(events) + Len(bodies))
    BY <1>1 DEF Rows
  <1>4. \A i \in Rows : i \in Rows' /\ events'[i] = events[i]
    BY <1>1, <1>2, <1>3
  <1>5. \A k \in 1..Len(bodies) : Len(events) + k \in Rows'
    BY <1>2, <1>3
  <1>6. \A i \in Rows' \ Rows : \E k \in 1..Len(bodies) : i = Len(events) + k
    <2> SUFFICES ASSUME NEW i \in Rows' \ Rows
                 PROVE  \E k \in 1..Len(bodies) : i = Len(events) + k
      OBVIOUS
    <2>1. i - Len(events) \in 1..Len(bodies) /\ i = Len(events) + (i - Len(events))
      BY <1>2, <1>3
    <2> QED BY <2>1
  <1>7. \A i \in Rows' \ Rows : events'[i].run = r
    BY <1>1, <1>6 DEF IsRowOf
  <1>8. \A x \in Runs : x # r => Untouched(x)
    BY <1>4, <1>7 DEF Untouched
  <1>9. Live(r)
    BY EndedIsTerminal DEF AppendTx, AcceptsEvent
  <1>10. runs'[r].status = EventStatus(bodies[Len(bodies)].kind, runs[r].status)
    <2>1. runs[r] \in RunRow
      BY NewIds DEF TypeOK
    <2> DEFINE next == EventStatus(bodies[Len(bodies)].kind, runs[r].status)
    <2>2. runs' = [runs EXCEPT ![r] = AppendedRun(runs[r], next, Len(bodies))]
      BY DEF AppendTx
    <2> HIDE DEF next
    <2>3. runs'[r] = AppendedRun(runs[r], next, Len(bodies))
      BY <2>2 DEF Runs
    <2>4. AppendedRun(runs[r], next, Len(bodies)).status = next
      BY <2>1 DEF AppendedRun, RunRow
    <2> QED BY <2>3, <2>4 DEF next
  <1>11. Runs' = Runs
    BY <1>1 DEF Runs
  <1> QED BY <1>1, <1>3, <1>4, <1>5, <1>6, <1>8, <1>9, <1>10, <1>11

\* What a seed run's transaction writes: rows of the new run only; the last one ends it
\* and those between the first and the last carry no status.
LEMMA SeedRows ==
    ASSUME TypeOK, ReferencesValid, NEW middle \in Seq(BodyType), Retold(middle),
           SeedEvents(middle)
    PROVE  /\ \A x \in Runs : Untouched(x)
           /\ Rows' = 1..(Len(events) + Len(middle) + 2)
           /\ \A i \in Rows' \ Rows :
                 /\ i > Len(events)
                 /\ events'[i].run = NewRun
                 /\ events'[i].kind # "SteerItem"
                 /\ i # Len(events) + 1 /\ i # Len(events) + Len(middle) + 2
                       => events'[i].kind \notin StatusKinds
           /\ events'[Len(events) + 1].kind = "RunStarted"
           /\ events'[Len(events) + Len(middle) + 2].kind = "RunCompleted"
  <1> DEFINE first == <<Body("RunStarted", {}, 0)>>
             last == <<Body("RunCompleted", {}, 0)>>
             front == first \o middle
             bodies == front \o last
  <1>1. /\ first \in Seq(BodyType) /\ Len(first) = 1 /\ first[1].kind = "RunStarted"
        /\ last \in Seq(BodyType) /\ Len(last) = 1 /\ last[1].kind = "RunCompleted"
    BY DEF Body, BodyType, Kinds, ExecutorKinds
  <1>2. events' = events \o RowsOf(NewRun, 0, bodies)
    BY DEF SeedEvents
  <1>3. Len(middle) \in Nat /\ NewRun \in Nat /\ Len(events) \in Nat /\ Rows = 1..Len(events)
        /\ NewRun \notin Runs
    BY NewIds
  <1> HIDE DEF first, last
  <1>4. /\ front \in Seq(BodyType) /\ Len(front) = Len(first) + Len(middle)
        /\ \A i \in 1..Len(first) : front[i] = first[i]
        /\ \A i \in 1..Len(middle) : front[Len(first) + i] = middle[i]
    BY <1>1, ConcatBodies
  <1> HIDE DEF front
  <1>5. /\ bodies \in Seq(BodyType) /\ Len(bodies) = Len(front) + Len(last)
        /\ \A i \in 1..Len(front) : bodies[i] = front[i]
        /\ \A i \in 1..Len(last) : bodies[Len(front) + i] = last[i]
    BY <1>1, <1>4, ConcatBodies
  <1> HIDE DEF bodies
  <1>6. /\ bodies[1].kind = "RunStarted" /\ bodies[Len(middle) + 2].kind = "RunCompleted"
        /\ Len(bodies) = Len(middle) + 2
    BY <1>1, <1>3, <1>4, <1>5
  <1>7. ASSUME NEW i \in 1..Len(bodies), i # 1, i # Len(middle) + 2
        PROVE  bodies[i].kind \notin StatusKinds \cup {"SteerItem"}
    <2>1. i - 1 \in 1..Len(middle) /\ 1 + (i - 1) = i /\ i \in 1..Len(front)
      BY <1>1, <1>3, <1>4, <1>6, <1>7
    <2>2. bodies[i] = middle[i - 1]
      BY <1>1, <1>4, <1>5, <2>1
    <2> QED BY <2>1, <2>2 DEF Retold
  <1>8. /\ events' \in Seq(EventRow)
        /\ Len(events') = Len(events) + Len(bodies)
        /\ \A i \in 1..Len(events) : events'[i] = events[i]
        /\ \A i \in 1..Len(bodies) : IsRowOf(events'[Len(events) + i], NewRun, 0 + i, bodies[i])
    BY <1>2, <1>3, <1>5, AppendedRows
  <1>9. Rows' = 1..(Len(events) + Len(middle) + 2)
    BY <1>3, <1>6, <1>8 DEF Rows
  <1>10. ASSUME NEW i \in Rows' \ Rows
         PROVE  /\ i > Len(events) /\ events'[i].run = NewRun
                /\ events'[i].kind # "SteerItem"
                /\ i # Len(events) + 1 /\ i # Len(events) + Len(middle) + 2
                      => events'[i].kind \notin StatusKinds
    <2> DEFINE k == i - Len(events)
    <2>1. k \in 1..Len(bodies) /\ i = Len(events) + k /\ i > Len(events)
      BY <1>3, <1>6, <1>9
    <2>2. IsRowOf(events'[i], NewRun, 0 + k, bodies[k])
      BY <1>8, <2>1
    <2>3. i # Len(events) + 1 /\ i # Len(events) + Len(middle) + 2 => k # 1 /\ k # Len(middle) + 2
      BY <1>3, <2>1
    <2>4. bodies[k].kind # "SteerItem"
      BY <1>6, <1>7, <2>1
    <2> QED BY <1>7, <2>1, <2>2, <2>3, <2>4 DEF IsRowOf
  <1>11. /\ events'[Len(events) + 1].kind = "RunStarted"
         /\ events'[Len(events) + Len(middle) + 2].kind = "RunCompleted"
    <2>1. 1 \in 1..Len(bodies) /\ Len(middle) + 2 \in 1..Len(bodies)
          /\ Len(events) + (Len(middle) + 2) = Len(events) + Len(middle) + 2
      BY <1>3, <1>6
    <2> QED BY <1>6, <1>8, <2>1 DEF IsRowOf
  <1>12. \A x \in Runs : Untouched(x)
    BY <1>3, <1>8, <1>9, <1>10 DEF Untouched
  <1> QED BY <1>9, <1>10, <1>11, <1>12

\* The runs a session operation finds, and those it inserts.
Aside(x) ==
    /\ x \in Runs' /\ Untouched(x)
    /\ runs'[x].purpose = runs[x].purpose
    /\ \/ runs'[x].status = runs[x].status
       \/ ~Live(x) /\ runs'[x].status = "rewound"
Inserted(x) ==
    \/ runs'[x].status = "running" /\ \A i \in Rows' : events'[i].run # x
    \/ /\ runs'[x].status = "completed" /\ runs'[x].purpose = "seed"
       /\ \E first, last \in Rows' :
             /\ events'[last].run = x /\ events'[last].kind = "RunCompleted"
             /\ first < last /\ events'[first].kind = "RunStarted"
             /\ \A i \in Rows' : events'[i].run = x =>
                   /\ i <= last
                   /\ i # first /\ i # last => events'[i].kind \notin StatusKinds
\* A session operation writes only rows of the run it inserts, and touches no other table
\* than sessions, runs, events, links and the recorded keys.
LEMMA SessionRows ==
    ASSUME TypeOK, ReferencesValid, SessionNext
    PROVE  /\ UNCHANGED <<intents, approvals, todo, mode, crashes>>
           /\ \A x \in Runs : Aside(x)
           /\ \A x \in Runs' \ Runs : Inserted(x)
  <1>1. UNCHANGED <<intents, approvals, todo, mode, crashes>>
    BY DEF SessionNext, CreateSession, StartRun, StartAuxiliaryRun, ForkSession, RewindSession,
           LinkConversation, BindSessionToConversation
  <1>2. /\ \A x \in Runs : runs[x] \in RunRow
        /\ runs \in Seq(RunRow)
    BY NewIds DEF TypeOK
  <1>3. ASSUME runs' = runs, events' = events
        PROVE  (\A x \in Runs : Aside(x)) /\ (\A x \in Runs' \ Runs : Inserted(x))
    BY <1>3, QuietRows DEF Aside, Runs
  <1>4. ASSUME NEW s \in Sessions, NEW purpose \in Purposes,
               runs' = Append(runs, FreshRun(s, purpose)), events' = events
        PROVE  (\A x \in Runs : Aside(x)) /\ (\A x \in Runs' \ Runs : Inserted(x))
    <2> DEFINE row == FreshRun(s, purpose)
    <2>1. row \in RunRow /\ row.status = "running"
      BY FreshRunRow
    <2>2. runs' = Append(runs, row)
      BY <1>4
    <2> HIDE DEF row
    <2>3. /\ Runs' = Runs \cup {NewRun} /\ NewRun \notin Runs
          /\ \A r \in Runs : runs'[r] = runs[r]
          /\ runs'[NewRun] = row
      BY <1>2, <2>1, <2>2, InsertedRun
    <2>4. \A i \in Rows' : events'[i].run # NewRun
      BY <1>4, <2>3 DEF Rows, ReferencesValid
    <2> QED BY <1>4, <2>1, <2>3, <2>4, QuietRows DEF Aside, Inserted
  <1>5. ASSUME NEW s \in Nat, NEW middle \in Seq(BodyType), Retold(middle), SeedEvents(middle),
               NEW old \in Seq(RunRow), Len(old) = Len(runs), runs' = Append(old, SeedRun(s, middle)),
               \A x \in Runs : /\ old[x].purpose = runs[x].purpose
                               /\ \/ old[x].status = runs[x].status
                                  \/ ~Live(x) /\ old[x].status = "rewound"
        PROVE  (\A x \in Runs : Aside(x)) /\ (\A x \in Runs' \ Runs : Inserted(x))
    <2>1. /\ SeedRun(s, middle) \in RunRow /\ SeedRun(s, middle).status = "completed"
          /\ SeedRun(s, middle).purpose = "seed"
      BY SeedRunRow
    <2>2. /\ Runs' = Runs \cup {NewRun} /\ NewRun \notin Runs
          /\ \A r \in Runs : runs'[r] = old[r]
          /\ runs'[NewRun] = SeedRun(s, middle)
      BY <1>5, <2>1, InsertedRun
    <2>3. /\ \A x \in Runs : Untouched(x)
          /\ Rows' = 1..(Len(events) + Len(middle) + 2)
          /\ \A i \in Rows' \ Rows :
                /\ i > Len(events)
                /\ events'[i].run = NewRun
                /\ i # Len(events) + 1 /\ i # Len(events) + Len(middle) + 2
                      => events'[i].kind \notin StatusKinds
          /\ events'[Len(events) + 1].kind = "RunStarted"
          /\ events'[Len(events) + Len(middle) + 2].kind = "RunCompleted"
      BY <1>5, SeedRows
    <2> DEFINE first == Len(events) + 1
               last == Len(events) + Len(middle) + 2
    <2>4. /\ first \in Rows' \ Rows /\ last \in Rows' \ Rows /\ first < last
          /\ \A i \in Rows' : i <= last
      BY <2>3, NewIds
    <2>5. \A i \in Rows' : i \in Rows => events'[i].run # NewRun
      <3> TAKE i \in Rows'
      <3> HAVE i \in Rows
      <3>1. events[i].run \in Runs
        BY DEF ReferencesValid
      <3>2. events'[i].run = events[i].run
        BY <2>3, <3>1 DEF Untouched
      <3> QED BY <2>2, <3>1, <3>2
    <2>6. Inserted(NewRun)
      <3>1. runs'[NewRun].status = "completed" /\ runs'[NewRun].purpose = "seed"
        BY <2>1, <2>2
      <3>2. /\ first \in Rows' /\ last \in Rows' /\ first < last
            /\ events'[last].run = NewRun /\ events'[last].kind = "RunCompleted"
            /\ events'[first].kind = "RunStarted"
        BY <2>3, <2>4
      <3>3. ASSUME NEW i \in Rows', events'[i].run = NewRun
            PROVE  i <= last /\ (i # first /\ i # last => events'[i].kind \notin StatusKinds)
        <4>1. i \in Rows' \ Rows /\ i <= last
          BY <2>4, <2>5, <3>3
        <4> QED BY <2>3, <4>1
      <3> HIDE DEF first, last
      <3> QED BY <3>1, <3>2, <3>3, Zenon DEF Inserted
    <2> QED BY <1>5, <2>2, <2>3, <2>6 DEF Aside
  <1>6. \A x \in Runs : /\ runs[x].purpose = runs[x].purpose
                        /\ \/ runs[x].status = runs[x].status
                           \/ ~Live(x) /\ runs[x].status = "rewound"
    OBVIOUS
  <1>7. NewSession \in Nat /\ Sessions \subseteq Nat
    BY NewIds
  <1>8. CASE Quiet \/ NewEmptySession
    BY <1>1, <1>3, <1>8 DEF Quiet, NewEmptySession
  <1>9. ASSUME NEW s \in Sessions, NewTurn(s) \/ NewAuxiliary(s)
        PROVE  (\A x \in Runs : Aside(x)) /\ (\A x \in Runs' \ Runs : Inserted(x))
    BY <1>4, <1>9 DEF NewTurn, NewAuxiliary, Purposes
  <1>10. ASSUME NEW middle \in Seq(BodyType), Retold(middle), SeededSession(middle)
         PROVE  (\A x \in Runs : Aside(x)) /\ (\A x \in Runs' \ Runs : Inserted(x))
    BY <1>2, <1>5, <1>6, <1>7, <1>10 DEF SeededSession
  <1>11. ASSUME NEW s \in Sessions, NEW middle \in Seq(BodyType), Retold(middle),
                Rewound(s, middle)
         PROVE  (\A x \in Runs : Aside(x)) /\ (\A x \in Runs' \ Runs : Inserted(x))
    <2>1. /\ Superseded(s) \in Seq(RunRow) /\ Len(Superseded(s)) = Len(runs)
          /\ \A r \in Runs : /\ Superseded(s)[r].status = IF runs[r].session = s THEN "rewound"
                                                          ELSE runs[r].status
      BY SupersededRows
    <2>2. \A x \in Runs : Superseded(s)[x].purpose = runs[x].purpose
      BY <1>2 DEF Superseded, RunRow
    <2>3. \A x \in Runs : runs[x].session = s => ~Live(x)
      BY <1>11, EndedIsTerminal DEF Rewound
    <2> QED BY <1>5, <1>7, <1>11, <2>1, <2>2, <2>3 DEF Rewound
  <1> QED BY <1>1, <1>8, <1>9, <1>10, <1>11, SessionShapes DEF SessionShape

-----------------------------------------------------------------------------
(* Cancel intents. *)

\* Every member of a set of calls is in its ordering: ranks are distinct and below the
\* number of members.
LEMMA OrderingCovers ==
    ASSUME NEW S \in SUBSET Call, NEW calls \in Orderings(S, Less)
    PROVE  \A c \in S : \E k \in 1..Cardinality(S) : calls[k] = c
  <1> DEFINE below(e) == {d \in S : Less(d, e)}
             rank(e) == Cardinality(below(e))
  <1>1. IsFiniteSet(S) /\ S \subseteq Nat /\ Cardinality(S) \in Nat
    BY StoreAssumption, FS_Subset, FS_CardinalityType
  <1>2. \A e \in S : IsFiniteSet(below(e)) /\ rank(e) \in Nat
    <2> SUFFICES ASSUME NEW e \in S PROVE IsFiniteSet(below(e)) /\ rank(e) \in Nat
      OBVIOUS
    <2>1. below(e) \in SUBSET S
      OBVIOUS
    <2> HIDE DEF below
    <2> QED BY <1>1, <2>1, FS_Subset, FS_CardinalityType
  <1>3. \A e \in S : rank(e) + 1 \in 1..Cardinality(S)
    <2> SUFFICES ASSUME NEW e \in S PROVE rank(e) + 1 \in 1..Cardinality(S)
      OBVIOUS
    <2>1. below(e) \in SUBSET (S \ {e})
      <3>1. e \in Nat /\ ~(e < e)
        BY <1>1
      <3> QED BY <3>1 DEF Less
    <2>2. IsFiniteSet(S \ {e}) /\ Cardinality(S \ {e}) = Cardinality(S) - 1
      BY <1>1, FS_RemoveElement
    <2> HIDE DEF below
    <2>3. rank(e) <= Cardinality(S) - 1
      BY <2>1, <2>2, FS_Subset
    <2> QED BY <1>1, <1>2, <2>3
  <1>4. \A e, f \in S : e < f => rank(e) + 1 <= rank(f)
    <2> SUFFICES ASSUME NEW e \in S, NEW f \in S, e < f PROVE rank(e) + 1 <= rank(f)
      OBVIOUS
    <2>1. below(e) \cup {e} \in SUBSET below(f)
      <3>1. \A d \in S : d < e => d < f
        BY <1>1
      <3> QED BY <3>1 DEF Less
    <2>2. e \notin below(e)
      <3>1. e \in Nat /\ ~(e < e)
        BY <1>1
      <3> QED BY <3>1 DEF Less
    <2> HIDE DEF below
    <2>3. Cardinality(below(e) \cup {e}) = rank(e) + 1
      BY <1>2, <2>2, FS_AddElement
    <2>4. Cardinality(below(e) \cup {e}) <= rank(f)
      BY <1>2, <2>1, FS_Subset
    <2> QED BY <2>3, <2>4
  <1>5. \A e, f \in S : rank(e) = rank(f) => e = f
    <2> SUFFICES ASSUME NEW e \in S, NEW f \in S, rank(e) = rank(f), e # f PROVE FALSE
      OBVIOUS
    <2>1. e < f \/ f < e
      BY <1>1
    <2> HIDE DEF below
    <2>2. rank(e) \in Nat /\ rank(f) \in Nat
      BY <1>2
    <2> HIDE DEF rank
    <2> QED BY <1>4, <2>1, <2>2
  <1>6. calls = [i \in 1..Cardinality(S) |-> CHOOSE e \in S : rank(e) = i - 1]
    BY DEF Orderings
  <1> SUFFICES ASSUME NEW c \in S PROVE calls[rank(c) + 1] = c
    BY <1>3
  <1>7. calls[rank(c) + 1] = CHOOSE e \in S : rank(e) = (rank(c) + 1) - 1
    BY <1>3, <1>6
  <1>8. (rank(c) + 1) - 1 = rank(c)
    <2>1. rank(c) \in Nat
      BY <1>2
    <2> HIDE DEF rank
    <2> QED BY <2>1
  <1> HIDE DEF rank
  <1>9. \A e \in S : rank(e) = rank(c) <=> e = c
    BY <1>5
  <1> QED BY <1>7, <1>8, <1>9

\* The interruption that closes a run answers every call the run left open.
LEMMA InterruptionAnswers ==
    ASSUME TypeOK, ReferencesValid, NEW r \in Runs,
           NEW calls \in Orderings(PendingCalls(r), Less),
           NEW closing \in {"RunCancelled", "RunInterrupted"},
           AppendTx(r, Interruption(calls, closing))
    PROVE  PendingCalls(r)' = {}
  <1> DEFINE bodies == Interruption(calls, closing)
             n == Len(events)
  <1>1. closing \in Kinds
    BY DEF Kinds, ExecutorKinds
  <1>2. Nonempty(bodies)
    BY <1>1, InterruptionNonempty
  <1>3. calls \in Seq(Call) /\ Len(calls) \in Nat
    BY PendingOrderings
  <1>4. /\ Len(bodies) = Len(calls) + 1 /\ bodies[Len(calls) + 1].kind = closing
        /\ \A k \in 1..Len(calls) : bodies[k].kind = "ToolFailed"
    BY <1>1, <1>3, InterruptionType
  <1>5. \A k \in 1..Len(calls) : bodies[k].calls = {calls[k]}
    <2> DEFINE f == [k \in 1..Len(calls) |-> Body("ToolFailed", {calls[k]}, 0)]
               g == <<Body(closing, {}, 0)>>
    <2>1. f \in Seq(BodyType) /\ Len(f) = Len(calls) /\ g \in Seq(BodyType)
      <3>1. \A k \in 1..Len(calls) : Body("ToolFailed", {calls[k]}, 0) \in BodyType
        BY <1>3 DEF Body, BodyType, Kinds, ExecutorKinds, ToolResultKinds
      <3>2. Body(closing, {}, 0) \in BodyType
        BY <1>1 DEF Body, BodyType
      <3> QED BY <1>3, <3>1, <3>2
    <2>2. bodies = f \o g
      BY DEF Interruption
    <2>3. \A k \in 1..Len(calls) : f[k].calls = {calls[k]}
      BY DEF Body
    <2> HIDE DEF f, g, bodies
    <2>4. \A k \in 1..Len(calls) : bodies[k] = f[k]
      BY <2>1, <2>2, ConcatBodies
    <2> QED BY <2>3, <2>4
  <1> HIDE DEF bodies
  <1>6. AppendTx(r, bodies)
    BY DEF bodies
  <1>7. /\ \A i \in Rows : i \in Rows' /\ events'[i] = events[i]
        /\ Rows' = 1..(n + Len(bodies))
        /\ \A k \in 1..Len(bodies) :
              /\ n + k \in Rows'
              /\ IsRowOf(events'[n + k], r, runs[r].lastSeq + k, bodies[k])
        /\ \A i \in Rows' \ Rows : \E k \in 1..Len(bodies) : i = n + k
    BY <1>2, <1>6, AppendedTo
  <1>8. n \in Nat /\ Rows = 1..n
    BY NewIds
  <1>9. \A i \in Rows' \ Rows : events'[i].kind \notin {"AssistantItem", "ToolRequested"}
    <2> SUFFICES ASSUME NEW i \in Rows' \ Rows
                 PROVE  events'[i].kind \notin {"AssistantItem", "ToolRequested"}
      OBVIOUS
    <2>1. PICK k \in 1..Len(bodies) : i = n + k
      BY <1>7
    <2>2. bodies[k].kind \in {"ToolFailed", "RunCancelled", "RunInterrupted"}
      BY <1>3, <1>4
    <2>3. events'[i].kind = bodies[k].kind
      BY <1>7, <2>1 DEF IsRowOf
    <2> QED BY <2>2, <2>3
  <1>10. ASSUME NEW c \in PendingCalls(r)' PROVE FALSE
    <2>1. PICK i \in Rows' :
             /\ events'[i].run = r /\ c \in events'[i].calls
             /\ events'[i].kind \in {"AssistantItem", "ToolRequested"}
             /\ \A j \in Rows' : j > i /\ events'[j].run = r /\ c \in events'[j].calls
                                    => events'[j].kind \notin ToolResultKinds
      BY <1>10 DEF PendingCalls
    <2>2. i \in Rows
      BY <1>9, <2>1
    <2>3. c \in PendingCalls(r)
      BY <1>7, <1>10, <2>1, <2>2 DEF PendingCalls
    <2>4. PendingCalls(r) \in SUBSET Call
      BY DEF PendingCalls
    <2>5. PICK k \in 1..Cardinality(PendingCalls(r)) : calls[k] = c
      BY <2>3, <2>4, OrderingCovers
    <2>6. k \in 1..Len(calls)
      <3>1. calls \in [1..Cardinality(PendingCalls(r)) -> PendingCalls(r)]
        BY DEF Orderings
      <3>2. DOMAIN calls = 1..Len(calls)
        BY <1>3
      <3> QED BY <3>1, <3>2
    <2>7. k \in 1..Len(bodies) /\ n + k \in Rows' /\ n + k > i
      BY <1>3, <1>4, <1>7, <1>8, <2>2, <2>6
    <2>8. /\ events'[n + k].run = r /\ c \in events'[n + k].calls
          /\ events'[n + k].kind = "ToolFailed"
      <3>1. IsRowOf(events'[n + k], r, runs[r].lastSeq + k, bodies[k])
        BY <1>7, <2>7
      <3>2. bodies[k].kind = "ToolFailed" /\ bodies[k].calls = {c}
        BY <1>4, <1>5, <2>5, <2>6
      <3> QED BY <3>1, <3>2 DEF IsRowOf
    <2> QED BY <2>1, <2>7, <2>8 DEF ToolResultKinds
  <1> QED BY <1>10

\* The inductive invariant: CancelHonoured, and an interrupted run has ended (so no writer
\* can add another call to it).
Interrupted(r) == \E i \in RowsOfRun(r) : events[i].kind = "RunInterrupted"
CancelInv ==
    /\ \A r \in intents : runs[r].status \in {"cancelled", "rewound"}
    /\ \A r \in Runs : Interrupted(r) => ~Live(r)
    /\ \A r \in Runs : r \in intents \/ Interrupted(r) => PendingCalls(r) = {}

\* What the invariant says of one run.
CancelOK(x) ==
    /\ x \in intents => runs[x].status \in {"cancelled", "rewound"}
    /\ Interrupted(x) => ~Live(x)
    /\ x \in intents \/ Interrupted(x) => PendingCalls(x) = {}

LEMMA CancelRuns ==
    ASSUME TypeOK, ReferencesValid, (TypeOK /\ ReferencesValid)'
    PROVE  /\ CancelInv <=> \A x \in Runs : CancelOK(x)
           /\ CancelInv' <=> \A x \in Runs' : CancelOK(x)'
  BY DEF CancelInv, CancelOK, ReferencesValid

\* A run with untouched rows whose row is kept, or superseded after its end, keeps its part.
LEMMA CancelAside ==
    ASSUME NEW x \in Runs, CancelOK(x), Untouched(x),
           x \in intents' <=> x \in intents,
           runs'[x].status = runs[x].status \/ runs'[x].status = "rewound"
    PROVE  CancelOK(x)'
  <1>1. Interrupted(x)' <=> Interrupted(x)
    BY UntouchedRows DEF Interrupted
  <1>2. PendingCalls(x)' = PendingCalls(x)
    BY UntouchedRows
  <1> QED BY <1>1, <1>2 DEF CancelOK, Live

\* Only an interruption writes run.failed(core_restarted), and only for its own run.
LEMMA CancelAppend ==
    ASSUME TypeOK, ReferencesValid, CancelInv, (TypeOK /\ ReferencesValid)',
           NEW r \in Runs, NEW bodies, Nonempty(bodies), AppendTx(r, bodies),
           intents' \ {r} = intents \ {r}, CancelOK(r)'
    PROVE  CancelInv'
  <1>1. /\ Runs' = Runs
        /\ \A x \in Runs : x # r => Untouched(x) /\ runs'[x] = runs[x]
    BY AppendedTo
  <1>2. \A x \in Runs : CancelOK(x)
    BY CancelRuns
  <1>3. \A x \in Runs : x # r => CancelOK(x)'
    BY <1>1, <1>2, CancelAside
  <1> QED BY <1>1, <1>3, CancelRuns

\* A run that takes an ordinary event has no cancel intent and was never interrupted.
LEMMA CancelOrdinary ==
    ASSUME TypeOK, ReferencesValid, CancelInv, (TypeOK /\ ReferencesValid)',
           NEW r \in Runs, NEW body \in BodyType, body.kind # "RunInterrupted",
           AppendTx(r, <<body>>), intents' = intents
    PROVE  CancelInv'
  <1> DEFINE bodies == <<body>>
  <1>1. Nonempty(bodies) /\ Len(bodies) = 1 /\ bodies[1] = body
    BY DEF Nonempty
  <1> HIDE DEF bodies
  <1>2. AppendTx(r, bodies)
    BY DEF bodies
  <1>3. /\ Live(r)
        /\ \A i \in Rows : events'[i] = events[i]
        /\ \A k \in 1..Len(bodies) :
              IsRowOf(events'[Len(events) + k], r, runs[r].lastSeq + k, bodies[k])
        /\ \A i \in Rows' \ Rows : \E k \in 1..Len(bodies) : i = Len(events) + k
    BY <1>1, <1>2, AppendedTo
  <1>4. r \notin intents /\ ~Interrupted(r)
    BY <1>3 DEF CancelInv, Live
  <1>5. \A i \in Rows' \ Rows : events'[i].kind = body.kind
    BY <1>1, <1>3 DEF IsRowOf
  <1>6. ~Interrupted(r)'
    BY <1>3, <1>4, <1>5 DEF Interrupted, RowsOfRun
  <1>7. CancelOK(r)'
    BY <1>4, <1>6 DEF CancelOK
  <1> QED BY <1>1, <1>2, <1>7, CancelAppend

\* A run that an interruption closes has no unanswered call left.
LEMMA CancelInterruption ==
    ASSUME TypeOK, ReferencesValid, CancelInv, (TypeOK /\ ReferencesValid)',
           NEW r \in Runs, NEW calls \in Orderings(PendingCalls(r), Less),
           NEW closing \in {"RunCancelled", "RunInterrupted"},
           AppendTx(r, Interruption(calls, closing)),
           intents' = intents \/ (closing = "RunCancelled" /\ intents' = intents \cup {r})
    PROVE  CancelInv'
  <1> DEFINE bodies == Interruption(calls, closing)
  <1>1. Nonempty(bodies) /\ bodies[Len(bodies)].kind = closing
    BY InterruptionNonempty DEF Kinds, ExecutorKinds
  <1>2. PendingCalls(r)' = {}
    BY InterruptionAnswers
  <1> HIDE DEF bodies
  <1>3. AppendTx(r, bodies)
    BY DEF bodies
  <1>4. Live(r) /\ runs'[r].status = EventStatus(closing, runs[r].status)
    BY <1>1, <1>3, AppendedTo
  <1>5. runs'[r].status = IF closing = "RunCancelled" THEN "cancelled" ELSE "failed"
    BY <1>4 DEF EventStatus
  <1>6. r \notin intents
    BY <1>4 DEF CancelInv, Live
  <1>7. CancelOK(r)'
    BY <1>2, <1>5, <1>6 DEF CancelOK, Live
  <1> QED BY <1>1, <1>3, <1>7, CancelAppend

\* The steps that append to a run's log.
LEMMA CancelStep ==
    ASSUME TypeOK, ReferencesValid, CancelInv, [Next]_vars
    PROVE  CancelInv'
  <1>1. (TypeOK /\ ReferencesValid)'
    BY TypeStep
  <1>2. CASE SessionNext
    <2>1. /\ UNCHANGED <<intents, approvals, todo, mode, crashes>>
          /\ \A x \in Runs : Aside(x)
          /\ \A x \in Runs' \ Runs : Inserted(x)
      BY <1>2, SessionRows
    <2>2. \A x \in Runs : CancelOK(x)'
      <3>1. \A x \in Runs : CancelOK(x)
        BY <1>1, CancelRuns
      <3> QED BY <2>1, <3>1, CancelAside DEF Aside
    <2>3. ASSUME NEW x \in Runs' \ Runs PROVE CancelOK(x)'
      <3>1. x \notin intents'
        BY <2>1 DEF ReferencesValid
      <3>2. ~Interrupted(x)'
        <4>1. CASE \A i \in Rows' : events'[i].run # x
          BY <4>1 DEF Interrupted, RowsOfRun
        <4>2. CASE \E first, last \in Rows' :
                      /\ events'[last].run = x /\ events'[last].kind = "RunCompleted"
                      /\ first < last /\ events'[first].kind = "RunStarted"
                      /\ \A i \in Rows' : events'[i].run = x =>
                            /\ i <= last
                            /\ i # first /\ i # last => events'[i].kind \notin StatusKinds
          BY <4>2 DEF Interrupted, RowsOfRun, StatusKinds, TerminalKinds
        <4> QED BY <2>1, <4>1, <4>2 DEF Inserted
      <3> QED BY <3>1, <3>2 DEF CancelOK
    <2> QED BY <1>1, <2>2, <2>3, CancelRuns
  <1>3. ASSUME NEW r \in Runs, NEW kind \in AppendKinds, NEW calls \in EventCalls(kind),
               NEW ref \in EventRefs(r, kind), AppendEventAuto(r, kind, calls, ref)
        PROVE  CancelInv'
    <2>1. Body(kind, calls, ref) \in BodyType /\ Body(kind, calls, ref).kind # "RunInterrupted"
      <3>1. kind \in Kinds /\ calls \in SUBSET Call /\ ref \in Nat /\ kind \in ExecutorKinds
        BY EventArguments, StoreAssumption
      <3> QED BY <3>1 DEF Body, BodyType, ExecutorKinds, ToolResultKinds
    <2>2. AppendTx(r, <<Body(kind, calls, ref)>>) /\ intents' = intents
      BY <1>3 DEF AppendEventAuto
    <2> QED BY <1>1, <2>1, <2>2, CancelOrdinary
  <1>4. ASSUME NEW r \in Runs, NEW k \in Key, SteerRun(r, k)
        PROVE  CancelInv'
    <2>1. Body("SteerItem", {}, 0) \in BodyType /\ Body("SteerItem", {}, 0).kind # "RunInterrupted"
      BY DEF Body, BodyType, Kinds, ExecutorKinds
    <2>2. AppendTx(r, <<Body("SteerItem", {}, 0)>>) /\ intents' = intents
      BY <1>4 DEF SteerRun
    <2> QED BY <1>1, <2>1, <2>2, CancelOrdinary
  <1>5. ASSUME NEW r \in Runs, NEW k \in Key, AcceptCancel(r, k)
        PROVE  CancelInv'
    <2>1. PICK calls \in Orderings(PendingCalls(r), Less) :
              AppendTx(r, Interruption(calls, "RunCancelled"))
      BY <1>5 DEF AcceptCancel
    <2>2. intents' = intents \cup {r}
      BY <1>5 DEF AcceptCancel
    <2> QED BY <1>1, <2>1, <2>2, CancelInterruption
  <1>6. ASSUME NEW r \in Runs, NEW c \in Call, CreateApproval(r, c)
        PROVE  CancelInv'
    <2> DEFINE body == Body("ApprovalRequired", {c}, Len(approvals) + 1)
    <2>1. body \in BodyType /\ body.kind # "RunInterrupted"
      BY NewIds DEF Body, BodyType, Kinds
    <2>2. AppendTx(r, <<body>>) /\ intents' = intents
      BY <1>6 DEF CreateApproval
    <2> HIDE DEF body
    <2> QED BY <1>1, <2>1, <2>2, CancelOrdinary
  <1>7. ASSUME NEW a \in Approvals, NEW state, DecideApproval(a, state), intents' = intents
        PROVE  CancelInv'
    <2> DEFINE body == Body("ApprovalResolved", {approvals[a].call}, a)
    <2>1. approvals[a] \in ApprovalRow /\ a \in Nat /\ approvals[a].run \in Runs
      BY NewIds DEF TypeOK, ReferencesValid
    <2>2. body \in BodyType /\ body.kind # "RunInterrupted"
      BY <2>1 DEF Body, BodyType, Kinds, ApprovalRow
    <2>3. AppendTx(approvals[a].run, <<body>>)
      BY <1>7 DEF DecideApproval
    <2> HIDE DEF body
    <2> QED BY <1>1, <1>7, <2>1, <2>2, <2>3, CancelOrdinary
  <1>8. ASSUME NEW t \in todo, RecoverRun(t)
        PROVE  CancelInv'
    <2> DEFINE closing == IF t.cancelled THEN "RunCancelled" ELSE "RunInterrupted"
    <2>1. PICK calls \in Orderings(PendingCalls(t.run), Less) :
              AppendTx(t.run, Interruption(calls, closing))
      BY <1>8 DEF RecoverRun
    <2>2. t.run \in Runs /\ intents' = intents /\ closing \in {"RunCancelled", "RunInterrupted"}
      BY <1>8 DEF RecoverRun, ReferencesValid
    <2> HIDE DEF closing
    <2> QED BY <1>1, <2>1, <2>2, CancelInterruption
  <1>9. ASSUME UNCHANGED <<runs, events, intents>>
        PROVE  CancelInv'
    BY <1>9 DEF CancelInv, Interrupted, RowsOfRun, PendingCalls, Live, Runs, Rows
  <1>10. CASE Crash \/ BeginRecovery \/ FinishRecovery \/ UNCHANGED vars
    BY <1>9, <1>10 DEF Crash, BeginRecovery, FinishRecovery, vars
  <1>11. CASE RunNext
    BY <1>3, <1>4, <1>5, <1>11 DEF RunNext
  <1>12. CASE ApprovalNext
    BY <1>6, <1>7, <1>12 DEF ApprovalNext, ResolveApproval, ExpireApproval
  <1> QED BY <1>2, <1>8, <1>10, <1>11, <1>12 DEF Next, RecoveryNext

\* An accepted cancel is final, and whatever the executors wrote before it or before a
\* crash, the cancel or the recovery answers every tool call the run left open.
THEOREM CancelsAreHonoured == Spec => []CancelHonoured
  <1>1. Init => CancelInv
    BY DEF Init, CancelInv, Runs
  <1>2. TypeOK /\ ReferencesValid /\ CancelInv /\ [Next]_vars => CancelInv'
    BY CancelStep
  <1>3. CancelInv => CancelHonoured
    BY DEF CancelInv, CancelHonoured, Interrupted
  <1> QED BY <1>1, <1>2, <1>3, TypeCorrect, PTL DEF Spec

-----------------------------------------------------------------------------
(* Idempotency records. *)

\* The inductive invariant: the results recorded under a scope are exactly its effects and
\* no two keys share one.
Once(scope, effects) ==
    /\ {idem[scope][k] : k \in Recorded(scope)} = effects
    /\ \A k, l \in Recorded(scope) : idem[scope][k] = idem[scope][l] => k = l
Turns == {r \in Runs : runs[r].purpose = "turn"}
Steered == {i \in Rows : events[i].kind = "SteerItem"}
Decided == {a \in Approvals : approvals[a].state \in Decisions}
KeysInv ==
    /\ Once("session.prompt", Turns)
    /\ Once("session.steer", Steered)
    /\ Once("run.cancel", intents)
    /\ Once("approval.resolve", Decided)

\* Keys that are one-to-one with a finite set of effects are as many.
LEMMA OnceCounts ==
    ASSUME NEW scope, NEW effects, IsFiniteSet(effects), Once(scope, effects)
    PROVE  Cardinality(Recorded(scope)) = Cardinality(effects)
  <1> DEFINE result == [k \in Recorded(scope) |-> idem[scope][k]]
  <1>1. result \in Bijection(Recorded(scope), effects)
    <2>1. result \in [Recorded(scope) -> effects]
      BY DEF Once
    <2>2. \A k, l \in Recorded(scope) : result[k] = result[l] => k = l
      BY DEF Once
    <2>3. \A e \in effects : \E k \in Recorded(scope) : result[k] = e
      BY DEF Once
    <2> HIDE DEF result
    <2> QED BY <2>1, <2>2, <2>3 DEF Bijection, Injection, Surjection, IsInjective
  <1> HIDE DEF result
  <1>2. result \in Injection(Recorded(scope), effects) /\ result \in Surjection(Recorded(scope), effects)
    BY <1>1 DEF Bijection
  <1> QED BY <1>2, FS_Injection

\* The scope an operation does not record under.
LEMMA OnceKept ==
    ASSUME NEW scope \in Scopes, NEW effects, Once(scope, effects), idem'[scope] = idem[scope],
           NEW effects1, effects1 = effects
    PROVE  {idem'[scope][k] : k \in Recorded(scope)'} = effects1
           /\ \A k, l \in Recorded(scope)' : idem'[scope][k] = idem'[scope][l] => k = l
  BY DEF Once, Recorded

\* A fresh key records an effect that was not there.
LEMMA OnceAdded ==
    ASSUME TypeOK, NEW scope \in Scopes, NEW effects, Once(scope, effects),
           NEW k \in Key, NEW e \in Nat, e # 0, e \notin effects, idem[scope][k] = 0,
           Record(scope, k, e), NEW effects1, effects1 = effects \cup {e}
    PROVE  {idem'[scope][l] : l \in Recorded(scope)'} = effects1
           /\ \A l, m \in Recorded(scope)' : idem'[scope][l] = idem'[scope][m] => l = m
  <1>1. /\ idem'[scope][k] = e
        /\ \A l \in Key : l # k => idem'[scope][l] = idem[scope][l]
    BY DEF TypeOK, Record
  <1>2. Recorded(scope)' = Recorded(scope) \cup {k} /\ k \notin Recorded(scope)
    BY <1>1 DEF Recorded
  <1>3. \A l \in Recorded(scope) : idem'[scope][l] = idem[scope][l] /\ idem[scope][l] \in effects
    BY <1>1, <1>2 DEF Recorded, Once
  <1>4. {idem'[scope][l] : l \in Recorded(scope)'} = effects1
    <2>1. \A l \in Recorded(scope)' : idem'[scope][l] \in effects1
      BY <1>1, <1>2, <1>3
    <2>2. \A x \in effects1 : \E l \in Recorded(scope)' : idem'[scope][l] = x
      BY <1>1, <1>2, <1>3 DEF Once
    <2> QED BY <2>1, <2>2
  <1>5. \A l, m \in Recorded(scope)' : idem'[scope][l] = idem'[scope][m] => l = m
    BY <1>1, <1>2, <1>3 DEF Once
  <1> QED BY <1>4, <1>5

\* Recording under one scope leaves the records of the others.
LEMMA RecordAside ==
    ASSUME TypeOK, NEW scope \in Scopes, NEW k \in Key, NEW n, Record(scope, k, n)
    PROVE  \A other \in Scopes : other # scope => idem'[other] = idem[other]
  BY DEF TypeOK, Record

KeyScopes == {"session.prompt", "session.steer", "run.cancel", "approval.resolve"}

\* A request that records under none of the four scopes, and has none of their effects.
LEMMA KeysAside ==
    ASSUME KeysInv, \A scope \in KeyScopes : idem'[scope] = idem[scope],
           Turns' = Turns, Steered' = Steered, intents' = intents, Decided' = Decided
    PROVE  KeysInv'
  <1> DEFINE Kept(scope, effects, effects1) ==
                /\ {idem'[scope][k] : k \in Recorded(scope)'} = effects1
                /\ \A k, l \in Recorded(scope)' : idem'[scope][k] = idem'[scope][l] => k = l
  <1>1. \A scope \in KeyScopes : scope \in Scopes /\ idem'[scope] = idem[scope]
    BY DEF KeyScopes, Scopes
  <1>2. Kept("session.prompt", Turns, Turns')
    <2>1. "session.prompt" \in KeyScopes /\ Once("session.prompt", Turns)
      BY DEF KeysInv, KeyScopes
    <2> QED BY <1>1, <2>1, OnceKept
  <1>3. Kept("run.cancel", intents, intents')
    <2>1. "run.cancel" \in KeyScopes /\ Once("run.cancel", intents)
      BY DEF KeysInv, KeyScopes
    <2> QED BY <1>1, <2>1, OnceKept
  <1>4. Kept("approval.resolve", Decided, Decided')
    <2>1. "approval.resolve" \in KeyScopes /\ Once("approval.resolve", Decided)
      BY DEF KeysInv, KeyScopes
    <2> QED BY <1>1, <2>1, OnceKept
  <1>5. Kept("session.steer", Steered, Steered')
    <2>1. "session.steer" \in KeyScopes /\ Once("session.steer", Steered)
      BY DEF KeysInv, KeyScopes
    <2> QED BY <1>1, <2>1, OnceKept
  <1> QED BY <1>2, <1>3, <1>4, <1>5 DEF KeysInv, Once

\* The turns stay when no inserted run is one.
LEMMA TurnsKept ==
    ASSUME \A x \in Runs : x \in Runs' /\ runs'[x].purpose = runs[x].purpose,
           \A x \in Runs' \ Runs : runs'[x].purpose # "turn"
    PROVE  Turns' = Turns
  BY DEF Turns

\* No session operation steers: what a seed run copies has a source of its own.
LEMMA SessionSteersNobody ==
    ASSUME TypeOK, ReferencesValid, SessionNext
    PROVE  Steered' = Steered
  <1>1. ASSUME NEW middle \in Seq(BodyType), Retold(middle), SeedEvents(middle)
        PROVE  Steered' = Steered
    <2>1. Rows \subseteq Rows' /\ \A i \in Rows : events'[i] = events[i]
      <3>1. /\ Len(events') = Len(events) + Len(middle) + 2
            /\ \A i \in 1..Len(events) : events'[i] = events[i]
        BY <1>1, SeedEventsEffect
      <3>2. Len(events) \in Nat /\ Len(middle) \in Nat /\ Rows = 1..Len(events)
        BY NewIds
      <3>3. Rows' = 1..(Len(events) + Len(middle) + 2)
        BY <1>1, SeedRows
      <3> QED BY <3>1, <3>2, <3>3
    <2>2. \A i \in Rows' \ Rows : events'[i].kind # "SteerItem"
      BY <1>1, SeedRows
    <2> QED BY <2>1, <2>2 DEF Steered
  <1>2. CASE events' = events
    BY <1>2 DEF Steered, Rows
  <1> QED BY <1>1, <1>2, SessionShapes DEF SessionShape, Quiet, NewEmptySession, NewTurn,
          NewAuxiliary, SeededSession, Rewound

\* A transaction without a steer in it.
Ordinary(bodies) ==
    Nonempty(bodies) /\ \A k \in 1..Len(bodies) : bodies[k].kind # "SteerItem"
LEMMA OneOrdinary ==
    ASSUME NEW kind \in Kinds \ {"SteerItem"}, NEW calls \in SUBSET Call, NEW ref \in Nat
    PROVE  Ordinary(<<Body(kind, calls, ref)>>)
  <1> DEFINE bodies == <<Body(kind, calls, ref)>>
  <1>1. Nonempty(bodies) /\ Len(bodies) = 1 /\ bodies[1].kind = kind
    BY OneBody
  <1> HIDE DEF bodies
  <1>2. Ordinary(bodies)
    BY <1>1 DEF Ordinary
  <1> QED BY <1>2 DEF bodies
LEMMA InterruptionOrdinary ==
    ASSUME TypeOK, NEW r, NEW calls \in Orderings(PendingCalls(r), Less),
           NEW closing \in {"RunCancelled", "RunInterrupted"}
    PROVE  Ordinary(Interruption(calls, closing))
  <1>1. closing \in Kinds
    BY DEF Kinds, ExecutorKinds
  <1>2. calls \in Seq(Call) /\ Len(calls) \in Nat
    BY PendingOrderings
  <1>3. /\ Len(Interruption(calls, closing)) = Len(calls) + 1
        /\ Interruption(calls, closing)[Len(calls) + 1].kind = closing
        /\ \A i \in 1..Len(calls) : Interruption(calls, closing)[i].kind = "ToolFailed"
    BY <1>1, <1>2, InterruptionType
  <1>4. Nonempty(Interruption(calls, closing))
    BY <1>1, InterruptionNonempty
  <1> QED BY <1>2, <1>3, <1>4 DEF Ordinary

\* The session operations.
LEMMA SessionKeys ==
    ASSUME TypeOK, ReferencesValid, KeysInv, SessionNext
    PROVE  KeysInv'
  <1>1. /\ UNCHANGED <<intents, approvals, todo, mode, crashes>>
        /\ \A x \in Runs : Aside(x)
        /\ \A x \in Runs' \ Runs : Inserted(x)
    BY SessionRows
  <1>2. Decided' = Decided /\ intents' = intents /\ Steered' = Steered
    BY <1>1, SessionSteersNobody DEF Decided, Approvals
  <1>3. KeyScopes \subseteq Scopes
    BY DEF KeyScopes, Scopes
  <1>4. ASSUME NEW s \in Sessions, NEW k \in Key, StartRun(s, k)
        PROVE  KeysInv'
    <2> DEFINE row == FreshRun(s, "turn")
    <2>1. row \in RunRow /\ row.purpose = "turn"
      BY FreshRunRow DEF Purposes
    <2>2. runs' = Append(runs, row) /\ runs \in Seq(RunRow)
      BY <1>4 DEF StartRun, FreshRun, TypeOK
    <2> HIDE DEF row
    <2>3. /\ Runs' = Runs \cup {NewRun} /\ NewRun \notin Runs /\ NewRun # 0
          /\ \A r \in Runs : runs'[r] = runs[r]
          /\ runs'[NewRun] = row
      BY <2>1, <2>2, InsertedRun
    <2>4. Turns' = Turns \cup {NewRun} /\ NewRun \notin Turns
      BY <2>1, <2>3 DEF Turns
    <2>5. /\ idem["session.prompt"][k] = 0 /\ Record("session.prompt", k, NewRun)
          /\ NewRun \in Nat
      BY <1>4, NewIds DEF StartRun, Fresh
    <2>6. /\ idem'["run.cancel"] = idem["run.cancel"]
          /\ idem'["approval.resolve"] = idem["approval.resolve"]
          /\ idem'["session.steer"] = idem["session.steer"]
      BY <2>5, RecordAside DEF Scopes
    <2>7. Once("session.prompt", Turns)'
      <3>1. Once("session.prompt", Turns) /\ "session.prompt" \in Scopes
        BY DEF KeysInv, Scopes
      <3>2. /\ {idem'["session.prompt"][l] : l \in Recorded("session.prompt")'} = Turns'
            /\ \A l, m \in Recorded("session.prompt")' :
                  idem'["session.prompt"][l] = idem'["session.prompt"][m] => l = m
        BY <2>3, <2>4, <2>5, <3>1, OnceAdded
      <3> QED BY <3>2 DEF Once
    <2>8. /\ Once("run.cancel", intents)' /\ Once("approval.resolve", Decided)'
          /\ Once("session.steer", Steered)'
      BY <1>2, <2>6 DEF KeysInv, Once, Recorded
    <2> QED BY <2>7, <2>8 DEF KeysInv
  <1>5. ASSUME \A x \in Runs' \ Runs : runs'[x].purpose # "turn",
               \A scope \in KeyScopes : idem'[scope] = idem[scope]
        PROVE  KeysInv'
    BY <1>1, <1>2, <1>5, KeysAside, TurnsKept DEF Aside
  <1>6. ASSUME NEW scope \in Scopes \ KeyScopes, NEW k \in Key, NEW n, Record(scope, k, n)
        PROVE  \A other \in KeyScopes : idem'[other] = idem[other]
    BY <1>3, <1>6, RecordAside
  <1>7. {"session.create", "session.fork", "session.rewind", "session.for_conversation"}
           \subseteq Scopes \ KeyScopes
    BY DEF Scopes, KeyScopes
  <1>8. ASSUME NEW s \in Sessions, StartAuxiliaryRun(s)
        PROVE  KeysInv'
    <2> DEFINE row == FreshRun(s, "auxiliary")
    <2>1. row \in RunRow /\ row.purpose = "auxiliary"
      BY FreshRunRow DEF Purposes
    <2>2. runs' = Append(runs, row) /\ runs \in Seq(RunRow) /\ idem' = idem
      BY <1>8 DEF StartAuxiliaryRun, FreshRun, TypeOK
    <2> HIDE DEF row
    <2>3. /\ Runs' = Runs \cup {NewRun} /\ runs'[NewRun] = row
      BY <2>1, <2>2, InsertedRun
    <2> QED BY <1>5, <2>1, <2>2, <2>3
  <1>9. ASSUME NEW s \in Nat, NEW n \in Nat, NEW old \in Seq(RunRow), Len(old) = Len(runs),
               runs' = Append(old, [session |-> s, status |-> "completed", lastSeq |-> n,
                                    purpose |-> "seed"])
        PROVE  \A x \in Runs' \ Runs : runs'[x].purpose # "turn"
    <2> DEFINE row == [session |-> s, status |-> "completed", lastSeq |-> n, purpose |-> "seed"]
    <2>1. row \in RunRow /\ row.purpose = "seed"
      BY DEF RunRow, Statuses, Purposes
    <2>2. runs' = Append(old, row)
      BY <1>9
    <2> HIDE DEF row
    <2> QED BY <1>9, <2>1, <2>2, InsertedRun
  <1>10. NewSession \in Nat /\ Sessions \subseteq Nat /\ runs \in Seq(RunRow)
    BY NewIds DEF TypeOK
  <1>11. ASSUME NEW s \in Sessions, NEW k \in Key, NEW cursor, NEW maxSeq,
                ForkSession(s, k, cursor, maxSeq)
         PROVE  KeysInv'
    <2>1. PICK source \in Orderings(CopiedRows(s, cursor, maxSeq), CopyOrder) :
              runs' = Append(runs, SeedRun(NewSession, source))
      BY <1>11 DEF ForkSession
    <2>2. Len(source) + 2 \in Nat
      BY CopyOrderings
    <2>3. \A x \in Runs' \ Runs : runs'[x].purpose # "turn"
      BY <1>9, <1>10, <2>1, <2>2 DEF SeedRun
    <2>4. Record("session.fork", k, NewSession)
      BY <1>11 DEF ForkSession
    <2> QED BY <1>5, <1>6, <1>7, <2>3, <2>4
  <1>12. ASSUME NEW s \in Sessions, NEW k \in Key, NEW cursor \in Nat, RewindSession(s, k, cursor)
         PROVE  KeysInv'
    <2>1. PICK source \in Orderings(CopiedRows(s, cursor, Len(events)), CopyOrder) :
              runs' = Append(Superseded(s),
                             SeedRun(s, Append(CopyBodies(source), Body("RunRewound", {}, cursor))))
      BY <1>12 DEF RewindSession, Superseded
    <2> DEFINE middle == Append(CopyBodies(source), Body("RunRewound", {}, cursor))
    <2>2. Len(middle) + 2 \in Nat
      BY CopyOrderings, CopyBodiesType
    <2>3. Superseded(s) \in Seq(RunRow) /\ Len(Superseded(s)) = Len(runs)
      BY SupersededRows
    <2>4. runs' = Append(Superseded(s), SeedRun(s, middle))
      BY <2>1
    <2> HIDE DEF middle
    <2>5. \A x \in Runs' \ Runs : runs'[x].purpose # "turn"
      BY <1>9, <1>10, <2>2, <2>3, <2>4 DEF SeedRun
    <2>6. Record("session.rewind", k, NewRun)
      BY <1>12 DEF RewindSession
    <2> QED BY <1>5, <1>6, <1>7, <2>5, <2>6
  <1>13. ASSUME NEW c \in Conversation, NEW k \in Key, NEW n \in Nat, LinkConversation(c, k, n)
         PROVE  KeysInv'
    <2>1. CASE LinkNewConversation(c, k, n)
      <3> DEFINE imported == [i \in 1..n |-> Body("UserItem", {}, 0)]
      <3>1. runs' = Append(runs, SeedRun(NewSession, imported)) /\ Len(imported) + 2 \in Nat
        BY <2>1 DEF LinkNewConversation
      <3> HIDE DEF imported
      <3>2. \A x \in Runs' \ Runs : runs'[x].purpose # "turn"
        BY <1>9, <1>10, <3>1 DEF SeedRun
      <3>3. Record("session.for_conversation", k, NewSession)
        BY <2>1 DEF LinkNewConversation
      <3> QED BY <1>5, <1>6, <1>7, <3>2, <3>3
    <2>2. CASE LinkKnownConversation(c, k)
      <3>1. Record("session.for_conversation", k, links[c]) /\ Runs' = Runs
        BY <2>2 DEF LinkKnownConversation, Runs
      <3> QED BY <1>5, <1>6, <1>7, <3>1
    <2> QED BY <1>13, <2>1, <2>2 DEF LinkConversation
  <1>14. ASSUME NEW c \in Conversation, NEW s \in Sessions, NEW k \in Key,
                BindSessionToConversation(c, s, k)
         PROVE  KeysInv'
    <2>1. Record("session.for_conversation", k, s) /\ Runs' = Runs
      BY <1>14 DEF BindSessionToConversation, Runs
    <2> QED BY <1>5, <1>6, <1>7, <2>1
  <1>15. ASSUME NEW k \in Key, CreateSession(k)
         PROVE  KeysInv'
    <2>1. Record("session.create", k, NewSession) /\ Runs' = Runs
      BY <1>15 DEF CreateSession, Runs
    <2> QED BY <1>5, <1>6, <1>7, <2>1
  <1>16. 0..MaxImported \subseteq Nat /\ \A s : CopyCursors(s) \subseteq Nat
    BY StoreAssumption, CursorsType
  <1> QED BY <1>4, <1>8, <1>11, <1>12, <1>13, <1>14, <1>15, <1>16 DEF SessionNext

\* Appending events inserts no run, so the turns stay; ordinary ones leave the steers, too.
LEMMA AppendKeepsTurns ==
    ASSUME TypeOK, ReferencesValid, NEW r \in Runs, NEW bodies, Nonempty(bodies),
           AppendTx(r, bodies)
    PROVE  Turns' = Turns /\ Live(r)
  BY AppendedTo DEF Turns
LEMMA AppendKeepsSteers ==
    ASSUME TypeOK, ReferencesValid, NEW r \in Runs, NEW bodies, Ordinary(bodies),
           AppendTx(r, bodies)
    PROVE  Turns' = Turns /\ Live(r) /\ Steered' = Steered
  <1>1. Nonempty(bodies)
    BY DEF Ordinary
  <1>2. Turns' = Turns /\ Live(r)
    BY <1>1, AppendKeepsTurns
  <1>3. /\ \A i \in Rows : i \in Rows' /\ events'[i] = events[i]
        /\ \A k \in 1..Len(bodies) : events'[Len(events) + k].kind = bodies[k].kind
        /\ \A i \in Rows' \ Rows : \E k \in 1..Len(bodies) : i = Len(events) + k
    BY <1>1, AppendedTo DEF IsRowOf
  <1>4. \A i \in Rows' \ Rows : events'[i].kind # "SteerItem"
    BY <1>3 DEF Ordinary
  <1> QED BY <1>2, <1>3, <1>4 DEF Steered

\* The steps of the other requests, of executors and of recovery.
LEMMA KeysStep ==
    ASSUME TypeOK, ReferencesValid, CancelInv, KeysInv, [Next]_vars
    PROVE  KeysInv'
  <1>1. CASE SessionNext
    BY <1>1, SessionKeys
  <1>2. ASSUME NEW r \in Runs, NEW bodies, Ordinary(bodies), AppendTx(r, bodies),
               \A scope \in KeyScopes : idem'[scope] = idem[scope],
               intents' = intents, Decided' = Decided
        PROVE  KeysInv'
    BY <1>2, AppendKeepsSteers, KeysAside
  <1>3. ASSUME NEW r \in Runs, NEW kind \in AppendKinds, NEW calls \in EventCalls(kind),
               NEW ref \in EventRefs(r, kind), AppendEventAuto(r, kind, calls, ref)
        PROVE  KeysInv'
    <2>1. Ordinary(<<Body(kind, calls, ref)>>)
      <3>1. kind \in Kinds \ {"SteerItem"} /\ calls \in SUBSET Call /\ ref \in Nat
        BY EventArguments, StoreAssumption DEF ExecutorKinds, ToolResultKinds
      <3> QED BY <3>1, OneOrdinary
    <2>2. /\ AppendTx(r, <<Body(kind, calls, ref)>>) /\ idem' = idem
          /\ intents' = intents /\ approvals' = approvals
      BY <1>3 DEF AppendEventAuto
    <2> QED BY <1>2, <2>1, <2>2 DEF Decided, Approvals
  <1>4. ASSUME NEW r \in Runs, NEW k \in Key, SteerRun(r, k)
        PROVE  KeysInv'
    <2> DEFINE bodies == <<Body("SteerItem", {}, 0)>>
               n == Len(events)
    <2>1. Nonempty(bodies) /\ Len(bodies) = 1 /\ bodies[1].kind = "SteerItem"
      BY OneBody DEF Kinds, ExecutorKinds
    <2>2. /\ AppendTx(r, bodies) /\ Record("session.steer", k, n + 1)
          /\ idem["session.steer"][k] = 0
          /\ intents' = intents /\ approvals' = approvals
      BY <1>4 DEF SteerRun, Fresh
    <2> HIDE DEF bodies
    <2>3. Turns' = Turns
      BY <2>1, <2>2, AppendKeepsTurns
    <2>4. Decided' = Decided
      BY <2>2 DEF Decided, Approvals
    <2>5. n \in Nat /\ Rows = 1..n
      BY NewIds
    <2>6. Steered' = Steered \cup {n + 1} /\ n + 1 \notin Steered
      <3>1. /\ \A i \in Rows : i \in Rows' /\ events'[i] = events[i]
            /\ Rows' = 1..(n + 1) /\ events'[n + 1].kind = "SteerItem"
        BY <2>1, <2>2, AppendedTo DEF IsRowOf
      <3> HIDE DEF n
      <3> QED BY <2>5, <3>1 DEF Steered
    <2>7. /\ idem'["session.prompt"] = idem["session.prompt"]
          /\ idem'["run.cancel"] = idem["run.cancel"]
          /\ idem'["approval.resolve"] = idem["approval.resolve"]
      BY <2>2, RecordAside DEF Scopes
    <2>8. Once("session.steer", Steered)'
      <3>1. Once("session.steer", Steered) /\ "session.steer" \in Scopes
        BY DEF KeysInv, Scopes
      <3>2. n + 1 \in Nat /\ n + 1 # 0
        BY <2>5
      <3> HIDE DEF n
      <3>3. /\ {idem'["session.steer"][l] : l \in Recorded("session.steer")'} = Steered'
            /\ \A l, m \in Recorded("session.steer")' :
                  idem'["session.steer"][l] = idem'["session.steer"][m] => l = m
        BY <2>2, <2>6, <3>1, <3>2, OnceAdded
      <3> QED BY <3>3 DEF Once
    <2>9. /\ Once("session.prompt", Turns)' /\ Once("run.cancel", intents)'
          /\ Once("approval.resolve", Decided)'
      BY <2>2, <2>3, <2>4, <2>7 DEF KeysInv, Once, Recorded
    <2> QED BY <2>8, <2>9 DEF KeysInv
  <1>5. ASSUME NEW r \in Runs, NEW k \in Key, AcceptCancel(r, k)
        PROVE  KeysInv'
    <2>1. PICK calls \in Orderings(PendingCalls(r), Less) :
              AppendTx(r, Interruption(calls, "RunCancelled"))
      BY <1>5 DEF AcceptCancel
    <2>2. Ordinary(Interruption(calls, "RunCancelled"))
      BY InterruptionOrdinary
    <2>3. Turns' = Turns /\ Live(r) /\ Steered' = Steered
      BY <2>1, <2>2, AppendKeepsSteers
    <2>4. r \notin intents /\ r \in Nat /\ r # 0
      BY <2>3, NewIds DEF CancelInv, Live
    <2>5. /\ idem["run.cancel"][k] = 0 /\ Record("run.cancel", k, r)
          /\ intents' = intents \cup {r} /\ approvals' = approvals
      BY <1>5 DEF AcceptCancel, Fresh
    <2>6. Decided' = Decided
      BY <2>5 DEF Decided, Approvals
    <2>7. /\ idem'["session.prompt"] = idem["session.prompt"]
          /\ idem'["approval.resolve"] = idem["approval.resolve"]
          /\ idem'["session.steer"] = idem["session.steer"]
      BY <2>5, RecordAside DEF Scopes
    <2>8. Once("run.cancel", intents)'
      <3>1. Once("run.cancel", intents) /\ "run.cancel" \in Scopes
        BY DEF KeysInv, Scopes
      <3>2. /\ {idem'["run.cancel"][l] : l \in Recorded("run.cancel")'} = intents'
            /\ \A l, m \in Recorded("run.cancel")' :
                  idem'["run.cancel"][l] = idem'["run.cancel"][m] => l = m
        BY <2>4, <2>5, <3>1, OnceAdded
      <3> QED BY <3>2 DEF Once
    <2>9. /\ Once("session.prompt", Turns)' /\ Once("approval.resolve", Decided)'
          /\ Once("session.steer", Steered)'
      BY <2>3, <2>6, <2>7 DEF KeysInv, Once, Recorded
    <2> QED BY <2>8, <2>9 DEF KeysInv
  <1>6. ASSUME NEW r \in Runs, NEW c \in Call, CreateApproval(r, c)
        PROVE  KeysInv'
    <2> DEFINE body == Body("ApprovalRequired", {c}, Len(approvals) + 1)
               ticket == [run |-> r, call |-> c, state |-> "pending", revision |-> 1]
    <2>1. Ordinary(<<body>>)
      <3>1. /\ Len(approvals) + 1 \in Nat /\ {c} \in SUBSET Call
            /\ "ApprovalRequired" \in Kinds \ {"SteerItem"}
        BY NewIds DEF Kinds
      <3> QED BY <3>1, OneOrdinary
    <2>2. AppendTx(r, <<body>>) /\ idem' = idem /\ intents' = intents
          /\ approvals' = Append(approvals, ticket)
      BY <1>6 DEF CreateApproval
    <2> HIDE DEF body
    <2>3. ticket.state \notin Decisions
      BY DEF Decisions
    <2> HIDE DEF ticket
    <2>4. Decided' = Decided
      <3>1. /\ Approvals' = Approvals \cup {Len(approvals) + 1}
            /\ \A a \in Approvals : approvals'[a] = approvals[a]
            /\ approvals'[Len(approvals) + 1] = ticket
        BY <2>2, NewIds DEF TypeOK, Approvals
      <3> QED BY <2>3, <3>1, NewIds DEF Decided
    <2> QED BY <1>2, <2>1, <2>2, <2>4
  <1>7. ASSUME NEW a \in Approvals, NEW state \in Decisions \cup {"timed_out"}, DecideApproval(a, state)
        PROVE  /\ \E bodies : Ordinary(bodies) /\ AppendTx(approvals[a].run, bodies)
               /\ approvals[a].run \in Runs
               /\ Decided' = (Decided \ {a}) \cup (IF state \in Decisions THEN {a} ELSE {})
    <2>1. approvals[a] \in ApprovalRow /\ a \in Nat
      BY NewIds DEF TypeOK
    <2>2. {approvals[a].call} \in SUBSET Call /\ approvals[a].run \in Runs
      BY <2>1 DEF ApprovalRow, ReferencesValid
    <2>3. Ordinary(<<Body("ApprovalResolved", {approvals[a].call}, a)>>)
      BY <2>1, <2>2, OneOrdinary DEF Kinds
    <2>4. AppendTx(approvals[a].run, <<Body("ApprovalResolved", {approvals[a].call}, a)>>)
      BY <1>7 DEF DecideApproval
    <2>5. /\ Approvals' = Approvals
          /\ \A x \in Approvals : x # a => approvals'[x] = approvals[x]
          /\ approvals'[a].state = state
      BY <1>7, <2>1 DEF DecideApproval, TypeOK, Approvals, ApprovalRow
    <2>6. Decided' = (Decided \ {a}) \cup (IF state \in Decisions THEN {a} ELSE {})
      BY <2>5 DEF Decided
    <2> QED BY <2>2, <2>3, <2>4, <2>6
  <1>8. ASSUME NEW a \in Approvals, NEW k \in Key, NEW revision, NEW decision \in Decisions,
               ResolveApproval(a, k, revision, decision)
        PROVE  KeysInv'
    <2>1. /\ approvals[a].state = "pending" /\ DecideApproval(a, decision)
          /\ idem["approval.resolve"][k] = 0 /\ Record("approval.resolve", k, a)
          /\ intents' = intents
      BY <1>8 DEF ResolveApproval, Fresh
    <2>2. Turns' = Turns /\ Steered' = Steered
      BY <1>7, <2>1, AppendKeepsSteers
    <2>3. a \notin Decided /\ Decided' = Decided \cup {a} /\ a \in Nat /\ a # 0
      <3>1. a \notin Decided
        BY <2>1 DEF Decided, Decisions
      <3>2. Decided' = (Decided \ {a}) \cup {a}
        BY <1>7, <2>1
      <3> QED BY <3>1, <3>2, NewIds
    <2>4. /\ idem'["session.prompt"] = idem["session.prompt"]
          /\ idem'["run.cancel"] = idem["run.cancel"]
          /\ idem'["session.steer"] = idem["session.steer"]
      BY <2>1, RecordAside DEF Scopes
    <2>5. Once("approval.resolve", Decided)'
      <3>1. Once("approval.resolve", Decided) /\ "approval.resolve" \in Scopes
        BY DEF KeysInv, Scopes
      <3>2. /\ {idem'["approval.resolve"][l] : l \in Recorded("approval.resolve")'} = Decided'
            /\ \A l, m \in Recorded("approval.resolve")' :
                  idem'["approval.resolve"][l] = idem'["approval.resolve"][m] => l = m
        BY <2>1, <2>3, <3>1, OnceAdded
      <3> QED BY <3>2 DEF Once
    <2>6. /\ Once("session.prompt", Turns)' /\ Once("run.cancel", intents)'
          /\ Once("session.steer", Steered)'
      BY <2>1, <2>2, <2>4 DEF KeysInv, Once, Recorded
    <2> QED BY <2>5, <2>6 DEF KeysInv
  <1>9. ASSUME NEW a \in Approvals, ExpireApproval(a)
        PROVE  KeysInv'
    <2>1. /\ approvals[a].state = "pending" /\ DecideApproval(a, "timed_out")
          /\ idem' = idem /\ intents' = intents
      BY <1>9 DEF ExpireApproval
    <2>2. Decided' = Decided
      <3>1. a \notin Decided /\ "timed_out" \notin Decisions
        BY <2>1 DEF Decided, Decisions
      <3>2. Decided' = (Decided \ {a}) \cup {}
        BY <1>7, <2>1, <3>1
      <3> QED BY <3>1, <3>2
    <2> QED BY <1>2, <1>7, <2>1, <2>2
  <1>10. ASSUME NEW t \in todo, RecoverRun(t)
         PROVE  KeysInv'
    <2> DEFINE closing == IF t.cancelled THEN "RunCancelled" ELSE "RunInterrupted"
    <2>1. PICK calls \in Orderings(PendingCalls(t.run), Less) :
              AppendTx(t.run, Interruption(calls, closing))
      BY <1>10 DEF RecoverRun
    <2>2. t.run \in Runs /\ closing \in {"RunCancelled", "RunInterrupted"} /\ idem' = idem
          /\ intents' = intents /\ approvals' = approvals
      BY <1>10 DEF RecoverRun, ReferencesValid
    <2> HIDE DEF closing
    <2>3. Ordinary(Interruption(calls, closing))
      BY <2>2, InterruptionOrdinary
    <2> QED BY <1>2, <2>1, <2>2, <2>3 DEF Decided, Approvals
  <1>11. CASE Crash \/ BeginRecovery \/ FinishRecovery \/ UNCHANGED vars
    <2>1. UNCHANGED <<runs, events, idem, intents, approvals>>
      BY <1>11 DEF Crash, BeginRecovery, FinishRecovery, vars
    <2> QED BY <2>1 DEF KeysInv, Once, Turns, Steered, Decided, Recorded, Runs, Rows, Approvals
  <1>12. CASE RunNext
    BY <1>3, <1>4, <1>5, <1>12 DEF RunNext
  <1>13. CASE ApprovalNext
    BY <1>6, <1>8, <1>9, <1>13 DEF ApprovalNext
  <1> QED BY <1>1, <1>10, <1>11, <1>12, <1>13 DEF Next, RecoveryNext

\* The invariant gives the counts: the effects are rows of finite tables.
LEMMA KeysCount ==
    ASSUME TypeOK, ReferencesValid, KeysInv
    PROVE  KeysMatchEffects
  <1>1. IsFiniteSet(Runs) /\ IsFiniteSet(Approvals) /\ IsFiniteSet(Rows)
    BY NewIds, FS_Interval
  <1>2. IsFiniteSet(Turns) /\ IsFiniteSet(intents) /\ IsFiniteSet(Decided) /\ IsFiniteSet(Steered)
    BY <1>1, FS_Subset DEF Turns, Steered, Decided, ReferencesValid
  <1>3. /\ Cardinality(Recorded("session.prompt")) = Cardinality(Turns)
        /\ Cardinality(Recorded("run.cancel")) = Cardinality(intents)
        /\ Cardinality(Recorded("approval.resolve")) = Cardinality(Decided)
        /\ Cardinality(Recorded("session.steer")) = Cardinality(Steered)
    BY <1>2, OnceCounts DEF KeysInv
  <1> QED BY <1>3 DEF KeysMatchEffects, KeysInv, Once, Turns, Steered, Decided

\* A retried prompt, steer, cancel or decision has no second effect, and no effect happens
\* without a recorded key.
THEOREM RetriesHaveNoSecondEffect == Spec => []KeysMatchEffects
  <1>1. Init => CancelInv /\ KeysInv
    BY DEF Init, CancelInv, KeysInv, Once, Turns, Steered, Decided, Recorded, Runs, Rows, Approvals, Scopes
  <1>2. TypeOK /\ ReferencesValid /\ (CancelInv /\ KeysInv) /\ [Next]_vars => (CancelInv /\ KeysInv)'
    BY CancelStep, KeysStep
  <1>3. TypeOK /\ ReferencesValid /\ KeysInv => KeysMatchEffects
    BY KeysCount
  <1> QED BY <1>1, <1>2, <1>3, TypeCorrect, PTL DEF Spec

-----------------------------------------------------------------------------
(* Approval tickets. *)

\* The rows that speak of a ticket, and a ticket's part of the ledger.
TicketKinds == {"ApprovalRequired", "ApprovalResolved"}
About(a, kind) == {i \in RowsOfRun(approvals[a].run) : events[i].kind = kind /\ events[i].ref = a}
TicketOK(a) ==
    /\ Cardinality(About(a, "ApprovalRequired")) = 1
    /\ Cardinality(About(a, "ApprovalResolved")) = IF approvals[a].state # "pending" THEN 1 ELSE 0
    /\ approvals[a].revision = IF approvals[a].state # "pending" THEN 2 ELSE 1
\* A run's part: its status is what its log replays to, and it waits for a ticket that is open.
StatusOK(r) ==
    /\ runs[r].status \in {ReplayStatus(r), "rewound"}
    /\ runs[r].status = "awaiting_approval" =>
          \E a \in Approvals : approvals[a].run = r /\ approvals[a].state = "pending"
\* A row about a ticket belongs to the run the ticket is for.
RowsNameTickets ==
    \A i \in Rows : events[i].kind \in TicketKinds =>
        events[i].ref \in Approvals /\ approvals[events[i].ref].run = events[i].run

\* The inductive invariant.
LedgerInv == RowsNameTickets /\ (\A r \in Runs : StatusOK(r)) /\ (\A a \in Approvals : TicketOK(a))

LEMMA LedgerParts == LedgerInv => ApprovalLedger
  BY Zenon DEF LedgerInv, ApprovalLedger, StatusOK, TicketOK, About

\* The last decisive row gives the status.
LEMMA MaxIs ==
    ASSUME NEW n \in Nat, NEW S \in SUBSET (1..n), NEW m \in S, \A x \in S : x <= m
    PROVE  Max(S) = m
  <1>1. Max(S) \in S /\ \A x \in S : x <= Max(S)
    BY NatSetHasMax
  <1>2. PICK top : top = Max(S)
    OBVIOUS
  <1>3. top \in S /\ \A x \in S : x <= top
    BY <1>1, <1>2
  <1>4. top \in Int /\ m \in Int
    BY <1>3
  <1>5. top <= m /\ m <= top
    BY <1>3
  <1>6. top = m
    BY <1>4, <1>5
  <1> QED BY <1>2, <1>6

\* The decisive rows of a run: those that carry a status.
DecisiveRows(x) == {i \in RowsOfRun(x) : events[i].kind \in StatusKinds}

\* A run whose decisive rows stay replays as before.
LEMMA ReplaySame ==
    ASSUME TypeOK, NEW x, DecisiveRows(x)' = DecisiveRows(x),
           \A i \in DecisiveRows(x) : events'[i] = events[i]
    PROVE  ReplayStatus(x)' = ReplayStatus(x)
  <1>1. CASE DecisiveRows(x) = {}
    BY <1>1 DEF ReplayStatus, DecisiveRows
  <1>2. CASE DecisiveRows(x) # {}
    <2>1. DecisiveRows(x) \in SUBSET (1..Len(events)) /\ Len(events) \in Nat
      BY NewIds DEF DecisiveRows, RowsOfRun
    <2>2. PICK m : m = Max(DecisiveRows(x))
      OBVIOUS
    <2>3. m \in DecisiveRows(x)
      BY <1>2, <2>1, <2>2, NatSetHasMax
    <2>4. ReplayStatus(x) = EventStatus(events[m].kind, "running")
      BY <1>2, <2>2 DEF ReplayStatus, DecisiveRows
    <2>5. ReplayStatus(x)' = EventStatus(events'[m].kind, "running")
      BY <1>2, <2>2 DEF ReplayStatus, DecisiveRows
    <2> QED BY <2>3, <2>4, <2>5
  <1> QED BY <1>1, <1>2

\* The log of an untouched run replays as before.
LEMMA ReplayKept ==
    ASSUME TypeOK, NEW x, Untouched(x)
    PROVE  ReplayStatus(x)' = ReplayStatus(x)
  <1>1. RowsOfRun(x)' = RowsOfRun(x) /\ \A i \in RowsOfRun(x) : events'[i] = events[i]
    BY UntouchedRows
  <1>2. DecisiveRows(x)' = DecisiveRows(x) /\ \A i \in DecisiveRows(x) : events'[i] = events[i]
    BY <1>1 DEF DecisiveRows
  <1> QED BY <1>2, ReplaySame

\* When the last decisive row is known, so is the replayed status.
LEMMA ReplayLast ==
    ASSUME NEW x, NEW n \in Nat, Rows' = 1..n, NEW m \in DecisiveRows(x)',
           \A i \in DecisiveRows(x)' : i <= m
    PROVE  ReplayStatus(x)' = EventStatus(events'[m].kind, "running")
  <1>1. DecisiveRows(x)' \in SUBSET (1..n)
    BY DEF DecisiveRows, RowsOfRun
  <1>2. Max(DecisiveRows(x)') = m
    BY <1>1, MaxIs
  <1>3. DecisiveRows(x)' # {}
    OBVIOUS
  <1>4. ReplayStatus(x)' = EventStatus(events'[Max(DecisiveRows(x)')].kind, "running")
    BY <1>3 DEF ReplayStatus, DecisiveRows
  <1> QED BY <1>2, <1>4

\* append_event_tx keeps the status column and the log together: only the last event of a
\* transaction may carry a status.
LEMMA AppendReplay ==
    ASSUME TypeOK, ReferencesValid, NEW r \in Runs, NEW bodies, Nonempty(bodies),
           \A k \in 1..Len(bodies) : bodies[k].kind \in StatusKinds => k = Len(bodies),
           AppendTx(r, bodies), runs[r].status \in {ReplayStatus(r), "rewound"}
    PROVE  runs'[r].status = ReplayStatus(r)'
  <1> DEFINE n == Len(events)
             last == bodies[Len(bodies)].kind
  <1>1. /\ Live(r)
        /\ runs'[r].status = EventStatus(last, runs[r].status)
        /\ \A i \in Rows : i \in Rows' /\ events'[i] = events[i]
        /\ Rows' = 1..(n + Len(bodies))
        /\ \A k \in 1..Len(bodies) :
              /\ n + k \in Rows'
              /\ IsRowOf(events'[n + k], r, runs[r].lastSeq + k, bodies[k])
        /\ \A i \in Rows' \ Rows : \E k \in 1..Len(bodies) : i = n + k
    BY AppendedTo
  <1>2. n \in Nat /\ Len(bodies) \in Nat /\ Len(bodies) \in 1..Len(bodies)
    BY NewIds DEF Nonempty
  <1>3. runs[r].status = ReplayStatus(r)
    BY <1>1 DEF Live
  <1>4. CASE last \in StatusKinds
    <2> DEFINE m == n + Len(bodies)
    <2>1. /\ m \in Rows' /\ events'[m].run = r /\ events'[m].kind = last
          /\ m \in Nat /\ \A i \in Rows' : i <= m
      BY <1>1, <1>2 DEF IsRowOf
    <2>2. m \in DecisiveRows(r)' /\ \A i \in DecisiveRows(r)' : i <= m
      BY <1>4, <2>1 DEF DecisiveRows, RowsOfRun
    <2>3. Rows' = 1..m
      BY <1>1
    <2> HIDE DEF m, last
    <2>4. ReplayStatus(r)' = EventStatus(last, "running")
      BY <2>1, <2>2, <2>3, ReplayLast
    <2>5. EventStatus(last, "running") = EventStatus(last, runs[r].status)
      BY <1>4 DEF EventStatus, StatusKinds, TerminalKinds
    <2> QED BY <1>1, <2>4, <2>5
  <1>5. CASE last \notin StatusKinds
    <2>1. \A i \in Rows' \ Rows : events'[i].kind \notin StatusKinds
      <3> SUFFICES ASSUME NEW i \in Rows' \ Rows PROVE events'[i].kind \notin StatusKinds
        OBVIOUS
      <3>1. PICK k \in 1..Len(bodies) : i = n + k
        BY <1>1
      <3>2. events'[i].kind = bodies[k].kind
        BY <1>1, <3>1 DEF IsRowOf
      <3> QED BY <1>5, <3>1, <3>2
    <2>2. DecisiveRows(r)' = DecisiveRows(r) /\ \A i \in DecisiveRows(r) : events'[i] = events[i]
      BY <1>1, <2>1 DEF DecisiveRows, RowsOfRun
    <2>3. ReplayStatus(r)' = ReplayStatus(r)
      BY <2>2, ReplaySame
    <2>4. EventStatus(last, runs[r].status) = runs[r].status
      BY <1>5 DEF EventStatus, StatusKinds, TerminalKinds
    <2> QED BY <1>1, <1>3, <2>3, <2>4
  <1> QED BY <1>4, <1>5

\* The rows about a ticket stay when no new row speaks of it.
LEMMA AboutKept ==
    ASSUME NEW a, approvals'[a].run = approvals[a].run,
           \A i \in Rows : events[i].run = approvals[a].run => i \in Rows' /\ events'[i] = events[i],
           \A i \in Rows' \ Rows : events'[i].run = approvals[a].run =>
               ~(events'[i].kind \in TicketKinds /\ events'[i].ref = a),
           \A i \in Rows \cap Rows' : events'[i] = events[i],
           NEW kind \in TicketKinds
    PROVE  About(a, kind)' = About(a, kind)
  BY DEF About, RowsOfRun

\* A ticket whose row and whose rows in the log stay keeps its part.
LEMMA TicketKept ==
    ASSUME NEW a, TicketOK(a), approvals'[a] = approvals[a],
           \A kind \in TicketKinds : About(a, kind)' = About(a, kind)
    PROVE  TicketOK(a)'
  <1>1. /\ About(a, "ApprovalRequired")' = About(a, "ApprovalRequired")
        /\ About(a, "ApprovalResolved")' = About(a, "ApprovalResolved")
    BY DEF TicketKinds
  <1> QED BY <1>1 DEF TicketOK

\* Session operations speak of no ticket.
LEMMA SessionLedger ==
    ASSUME TypeOK, ReferencesValid, LedgerInv, (TypeOK /\ ReferencesValid)', SessionNext
    PROVE  LedgerInv'
  <1>1. /\ UNCHANGED <<intents, approvals, todo, mode, crashes>>
        /\ \A x \in Runs : Aside(x)
        /\ \A x \in Runs' \ Runs : Inserted(x)
    BY SessionRows
  <1>2. \A i \in Rows : i \in Rows' /\ events'[i] = events[i]
    BY <1>1 DEF ReferencesValid, Aside, Untouched
  <1>3. \A i \in Rows' \ Rows : events'[i].run \in Runs' \ Runs
    BY <1>1 DEF ReferencesValid, Aside, Untouched
  <1>4. \A i \in Rows' \ Rows : events'[i].kind \notin TicketKinds
    <2> SUFFICES ASSUME NEW i \in Rows' \ Rows PROVE events'[i].kind \notin TicketKinds
      OBVIOUS
    <2>1. Inserted(events'[i].run)
      BY <1>1, <1>3
    <2>2. events'[i].kind \in {"RunStarted", "RunCompleted"} \/ events'[i].kind \notin StatusKinds
      BY <2>1 DEF Inserted
    <2> QED BY <2>2 DEF TicketKinds, StatusKinds
  <1>5. RowsNameTickets'
    BY <1>1, <1>2, <1>4 DEF RowsNameTickets, LedgerInv, Approvals
  <1>6. ASSUME NEW x \in Runs PROVE StatusOK(x)'
    <2>1. ReplayStatus(x)' = ReplayStatus(x)
      BY <1>1, ReplayKept DEF Aside
    <2>2. StatusOK(x)
      BY DEF LedgerInv
    <2>3. runs'[x].status = runs[x].status \/ runs'[x].status = "rewound"
      BY <1>1 DEF Aside
    <2> QED BY <1>1, <2>1, <2>2, <2>3 DEF StatusOK, Approvals
  <1>7. ASSUME NEW x \in Runs' \ Runs PROVE StatusOK(x)'
    <2>1. CASE runs'[x].status = "running" /\ \A i \in Rows' : events'[i].run # x
      <3>1. DecisiveRows(x)' = {}
        BY <2>1 DEF DecisiveRows, RowsOfRun
      <3>2. ReplayStatus(x)' = "running"
        BY <3>1 DEF ReplayStatus, DecisiveRows
      <3> QED BY <2>1, <3>2 DEF StatusOK
    <2>2. ASSUME runs'[x].status = "completed", NEW first \in Rows', NEW last \in Rows',
                 events'[last].run = x, events'[last].kind = "RunCompleted",
                 \A i \in Rows' : events'[i].run = x => i <= last
          PROVE  StatusOK(x)'
      <3>1. Len(events') \in Nat /\ Rows' = 1..Len(events')
        BY DEF TypeOK, Rows
      <3>2. last \in DecisiveRows(x)' /\ \A i \in DecisiveRows(x)' : i <= last
        BY <2>2 DEF DecisiveRows, RowsOfRun, StatusKinds, TerminalKinds
      <3>3. ReplayStatus(x)' = EventStatus("RunCompleted", "running")
        BY <2>2, <3>1, <3>2, ReplayLast
      <3> QED BY <2>2, <3>3 DEF StatusOK, EventStatus
    <2> QED BY <1>1, <2>1, <2>2 DEF Inserted
  <1>8. ASSUME NEW a \in Approvals PROVE TicketOK(a)'
    <2>1. \A kind \in TicketKinds : About(a, kind)' = About(a, kind)
      BY <1>1, <1>2, <1>4, AboutKept
    <2> QED BY <1>1, <2>1, TicketKept DEF LedgerInv
  <1> QED BY <1>1, <1>5, <1>6, <1>7, <1>8 DEF LedgerInv, Approvals

\* An append that speaks of no ticket.
LEMMA PlainLedger ==
    ASSUME TypeOK, ReferencesValid, LedgerInv, NEW r \in Runs, NEW bodies, Nonempty(bodies),
           \A k \in 1..Len(bodies) : bodies[k].kind \notin TicketKinds,
           \A k \in 1..Len(bodies) : bodies[k].kind \in StatusKinds => k = Len(bodies),
           AppendTx(r, bodies), approvals' = approvals
    PROVE  LedgerInv'
  <1> DEFINE n == Len(events)
  <1>1. /\ Live(r) /\ Runs' = Runs
        /\ \A x \in Runs : x # r => Untouched(x) /\ runs'[x] = runs[x]
        /\ runs'[r].status = EventStatus(bodies[Len(bodies)].kind, runs[r].status)
        /\ \A i \in Rows : i \in Rows' /\ events'[i] = events[i]
        /\ \A k \in 1..Len(bodies) :
              /\ n + k \in Rows'
              /\ IsRowOf(events'[n + k], r, runs[r].lastSeq + k, bodies[k])
        /\ \A i \in Rows' \ Rows : \E k \in 1..Len(bodies) : i = n + k
    BY AppendedTo
  <1>2. \A i \in Rows' \ Rows : events'[i].kind \notin TicketKinds
    <2> SUFFICES ASSUME NEW i \in Rows' \ Rows PROVE events'[i].kind \notin TicketKinds
      OBVIOUS
    <2>1. PICK k \in 1..Len(bodies) : i = n + k
      BY <1>1
    <2>2. events'[i].kind = bodies[k].kind
      BY <1>1, <2>1 DEF IsRowOf
    <2> QED BY <2>1, <2>2
  <1>3. RowsNameTickets'
    BY <1>1, <1>2 DEF RowsNameTickets, LedgerInv, Approvals
  <1>4. \A x \in Runs : StatusOK(x)
    BY DEF LedgerInv
  <1>5. ASSUME NEW x \in Runs, x # r PROVE StatusOK(x)'
    <2>1. ReplayStatus(x)' = ReplayStatus(x)
      BY <1>1, <1>5, ReplayKept
    <2> QED BY <1>1, <1>4, <1>5, <2>1 DEF StatusOK, Approvals
  <1>6. StatusOK(r)'
    <2>1. runs'[r].status = ReplayStatus(r)'
      BY <1>4, AppendReplay DEF StatusOK
    <2>2. runs'[r].status = "awaiting_approval" => runs[r].status = "awaiting_approval"
      <3>1. Len(bodies) \in 1..Len(bodies)
        BY DEF Nonempty
      <3>2. bodies[Len(bodies)].kind # "ApprovalRequired"
        BY <3>1 DEF TicketKinds
      <3> QED BY <1>1, <3>2 DEF EventStatus
    <2> QED BY <1>4, <2>1, <2>2 DEF StatusOK, Approvals
  <1>7. ASSUME NEW a \in Approvals PROVE TicketOK(a)'
    <2>1. \A kind \in TicketKinds : About(a, kind)' = About(a, kind)
      BY <1>1, <1>2, AboutKept
    <2> QED BY <2>1, TicketKept DEF LedgerInv
  <1> QED BY <1>1, <1>3, <1>5, <1>6, <1>7 DEF LedgerInv, Approvals

\* A transaction of one event.
LEMMA OneRow ==
    ASSUME TypeOK, ReferencesValid, NEW r \in Runs, NEW body \in BodyType, AppendTx(r, <<body>>)
    PROVE  /\ Live(r) /\ Runs' = Runs
           /\ \A x \in Runs : x # r => Untouched(x) /\ runs'[x] = runs[x]
           /\ runs'[r].status = EventStatus(body.kind, runs[r].status)
           /\ runs[r].status \in {ReplayStatus(r), "rewound"} => runs'[r].status = ReplayStatus(r)'
           /\ Rows' = Rows \cup {Len(events) + 1} /\ Len(events) + 1 \notin Rows
           /\ \A i \in Rows : events'[i] = events[i]
           /\ events'[Len(events) + 1].run = r /\ events'[Len(events) + 1].kind = body.kind
           /\ events'[Len(events) + 1].ref = body.ref
  <1> DEFINE bodies == <<body>>
  <1>1. Nonempty(bodies) /\ Len(bodies) = 1 /\ bodies[1] = body
    BY DEF Nonempty
  <1> HIDE DEF bodies
  <1>2. AppendTx(r, bodies)
    BY DEF bodies
  <1>3. /\ Live(r) /\ Runs' = Runs
        /\ \A x \in Runs : x # r => Untouched(x) /\ runs'[x] = runs[x]
        /\ runs'[r].status = EventStatus(bodies[Len(bodies)].kind, runs[r].status)
        /\ \A i \in Rows : i \in Rows' /\ events'[i] = events[i]
        /\ Rows' = 1..(Len(events) + Len(bodies))
        /\ \A k \in 1..Len(bodies) :
              IsRowOf(events'[Len(events) + k], r, runs[r].lastSeq + k, bodies[k])
    BY <1>1, <1>2, AppendedTo
  <1>4. Rows' = Rows \cup {Len(events) + 1} /\ Len(events) + 1 \notin Rows
    BY <1>1, <1>3, NewIds
  <1>5. \A k \in 1..Len(bodies) : bodies[k].kind \in StatusKinds => k = Len(bodies)
    BY <1>1
  <1>6. runs[r].status \in {ReplayStatus(r), "rewound"} => runs'[r].status = ReplayStatus(r)'
    BY <1>1, <1>2, <1>5, AppendReplay
  <1>7. IsRowOf(events'[Len(events) + 1], r, runs[r].lastSeq + 1, body)
    BY <1>1, <1>3
  <1> QED BY <1>1, <1>3, <1>4, <1>6, <1>7 DEF IsRowOf

\* A ticket is created with its request event; the run waits for it.
LEMMA CreateLedger ==
    ASSUME TypeOK, ReferencesValid, LedgerInv, NEW r \in Runs, NEW c \in Call, CreateApproval(r, c)
    PROVE  LedgerInv'
  <1>0. PICK new, n : new = Len(approvals) + 1 /\ n = Len(events) + 1
    OBVIOUS
  <1> DEFINE body == Body("ApprovalRequired", {c}, new)
             ticket == [run |-> r, call |-> c, state |-> "pending", revision |-> 1]
  <1>1. body \in BodyType /\ body.kind = "ApprovalRequired" /\ body.ref = new
    BY <1>0, NewIds DEF Body, BodyType, Kinds
  <1>2. AppendTx(r, <<body>>) /\ approvals' = Append(approvals, ticket)
    BY <1>0 DEF CreateApproval
  <1>3. ticket.run = r /\ ticket.state = "pending" /\ ticket.revision = 1
    OBVIOUS
  <1> HIDE DEF body, ticket
  <1>4. /\ Approvals' = Approvals \cup {new} /\ new \notin Approvals
        /\ \A a \in Approvals : approvals'[a] = approvals[a]
        /\ approvals'[new] = ticket
    BY <1>0, <1>2, NewIds DEF TypeOK, Approvals
  <1>5. /\ Live(r) /\ Runs' = Runs
        /\ \A x \in Runs : x # r => Untouched(x) /\ runs'[x] = runs[x]
        /\ runs'[r].status = EventStatus(body.kind, runs[r].status)
        /\ runs[r].status \in {ReplayStatus(r), "rewound"} => runs'[r].status = ReplayStatus(r)'
        /\ Rows' = Rows \cup {n} /\ n \notin Rows
        /\ \A i \in Rows : events'[i] = events[i]
        /\ events'[n].run = r /\ events'[n].kind = "ApprovalRequired" /\ events'[n].ref = new
    BY <1>0, <1>1, <1>2, OneRow
  <1>6. RowsNameTickets'
    BY <1>3, <1>4, <1>5 DEF RowsNameTickets, LedgerInv
  <1>7. \A x \in Runs : StatusOK(x)
    BY DEF LedgerInv
  <1>8. ASSUME NEW x \in Runs, x # r PROVE StatusOK(x)'
    <2>1. ReplayStatus(x)' = ReplayStatus(x)
      BY <1>5, <1>8, ReplayKept
    <2> QED BY <1>4, <1>5, <1>7, <1>8, <2>1 DEF StatusOK
  <1>9. StatusOK(r)'
    BY <1>3, <1>4, <1>5, <1>7 DEF StatusOK
  <1>10. ASSUME NEW a \in Approvals PROVE TicketOK(a)'
    <2>1. \A kind \in TicketKinds : About(a, kind)' = About(a, kind)
      BY <1>4, <1>5, AboutKept
    <2> QED BY <1>4, <2>1, TicketKept DEF LedgerInv
  <1>11. TicketOK(new)'
    <2>1. About(new, "ApprovalRequired")' = {n}
      BY <1>3, <1>4, <1>5 DEF About, RowsOfRun, RowsNameTickets, LedgerInv, TicketKinds
    <2>2. About(new, "ApprovalResolved")' = {}
      BY <1>3, <1>4, <1>5 DEF About, RowsOfRun, RowsNameTickets, LedgerInv, TicketKinds
    <2>3. Cardinality({n}) = 1 /\ Cardinality({}) = 0
      BY FS_Singleton, FS_EmptySet
    <2> QED BY <1>3, <1>4, <2>1, <2>2, <2>3 DEF TicketOK
  <1> QED BY <1>4, <1>5, <1>6, <1>8, <1>9, <1>10, <1>11 DEF LedgerInv

\* An open ticket is decided with its resolution event; its run goes on.
LEMMA DecideLedger ==
    ASSUME TypeOK, ReferencesValid, LedgerInv, NEW a \in Approvals,
           NEW state \in Decisions \cup {"timed_out"}, approvals[a].state = "pending",
           DecideApproval(a, state)
    PROVE  LedgerInv'
  <1>0. PICK r, n : r = approvals[a].run /\ n = Len(events) + 1
    OBVIOUS
  <1> DEFINE body == Body("ApprovalResolved", {approvals[a].call}, a)
  <1>1. approvals[a] \in ApprovalRow /\ a \in Nat /\ r \in Runs
    BY <1>0, NewIds DEF TypeOK, ReferencesValid
  <1>2. body \in BodyType /\ body.kind = "ApprovalResolved" /\ body.ref = a
    BY <1>1 DEF Body, BodyType, Kinds, ApprovalRow
  <1>3. AppendTx(r, <<body>>)
        /\ approvals' = [approvals EXCEPT ![a].state = state, ![a].revision = @ + 1]
    BY <1>0 DEF DecideApproval
  <1>4. state # "pending"
    BY DEF Decisions
  <1>5. /\ Approvals' = Approvals
        /\ \A x \in Approvals : x # a => approvals'[x] = approvals[x]
        /\ approvals'[a].state = state /\ approvals'[a].run = r
        /\ approvals'[a].revision = approvals[a].revision + 1
    BY <1>0, <1>1, <1>3 DEF Approvals, ApprovalRow
  <1> HIDE DEF body
  <1>6. /\ Live(r) /\ Runs' = Runs
        /\ \A x \in Runs : x # r => Untouched(x) /\ runs'[x] = runs[x]
        /\ runs'[r].status = EventStatus(body.kind, runs[r].status)
        /\ runs[r].status \in {ReplayStatus(r), "rewound"} => runs'[r].status = ReplayStatus(r)'
        /\ Rows' = Rows \cup {n} /\ n \notin Rows
        /\ \A i \in Rows : events'[i] = events[i]
        /\ events'[n].run = r /\ events'[n].kind = "ApprovalResolved" /\ events'[n].ref = a
    BY <1>0, <1>1, <1>2, <1>3, OneRow
  <1>7. RowsNameTickets'
    BY <1>0, <1>5, <1>6 DEF RowsNameTickets, LedgerInv
  <1>8. \A x \in Runs : StatusOK(x)
    BY DEF LedgerInv
  <1>9. ASSUME NEW x \in Runs, x # r PROVE StatusOK(x)'
    <2>1. ReplayStatus(x)' = ReplayStatus(x)
      BY <1>6, <1>9, ReplayKept
    <2>2. \A y \in Approvals : approvals[y].run = x => y # a
      BY <1>0, <1>9
    <2> QED BY <1>5, <1>6, <1>8, <1>9, <2>1, <2>2 DEF StatusOK
  <1>10. StatusOK(r)'
    <2>1. runs'[r].status = "running"
      BY <1>2, <1>6 DEF EventStatus
    <2> QED BY <1>1, <1>6, <1>8, <2>1 DEF StatusOK
  <1>11. ASSUME NEW x \in Approvals, x # a PROVE TicketOK(x)'
    <2>1. \A kind \in TicketKinds : About(x, kind)' = About(x, kind)
      BY <1>5, <1>6, <1>11, AboutKept
    <2> QED BY <1>5, <1>11, <2>1, TicketKept DEF LedgerInv
  <1>12. TicketOK(a)'
    <2>1. TicketOK(a)
      BY DEF LedgerInv
    <2>2. About(a, "ApprovalRequired")' = About(a, "ApprovalRequired")
      BY <1>0, <1>5, <1>6 DEF About, RowsOfRun
    <2>3. About(a, "ApprovalResolved") = {}
      <3>1. About(a, "ApprovalResolved") \in SUBSET Rows
        BY DEF About, RowsOfRun
      <3>2. IsFiniteSet(Rows)
        BY NewIds, FS_Interval
      <3>3. IsFiniteSet(About(a, "ApprovalResolved"))
        BY <3>1, <3>2, FS_Subset
      <3>4. Cardinality(About(a, "ApprovalResolved")) = 0
        BY <2>1 DEF TicketOK
      <3> QED BY <3>3, <3>4, FS_EmptySet
    <2>4. About(a, "ApprovalResolved")' = About(a, "ApprovalResolved") \cup {n}
      BY <1>0, <1>5, <1>6 DEF About, RowsOfRun
    <2>5. Cardinality(About(a, "ApprovalResolved")') = 1
      BY <2>3, <2>4, FS_Singleton
    <2>6. approvals[a].revision = 1
      BY <2>1 DEF TicketOK
    <2> QED BY <1>4, <1>5, <2>1, <2>2, <2>5, <2>6 DEF TicketOK
  <1> QED BY <1>5, <1>6, <1>7, <1>9, <1>10, <1>11, <1>12 DEF LedgerInv

\* Interruptions speak of no ticket and carry one status.
LEMMA InterruptionLedger ==
    ASSUME TypeOK, ReferencesValid, LedgerInv, NEW r \in Runs,
           NEW calls \in Orderings(PendingCalls(r), Less),
           NEW closing \in {"RunCancelled", "RunInterrupted"},
           AppendTx(r, Interruption(calls, closing)), approvals' = approvals
    PROVE  LedgerInv'
  <1> DEFINE bodies == Interruption(calls, closing)
  <1>1. closing \in Kinds
    BY DEF Kinds, ExecutorKinds
  <1>2. Nonempty(bodies)
    BY <1>1, InterruptionNonempty
  <1>3. calls \in Seq(Call) /\ Len(calls) \in Nat
    BY PendingOrderings
  <1>4. /\ Len(bodies) = Len(calls) + 1 /\ bodies[Len(calls) + 1].kind = closing
        /\ \A k \in 1..Len(calls) : bodies[k].kind = "ToolFailed"
    BY <1>1, <1>3, InterruptionType
  <1> HIDE DEF bodies
  <1>5. AppendTx(r, bodies)
    BY DEF bodies
  <1>6. /\ \A k \in 1..Len(bodies) : bodies[k].kind \notin TicketKinds
        /\ \A k \in 1..Len(bodies) : bodies[k].kind \in StatusKinds => k = Len(bodies)
    BY <1>3, <1>4 DEF TicketKinds, StatusKinds, TerminalKinds
  <1> QED BY <1>2, <1>5, <1>6, PlainLedger

\* The steps of requests, executors and recovery.
LEMMA LedgerStep ==
    ASSUME TypeOK, ReferencesValid, LedgerInv, [Next]_vars
    PROVE  LedgerInv'
  <1>1. (TypeOK /\ ReferencesValid)'
    BY TypeStep
  <1>2. CASE SessionNext
    BY <1>1, <1>2, SessionLedger
  <1>3. ASSUME NEW r \in Runs, NEW kind \in ExecutorKinds \cup {"SteerItem"}, NEW calls \in SUBSET Call,
               NEW ref \in Nat, AppendTx(r, <<Body(kind, calls, ref)>>), approvals' = approvals
        PROVE  LedgerInv'
    <2> DEFINE bodies == <<Body(kind, calls, ref)>>
    <2>1. kind \in Kinds /\ kind \notin TicketKinds
      BY DEF Kinds, TicketKinds, ExecutorKinds, ToolResultKinds
    <2>2. Nonempty(bodies) /\ Len(bodies) = 1 /\ bodies[1].kind = kind
      BY <2>1, OneBody
    <2> HIDE DEF bodies
    <2>3. AppendTx(r, bodies)
      BY <1>3 DEF bodies
    <2>4. /\ \A k \in 1..Len(bodies) : bodies[k].kind \notin TicketKinds
          /\ \A k \in 1..Len(bodies) : bodies[k].kind \in StatusKinds => k = Len(bodies)
      BY <2>1, <2>2
    <2> QED BY <1>3, <2>2, <2>3, <2>4, PlainLedger
  <1>4. ASSUME NEW r \in Runs, NEW kind \in AppendKinds, NEW calls \in EventCalls(kind),
               NEW ref \in EventRefs(r, kind), AppendEventAuto(r, kind, calls, ref)
        PROVE  LedgerInv'
    <2>1. kind \in ExecutorKinds /\ calls \in SUBSET Call /\ ref \in Nat
      BY EventArguments, StoreAssumption
    <2>2. AppendTx(r, <<Body(kind, calls, ref)>>) /\ approvals' = approvals
      BY <1>4 DEF AppendEventAuto
    <2> QED BY <1>3, <2>1, <2>2
  <1>5. ASSUME NEW r \in Runs, NEW k \in Key, SteerRun(r, k)
        PROVE  LedgerInv'
    <2>1. {} \in SUBSET Call /\ 0 \in Nat
      OBVIOUS
    <2>2. AppendTx(r, <<Body("SteerItem", {}, 0)>>) /\ approvals' = approvals
      BY <1>5 DEF SteerRun
    <2> QED BY <1>3, <2>1, <2>2
  <1>6. ASSUME NEW r \in Runs, NEW k \in Key, AcceptCancel(r, k)
        PROVE  LedgerInv'
    <2>1. PICK calls \in Orderings(PendingCalls(r), Less) :
              AppendTx(r, Interruption(calls, "RunCancelled"))
      BY <1>6 DEF AcceptCancel
    <2>2. approvals' = approvals
      BY <1>6 DEF AcceptCancel
    <2> QED BY <2>1, <2>2, InterruptionLedger
  <1>7. ASSUME NEW t \in todo, RecoverRun(t)
        PROVE  LedgerInv'
    <2> DEFINE closing == IF t.cancelled THEN "RunCancelled" ELSE "RunInterrupted"
    <2>1. PICK calls \in Orderings(PendingCalls(t.run), Less) :
              AppendTx(t.run, Interruption(calls, closing))
      BY <1>7 DEF RecoverRun
    <2>2. t.run \in Runs /\ approvals' = approvals /\ closing \in {"RunCancelled", "RunInterrupted"}
      BY <1>7 DEF RecoverRun, ReferencesValid
    <2> HIDE DEF closing
    <2> QED BY <2>1, <2>2, InterruptionLedger
  <1>8. ASSUME UNCHANGED <<runs, events, approvals>>
        PROVE  LedgerInv'
    <2>1. Runs' = Runs /\ Rows' = Rows /\ Approvals' = Approvals
      BY <1>8 DEF Runs, Rows, Approvals
    <2>2. RowsNameTickets'
      BY <1>8, <2>1 DEF LedgerInv, RowsNameTickets
    <2>3. \A x \in Runs : StatusOK(x)' <=> StatusOK(x)
      BY <1>8, <2>1 DEF StatusOK, RowsOfRun, ReplayStatus
    <2>4. \A x \in Approvals : TicketOK(x)' <=> TicketOK(x)
      <3>1. \A x, kind : About(x, kind)' = About(x, kind)
        BY <1>8, <2>1 DEF About, RowsOfRun
      <3> QED BY <1>8, <3>1, Zenon DEF TicketOK
    <2> QED BY <2>1, <2>2, <2>3, <2>4 DEF LedgerInv
  <1>9. CASE Crash \/ BeginRecovery \/ FinishRecovery \/ UNCHANGED vars
    BY <1>8, <1>9 DEF Crash, BeginRecovery, FinishRecovery, vars
  <1>10. CASE RunNext
    BY <1>4, <1>5, <1>6, <1>10 DEF RunNext
  <1>11. CASE ApprovalNext
    BY <1>11, CreateLedger, DecideLedger DEF ApprovalNext, ResolveApproval, ExpireApproval
  <1> QED BY <1>2, <1>7, <1>9, <1>10, <1>11 DEF Next, RecoveryNext

\* The tickets, the status column and the log tell one story, whoever decides, times out,
\* cancels, ends or recovers the run, and in whatever order.
THEOREM LedgerAgrees == Spec => []ApprovalLedger
  <1>1. Init => LedgerInv
    BY DEF Init, LedgerInv, RowsNameTickets, Runs, Rows, Approvals
  <1>2. TypeOK /\ ReferencesValid /\ LedgerInv /\ [Next]_vars => LedgerInv'
    BY LedgerStep
  <1> QED BY <1>1, <1>2, LedgerParts, TypeCorrect, PTL DEF Spec
===============================================================================
