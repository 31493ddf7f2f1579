----------------------------- MODULE ServerProofs -----------------------------
(***************************************************************************)
(* What the server promises those who call it and those who read what it   *)
(* keeps: a connection that ends leaves nothing behind, wherever its       *)
(* requests were; a keyed tasks.run starts one run, wherever the process   *)
(* dies; and the legacy tables tell the truth about a run, whoever         *)
(* projects its events.  Each part has the inductive invariant of its      *)
(* component, a lemma for each kind of step, and the theorem.              *)
(***************************************************************************)
EXTENDS Connection, ScheduledTasks, LegacyMirror, SequenceTheorems, FiniteSetTheorems, TLAPS

-----------------------------------------------------------------------------
(* One connection *)

HandlerPlaces == {"none", "start", "answer", "already", "own", "register", "spawn", "note", "reread", "done"}
RunPlaces == {"none", "begun", "live", "told", "ended"}
Refusals == {"parse_error", "not_initialized", "server_overloaded"}
Ending == {"cancelling", "flushing", "done"}
FrameKinds == Refusals \cup {"result", "already_initialized", "event"}
FrameType == [to : Calls \cup {0}, what : FrameKinds]

ConnTyped ==
    /\ sends \in Seq({"init", "bad", "get", "prompt", "aux", "subscribe"})
    /\ asked \in 0..Len(sends) /\ readTo \in 0..asked /\ ready \in BOOLEAN
    /\ handling \in [Calls -> HandlerPlaces] /\ runOf \in [Calls -> RunPlaces]
    /\ got = [r \in Calls |-> got[r]] /\ outgoing \in Seq(FrameType)
    /\ mine = [owned |-> mine.owned, subscribed |-> mine.subscribed]
    /\ listed = [owner |-> listed.owner, subscriber |-> listed.subscriber]
    /\ listed.subscriber \subseteq Calls
    /\ serving.at \in Refusals \cup Ending \cup {"reading", "initializing", "joining"}
    /\ serving.at \in Refusals \cup {"initializing"} => serving.call \in Calls
    /\ serving.at = "cancelling" =>
          serving = [at |-> "cancelling", call |-> 0, runs |-> serving.runs, subs |-> serving.subs]

\* A request's handler and its run: a prompt's run that is driven is the connection's own; a
\* registration is noted, or its handler is about to.
CallOK(r) ==
    /\ r > readTo => handling[r] = "none"
    /\ handling[r] \in {"note", "reread"} => Kind(r) = "subscribe"
    /\ Kind(r) = "prompt" =>
          /\ runOf[r] = "begun" => handling[r] \in {"answer", "own", "register", "spawn"}
          /\ runOf[r] = "live" \/ handling[r] \in {"register", "spawn"} => r \in mine.owned
    /\ r \in listed.subscriber => handling[r] = "note" \/ r \in mine.subscribed

\* The end: nothing is handled any more, and what is left to cancel and to take back is in
\* the loop's hands.
EndOK ==
    /\ serving.at \in Ending => InFlight = {}
    /\ serving.at = "cancelling" =>
          /\ \A r \in Calls : Kind(r) = "prompt" /\ runOf[r] = "live" => r \in serving.runs
          /\ listed.subscriber \subseteq serving.subs
    /\ serving.at \in {"flushing", "done"} =>
          /\ listed = [owner |-> {}, subscriber |-> {}]
          /\ \A r \in Calls : Kind(r) = "prompt" => runOf[r] # "live"

NoInit(r) == \A q \in 1..r : Kind(q) # "init"
\* Until the connection is marked, the one initialize read has the loop waiting for it.
InitOK ==
    /\ ~ready => \A q \in 1..readTo : Kind(q) = "init" =>
          serving.at = "initializing" /\ serving.call = q /\ handling[q] = "start"
    /\ serving.at = "not_initialized" => NoInit(serving.call)
FramesOK ==
    /\ \A i \in DOMAIN outgoing : outgoing[i].what = "not_initialized" => NoInit(outgoing[i].to)
    /\ \A r \in Calls : got[r] = "not_initialized" => NoInit(r)

ConnInv == ConnTyped /\ (\A r \in Calls : CallOK(r)) /\ EndOK /\ InitOK /\ FramesOK

LEMMA CallsAre ==
    ASSUME ConnTyped
    PROVE  Calls = 1..Len(sends) /\ Len(sends) \in Nat /\ asked \in Nat /\ readTo \in Nat
           /\ 0 \notin Calls
  BY DEF ConnTyped, Calls

\* What a send leaves in the queue: what was there, and perhaps the frame.
LEMMA PutsFrame ==
    ASSUME ConnTyped, NEW r \in Calls \cup {0}, NEW what \in FrameKinds, Puts(Frame(r, what))
    PROVE  /\ outgoing' \in Seq(FrameType)
           /\ \A i \in DOMAIN outgoing' :
                 outgoing'[i] = Frame(r, what) \/ (i \in DOMAIN outgoing /\ outgoing'[i] = outgoing[i])
           /\ Frame(r, what).to = r /\ Frame(r, what).what = what
  <1>1. Frame(r, what) \in FrameType /\ Frame(r, what).to = r /\ Frame(r, what).what = what
    BY DEF Frame, FrameType
  <1>2. outgoing \in Seq(FrameType)
    BY DEF ConnTyped
  <1> DEFINE frame == Frame(r, what)
  <1> HIDE DEF frame
  <1>3. CASE outgoing' = Append(outgoing, frame)
    <2>1. /\ outgoing' \in Seq(FrameType) /\ Len(outgoing) \in Nat
          /\ DOMAIN outgoing = 1..Len(outgoing) /\ DOMAIN outgoing' = 1..(Len(outgoing) + 1)
          /\ outgoing'[Len(outgoing) + 1] = frame
          /\ \A i \in 1..Len(outgoing) : outgoing'[i] = outgoing[i]
      BY <1>1, <1>2, <1>3 DEF frame
    <2> QED BY <1>1, <2>1 DEF frame
  <1>4. CASE UNCHANGED outgoing
    BY <1>1, <1>2, <1>4
  <1> QED BY <1>3, <1>4 DEF Puts, frame

LEMMA FrameSent ==
    ASSUME ConnInv, NEW r \in Calls \cup {0}, NEW what \in FrameKinds, Puts(Frame(r, what)),
           UNCHANGED <<sends, got>>, what = "not_initialized" => NoInit(r)
    PROVE  outgoing' \in Seq(FrameType) /\ FramesOK'
  <1>1. /\ outgoing' \in Seq(FrameType)
        /\ \A i \in DOMAIN outgoing' :
              outgoing'[i] = Frame(r, what) \/ (i \in DOMAIN outgoing /\ outgoing'[i] = outgoing[i])
        /\ Frame(r, what).to = r /\ Frame(r, what).what = what
    BY PutsFrame DEF ConnInv
  <1>2. \A q : NoInit(q)' <=> NoInit(q)
    BY DEF NoInit, Kind
  <1>3. ASSUME NEW i \in DOMAIN outgoing', outgoing'[i].what = "not_initialized"
        PROVE  NoInit(outgoing'[i].to)
    BY <1>1, <1>3 DEF ConnInv, FramesOK
  <1>4. \A q \in Calls : got'[q] = "not_initialized" => NoInit(q)
    BY DEF ConnInv, FramesOK
  <1>5. Calls' = Calls
    BY DEF Calls
  <1> HIDE DEF FrameType
  <1> QED BY <1>1, <1>2, <1>3, <1>4, <1>5 DEF FramesOK

\* A step that touches neither the loop, nor a handler, a run or a registration.
LEMMA QuietConnKeeps ==
    ASSUME ConnInv, UNCHANGED <<sends, serving, readTo, ready, handling, mine, listed, runOf>>,
           asked' \in asked..Len(sends), got' = [r \in Calls |-> got'[r]],
           outgoing' \in Seq(FrameType), FramesOK'
    PROVE  ConnInv'
  <1>1. Calls' = Calls /\ FrameType' = FrameType /\ InFlight' = InFlight
    BY DEF Calls, FrameType, InFlight
  <1>2. readTo \in 0..asked' /\ asked' \in 0..Len(sends)
    BY CallsAre DEF ConnInv, ConnTyped
  <1>3. ConnTyped'
    BY <1>1, <1>2 DEF ConnInv, ConnTyped
  <1>4. ASSUME NEW r \in Calls
        PROVE  CallOK(r)'
    BY DEF ConnInv, CallOK, Kind
  <1>5. EndOK'
    BY <1>1 DEF ConnInv, EndOK, Kind
  <1>6. InitOK'
    BY DEF ConnInv, InitOK, NoInit, Kind
  <1> QED BY <1>1, <1>3, <1>4, <1>5, <1>6 DEF ConnInv

LEMMA ClientKeeps ==
    ASSUME ConnInv, ClientAsks \/ Stalls \/ Closes \/ Writes \/ WriteFails \/ WriterEnds \/ UNCHANGED connVars
    PROVE  ConnInv'
  <1>1. UNCHANGED <<sends, serving, readTo, ready, handling, mine, listed, runOf>>
    BY DEF ClientAsks, Stalls, Closes, Writes, WriteFails, WriterEnds, connVars, clientVars
  <1>2. /\ Calls = 1..Len(sends) /\ Len(sends) \in Nat /\ asked \in 0..Len(sends)
        /\ got = [r \in Calls |-> got[r]] /\ outgoing \in Seq(FrameType) /\ 0 \notin Calls
    BY CallsAre DEF ConnInv, ConnTyped
  <1>3. \A q : NoInit(q)' <=> NoInit(q)
    BY <1>1 DEF NoInit, Kind
  <1>4. Calls' = Calls
    BY <1>1 DEF Calls
  <1>5. FramesOK
    BY DEF ConnInv
  <1>6. CASE ClientAsks
    <2>1. /\ asked' = asked + 1 /\ asked < Len(sends) /\ got' = [got EXCEPT ![asked + 1] = "waiting"]
          /\ UNCHANGED outgoing
      BY <1>6 DEF ClientAsks
    <2>2. got' = [r \in Calls |-> got'[r]] /\ \A r \in Calls : got'[r] = "waiting" \/ got'[r] = got[r]
      BY <1>2, <2>1
    <2>3. FramesOK'
      BY <1>3, <1>4, <1>5, <2>1, <2>2 DEF FramesOK
    <2>4. asked' \in asked..Len(sends)
      BY <1>2, <2>1
    <2> QED BY <1>1, <1>2, <2>1, <2>2, <2>3, <2>4, QuietConnKeeps
  <1>7. CASE Closes
    <2>1. /\ UNCHANGED <<asked, outgoing>>
          /\ got' = [r \in Calls |-> IF got[r] = "waiting" THEN "closed" ELSE got[r]]
      BY <1>7 DEF Closes
    <2>2. got' = [r \in Calls |-> got'[r]] /\ \A r \in Calls : got'[r] = "closed" \/ got'[r] = got[r]
      BY <2>1
    <2>3. FramesOK'
      BY <1>3, <1>4, <1>5, <2>1, <2>2 DEF FramesOK
    <2> QED BY <1>1, <1>2, <2>1, <2>2, <2>3, QuietConnKeeps
  <1>8. CASE Writes
    <2>1. UNCHANGED asked /\ outgoing # <<>> /\ outgoing' = Tail(outgoing)
      BY <1>8 DEF Writes
    <2> DEFINE f == Head(outgoing)
    <2>2. got' = IF f.to # 0 /\ got[f.to] = "waiting" THEN [got EXCEPT ![f.to] = f.what] ELSE got
      BY <1>8 DEF Writes
    <2>3. 1 \in DOMAIN outgoing /\ f = outgoing[1] /\ f \in FrameType
      BY <1>2, <2>1
    <2>4. f.to \in Calls \cup {0}
      BY <2>3 DEF FrameType
    <2>5. f.what = "not_initialized" => NoInit(f.to)
      BY <1>5, <2>3 DEF FramesOK
    <2> HIDE DEF f
    <2>6. got' = [r \in Calls |-> got'[r]]
          /\ \A r \in Calls : got'[r] = got[r] \/ (r = f.to /\ got'[r] = f.what)
      BY <1>2, <2>2, <2>4
    <2>7. /\ outgoing' \in Seq(FrameType)
          /\ \A i \in DOMAIN outgoing' : i + 1 \in DOMAIN outgoing /\ outgoing'[i] = outgoing[i + 1]
      BY <1>2, <2>1
    <2>8. \A i \in DOMAIN outgoing' : outgoing'[i].what = "not_initialized" => NoInit(outgoing'[i].to)
      BY <1>5, <2>7 DEF FramesOK
    <2>9. FramesOK'
      BY <1>3, <1>4, <1>5, <2>5, <2>6, <2>8 DEF FramesOK
    <2> QED BY <1>1, <1>2, <2>1, <2>6, <2>7, <2>9, QuietConnKeeps
  <1>9. CASE Stalls \/ WriteFails \/ WriterEnds \/ UNCHANGED connVars
    <2>1. UNCHANGED <<asked, got>> /\ (outgoing' = outgoing \/ outgoing' = <<>>)
      <3>1. CASE UNCHANGED connVars
        BY <3>1 DEF connVars, clientVars
      <3>2. CASE Stalls
        BY <3>2 DEF Stalls
      <3>3. CASE WriteFails
        BY <3>3 DEF WriteFails, clientVars
      <3>4. CASE WriterEnds
        BY <3>4 DEF WriterEnds, clientVars
      <3> QED BY <1>9, <3>1, <3>2, <3>3, <3>4
    <2>2. outgoing' \in Seq(FrameType)
      <3>1. <<>> \in Seq(FrameType) /\ outgoing \in Seq(FrameType)
        BY <1>2
      <3>2. CASE outgoing' = <<>>
        BY ONLY <3>1, <3>2
      <3>3. CASE outgoing' = outgoing
        BY ONLY <3>1, <3>3
      <3> QED BY <2>1, <3>2, <3>3
    <2>3. FramesOK'
      BY <1>3, <1>4, <1>5, <2>1 DEF FramesOK
    <2>4. asked' \in asked..Len(sends)
      BY <1>2, <2>1
    <2> QED BY <1>1, <1>2, <2>1, <2>2, <2>3, <2>4, QuietConnKeeps
  <1> QED BY <1>6, <1>7, <1>8, <1>9

\* A run emits or ends.
LEMMA RunKeeps ==
    ASSUME ConnInv, NEW r \in Calls, Emits(r) \/ RunEnds(r)
    PROVE  ConnInv'
  <1>1. CASE Emits(r)
    <2>1. /\ Puts(Frame(0, "event"))
          /\ UNCHANGED <<sends, asked, got, serving, readTo, ready, handling, mine, listed, runOf>>
      BY <1>1 DEF Emits, Keeps, clientVars
    <2>2. outgoing' \in Seq(FrameType) /\ FramesOK'
      BY <2>1, FrameSent DEF FrameKinds
    <2>3. asked' \in asked..Len(sends) /\ got' = [q \in Calls |-> got'[q]]
      BY <2>1, CallsAre DEF ConnInv, ConnTyped
    <2> QED BY <2>1, <2>2, <2>3, QuietConnKeeps
  <1>2. CASE RunEnds(r)
    <2>1. /\ runOf' = [runOf EXCEPT ![r] = "ended"] /\ listed' = [listed EXCEPT !.owner = @ \ {r}]
          /\ UNCHANGED <<sends, asked, got, serving, readTo, ready, handling, outgoing, mine>>
      BY <1>2 DEF RunEnds, Keeps, clientVars
    <2>2. /\ runOf' \in [Calls -> RunPlaces] /\ runOf'[r] = "ended"
          /\ \A q \in Calls \ {r} : runOf'[q] = runOf[q]
      BY <2>1 DEF ConnInv, ConnTyped, RunPlaces
    <2>3. /\ listed' = [owner |-> listed'.owner, subscriber |-> listed'.subscriber]
          /\ listed'.subscriber = listed.subscriber /\ listed'.owner = listed.owner \ {r}
      <3>1. listed = [owner |-> listed.owner, subscriber |-> listed.subscriber]
        BY DEF ConnInv, ConnTyped
      <3> QED BY <2>1, <3>1
    <2>4. Calls' = Calls /\ FrameType' = FrameType /\ InFlight' = InFlight /\ \A q : Kind(q)' = Kind(q)
      BY <2>1 DEF Calls, FrameType, InFlight, Kind
    <2>5. ConnTyped'
      BY <2>1, <2>2, <2>3, <2>4 DEF ConnInv, ConnTyped
    <2>6. ASSUME NEW q \in Calls
          PROVE  CallOK(q)'
      <3>1. CallOK(q) /\ (runOf'[q] = runOf[q] \/ runOf'[q] = "ended")
        BY <2>2 DEF ConnInv
      <3> QED BY <2>1, <2>3, <2>4, <3>1 DEF CallOK
    <2>7. EndOK'
      BY <2>1, <2>2, <2>3, <2>4 DEF ConnInv, EndOK
    <2>8. InitOK' /\ FramesOK'
      BY <2>1, <2>4 DEF ConnInv, InitOK, FramesOK, NoInit
    <2> QED BY <2>4, <2>5, <2>6, <2>7, <2>8 DEF ConnInv
  <1> QED BY <1>1, <1>2

\* A step of one handler: while there is one the loop has not ended, and what the others and
\* their runs are stays.
LEMMA HandlerKeeps ==
    ASSUME ConnInv, NEW r \in Calls, r \in InFlight,
           NEW at \in HandlerPlaces \ {"none", "start"}, HandlerAt(r, at),
           UNCHANGED <<sends, asked, got, serving, readTo>>,
           ready' = ready \/ ready' = TRUE,
           handling[r] = "start" /\ Kind(r) = "init" => ready' = TRUE,
           runOf' \in [Calls -> RunPlaces], \A q \in Calls \ {r} : runOf'[q] = runOf[q],
           mine' = [owned |-> mine'.owned, subscribed |-> mine'.subscribed],
           \A q \in Calls \ {r} : /\ q \in mine.owned => q \in mine'.owned
                                  /\ q \in mine.subscribed => q \in mine'.subscribed,
           listed' = [owner |-> listed'.owner, subscriber |-> listed'.subscriber],
           listed'.subscriber \subseteq listed.subscriber \cup {r},
           outgoing' \in Seq(FrameType), FramesOK', CallOK(r)'
    PROVE  ConnInv'
  <1>1. Calls' = Calls /\ FrameType' = FrameType /\ \A q : Kind(q)' = Kind(q)
    BY DEF Calls, FrameType, Kind
  <1>2. /\ handling' \in [Calls -> HandlerPlaces] /\ handling'[r] = at
        /\ \A q \in Calls \ {r} : handling'[q] = handling[q]
    BY DEF ConnInv, ConnTyped, HandlerAt
  <1>3. ConnTyped'
    BY <1>1, <1>2 DEF ConnInv, ConnTyped
  <1>4. ASSUME NEW q \in Calls
        PROVE  CallOK(q)'
    <2>1. CASE q # r
      <3>1. CallOK(q) /\ (q \in listed'.subscriber => q \in listed.subscriber)
        BY <2>1 DEF ConnInv
      <3> QED BY <1>1, <1>2, <2>1, <3>1 DEF CallOK
    <2> QED BY <2>1
  <1>5. serving.at \notin Ending
    BY DEF ConnInv, EndOK
  <1>6. EndOK'
    BY <1>5 DEF EndOK, Ending
  <1>7. InitOK'
    <2>1. ASSUME ~ready', NEW q \in 1..readTo, Kind(q) = "init"
          PROVE  serving.at = "initializing" /\ serving.call = q /\ handling'[q] = "start"
      <3>1. q \in Calls
        BY <2>1, CallsAre DEF ConnInv, ConnTyped
      <3>2. serving.at = "initializing" /\ serving.call = q /\ handling[q] = "start"
        BY <2>1 DEF ConnInv, InitOK
      <3>3. q # r
        BY <2>1, <3>2
      <3> QED BY <1>2, <3>1, <3>2, <3>3
    <2>2. serving.at = "not_initialized" => NoInit(serving.call)
      BY DEF ConnInv, InitOK
    <2> QED BY <1>1, <2>1, <2>2 DEF InitOK, NoInit
  <1> QED BY <1>1, <1>3, <1>4, <1>6, <1>7 DEF ConnInv

LEMMA FramesRest == ASSUME ConnInv, UNCHANGED <<sends, got, outgoing>> PROVE FramesOK'
  BY DEF ConnInv, FramesOK, NoInit, Kind, Calls

LEMMA HandlersKeep ==
    ASSUME ConnInv, NEW r \in Calls, HandlerStep(r)
    PROVE  ConnInv'
  <1>1. /\ r \in InFlight /\ UNCHANGED <<sends, asked, got, serving, readTo>>
    BY DEF HandlerStep, Initializes, Handles, Begins, Owns, RegistersOwner, Drives, RegistersFollower,
           NotesFollowed, FindsItLive, FindsItEnded, HandlerAnswers, InFlight, Keeps, clientVars
  <1>2. /\ CallOK(r) /\ runOf \in [Calls -> RunPlaces] /\ handling \in [Calls -> HandlerPlaces]
        /\ mine = [owned |-> mine.owned, subscribed |-> mine.subscribed]
        /\ listed = [owner |-> listed.owner, subscriber |-> listed.subscriber]
        /\ outgoing \in Seq(FrameType) /\ r <= readTo
    <2>1. CallOK(r) /\ handling[r] # "none"
      BY <1>1 DEF ConnInv, InFlight
    <2>2. r <= readTo
      BY <2>1, CallsAre DEF ConnInv, CallOK
    <2> QED BY <2>1, <2>2 DEF ConnInv, ConnTyped
  <1>3. Kind(r)' = Kind(r)
    BY <1>1 DEF Kind
  <1>4. ASSUME NEW at, HandlerAt(r, at)
        PROVE  handling'[r] = at
    BY <1>2, <1>4 DEF HandlerAt
  <1>5. CASE Initializes(r) \/ Handles(r) \/ FindsItLive(r)
    <2>1. PICK at \in {"answer", "already"} :
             /\ HandlerAt(r, at) /\ (ready' = ready \/ ready' = TRUE)
             /\ handling[r] = "start" /\ Kind(r) = "init" => ready' = TRUE
             /\ (handling[r] = "start" /\ Kind(r) \in {"init", "get"}) \/ handling[r] = "reread"
             /\ at = "already" => Kind(r) = "init"
      BY <1>5 DEF Initializes, Handles, FindsItLive
    <2>2. UNCHANGED <<outgoing, mine, listed, runOf>>
      BY <1>5 DEF Initializes, Handles, FindsItLive
    <2>3. CallOK(r)'
      BY <1>1, <1>2, <1>3, <1>4, <2>1, <2>2 DEF CallOK
    <2>4. handling[r] = "start" /\ Kind(r) = "init" => ready' = TRUE
      BY <2>1
    <2> QED BY <1>1, <1>2, <2>1, <2>2, <2>3, <2>4, FramesRest, HandlerKeeps DEF HandlerPlaces
  <1>6. CASE Begins(r)
    <2>1. /\ handling[r] = "start" /\ Kind(r) \in {"prompt", "aux"} /\ runOf' = [runOf EXCEPT ![r] = "begun"]
          /\ HandlerAt(r, IF Kind(r) = "prompt" THEN "answer" ELSE "own")
          /\ UNCHANGED <<ready, outgoing, mine, listed>>
      BY <1>6 DEF Begins
    <2>2. /\ runOf' \in [Calls -> RunPlaces] /\ runOf'[r] = "begun"
          /\ \A q \in Calls \ {r} : runOf'[q] = runOf[q]
      BY <1>2, <2>1 DEF RunPlaces
    <2>3. CallOK(r)'
      BY <1>1, <1>2, <1>3, <1>4, <2>1, <2>2 DEF CallOK
    <2> QED BY <1>1, <1>2, <2>1, <2>2, <2>3, FramesRest, HandlerKeeps DEF HandlerPlaces
  <1>7. CASE Owns(r)
    <2>1. /\ handling[r] = "own" /\ HandlerAt(r, "register")
          /\ mine' = [mine EXCEPT !.owned = IF Kind(r) = "prompt" THEN @ \cup {r} ELSE @]
          /\ UNCHANGED <<ready, outgoing, listed, runOf>>
      BY <1>7 DEF Owns
    <2>2. /\ mine' = [owned |-> mine'.owned, subscribed |-> mine'.subscribed]
          /\ mine'.subscribed = mine.subscribed /\ mine.owned \subseteq mine'.owned
          /\ Kind(r) = "prompt" => r \in mine'.owned
      BY <1>2, <2>1
    <2>3. CallOK(r)'
      BY <1>1, <1>2, <1>3, <1>4, <2>1, <2>2 DEF CallOK
    <2> QED BY <1>1, <1>2, <2>1, <2>2, <2>3, FramesRest, HandlerKeeps DEF HandlerPlaces
  <1>8. CASE RegistersOwner(r)
    <2>1. /\ handling[r] = "register" /\ HandlerAt(r, "spawn")
          /\ listed' = [listed EXCEPT !.owner = @ \cup {r}]
          /\ UNCHANGED <<ready, outgoing, mine, runOf>>
      BY <1>8 DEF RegistersOwner
    <2>2. /\ listed' = [owner |-> listed'.owner, subscriber |-> listed'.subscriber]
          /\ listed'.subscriber = listed.subscriber
      BY <1>2, <2>1
    <2>3. CallOK(r)'
      BY <1>1, <1>2, <1>3, <1>4, <2>1, <2>2 DEF CallOK
    <2> QED BY <1>1, <1>2, <2>1, <2>2, <2>3, FramesRest, HandlerKeeps DEF HandlerPlaces
  <1>9. CASE Drives(r)
    <2>1. /\ handling[r] = "spawn" /\ runOf' = [runOf EXCEPT ![r] = "live"]
          /\ HandlerAt(r, IF Kind(r) = "prompt" THEN "done" ELSE "answer")
          /\ UNCHANGED <<ready, outgoing, mine, listed>>
      BY <1>9 DEF Drives
    <2>2. /\ runOf' \in [Calls -> RunPlaces] /\ runOf'[r] = "live"
          /\ \A q \in Calls \ {r} : runOf'[q] = runOf[q]
      BY <1>2, <2>1 DEF RunPlaces
    <2>3. CallOK(r)'
      BY <1>1, <1>2, <1>3, <1>4, <2>1, <2>2 DEF CallOK
    <2> QED BY <1>1, <1>2, <2>1, <2>2, <2>3, FramesRest, HandlerKeeps DEF HandlerPlaces
  <1>10. CASE RegistersFollower(r)
    <2>1. /\ handling[r] = "start" /\ Kind(r) = "subscribe" /\ HandlerAt(r, "note")
          /\ listed' = [listed EXCEPT !.subscriber = @ \cup {r}]
          /\ UNCHANGED <<ready, outgoing, mine, runOf>>
      BY <1>10 DEF RegistersFollower
    <2>2. /\ listed' = [owner |-> listed'.owner, subscriber |-> listed'.subscriber]
          /\ listed'.subscriber = listed.subscriber \cup {r}
      BY <1>2, <2>1
    <2>3. CallOK(r)'
      BY <1>1, <1>2, <1>3, <1>4, <2>1, <2>2 DEF CallOK
    <2> QED BY <1>1, <1>2, <2>1, <2>2, <2>3, FramesRest, HandlerKeeps DEF HandlerPlaces
  <1>11. CASE NotesFollowed(r)
    <2>1. /\ handling[r] = "note" /\ HandlerAt(r, "reread")
          /\ mine' = [mine EXCEPT !.subscribed = @ \cup {r}]
          /\ UNCHANGED <<ready, outgoing, listed, runOf>>
      BY <1>11 DEF NotesFollowed
    <2>2. /\ mine' = [owned |-> mine'.owned, subscribed |-> mine'.subscribed]
          /\ mine'.owned = mine.owned /\ mine'.subscribed = mine.subscribed \cup {r}
      BY <1>2, <2>1
    <2>3. CallOK(r)'
      BY <1>1, <1>2, <1>3, <1>4, <2>1, <2>2 DEF CallOK
    <2> QED BY <1>1, <1>2, <2>1, <2>2, <2>3, FramesRest, HandlerKeeps DEF HandlerPlaces
  <1>12. CASE FindsItEnded(r)
    <2>1. /\ handling[r] = "reread" /\ HandlerAt(r, "answer")
          /\ listed' = [listed EXCEPT !.subscriber = @ \ {r}]
          /\ mine' = [mine EXCEPT !.subscribed = @ \ {r}]
          /\ UNCHANGED <<ready, outgoing, runOf>>
      BY <1>12 DEF FindsItEnded
    <2>2. /\ mine' = [owned |-> mine'.owned, subscribed |-> mine'.subscribed]
          /\ mine'.owned = mine.owned /\ mine'.subscribed = mine.subscribed \ {r}
      BY <1>2, <2>1
    <2>3. /\ listed' = [owner |-> listed'.owner, subscriber |-> listed'.subscriber]
          /\ listed'.subscriber = listed.subscriber \ {r}
      BY <1>2, <2>1
    <2>4. CallOK(r)'
      BY <1>1, <1>2, <1>3, <1>4, <2>1, <2>2, <2>3 DEF CallOK
    <2> QED BY <1>1, <1>2, <2>1, <2>2, <2>3, <2>4, FramesRest, HandlerKeeps DEF HandlerPlaces
  <1>13. CASE HandlerAnswers(r)
    <2>1. /\ handling[r] \in {"answer", "already"}
          /\ Puts(Frame(r, IF handling[r] = "already" THEN "already_initialized" ELSE "result"))
          /\ HandlerAt(r, IF Kind(r) = "prompt" THEN "own" ELSE "done")
          /\ UNCHANGED <<ready, mine, listed, runOf>>
      BY <1>13 DEF HandlerAnswers
    <2>2. outgoing' \in Seq(FrameType) /\ FramesOK'
      <3>1. PICK what \in {"already_initialized", "result"} : Puts(Frame(r, what))
        BY <2>1
      <3> QED BY <1>1, <3>1, FrameSent DEF FrameKinds
    <2>3. CallOK(r)'
      BY <1>1, <1>2, <1>3, <1>4, <2>1 DEF CallOK
    <2> QED BY <1>1, <1>2, <2>1, <2>2, <2>3, HandlerKeeps DEF HandlerPlaces
  <1> QED BY <1>5, <1>6, <1>7, <1>8, <1>9, <1>10, <1>11, <1>12, <1>13 DEF HandlerStep

\* The loop reads a request: none before it is handled twice, and a refusal for want of
\* initialize means that none was read.
LEMMA ReadingKeeps ==
    ASSUME ConnInv, ReadsRequest
    PROVE  ConnInv'
  <1>1. /\ serving.at = "reading" /\ readTo < asked /\ readTo' = readTo + 1
        /\ UNCHANGED <<sends, asked, got, ready, outgoing, mine, listed, runOf>>
    BY DEF ReadsRequest, NextCall, clientVars
  <1>2. /\ Calls = 1..Len(sends) /\ Len(sends) \in Nat /\ asked \in 0..Len(sends) /\ readTo \in 0..asked
        /\ NextCall \in Calls /\ NextCall = readTo + 1
    BY <1>1, CallsAre DEF ConnInv, ConnTyped, NextCall
  <1>3. Calls' = Calls /\ FrameType' = FrameType /\ \A q : Kind(q)' = Kind(q)
    BY <1>1 DEF Calls, FrameType, Kind
  <1>4. CallOK(NextCall) /\ handling[NextCall] = "none"
    BY <1>2 DEF ConnInv, CallOK
  <1>5. \/ UNCHANGED handling
        \/ HandlerAt(NextCall, "start")
    BY DEF ReadsRequest
  <1>6. \/ UNCHANGED serving
        \/ \E at \in Refusals \cup {"initializing"} : serving' = [at |-> at, call |-> NextCall]
    BY DEF ReadsRequest, ServesAt, Refusals
  <1>7. /\ handling' \in [Calls -> HandlerPlaces] /\ handling'[NextCall] \in {"none", "start"}
        /\ \A q \in Calls \ {NextCall} : handling'[q] = handling[q]
    BY <1>2, <1>4, <1>5 DEF ConnInv, ConnTyped, HandlerAt, HandlerPlaces
  <1>8. /\ serving'.at \in Refusals \cup {"reading", "initializing"}
        /\ serving'.at \in Refusals \cup {"initializing"} => serving'.call = NextCall
    BY <1>1, <1>6 DEF Refusals
  <1>9. ConnTyped'
    BY <1>1, <1>2, <1>3, <1>7, <1>8 DEF ConnInv, ConnTyped, Refusals, Ending
  <1>10. ASSUME NEW q \in Calls
         PROVE  CallOK(q)'
    <2>1. CASE q = NextCall
      BY <1>1, <1>2, <1>3, <1>4, <1>7, <2>1 DEF CallOK
    <2>2. CASE q # NextCall
      <3>1. CallOK(q) /\ (q > readTo + 1 => q > readTo)
        BY <1>2 DEF ConnInv
      <3> QED BY <1>1, <1>3, <1>7, <2>2, <3>1 DEF CallOK
    <2> QED BY <2>1, <2>2
  <1>11. EndOK'
    BY <1>8 DEF EndOK, Refusals, Ending
  <1>12. ~ready => NoInit(readTo) /\ \A q \in 1..(readTo + 1) : q \in 1..readTo \/ q = NextCall
    BY <1>1, <1>2 DEF ConnInv, InitOK, NoInit
  <1>13. InitOK'
    <2>1. ASSUME ~ready, NEW q \in 1..(readTo + 1), Kind(q) = "init"
          PROVE  serving'.at = "initializing" /\ serving'.call = q /\ handling'[q] = "start"
      <3>1. q = NextCall
        BY <1>12, <2>1 DEF NoInit
      <3>2. serving' = [at |-> "initializing", call |-> NextCall] /\ HandlerAt(NextCall, "start")
        BY <2>1, <3>1 DEF ReadsRequest, ServesAt
      <3>3. handling'[NextCall] = "start"
        BY <1>2, <3>2 DEF HandlerAt, ConnInv, ConnTyped
      <3> QED BY <3>1, <3>2, <3>3
    <2>2. ASSUME serving'.at = "not_initialized"
          PROVE  serving'.call = NextCall /\ ~ready /\ Kind(NextCall) # "init"
      BY <1>1, <1>8, <2>2 DEF ReadsRequest, ServesAt, Refusals
    <2>3. serving'.at = "not_initialized" => NoInit(serving'.call)
      BY <1>2, <1>12, <2>2 DEF NoInit
    <2> QED BY <1>1, <1>3, <2>1, <2>3 DEF InitOK, NoInit
  <1>14. FramesOK'
    BY <1>1, FramesRest
  <1> QED BY <1>3, <1>9, <1>10, <1>11, <1>13, <1>14 DEF ConnInv

\* The loop goes on to read, or on to wait for the handlers.
LEMMA LoopGoesOn ==
    ASSUME ConnInv, UNCHANGED <<sends, asked, got, readTo, ready, handling, mine, listed, runOf>>,
           outgoing' \in Seq(FrameType), FramesOK',
           NEW at \in {"reading", "joining"}, ServesAt(at, 0),
           serving.at = "initializing" => handling[serving.call] = "done"
    PROVE  ConnInv'
  <1>1. Calls' = Calls /\ FrameType' = FrameType /\ \A q : Kind(q)' = Kind(q)
    BY DEF Calls, FrameType, Kind
  <1>2. serving' = [at |-> at, call |-> 0] /\ serving'.at = at
    BY DEF ServesAt
  <1>3. ConnTyped'
    BY <1>1, <1>2 DEF ConnInv, ConnTyped, Refusals, Ending
  <1>4. ASSUME NEW q \in Calls
        PROVE  CallOK(q)'
    BY <1>1 DEF ConnInv, CallOK
  <1>5. EndOK'
    BY <1>2 DEF EndOK, Ending
  <1>6. InitOK'
    BY <1>1, <1>2 DEF ConnInv, InitOK
  <1> QED BY <1>1, <1>3, <1>4, <1>5, <1>6 DEF ConnInv

LEMMA LoopKeeps ==
    ASSUME ConnInv, SendsRefusal \/ Initialized \/ StopsReading
    PROVE  ConnInv'
  <1>1. CASE SendsRefusal
    <2>1. PICK at \in {"reading", "joining"} : ServesAt(at, 0)
      BY <1>1 DEF SendsRefusal
    <2>2. /\ serving.at \in Refusals /\ Puts(Frame(serving.call, serving.at))
          /\ UNCHANGED <<sends, asked, got, readTo, ready, handling, mine, listed, runOf>>
      BY <1>1 DEF SendsRefusal, Refusals, clientVars
    <2>3. /\ serving.call \in Calls /\ serving.at \in FrameKinds
          /\ serving.at = "not_initialized" => NoInit(serving.call)
      BY <2>2 DEF ConnInv, ConnTyped, InitOK, FrameKinds
    <2>4. outgoing' \in Seq(FrameType) /\ FramesOK'
      BY <2>2, <2>3, FrameSent
    <2> QED BY <2>1, <2>2, <2>4, LoopGoesOn DEF Refusals
  <1>2. CASE Initialized \/ StopsReading
    <2>1. PICK at \in {"reading", "joining"} : ServesAt(at, 0)
      BY <1>2 DEF Initialized, StopsReading
    <2>2. /\ serving.at = "initializing" => handling[serving.call] = "done"
          /\ UNCHANGED <<sends, asked, got, readTo, ready, handling, outgoing, mine, listed, runOf>>
      BY <1>2 DEF Initialized, StopsReading, clientVars
    <2>3. outgoing' \in Seq(FrameType)
      BY <2>2 DEF ConnInv, ConnTyped
    <2> QED BY <2>1, <2>2, <2>3, FramesRest, LoopGoesOn
  <1> QED BY <1>1, <1>2

\* The end: nothing but the loop moves registrations and the runs that are told.
LEMMA EndingKeeps ==
    ASSUME ConnInv, UNCHANGED <<sends, asked, got, readTo, ready, handling, outgoing, mine>>,
           serving'.at \in Ending,
           serving'.at = "cancelling" =>
              serving' = [at |-> "cancelling", call |-> 0, runs |-> serving'.runs, subs |-> serving'.subs],
           runOf' \in [Calls -> RunPlaces],
           \A r \in Calls : runOf'[r] = runOf[r] \/ runOf'[r] = "told",
           listed' = [owner |-> listed'.owner, subscriber |-> listed'.subscriber],
           listed'.subscriber \subseteq listed.subscriber,
           serving.at = "initializing" => FALSE,
           EndOK'
    PROVE  ConnInv'
  <1>1. Calls' = Calls /\ FrameType' = FrameType /\ \A q : Kind(q)' = Kind(q)
    BY DEF Calls, FrameType, Kind
  <1>2. ConnTyped'
    BY <1>1 DEF ConnInv, ConnTyped, Refusals, Ending
  <1>3. ASSUME NEW q \in Calls
        PROVE  CallOK(q)'
    <2>1. CallOK(q) /\ (runOf'[q] = runOf[q] \/ runOf'[q] = "told")
      BY DEF ConnInv
    <2> QED BY <1>1, <2>1 DEF CallOK
  <1>4. InitOK'
    BY <1>1 DEF ConnInv, InitOK, Ending
  <1> QED BY <1>1, <1>2, <1>3, <1>4, FramesRest DEF ConnInv

LEMMA TearDownKeeps ==
    ASSUME ConnInv, Joins \/ (\E r \in Calls : Cancels(r)) \/ DropsRegistrations \/ ServeEnds
    PROVE  ConnInv'
  <1>1. /\ ConnTyped /\ EndOK
        /\ runOf \in [Calls -> RunPlaces] /\ listed.subscriber \subseteq Calls
        /\ listed = [owner |-> listed.owner, subscriber |-> listed.subscriber]
    BY DEF ConnInv, ConnTyped
  <1>2. CASE Joins
    <2>1. /\ serving.at = "joining" /\ InFlight = {}
          /\ serving' = [at |-> "cancelling", call |-> 0, runs |-> mine.owned, subs |-> mine.subscribed]
          /\ UNCHANGED <<sends, asked, got, readTo, ready, handling, outgoing, mine, listed, runOf>>
      BY <1>2 DEF Joins, clientVars
    <2>2. /\ serving'.at = "cancelling" /\ serving'.call = 0 /\ serving'.runs = mine.owned
          /\ serving'.subs = mine.subscribed
          /\ serving' = [at |-> "cancelling", call |-> 0, runs |-> serving'.runs, subs |-> serving'.subs]
      BY <2>1
    <2>3. ASSUME NEW r \in Calls
          PROVE  /\ Kind(r) = "prompt" /\ runOf[r] = "live" => r \in mine.owned
                 /\ r \in listed.subscriber => r \in mine.subscribed
      BY <2>1 DEF ConnInv, CallOK, InFlight
    <2>4. EndOK'
      BY <1>1, <2>1, <2>2, <2>3 DEF EndOK, InFlight, Calls, Kind
    <2> QED BY <1>1, <2>1, <2>2, <2>4, EndingKeeps DEF Ending
  <1>3. ASSUME NEW r \in Calls, Cancels(r)
        PROVE  ConnInv'
    <2>1. /\ serving.at = "cancelling" /\ serving' = [serving EXCEPT !.runs = @ \ {r}]
          /\ runOf' = [runOf EXCEPT ![r] = IF @ = "live" THEN "told" ELSE @]
          /\ UNCHANGED <<sends, asked, got, readTo, ready, handling, outgoing, mine, listed>>
      BY <1>3 DEF Cancels, clientVars
    <2>2. /\ serving'.at = "cancelling" /\ serving'.runs = serving.runs \ {r} /\ serving'.subs = serving.subs
          /\ serving' = [at |-> "cancelling", call |-> 0, runs |-> serving'.runs, subs |-> serving'.subs]
      <3>1. serving = [at |-> "cancelling", call |-> 0, runs |-> serving.runs, subs |-> serving.subs]
        BY <1>1, <2>1 DEF ConnTyped
      <3>2. serving' = [at |-> "cancelling", call |-> 0, runs |-> serving.runs \ {r}, subs |-> serving.subs]
        BY <2>1, <3>1
      <3> QED BY <3>2
    <2>3. /\ runOf' \in [Calls -> RunPlaces] /\ runOf'[r] # "live"
          /\ \A q \in Calls : runOf'[q] = runOf[q] \/ runOf'[q] = "told"
      BY <1>1, <2>1 DEF RunPlaces
    <2>4. /\ InFlight = {} /\ listed.subscriber \subseteq serving.subs
          /\ \A q \in Calls : Kind(q) = "prompt" /\ runOf[q] = "live" => q \in serving.runs
      BY <1>1, <2>1 DEF EndOK, Ending
    <2>5. ASSUME NEW q \in Calls, Kind(q) = "prompt", runOf'[q] = "live"
          PROVE  q \in serving'.runs
      BY <2>2, <2>3, <2>4, <2>5
    <2>6. EndOK'
      BY <2>1, <2>2, <2>4, <2>5 DEF EndOK, InFlight, Calls, Kind
    <2> QED BY <1>1, <2>1, <2>2, <2>3, <2>6, EndingKeeps DEF Ending
  <1>4. CASE DropsRegistrations
    <2>1. /\ serving.at = "cancelling" /\ serving.runs = {} /\ serving' = [at |-> "flushing", call |-> 0]
          /\ listed' = [owner |-> {}, subscriber |-> listed.subscriber \ serving.subs]
          /\ UNCHANGED <<sends, asked, got, readTo, ready, handling, outgoing, mine, runOf>>
      BY <1>4 DEF DropsRegistrations, ServesAt, clientVars
    <2>2. InFlight = {} /\ listed' = [owner |-> {}, subscriber |-> {}]
          /\ \A q \in Calls : Kind(q) = "prompt" => runOf[q] # "live"
      BY <1>1, <2>1 DEF EndOK, Ending
    <2>3. listed'.owner = {} /\ listed'.subscriber = {} /\ serving'.at = "flushing"
      BY <2>1, <2>2
    <2>4. EndOK'
      BY <2>1, <2>2, <2>3 DEF EndOK, InFlight, Calls, Kind
    <2> QED BY <1>1, <2>1, <2>2, <2>3, <2>4, EndingKeeps DEF Ending
  <1>5. CASE ServeEnds
    <2>1. /\ serving.at = "flushing" /\ serving' = [at |-> "done", call |-> 0]
          /\ UNCHANGED <<sends, asked, got, readTo, ready, handling, outgoing, mine, listed, runOf>>
      BY <1>5 DEF ServeEnds, ServesAt, clientVars
    <2>2. serving'.at = "done"
      BY <2>1
    <2>3. EndOK'
      BY <1>1, <2>1, <2>2 DEF EndOK, InFlight, Calls, Kind, Ending
    <2> QED BY <1>1, <2>1, <2>2, <2>3, EndingKeeps DEF Ending
  <1> QED BY <1>2, <1>3, <1>4, <1>5

LEMMA ConnStart == ConnectionInit => ConnInv
  <1> SUFFICES ASSUME ConnectionInit PROVE ConnInv
    OBVIOUS
  <1>1. /\ sends \in Seq({"init", "bad", "get", "prompt", "aux", "subscribe"})
        /\ asked = 0 /\ readTo = 0 /\ ready = FALSE /\ outgoing = <<>>
        /\ serving = [at |-> "reading", call |-> 0]
        /\ mine = [owned |-> {}, subscribed |-> {}] /\ listed = [owner |-> {}, subscriber |-> {}]
        /\ got = [r \in Calls |-> "none"] /\ handling = [r \in Calls |-> "none"]
        /\ runOf = [r \in Calls |-> "none"]
    BY ConnectionAssumption DEF ConnectionInit, Calls
  <1>2. serving.at = "reading" /\ listed.subscriber = {} /\ listed.owner = {} /\ mine.owned = {}
    BY <1>1
  <1>3. ConnTyped
    <2>1. /\ Len(sends) \in Nat /\ asked \in 0..Len(sends) /\ readTo \in 0..asked /\ ready \in BOOLEAN
      <3>1. /\ sends \in Seq({"init", "bad", "get", "prompt", "aux", "subscribe"})
            /\ asked = 0 /\ readTo = 0 /\ ready = FALSE
        BY <1>1
      <3>2. Len(sends) \in Nat
        BY <3>1
      <3>3. 0 \in 0..Len(sends) /\ 0 \in 0..0 /\ FALSE \in BOOLEAN
        BY <3>2
      <3> QED BY <3>1, <3>2, <3>3, Zenon
    <2>2. got = [r \in Calls |-> got[r]]
      BY <1>1
    <2>3. outgoing \in Seq(FrameType)
      BY <1>1
    <2>4. handling \in [Calls -> HandlerPlaces] /\ runOf \in [Calls -> RunPlaces]
      BY <1>1 DEF HandlerPlaces, RunPlaces
    <2>5. /\ mine = [owned |-> mine.owned, subscribed |-> mine.subscribed]
          /\ listed = [owner |-> listed.owner, subscriber |-> listed.subscriber]
          /\ listed.subscriber \subseteq Calls
      BY <1>1
    <2> QED BY <1>1, <1>2, <2>1, <2>2, <2>3, <2>4, <2>5 DEF ConnTyped, Refusals, Ending
  <1>4. \A r \in Calls : CallOK(r)
    BY <1>1, <1>2 DEF CallOK
  <1>5. EndOK /\ InitOK /\ FramesOK
    BY <1>1, <1>2 DEF EndOK, InitOK, FramesOK, Ending
  <1> QED BY <1>3, <1>4, <1>5 DEF ConnInv

\* Wherever its client goes, its queue fills or its writer breaks: when serve_io has returned,
\* no handler, no registration and no unstopped prompt of the connection is left; and no
\* request that follows an initialize is refused for want of one (lib.rs: serve_io).
THEOREM ConnectionIsTornDown == ConnectionSpec => []ConnectionHolds
  <1>1. ConnInv /\ [ConnectionNext]_connVars => ConnInv'
    BY ClientKeeps, RunKeeps, HandlersKeep, ReadingKeeps, LoopKeeps, TearDownKeeps
       DEF ConnectionNext, ServeStep, WriterStep
  <1>2. ConnInv => ConnectionHolds
    <2> SUFFICES ASSUME ConnInv PROVE TornDown /\ NoFalseRefusal
      BY DEF ConnectionHolds
    <2>1. ASSUME serving.at = "done", NEW r \in Calls, Kind(r) = "prompt"
          PROVE  runOf[r] \in {"none", "told", "ended"}
      <3>1. runOf[r] \in RunPlaces /\ runOf[r] # "live"
        BY <2>1 DEF ConnInv, ConnTyped, EndOK
      <3>2. handling[r] \in {"none", "done"}
        BY <2>1 DEF ConnInv, EndOK, InFlight, Ending
      <3> QED BY <2>1, <3>1, <3>2 DEF ConnInv, CallOK, RunPlaces
    <2> QED BY <2>1 DEF ConnInv, EndOK, Ending, FramesOK, NoInit, TornDown, NoFalseRefusal
  <1> QED BY <1>1, <1>2, ConnStart, PTL DEF ConnectionSpec

-----------------------------------------------------------------------------
(* The keys of tasks.run *)

StartedBy(k) == {r \in DOMAIN taskRuns : taskRuns[r].source = k}
TaskRunType == [task : Tasks, status : EndedTaskRun \cup {"running"},
                source : Callers \cup {"schedule"}]

\* An enqueue in progress: what it was asked for, then the row it made.
StartOK(c) ==
    /\ starts[c].at \in {"idle", "marked", "fired", "created"}
    /\ starts[c].at \in {"marked", "fired"} =>
          /\ starts[c] = [at |-> starts[c].at, task |-> starts[c].task, kind |-> starts[c].kind]
          /\ starts[c].task \in Tasks
    /\ starts[c].at = "created" =>
          /\ starts[c] = [at |-> "created", run |-> starts[c].run]
          /\ starts[c].run \in StartedBy(c)

\* A key that is free, or whose enqueue has not made its row, started nothing; one that is
\* answered did; none started two.  A pending key without an enqueue is a crash's.
KeyOK(k) ==
    /\ starts[k].at # "idle" => runRequests[k] = "pending"
    /\ starts[k].at \in {"marked", "fired"} \/ runRequests[k] = "none" => StartedBy(k) = {}
    /\ runRequests[k] = "done" => StartedBy(k) # {}
    /\ \A r, s \in StartedBy(k) : r = s

TaskInv ==
    /\ taskRuns \in Seq(TaskRunType) /\ starts = [c \in Callers |-> starts[c]]
    /\ runRequests \in [TaskKeys -> {"none", "pending", "done"}]
    /\ \A c \in Callers : StartOK(c)
    /\ \A k \in TaskKeys : KeyOK(k)

LEMMA KeysAreCallers ==
    /\ TaskKeys \subseteq Callers /\ "tick" \in Callers
    /\ \A k \in TaskKeys : k # "tick" /\ k # "schedule"
  BY TaskAssumption DEF Callers

\* A row that is added, and rows whose source stays.
LEMMA RowAdded ==
    ASSUME TaskInv, NEW t \in Tasks, NEW status \in EndedTaskRun \cup {"running"},
           NEW source \in Callers \cup {"schedule"}, AddRun(t, status, source)
    PROVE  /\ taskRuns' \in Seq(TaskRunType)
           /\ \A k : StartedBy(k)' = StartedBy(k) \cup (IF k = source THEN {Len(taskRuns) + 1} ELSE {})
           /\ Len(taskRuns) + 1 \notin DOMAIN taskRuns
  <1> DEFINE new == [task |-> t, status |-> status, source |-> source]
  <1>1. new \in TaskRunType /\ new.source = source
    BY DEF TaskRunType
  <1>2. taskRuns' = Append(taskRuns, new)
    BY DEF AddRun
  <1> HIDE DEF new
  <1>3. /\ taskRuns' \in Seq(TaskRunType) /\ Len(taskRuns) \in Nat
        /\ DOMAIN taskRuns = 1..Len(taskRuns) /\ DOMAIN taskRuns' = 1..(Len(taskRuns) + 1)
        /\ \A r \in DOMAIN taskRuns : taskRuns'[r] = taskRuns[r]
        /\ taskRuns'[Len(taskRuns) + 1] = new
    BY <1>1, <1>2 DEF TaskInv
  <1>4. DOMAIN taskRuns' = DOMAIN taskRuns \cup {Len(taskRuns) + 1}
    BY <1>3
  <1>5. Len(taskRuns) + 1 \notin DOMAIN taskRuns
    BY <1>3
  <1> QED BY <1>1, <1>3, <1>4, <1>5 DEF StartedBy

LEMMA RowsRelabelled ==
    ASSUME TaskInv, NEW S \in SUBSET DOMAIN taskRuns, NEW status \in EndedTaskRun \cup {"running"},
           taskRuns' = [r \in DOMAIN taskRuns |-> IF r \in S THEN [taskRuns[r] EXCEPT !.status = status]
                                                  ELSE taskRuns[r]]
    PROVE  taskRuns' \in Seq(TaskRunType) /\ \A k : StartedBy(k)' = StartedBy(k)
  <1>1. ASSUME NEW r \in DOMAIN taskRuns
        PROVE  taskRuns'[r] \in TaskRunType /\ taskRuns'[r].source = taskRuns[r].source
    <2>1. taskRuns[r] \in TaskRunType
      BY DEF TaskInv
    <2> QED BY <2>1 DEF TaskRunType
  <1>2. DOMAIN taskRuns' = 1..Len(taskRuns) /\ DOMAIN taskRuns = 1..Len(taskRuns) /\ Len(taskRuns) \in Nat
    BY DEF TaskInv
  <1>3. taskRuns' \in Seq(TaskRunType)
    BY <1>1, <1>2
  <1> QED BY <1>1, <1>2, <1>3 DEF StartedBy

\* A step that neither starts anything nor touches a key.
LEMMA NothingStarts ==
    ASSUME TaskInv, taskRuns' \in Seq(TaskRunType), UNCHANGED <<starts, runRequests>>,
           \A k \in Callers : StartedBy(k)' = StartedBy(k)
    PROVE  TaskInv'
  <1> USE KeysAreCallers
  <1>1. ASSUME NEW c \in Callers
        PROVE  StartOK(c)'
    <2>1. StartOK(c) /\ StartedBy(c)' = StartedBy(c)
      BY DEF TaskInv
    <2> QED BY <2>1 DEF StartOK
  <1>2. ASSUME NEW k \in TaskKeys
        PROVE  KeyOK(k)'
    <2>1. KeyOK(k) /\ StartedBy(k)' = StartedBy(k)
      BY DEF TaskInv
    <2> QED BY <2>1 DEF KeyOK
  <1> QED BY <1>1, <1>2 DEF TaskInv

\* A step of one enqueue: the others and their keys stay.
LEMMA OneStarts ==
    ASSUME TaskInv, NEW c \in Callers, NEW s, starts' = [starts EXCEPT ![c] = s],
           taskRuns' \in Seq(TaskRunType), runRequests' \in [TaskKeys -> {"none", "pending", "done"}],
           \A k \in TaskKeys \ {c} : runRequests'[k] = runRequests[k],
           \A k \in Callers \ {c} : StartedBy(k)' = StartedBy(k),
           starts'[c] = s => StartOK(c)' /\ (c \in TaskKeys => KeyOK(c)')
    PROVE  TaskInv'
  <1> USE KeysAreCallers
  <1>1. /\ starts' = [d \in Callers |-> starts'[d]] /\ starts'[c] = s
        /\ \A d \in Callers \ {c} : starts'[d] = starts[d]
    BY DEF TaskInv
  <1>2. ASSUME NEW d \in Callers
        PROVE  StartOK(d)'
    <2>1. CASE d # c
      <3>1. StartOK(d) /\ StartedBy(d)' = StartedBy(d) /\ starts'[d] = starts[d]
        BY <1>1, <2>1 DEF TaskInv
      <3> QED BY <3>1 DEF StartOK
    <2> QED BY <1>1, <2>1
  <1>3. ASSUME NEW k \in TaskKeys
        PROVE  KeyOK(k)'
    <2>1. CASE k # c
      <3>1. KeyOK(k) /\ StartedBy(k)' = StartedBy(k) /\ starts'[k] = starts[k]
               /\ runRequests'[k] = runRequests[k]
        BY <1>1, <2>1 DEF TaskInv
      <3> QED BY <3>1 DEF KeyOK
    <2> QED BY <1>1, <2>1
  <1> QED BY <1>1, <1>2, <1>3 DEF TaskInv

LEMMA EnqueueKeeps ==
    ASSUME TaskInv, NEW c \in Callers, StartStep(c)
    PROVE  TaskInv'
  <1> USE KeysAreCallers
  <1>1. StartOK(c) /\ (c \in TaskKeys => KeyOK(c)) /\ taskRuns \in Seq(TaskRunType)
        /\ runRequests \in [TaskKeys -> {"none", "pending", "done"}]
    BY DEF TaskInv
  <1>2. CASE StartFires(c)
    <2> DEFINE s == [starts[c] EXCEPT !.at = "fired"]
    <2>1. starts[c].at = "marked" /\ starts' = [starts EXCEPT ![c] = s] /\ UNCHANGED <<taskRuns, runRequests>>
      BY <1>2 DEF StartFires
    <2>2. /\ starts[c] = [at |-> starts[c].at, task |-> starts[c].task, kind |-> starts[c].kind]
          /\ starts[c].task \in Tasks
      BY <1>1, <2>1 DEF StartOK
    <2>3. s = [at |-> "fired", task |-> starts[c].task, kind |-> starts[c].kind]
      BY <2>2
    <2> HIDE DEF s
    <2>4. s.at = "fired" /\ s = [at |-> s.at, task |-> s.task, kind |-> s.kind] /\ s.task \in Tasks
      BY <2>2, <2>3
    <2>5. \A k : StartedBy(k)' = StartedBy(k)
      BY <2>1 DEF StartedBy
    <2>6. starts'[c] = s => StartOK(c)' /\ (c \in TaskKeys => KeyOK(c)')
      BY <1>1, <2>1, <2>4, <2>5 DEF StartOK, KeyOK
    <2> QED BY <1>1, <2>1, <2>5, <2>6, OneStarts
  <1>3. CASE StartCreates(c)
    <2> DEFINE s == [at |-> "created", run |-> Len(taskRuns) + 1]
    <2>1. /\ starts[c].at = "fired" /\ starts' = [starts EXCEPT ![c] = s] /\ UNCHANGED runRequests
          /\ AddRun(starts[c].task, "running", c)
      BY <1>3 DEF StartCreates
    <2>2. starts[c].task \in Tasks
      BY <1>1, <2>1 DEF StartOK
    <2>3. /\ taskRuns' \in Seq(TaskRunType)
          /\ \A k : StartedBy(k)' = StartedBy(k) \cup (IF k = c THEN {Len(taskRuns) + 1} ELSE {})
      BY <2>1, <2>2, RowAdded
    <2>4. s.at = "created" /\ s = [at |-> "created", run |-> s.run] /\ s.run = Len(taskRuns) + 1
      OBVIOUS
    <2> HIDE DEF s
    <2>5. StartedBy(c)' = StartedBy(c) \cup {Len(taskRuns) + 1}
          /\ \A k \in Callers \ {c} : StartedBy(k)' = StartedBy(k)
      BY <2>3
    <2>6. c \in TaskKeys => StartedBy(c) = {} /\ runRequests[c] = "pending"
      BY <1>1, <2>1 DEF KeyOK
    <2>7. starts'[c] = s => StartOK(c)' /\ (c \in TaskKeys => KeyOK(c)')
      BY <2>1, <2>4, <2>5, <2>6 DEF StartOK, KeyOK
    <2> QED BY <1>1, <2>1, <2>3, <2>5, <2>7, OneStarts
  <1>4. CASE StartFails(c)
    <2>1. /\ starts[c].at = "fired" /\ starts' = [starts EXCEPT ![c] = IdleStart] /\ UNCHANGED taskRuns
          /\ runRequests' = [k \in TaskKeys |-> IF k = c THEN "none" ELSE runRequests[k]]
      BY <1>4 DEF StartFails, ReleasesKey
    <2>2. \A k : StartedBy(k)' = StartedBy(k)
      BY <2>1 DEF StartedBy
    <2>3. c \in TaskKeys => StartedBy(c) = {} /\ runRequests'[c] = "none"
      BY <1>1, <2>1 DEF KeyOK
    <2>4. starts'[c] = IdleStart => StartOK(c)' /\ (c \in TaskKeys => KeyOK(c)')
      BY <2>2, <2>3 DEF StartOK, KeyOK, IdleStart
    <2>5. runRequests' \in [TaskKeys -> {"none", "pending", "done"}]
          /\ \A k \in TaskKeys \ {c} : runRequests'[k] = runRequests[k]
      BY <1>1, <2>1
    <2> QED BY <1>1, <2>1, <2>2, <2>4, <2>5, OneStarts
  <1>5. CASE StartSpawns(c)
    <2>1. /\ starts[c].at = "created" /\ starts' = [starts EXCEPT ![c] = IdleStart] /\ UNCHANGED taskRuns
          /\ runRequests' = [k \in TaskKeys |-> IF k = c THEN "done" ELSE runRequests[k]]
      BY <1>5 DEF StartSpawns, AnswersKey
    <2>2. \A k : StartedBy(k)' = StartedBy(k)
      BY <2>1 DEF StartedBy
    <2>3. StartedBy(c) # {} /\ (c \in TaskKeys => runRequests'[c] = "done")
      BY <1>1, <2>1 DEF StartOK
    <2>4. starts'[c] = IdleStart => StartOK(c)' /\ (c \in TaskKeys => KeyOK(c)')
      BY <1>1, <2>2, <2>3 DEF StartOK, KeyOK, IdleStart
    <2>5. runRequests' \in [TaskKeys -> {"none", "pending", "done"}]
          /\ \A k \in TaskKeys \ {c} : runRequests'[k] = runRequests[k]
      BY <1>1, <2>1
    <2> QED BY <1>1, <2>1, <2>2, <2>4, <2>5, OneStarts
  <1> QED BY <1>2, <1>3, <1>4, <1>5 DEF StartStep

\* tasks.run reserves its key; the loop starts a task it has chosen.
LEMMA BeginningKeeps ==
    ASSUME TaskInv, NEW c \in Callers, NEW t \in Tasks, NEW kind,
           starts' = [starts EXCEPT ![c] = [at |-> "marked", task |-> t, kind |-> kind]],
           UNCHANGED taskRuns,
           c \in TaskKeys => runRequests[c] = "none",
           runRequests' = [k \in TaskKeys |-> IF k = c THEN "pending" ELSE runRequests[k]]
    PROVE  TaskInv'
  <1> USE KeysAreCallers
  <1> DEFINE s == [at |-> "marked", task |-> t, kind |-> kind]
  <1>1. s.at = "marked" /\ s = [at |-> s.at, task |-> s.task, kind |-> s.kind] /\ s.task \in Tasks
    OBVIOUS
  <1>2. starts' = [starts EXCEPT ![c] = s]
    OBVIOUS
  <1> HIDE DEF s
  <1>3. \A k : StartedBy(k)' = StartedBy(k)
    BY DEF StartedBy
  <1>4. c \in TaskKeys => KeyOK(c) /\ runRequests'[c] = "pending"
    BY DEF TaskInv
  <1>5. starts'[c] = s => StartOK(c)' /\ (c \in TaskKeys => KeyOK(c)')
    BY <1>1, <1>3, <1>4 DEF StartOK, KeyOK
  <1>6. runRequests' \in [TaskKeys -> {"none", "pending", "done"}] /\ taskRuns' \in Seq(TaskRunType)
        /\ \A k \in TaskKeys \ {c} : runRequests'[k] = runRequests[k]
    BY DEF TaskInv
  <1> QED BY <1>2, <1>3, <1>5, <1>6, OneStarts

LEMMA TaskCrashKeeps ==
    ASSUME TaskInv, TaskCrash
    PROVE  TaskInv'
  <1> USE KeysAreCallers
  <1>1. starts' = [c \in Callers |-> IdleStart] /\ UNCHANGED <<taskRuns, runRequests>>
    BY DEF TaskCrash
  <1>2. \A k : StartedBy(k)' = StartedBy(k)
    BY <1>1 DEF StartedBy
  <1>3. \A c \in Callers : starts'[c].at = "idle"
    BY <1>1 DEF IdleStart
  <1>4. \A c \in Callers : StartOK(c)'
    BY <1>3 DEF StartOK
  <1>5. ASSUME NEW k \in TaskKeys
        PROVE  KeyOK(k)'
    <2>1. KeyOK(k)
      BY DEF TaskInv
    <2> QED BY <1>1, <1>2, <1>3, <2>1 DEF KeyOK
  <1> QED BY <1>1, <1>4, <1>5 DEF TaskInv

\* The steps that only write a status, or nothing of this.
LEMMA QuietTaskKeeps ==
    ASSUME TaskInv, UNCHANGED <<starts, runRequests>>,
           \/ UNCHANGED taskRuns
           \/ \E r \in DOMAIN taskRuns, status \in EndedTaskRun : taskRuns' = [taskRuns EXCEPT ![r].status = status]
           \/ \E t \in Tasks : AddRun(t, "skipped", "schedule")
           \/ \E t \in Tasks : taskRuns' = [r \in DOMAIN taskRuns |->
                      IF taskRuns[r].task = t THEN [taskRuns[r] EXCEPT !.status = "deleted"]
                      ELSE taskRuns[r]]
    PROVE  TaskInv'
  <1> USE KeysAreCallers
  <1>1. CASE UNCHANGED taskRuns
    <2>1. \A k : StartedBy(k)' = StartedBy(k)
      BY <1>1 DEF StartedBy
    <2> QED BY <1>1, <2>1, NothingStarts DEF TaskInv
  <1>2. ASSUME NEW r \in DOMAIN taskRuns, NEW status \in EndedTaskRun,
               taskRuns' = [taskRuns EXCEPT ![r].status = status]
        PROVE  TaskInv'
    <2>1. taskRuns' = [q \in DOMAIN taskRuns |-> IF q \in {r} THEN [taskRuns[q] EXCEPT !.status = status]
                                                 ELSE taskRuns[q]]
      BY <1>2 DEF TaskInv
    <2> QED BY <2>1, RowsRelabelled, NothingStarts
  <1>3. ASSUME NEW t \in Tasks, AddRun(t, "skipped", "schedule")
        PROVE  TaskInv'
    <2>1. /\ taskRuns' \in Seq(TaskRunType)
          /\ \A k : StartedBy(k)' = StartedBy(k) \cup (IF k = "schedule" THEN {Len(taskRuns) + 1} ELSE {})
      BY <1>3, RowAdded DEF EndedTaskRun
    <2>2. \A k \in Callers : k # "schedule"
      BY DEF Callers
    <2> QED BY <2>1, <2>2, NothingStarts
  <1>4. ASSUME NEW t \in Tasks,
               taskRuns' = [r \in DOMAIN taskRuns |->
                      IF taskRuns[r].task = t THEN [taskRuns[r] EXCEPT !.status = "deleted"]
                      ELSE taskRuns[r]]
        PROVE  TaskInv'
    <2> DEFINE S == {r \in DOMAIN taskRuns : taskRuns[r].task = t}
    <2>1. taskRuns' = [r \in DOMAIN taskRuns |-> IF r \in S THEN [taskRuns[r] EXCEPT !.status = "deleted"]
                                                 ELSE taskRuns[r]]
      BY <1>4
    <2>2. "deleted" \in EndedTaskRun \cup {"running"} /\ S \in SUBSET DOMAIN taskRuns
      BY DEF EndedTaskRun
    <2> HIDE DEF S
    <2> QED BY <2>1, <2>2, RowsRelabelled, NothingStarts
  <1> QED BY <1>1, <1>2, <1>3, <1>4

LEMMA TaskStep ==
    ASSUME TaskInv, TaskNext \/ UNCHANGED taskVars
    PROVE  TaskInv'
  <1> USE KeysAreCallers
  <1>1. CASE UNCHANGED taskVars
    BY <1>1, QuietTaskKeeps DEF taskVars
  <1>2. CASE Elapse \/ TickReads \/ TickPlans \/ TickEnds
    BY <1>2, QuietTaskKeeps DEF Elapse, TickReads, TickPlans, TickEnds, taskMemory
  <1>3. ASSUME NEW t \in Tasks, TickSkips(t)
        PROVE  TaskInv'
    BY <1>3, QuietTaskKeeps DEF TickSkips, SkipFire
  <1>4. ASSUME NEW t \in Tasks, TickStarts(t)
        PROVE  TaskInv'
    <2>1. /\ starts' = [starts EXCEPT !["tick"] = [at |-> "marked", task |-> t, kind |-> tick.rows[t].kind]]
          /\ UNCHANGED <<taskRuns, runRequests>>
      BY <1>4 DEF TickStarts
    <2>2. runRequests' = [k \in TaskKeys |-> IF k = "tick" THEN "pending" ELSE runRequests[k]]
      BY <2>1 DEF TaskInv
    <2> QED BY <2>1, <2>2, BeginningKeeps
  <1>5. ASSUME NEW k \in TaskKeys, NEW t \in Tasks, RunNow(k, t)
        PROVE  TaskInv'
    <2>1. /\ starts' = [starts EXCEPT ![k] = [at |-> "marked", task |-> t, kind |-> task[t].kind]]
          /\ UNCHANGED taskRuns /\ runRequests[k] = "none"
          /\ runRequests' = [runRequests EXCEPT ![k] = "pending"]
      BY <1>5 DEF RunNow, ReservesKey
    <2>2. runRequests' = [j \in TaskKeys |-> IF j = k THEN "pending" ELSE runRequests[j]]
      BY <2>1 DEF TaskInv
    <2> QED BY <2>1, <2>2, BeginningKeeps
  <1>6. ASSUME NEW r \in DOMAIN taskRuns, DispatchStep(r) \/ StopSignals(r) \/ StopWrites(r)
        PROVE  TaskInv'
    <2>1. UNCHANGED <<starts, runRequests>>
      BY <1>6 DEF DispatchStep, DispatchFinishes, DispatchCounts, DispatchLeaves, StopSignals, StopWrites
    <2>2. \/ UNCHANGED taskRuns
          \/ \E status \in EndedTaskRun : taskRuns' = [taskRuns EXCEPT ![r].status = status]
      BY <1>6 DEF DispatchStep, DispatchFinishes, DispatchCounts, DispatchLeaves, StopSignals, StopWrites,
                  EndedTaskRun
    <2> QED BY <2>1, <2>2, QuietTaskKeeps
  <1>7. ASSUME NEW t \in Tasks, DeleteTask(t) \/ \E kind \in TaskKinds, on \in BOOLEAN : UpdateTask(t, kind, on)
        PROVE  TaskInv'
    BY <1>7, QuietTaskKeeps DEF DeleteTask, UpdateTask, taskMemory
  <1> QED BY <1>1, <1>2, <1>3, <1>4, <1>5, <1>6, <1>7, EnqueueKeeps, TaskCrashKeeps DEF TaskNext, TickStep

LEMMA TaskStart == TaskInit => TaskInv
  <1> SUFFICES ASSUME TaskInit PROVE TaskInv
    OBVIOUS
  <1>1. /\ taskRuns = <<>> /\ starts = [c \in Callers |-> IdleStart]
        /\ runRequests = [k \in TaskKeys |-> "none"]
    BY DEF TaskInit
  <1>2. \A k : StartedBy(k) = {}
    BY <1>1 DEF StartedBy
  <1>3. \A c \in Callers : starts[c].at = "idle"
    BY <1>1 DEF IdleStart
  <1> QED BY <1>1, <1>2, <1>3, KeysAreCallers DEF TaskInv, StartOK, KeyOK

\* Whatever is retried, refused, deleted or cut off by a crash, a key of tasks.run starts at
\* most one run, and one that was answered has started it (scheduler.rs: enqueue;
\* idempotency.rs: run_idempotent_async).
THEOREM KeysStartOneRun == TaskSpec => []KeyRunsOnce
  <1>1. TaskInv /\ [TaskNext]_taskVars => TaskInv'
    BY TaskStep
  <1>2. TaskInv => KeyRunsOnce
    <2> SUFFICES ASSUME TaskInv, NEW k \in TaskKeys
                 PROVE  /\ Cardinality(StartedBy(k)) <= 1
                        /\ runRequests[k] = "done" => StartedBy(k) # {}
      BY DEF KeyRunsOnce, StartedBy
    <2>1. KeyOK(k)
      BY DEF TaskInv
    <2>2. Cardinality(StartedBy(k)) <= 1
      <3>1. CASE StartedBy(k) = {}
        BY <3>1, FS_EmptySet
      <3>2. CASE StartedBy(k) # {}
        <4>1. PICK r : StartedBy(k) = {r}
          BY <2>1, <3>2 DEF KeyOK
        <4>2. Cardinality({r}) = 1
          BY FS_Singleton
        <4> QED BY <4>1, <4>2
      <3> QED BY <3>1, <3>2
    <2> QED BY <2>1, <2>2 DEF KeyOK
  <1> QED BY <1>1, <1>2, TaskStart, PTL DEF TaskSpec

-----------------------------------------------------------------------------
(* The legacy mirror *)

MirrorKinds == {"start", "text", "usage", "asked", "answered", "end"}
MirrorPlaces == {"idle", "entry", "progress", "spend", "finish", "mark", "close"}
LogEntries == [kind : MirrorKinds, copied : BOOLEAN]
Pairs == MirrorRuns \X Nat
TableRows == [exists : BOOLEAN, status : OpenStatus \cup ClosedStatus, finished : BOOLEAN, cursor : Nat]
Visits == [run : MirrorRuns, ended : BOOLEAN]
Room == 1..(MaxMirrored + 2)

MirrorTyped ==
    /\ logged \in [MirrorRuns -> Seq(LogEntries)]
    /\ phase \in [MirrorRuns -> {"none", "live", "ended", "rewound"}]
    /\ row \in [MirrorRuns -> TableRows]
    /\ counted \in [MirrorRuns -> [Room -> Nat]]
    /\ hand \in [Hands -> [at : MirrorPlaces, queue : Seq(Pairs)]]
    /\ sweepList \in Seq(Visits)

Over(r) == phase[r] \in {"ended", "rewound"}

\* The log of a run has its end when the run has, and fits the spend log's rows.
EndsLogged ==
    /\ \A r \in MirrorRuns : \A i \in 1..Len(logged[r]) : logged[r][i].kind = "end" => Over(r)
    /\ phase["turn"] # "none" /\ phase["seed"] \in {"none", "ended"}
    /\ Len(logged["turn"]) <= MaxMirrored + (IF Over("turn") THEN 1 ELSE 0)
    /\ Len(logged["seed"]) <= IF phase["seed"] = "none" THEN 0 ELSE 3

\* What a queue may name: an event of a log, or the closing of the row of a run that has ended.
Due(e) == e[2] <= Len(logged[e[1]]) /\ (e[2] = 0 => Over(e[1]))
\* Where a hand may be with the event it has in hand.
AtWork(e, at) ==
    /\ at = "close" <=> e[2] = 0
    /\ at = "finish" => logged[e[1]][e[2]].kind = "end"
    /\ at \in {"progress", "spend"} => ~logged[e[1]][e[2]].copied
    /\ at = "spend" => logged[e[1]][e[2]].kind = "usage"
HandOK(h) ==
    /\ \A p \in 1..Len(hand[h].queue) : Due(hand[h].queue[p])
    /\ hand[h].at # "idle" => hand[h].queue # <<>> /\ AtWork(hand[h].queue[1], hand[h].at)
HandsOK ==
    /\ \A h \in Hands : HandOK(h)
    /\ \A k \in 1..Len(sweepList) : sweepList[k].ended => Over(sweepList[k].run)

\* While nothing has met a projection half way: a model call is in one hand at most; it was counted
\* while it is at its mark, or its mark is set and nobody has it; and a sweep meets no other
\* hand with a model call.
IsUsage(e) == e[2] # 0 /\ logged[e[1]][e[2]].kind = "usage"
OnceHeld ==
    \A h, g \in Hands : \A p \in 1..Len(hand[h].queue), q \in 1..Len(hand[g].queue) :
        hand[h].queue[p] = hand[g].queue[q] /\ IsUsage(hand[h].queue[p]) => h = g /\ p = q
AtMark(r, i) == \E h \in Hands : hand[h].at = "mark" /\ hand[h].queue[1] = <<r, i>>
Unheld(r, i) == \A h \in Hands : \A p \in 1..Len(hand[h].queue) : hand[h].queue[p] # <<r, i>>
CountOK(r, i) ==
    counted[r][i] # 0 =>
        /\ counted[r][i] = 1 /\ i <= Len(logged[r])
        /\ ~logged[r][i].copied /\ logged[r][i].kind = "usage"
        /\ AtMark(r, i) \/ (i <= row[r].cursor /\ Unheld(r, i))
SweepAlone ==
    Sweeping => \A h \in {"executor", "request"} : \A p \in 1..Len(hand[h].queue) :
                    ~IsUsage(hand[h].queue[p])
CleanOK == OnceHeld /\ SweepAlone /\ \A r \in MirrorRuns : \A i \in Room : CountOK(r, i)

MirrorInv == MirrorTyped /\ EndsLogged /\ HandsOK /\ ClosedRowsStay /\ (clean => CleanOK)

-----------------------------------------------------------------------------
(* Hands *)

LEMMA HandTypes ==
    ASSUME MirrorTyped, NEW h \in Hands
    PROVE  /\ hand[h] \in [at : MirrorPlaces, queue : Seq(Pairs)]
           /\ hand[h].queue \in Seq(Pairs) /\ Len(hand[h].queue) \in Nat
           /\ hand[h].at \in MirrorPlaces
           /\ \A p \in 1..Len(hand[h].queue) : hand[h].queue[p] \in Pairs
           /\ hand[h].queue # <<>> => 1 \in 1..Len(hand[h].queue)
                                      /\ Current(h) = hand[h].queue[1] /\ Current(h) \in Pairs
  <1>1. hand[h] \in [at : MirrorPlaces, queue : Seq(Pairs)]
    BY DEF MirrorTyped
  <1>2. PICK q \in Seq(Pairs) : q = hand[h].queue
    BY <1>1
  <1>3. q # <<>> => 1 \in 1..Len(q) /\ Head(q) = q[1] /\ Head(q) \in Pairs
    BY <1>2
  <1> QED BY <1>1, <1>2, <1>3 DEF Current

OthersStay(h) == \A g \in Hands : g # h => hand'[g] = hand[g]

LEMMA Moves ==
    ASSUME MirrorTyped, NEW h \in Hands, NEW at \in MirrorPlaces, Proceeds(h, at)
    PROVE  /\ hand' \in [Hands -> [at : MirrorPlaces, queue : Seq(Pairs)]]
           /\ hand'[h].at = at /\ hand'[h].queue = hand[h].queue /\ OthersStay(h)
  BY DEF MirrorTyped, Proceeds, OthersStay

LEMMA Drops ==
    ASSUME MirrorTyped, NEW h \in Hands, NextUp(h), hand[h].queue # <<>>
    PROVE  /\ hand' \in [Hands -> [at : MirrorPlaces, queue : Seq(Pairs)]]
           /\ hand'[h].at = "idle" /\ Len(hand'[h].queue) = Len(hand[h].queue) - 1
           /\ \A p \in 1..Len(hand'[h].queue) : hand'[h].queue[p] = hand[h].queue[p + 1]
           /\ OthersStay(h)
  <1>1. PICK q \in Seq(Pairs) : q = hand[h].queue /\ q # <<>>
    BY HandTypes
  <1>2. Tail(q) \in Seq(Pairs) /\ Len(Tail(q)) = Len(q) - 1
        /\ \A p \in 1..Len(Tail(q)) : Tail(q)[p] = q[p + 1]
    BY <1>1
  <1>3. hand' = [hand EXCEPT ![h] = [at |-> "idle", queue |-> Tail(q)]]
    BY <1>1 DEF NextUp
  <1>4. hand'[h] = [at |-> "idle", queue |-> Tail(q)] /\ OthersStay(h)
    BY <1>3 DEF MirrorTyped, OthersStay
  <1>5. "idle" \in MirrorPlaces
    BY DEF MirrorPlaces
  <1>6. hand' \in [Hands -> [at : MirrorPlaces, queue : Seq(Pairs)]]
    BY <1>2, <1>3, <1>5 DEF MirrorTyped
  <1> QED BY <1>1, <1>2, <1>4, <1>6

LEMMA Gives ==
    ASSUME MirrorTyped, NEW h \in Hands, NEW new \in Seq(Pairs), Given(h, new),
           hand[h].queue = <<>>
    PROVE  /\ hand' \in [Hands -> [at : MirrorPlaces, queue : Seq(Pairs)]]
           /\ hand'[h].at = hand[h].at /\ hand'[h].queue = new /\ OthersStay(h)
  <1>1. hand[h].queue \o new = new
    BY ConcatEmptySeq
  <1>2. hand' = [hand EXCEPT ![h].queue = new]
    BY <1>1 DEF Given
  <1> QED BY <1>2 DEF MirrorTyped, OthersStay

-----------------------------------------------------------------------------
(* What may grow *)

LogGrown ==
    /\ \A r \in MirrorRuns : /\ Len(logged[r]) <= Len(logged'[r])
                             /\ \A i \in 1..Len(logged[r]) : logged'[r][i] = logged[r][i]
                             /\ Over(r) => Over(r)'

LEMMA DueStays ==
    ASSUME MirrorTyped, MirrorTyped', LogGrown, NEW e \in Pairs, Due(e)
    PROVE  /\ Due(e)' /\ (IsUsage(e)' <=> IsUsage(e))
           /\ \A at : AtWork(e, at) => AtWork(e, at)'
  <1>1. e[1] \in MirrorRuns /\ e[2] \in Nat
    BY DEF Pairs
  <1>2. PICK r \in MirrorRuns, i \in Nat : r = e[1] /\ i = e[2]
    BY <1>1
  <1>3. Len(logged[r]) \in Nat /\ Len(logged'[r]) \in Nat /\ Len(logged[r]) <= Len(logged'[r])
        /\ i <= Len(logged[r])
    BY <1>2 DEF MirrorTyped, LogGrown, Due
  <1>4. i # 0 => logged'[r][i] = logged[r][i]
    BY <1>3 DEF LogGrown
  <1>5. Due(e)'
    BY <1>2, <1>3 DEF LogGrown, Due
  <1>6. IsUsage(e)' <=> IsUsage(e)
    BY <1>2, <1>4 DEF IsUsage
  <1>7. ASSUME NEW at, AtWork(e, at)
        PROVE  AtWork(e, at)'
    <2>1. CASE i = 0
      BY <1>2, <1>7, <2>1 DEF AtWork
    <2>2. CASE i # 0
      BY <1>2, <1>4, <1>7, <2>2 DEF AtWork
    <2> QED BY <2>1, <2>2
  <1> QED BY <1>5, <1>6, <1>7

LEMMA HandStays ==
    ASSUME MirrorTyped, MirrorTyped', LogGrown, NEW h \in Hands, HandOK(h), hand'[h] = hand[h]
    PROVE  HandOK(h)'
  <1>1. \A p \in 1..Len(hand[h].queue) : hand[h].queue[p] \in Pairs /\ Due(hand[h].queue[p])
    BY HandTypes DEF HandOK
  <1>2. \A p \in 1..Len(hand[h].queue) : Due(hand[h].queue[p])'
    BY <1>1, DueStays
  <1>3. CASE hand[h].at = "idle"
    BY <1>2, <1>3 DEF HandOK
  <1>4. CASE hand[h].at # "idle"
    <2>1. 1 \in 1..Len(hand[h].queue) /\ AtWork(hand[h].queue[1], hand[h].at)
      BY <1>4, HandTypes DEF HandOK
    <2>2. AtWork(hand[h].queue[1], hand[h].at)'
      BY <1>1, <2>1, DueStays
    <2> QED BY <1>2, <1>4, <2>2 DEF HandOK
  <1> QED BY <1>3, <1>4

-----------------------------------------------------------------------------
(* The steps of a projection *)

ProjectStep(h) ==
    \/ Opens(h) \/ Enters(h) \/ Progresses(h) \/ Spends(h) \/ Finishes(h) \/ RaisesMark(h)
    \/ Slips(h) \/ ClosingStarts(h) \/ ClosingEnds(h)

\* The event in hand is given up, or is done with its mark set ...
Leaves(h) ==
    /\ hand[h].queue # <<>> /\ NextUp(h) /\ UNCHANGED counted
    /\ clean' => clean
    /\ clean' /\ hand[h].at = "mark" => Current(h)[2] <= row'[Current(h)[1]].cursor
\* ... or goes on, and may be counted on the way to the mark.
Counts(h) ==
    /\ hand[h].at = "spend"
    /\ counted' = [counted EXCEPT ![Current(h)[1]][Current(h)[2]] = @ + 1]
GoesOn(h, at) ==
    /\ hand[h].queue # <<>> /\ Proceeds(h, at) /\ hand[h].at # "mark" /\ UNCHANGED clean
    /\ at # "idle" => AtWork(Current(h), at)
    /\ UNCHANGED counted \/ (Counts(h) /\ at = "mark")
\* Rows keep their end and their marks.
RowsGrow ==
    /\ row' \in [MirrorRuns -> TableRows]
    /\ \A r \in MirrorRuns : row[r].cursor <= row'[r].cursor
    /\ \A r \in MirrorRuns : row'[r].finished => Over(r) /\ row'[r].status \in ClosedStatus

LEMMA RowsKept ==
    ASSUME MirrorTyped, ClosedRowsStay, UNCHANGED row
    PROVE  RowsGrow
  <1>1. \A r \in MirrorRuns : row[r] \in TableRows
    BY DEF MirrorTyped
  <1>2. \A r \in MirrorRuns : row[r].cursor \in Nat
    BY <1>1 DEF TableRows
  <1> QED BY <1>2 DEF RowsGrow, MirrorTyped, ClosedRowsStay, Over

\* A write to the row of one run.
LEMMA RowWritten ==
    ASSUME MirrorTyped, ClosedRowsStay, NEW r \in MirrorRuns, NEW new \in TableRows,
           row' = [row EXCEPT ![r] = new], row[r].cursor <= new.cursor,
           new.finished => Over(r) /\ new.status \in ClosedStatus
    PROVE  RowsGrow
  <1>1. \A x \in MirrorRuns : row[x] \in TableRows
    BY DEF MirrorTyped
  <1>2. \A x \in MirrorRuns : row[x].cursor \in Nat
    BY <1>1 DEF TableRows
  <1>3. row' \in [MirrorRuns -> TableRows] /\ \A x \in MirrorRuns : row'[x] = IF x = r THEN new ELSE row[x]
    BY DEF MirrorTyped
  <1>4. \A x \in MirrorRuns : row[x].cursor <= row'[x].cursor
    BY <1>2, <1>3
  <1>5. \A x \in MirrorRuns : row'[x].finished => Over(x) /\ row'[x].status \in ClosedStatus
    BY <1>3 DEF ClosedRowsStay, Over
  <1> QED BY <1>3, <1>4, <1>5 DEF RowsGrow

\* A hand that works has an event of a run's log in hand, or the closing of its row.
LEMMA InHand ==
    ASSUME MirrorTyped, EndsLogged, HandsOK, NEW h \in Hands, hand[h].at # "idle"
    PROVE  /\ hand[h].queue # <<>> /\ Current(h) \in Pairs /\ Current(h) = hand[h].queue[1]
           /\ Current(h)[1] \in MirrorRuns /\ Current(h)[2] \in Nat
           /\ row[Current(h)[1]] \in TableRows
           /\ AtWork(Current(h), hand[h].at) /\ Due(Current(h))
           /\ Current(h)[2] # 0 => Current(h)[2] \in 1..Len(logged[Current(h)[1]])
                                   /\ CurrentEvent(h) = logged[Current(h)[1]][Current(h)[2]]
  <1>1. hand[h].queue # <<>> /\ AtWork(hand[h].queue[1], hand[h].at)
    BY DEF HandsOK, HandOK
  <1>2. Current(h) \in Pairs /\ Current(h) = hand[h].queue[1] /\ 1 \in 1..Len(hand[h].queue)
    BY <1>1, HandTypes
  <1>3. Due(Current(h))
    BY <1>2 DEF HandsOK, HandOK
  <1>4. Current(h)[1] \in MirrorRuns /\ Current(h)[2] \in Nat
    BY <1>2 DEF Pairs
  <1>5. Len(logged[Current(h)[1]]) \in Nat
    BY <1>4 DEF MirrorTyped
  <1>6. Current(h)[2] <= Len(logged[Current(h)[1]])
    BY <1>3 DEF Due
  <1>7. row[Current(h)[1]] \in TableRows
    BY <1>4 DEF MirrorTyped
  <1> QED BY <1>1, <1>2, <1>3, <1>4, <1>5, <1>6, <1>7 DEF CurrentEvent

LEMMA ProjectEffects ==
    ASSUME MirrorTyped, EndsLogged, HandsOK, ClosedRowsStay, NEW h \in Hands, ProjectStep(h)
    PROVE  /\ UNCHANGED <<logVars, sweepList>> /\ RowsGrow
           /\ Leaves(h) \/ \E at \in MirrorPlaces : GoesOn(h, at)
  <1> DEFINE r == Current(h)[1]
             seq == Current(h)[2]
  <1>0. UNCHANGED logVars /\ UNCHANGED sweepList
    BY DEF ProjectStep, Opens, Enters, Progresses, Spends, Finishes, RaisesMark, Slips,
           ClosingStarts, ClosingEnds, logVars
  <1>1. CASE Opens(h)
    <2>1. hand[h].queue # <<>> /\ hand[h].at = "idle" /\ UNCHANGED <<counted, clean>> /\ seq # 0
      BY <1>1 DEF Opens, MayProject, rowVars
    <2>2. Current(h) \in Pairs /\ r \in MirrorRuns /\ seq \in Nat
      BY <2>1, HandTypes DEF Pairs
    <2>3. RowsGrow
      <3>1. CASE UNCHANGED row
        BY <3>1, RowsKept
      <3>2. CASE row' = [row EXCEPT ![r].exists = TRUE]
        <4>1. row[r] \in TableRows
          BY <2>2 DEF MirrorTyped
        <4>2. PICK new : new = [row[r] EXCEPT !.exists = TRUE]
          OBVIOUS
        <4>3. new \in TableRows /\ new.cursor = row[r].cursor /\ new.finished = row[r].finished
              /\ new.status = row[r].status /\ row[r].cursor \in Nat
          BY <4>1, <4>2 DEF TableRows
        <4>4. row' = [row EXCEPT ![r] = new]
          BY <3>2, <4>2
        <4>5. row[r].cursor <= new.cursor
          BY <4>3
        <4>6. new.finished => Over(r) /\ new.status \in ClosedStatus
          BY <2>2, <4>3 DEF ClosedRowsStay, Over
        <4> HIDE DEF r
        <4> QED BY <2>2, <4>3, <4>4, <4>5, <4>6, RowWritten
      <3> QED BY <1>1, <3>1, <3>2 DEF Opens, rowVars
    <2>4. AtWork(Current(h), "entry") /\ "entry" \in MirrorPlaces
      BY <2>1 DEF AtWork, MirrorPlaces
    <2>5. NextUp(h) \/ Proceeds(h, "entry")
      BY <1>1 DEF Opens
    <2>6. Leaves(h) \/ GoesOn(h, "entry")
      BY <2>1, <2>4, <2>5 DEF Leaves, GoesOn
    <2> QED BY <1>0, <2>3, <2>4, <2>6
  <1>2. CASE Enters(h)
    <2>1. hand[h].at = "entry" /\ UNCHANGED <<row, counted, clean>>
      BY <1>2 DEF Enters
    <2>2. PICK at : /\ Proceeds(h, at)
                    /\ at = CASE CurrentEvent(h).copied \/ CurrentEvent(h).kind = "text" -> "mark"
                              [] CurrentEvent(h).kind = "end" -> "finish"
                              [] OTHER -> "progress"
      BY <1>2 DEF Enters
    <2>3. seq # 0
      BY <2>1, InHand DEF AtWork
    <2>4. \/ at = "mark"
          \/ at = "finish" /\ CurrentEvent(h).kind = "end"
          \/ at = "progress" /\ ~CurrentEvent(h).copied
      BY <2>2
    <2>5. CurrentEvent(h) = logged[r][seq]
      BY <2>1, <2>3, InHand
    <2>6. at \in MirrorPlaces /\ AtWork(Current(h), at)
      BY <2>3, <2>4, <2>5 DEF AtWork, MirrorPlaces
    <2>7. GoesOn(h, at)
      BY <2>1, <2>2, <2>6, InHand DEF GoesOn
    <2> QED BY <1>0, <2>1, <2>6, <2>7, RowsKept
  <1>3. CASE Progresses(h)
    <2>1. hand[h].at = "progress" /\ UNCHANGED <<counted, clean>>
      BY <1>3 DEF Progresses
    <2>2. PICK at \in {"spend", "mark"} :
             Proceeds(h, at) /\ (at = "spend" => CurrentEvent(h).kind = "usage")
      BY <1>3 DEF Progresses
    <2>3. seq # 0 /\ ~logged[r][seq].copied
      BY <2>1, InHand DEF AtWork
    <2>4. CurrentEvent(h) = logged[r][seq]
      BY <2>1, <2>3, InHand
    <2>5. at \in MirrorPlaces /\ AtWork(Current(h), at)
      BY <2>2, <2>3, <2>4 DEF AtWork, MirrorPlaces
    <2>6. GoesOn(h, at)
      BY <2>1, <2>2, <2>5, InHand DEF GoesOn
    <2>7. RowsGrow
      <3>1. CASE row[r].finished
        <4>1. UNCHANGED row
          BY <1>3, <3>1 DEF Progresses
        <4> QED BY <4>1, RowsKept
      <3>2. CASE ~row[r].finished
        <4>1. PICK status : /\ row' = [row EXCEPT ![r].status = status]
                            /\ status \in {"awaiting_approval", "running", row[r].status}
          BY <1>3, <3>2 DEF Progresses
        <4>2. r \in MirrorRuns /\ row[r] \in TableRows
          BY <2>1, InHand
        <4>3. PICK new : new = [row[r] EXCEPT !.status = status]
          OBVIOUS
        <4>4. status \in OpenStatus \cup ClosedStatus
          BY <4>1, <4>2 DEF TableRows, OpenStatus
        <4>5. new \in TableRows /\ row[r].cursor <= new.cursor /\ ~new.finished
          BY <3>2, <4>2, <4>3, <4>4 DEF TableRows
        <4>6. row' = [row EXCEPT ![r] = new]
          BY <4>1, <4>3
        <4> HIDE DEF r
        <4> QED BY <4>2, <4>5, <4>6, RowWritten
      <3> QED BY <3>1, <3>2
    <2> QED BY <1>0, <2>5, <2>6, <2>7
  <1>4. CASE Spends(h)
    <2>1. hand[h].at = "spend" /\ UNCHANGED <<row, clean>> /\ Proceeds(h, "mark") /\ Counts(h)
      BY <1>4 DEF Spends, Counts
    <2>2. AtWork(Current(h), "mark") /\ "mark" \in MirrorPlaces
      BY <2>1, InHand DEF AtWork, MirrorPlaces
    <2>3. GoesOn(h, "mark")
      BY <2>1, <2>2, InHand DEF GoesOn
    <2> QED BY <1>0, <2>1, <2>2, <2>3, RowsKept
  <1>5. ASSUME NEW status \in ClosedStatus, Over(r), hand[h].at # "idle", Closed(r, status)
        PROVE  RowsGrow
    <2>1. r \in MirrorRuns /\ row[r] \in TableRows
      BY <1>5, InHand
    <2>2. PICK new : new = [row[r] EXCEPT !.status = status, !.finished = TRUE]
      OBVIOUS
    <2>3. new \in TableRows /\ row[r].cursor <= new.cursor /\ new.status = status
      <3>1. PICK old \in TableRows : old = row[r]
        BY <2>1
      <3>2. new \in TableRows /\ new.cursor = old.cursor /\ new.status = status
        BY <2>2, <3>1 DEF TableRows
      <3>3. old.cursor \in Nat
        BY DEF TableRows
      <3> QED BY <3>1, <3>2, <3>3
    <2>4. row' = [row EXCEPT ![r] = new]
      BY <1>5, <2>2 DEF Closed
    <2> HIDE DEF r
    <2> QED BY <1>5, <2>1, <2>3, <2>4, RowWritten
  <1>6. CASE Finishes(h)
    <2>1. hand[h].at = "finish" /\ UNCHANGED <<counted, clean>> /\ Proceeds(h, "mark")
          /\ Closed(r, "completed")
      BY <1>6 DEF Finishes
    <2>2. seq # 0 /\ logged[r][seq].kind = "end" /\ AtWork(Current(h), "mark") /\ "mark" \in MirrorPlaces
      BY <2>1, InHand DEF AtWork, MirrorPlaces
    <2>3. Over(r)
      BY <2>1, <2>2, InHand DEF EndsLogged
    <2>4. GoesOn(h, "mark")
      BY <2>1, <2>2, InHand DEF GoesOn
    <2>5. "completed" \in ClosedStatus
      BY DEF ClosedStatus
    <2> QED BY <1>0, <1>5, <2>1, <2>2, <2>3, <2>4, <2>5
  <1>7. CASE RaisesMark(h)
    <2>1. hand[h].at = "mark" /\ UNCHANGED <<counted, clean>> /\ NextUp(h)
          /\ row' = [row EXCEPT ![r].cursor = IF seq > row[r].cursor THEN seq ELSE row[r].cursor]
      BY <1>7 DEF RaisesMark
    <2>2. r \in MirrorRuns /\ row[r] \in TableRows /\ seq \in Nat /\ hand[h].queue # <<>>
      BY <2>1, InHand
    <2>3. PICK new : new = [row[r] EXCEPT !.cursor = IF seq > row[r].cursor THEN seq ELSE row[r].cursor]
      OBVIOUS
    <2>4. new \in TableRows /\ row[r].cursor <= new.cursor /\ seq <= new.cursor
          /\ new.finished = row[r].finished /\ new.status = row[r].status
      BY <2>2, <2>3 DEF TableRows
    <2>5. row' = [row EXCEPT ![r] = new]
      BY <2>1, <2>3
    <2>6. new.finished => Over(r) /\ new.status \in ClosedStatus
      BY <2>2, <2>4 DEF ClosedRowsStay, Over
    <2>7. row'[r] = new
      BY <2>2, <2>5 DEF MirrorTyped
    <2>8. RowsGrow
      <3> HIDE DEF r
      <3> QED BY <2>2, <2>4, <2>5, <2>6, RowWritten
    <2>9. Leaves(h)
      BY <2>1, <2>2, <2>4, <2>7 DEF Leaves
    <2> QED BY <1>0, <2>8, <2>9
  <1>8. CASE Slips(h)
    <2>1. hand[h].queue # <<>> /\ NextUp(h) /\ clean' = FALSE /\ UNCHANGED <<row, counted>>
      BY <1>8 DEF Slips, rowVars
    <2>2. Leaves(h)
      BY <2>1 DEF Leaves
    <2> QED BY <1>0, <2>1, <2>2, RowsKept
  <1>9. CASE ClosingStarts(h)
    <2>1. hand[h].at = "idle" /\ hand[h].queue # <<>> /\ seq = 0 /\ UNCHANGED <<row, counted, clean>>
      BY <1>9 DEF ClosingStarts, MayProject
    <2>2. NextUp(h) \/ Proceeds(h, "close")
      BY <1>9 DEF ClosingStarts
    <2>3. AtWork(Current(h), "close") /\ "close" \in MirrorPlaces
      BY <2>1 DEF AtWork, MirrorPlaces
    <2>4. Leaves(h) \/ GoesOn(h, "close")
      BY <2>1, <2>2, <2>3 DEF Leaves, GoesOn
    <2> QED BY <1>0, <2>1, <2>3, <2>4, RowsKept
  <1>10. CASE ClosingEnds(h)
    <2>1. hand[h].at = "close" /\ UNCHANGED <<counted, clean>> /\ NextUp(h)
      BY <1>10 DEF ClosingEnds
    <2>2. PICK status \in ClosedStatus : Closed(r, status)
      <3>1. {"completed"} \subseteq ClosedStatus /\ {"cancelled"} \subseteq ClosedStatus
        BY DEF ClosedStatus
      <3> QED BY <1>10, <3>1 DEF ClosingEnds
    <2>3. seq = 0 /\ Due(Current(h))
      BY <2>1, InHand DEF AtWork
    <2>4. Over(r)
      BY <2>3 DEF Due
    <2>5. RowsGrow
      BY <1>5, <2>1, <2>2, <2>4
    <2>6. Leaves(h)
      BY <2>1, InHand DEF Leaves
    <2> QED BY <1>0, <2>5, <2>6
  <1> QED BY <1>1, <1>2, <1>3, <1>4, <1>6, <1>7, <1>8, <1>9, <1>10 DEF ProjectStep

-----------------------------------------------------------------------------
(* What a projection keeps *)

\* Nothing is handed out: what is still in a queue was there before, in the same order.
Shorter ==
    \A g \in Hands : \E d \in Nat : \A p \in 1..Len(hand'[g].queue) :
        p + d \in 1..Len(hand[g].queue) /\ hand'[g].queue[p] = hand[g].queue[p + d]

LEMMA OnceFrom ==
    ASSUME \A h, g \in Hands : \A p \in 1..Len(hand'[h].queue), q \in 1..Len(hand'[g].queue) :
              \A e : e = hand'[h].queue[p] /\ e = hand'[g].queue[q] /\ IsUsage(e)' => h = g /\ p = q
    PROVE  OnceHeld'
  <1> SUFFICES ASSUME NEW h \in Hands, NEW g \in Hands,
                      NEW p \in 1..Len(hand'[h].queue), NEW q \in 1..Len(hand'[g].queue),
                      (hand[h].queue[p] = hand[g].queue[q] /\ IsUsage(hand[h].queue[p]))'
               PROVE  h = g /\ p = q
    BY DEF OnceHeld
  <1>1. PICK e : e = hand'[h].queue[p]
    OBVIOUS
  <1>2. e = hand'[g].queue[q] /\ IsUsage(e)'
    BY <1>1 DEF IsUsage
  <1> QED BY <1>1, <1>2

LEMMA OnceStays ==
    ASSUME MirrorTyped, MirrorTyped', HandsOK, LogGrown, Shorter, OnceHeld
    PROVE  OnceHeld'
  <1> SUFFICES ASSUME NEW h \in Hands, NEW g \in Hands,
                      NEW p \in 1..Len(hand'[h].queue), NEW q \in 1..Len(hand'[g].queue),
                      NEW e, e = hand'[h].queue[p], e = hand'[g].queue[q], IsUsage(e)'
               PROVE  h = g /\ p = q
    BY OnceFrom
  <1>1. PICK d \in Nat : p + d \in 1..Len(hand[h].queue) /\ e = hand[h].queue[p + d]
    BY DEF Shorter
  <1>2. PICK b \in Nat : /\ \A k \in 1..Len(hand'[g].queue) :
                              k + b \in 1..Len(hand[g].queue) /\ hand'[g].queue[k] = hand[g].queue[k + b]
    BY DEF Shorter
  <1>3. e \in Pairs /\ Due(e)
    BY <1>1, HandTypes DEF HandsOK, HandOK
  <1>4. IsUsage(e)
    BY <1>3, DueStays
  <1>5. q + b \in 1..Len(hand[g].queue) /\ e = hand[g].queue[q + b]
    BY <1>2
  <1>6. h = g /\ p + d = q + b
    BY <1>1, <1>4, <1>5 DEF OnceHeld
  <1>7. p + b \in 1..Len(hand[h].queue) /\ e = hand[h].queue[p + b]
    BY <1>2, <1>6
  <1>8. p + b = p + d
    BY <1>1, <1>4, <1>7 DEF OnceHeld
  <1>9. p \in Nat /\ q \in Nat
    <2>1. Len(hand'[h].queue) \in Nat /\ Len(hand'[g].queue) \in Nat
      BY DEF MirrorTyped
    <2> QED BY <2>1
  <1> QED BY <1>6, <1>8, <1>9

LEMMA UnheldStays ==
    ASSUME Shorter, NEW r, NEW i, Unheld(r, i)
    PROVE  Unheld(r, i)'
  <1> SUFFICES ASSUME NEW g \in Hands, NEW p \in 1..Len(hand'[g].queue)
               PROVE  hand'[g].queue[p] # <<r, i>>
    BY DEF Unheld
  <1>1. PICK d \in Nat : p + d \in 1..Len(hand[g].queue) /\ hand'[g].queue[p] = hand[g].queue[p + d]
    BY DEF Shorter
  <1> QED BY <1>1 DEF Unheld

LEMMA SweepAloneStays ==
    ASSUME MirrorTyped, MirrorTyped', HandsOK, LogGrown, Shorter, SweepAlone, Sweeping' => Sweeping
    PROVE  SweepAlone'
  <1> SUFFICES ASSUME Sweeping, NEW h \in {"executor", "request"}, NEW p \in 1..Len(hand'[h].queue),
                      NEW e, e = hand'[h].queue[p]
               PROVE  ~IsUsage(e)'
    BY DEF SweepAlone, IsUsage
  <1>1. h \in Hands
    BY DEF Hands
  <1>2. PICK d \in Nat : p + d \in 1..Len(hand[h].queue) /\ e = hand[h].queue[p + d]
    BY <1>1 DEF Shorter
  <1>3. e \in Pairs /\ Due(e)
    BY <1>1, <1>2, HandTypes DEF HandsOK, HandOK
  <1>4. ~IsUsage(e)
    BY <1>2 DEF SweepAlone
  <1> QED BY <1>3, <1>4, DueStays

LEMMA SameLogGrown ==
    ASSUME MirrorTyped, UNCHANGED logVars
    PROVE  LogGrown
  <1>1. \A r \in MirrorRuns : Len(logged[r]) \in Nat
    BY DEF MirrorTyped
  <1> QED BY <1>1 DEF LogGrown, logVars, Over

\* The count of an event that a step leaves alone.
LEMMA CountStays ==
    ASSUME MirrorTyped, MirrorTyped', LogGrown, Shorter, NEW r \in MirrorRuns, NEW i \in Room,
           CountOK(r, i), counted'[r][i] = counted[r][i], row[r].cursor <= row'[r].cursor,
           AtMark(r, i) => AtMark(r, i)' \/ (i <= row'[r].cursor /\ Unheld(r, i)')
    PROVE  CountOK(r, i)'
  <1> SUFFICES ASSUME counted[r][i] # 0 PROVE CountOK(r, i)'
    BY DEF CountOK
  <1>1. i \in Nat /\ i # 0 /\ Len(logged[r]) \in Nat /\ Len(logged'[r]) \in Nat
        /\ row[r].cursor \in Nat /\ row'[r].cursor \in Nat
    <2>1. i \in Nat /\ i # 0
      BY MirrorAssumption DEF Room
    <2>2. row[r] \in TableRows /\ row'[r] \in TableRows
      BY DEF MirrorTyped
    <2> QED BY <2>1, <2>2 DEF MirrorTyped, TableRows
  <1>2. /\ counted[r][i] = 1 /\ i <= Len(logged[r])
        /\ ~logged[r][i].copied /\ logged[r][i].kind = "usage"
        /\ AtMark(r, i) \/ (i <= row[r].cursor /\ Unheld(r, i))
    BY DEF CountOK
  <1>3. logged'[r][i] = logged[r][i] /\ i <= Len(logged'[r])
    BY <1>1, <1>2 DEF LogGrown
  <1>4. CASE AtMark(r, i)
    BY <1>2, <1>3, <1>4 DEF CountOK
  <1>5. CASE i <= row[r].cursor /\ Unheld(r, i)
    <2>1. i <= row'[r].cursor /\ Unheld(r, i)'
      BY <1>1, <1>5, UnheldStays
    <2> QED BY <1>2, <1>3, <2>1 DEF CountOK
  <1> QED BY <1>2, <1>4, <1>5

LEMMA LeavesKeeps ==
    ASSUME MirrorInv, NEW h \in Hands, Leaves(h), UNCHANGED <<logVars, sweepList>>, RowsGrow
    PROVE  MirrorInv'
  <1> USE DEF logVars
  <1>0. MirrorTyped /\ EndsLogged /\ HandsOK /\ ClosedRowsStay /\ (clean => CleanOK)
    BY DEF MirrorInv
  <1>1. /\ hand' \in [Hands -> [at : MirrorPlaces, queue : Seq(Pairs)]]
        /\ hand'[h].at = "idle" /\ Len(hand'[h].queue) = Len(hand[h].queue) - 1
        /\ \A p \in 1..Len(hand'[h].queue) : hand'[h].queue[p] = hand[h].queue[p + 1]
        /\ OthersStay(h)
    BY <1>0, Drops DEF Leaves
  <1>2. MirrorTyped'
    BY <1>0, <1>1 DEF MirrorTyped, Leaves, RowsGrow
  <1>3. LogGrown
    BY <1>0, SameLogGrown
  <1>4. \A p \in 1..Len(hand'[h].queue) : p + 1 \in 1..Len(hand[h].queue)
    BY <1>0, <1>1, HandTypes
  <1>5. Shorter
    <2> SUFFICES ASSUME NEW g \in Hands
                 PROVE  \E d \in Nat : \A p \in 1..Len(hand'[g].queue) :
                           p + d \in 1..Len(hand[g].queue) /\ hand'[g].queue[p] = hand[g].queue[p + d]
      BY DEF Shorter
    <2>1. CASE g = h
      BY <1>1, <1>4, <2>1
    <2>2. CASE g # h
      <3>1. hand'[g] = hand[g]
        BY <1>1, <2>2 DEF OthersStay
      <3>2. \A p \in 1..Len(hand[g].queue) : p + 0 = p
        BY <1>0, HandTypes
      <3> QED BY <3>1, <3>2
    <2> QED BY <2>1, <2>2
  <1>6. HandsOK'
    <2>1. ASSUME NEW g \in Hands, g # h PROVE HandOK(g)'
      <3>1. hand'[g] = hand[g] /\ HandOK(g)
        BY <1>0, <1>1, <2>1 DEF OthersStay, HandsOK
      <3> QED BY <1>0, <1>2, <1>3, <3>1, HandStays
    <2>2. HandOK(h)'
      <3>1. ASSUME NEW p \in 1..Len(hand'[h].queue) PROVE Due(hand[h].queue[p + 1])
        BY <1>0, <1>4 DEF HandsOK, HandOK
      <3> QED BY <1>1, <3>1 DEF HandOK, Due, Over
    <2>3. (\A k \in 1..Len(sweepList) : sweepList[k].ended => Over(sweepList[k].run))'
      BY <1>0 DEF HandsOK, Over
    <2> QED BY <2>1, <2>2, <2>3 DEF HandsOK
  <1>7. Sweeping' => Sweeping
    <2>1. CASE h = "sweep"
      <3>1. ~Resting("sweep")
        BY <2>1 DEF Leaves, Resting
      <3> QED BY <3>1 DEF Sweeping
    <2>2. CASE h # "sweep"
      <3>1. hand'["sweep"] = hand["sweep"]
        BY <1>1, <2>2 DEF OthersStay, Hands
      <3> QED BY <3>1 DEF Sweeping, Resting
    <2> QED BY <2>1, <2>2
  <1>8. ASSUME clean'
        PROVE  CleanOK'
    <2>1. clean /\ CleanOK
      BY <1>0, <1>8 DEF Leaves
    <2>2. OnceHeld' /\ SweepAlone'
      BY <1>0, <1>2, <1>3, <1>5, <1>7, <2>1, OnceStays, SweepAloneStays DEF CleanOK
    <2>3. ASSUME NEW r \in MirrorRuns, NEW i \in Room
          PROVE  CountOK(r, i)'
      <3>1. CountOK(r, i) /\ counted'[r][i] = counted[r][i] /\ row[r].cursor <= row'[r].cursor
        BY <2>1 DEF CleanOK, Leaves, RowsGrow
      <3>2. ASSUME AtMark(r, i), counted[r][i] # 0
            PROVE  AtMark(r, i)' \/ (i <= row'[r].cursor /\ Unheld(r, i)')
        <4>1. PICK g \in Hands : hand[g].at = "mark" /\ hand[g].queue[1] = <<r, i>>
          BY <3>2 DEF AtMark
        <4>2. CASE g # h
          BY <1>1, <4>1, <4>2 DEF AtMark, OthersStay
        <4>3. CASE g = h
          <5>1. hand[h].queue # <<>> /\ Current(h) = <<r, i>> /\ 1 \in 1..Len(hand[h].queue)
            BY <1>0, <4>1, <4>3, HandTypes DEF Leaves
          <5>2. i <= row'[r].cursor
            BY <1>8, <4>1, <4>3, <5>1 DEF Leaves
          <5>3. IsUsage(<<r, i>>)
            <6>1. i # 0
              BY MirrorAssumption DEF Room
            <6> QED BY <3>1, <3>2, <6>1 DEF CountOK, IsUsage
          <5>4. ASSUME NEW f \in Hands, NEW p \in 1..Len(hand'[f].queue), hand'[f].queue[p] = <<r, i>>
                PROVE  FALSE
            <6>1. CASE f = h
              <7>1. p + 1 \in 1..Len(hand[h].queue) /\ hand[h].queue[p + 1] = <<r, i>>
                BY <1>1, <1>4, <5>4, <6>1
              <7>2. p + 1 = 1
                BY <2>1, <4>1, <4>3, <5>1, <5>3, <7>1 DEF CleanOK, OnceHeld
              <7>3. p \in Nat /\ p # 0
                BY <1>2, <5>4 DEF MirrorTyped
              <7> QED BY <7>2, <7>3
            <6>2. CASE f # h
              <7>1. p \in 1..Len(hand[f].queue) /\ hand[f].queue[p] = <<r, i>>
                BY <1>1, <5>4, <6>2 DEF OthersStay
              <7>2. f = h
                BY <2>1, <4>1, <4>3, <5>1, <5>3, <7>1 DEF CleanOK, OnceHeld
              <7> QED BY <6>2, <7>2
            <6> QED BY <6>1, <6>2
          <5> QED BY <5>2, <5>4 DEF Unheld
        <4> QED BY <4>2, <4>3
      <3>3. CASE counted[r][i] = 0
        BY <3>1, <3>3 DEF CountOK
      <3>4. CASE counted[r][i] # 0
        BY <1>0, <1>2, <1>3, <1>5, <3>1, <3>2, <3>4, CountStays
      <3> QED BY <3>3, <3>4
    <2> QED BY <2>2, <2>3 DEF CleanOK
  <1>9. EndsLogged' /\ ClosedRowsStay'
    BY <1>0 DEF EndsLogged, ClosedRowsStay, RowsGrow, Over
  <1> QED BY <1>2, <1>6, <1>8, <1>9 DEF MirrorInv

LEMMA GoesOnKeeps ==
    ASSUME MirrorInv, NEW h \in Hands, NEW at \in MirrorPlaces, GoesOn(h, at),
           UNCHANGED <<logVars, sweepList>>, RowsGrow
    PROVE  MirrorInv'
  <1> USE DEF logVars
  <1>0. MirrorTyped /\ EndsLogged /\ HandsOK /\ ClosedRowsStay /\ (clean => CleanOK)
    BY DEF MirrorInv
  <1>1. /\ hand' \in [Hands -> [at : MirrorPlaces, queue : Seq(Pairs)]]
        /\ hand'[h].at = at /\ hand'[h].queue = hand[h].queue /\ OthersStay(h)
    BY <1>0, Moves DEF GoesOn
  <1>2. /\ hand[h].queue # <<>> /\ 1 \in 1..Len(hand[h].queue)
        /\ Current(h) = hand[h].queue[1] /\ Current(h) \in Pairs /\ Due(Current(h))
    BY <1>0, HandTypes DEF GoesOn, HandsOK, HandOK
  <1>3. PICK r \in MirrorRuns, seq \in Nat : Current(h) = <<r, seq>>
    BY <1>2 DEF Pairs
  <1>4. Counts(h) => hand[h].at = "spend" /\ seq # 0 /\ seq \in Room /\ seq <= Len(logged[r])
                     /\ ~logged[r][seq].copied /\ logged[r][seq].kind = "usage"
    <2> SUFFICES ASSUME hand[h].at = "spend"
                 PROVE  seq # 0 /\ seq \in Room /\ seq <= Len(logged[r])
                        /\ ~logged[r][seq].copied /\ logged[r][seq].kind = "usage"
      BY DEF Counts
    <2>1. AtWork(<<r, seq>>, "spend")
      BY <1>0, <1>2, <1>3 DEF HandsOK, HandOK
    <2>2. seq # 0 /\ ~logged[r][seq].copied /\ logged[r][seq].kind = "usage"
      BY <2>1 DEF AtWork
    <2>3. seq <= Len(logged[r])
      BY <1>2, <1>3 DEF Due
    <2>4. Len(logged[r]) \in Nat /\ Len(logged[r]) <= MaxMirrored + 2 /\ MaxMirrored \in Nat
      <3>1. Len(logged["turn"]) \in Nat /\ Len(logged["seed"]) \in Nat
        BY <1>0 DEF MirrorTyped, MirrorRuns
      <3>2. MaxMirrored \in Nat /\ MaxMirrored # 0
        BY MirrorAssumption
      <3>3. Len(logged["turn"]) <= MaxMirrored + 1 /\ Len(logged["seed"]) <= 3
        BY <1>0, <3>1, <3>2 DEF EndsLogged
      <3> QED BY <3>1, <3>2, <3>3 DEF MirrorRuns
    <2>5. seq \in Room
      BY <2>2, <2>3, <2>4 DEF Room
    <2> QED BY <2>2, <2>3, <2>5
  <1>5. counted' \in [MirrorRuns -> [Room -> Nat]]
        /\ \A x \in MirrorRuns, i \in Room :
              counted'[x][i] = IF Counts(h) /\ x = r /\ i = seq THEN counted[x][i] + 1 ELSE counted[x][i]
    <2>1. CASE UNCHANGED counted
      <3>1. ~Counts(h)
        <4> SUFFICES ASSUME Counts(h) PROVE FALSE
          OBVIOUS
        <4>1. seq \in Room /\ counted' = [counted EXCEPT ![r][seq] = counted[r][seq] + 1]
          BY <1>3, <1>4 DEF Counts
        <4>2. counted[r][seq] \in Nat /\ counted'[r][seq] = counted[r][seq] + 1
          BY <1>0, <4>1 DEF MirrorTyped
        <4> QED BY <2>1, <4>2
      <3> QED BY <1>0, <2>1, <3>1 DEF MirrorTyped
    <2>2. CASE Counts(h)
      <3>1. seq \in Room /\ counted' = [counted EXCEPT ![r][seq] = counted[r][seq] + 1]
        BY <1>3, <1>4, <2>2 DEF Counts
      <3>2. counted[r] \in [Room -> Nat] /\ counted[r][seq] + 1 \in Nat
        BY <1>0, <3>1 DEF MirrorTyped
      <3> QED BY <1>0, <2>2, <3>1, <3>2 DEF MirrorTyped
    <2> QED BY <2>1, <2>2 DEF GoesOn
  <1>6. MirrorTyped'
    BY <1>0, <1>1, <1>5 DEF MirrorTyped, RowsGrow
  <1>7. LogGrown
    BY <1>0, SameLogGrown
  <1>8. \A g \in Hands : hand'[g].queue = hand[g].queue
    BY <1>1 DEF OthersStay
  <1>9. Shorter
    <2>1. \A g \in Hands : \A p \in 1..Len(hand[g].queue) : p + 0 = p
      BY <1>0, HandTypes
    <2> QED BY <1>8, <2>1 DEF Shorter
  <1>10. HandsOK'
    <2>1. ASSUME NEW g \in Hands, g # h PROVE HandOK(g)'
      <3>1. hand'[g] = hand[g] /\ HandOK(g)
        BY <1>0, <1>1, <2>1 DEF OthersStay, HandsOK
      <3> QED BY <1>0, <1>6, <1>7, <3>1, HandStays
    <2>2. HandOK(h)'
      <3>1. \A p \in 1..Len(hand[h].queue) : Due(hand[h].queue[p])
        BY <1>0 DEF HandsOK, HandOK
      <3>2. at # "idle" => AtWork(hand[h].queue[1], at)
        BY <1>2 DEF GoesOn
      <3> QED BY <1>1, <1>2, <3>1, <3>2 DEF HandOK, Due, Over, AtWork
    <2>3. (\A k \in 1..Len(sweepList) : sweepList[k].ended => Over(sweepList[k].run))'
      BY <1>0 DEF HandsOK, Over
    <2> QED BY <2>1, <2>2, <2>3 DEF HandsOK
  <1>11. Sweeping' => Sweeping
    <2>1. CASE h = "sweep"
      <3>1. ~Resting("sweep")
        BY <1>2, <2>1 DEF Resting
      <3> QED BY <3>1 DEF Sweeping
    <2>2. CASE h # "sweep"
      <3>1. hand'["sweep"] = hand["sweep"]
        BY <1>1, <2>2 DEF OthersStay, Hands
      <3> QED BY <3>1 DEF Sweeping, Resting
    <2> QED BY <2>1, <2>2
  <1>12. ASSUME clean'
         PROVE  CleanOK'
    <2>1. clean /\ CleanOK
      BY <1>0, <1>12 DEF GoesOn
    <2>2. OnceHeld' /\ SweepAlone'
      BY <1>0, <1>6, <1>7, <1>9, <1>11, <2>1, OnceStays, SweepAloneStays DEF CleanOK
    <2>3. ASSUME NEW x \in MirrorRuns, NEW i \in Room
          PROVE  CountOK(x, i)'
      <3>1. CountOK(x, i) /\ row[x].cursor <= row'[x].cursor
        BY <2>1 DEF CleanOK, RowsGrow
      <3>2. AtMark(x, i) => AtMark(x, i)'
        <4> SUFFICES ASSUME AtMark(x, i) PROVE AtMark(x, i)'
          OBVIOUS
        <4>1. PICK g \in Hands : hand[g].at = "mark" /\ hand[g].queue[1] = <<x, i>>
          BY DEF AtMark
        <4>2. g # h
          BY <4>1 DEF GoesOn
        <4> QED BY <1>1, <4>1, <4>2 DEF AtMark, OthersStay
      <3>3. CASE ~(Counts(h) /\ x = r /\ i = seq)
        <4>1. counted'[x][i] = counted[x][i]
          BY <1>5, <3>3
        <4> QED BY <1>0, <1>6, <1>7, <1>9, <3>1, <3>2, <4>1, CountStays
      <3>4. CASE Counts(h) /\ x = r /\ i = seq
        <4>1. counted'[x][i] = counted[x][i] + 1 /\ hand'[h].at = "mark"
              /\ hand'[h].queue[1] = <<x, i>>
          <5>1. at = "mark"
            <6>1. counted' # counted
              <7>1. counted[x][i] \in Nat /\ counted'[x][i] = counted[x][i] + 1
                BY <1>0, <1>5, <3>4 DEF MirrorTyped
              <7> QED BY <7>1
            <6> QED BY <6>1 DEF GoesOn
          <5> QED BY <1>1, <1>2, <1>3, <1>5, <3>4, <5>1
        <4>2. counted[x][i] = 0
          <5> SUFFICES ASSUME counted[x][i] # 0 PROVE FALSE
            OBVIOUS
          <5>1. AtMark(x, i) \/ Unheld(x, i)
            BY <3>1 DEF CountOK
          <5>2. ~Unheld(x, i)
            BY <1>2, <1>3, <3>4 DEF Unheld
          <5>3. PICK g \in Hands : hand[g].at = "mark" /\ hand[g].queue[1] = <<x, i>>
            BY <5>1, <5>2 DEF AtMark
          <5>4. 1 \in 1..Len(hand[g].queue)
            BY <1>0, <5>3, HandTypes DEF HandsOK, HandOK
          <5>5. IsUsage(<<x, i>>)
            BY <1>4, <3>4 DEF IsUsage
          <5>6. g = h
            BY <1>2, <1>3, <2>1, <3>4, <5>3, <5>4, <5>5 DEF CleanOK, OnceHeld
          <5> QED BY <1>4, <3>4, <5>3, <5>6
        <4>3. counted'[x][i] = 1
          BY <4>1, <4>2
        <4>4. AtMark(x, i)'
          BY <4>1 DEF AtMark
        <4> QED BY <1>4, <3>4, <4>3, <4>4 DEF CountOK
      <3> QED BY <3>3, <3>4
    <2> QED BY <2>2, <2>3 DEF CleanOK
  <1>13. EndsLogged' /\ ClosedRowsStay'
    BY <1>0 DEF EndsLogged, ClosedRowsStay, RowsGrow, Over
  <1> QED BY <1>6, <1>10, <1>12, <1>13 DEF MirrorInv

-----------------------------------------------------------------------------
(* What the writers keep *)

ListOK == \A k \in 1..Len(sweepList) : sweepList[k].ended => Over(sweepList[k].run)

\* A step that leaves the hands alone.
LEMMA QuietKeeps ==
    ASSUME MirrorInv, MirrorTyped', LogGrown, UNCHANGED <<hand, row, counted>>,
           clean' => clean /\ SweepAlone'
    PROVE  /\ \A h \in Hands : HandOK(h)'
           /\ clean' => CleanOK'
  <1>0. MirrorTyped /\ HandsOK /\ (clean => CleanOK)
    BY DEF MirrorInv
  <1>1. \A h \in Hands : HandOK(h)'
    BY <1>0, HandStays DEF HandsOK
  <1>2. Shorter
    <2>1. \A g \in Hands : \A p \in 1..Len(hand[g].queue) : p + 0 = p
      BY <1>0, HandTypes
    <2> QED BY <2>1 DEF Shorter
  <1>3. ASSUME clean'
        PROVE  CleanOK'
    <2>1. OnceHeld' /\ SweepAlone'
      BY <1>0, <1>2, <1>3, OnceStays DEF CleanOK
    <2>2. ASSUME NEW r \in MirrorRuns, NEW i \in Room
          PROVE  CountOK(r, i)'
      <3>1. CountOK(r, i) /\ row[r].cursor <= row'[r].cursor
        <4>1. row[r] \in TableRows
          BY <1>0 DEF MirrorTyped
        <4>2. row[r].cursor \in Nat
          BY <4>1 DEF TableRows
        <4> QED BY <1>0, <1>3, <4>2 DEF CleanOK
      <3>2. AtMark(r, i) => AtMark(r, i)'
        BY DEF AtMark
      <3> QED BY <1>0, <1>2, <3>1, <3>2, CountStays
    <2> QED BY <2>1, <2>2 DEF CleanOK
  <1> QED BY <1>1, <1>3

LEMMA PairOf == \A e \in Pairs : e = <<e[1], e[2]>>
  BY DEF Pairs

\* A step that hands events to a hand at rest: each model call among them once, to nobody else,
\* and not counted yet.
Fresh(e) ==
    /\ Unheld(e[1], e[2])
    /\ e[2] \in Room => counted[e[1]][e[2]] = 0
LEMMA HandedKeeps ==
    ASSUME MirrorInv, MirrorTyped', LogGrown, UNCHANGED <<row, counted>>,
           NEW h \in Hands, Resting(h), NEW new \in Seq(Pairs),
           hand'[h].at = "idle", hand'[h].queue = new, OthersStay(h),
           \A p \in 1..Len(new) : Due(new[p])',
           clean' => clean /\ SweepAlone',
           clean' => \A p \in 1..Len(new) : IsUsage(new[p])' =>
                        Fresh(new[p]) /\ \A q \in 1..Len(new) : new[q] = new[p] => q = p
    PROVE  /\ \A g \in Hands : HandOK(g)'
           /\ clean' => CleanOK'
  <1>0. MirrorTyped /\ HandsOK /\ (clean => CleanOK)
    BY DEF MirrorInv
  <1>1. hand[h].at = "idle" /\ hand[h].queue = <<>>
    BY DEF Resting
  <1>2. \A g \in Hands : HandOK(g)'
    <2>1. HandOK(h)'
      BY DEF HandOK
    <2>2. ASSUME NEW g \in Hands, g # h PROVE HandOK(g)'
      <3>1. hand'[g] = hand[g] /\ HandOK(g)
        BY <1>0, <2>2 DEF OthersStay, HandsOK
      <3> QED BY <1>0, <3>1, HandStays
    <2> QED BY <2>1, <2>2
  <1>3. ASSUME NEW g \in Hands, g # h, NEW p \in 1..Len(hand'[g].queue)
        PROVE  /\ p \in 1..Len(hand[g].queue) /\ hand'[g].queue[p] = hand[g].queue[p]
               /\ hand[g].queue[p] \in Pairs /\ Due(hand[g].queue[p])
    <2>1. hand'[g] = hand[g]
      BY <1>3 DEF OthersStay
    <2>2. p \in 1..Len(hand[g].queue)
      BY <1>3, <2>1
    <2> QED BY <1>0, <2>1, <2>2, HandTypes DEF HandsOK, HandOK
  <1>4. ASSUME clean'
        PROVE  CleanOK'
    <2>0. clean /\ CleanOK /\ SweepAlone'
      BY <1>0, <1>4
    <2>1. OnceHeld'
      <3> SUFFICES ASSUME NEW f \in Hands, NEW g \in Hands,
                          NEW p \in 1..Len(hand'[f].queue), NEW q \in 1..Len(hand'[g].queue),
                          NEW e, e = hand'[f].queue[p], e = hand'[g].queue[q], IsUsage(e)'
                   PROVE  f = g /\ p = q
        BY OnceFrom
      <3>1. CASE f = h /\ g = h
        BY <1>4, <3>1
      <3>2. CASE f # h /\ g # h
        <4>1. /\ p \in 1..Len(hand[f].queue) /\ hand'[f].queue[p] = hand[f].queue[p]
              /\ hand[f].queue[p] \in Pairs /\ Due(hand[f].queue[p])
          BY <1>3, <3>2
        <4>2. q \in 1..Len(hand[g].queue) /\ e = hand[g].queue[q]
          BY <1>3, <3>2
        <4>3. e \in Pairs /\ Due(e) /\ e = hand[f].queue[p]
          BY <4>1
        <4>4. IsUsage(e)
          BY <1>0, <4>3, DueStays
        <4>5. \A y \in 1..Len(hand[g].queue) :
                 hand[f].queue[p] = hand[g].queue[y] /\ IsUsage(hand[f].queue[p]) => f = g /\ p = y
          BY <2>0, <4>1 DEF CleanOK, OnceHeld
        <4> QED BY <4>2, <4>3, <4>4, <4>5
      <3>3. ASSUME NEW k \in Hands, k # h, NEW x \in 1..Len(new), NEW y \in 1..Len(hand'[k].queue),
                   new[x] = e, hand'[k].queue[y] = e
            PROVE  FALSE
        <4>1. e \in Pairs /\ y \in 1..Len(hand[k].queue) /\ e = hand[k].queue[y]
          BY <1>3, <3>3
        <4>2. Unheld(e[1], e[2])
          BY <1>4, <3>3 DEF Fresh
        <4>3. e = <<e[1], e[2]>>
          BY <4>1, PairOf
        <4>4. \A f1 \in Hands : \A z \in 1..Len(hand[f1].queue) : hand[f1].queue[z] # e
          BY <4>2, <4>3 DEF Unheld
        <4> QED BY <3>3, <4>1, <4>4
      <3>4. CASE f = h /\ g # h
        BY <3>3, <3>4
      <3>5. CASE f # h /\ g = h
        BY <3>3, <3>5
      <3> QED BY <3>1, <3>2, <3>4, <3>5
    <2>2. ASSUME NEW r \in MirrorRuns, NEW i \in Room
          PROVE  CountOK(r, i)'
      <3> SUFFICES ASSUME counted[r][i] # 0 PROVE CountOK(r, i)'
        BY DEF CountOK
      <3>1. /\ counted[r][i] = 1 /\ i <= Len(logged[r])
            /\ ~logged[r][i].copied /\ logged[r][i].kind = "usage"
            /\ AtMark(r, i) \/ (i <= row[r].cursor /\ Unheld(r, i))
        BY <2>0 DEF CleanOK, CountOK
      <3>2. i \in Nat /\ i # 0 /\ Len(logged[r]) \in Nat /\ Len(logged'[r]) \in Nat
        BY <1>0, MirrorAssumption DEF Room, MirrorTyped
      <3>3. logged'[r][i] = logged[r][i] /\ i <= Len(logged'[r])
        BY <3>1, <3>2 DEF LogGrown
      <3>4. CASE AtMark(r, i)
        <4>1. PICK g \in Hands : hand[g].at = "mark" /\ hand[g].queue[1] = <<r, i>>
          BY <3>4 DEF AtMark
        <4>2. hand'[g] = hand[g]
          BY <1>1, <4>1 DEF OthersStay
        <4>3. AtMark(r, i)'
          BY <4>1, <4>2 DEF AtMark
        <4> QED BY <3>1, <3>3, <4>3 DEF CountOK
      <3>5. CASE i <= row[r].cursor /\ Unheld(r, i)
        <4>1. ASSUME NEW p \in 1..Len(new), new[p] = <<r, i>>
              PROVE  FALSE
          <5>1. IsUsage(new[p])'
            BY <3>1, <3>2, <3>3, <4>1 DEF IsUsage
          <5>2. counted[r][i] = 0
            BY <1>4, <4>1, <5>1 DEF Fresh
          <5> QED BY <5>2
        <4>2. Unheld(r, i)'
          <5> SUFFICES ASSUME NEW g \in Hands, NEW p \in 1..Len(hand'[g].queue)
                       PROVE  hand'[g].queue[p] # <<r, i>>
            BY DEF Unheld
          <5>1. CASE g = h
            BY <4>1, <5>1
          <5>2. CASE g # h
            <6>1. p \in 1..Len(hand[g].queue) /\ hand'[g].queue[p] = hand[g].queue[p]
              BY <1>3, <5>2
            <6> QED BY <3>5, <6>1 DEF Unheld
          <5> QED BY <5>1, <5>2
        <4> QED BY <3>1, <3>3, <3>5, <4>2 DEF CountOK
      <3> QED BY <3>1, <3>4, <3>5
    <2> QED BY <2>0, <2>1, <2>2 DEF CleanOK
  <1> QED BY <1>2, <1>4

\* An event appended to the turn's log.
LEMMA TurnLogged ==
    ASSUME MirrorTyped, EndsLogged, ListOK, phase["turn"] = "live", NEW kind \in MirrorKinds,
           Len(logged["turn"]) < MaxMirrored \/ kind = "end",
           logged' = [logged EXCEPT !["turn"] = Append(@, Entry(kind, FALSE))],
           phase' = [phase EXCEPT !["turn"] = IF kind = "end" THEN "ended" ELSE @]
    PROVE  /\ logged' \in [MirrorRuns -> Seq(LogEntries)]
           /\ phase' \in [MirrorRuns -> {"none", "live", "ended", "rewound"}]
           /\ LogGrown /\ EndsLogged'
           /\ Len(logged["turn"]) \in Nat /\ Len(logged'["turn"]) = Len(logged["turn"]) + 1
           /\ logged'["turn"][Len(logged["turn"]) + 1].kind = kind
  <1>1. PICK n \in Nat : n = Len(logged["turn"])
    BY DEF MirrorTyped, MirrorRuns
  <1>2. PICK old \in Seq(LogEntries) : old = logged["turn"]
    BY DEF MirrorTyped, MirrorRuns
  <1>3. PICK e \in LogEntries : e = Entry(kind, FALSE) /\ e.kind = kind
    <2>1. Entry(kind, FALSE) \in LogEntries /\ Entry(kind, FALSE).kind = kind
      BY DEF Entry, LogEntries
    <2> QED BY <2>1
  <1>4. PICK new \in Seq(LogEntries) : new = Append(old, e)
    <2>1. Append(old, e) \in Seq(LogEntries)
      OBVIOUS
    <2> QED BY <2>1
  <1>5. Len(new) = n + 1 /\ new[n + 1] = e /\ \A i \in 1..n : new[i] = old[i]
    BY <1>1, <1>2, <1>4
  <1>6. logged' = [logged EXCEPT !["turn"] = new]
    BY <1>2, <1>3, <1>4
  <1>7. logged' \in [MirrorRuns -> Seq(LogEntries)] /\ logged'["turn"] = new
        /\ logged'["seed"] = logged["seed"]
    BY <1>6 DEF MirrorTyped, MirrorRuns
  <1>8. phase' \in [MirrorRuns -> {"none", "live", "ended", "rewound"}]
        /\ phase'["turn"] = (IF kind = "end" THEN "ended" ELSE "live") /\ phase'["seed"] = phase["seed"]
    BY DEF MirrorTyped, MirrorRuns
  <1>9. Len(logged["seed"]) \in Nat
    BY DEF MirrorTyped, MirrorRuns
  <1>10. LogGrown
    BY <1>1, <1>2, <1>5, <1>7, <1>8, <1>9 DEF LogGrown, Over, MirrorRuns
  <1>11. EndsLogged'
    <2>1. \A i \in 1..Len(logged'["turn"]) : logged'["turn"][i].kind = "end" => Over("turn")'
      <3> SUFFICES ASSUME NEW i \in 1..(n + 1), new[i].kind = "end" PROVE phase'["turn"] = "ended"
        BY <1>5, <1>7 DEF Over
      <3>1. \A j \in 1..n : old[j].kind # "end"
        BY <1>1, <1>2 DEF EndsLogged, Over, MirrorRuns
      <3>2. i = n + 1
        BY <1>5, <3>1
      <3> QED BY <1>3, <1>5, <1>8, <3>2
    <2>2. \A i \in 1..Len(logged'["seed"]) : logged'["seed"][i].kind = "end" => Over("seed")'
      BY <1>7, <1>8 DEF EndsLogged, Over, MirrorRuns
    <2>3. n <= MaxMirrored /\ (n < MaxMirrored \/ kind = "end") /\ MaxMirrored \in Nat
      BY <1>1, MirrorAssumption DEF EndsLogged, Over
    <2>4. Len(logged'["turn"]) <= MaxMirrored + (IF Over("turn")' THEN 1 ELSE 0)
      BY <1>5, <1>7, <1>8, <2>3 DEF Over
    <2>5. /\ phase'["turn"] # "none" /\ phase'["seed"] \in {"none", "ended"}
          /\ Len(logged'["seed"]) <= IF phase'["seed"] = "none" THEN 0 ELSE 3
      BY <1>7, <1>8 DEF EndsLogged
    <2> QED BY <2>1, <2>2, <2>4, <2>5 DEF EndsLogged, MirrorRuns
  <1> QED BY <1>1, <1>2, <1>3, <1>5, <1>7, <1>8, <1>10, <1>11

LEMMA ClosedStays ==
    ASSUME ClosedRowsStay, LogGrown, UNCHANGED row
    PROVE  ClosedRowsStay'
  BY DEF ClosedRowsStay, LogGrown, Over

LEMMA ListStays ==
    ASSUME MirrorTyped, ListOK, LogGrown, UNCHANGED sweepList
    PROVE  ListOK'
  <1>1. \A k \in 1..Len(sweepList) : sweepList[k] \in Visits
    BY DEF MirrorTyped
  <1>2. \A k \in 1..Len(sweepList) : sweepList[k].run \in MirrorRuns
    BY <1>1 DEF Visits
  <1> QED BY <1>2 DEF ListOK, LogGrown, Over

LEMMA OneSeq ==
    ASSUME NEW e \in Pairs
    PROVE  <<e>> \in Seq(Pairs) /\ Len(<<e>>) = 1 /\ <<e>>[1] = e
  OBVIOUS

LEMMA OneMore ==
    ASSUME NEW s \in Seq(Pairs), NEW u \in Seq(Pairs), Len(u) = 1
    PROVE  /\ s \o u \in Seq(Pairs) /\ Len(s \o u) = Len(s) + 1
           /\ (s \o u)[Len(s) + 1] = u[1]
           /\ \A p \in 1..Len(s) : (s \o u)[p] = s[p]
  <1>1. /\ s \o u \in Seq(Pairs) /\ Len(s \o u) = Len(s) + Len(u)
        /\ \A i \in 1..(Len(s) + Len(u)) :
              (s \o u)[i] = IF i <= Len(s) THEN s[i] ELSE u[i - Len(s)]
    BY ConcatProperties
  <1>2. PICK t \in Seq(Pairs) : t = s \o u
    BY <1>1
  <1>3. PICK n \in Nat : n = Len(s)
    OBVIOUS
  <1>4. /\ Len(t) = n + 1
        /\ \A i \in 1..(n + 1) : t[i] = IF i <= n THEN s[i] ELSE u[i - n]
    BY <1>1, <1>2, <1>3
  <1>5. n + 1 \in 1..(n + 1) /\ ~(n + 1 <= n) /\ (n + 1) - n = 1
    OBVIOUS
  <1>6. t[n + 1] = u[1]
    BY <1>4, <1>5
  <1>7. \A p \in 1..n : t[p] = s[p]
    BY <1>4
  <1> QED BY <1>2, <1>3, <1>4, <1>6, <1>7

LEMMA LogsEventKeeps ==
    ASSUME MirrorInv, NEW h \in {"executor", "request"}, NEW kind \in MirrorKinds, LogsEvent(h, kind)
    PROVE  MirrorInv'
  <1> USE DEF rowVars
  <1>0. /\ MirrorTyped /\ EndsLogged /\ HandsOK /\ ListOK /\ ClosedRowsStay /\ (clean => CleanOK)
        /\ h \in Hands
    BY DEF MirrorInv, HandsOK, ListOK, Hands
  <1>1. /\ Resting(h) /\ phase["turn"] = "live" /\ UNCHANGED <<row, counted, sweepList>>
        /\ clean' = (clean /\ ~Sweeping)
        /\ Len(logged["turn"]) < MaxMirrored \/ kind = "end"
        /\ logged' = [logged EXCEPT !["turn"] = Append(@, Entry(kind, FALSE))]
        /\ phase' = [phase EXCEPT !["turn"] = IF kind = "end" THEN "ended" ELSE @]
        /\ IF kind \in {"asked", "answered"} THEN UNCHANGED hand
           ELSE Given(h, <<<<"turn", Len(logged["turn"]) + 1>>>>)
    BY DEF LogsEvent
  <1>2. PICK n \in Nat : n = Len(logged["turn"])
    BY <1>0, <1>1, TurnLogged
  <1>3. /\ logged' \in [MirrorRuns -> Seq(LogEntries)]
        /\ phase' \in [MirrorRuns -> {"none", "live", "ended", "rewound"}]
        /\ LogGrown /\ EndsLogged' /\ Len(logged'["turn"]) = n + 1
    BY <1>0, <1>1, <1>2, TurnLogged
  <1>4. ListOK' /\ ClosedRowsStay'
    BY <1>0, <1>1, <1>3, ListStays, ClosedStays
  <1>5. CASE UNCHANGED hand
    <2>1. MirrorTyped'
      BY <1>0, <1>1, <1>3, <1>5 DEF MirrorTyped
    <2>2. clean' => clean /\ SweepAlone'
      BY <1>1, <1>5 DEF SweepAlone, Sweeping, Resting
    <2>3. (\A g \in Hands : HandOK(g)') /\ (clean' => CleanOK')
      BY <1>1, <1>3, <1>5, <2>1, <2>2, QuietKeeps
    <2> QED BY <1>3, <1>4, <2>1, <2>3 DEF MirrorInv, HandsOK, ListOK
  <1>6. CASE Given(h, <<<<"turn", n + 1>>>>)
    <2>1. PICK e \in Pairs : e = <<"turn", n + 1>> /\ e[1] = "turn" /\ e[2] = n + 1
      <3>1. <<"turn", n + 1>> \in Pairs
        BY DEF Pairs, MirrorRuns
      <3> QED BY <3>1
    <2>2. PICK new \in Seq(Pairs) : new = <<e>> /\ Len(new) = 1 /\ new[1] = e
      BY <2>1, OneSeq
    <2>3. hand[h].at = "idle" /\ hand[h].queue = <<>>
      BY <1>1 DEF Resting
    <2>4. /\ hand' \in [Hands -> [at : MirrorPlaces, queue : Seq(Pairs)]]
          /\ hand'[h].at = "idle" /\ hand'[h].queue = new /\ OthersStay(h)
      BY <1>0, <1>6, <2>1, <2>2, <2>3, Gives
    <2>5. MirrorTyped'
      BY <1>0, <1>1, <1>3, <2>4 DEF MirrorTyped
    <2>6. hand'["sweep"] = hand["sweep"]
      BY <2>4 DEF OthersStay, Hands
    <2>7. clean' => clean /\ SweepAlone'
      BY <1>1, <2>6 DEF SweepAlone, Sweeping, Resting
    <2>8. Due(e)'
      BY <1>3, <2>1 DEF Due
    <2>9. ASSUME clean'
          PROVE  Fresh(e)
      <3>1. ASSUME NEW g \in Hands, NEW q \in 1..Len(hand[g].queue), hand[g].queue[q] = e
            PROVE  FALSE
        <4>1. Due(e)
          BY <1>0, <3>1 DEF HandsOK, HandOK
        <4> QED BY <1>2, <2>1, <4>1 DEF Due
      <3>2. Unheld(e[1], e[2])
        BY <2>1, <3>1 DEF Unheld
      <3>3. ASSUME n + 1 \in Room, counted["turn"][n + 1] # 0
            PROVE  FALSE
        <4>1. CountOK("turn", n + 1)
          BY <1>0, <1>1, <2>9, <3>3 DEF CleanOK, MirrorRuns
        <4>2. n + 1 <= n
          BY <1>2, <3>3, <4>1 DEF CountOK
        <4> QED BY <4>2
      <3> QED BY <2>1, <3>2, <3>3 DEF Fresh
    <2>10. \A p \in 1..Len(new) : p = 1
      BY <2>2
    <2>11. \A p \in 1..Len(new) : Due(new[p])'
      BY <2>2, <2>8, <2>10
    <2>12. clean' => \A p \in 1..Len(new) : IsUsage(new[p])' =>
                        Fresh(new[p]) /\ \A q \in 1..Len(new) : new[q] = new[p] => q = p
      BY <2>2, <2>9, <2>10
    <2>13. (\A g \in Hands : HandOK(g)') /\ (clean' => CleanOK')
      BY <1>0, <1>1, <1>3, <2>4, <2>5, <2>7, <2>11, <2>12, HandedKeeps
    <2> QED BY <1>3, <1>4, <2>5, <2>13 DEF MirrorInv, HandsOK, ListOK
  <1> QED BY <1>1, <1>2, <1>5, <1>6

LEMMA SeqsEffect ==
    ASSUME NEW r \in MirrorRuns, NEW from \in Nat, NEW to \in Nat
    PROVE  /\ Seqs(r, from, to) \in Seq(Pairs) /\ Len(Seqs(r, from, to)) \in Nat
           /\ \A p \in 1..Len(Seqs(r, from, to)) :
                 Seqs(r, from, to)[p] = <<r, from + p - 1>> /\ from + p - 1 \in from..to
  <1>1. CASE from <= to
    <2>1. PICK n \in Nat : n = to - from + 1
      BY <1>1
    <2>2. Seqs(r, from, to) = [i \in 1..n |-> <<r, from + i - 1>>]
      BY <2>1 DEF Seqs
    <2>3. \A i \in 1..n : from + i - 1 \in from..to
      BY <2>1
    <2>4. \A i \in 1..n : <<r, from + i - 1>> \in Pairs
      BY <2>3 DEF Pairs
    <2>5. [i \in 1..n |-> <<r, from + i - 1>>] \in [1..n -> Pairs]
      BY <2>4
    <2>6. PICK s : s = Seqs(r, from, to)
      OBVIOUS
    <2>7. s \in [1..n -> Pairs] /\ \A i \in 1..n : s[i] = <<r, from + i - 1>>
      BY <2>2, <2>5, <2>6
    <2>8. s \in Seq(Pairs) /\ Len(s) = n
      BY <2>7
    <2> QED BY <2>3, <2>6, <2>7, <2>8
  <1>2. CASE ~(from <= to)
    <2>1. to - from + 1 <= 0 /\ to - from + 1 \in Int
      BY <1>2
    <2>2. 1..(to - from + 1) = {}
      BY <2>1
    <2>3. Seqs(r, from, to) = <<>>
      BY <2>2 DEF Seqs
    <2>4. <<>> \in Seq(Pairs) /\ Len(<<>>) = 0
      OBVIOUS
    <2>5. PICK s \in Seq(Pairs) : s = Seqs(r, from, to) /\ Len(s) = 0
      BY <2>3, <2>4
    <2> QED BY <2>5
  <1> QED BY <1>1, <1>2

LEMMA RewindKeeps ==
    ASSUME MirrorInv, RewindsSession
    PROVE  MirrorInv'
  <1> USE DEF rowVars
  <1>0. /\ MirrorTyped /\ EndsLogged /\ HandsOK /\ ListOK /\ ClosedRowsStay /\ (clean => CleanOK)
        /\ "request" \in Hands /\ "turn" \in MirrorRuns /\ "seed" \in MirrorRuns
    BY DEF MirrorInv, HandsOK, ListOK, Hands, MirrorRuns
  <1>1. /\ phase["turn"] = "ended" /\ phase["seed"] = "none" /\ Resting("request")
        /\ clean' = (clean /\ ~Sweeping) /\ UNCHANGED <<row, counted, sweepList>>
        /\ phase' = [phase EXCEPT !["turn"] = "rewound", !["seed"] = "ended"]
    BY DEF RewindsSession
  <1>2. PICK seed \in Seq(LogEntries) :
           /\ seed = <<Entry("start", FALSE), Entry("usage", TRUE), Entry("end", FALSE)>>
           /\ Len(seed) = 3
    <2>1. \A k \in MirrorKinds, copied \in BOOLEAN : Entry(k, copied) \in LogEntries
      BY DEF Entry, LogEntries
    <2>2. PICK a \in LogEntries, b \in LogEntries, c \in LogEntries :
             a = Entry("start", FALSE) /\ b = Entry("usage", TRUE) /\ c = Entry("end", FALSE)
      BY <2>1 DEF MirrorKinds
    <2>3. <<a, b, c>> \in Seq(LogEntries) /\ Len(<<a, b, c>>) = 3
      OBVIOUS
    <2> QED BY <2>2, <2>3
  <1>3. /\ seed[1].kind = "start" /\ seed[2].kind = "usage" /\ seed[3].kind = "end"
    BY <1>2 DEF Entry
  <1>4. /\ logged' = [logged EXCEPT !["seed"] = seed]
        /\ Given("request", Seqs("seed", 1, 3) \o <<<<"turn", 0>>>>)
    BY <1>2 DEF RewindsSession
  <1>5. /\ logged' \in [MirrorRuns -> Seq(LogEntries)] /\ logged'["seed"] = seed
        /\ logged'["turn"] = logged["turn"] /\ Len(logged["turn"]) \in Nat /\ Len(logged["seed"]) = 0
    <2>1. Len(logged["seed"]) \in Nat /\ Len(logged["seed"]) <= 0
      BY <1>0, <1>1 DEF MirrorTyped, EndsLogged
    <2> QED BY <1>0, <1>4, <2>1 DEF MirrorTyped, MirrorRuns
  <1>6. /\ phase' \in [MirrorRuns -> {"none", "live", "ended", "rewound"}]
        /\ phase'["turn"] = "rewound" /\ phase'["seed"] = "ended"
    BY <1>0, <1>1 DEF MirrorTyped, MirrorRuns
  <1>7. LogGrown
    <2>1. \A i \in 1..Len(logged["seed"]) : logged'["seed"][i] = logged["seed"][i]
      BY <1>5
    <2> QED BY <1>2, <1>5, <1>6, <2>1 DEF LogGrown, Over, MirrorRuns
  <1>8. EndsLogged'
    <2>1. \A r \in MirrorRuns : Over(r)'
      BY <1>6 DEF Over, MirrorRuns
    <2>2. Len(logged'["turn"]) <= MaxMirrored + 1 /\ Len(logged'["seed"]) <= 3
      BY <1>0, <1>1, <1>2, <1>5 DEF EndsLogged, Over
    <2>3. /\ \A r \in MirrorRuns : \A i \in 1..Len(logged'[r]) : logged'[r][i].kind = "end" => Over(r)'
          /\ phase'["turn"] # "none" /\ phase'["seed"] \in {"none", "ended"}
      BY <1>6, <2>1
    <2>4. Len(logged'["turn"]) <= MaxMirrored + (IF Over("turn")' THEN 1 ELSE 0)
      BY <1>0, <2>1, <2>2
    <2>5. Len(logged'["seed"]) <= IF phase'["seed"] = "none" THEN 0 ELSE 3
      BY <1>6, <2>2
    <2> QED BY <2>3, <2>4, <2>5 DEF EndsLogged
  <1>9. ListOK' /\ ClosedRowsStay'
    BY <1>0, <1>1, <1>7, ListStays, ClosedStays
  <1>10. PICK ev \in Seq(Pairs) : ev = Seqs("seed", 1, 3)
    BY <1>0, SeqsEffect
  <1>11. Len(ev) = 3 /\ \A p \in 1..3 : ev[p] = <<"seed", p>>
    BY <1>10 DEF Seqs
  <1>12. PICK z \in Pairs : z = <<"turn", 0>>
    <2>1. <<"turn", 0>> \in Pairs
      BY <1>0 DEF Pairs
    <2> QED BY <2>1
  <1>13. PICK new \in Seq(Pairs) : /\ new = ev \o <<z>> /\ Len(new) = 4 /\ new[4] = z
                                   /\ \A p \in 1..3 : new[p] = <<"seed", p>>
    <2>1. PICK u \in Seq(Pairs) : u = <<z>> /\ Len(u) = 1 /\ u[1] = z
      BY OneSeq
    <2>2. Len(u) = 1
      BY <2>1
    <2>3. PICK s : s = ev \o u
      OBVIOUS
    <2>4. /\ s \in Seq(Pairs) /\ Len(s) = Len(ev) + 1 /\ s[Len(ev) + 1] = u[1]
          /\ \A p \in 1..Len(ev) : s[p] = ev[p]
      BY <2>2, <2>3, OneMore
    <2>5. Len(s) = 4 /\ s[4] = z /\ \A p \in 1..3 : s[p] = <<"seed", p>>
      BY <1>11, <2>1, <2>4
    <2>6. s = ev \o <<z>>
      BY <2>1, <2>3
    <2> QED BY <2>4, <2>5, <2>6
  <1>14. hand["request"].at = "idle" /\ hand["request"].queue = <<>>
    BY <1>1 DEF Resting
  <1>15. /\ hand' \in [Hands -> [at : MirrorPlaces, queue : Seq(Pairs)]]
         /\ hand'["request"].at = "idle" /\ hand'["request"].queue = new /\ OthersStay("request")
    BY <1>0, <1>4, <1>10, <1>12, <1>13, <1>14, Gives
  <1>16. MirrorTyped'
    BY <1>0, <1>1, <1>5, <1>6, <1>15 DEF MirrorTyped
  <1>17. clean' => clean /\ SweepAlone'
    <2>1. hand'["sweep"] = hand["sweep"]
      BY <1>15 DEF OthersStay, Hands
    <2> QED BY <1>1, <2>1 DEF SweepAlone, Sweeping, Resting
  <1>18. \A p \in 1..4 : p = 4 \/ p \in 1..3
    OBVIOUS
  <1>19. \A p \in 1..Len(new) : Due(new[p])'
    <2>1. \A p \in 1..3 : Due(<<"seed", p>>)'
      <3> SUFFICES ASSUME NEW p \in 1..3 PROVE Due(<<"seed", p>>)'
        OBVIOUS
      <3>1. p <= 3 /\ p # 0 /\ Len(logged'["seed"]) = 3
        BY <1>2, <1>5
      <3> QED BY <3>1 DEF Due
    <2>2. Due(<<"turn", 0>>)'
      BY <1>5, <1>6 DEF Due, Over
    <2> QED BY <1>12, <1>13, <1>18, <2>1, <2>2
  <1>20. ASSUME clean'
         PROVE  \A p \in 1..3 : Fresh(<<"seed", p>>)
    <2> SUFFICES ASSUME NEW p \in 1..3 PROVE Fresh(<<"seed", p>>)
      OBVIOUS
    <2>1. ASSUME NEW g \in Hands, NEW q \in 1..Len(hand[g].queue), hand[g].queue[q] = <<"seed", p>>
          PROVE  FALSE
      <3>1. Due(<<"seed", p>>)
        BY <1>0, <2>1 DEF HandsOK, HandOK
      <3> QED BY <1>5, <3>1 DEF Due
    <2>2. ASSUME p \in Room, counted["seed"][p] # 0
          PROVE  FALSE
      <3>1. CountOK("seed", p)
        BY <1>0, <1>1, <1>20, <2>2 DEF CleanOK
      <3> QED BY <1>5, <2>2, <3>1 DEF CountOK
    <2> QED BY <2>1, <2>2 DEF Fresh, Unheld
  <1>21. ASSUME clean', NEW p \in 1..Len(new), IsUsage(new[p])'
         PROVE  Fresh(new[p]) /\ \A q \in 1..Len(new) : new[q] = new[p] => q = p
    <2>1. p \in 1..3
      <3>1. ~IsUsage(<<"turn", 0>>)'
        BY DEF IsUsage
      <3> QED BY <1>12, <1>13, <1>18, <1>21, <3>1
    <2>2. new[p] = <<"seed", p>> /\ Fresh(new[p])
      BY <1>13, <1>20, <1>21, <2>1
    <2>3. ASSUME NEW q \in 1..Len(new), new[q] = new[p]
          PROVE  q = p
      <3>1. q # 4
        BY <1>12, <1>13, <2>2, <2>3
      <3>2. q \in 1..3
        BY <1>13, <1>18, <2>3, <3>1
      <3>3. new[q] = <<"seed", q>>
        BY <1>13, <3>2
      <3> QED BY <2>2, <2>3, <3>3
    <2> QED BY <2>2, <2>3
  <1>22. (\A g \in Hands : HandOK(g)') /\ (clean' => CleanOK')
    BY <1>0, <1>1, <1>7, <1>15, <1>16, <1>17, <1>19, <1>21, HandedKeeps
  <1> QED BY <1>8, <1>9, <1>16, <1>22 DEF MirrorInv, HandsOK, ListOK

-----------------------------------------------------------------------------
(* Sweeps and restarts *)

\* list_session_runs, of the runs with these statuses.
RunsOf(stage) ==
    (IF stage["seed"] = "none" THEN <<>> ELSE <<[run |-> "seed", ended |-> TRUE]>>)
        \o <<[run |-> "turn", ended |-> stage["turn"] # "live"]>>

LEMMA SessionVisits ==
    ASSUME NEW stage, NEW list, list = RunsOf(stage)
    PROVE  /\ list \in Seq(Visits)
           /\ \A k \in 1..Len(list) : list[k].ended => \/ stage["seed"] # "none" /\ list[k].run = "seed"
                                                       \/ stage["turn"] # "live" /\ list[k].run = "turn"
  <1>1. PICK a \in Visits : a = [run |-> "seed", ended |-> TRUE]
    <2>1. [run |-> "seed", ended |-> TRUE] \in Visits
      BY DEF Visits, MirrorRuns
    <2> QED BY <2>1
  <1>2. PICK b \in Visits : b = [run |-> "turn", ended |-> stage["turn"] # "live"]
    <2>1. [run |-> "turn", ended |-> stage["turn"] # "live"] \in Visits
      BY DEF Visits, MirrorRuns
    <2> QED BY <2>1
  <1>3. CASE stage["seed"] = "none"
    <2>1. <<>> \o <<b>> = <<b>>
      OBVIOUS
    <2>2. list = <<b>>
      BY <1>2, <1>3, <2>1 DEF RunsOf
    <2>3. \A k \in 1..Len(<<b>>) : <<b>>[k] = b
      OBVIOUS
    <2>4. <<b>> \in Seq(Visits)
      OBVIOUS
    <2>5. b.ended => stage["turn"] # "live" /\ b.run = "turn"
      BY <1>2
    <2> QED BY <2>2, <2>3, <2>4, <2>5
  <1>4. CASE ~(stage["seed"] = "none")
    <2>1. PICK s \in Seq(Visits) : s = <<a>> /\ Len(s) = 1 /\ s[1] = a
      <3>1. <<a>> \in Seq(Visits) /\ Len(<<a>>) = 1 /\ <<a>>[1] = a
        OBVIOUS
      <3> QED BY <3>1
    <2>2. list = s \o <<b>>
      BY <1>1, <1>2, <1>4, <2>1 DEF RunsOf
    <2>0. PICK u \in Seq(Visits) : u = <<b>> /\ Len(u) = 1 /\ u[1] = b
      <3>1. <<b>> \in Seq(Visits) /\ Len(<<b>>) = 1 /\ <<b>>[1] = b
        OBVIOUS
      <3> QED BY <3>1
    <2>8. PICK t \in Seq(Visits) : t = s \o u
      <3>1. s \o u \in Seq(Visits)
        OBVIOUS
      <3> QED BY <3>1
    <2>6. list = t
      BY <2>0, <2>2, <2>8
    <2>7. Len(t) = 2 /\ t[2] = b /\ t[1] = a
      BY <2>0, <2>1, <2>8
    <2>3. list \in Seq(Visits) /\ Len(list) = 2 /\ list[2] = b /\ list[1] = a
      BY <2>6, <2>7
    <2>4. \A k \in 1..Len(list) : k = 1 \/ k = 2
      BY <2>3
    <2>5. (b.ended => stage["turn"] # "live" /\ b.run = "turn") /\ a.run = "seed"
      BY <1>1, <1>2
    <2> QED BY <1>4, <2>3, <2>4, <2>5
  <1> QED BY <1>3, <1>4

LEMMA LinksKeeps ==
    ASSUME MirrorInv, Links
    PROVE  MirrorInv'
  <1> USE DEF rowVars
  <1>0. /\ MirrorTyped /\ EndsLogged /\ HandsOK /\ ClosedRowsStay /\ (clean => CleanOK)
    BY DEF MirrorInv
  <1>1. /\ UNCHANGED <<logged, phase, row, counted, hand>> /\ sweepList' = SessionRuns
        /\ clean' = (clean /\ \A h \in Hands : Resting(h))
    BY DEF Links
  <1>2. /\ sweepList' \in Seq(Visits)
        /\ \A k \in 1..Len(sweepList') : sweepList'[k].ended =>
              \/ phase["seed"] # "none" /\ sweepList'[k].run = "seed"
              \/ phase["turn"] # "live" /\ sweepList'[k].run = "turn"
    <2>1. sweepList' = RunsOf(phase)
      BY <1>1 DEF SessionRuns, RunsOf
    <2> QED BY <2>1, SessionVisits
  <1>3. MirrorTyped' /\ LogGrown
    <2>1. UNCHANGED logVars \/ LogGrown
      <3>1. \A r \in MirrorRuns : Len(logged[r]) \in Nat
        BY <1>0 DEF MirrorTyped
      <3> QED BY <1>1, <3>1 DEF LogGrown, Over
    <2> QED BY <1>0, <1>1, <1>2, <2>1, SameLogGrown DEF MirrorTyped
  <1>4. ListOK'
    <2> SUFFICES ASSUME NEW k \in 1..Len(sweepList'), sweepList'[k].ended
                 PROVE  phase[sweepList'[k].run] \in {"ended", "rewound"}
      BY <1>1 DEF ListOK, Over
    <2>1. phase["turn"] \in {"live", "ended", "rewound"} /\ phase["seed"] \in {"none", "ended"}
      BY <1>0 DEF EndsLogged, MirrorTyped, MirrorRuns
    <2> QED BY <1>2, <2>1
  <1>5. clean' => clean /\ SweepAlone'
    <2> SUFFICES ASSUME \A h \in Hands : Resting(h) PROVE SweepAlone'
      BY <1>1
    <2>1. \A h \in {"executor", "request"} : hand[h].queue = <<>>
      BY DEF Resting, Hands
    <2> QED BY <1>1, <2>1 DEF SweepAlone
  <1>6. (\A h \in Hands : HandOK(h)') /\ (clean' => CleanOK')
    BY <1>1, <1>3, <1>5, QuietKeeps
  <1>7. EndsLogged' /\ ClosedRowsStay'
    BY <1>0, <1>1 DEF EndsLogged, ClosedRowsStay, Over
  <1> QED BY <1>3, <1>4, <1>6, <1>7 DEF MirrorInv, HandsOK, ListOK

\* A queue that names no model call.
NoCalls(h) == \A p \in 1..Len(hand[h].queue) : Due(hand[h].queue[p]) /\ ~IsUsage(hand[h].queue[p])

\* A restart empties the hands; at most the recovered end is handed out.
LEMMA RestartKeeps ==
    ASSUME MirrorInv, Restarts
    PROVE  MirrorInv'
  <1> USE DEF rowVars
  <1> DEFINE live == phase["turn"] = "live"
             recovered == [Rest EXCEPT !.queue = <<<<"turn", Len(logged'["turn"])>>>>]
  <1>0. /\ MirrorTyped /\ EndsLogged /\ HandsOK /\ ListOK /\ ClosedRowsStay /\ (clean => CleanOK)
        /\ "turn" \in MirrorRuns /\ "end" \in MirrorKinds
    BY DEF MirrorInv, HandsOK, ListOK, MirrorRuns, MirrorKinds
  <1>1. /\ UNCHANGED <<row, counted>>
        /\ sweepList' = (IF tied THEN SessionRuns' ELSE <<>>)
        /\ clean' = (clean /\ ~Sweeping /\ \A h \in Hands : Resting(h))
        /\ logged' = IF live THEN [logged EXCEPT !["turn"] = Append(@, Entry("end", FALSE))] ELSE logged
        /\ phase' = IF live THEN [phase EXCEPT !["turn"] = "ended"] ELSE phase
        /\ hand' = [h \in Hands |-> IF h = "request" /\ live THEN recovered ELSE Rest]
    BY DEF Restarts
  <1>2. /\ logged' \in [MirrorRuns -> Seq(LogEntries)]
        /\ phase' \in [MirrorRuns -> {"none", "live", "ended", "rewound"}]
        /\ LogGrown /\ EndsLogged'
        /\ live => /\ Len(logged'["turn"]) \in Nat /\ Len(logged'["turn"]) # 0
                   /\ logged'["turn"][Len(logged'["turn"])].kind = "end"
    <2>1. CASE live
      <3>1. phase' = [phase EXCEPT !["turn"] = IF "end" = "end" THEN "ended" ELSE @]
        BY <1>1, <2>1
      <3>2. logged' = [logged EXCEPT !["turn"] = Append(@, Entry("end", FALSE))]
        BY <1>1, <2>1
      <3>3. PICK kind \in MirrorKinds : kind = "end"
        BY <1>0
      <3>4. /\ logged' \in [MirrorRuns -> Seq(LogEntries)]
            /\ phase' \in [MirrorRuns -> {"none", "live", "ended", "rewound"}]
            /\ LogGrown /\ EndsLogged'
            /\ Len(logged["turn"]) \in Nat /\ Len(logged'["turn"]) = Len(logged["turn"]) + 1
            /\ logged'["turn"][Len(logged["turn"]) + 1].kind = kind
        BY <1>0, <2>1, <3>1, <3>2, <3>3, TurnLogged
      <3> QED BY <3>3, <3>4
    <2>2. CASE ~live
      <3>1. UNCHANGED logged /\ UNCHANGED phase
        BY <1>1, <2>2
      <3>2. LogGrown
        <4>1. \A r \in MirrorRuns : Len(logged[r]) \in Nat
          BY <1>0 DEF MirrorTyped
        <4> QED BY <3>1, <4>1 DEF LogGrown, Over
      <3>3. EndsLogged'
        BY <1>0, <3>1 DEF EndsLogged, Over
      <3> QED BY <1>0, <2>2, <3>1, <3>2, <3>3 DEF MirrorTyped
    <2> QED BY <2>1, <2>2
  <1>3. ASSUME live
        PROVE  \E new \in Seq(Pairs) : /\ recovered = [at |-> "idle", queue |-> new] /\ Len(new) = 1
                                       /\ \A e : e = new[1] => Due(e)' /\ ~IsUsage(e)'
    <2>1. PICK n \in Nat : n = Len(logged'["turn"]) /\ n # 0 /\ logged'["turn"][n].kind = "end"
      BY <1>2, <1>3
    <2>2. PICK e \in Pairs : e = <<"turn", n>> /\ e[1] = "turn" /\ e[2] = n
      <3>1. <<"turn", n>> \in Pairs
        BY <1>0 DEF Pairs
      <3> QED BY <3>1
    <2>3. PICK new \in Seq(Pairs) : new = <<e>> /\ Len(new) = 1 /\ new[1] = e
      BY OneSeq
    <2>4. recovered = [at |-> "idle", queue |-> new]
      BY <2>1, <2>2, <2>3 DEF Rest
    <2>5. Due(e)'
      BY <2>1, <2>2 DEF Due
    <2>6. ~IsUsage(e)'
      BY <2>1, <2>2 DEF IsUsage
    <2>7. \A x : x = new[1] => Due(x)' /\ ~IsUsage(x)'
      BY <2>3, <2>5, <2>6
    <2> QED BY <2>3, <2>4, <2>7
  <1>4. ASSUME NEW h \in Hands
        PROVE  /\ hand'[h] \in [at : MirrorPlaces, queue : Seq(Pairs)] /\ hand'[h].at = "idle"
               /\ NoCalls(h)'
    <2>1. "idle" \in MirrorPlaces
      BY DEF MirrorPlaces
    <2>2. CASE h = "request" /\ live
      <3>1. PICK new \in Seq(Pairs) :
               /\ recovered = [at |-> "idle", queue |-> new] /\ Len(new) = 1
               /\ \A e : e = new[1] => Due(e)' /\ ~IsUsage(e)'
        BY <1>3, <2>2
      <3>2. hand'[h] = [at |-> "idle", queue |-> new]
        BY <1>1, <2>2, <3>1
      <3>3. hand'[h].at = "idle" /\ hand'[h].queue = new
        BY <3>2
      <3>4. \A p \in 1..Len(new) : p = 1
        BY <3>1
      <3>5. NoCalls(h)'
        <4>1. PICK e : e = new[1]
          OBVIOUS
        <4>2. Due(e)' /\ ~IsUsage(e)'
          BY <3>1, <4>1
        <4>3. \A p \in 1..Len(hand'[h].queue) : hand'[h].queue[p] = e
          BY <3>3, <3>4, <4>1
        <4> QED BY <4>2, <4>3 DEF NoCalls
      <3> QED BY <2>1, <3>2, <3>3, <3>5
    <2>3. CASE ~(h = "request" /\ live)
      <3>1. hand'[h] = [at |-> "idle", queue |-> <<>>]
        BY <1>1, <2>3 DEF Rest
      <3>2. <<>> \in Seq(Pairs) /\ Len(<<>>) = 0
        OBVIOUS
      <3>3. hand'[h].at = "idle" /\ 1..Len(hand'[h].queue) = {}
        BY <3>1, <3>2
      <3> QED BY <2>1, <3>1, <3>2, <3>3 DEF NoCalls
    <2> QED BY <2>2, <2>3
  <1>5. hand' \in [Hands -> [at : MirrorPlaces, queue : Seq(Pairs)]]
    <2>1. hand' = [h \in Hands |-> hand'[h]]
      BY <1>1
    <2> QED BY <1>4, <2>1
  <1>6. /\ sweepList' \in Seq(Visits)
        /\ \A k \in 1..Len(sweepList') : sweepList'[k].ended =>
              \/ phase'["seed"] # "none" /\ sweepList'[k].run = "seed"
              \/ phase'["turn"] # "live" /\ sweepList'[k].run = "turn"
    <2>1. CASE tied
      <3>1. sweepList' = RunsOf(phase')
        BY <1>1, <2>1 DEF SessionRuns, RunsOf
      <3> QED BY <3>1, SessionVisits
    <2>2. CASE ~tied
      <3>1. sweepList' = <<>>
        BY <1>1, <2>2
      <3>2. <<>> \in Seq(Visits) /\ 1..Len(<<>>) = {}
        OBVIOUS
      <3> QED BY <3>1, <3>2
    <2> QED BY <2>1, <2>2
  <1>7. MirrorTyped'
    BY <1>0, <1>1, <1>2, <1>5, <1>6 DEF MirrorTyped
  <1>8. ListOK'
    <2> SUFFICES ASSUME NEW k \in 1..Len(sweepList'), sweepList'[k].ended
                 PROVE  phase'[sweepList'[k].run] \in {"ended", "rewound"}
      BY DEF ListOK, Over
    <2>1. phase'["turn"] \in {"live", "ended", "rewound"} /\ phase'["seed"] \in {"none", "ended"}
      BY <1>2 DEF EndsLogged, MirrorRuns
    <2> QED BY <1>6, <2>1
  <1>9. \A h \in Hands : HandOK(h)'
    BY <1>4 DEF HandOK, NoCalls
  <1>10. ClosedRowsStay'
    BY <1>0, <1>1, <1>2, ClosedStays
  <1>11. ASSUME clean'
         PROVE  CleanOK'
    <2>0. CleanOK /\ \A h \in Hands : Resting(h)
      BY <1>0, <1>1, <1>11
    <2>1. OnceHeld'
      <3>1. \A h, g \in Hands : \A p \in 1..Len(hand'[h].queue), q \in 1..Len(hand'[g].queue) :
              \A e : e = hand'[h].queue[p] /\ e = hand'[g].queue[q] /\ IsUsage(e)' => h = g /\ p = q
        <4> SUFFICES ASSUME NEW h \in Hands, NEW p \in 1..Len(hand'[h].queue),
                            NEW e, e = hand'[h].queue[p]
                     PROVE  ~IsUsage(e)'
          OBVIOUS
        <4> QED BY <1>4 DEF NoCalls, IsUsage
      <3> QED BY <3>1, OnceFrom
    <2>2. SweepAlone'
      <3>1. \A h \in {"executor", "request"} : NoCalls(h)'
        BY <1>4 DEF Hands
      <3> QED BY <3>1 DEF SweepAlone, NoCalls, IsUsage
    <2>3. ASSUME NEW r \in MirrorRuns, NEW i \in Room
          PROVE  CountOK(r, i)'
      <3> SUFFICES ASSUME counted[r][i] # 0 PROVE CountOK(r, i)'
        BY <1>1 DEF CountOK
      <3>1. /\ counted[r][i] = 1 /\ i <= Len(logged[r])
            /\ ~logged[r][i].copied /\ logged[r][i].kind = "usage"
            /\ AtMark(r, i) \/ i <= row[r].cursor
        BY <2>0 DEF CleanOK, CountOK
      <3>2. i \in Nat /\ i # 0 /\ Len(logged[r]) \in Nat /\ Len(logged'[r]) \in Nat
        BY <1>0, <1>2, MirrorAssumption DEF Room, MirrorTyped
      <3>3. logged'[r][i] = logged[r][i] /\ i <= Len(logged'[r])
        BY <1>2, <3>1, <3>2 DEF LogGrown
      <3>4. i <= row[r].cursor
        <4>1. ~AtMark(r, i)
          BY <2>0 DEF AtMark, Resting
        <4> QED BY <3>1, <4>1
      <3>5. Unheld(r, i)'
        <4> SUFFICES ASSUME NEW g \in Hands, NEW p \in 1..Len(hand'[g].queue),
                            NEW e, e = hand'[g].queue[p], e = <<r, i>>
                     PROVE  FALSE
          BY DEF Unheld
        <4>1. ~IsUsage(e)'
          BY <1>4 DEF NoCalls, IsUsage
        <4>2. e[1] = r /\ e[2] = i
          OBVIOUS
        <4> QED BY <3>1, <3>2, <3>3, <4>1, <4>2 DEF IsUsage
      <3> QED BY <1>1, <3>1, <3>3, <3>4, <3>5 DEF CountOK
    <2> QED BY <2>1, <2>2, <2>3 DEF CleanOK
  <1> QED BY <1>2, <1>7, <1>8, <1>9, <1>10, <1>11 DEF MirrorInv, HandsOK, ListOK

\* What the sweep hands out: the events above the mark, and the closing of an ended run.
Swept(r, c, last, visit) == Seqs(r, c + 1, last) \o (IF visit.ended THEN <<<<r, 0>>>> ELSE <<>>)
AboveMark(new, r, c, last, visit) ==
    /\ new \in Seq(Pairs)
    /\ \A p \in 1..Len(new) : \/ new[p] = <<r, c + p>> /\ c + p \in Nat /\ c < c + p /\ c + p <= last
                              \/ visit.ended /\ new[p] = <<r, 0>>
LEMMA SweptEvents ==
    ASSUME NEW r \in MirrorRuns, NEW c \in Nat, NEW last \in Nat, NEW visit
    PROVE  AboveMark(Swept(r, c, last, visit), r, c, last, visit)
  <1>0. PICK new : new = Swept(r, c, last, visit)
    OBVIOUS
  <1> SUFFICES /\ new \in Seq(Pairs)
               /\ \A p \in 1..Len(new) :
                     \/ new[p] = <<r, c + p>> /\ c + p \in Nat /\ c < c + p /\ c + p <= last
                     \/ visit.ended /\ new[p] = <<r, 0>>
    BY <1>0 DEF AboveMark
  <1>1. PICK ev \in Seq(Pairs) : /\ ev = Seqs(r, c + 1, last) /\ Len(ev) \in Nat
                                 /\ \A p \in 1..Len(ev) : ev[p] = <<r, c + 1 + p - 1>>
                                                         /\ c + 1 + p - 1 \in (c + 1)..last
    <2>1. PICK from \in Nat : from = c + 1
      OBVIOUS
    <2>2. /\ Seqs(r, from, last) \in Seq(Pairs) /\ Len(Seqs(r, from, last)) \in Nat
          /\ \A p \in 1..Len(Seqs(r, from, last)) :
                Seqs(r, from, last)[p] = <<r, from + p - 1>> /\ from + p - 1 \in from..last
      BY SeqsEffect
    <2> QED BY <2>1, <2>2
  <1>2. \A p \in 1..Len(ev) : ev[p] = <<r, c + p>> /\ c + p \in Nat /\ c < c + p /\ c + p <= last
    <2> SUFFICES ASSUME NEW p \in 1..Len(ev)
                 PROVE  ev[p] = <<r, c + p>> /\ c + p \in Nat /\ c < c + p /\ c + p <= last
      OBVIOUS
    <2>1. c + 1 + p - 1 = c + p /\ c + p \in Nat /\ c < c + p
      BY <1>1
    <2> QED BY <1>1, <2>1
  <1>3. CASE visit.ended
    <2>1. PICK z \in Pairs : z = <<r, 0>>
      <3>1. <<r, 0>> \in Pairs
        BY DEF Pairs
      <3> QED BY <3>1
    <2>2. PICK u \in Seq(Pairs) : u = <<z>> /\ Len(u) = 1 /\ u[1] = z
      BY OneSeq
    <2>3. PICK s : s = ev \o u
      OBVIOUS
    <2>4. Len(u) = 1
      BY <2>2
    <2>5. /\ s \in Seq(Pairs) /\ Len(s) = Len(ev) + 1 /\ s[Len(ev) + 1] = u[1]
          /\ \A p \in 1..Len(ev) : s[p] = ev[p]
      BY <2>3, <2>4, OneMore
    <2>6. s = new
      BY <1>0, <1>1, <1>3, <2>1, <2>2, <2>3 DEF Swept
    <2>7. \A p \in 1..Len(s) : p \in 1..Len(ev) \/ p = Len(ev) + 1
      BY <1>1, <2>5
    <2> QED BY <1>2, <1>3, <2>1, <2>2, <2>5, <2>6, <2>7
  <1>4. CASE ~visit.ended
    <2>1. ev \o <<>> = ev
      BY ConcatEmptySeq
    <2>2. new = ev
      BY <1>0, <1>1, <1>4, <2>1 DEF Swept
    <2> QED BY <1>2, <2>2
  <1> QED BY <1>3, <1>4

LEMMA SweepReadsKeeps ==
    ASSUME MirrorInv, SweepReads
    PROVE  MirrorInv'
  <1> USE DEF rowVars, logVars
  <1>0. /\ MirrorTyped /\ EndsLogged /\ HandsOK /\ ListOK /\ ClosedRowsStay /\ (clean => CleanOK)
        /\ "sweep" \in Hands
    BY DEF MirrorInv, HandsOK, ListOK, Hands
  <1>1. /\ Resting("sweep") /\ sweepList # <<>> /\ sweepList' = Tail(sweepList)
        /\ UNCHANGED <<logged, phase, row, counted, clean>>
    BY DEF SweepReads
  <1>2. PICK list \in Seq(Visits) : list = sweepList /\ list # <<>>
    BY <1>0, <1>1 DEF MirrorTyped
  <1>3. /\ 1 \in 1..Len(list) /\ Head(list) = list[1] /\ Head(list) \in Visits
        /\ Tail(list) \in Seq(Visits) /\ Len(Tail(list)) = Len(list) - 1 /\ Len(list) \in Nat
        /\ \A k \in 1..Len(Tail(list)) : Tail(list)[k] = list[k + 1]
    BY <1>2
  <1>4. PICK r \in MirrorRuns : r = Head(sweepList).run
    BY <1>2, <1>3 DEF Visits
  <1>5. PICK c \in Nat : c = row[r].cursor
    <2>1. row[r] \in TableRows
      BY <1>0 DEF MirrorTyped
    <2> QED BY <2>1 DEF TableRows
  <1>6. PICK n \in Nat : n = Len(logged[r])
    BY <1>0 DEF MirrorTyped
  <1>7. PICK last \in Nat : last = (IF n < c + MaxSweep THEN n ELSE c + MaxSweep) /\ last <= n
    <2>1. MaxSweep \in Nat
      BY MirrorAssumption
    <2>2. (IF n < c + MaxSweep THEN n ELSE c + MaxSweep) \in Nat
          /\ (IF n < c + MaxSweep THEN n ELSE c + MaxSweep) <= n
      BY <2>1
    <2> QED BY <2>2
  <1>8. PICK new : /\ new = Seqs(r, c + 1, last) \o (IF Head(sweepList).ended THEN <<<<r, 0>>>> ELSE <<>>)
                   /\ Given("sweep", new)
    BY <1>4, <1>5, <1>6, <1>7 DEF SweepReads
  <1>9. /\ new \in Seq(Pairs)
        /\ \A p \in 1..Len(new) : \/ new[p] = <<r, c + p>> /\ c + p \in Nat /\ c < c + p /\ c + p <= last
                                  \/ Head(sweepList).ended /\ new[p] = <<r, 0>>
    <2>1. new = Swept(r, c, last, Head(sweepList))
      BY <1>8 DEF Swept
    <2>2. AboveMark(Swept(r, c, last, Head(sweepList)), r, c, last, Head(sweepList))
      BY SweptEvents
    <2>3. AboveMark(new, r, c, last, Head(sweepList))
      BY <2>1, <2>2
    <2> QED BY <2>3 DEF AboveMark
  <1>10. hand["sweep"].at = "idle" /\ hand["sweep"].queue = <<>>
    BY <1>1 DEF Resting
  <1>11. /\ hand' \in [Hands -> [at : MirrorPlaces, queue : Seq(Pairs)]]
         /\ hand'["sweep"].at = "idle" /\ hand'["sweep"].queue = new /\ OthersStay("sweep")
    BY <1>0, <1>8, <1>9, <1>10, Gives
  <1>12. MirrorTyped'
    BY <1>0, <1>1, <1>2, <1>3, <1>11 DEF MirrorTyped
  <1>13. LogGrown
    <2>1. \A x \in MirrorRuns : Len(logged[x]) \in Nat
      BY <1>0 DEF MirrorTyped
    <2> QED BY <1>1, <2>1 DEF LogGrown, Over
  <1>14. Head(sweepList).ended => Over(r)
    BY <1>0, <1>2, <1>3, <1>4 DEF ListOK
  <1>15. \A p \in 1..Len(new) : Due(new[p])'
    <2> SUFFICES ASSUME NEW p \in 1..Len(new), NEW e, e = new[p]
                 PROVE  Due(e)'
      OBVIOUS
    <2>1. CASE new[p] = <<r, c + p>> /\ c + p \in Nat /\ c < c + p /\ c + p <= last
      <3>1. PICK i \in Nat : i = c + p /\ i # 0 /\ i <= n
        BY <1>7, <2>1
      <3>2. e = <<r, i>>
        BY <2>1, <3>1
      <3> QED BY <1>1, <1>6, <3>1, <3>2 DEF Due
    <2>2. CASE Head(sweepList).ended /\ new[p] = <<r, 0>>
      <3>1. Over(r)'
        BY <1>1, <1>14, <2>2 DEF Over
      <3> QED BY <1>1, <1>6, <2>2, <3>1 DEF Due
    <2> QED BY <1>9, <2>1, <2>2
  <1>16. clean' => clean /\ SweepAlone'
    <2> SUFFICES ASSUME clean PROVE SweepAlone'
      BY <1>1
    <2>1. \A h \in {"executor", "request"} : hand'[h] = hand[h]
      BY <1>11 DEF OthersStay, Hands
    <2>2. \A h \in {"executor", "request"} : \A p \in 1..Len(hand[h].queue) : ~IsUsage(hand[h].queue[p])
      BY <1>0, <1>1 DEF CleanOK, SweepAlone, Sweeping
    <2> QED BY <1>1, <2>1, <2>2 DEF SweepAlone, IsUsage
  <1>17. ASSUME clean', NEW i \in Nat, c < i, i # 0, i <= n, logged[r][i].kind = "usage"
         PROVE  Unheld(r, i) /\ (i \in Room => counted[r][i] = 0)
    <2>1. clean /\ CleanOK /\ Sweeping
      BY <1>0, <1>1, <1>17 DEF Sweeping
    <2>2. Unheld(r, i)
      <3> SUFFICES ASSUME NEW g \in Hands, NEW p \in 1..Len(hand[g].queue),
                          NEW e, e = hand[g].queue[p], e = <<r, i>>
                   PROVE  FALSE
        BY DEF Unheld
      <3>1. IsUsage(e)
        BY <1>17 DEF IsUsage
      <3>2. CASE g = "sweep"
        <4>1. 1..Len(hand[g].queue) = {}
          BY <1>10, <3>2
        <4> QED BY <4>1
      <3>3. CASE g # "sweep"
        <4>1. g \in {"executor", "request"}
          BY <3>3 DEF Hands
        <4> QED BY <2>1, <3>1, <4>1 DEF CleanOK, SweepAlone
      <3> QED BY <3>2, <3>3
    <2>3. ASSUME i \in Room, counted[r][i] # 0
          PROVE  FALSE
      <3>1. AtMark(r, i) \/ i <= c
        BY <1>5, <2>1, <2>3 DEF CleanOK, CountOK
      <3>2. PICK g \in Hands : hand[g].at = "mark" /\ hand[g].queue[1] = <<r, i>>
        BY <1>17, <3>1 DEF AtMark
      <3>3. 1 \in 1..Len(hand[g].queue)
        BY <1>0, <3>2, HandTypes DEF HandsOK, HandOK
      <3> QED BY <2>2, <3>2, <3>3 DEF Unheld
    <2> QED BY <2>2, <2>3
  <1>18. ASSUME clean', NEW p \in 1..Len(new), IsUsage(new[p])'
         PROVE  Fresh(new[p]) /\ \A q \in 1..Len(new) : new[q] = new[p] => q = p
    <2>0. PICK e : e = new[p]
      OBVIOUS
    <2>1. IsUsage(e)'
      BY <1>18, <2>0 DEF IsUsage
    <2>2. new[p] = <<r, c + p>> /\ c + p \in Nat /\ c < c + p /\ c + p <= last
      <3>1. e # <<r, 0>>
        BY <2>1 DEF IsUsage
      <3> QED BY <1>9, <2>0, <3>1
    <2>3. PICK i \in Nat : i = c + p /\ c < i /\ i # 0 /\ i <= n
      BY <1>7, <2>2
    <2>4. e = <<r, i>> /\ e[1] = r /\ e[2] = i
      BY <2>0, <2>2, <2>3
    <2>5. logged[r][i].kind = "usage"
      BY <1>1, <2>1, <2>4 DEF IsUsage
    <2>6. Fresh(new[p])
      BY <1>17, <1>18, <2>0, <2>3, <2>4, <2>5 DEF Fresh
    <2>7. ASSUME NEW q \in 1..Len(new), new[q] = new[p]
          PROVE  q = p
      <3>1. q \in Nat /\ p \in Nat
        BY <1>9
      <3>2. new[q] = <<r, c + q>>
        BY <1>9, <2>0, <2>3, <2>4, <2>7
      <3>3. c + q = c + p
        BY <2>2, <2>7, <3>2
      <3> QED BY <3>1, <3>3
    <2> QED BY <2>6, <2>7
  <1>19. (\A g \in Hands : HandOK(g)') /\ (clean' => CleanOK')
    BY <1>0, <1>1, <1>9, <1>11, <1>12, <1>13, <1>15, <1>16, <1>18, HandedKeeps
  <1>20. ListOK'
    <2> SUFFICES ASSUME NEW k \in 1..Len(sweepList'), sweepList'[k].ended
                 PROVE  phase'[sweepList'[k].run] \in {"ended", "rewound"}
      BY DEF ListOK, Over
    <2>1. k + 1 \in 1..Len(list) /\ sweepList'[k] = list[k + 1]
      BY <1>1, <1>2, <1>3
    <2>2. Over(list[k + 1].run)
      BY <1>0, <1>2, <2>1 DEF ListOK
    <2> QED BY <1>1, <2>1, <2>2 DEF Over
  <1>21. EndsLogged' /\ ClosedRowsStay'
    BY <1>0, <1>1 DEF EndsLogged, ClosedRowsStay, Over
  <1> QED BY <1>12, <1>19, <1>20, <1>21 DEF MirrorInv, HandsOK, ListOK

\* A step that touches nothing the invariant speaks of.
LEMMA IdleKeeps ==
    ASSUME MirrorInv, UNCHANGED <<logged, phase, row, counted, hand, sweepList, clean>>
    PROVE  MirrorInv'
  <1>1. MirrorTyped' /\ EndsLogged' /\ ClosedRowsStay'
    BY DEF MirrorInv, MirrorTyped, EndsLogged, ClosedRowsStay, Over
  <1>2. HandsOK'
    BY DEF MirrorInv, HandsOK, HandOK, Due, AtWork, Over
  <1>3. ASSUME clean'
        PROVE  CleanOK'
    <2>0. CleanOK
      BY <1>3 DEF MirrorInv
    <2>1. OnceHeld'
      <3> SUFFICES ASSUME NEW h \in Hands, NEW g \in Hands,
                          NEW p \in 1..Len(hand'[h].queue), NEW q \in 1..Len(hand'[g].queue),
                          NEW e, e = hand'[h].queue[p], e = hand'[g].queue[q], IsUsage(e)'
                   PROVE  h = g /\ p = q
        BY OnceFrom
      <3>1. IsUsage(e)
        BY DEF IsUsage
      <3>2. p \in 1..Len(hand[h].queue) /\ q \in 1..Len(hand[g].queue)
            /\ e = hand[h].queue[p] /\ e = hand[g].queue[q]
        OBVIOUS
      <3> QED BY <2>0, <3>1, <3>2 DEF CleanOK, OnceHeld
    <2>2. SweepAlone'
      BY <2>0 DEF CleanOK, SweepAlone, IsUsage, Sweeping, Resting
    <2>3. \A r \in MirrorRuns : \A i \in Room : CountOK(r, i)'
      BY <2>0 DEF CleanOK, CountOK, AtMark, Unheld
    <2> QED BY <2>1, <2>2, <2>3 DEF CleanOK
  <1> QED BY <1>1, <1>2, <1>3 DEF MirrorInv

-----------------------------------------------------------------------------
(* The invariant holds *)

LEMMA MirrorStarts ==
    ASSUME MirrorInit
    PROVE  MirrorInv
  <1>1. PICK one \in Seq(LogEntries) : one = <<Entry("start", FALSE)>> /\ Len(one) = 1 /\ one[1].kind = "start"
    <2>1. PICK e \in LogEntries : e = Entry("start", FALSE) /\ e.kind = "start"
      <3>1. Entry("start", FALSE) \in LogEntries /\ Entry("start", FALSE).kind = "start"
        BY DEF Entry, LogEntries, MirrorKinds
      <3> QED BY <3>1
    <2>2. <<e>> \in Seq(LogEntries) /\ Len(<<e>>) = 1 /\ <<e>>[1] = e
      OBVIOUS
    <2> QED BY <2>1, <2>2
  <1>2. PICK first \in Seq(Pairs) : first = <<<<"turn", 1>>>> /\ Len(first) = 1 /\ first[1] = <<"turn", 1>>
    <2>1. PICK e \in Pairs : e = <<"turn", 1>>
      <3>1. <<"turn", 1>> \in Pairs
        BY DEF Pairs, MirrorRuns
      <3> QED BY <3>1
    <2> QED BY <2>1, OneSeq
  <1>3. <<>> \in Seq(LogEntries) /\ <<>> \in Seq(Pairs) /\ <<>> \in Seq(Visits) /\ Len(<<>>) = 0
    OBVIOUS
  <1>4. /\ logged = [r \in MirrorRuns |-> IF r = "turn" THEN one ELSE <<>>]
        /\ phase = [r \in MirrorRuns |-> IF r = "turn" THEN "live" ELSE "none"]
        /\ row = [r \in MirrorRuns |-> NoRow]
        /\ counted = [r \in MirrorRuns |-> [i \in Room |-> 0]]
        /\ sweepList = <<>>
    BY <1>1 DEF MirrorInit, Room
  <1>5. hand = [h \in Hands |-> [at |-> "idle", queue |-> IF h = "executor" THEN first ELSE <<>>]]
    <2>1. [Rest EXCEPT !.queue = <<<<"turn", 1>>>>] = [at |-> "idle", queue |-> first]
      BY <1>2 DEF Rest
    <2>2. Rest = [at |-> "idle", queue |-> <<>>]
      BY DEF Rest
    <2>3. hand = [h \in Hands |-> IF h = "executor" THEN [Rest EXCEPT !.queue = <<<<"turn", 1>>>>] ELSE Rest]
      BY DEF MirrorInit
    <2> QED BY <2>1, <2>2, <2>3
  <1>6. MirrorTyped
    <2>1. NoRow \in TableRows
      BY DEF NoRow, TableRows, OpenStatus
    <2>2. "idle" \in MirrorPlaces
      BY DEF MirrorPlaces
    <2>3. logged \in [MirrorRuns -> Seq(LogEntries)]
      BY <1>1, <1>3, <1>4
    <2>4. phase \in [MirrorRuns -> {"none", "live", "ended", "rewound"}]
      BY <1>4
    <2>5. row \in [MirrorRuns -> TableRows]
      BY <1>4, <2>1
    <2>6. counted \in [MirrorRuns -> [Room -> Nat]]
      BY <1>4
    <2>7. hand \in [Hands -> [at : MirrorPlaces, queue : Seq(Pairs)]]
      BY <1>2, <1>3, <1>5, <2>2
    <2>8. sweepList \in Seq(Visits)
      BY <1>3, <1>4
    <2> QED BY <2>3, <2>4, <2>5, <2>6, <2>7, <2>8 DEF MirrorTyped
  <1>7. /\ logged["turn"] = one /\ logged["seed"] = <<>> /\ phase["turn"] = "live" /\ phase["seed"] = "none"
    BY <1>4 DEF MirrorRuns
  <1>0. Len(one) = 1 /\ one[1].kind = "start"
    BY <1>1
  <1>8. EndsLogged
    <2>1. \A i \in 1..Len(one) : one[i].kind # "end"
      <3>1. \A i \in 1..Len(one) : i = 1
        BY <1>0
      <3> QED BY <1>0, <3>1
    <2>2. 1..Len(logged["seed"]) = {} /\ Len(logged["seed"]) = 0
      BY <1>3, <1>7
    <2>3. 1 <= MaxMirrored + 0
      BY MirrorAssumption
    <2>4. \A r \in MirrorRuns : \A i \in 1..Len(logged[r]) : logged[r][i].kind = "end" => Over(r)
      BY <1>7, <2>1, <2>2 DEF MirrorRuns
    <2>5. Len(logged["turn"]) <= MaxMirrored + (IF Over("turn") THEN 1 ELSE 0)
      BY <1>0, <1>7, <2>3 DEF Over
    <2>6. /\ phase["turn"] # "none" /\ phase["seed"] \in {"none", "ended"}
          /\ Len(logged["seed"]) <= IF phase["seed"] = "none" THEN 0 ELSE 3
      BY <1>7, <2>2
    <2> QED BY <2>4, <2>5, <2>6 DEF EndsLogged
  <1>9. \A h \in Hands : hand[h].at = "idle" /\ \A p \in 1..Len(hand[h].queue) : hand[h].queue[p] = <<"turn", 1>>
    <2> SUFFICES ASSUME NEW h \in Hands
                 PROVE  hand[h].at = "idle" /\ \A p \in 1..Len(hand[h].queue) : hand[h].queue[p] = <<"turn", 1>>
      OBVIOUS
    <2>1. CASE h = "executor"
      BY <1>2, <1>5, <2>1
    <2>2. CASE h # "executor"
      <3>1. hand[h].at = "idle" /\ hand[h].queue = <<>>
        BY <1>5, <2>2
      <3>2. 1..Len(hand[h].queue) = {}
        BY <1>3, <3>1
      <3> QED BY <3>1, <3>2
    <2> QED BY <2>1, <2>2
  <1>10. Due(<<"turn", 1>>) /\ ~IsUsage(<<"turn", 1>>)
    <2>1. Len(logged["turn"]) = 1 /\ logged["turn"][1].kind = "start"
      BY <1>0, <1>7
    <2>2. Due(<<"turn", 1>>)
      BY <2>1 DEF Due
    <2>3. ~IsUsage(<<"turn", 1>>)
      BY <2>1 DEF IsUsage
    <2> QED BY <2>2, <2>3
  <1>11. HandsOK
    <2>1. 1..Len(sweepList) = {}
      BY <1>3, <1>4
    <2> QED BY <1>9, <1>10, <2>1 DEF HandsOK, HandOK
  <1>12. ClosedRowsStay
    BY <1>4 DEF ClosedRowsStay, NoRow
  <1>13. CleanOK
    <2>1. OnceHeld /\ SweepAlone
      BY <1>9, <1>10 DEF OnceHeld, SweepAlone, Hands
    <2>2. \A r \in MirrorRuns : \A i \in Room : CountOK(r, i)
      BY <1>4 DEF CountOK
    <2> QED BY <2>1, <2>2 DEF CleanOK
  <1> QED BY <1>6, <1>8, <1>11, <1>12, <1>13 DEF MirrorInv

LEMMA MirrorSteps ==
    ASSUME MirrorInv, [MirrorNext]_mirrorVars
    PROVE  MirrorInv'
  <1>1. CASE \E h \in {"executor", "request"} :
               \E kind \in {"text", "usage", "asked", "answered", "end"} : LogsEvent(h, kind)
    <2>1. \A kind \in {"text", "usage", "asked", "answered", "end"} : kind \in MirrorKinds
      BY DEF MirrorKinds
    <2> QED BY <1>1, <2>1, LogsEventKeeps
  <1>2. CASE RewindsSession
    BY <1>2, RewindKeeps
  <1>3. CASE Links
    BY <1>3, LinksKeeps
  <1>4. CASE Restarts
    BY <1>4, RestartKeeps
  <1>5. CASE StartUpEnds
    BY <1>5, IdleKeeps DEF StartUpEnds, logVars, rowVars
  <1>6. CASE SweepReads
    BY <1>6, SweepReadsKeeps
  <1>7. ASSUME NEW h \in Hands, ProjectStep(h)
        PROVE  MirrorInv'
    <2>1. /\ UNCHANGED <<logVars, sweepList>> /\ RowsGrow
          /\ Leaves(h) \/ \E at \in MirrorPlaces : GoesOn(h, at)
      BY <1>7, ProjectEffects DEF MirrorInv
    <2>2. CASE Leaves(h)
      BY <2>1, <2>2, LeavesKeeps
    <2>3. CASE \E at \in MirrorPlaces : GoesOn(h, at)
      BY <2>1, <2>3, GoesOnKeeps
    <2> QED BY <2>1, <2>2, <2>3
  <1>8. CASE UNCHANGED mirrorVars
    BY <1>8, IdleKeeps DEF mirrorVars
  <1> QED BY <1>1, <1>2, <1>3, <1>4, <1>5, <1>6, <1>7, <1>8 DEF MirrorNext, ProjectStep

\* The legacy tables tell the truth about a run: a row that says its run has ended is right and is
\* never opened again, and as long as no failure, crash or link falls into a projection a model
\* call is counted in spend_log at most once and a rewind's copy never (legacy/mirror.rs project,
\* the sweep and close_terminal_run, set_run_mirror_cursor).
THEOREM MirrorTellsTheTruth == MirrorSpec => []MirrorIsTrue
  <1>1. MirrorInit => MirrorInv
    BY MirrorStarts
  <1>2. MirrorInv /\ [MirrorNext]_mirrorVars => MirrorInv'
    BY MirrorSteps
  <1>3. ASSUME MirrorInv
        PROVE  MirrorIsTrue
    <2>0. MirrorTyped /\ EndsLogged /\ ClosedRowsStay /\ (clean => CleanOK)
      BY <1>3 DEF MirrorInv
    <2>1. ASSUME clean, NEW r \in MirrorRuns, NEW i \in DOMAIN logged[r]
          PROVE  counted[r][i] <= IF logged[r][i].copied THEN 0 ELSE 1
      <3>1. PICK n \in Nat : n = Len(logged[r]) /\ DOMAIN logged[r] = 1..n
        BY <2>0 DEF MirrorTyped
      <3>2. MaxMirrored \in Nat /\ MaxMirrored # 0
        BY MirrorAssumption
      <3>3. n <= MaxMirrored + 2
        <4>1. n <= MaxMirrored + 1 \/ n <= 3
          BY <2>0, <3>1, <3>2 DEF EndsLogged, MirrorRuns
        <4> QED BY <3>2, <4>1
      <3>4. i \in Room
        BY <2>1, <3>1, <3>2, <3>3 DEF Room
      <3>5. CountOK(r, i)
        BY <2>0, <2>1, <3>4 DEF CleanOK
      <3> QED BY <3>5 DEF CountOK
    <2> QED BY <2>0, <2>1 DEF MirrorIsTrue, SpendCountedOnce
  <1> QED BY <1>1, <1>2, <1>3, PTL DEF MirrorSpec

=============================================================================
