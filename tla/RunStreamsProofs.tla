--------------------------- MODULE RunStreamsProofs ---------------------------
(***************************************************************************)
(* What a reader of a run may miss, proved for any connections, handlers,  *)
(* buffer and page sizes and any length of the run: however the fan-outs   *)
(* of its writers, the registrations, replays, overruns and reconnections  *)
(* of its streams interleave, a stream that is not the owner's passes over *)
(* an event only when that event was fanned out after a later one; and an  *)
(* editor is shown the run of its prompt in order, each event once, and    *)
(* all that the loop logged by the time a prompt not cancelled is answered.*)
(***************************************************************************)
EXTENDS RunStreams, AcpBridge, SequenceTheorems, WellFoundedInduction, NaturalsInduction, TLAPS

-----------------------------------------------------------------------------
(* Types *)

Steps == {"idle", "appended", "targeted", "published"}
Frames == [events : Seq(Nat), lagged : BOOLEAN]
Writing == [step : Steps, seq : Nat, terminal : BOOLEAN, targets : SUBSET Conns, to : Conns]
Streaming == [phase : Phases, cursor : Nat, backlog : Seq(Nat), already : BOOLEAN]
Typed ==
    /\ last \in Nat /\ last > 0 /\ ended \in BOOLEAN /\ owned \in BOOLEAN /\ reopens \in Nat
    /\ writing \in [Writers -> Writing]
    /\ registered \in SUBSET Conns
    /\ buffer \in [Conns -> Frames]
    /\ stream \in [Conns -> Streaming]
    /\ heard \in [Conns -> SUBSET Nat] /\ sent \in SUBSET Nat /\ overtaken \in SUBSET Nat

\* What a buffer is after it received an event: longer by it, or marked as overrun.
Longer(old, new, seq) ==
    /\ \A j \in 1..Len(new.events) :
          new.events[j] = seq \/ \E i \in 1..Len(old.events) : new.events[j] = old.events[i]
    /\ new.lagged \/ /\ ~old.lagged
                     /\ Len(new.events) = Len(old.events) + 1
                     /\ new.events[Len(old.events) + 1] = seq
                     /\ \A i \in 1..Len(old.events) : new.events[i] = old.events[i]

LEMMA ReceiveEffect ==
    ASSUME NEW old \in Frames, NEW seq \in Nat
    PROVE  Receive(old, seq) \in Frames /\ Longer(old, Receive(old, seq), seq)
  <1>1. PICK e \in Seq(Nat), l \in BOOLEAN : old = [events |-> e, lagged |-> l]
    BY DEF Frames
  <1>2. CASE Len(e) < Buffer
    <2>1. Receive(old, seq) = [events |-> Append(e, seq), lagged |-> l]
      BY <1>1, <1>2 DEF Receive
    <2>2. PICK n : n = Append(e, seq)
      OBVIOUS
    <2>3. n \in Seq(Nat) /\ Len(n) = Len(e) + 1 /\ n[Len(e) + 1] = seq
          /\ \A i \in 1..Len(e) : n[i] = e[i]
      BY <2>2
    <2>4. \A j \in 1..Len(n) : j \in 1..Len(e) \/ j = Len(e) + 1
      BY <2>3
    <2>5. PICK r : r = Receive(old, seq)
      OBVIOUS
    <2>6. r \in Frames
      BY <2>1, <2>2, <2>3, <2>5 DEF Frames
    <2>7. r.events = n /\ r.lagged = l /\ old.events = e /\ old.lagged = l
      BY <1>1, <2>1, <2>2, <2>5
    <2>8. \A j \in 1..Len(n) : n[j] = seq \/ \E i \in 1..Len(e) : n[j] = e[i]
      BY <2>3, <2>4
    <2>9. Longer(old, r, seq)
      BY <2>3, <2>7, <2>8 DEF Longer
    <2> QED BY <2>5, <2>6, <2>9
  <1>3. CASE ~(Len(e) < Buffer)
    <2>1. Receive(old, seq) = [events |-> Append(Tail(e), seq), lagged |-> TRUE]
      BY <1>1, <1>3 DEF Receive
    <2>2. Len(e) > 0
      BY <1>3, StreamsAssumption
    <2>3. PICK t : t = Tail(e)
      OBVIOUS
    <2>4. t \in Seq(Nat) /\ Len(t) = Len(e) - 1 /\ \A i \in 1..Len(t) : t[i] = e[i + 1]
      BY <2>2, <2>3
    <2>5. PICK n : n = Append(t, seq)
      OBVIOUS
    <2>6. n \in Seq(Nat) /\ Len(n) = Len(e) /\ n[Len(n)] = seq
          /\ \A i \in 1..Len(t) : n[i] = t[i]
      BY <2>4, <2>5
    <2>7. \A j \in 1..Len(n) : j = Len(n) \/ (j \in 1..Len(t) /\ j + 1 \in 1..Len(e))
      BY <2>4, <2>6
    <2>8. \A j \in 1..Len(n) : n[j] = seq \/ \E i \in 1..Len(e) : n[j] = e[i]
      BY <2>4, <2>6, <2>7
    <2>9. PICK r : r = Receive(old, seq)
      OBVIOUS
    <2>10. r \in Frames
      BY <2>1, <2>3, <2>5, <2>6, <2>9 DEF Frames
    <2>11. r.events = n /\ r.lagged = TRUE /\ old.events = e
      BY <1>1, <2>1, <2>3, <2>5, <2>9
    <2>12. Longer(old, r, seq)
      BY <2>8, <2>11 DEF Longer
    <2> QED BY <2>9, <2>10, <2>12
  <1> QED BY <1>2, <1>3

\* What sending an event does to each buffer.
LEMMA SendEffect ==
    ASSUME Typed, NEW cs, NEW seq \in Nat, SendTo(cs, seq)
    PROVE  /\ buffer' \in [Conns -> Frames]
           /\ \A c \in Conns : \/ buffer'[c] = buffer[c] /\ ~(c \in cs /\ Listening(c))
                               \/ Longer(buffer[c], buffer'[c], seq)
  <1> HIDE DEF Frames
  <1>1. \A c \in Conns : buffer[c] \in Frames
    BY DEF Typed
  <1>2. \A c \in Conns : /\ Receive(buffer[c], seq) \in Frames
                         /\ Longer(buffer[c], Receive(buffer[c], seq), seq)
    BY <1>1, ReceiveEffect
  <1> QED BY <1>1, <1>2 DEF SendTo

\* A page holds the events after the cursor, in their order.
LEMMA PageEvents ==
    ASSUME Typed, NEW cursor \in Nat
    PROVE  /\ Page(cursor) \in Seq(Nat)
           /\ \A i \in 1..Len(Page(cursor)) : /\ Page(cursor)[i] = cursor + i
                                              /\ Page(cursor)[i] <= last
  <1>1. PICK size \in Int : /\ size = IF last - cursor < PageLimit THEN last - cursor ELSE PageLimit
                            /\ size <= last - cursor
    BY StreamsAssumption DEF Typed
  <1>2. PICK p : p = [i \in 1..size |-> cursor + i]
    OBVIOUS
  <1>3. Page(cursor) = p
    BY <1>1, <1>2 DEF Page
  <1>4. CASE size >= 0
    <2>1. p \in Seq(Nat) /\ Len(p) = size
      BY <1>2, <1>4
    <2>2. \A i \in 1..size : cursor + i <= last
      BY <1>1 DEF Typed
    <2> QED BY <1>2, <1>3, <2>1, <2>2
  <1>5. CASE size < 0
    <2>1. 1..size = {}
      BY <1>5
    <2>2. p = <<>>
      BY <1>2, <2>1
    <2> QED BY <1>3, <2>2
  <1> QED BY <1>4, <1>5

LEMMA WriterSteps ==
    ASSUME Typed, NEW w \in Writers, Appends(w) \/ PublishStep(w)
    PROVE  Typed'
  <1> USE DEF logVars
  <1>1. writing[w] \in Writing /\ writing[w].seq \in Nat /\ writing[w].targets \in SUBSET Conns
    BY DEF Typed, Writing
  <1>2. CASE Appends(w)
    <2>1. last' \in Nat /\ last' > 0 /\ ended' \in BOOLEAN
      BY <1>2 DEF Appends, Typed
    <2>2. PICK c \in Conns : writing' = [writing EXCEPT ![w] =
              [step |-> "appended", seq |-> last', terminal |-> ended', targets |-> {}, to |-> c]]
      BY <1>2 DEF Appends
    <2>3. [step |-> "appended", seq |-> last', terminal |-> ended', targets |-> {}, to |-> c] \in Writing
      BY <2>1 DEF Writing, Steps
    <2>4. writing' \in [Writers -> Writing]
      BY <2>2, <2>3 DEF Typed
    <2> QED BY <1>2, <2>1, <2>4 DEF Appends, Typed
  <1>3. CASE Targets(w)
    <2>1. PICK t : t = IF owned THEN registered \ {Owner} ELSE registered
      OBVIOUS
    <2>2. t \in SUBSET Conns
      BY <2>1 DEF Typed
    <2>3. writing' = [writing EXCEPT ![w] = [@ EXCEPT !.step = "targeted", !.targets = t]]
      BY <1>3, <2>1 DEF Targets, Typed, Writing
    <2>4. [writing[w] EXCEPT !.step = "targeted", !.targets = t] \in Writing
      BY <1>1, <2>2 DEF Writing, Steps
    <2>5. writing' \in [Writers -> Writing]
      BY <2>3, <2>4 DEF Typed
    <2> QED BY <1>3, <2>5 DEF Targets, Typed
  <1>4. CASE Delivers(w)
    <2>1. buffer' \in [Conns -> Frames]
      BY <1>1, <1>4, SendEffect DEF Delivers
    <2>2. [writing[w] EXCEPT !.step = "published"] \in Writing
      BY <1>1 DEF Writing, Steps
    <2>3. writing' \in [Writers -> Writing]
      BY <1>4, <2>2 DEF Delivers, Typed
    <2>4. sent' \in SUBSET Nat /\ overtaken' \in SUBSET Nat
      BY <1>1, <1>4 DEF Delivers, Typed
    <2> QED BY <1>4, <2>1, <2>3, <2>4 DEF Delivers, Typed
  <1>5. CASE Finishes(w)
    <2>1. buffer' \in [Conns -> Frames]
      BY <1>1, <1>5, SendEffect DEF Finishes
    <2>2. Idle \in Writing
      BY StreamsAssumption DEF Idle, Writing, Steps
    <2>3. writing' \in [Writers -> Writing]
      BY <1>5, <2>2 DEF Finishes, Typed
    <2>4. registered' \in SUBSET Conns /\ owned' \in BOOLEAN
      BY <1>5 DEF Finishes, Typed
    <2> QED BY <1>5, <2>1, <2>3, <2>4 DEF Finishes, Typed
  <1> QED BY <1>2, <1>3, <1>4, <1>5 DEF PublishStep

\* What a step of a stream does: the stream, its buffer and what its reader has; nothing of
\* another connection.
Others(c) ==
    \A d \in Conns \ {c} : /\ stream'[d] = stream[d] /\ buffer'[d] = buffer[d]
                           /\ heard'[d] = heard[d]
                           /\ d \in registered => d \in registered'
Turned(c, phase, cursor, backlog, already) ==
    /\ stream'[c].phase = phase /\ stream'[c].cursor = cursor
    /\ stream'[c].backlog = backlog /\ stream'[c].already = already
Silent(c) == buffer'[c] = buffer[c] /\ heard'[c] = heard[c]

LEMMA Turning ==
    ASSUME NEW s \in Streaming, NEW q \in Phases, NEW m \in Nat, NEW b \in Seq(Nat), NEW a \in BOOLEAN
    PROVE  /\ [s EXCEPT !.phase = q] \in Streaming
           /\ [s EXCEPT !.phase = q, !.already = a] \in Streaming
           /\ [s EXCEPT !.phase = q, !.backlog = b, !.already = a] \in Streaming
           /\ [s EXCEPT !.backlog = b, !.cursor = m, !.phase = q] \in Streaming
           /\ [s EXCEPT !.backlog = b, !.phase = q] \in Streaming
           /\ [s EXCEPT !.cursor = m, !.phase = q] \in Streaming
  BY DEF Streaming

LEMMA StreamTurns ==
    ASSUME Typed, NEW c \in Followers,
           Opens(c) \/ SubscribeFails(c) \/ SubscribeReads(c) \/ SubscribeRegisters(c)
           \/ SubscribeRereads(c)
    PROVE  /\ Typed' /\ Others(c) /\ Silent(c) /\ UNCHANGED RunVars
           /\ \/ Phase(c) = "closed" /\ Turned(c, "reading", stream[c].cursor, stream[c].backlog, stream[c].already)
                 /\ UNCHANGED registered
              \/ /\ Phase(c) \in {"reading", "registering", "rereading"}
                 /\ Turned(c, "ended", stream[c].cursor, stream[c].backlog, stream[c].already)
                 /\ UNCHANGED registered
              \/ /\ Phase(c) = "reading"
                 /\ Turned(c, IF ended THEN "catchup" ELSE "registering", stream[c].cursor,
                           stream[c].backlog, ended)
                 /\ UNCHANGED registered
              \/ /\ Phase(c) = "registering" /\ c \in registered'
                 /\ Turned(c, "rereading", stream[c].cursor, stream[c].backlog, stream[c].already)
              \/ /\ Phase(c) = "rereading"
                 /\ Turned(c, "catchup", stream[c].cursor, stream[c].backlog, ended)
                 /\ ~ended => UNCHANGED registered
  <1> USE DEF RunVars, logVars, Phase, Enters
  <1>1. stream \in [Conns -> Streaming] /\ c \in Conns /\ stream[c] \in Streaming
        /\ registered \in SUBSET Conns /\ ended \in BOOLEAN
    BY StreamsAssumption DEF Typed
  <1>2. {"reading", "registering", "rereading", "catchup", "live", "ended"} \in SUBSET Phases
    BY DEF Phases
  <1>3. UNCHANGED <<RunVars, buffer, heard, reopens>>
    BY DEF Opens, SubscribeFails, SubscribeReads, SubscribeRegisters, SubscribeRereads
  <1>4. ASSUME NEW q \in Phases, stream' = [stream EXCEPT ![c].phase = q]
        PROVE  /\ stream' \in [Conns -> Streaming] /\ \A d \in Conns \ {c} : stream'[d] = stream[d]
               /\ Turned(c, q, stream[c].cursor, stream[c].backlog, stream[c].already)
    <2>1. [stream[c] EXCEPT !.phase = q] \in Streaming
      BY <1>1, Turning DEF Streaming
    <2> QED BY <1>1, <1>4, <2>1 DEF Turned, Streaming
  <1>5. ASSUME NEW q \in Phases, stream' = [stream EXCEPT ![c].phase = q, ![c].already = ended]
        PROVE  /\ stream' \in [Conns -> Streaming] /\ \A d \in Conns \ {c} : stream'[d] = stream[d]
               /\ Turned(c, q, stream[c].cursor, stream[c].backlog, ended)
    <2>1. [stream[c] EXCEPT !.phase = q, !.already = ended] \in Streaming
      BY <1>1 DEF Streaming
    <2> QED BY <1>1, <1>5, <2>1 DEF Turned, Streaming
  <1> HIDE DEF Streaming
  <1>6. stream' \in [Conns -> Streaming] /\ registered' \in SUBSET Conns => Typed'
    BY <1>3 DEF Typed
  <1>7. CASE Opens(c)
    BY <1>1, <1>2, <1>3, <1>4, <1>6, <1>7 DEF Opens, Others, Silent
  <1>8. CASE SubscribeFails(c)
    BY <1>1, <1>2, <1>3, <1>4, <1>6, <1>8 DEF SubscribeFails, Others, Silent
  <1>9. CASE SubscribeReads(c)
    <2>1. PICK q : q = IF ended THEN "catchup" ELSE "registering"
      OBVIOUS
    <2>2. q \in Phases /\ stream' = [stream EXCEPT ![c].phase = q, ![c].already = ended]
      BY <1>2, <1>9, <2>1 DEF SubscribeReads
    <2> QED BY <1>1, <1>3, <1>5, <1>6, <1>9, <2>1, <2>2 DEF SubscribeReads, Others, Silent
  <1>10. CASE SubscribeRegisters(c)
    BY <1>1, <1>2, <1>3, <1>4, <1>6, <1>10 DEF SubscribeRegisters, Others, Silent
  <1>11. CASE SubscribeRereads(c)
    <2>1. stream' = [stream EXCEPT ![c].phase = "catchup", ![c].already = ended]
      BY <1>11 DEF SubscribeRereads
    <2>2. registered' = IF ended THEN registered \ {c} ELSE registered
      BY <1>11 DEF SubscribeRereads
    <2> QED BY <1>1, <1>2, <1>3, <1>5, <1>6, <1>11, <2>1, <2>2 DEF SubscribeRereads, Others, Silent
  <1> QED BY <1>7, <1>8, <1>9, <1>10, <1>11

\* The steps that change a buffer or give the reader something.
LEMMA StreamMoves ==
    ASSUME Typed, NEW c \in Followers,
           Reopens(c) \/ CatchUpGives(c) \/ CatchUpReads(c) \/ LiveLagged(c) \/ LiveReceives(c)
    PROVE  /\ Typed' /\ Others(c) /\ UNCHANGED <<RunVars, registered>>
           /\ \/ /\ Turned(c, "reading", stream[c].cursor, <<>>, FALSE) /\ heard'[c] = heard[c]
                 /\ buffer'[c].events = <<>>
              \/ \E q \in {Phase(c), "ended"}, m \in Nat :
                 /\ Phase(c) = "catchup" /\ stream[c].backlog # <<>>
                 /\ m = Head(stream[c].backlog)
                 /\ heard'[c] = heard[c] \cup {m} /\ buffer'[c] = buffer[c]
                 /\ Turned(c, q, IF m > stream[c].cursor THEN m ELSE stream[c].cursor,
                           Tail(stream[c].backlog), stream[c].already)
              \/ \E q \in {"catchup", "ended", "live"} :
                 /\ Phase(c) = "catchup" /\ stream[c].backlog = <<>> /\ Silent(c)
                 /\ q = "live" => ~stream[c].already /\ ~(stream[c].cursor < last)
                                  /\ Page(stream[c].cursor) = <<>>
                 /\ Turned(c, q, stream[c].cursor, Page(stream[c].cursor), stream[c].already)
              \/ /\ Phase(c) = "live" /\ heard'[c] = heard[c]
                 /\ Turned(c, "catchup", stream[c].cursor, stream[c].backlog, stream[c].already)
                 /\ buffer'[c].events = buffer[c].events
              \/ \E q \in {"live", "ended"}, m \in Nat :
                 /\ Phase(c) = "live" /\ ~buffer[c].lagged /\ buffer[c].events # <<>>
                 /\ m = Head(buffer[c].events)
                 /\ buffer'[c].lagged = buffer[c].lagged
                 /\ buffer'[c].events = Tail(buffer[c].events)
                 /\ \/ /\ m > stream[c].cursor /\ heard'[c] = heard[c] \cup {m}
                       /\ Turned(c, q, m, stream[c].backlog, stream[c].already)
                    \/ /\ ~(m > stream[c].cursor) /\ heard'[c] = heard[c] /\ stream'[c] = stream[c]
  <1> USE DEF RunVars, logVars, Phase, Enters
  <1>1. /\ stream \in [Conns -> Streaming] /\ c \in Conns /\ stream[c] \in Streaming
        /\ buffer \in [Conns -> Frames] /\ buffer[c] \in Frames
        /\ heard \in [Conns -> SUBSET Nat] /\ heard[c] \in SUBSET Nat
    BY StreamsAssumption DEF Typed
  <1>2. {"reading", "registering", "rereading", "catchup", "live", "ended"} \in SUBSET Phases
        /\ <<>> \in Seq(Nat)
    BY DEF Phases
  <1>3. UNCHANGED <<RunVars, registered>>
    BY DEF Reopens, CatchUpGives, CatchUpReads, LiveLagged, LiveReceives
  <1>4. /\ stream[c].phase \in Phases /\ stream[c].cursor \in Nat
        /\ stream[c].backlog \in Seq(Nat) /\ stream[c].already \in BOOLEAN
        /\ buffer[c].events \in Seq(Nat) /\ buffer[c].lagged \in BOOLEAN
    BY <1>1 DEF Streaming, Frames
  <1>5. PICK s \in Streaming : s = stream[c]
    BY <1>1
  <1>6. ASSUME stream' \in [Conns -> Streaming], buffer' \in [Conns -> Frames],
               heard' \in [Conns -> SUBSET Nat]
        PROVE  Typed'
    <2>1. reopens' \in Nat
      <3>1. reopens' \in {reopens, reopens + 1}
        BY DEF Reopens, CatchUpGives, CatchUpReads, LiveLagged, LiveReceives
      <3>2. reopens \in Nat
        BY DEF Typed
      <3> QED BY <3>1, <3>2
    <2> QED BY <1>3, <1>6, <2>1 DEF Typed
  <1>7. CASE Reopens(c)
    <2>1. PICK n : n = [s EXCEPT !.phase = "reading", !.backlog = <<>>, !.already = FALSE]
      OBVIOUS
    <2>2. n \in Streaming /\ n.phase = "reading" /\ n.cursor = s.cursor /\ n.backlog = <<>>
          /\ n.already = FALSE
      BY <1>2, <2>1 DEF Streaming
    <2>3. stream' = [stream EXCEPT ![c] = n]
      BY <1>5, <1>7, <2>1 DEF Reopens
    <2>4. PICK g : g = [events |-> <<>>, lagged |-> FALSE]
      OBVIOUS
    <2>5. g \in Frames /\ g.events = <<>>
      BY <2>4 DEF Frames
    <2>6. buffer' = [buffer EXCEPT ![c] = g] /\ heard' = heard
      BY <1>7, <2>4 DEF Reopens
    <2> HIDE DEF Streaming, Frames
    <2>7. /\ stream' \in [Conns -> Streaming] /\ buffer' \in [Conns -> Frames]
          /\ heard' \in [Conns -> SUBSET Nat]
      BY <1>1, <2>2, <2>3, <2>5, <2>6
    <2>8. stream'[c] = n /\ buffer'[c] = g /\ Others(c)
      BY <1>1, <1>3, <2>3, <2>6 DEF Others
    <2> QED BY <1>3, <1>5, <1>6, <2>2, <2>5, <2>6, <2>7, <2>8 DEF Turned
  <1>8. CASE CatchUpGives(c)
    <2>1. PICK m \in Nat : m = Head(s.backlog) /\ s.backlog # <<>> /\ Tail(s.backlog) \in Seq(Nat)
      <3>1. PICK b \in Seq(Nat) : b = s.backlog /\ b # <<>>
        BY <1>4, <1>5, <1>8 DEF CatchUpGives
      <3>2. Head(b) \in Nat /\ Tail(b) \in Seq(Nat)
        BY <3>1
      <3> QED BY <3>1, <3>2
    <2>2. PICK k \in Nat : k = IF m > s.cursor THEN m ELSE s.cursor
      BY <1>4, <1>5
    <2>3. PICK q \in Phases : q = (IF IsTerminal(m) THEN "ended" ELSE s.phase) /\ q \in {s.phase, "ended"}
      BY <1>2, <1>4, <1>5
    <2>4. PICK n : n = [s EXCEPT !.backlog = Tail(s.backlog), !.cursor = k, !.phase = q]
      OBVIOUS
    <2>5. n \in Streaming /\ n.phase = q /\ n.cursor = k /\ n.backlog = Tail(s.backlog)
          /\ n.already = s.already
      BY <2>1, <2>4 DEF Streaming
    <2>6. stream' = [stream EXCEPT ![c] = n]
      BY <1>5, <1>8, <2>1, <2>2, <2>3, <2>4 DEF CatchUpGives
    <2>7. heard' = [heard EXCEPT ![c] = heard[c] \cup {m}] /\ buffer' = buffer
      BY <1>5, <1>8, <2>1 DEF CatchUpGives, Gives
    <2>8. heard[c] \cup {m} \in SUBSET Nat
      BY <1>1
    <2> HIDE DEF Streaming, Frames
    <2>9. /\ stream' \in [Conns -> Streaming] /\ buffer' \in [Conns -> Frames]
          /\ heard' \in [Conns -> SUBSET Nat]
      BY <1>1, <2>5, <2>6, <2>7, <2>8
    <2>10. stream'[c] = n /\ buffer'[c] = buffer[c] /\ heard'[c] = heard[c] \cup {m} /\ Others(c)
      BY <1>1, <1>3, <2>6, <2>7 DEF Others
    <2>11. Turned(c, q, IF m > stream[c].cursor THEN m ELSE stream[c].cursor,
                  Tail(stream[c].backlog), stream[c].already)
      BY <1>5, <2>2, <2>5, <2>10 DEF Turned
    <2>12. Phase(c) = "catchup" /\ stream[c].backlog # <<>> /\ m = Head(stream[c].backlog)
           /\ q \in {Phase(c), "ended"}
      BY <1>5, <1>8, <2>1, <2>3 DEF CatchUpGives
    <2> QED BY <1>3, <1>6, <2>9, <2>10, <2>11, <2>12
  <1>9. CASE CatchUpReads(c)
    <2>1. PICK q \in Phases : /\ q = IF s.cursor < last THEN s.phase ELSE IF s.already THEN "ended" ELSE "live"
                              /\ q \in {"catchup", "ended", "live"}
                              /\ q = "live" => ~s.already /\ ~(s.cursor < last)
      BY <1>2, <1>4, <1>5, <1>9 DEF CatchUpReads
    <2>2. PICK p \in Seq(Nat) : p = Page(s.cursor)
      BY <1>4, <1>5, PageEvents
    <2>3. PICK n : n = [s EXCEPT !.backlog = p, !.phase = q]
      OBVIOUS
    <2>4. n \in Streaming /\ n.phase = q /\ n.cursor = s.cursor /\ n.backlog = p
          /\ n.already = s.already
      BY <2>3 DEF Streaming
    <2>5. stream' = [stream EXCEPT ![c] = n] /\ buffer' = buffer /\ heard' = heard
      BY <1>5, <1>9, <2>1, <2>2, <2>3 DEF CatchUpReads
    <2>6. ~(s.cursor < last) => p = <<>>
      <3>1. ASSUME ~(s.cursor < last), p # <<>>
            PROVE  FALSE
        <4>1. 1 \in 1..Len(p)
          BY <3>1
        <4>2. p[1] = s.cursor + 1 /\ p[1] <= last
          BY <1>4, <1>5, <2>2, <4>1, PageEvents
        <4> QED BY <1>4, <1>5, <3>1, <4>2 DEF Typed
      <3> QED BY <3>1
    <2> HIDE DEF Streaming, Frames
    <2>7. /\ stream' \in [Conns -> Streaming] /\ buffer' \in [Conns -> Frames]
          /\ heard' \in [Conns -> SUBSET Nat]
      BY <1>1, <2>4, <2>5
    <2>8. stream'[c] = n /\ Silent(c) /\ Others(c)
      BY <1>1, <1>3, <2>5 DEF Others, Silent
    <2>9. /\ Phase(c) = "catchup" /\ stream[c].backlog = <<>>
          /\ q = "live" => ~stream[c].already /\ ~(stream[c].cursor < last) /\ Page(stream[c].cursor) = <<>>
      BY <1>5, <1>9, <2>1, <2>2, <2>6 DEF CatchUpReads
    <2>10. Turned(c, q, stream[c].cursor, Page(stream[c].cursor), stream[c].already)
      BY <1>5, <2>2, <2>4, <2>8 DEF Turned
    <2> QED BY <1>3, <1>6, <2>1, <2>7, <2>8, <2>9, <2>10
  <1>10. CASE LiveLagged(c)
    <2>1. PICK n, g : n = [s EXCEPT !.phase = "catchup"] /\ g = [buffer[c] EXCEPT !.lagged = FALSE]
      OBVIOUS
    <2>2. n \in Streaming /\ n.phase = "catchup" /\ n.cursor = s.cursor /\ n.backlog = s.backlog
          /\ n.already = s.already
      BY <1>2, <2>1 DEF Streaming
    <2>3. g \in Frames /\ g.events = buffer[c].events
      BY <1>1, <2>1 DEF Frames
    <2>4. stream' = [stream EXCEPT ![c] = n] /\ buffer' = [buffer EXCEPT ![c] = g] /\ heard' = heard
      BY <1>5, <1>10, <2>1 DEF LiveLagged
    <2> HIDE DEF Streaming, Frames
    <2>5. /\ stream' \in [Conns -> Streaming] /\ buffer' \in [Conns -> Frames]
          /\ heard' \in [Conns -> SUBSET Nat]
      BY <1>1, <2>2, <2>3, <2>4
    <2>6. stream'[c] = n /\ buffer'[c] = g /\ heard'[c] = heard[c] /\ Others(c)
      BY <1>1, <1>3, <2>4 DEF Others
    <2>7. Phase(c) = "live"
      BY <1>10 DEF LiveLagged
    <2> QED BY <1>3, <1>5, <1>6, <2>2, <2>3, <2>5, <2>6, <2>7 DEF Turned
  <1>11. CASE LiveReceives(c)
    <2>1. PICK e \in Seq(Nat), m \in Nat : e = buffer[c].events /\ e # <<>> /\ m = Head(e)
                                          /\ Tail(e) \in Seq(Nat)
      BY <1>4, <1>11 DEF LiveReceives
    <2>2. PICK g : g = [buffer[c] EXCEPT !.events = Tail(e)]
      OBVIOUS
    <2>3. g \in Frames /\ g.events = Tail(e) /\ g.lagged = buffer[c].lagged
      BY <1>1, <2>1, <2>2 DEF Frames
    <2>4. buffer' = [buffer EXCEPT ![c] = g]
      BY <1>11, <2>1, <2>2 DEF LiveReceives
    <2>5. Phase(c) = "live" /\ ~buffer[c].lagged
      BY <1>11 DEF LiveReceives
    <2>6. CASE m > s.cursor
      <3>1. PICK q \in Phases : q = (IF IsTerminal(m) THEN "ended" ELSE s.phase) /\ q \in {"live", "ended"}
        BY <1>2, <1>5, <2>5
      <3>2. PICK n : n = [s EXCEPT !.cursor = m, !.phase = q]
        OBVIOUS
      <3>3. n \in Streaming /\ n.phase = q /\ n.cursor = m /\ n.backlog = s.backlog /\ n.already = s.already
        BY <3>2 DEF Streaming
      <3>4. stream' = [stream EXCEPT ![c] = n] /\ heard' = [heard EXCEPT ![c] = heard[c] \cup {m}]
        BY <1>5, <1>11, <2>1, <2>6, <3>1, <3>2 DEF LiveReceives, Gives
      <3>5. heard[c] \cup {m} \in SUBSET Nat
        BY <1>1
      <3> HIDE DEF Streaming, Frames
      <3>6. /\ stream' \in [Conns -> Streaming] /\ buffer' \in [Conns -> Frames]
            /\ heard' \in [Conns -> SUBSET Nat]
        BY <1>1, <2>3, <2>4, <3>3, <3>4, <3>5
      <3>7. stream'[c] = n /\ buffer'[c] = g /\ heard'[c] = heard[c] \cup {m} /\ Others(c)
        BY <1>1, <1>3, <2>4, <3>4 DEF Others
      <3>8. Turned(c, q, m, stream[c].backlog, stream[c].already)
        BY <1>5, <3>3, <3>7 DEF Turned
      <3> QED BY <1>3, <1>5, <1>6, <2>1, <2>3, <2>5, <2>6, <3>1, <3>6, <3>7, <3>8
    <2>7. CASE ~(m > s.cursor)
      <3>1. stream' = stream /\ heard' = heard
        BY <1>5, <1>11, <2>1, <2>7 DEF LiveReceives
      <3> HIDE DEF Streaming, Frames
      <3>2. /\ stream' \in [Conns -> Streaming] /\ buffer' \in [Conns -> Frames]
            /\ heard' \in [Conns -> SUBSET Nat]
        BY <1>1, <2>3, <2>4, <3>1
      <3>3. buffer'[c] = g /\ Others(c)
        BY <1>1, <1>3, <2>4, <3>1 DEF Others
      <3> QED BY <1>3, <1>5, <1>6, <2>1, <2>3, <2>5, <2>7, <3>1, <3>2, <3>3
    <2> QED BY <2>6, <2>7
  <1> QED BY <1>7, <1>8, <1>9, <1>10, <1>11

LEMMA TypesKept ==
    ASSUME Typed, [StreamsNext]_streamVars
    PROVE  Typed'
  <1>1. CASE UNCHANGED streamVars
    BY <1>1 DEF streamVars, Typed
  <1>2. CASE StreamsNext
    BY <1>2, WriterSteps, StreamTurns, StreamMoves DEF StreamsNext, StreamStep
  <1> QED BY <1>1, <1>2

-----------------------------------------------------------------------------
(* The writers *)

\* Where the fan-out of an event stands: before it the event is unsent, after it sent; only
\* the last event of an ended run is terminal, and no two writers carry the same event.
Over == ended /\ last \in sent
WriterInv(w) ==
    /\ writing[w].step # "idle" => writing[w].seq \in 1..last
    /\ writing[w].step \in {"appended", "targeted"} => writing[w].seq \notin sent
    /\ writing[w].step = "published" => writing[w].seq \in sent
    /\ writing[w].step # "idle" /\ writing[w].terminal => ended /\ writing[w].seq = last
WritersInv ==
    /\ sent \in SUBSET (1..last)
    /\ \A w \in Writers : WriterInv(w)
    /\ \A v, w \in Writers :
          writing[v].step # "idle" /\ writing[w].step # "idle" /\ writing[v].seq = writing[w].seq => v = w

\* What a step of a writer does to its own record and to the others'.
LEMMA WriterMoves ==
    ASSUME Typed, WritersInv, NEW w \in Writers, Appends(w) \/ PublishStep(w)
    PROVE  /\ WritersInv'
           /\ \A v \in Writers \ {w} : writing'[v] = writing[v]
           /\ UNCHANGED <<stream, heard>>
           /\ last' >= last /\ (ended => last' = last /\ ended')
           /\ sent \subseteq sent' /\ overtaken \subseteq overtaken'
  <1> USE DEF logVars
  <1>1. writing \in [Writers -> Writing] /\ writing[w] \in Writing /\ last \in Nat /\ ended \in BOOLEAN
        /\ sent \in SUBSET (1..last) /\ sent \in SUBSET Nat
    BY DEF Typed, WritersInv
  <1>2. /\ writing[w].step \in Steps /\ writing[w].seq \in Nat /\ writing[w].terminal \in BOOLEAN
    BY <1>1 DEF Writing
  <1>3. \A v \in Writers : WriterInv(v)
    BY DEF WritersInv
  <1> HIDE DEF Writing
  <1>4. CASE Appends(w)
    <2>1. PICK n : /\ writing' = [writing EXCEPT ![w] = n]
                   /\ n.step = "appended" /\ n.seq = last' /\ n.terminal = ended'
      <3>1. PICK c \in Conns : writing' = [writing EXCEPT ![w] =
                [step |-> "appended", seq |-> last', terminal |-> ended', targets |-> {}, to |-> c]]
        BY <1>4 DEF Appends
      <3>2. PICK n : n = [step |-> "appended", seq |-> last', terminal |-> ended', targets |-> {}, to |-> c]
        OBVIOUS
      <3>3. writing' = [writing EXCEPT ![w] = n]
        BY <3>1, <3>2
      <3>4. n.step = "appended" /\ n.seq = last' /\ n.terminal = ended'
        BY <3>2
      <3> QED BY <3>3, <3>4
    <2>2. writing'[w] = n /\ \A v \in Writers \ {w} : writing'[v] = writing[v]
      BY <1>1, <2>1
    <2>3. last' = last + 1 /\ ended = FALSE /\ sent' = sent /\ overtaken' = overtaken
          /\ UNCHANGED <<stream, heard>>
      BY <1>1, <1>4 DEF Appends
    <2>4. WriterInv(w)'
      BY <1>1, <2>1, <2>2, <2>3 DEF WriterInv
    <2>5. ASSUME NEW v \in Writers, v # w
          PROVE  WriterInv(v)' /\ (writing[v].step # "idle" => writing[v].seq # last')
      BY <1>1, <1>3, <2>2, <2>3, <2>5 DEF WriterInv
    <2>6. \A v, u \in Writers :
             (writing'[v].step # "idle" /\ writing'[u].step # "idle" /\ writing'[v].seq = writing'[u].seq) => v = u
      BY <2>1, <2>2, <2>5 DEF WritersInv
    <2>7. sent' \in SUBSET (1..last')
      BY <1>1, <2>3
    <2> QED BY <1>1, <2>2, <2>3, <2>4, <2>5, <2>6, <2>7 DEF WritersInv
  <1>5. CASE PublishStep(w)
    <2>1. /\ UNCHANGED <<last, ended, stream, heard>> /\ writing[w].step # "idle"
          /\ sent \subseteq sent' /\ overtaken \subseteq overtaken'
          /\ \A v \in Writers \ {w} : writing'[v] = writing[v]
          /\ \/ writing'[w].step = "idle" /\ sent' = sent
             \/ /\ writing'[w].seq = writing[w].seq /\ writing'[w].terminal = writing[w].terminal
                /\ \/ writing[w].step = "appended" /\ writing'[w].step = "targeted" /\ sent' = sent
                   \/ writing'[w].step = "published" /\ sent' = sent \cup {writing[w].seq}
      <3> USE DEF Writing
      <3>1. CASE Targets(w)
        BY <1>1, <3>1 DEF Targets
      <3>2. CASE Delivers(w)
        BY <1>1, <3>2 DEF Delivers
      <3>3. CASE Finishes(w)
        <4>1. writing' = [writing EXCEPT ![w] = Idle]
          BY <3>3 DEF Finishes
        <4>2. writing'[w].step = "idle"
          BY <1>1, <4>1 DEF Idle
        <4> QED BY <1>1, <3>3, <4>1, <4>2 DEF Finishes
      <3> QED BY <1>5, <3>1, <3>2, <3>3 DEF PublishStep
    <2>2. writing[w].seq \in 1..last
      BY <1>3, <2>1 DEF WriterInv
    <2>3. sent' \in SUBSET (1..last')
      BY <1>1, <2>1, <2>2
    <2>4. WriterInv(w)'
      BY <1>3, <2>1 DEF WriterInv
    <2>5. ASSUME NEW v \in Writers, v # w
          PROVE  WriterInv(v)'
      <3>1. writing[v].step # "idle" => writing[v].seq # writing[w].seq
        BY <2>1, <2>5 DEF WritersInv
      <3> QED BY <1>3, <2>1, <2>5, <3>1 DEF WriterInv
    <2>6. \A v, u \in Writers :
             (writing'[v].step # "idle" /\ writing'[u].step # "idle" /\ writing'[v].seq = writing'[u].seq) => v = u
      <3> SUFFICES ASSUME NEW v \in Writers, NEW u \in Writers, writing'[v].step # "idle",
                          writing'[u].step # "idle", writing'[v].seq = writing'[u].seq
                   PROVE  v = u
        OBVIOUS
      <3>1. writing[v].step # "idle" /\ writing[u].step # "idle" /\ writing[v].seq = writing[u].seq
        BY <2>1
      <3> QED BY <3>1 DEF WritersInv
    <2> QED BY <1>1, <2>1, <2>3, <2>4, <2>5, <2>6 DEF WritersInv
  <1> QED BY <1>4, <1>5

-----------------------------------------------------------------------------
(* The readers *)

\* Where a stream stands: its cursor within the log, its backlog the events after it, a stream
\* that will wait for live events registered unless the end was fanned out, and only sent
\* events in its buffer.
ReaderInv(c) ==
    /\ stream[c].cursor <= last
    /\ Phase(c) \notin {"catchup", "ended"} => stream[c].backlog = <<>>
    /\ Phase(c) = "catchup" =>
          \A i \in 1..Len(stream[c].backlog) : /\ stream[c].backlog[i] = stream[c].cursor + i
                                                /\ stream[c].backlog[i] <= last
    /\ Phase(c) = "live" => ~stream[c].already
    /\ Phase(c) = "rereading" \/ (Phase(c) \in {"catchup", "live"} /\ ~stream[c].already)
          => c \in registered \/ Over
    /\ \A i \in 1..Len(buffer[c].events) : buffer[c].events[i] \in sent

\* What a reader has not been given although its cursor is past it was overtaken, or will be.
Missing(c, m) == m \in 1..stream[c].cursor /\ m \notin heard[c]
Due(m) == m \in sent /\ m \notin overtaken
GapsExplained(c) ==
    \A m \in Nat : Missing(c, m) => (\E s \in sent : s > m) /\ (m \in sent => m \in overtaken)

\* A live stream that was not overrun has everything due in its buffer, before anything later,
\* and a fan-out under way counts it among its targets unless it comes too late.
Follows(c) == Phase(c) = "live" /\ ~buffer[c].lagged
Buffered(c) ==
    Follows(c) => \A m \in Nat : Due(m) /\ m > stream[c].cursor
                     => \E j \in 1..Len(buffer[c].events) : buffer[c].events[j] = m
InOrder(c) ==
    Follows(c) => \A i \in 1..Len(buffer[c].events) : \A m \in Nat :
                     Due(m) /\ m > stream[c].cursor /\ m < buffer[c].events[i]
                     => \E j \in 1..Len(buffer[c].events) : j < i /\ buffer[c].events[j] = m
Targeted(c) ==
    Phase(c) = "live" => \A w \in Writers :
        writing[w].step = "targeted" /\ writing[w].seq > stream[c].cursor
        => c \in writing[w].targets \/ \E s \in sent : s > writing[w].seq
FollowerInv(c) == GapsExplained(c) /\ Buffered(c) /\ InOrder(c) /\ Targeted(c)

StreamsInv ==
    /\ WritersInv
    /\ \A c \in Conns : ReaderInv(c) /\ (c # Owner => FollowerInv(c))

\* What a writer's step does to a connection.
LEMMA WriterReaches ==
    ASSUME Typed, WritersInv, NEW w \in Writers, Appends(w) \/ PublishStep(w), NEW c \in Conns
    PROVE  /\ c \in registered => c \in registered' \/ Over'
           /\ Over => Over'
           /\ buffer'[c] = buffer[c] \/ (Longer(buffer[c], buffer'[c], writing[w].seq) /\ writing[w].seq \in sent')
           /\ \/ sent' = sent
              \/ /\ sent' = sent \cup {writing[w].seq} /\ writing[w].step = "targeted"
                 /\ (\E s \in sent : s > writing[w].seq) => writing[w].seq \in overtaken'
                 /\ Phase(c) # "closed" /\ c \in writing[w].targets => Longer(buffer[c], buffer'[c], writing[w].seq)
           /\ \/ writing'[w].step # "targeted"
              \/ /\ sent' = sent /\ writing[w].step = "appended" /\ writing'[w].seq = writing[w].seq
                 /\ c \in registered /\ c # Owner => c \in writing'[w].targets
  <1> USE DEF logVars
  <1>1. writing \in [Writers -> Writing] /\ writing[w] \in Writing /\ last \in Nat /\ ended \in BOOLEAN
    BY DEF Typed
  <1>2. /\ writing[w].step \in Steps /\ writing[w].seq \in Nat /\ writing[w].terminal \in BOOLEAN
    BY <1>1 DEF Writing
  <1>3. WriterInv(w) /\ last' >= last /\ (ended => last' = last /\ ended') /\ sent \subseteq sent'
    BY WriterMoves DEF WritersInv
  <1>4. Over => Over'
    BY <1>3 DEF Over
  <1>5. CASE Appends(w)
    <2>1. UNCHANGED <<registered, buffer, sent>>
      BY <1>5 DEF Appends
    <2>2. writing'[w].step = "appended"
      <3>1. PICK d \in Conns : writing' = [writing EXCEPT ![w] =
                [step |-> "appended", seq |-> last', terminal |-> ended', targets |-> {}, to |-> d]]
        BY <1>5 DEF Appends
      <3> QED BY <1>1, <3>1
    <2> QED BY <1>4, <2>1, <2>2
  <1>6. CASE Targets(w)
    <2>1. UNCHANGED <<registered, buffer, sent>> /\ writing[w].step = "appended"
      BY <1>6 DEF Targets
    <2>2. writing'[w].seq = writing[w].seq
          /\ writing'[w].targets = IF owned THEN registered \ {Owner} ELSE registered
      BY <1>1, <1>6 DEF Targets, Writing
    <2> QED BY <1>4, <2>1, <2>2
  <1>7. CASE Delivers(w)
    <2>1. /\ registered' = registered /\ sent' = sent \cup {writing[w].seq} /\ writing[w].step = "targeted"
          /\ (\E s \in sent : s > writing[w].seq) => writing[w].seq \in overtaken'
          /\ SendTo(writing[w].targets, writing[w].seq)
      BY <1>7 DEF Delivers
    <2>2. writing'[w].step = "published"
      BY <1>1, <1>7 DEF Delivers, Writing
    <2>3. \/ buffer'[c] = buffer[c] /\ ~(c \in writing[w].targets /\ Listening(c))
          \/ Longer(buffer[c], buffer'[c], writing[w].seq)
      BY <1>2, <2>1, SendEffect
    <2>4. Phase(c) # "closed" => Listening(c)
      BY DEF Phase, Listening
    <2> QED BY <1>4, <2>1, <2>2, <2>3, <2>4
  <1>8. CASE Finishes(w)
    <2>1. /\ sent' = sent /\ SendTo({writing[w].to}, writing[w].seq) /\ writing[w].step = "published"
          /\ UNCHANGED <<last, ended>>
          /\ writing[w].terminal \/ registered' = registered
      BY <1>8 DEF Finishes
    <2>2. writing'[w].step = "idle"
      <3>1. writing' = [writing EXCEPT ![w] = Idle]
        BY <1>8 DEF Finishes
      <3> QED BY <1>1, <3>1 DEF Idle
    <2>3. buffer'[c] = buffer[c] \/ Longer(buffer[c], buffer'[c], writing[w].seq)
      BY <1>2, <2>1, SendEffect
    <2>4. writing[w].seq \in sent
      BY <1>3, <2>1 DEF WriterInv
    <2>5. writing[w].terminal => Over'
      BY <1>3, <1>4, <2>1, <2>4 DEF WriterInv, Over
    <2> QED BY <1>4, <2>1, <2>2, <2>3, <2>4, <2>5
  <1> QED BY <1>5, <1>6, <1>7, <1>8 DEF PublishStep

\* A writer's step keeps what holds of every stream ...
LEMMA ReaderOfWriter ==
    ASSUME Typed, WritersInv, NEW w \in Writers, Appends(w) \/ PublishStep(w),
           NEW c \in Conns, ReaderInv(c)
    PROVE  ReaderInv(c)'
  <1>1. /\ UNCHANGED <<stream, heard>> /\ last' >= last /\ sent \subseteq sent'
        /\ last \in Nat /\ last' \in Nat /\ stream[c] \in Streaming
    BY WriterMoves, TypesKept DEF StreamsNext, Typed
  <1>2. /\ c \in registered => c \in registered' \/ Over'
        /\ Over => Over'
        /\ buffer'[c] = buffer[c] \/ (Longer(buffer[c], buffer'[c], writing[w].seq) /\ writing[w].seq \in sent')
    BY WriterReaches
  <1>3. stream'[c].cursor <= last'
    BY <1>1 DEF ReaderInv, Streaming
  <1>4. \A i \in 1..Len(buffer'[c].events) : buffer'[c].events[i] \in sent'
    BY <1>1, <1>2 DEF ReaderInv, Longer
  <1>5. Phase(c)' = "catchup" =>
          \A i \in 1..Len(stream'[c].backlog) : /\ stream'[c].backlog[i] = stream'[c].cursor + i
                                                 /\ stream'[c].backlog[i] <= last'
    <2>1. PICK b \in Seq(Nat) : b = stream[c].backlog
      BY <1>1 DEF Streaming
    <2>2. Phase(c) = "catchup" => \A i \in 1..Len(b) : b[i] = stream[c].cursor + i /\ b[i] <= last /\ b[i] \in Nat
      BY <2>1 DEF ReaderInv
    <2> QED BY <1>1, <2>1, <2>2 DEF Phase
  <1>6. stream' = stream
    BY <1>1
  <1> QED BY <1>2, <1>3, <1>4, <1>5, <1>6 DEF ReaderInv, Phase

\* ... and of the streams that are not the owner's.
LEMMA FollowerOfWriter ==
    ASSUME Typed, WritersInv, NEW w \in Writers, Appends(w) \/ PublishStep(w),
           NEW c \in Conns \ {Owner}, ReaderInv(c), FollowerInv(c)
    PROVE  FollowerInv(c)'
  <1> DEFINE n == writing[w].seq
  <1>1. /\ stream' = stream /\ heard' = heard /\ sent \subseteq sent' /\ overtaken \subseteq overtaken'
        /\ sent \in SUBSET (1..last) /\ sent' \in SUBSET (1..last') /\ last \in Nat
        /\ sent \in SUBSET Nat
        /\ \A v \in Writers \ {w} : writing'[v] = writing[v]
        /\ WriterInv(w)
    BY WriterMoves DEF WritersInv, Typed
  <1>2. /\ n \in Nat /\ stream[c].cursor \in Nat /\ buffer[c].events \in Seq(Nat)
        /\ buffer'[c].events \in Seq(Nat)
    <2>1. writing[w] \in Writing /\ stream[c] \in Streaming /\ buffer[c] \in Frames /\ buffer'[c] \in Frames
      BY TypesKept DEF StreamsNext, Typed
    <2> QED BY <2>1 DEF Writing, Streaming, Frames
  <1>3. /\ c \in registered => c \in registered' \/ Over'
        /\ buffer'[c] = buffer[c] \/ Longer(buffer[c], buffer'[c], n)
        /\ \/ sent' = sent
           \/ /\ sent' = sent \cup {n} /\ writing[w].step = "targeted"
              /\ (\E s \in sent : s > n) => n \in overtaken'
              /\ Phase(c) # "closed" /\ c \in writing[w].targets => Longer(buffer[c], buffer'[c], n)
        /\ \/ writing'[w].step # "targeted"
           \/ /\ sent' = sent /\ writing[w].step = "appended" /\ writing'[w].seq = n
              /\ c \in registered /\ c # Owner => c \in writing'[w].targets
    BY WriterReaches
  <1> HIDE DEF n
  <1>4. PICK k \in Nat : k = stream[c].cursor /\ stream'[c].cursor = k
    BY <1>1, <1>2
  <1>5. PICK e \in Seq(Nat), f \in Seq(Nat) : e = buffer[c].events /\ f = buffer'[c].events
    BY <1>2
  <1>6. GapsExplained(c)'
    <2> SUFFICES ASSUME NEW m \in Nat, Missing(c, m)'
                 PROVE  (\E s \in sent' : s > m) /\ (m \in sent' => m \in overtaken')
      BY DEF GapsExplained
    <2>1. Missing(c, m)
      BY <1>1 DEF Missing
    <2>2. PICK s \in sent : s > m
      BY <2>1 DEF FollowerInv, GapsExplained
    <2>3. m \in sent => m \in overtaken
      BY <2>1 DEF FollowerInv, GapsExplained
    <2> QED BY <1>1, <1>3, <2>2, <2>3
  <1>7. ASSUME Follows(c)', NEW m \in Nat, Due(m)', m > k
        PROVE  \/ Due(m) /\ (\E j \in 1..Len(e) : e[j] = m)
               \/ /\ m = n /\ f[Len(e) + 1] = m /\ Len(f) = Len(e) + 1
                  /\ \A s \in sent : ~(s > m)
    <2>1. Follows(c)
      BY <1>1, <1>3, <1>7 DEF Follows, Phase, Longer
    <2>2. CASE m \in sent
      <3>1. Due(m)
        BY <1>1, <1>7, <2>2 DEF Due
      <3> QED BY <1>4, <1>5, <1>7, <2>1, <3>1 DEF FollowerInv, Buffered
    <2>3. CASE m \notin sent
      <3>1. /\ m = n /\ writing[w].step = "targeted" /\ \A s \in sent : ~(s > m)
        BY <1>3, <1>7, <2>3 DEF Due
      <3>2. c \in writing[w].targets
        BY <1>4, <1>7, <2>1, <3>1 DEF FollowerInv, Targeted, Follows, n
      <3>3. Longer(buffer[c], buffer'[c], n)
        BY <1>3, <1>7, <2>1, <2>3, <3>2 DEF Follows, Due
      <3> QED BY <1>5, <1>7, <3>1, <3>3 DEF Longer, Follows
    <2> QED BY <2>2, <2>3
  <1>8. ASSUME Follows(c)'
        PROVE  \/ f = e
               \/ Len(f) = Len(e) + 1 /\ f[Len(e) + 1] = n /\ \A i \in 1..Len(e) : f[i] = e[i]
    BY <1>3, <1>5, <1>8 DEF Longer, Follows
  <1>9. Buffered(c)'
    <2> SUFFICES ASSUME Follows(c)', NEW m \in Nat, Due(m)', m > k
                 PROVE  \E j \in 1..Len(f) : f[j] = m
      BY <1>4, <1>5 DEF Buffered
    <2>1. CASE \E j \in 1..Len(e) : e[j] = m
      BY <1>8, <2>1
    <2>2. CASE f[Len(e) + 1] = m /\ Len(f) = Len(e) + 1
      BY <2>2
    <2> QED BY <1>7, <2>1, <2>2
  <1>10. InOrder(c)'
    <2> SUFFICES ASSUME Follows(c)', NEW i \in 1..Len(f), NEW m \in Nat, Due(m)', m > k, m < f[i]
                 PROVE  \E j \in 1..Len(f) : j < i /\ f[j] = m
      BY <1>4, <1>5 DEF InOrder
    <2>1. Follows(c)
      BY <1>1, <1>3 DEF Follows, Phase, Longer
    <2>2. CASE i \in 1..Len(e)
      <3>1. f[i] = e[i] /\ e[i] \in sent /\ \A j \in 1..Len(e) : j \in 1..Len(f) /\ f[j] = e[j]
        <4>1. e[i] \in sent
          BY <1>5, <2>2 DEF ReaderInv
        <4>2. \A j \in 1..Len(e) : j \in 1..Len(f) /\ f[j] = e[j]
          BY <1>8
        <4> QED BY <2>2, <4>1, <4>2
      <3>2. Due(m)
        BY <1>7, <3>1
      <3>3. PICK j \in 1..Len(e) : j < i /\ e[j] = m
        BY <1>4, <1>5, <2>1, <2>2, <3>1, <3>2 DEF FollowerInv, InOrder
      <3> QED BY <3>1, <3>3
    <2>3. CASE i \notin 1..Len(e)
      <3>1. i = Len(e) + 1 /\ f[i] = n /\ Len(f) = Len(e) + 1 /\ \A j \in 1..Len(e) : f[j] = e[j]
        BY <1>8, <2>3
      <3>2. m # n
        BY <1>2, <3>1
      <3>3. PICK j \in 1..Len(e) : e[j] = m
        BY <1>7, <3>2
      <3> QED BY <3>1, <3>3
    <2> QED BY <2>2, <2>3
  <1>11. Targeted(c)'
    <2> SUFFICES ASSUME Phase(c)' = "live", NEW v \in Writers, writing'[v].step = "targeted",
                        writing'[v].seq > k
                 PROVE  c \in writing'[v].targets \/ \E s \in sent' : s > writing'[v].seq
      BY <1>4 DEF Targeted
    <2>1. Phase(c) = "live"
      BY <1>1 DEF Phase
    <2>2. CASE v # w
      BY <1>1, <1>4, <2>1, <2>2 DEF FollowerInv, Targeted
    <2>3. CASE v = w
      <3>1. /\ sent' = sent /\ writing[w].step = "appended" /\ writing'[w].seq = n
            /\ c \in registered => c \in writing'[w].targets
        BY <1>3, <2>3
      <3>2. c \in registered \/ Over
        BY <2>1 DEF ReaderInv
      <3>3. ASSUME Over
            PROVE  last \in sent /\ last > n
        <4>1. n \in 1..last /\ n \notin sent
          BY <1>1, <3>1 DEF WriterInv, n
        <4> QED BY <1>1, <3>3, <4>1 DEF Over
      <3> QED BY <2>3, <3>1, <3>2, <3>3
    <2> QED BY <2>2, <2>3
  <1> QED BY <1>6, <1>9, <1>10, <1>11 DEF FollowerInv

\* A step of another connection's stream changes nothing for this one.
LEMMA OtherStream ==
    ASSUME Typed, NEW c \in Conns, ReaderInv(c), UNCHANGED RunVars,
           stream'[c] = stream[c], buffer'[c] = buffer[c], heard'[c] = heard[c],
           c \in registered => c \in registered'
    PROVE  ReaderInv(c)' /\ (FollowerInv(c) => FollowerInv(c)')
  <1>1. UNCHANGED <<last, ended, sent, overtaken, writing>>
    BY DEF RunVars, logVars
  <1>2. ReaderInv(c)'
    BY <1>1 DEF ReaderInv, Phase, Over
  <1>3. ASSUME FollowerInv(c)
        PROVE  FollowerInv(c)'
    <2>1. GapsExplained(c)'
      BY <1>1, <1>3 DEF FollowerInv, GapsExplained, Missing
    <2>2. Buffered(c)' /\ InOrder(c)'
      BY <1>1, <1>3 DEF FollowerInv, Buffered, InOrder, Follows, Due, Phase
    <2>3. Targeted(c)'
      BY <1>1, <1>3 DEF FollowerInv, Targeted, Phase
    <2> QED BY <2>1, <2>2, <2>3 DEF FollowerInv
  <1> QED BY <1>2, <1>3

\* A stream that subscribes, or fails to.
LEMMA ReaderTurns ==
    ASSUME Typed, NEW c \in Followers, ReaderInv(c),
           Opens(c) \/ SubscribeFails(c) \/ SubscribeReads(c) \/ SubscribeRegisters(c)
           \/ SubscribeRereads(c)
    PROVE  ReaderInv(c)' /\ (FollowerInv(c) => FollowerInv(c)')
  <1>1. c \in Conns /\ ended \in BOOLEAN
    BY StreamsAssumption DEF Typed
  <1>2. /\ UNCHANGED <<last, ended, sent, overtaken, writing>>
        /\ buffer'[c] = buffer[c] /\ heard'[c] = heard[c]
        /\ stream'[c].cursor = stream[c].cursor /\ stream'[c].backlog = stream[c].backlog
        /\ stream'[c].phase # "live"
        /\ Phase(c) \notin {"catchup", "ended"}
    BY StreamTurns DEF RunVars, logVars, Silent, Turned
  <1>3. stream[c].backlog = <<>>
    BY <1>2 DEF ReaderInv
  <1>4. stream'[c].phase = "rereading" => c \in registered'
    BY StreamTurns DEF Turned
  <1>5. stream'[c].phase = "catchup" /\ ~stream'[c].already => c \in registered' \/ Over'
    <2> SUFFICES ASSUME stream'[c].phase = "catchup", ~stream'[c].already
                 PROVE  c \in registered' \/ Over'
      OBVIOUS
    <2>1. Phase(c) = "rereading" /\ ~ended /\ registered' = registered
      BY StreamTurns DEF Turned
    <2> QED BY <2>1 DEF ReaderInv, Over
  <1>6. ReaderInv(c)'
    BY <1>2, <1>3, <1>4, <1>5 DEF ReaderInv, Phase
  <1>7. ASSUME FollowerInv(c)
        PROVE  FollowerInv(c)'
    <2>1. GapsExplained(c)'
      BY <1>2, <1>7 DEF FollowerInv, GapsExplained, Missing
    <2> QED BY <1>2, <2>1 DEF FollowerInv, Buffered, InOrder, Targeted, Follows, Phase
  <1> QED BY <1>6, <1>7

LEMMA TailOf ==
    ASSUME NEW s \in Seq(Nat), s # <<>>
    PROVE  /\ Tail(s) \in Seq(Nat) /\ Len(Tail(s)) = Len(s) - 1
           /\ \A i \in 1..Len(Tail(s)) : Tail(s)[i] = s[i + 1]
  <1>1. PICK t : t = Tail(s)
    OBVIOUS
  <1>2. t \in Seq(Nat) /\ Len(t) = Len(s) - 1 /\ \A i \in 1..Len(t) : t[i] = s[i + 1]
    BY <1>1
  <1> QED BY <1>1, <1>2

\* A stream that replays, waits, or comes back.
LEMMA ReaderMoves ==
    ASSUME Typed, WritersInv, NEW c \in Followers, ReaderInv(c),
           Reopens(c) \/ CatchUpGives(c) \/ CatchUpReads(c) \/ LiveLagged(c) \/ LiveReceives(c)
    PROVE  ReaderInv(c)' /\ (FollowerInv(c) => FollowerInv(c)')
  <1>1. /\ UNCHANGED <<last, ended, sent, overtaken, writing, registered>>
        /\ last \in Nat /\ sent \in SUBSET (1..last) /\ sent \in SUBSET Nat
    BY StreamMoves DEF RunVars, logVars, Typed, WritersInv
  <1>2. PICK k \in Nat, b \in Seq(Nat), e \in Seq(Nat) :
            k = stream[c].cursor /\ b = stream[c].backlog /\ e = buffer[c].events
    <2>1. c \in Conns /\ stream[c] \in Streaming /\ buffer[c] \in Frames
      BY StreamsAssumption DEF Typed
    <2> QED BY <2>1 DEF Streaming, Frames
  <1>3. /\ k <= last
        /\ Phase(c) \notin {"catchup", "ended"} => b = <<>>
        /\ Phase(c) = "catchup" => \A i \in 1..Len(b) : b[i] = k + i /\ b[i] <= last
        /\ Phase(c) \in {"catchup", "live"} /\ ~stream[c].already => c \in registered \/ Over
        /\ Phase(c) = "live" => ~stream[c].already
        /\ \A i \in 1..Len(e) : e[i] \in sent
    BY <1>2 DEF ReaderInv
  <1>4. Over' = Over
    BY <1>1 DEF Over
  <1>5. FollowerInv(c) => \A m \in Nat : m \in 1..k /\ m \notin heard[c]
                             => (\E s \in sent : s > m) /\ (m \in sent => m \in overtaken)
    BY <1>2 DEF FollowerInv, GapsExplained, Missing
  <1>6. CASE Turned(c, "reading", stream[c].cursor, <<>>, FALSE) /\ heard'[c] = heard[c]
             /\ buffer'[c].events = <<>>
    <2>1. ReaderInv(c)'
      BY <1>1, <1>2, <1>3, <1>6 DEF ReaderInv, Turned, Phase
    <2>2. FollowerInv(c) => GapsExplained(c)'
      BY <1>1, <1>2, <1>5, <1>6 DEF GapsExplained, Missing, Turned
    <2> QED BY <1>6, <2>1, <2>2 DEF FollowerInv, Buffered, InOrder, Targeted, Follows, Phase, Turned
  <1>7. ASSUME NEW q \in {Phase(c), "ended"}, NEW m \in Nat,
               Phase(c) = "catchup", b # <<>>, m = Head(b),
               heard'[c] = heard[c] \cup {m}, buffer'[c] = buffer[c],
               Turned(c, q, IF m > k THEN m ELSE k, Tail(b), stream[c].already)
        PROVE  ReaderInv(c)' /\ (FollowerInv(c) => FollowerInv(c)')
    <2>1. PICK g \in Seq(Nat) : g = Tail(b) /\ Len(g) = Len(b) - 1 /\ \A i \in 1..Len(g) : g[i] = b[i + 1]
      BY <1>7, TailOf
    <2>2. Len(b) > 0 /\ m = k + 1 /\ m <= last
      <3>1. 1 \in 1..Len(b) /\ m = b[1]
        BY <1>7
      <3> QED BY <1>3, <1>7, <3>1
    <2>3. stream'[c].cursor = k + 1 /\ stream'[c].backlog = g /\ stream'[c].already = stream[c].already
          /\ stream'[c].phase = q /\ q \in {"catchup", "ended"}
      BY <1>7, <2>1, <2>2 DEF Turned
    <2>4. \A i \in 1..Len(g) : g[i] = (k + 1) + i /\ g[i] <= last
      <3> TAKE i \in 1..Len(g)
      <3>1. i + 1 \in 1..Len(b) /\ k + (i + 1) = (k + 1) + i /\ g[i] = b[i + 1]
        BY <2>1
      <3> QED BY <1>3, <1>7, <3>1
    <2>5. ReaderInv(c)'
      BY <1>1, <1>2, <1>3, <1>4, <1>7, <2>2, <2>3, <2>4 DEF ReaderInv, Phase
    <2>6. FollowerInv(c) => GapsExplained(c)'
      <3> SUFFICES ASSUME FollowerInv(c), NEW n \in Nat, n \in 1..(k + 1), n \notin heard[c] \cup {m}
                   PROVE  (\E s \in sent : s > n) /\ (n \in sent => n \in overtaken)
        BY <1>1, <1>7, <2>3 DEF GapsExplained, Missing
      <3>1. n \in 1..k /\ n \notin heard[c]
        BY <2>2
      <3> QED BY <1>5, <3>1
    <2> QED BY <2>3, <2>5, <2>6 DEF FollowerInv, Buffered, InOrder, Targeted, Follows, Phase
  <1>8. ASSUME NEW q \in {"catchup", "ended", "live"}, Phase(c) = "catchup", Silent(c),
               q = "live" => ~stream[c].already /\ ~(k < last) /\ Page(k) = <<>>,
               Turned(c, q, k, Page(k), stream[c].already)
        PROVE  ReaderInv(c)' /\ (FollowerInv(c) => FollowerInv(c)')
    <2>1. PICK p \in Seq(Nat) : p = Page(k) /\ \A i \in 1..Len(p) : p[i] = k + i /\ p[i] <= last
      BY PageEvents
    <2>2. stream'[c].cursor = k /\ stream'[c].backlog = p /\ stream'[c].already = stream[c].already
          /\ stream'[c].phase = q /\ buffer'[c] = buffer[c] /\ heard'[c] = heard[c]
      BY <1>8, <2>1 DEF Turned, Silent
    <2>3. ReaderInv(c)'
      BY <1>1, <1>2, <1>3, <1>4, <1>8, <2>1, <2>2 DEF ReaderInv, Phase
    <2>4. FollowerInv(c) => GapsExplained(c)'
      BY <1>1, <1>5, <2>2 DEF GapsExplained, Missing
    <2>5. stream'[c].phase = "live" => \A m \in Nat : (m \in sent \/ m \in 1..last) => ~(m > k)
      BY <1>1, <1>8, <2>2
    <2>6. Buffered(c)' /\ InOrder(c)'
      BY <1>1, <2>2, <2>5 DEF Buffered, InOrder, Follows, Due, Phase
    <2>7. Targeted(c)'
      <3> SUFFICES ASSUME stream'[c].phase = "live", NEW w \in Writers, writing[w].step = "targeted",
                          writing[w].seq > k
                   PROVE  FALSE
        BY <1>1, <2>2 DEF Targeted, Phase
      <3>1. writing[w].seq \in 1..last
        BY DEF WritersInv, WriterInv
      <3> QED BY <2>5, <3>1
    <2> QED BY <2>3, <2>4, <2>6, <2>7 DEF FollowerInv
  <1>9. CASE /\ Phase(c) = "live" /\ heard'[c] = heard[c]
             /\ Turned(c, "catchup", stream[c].cursor, stream[c].backlog, stream[c].already)
             /\ buffer'[c].events = buffer[c].events
    <2>1. ReaderInv(c)'
      BY <1>1, <1>2, <1>3, <1>4, <1>9 DEF ReaderInv, Turned, Phase
    <2>2. FollowerInv(c) => GapsExplained(c)'
      BY <1>1, <1>2, <1>5, <1>9 DEF GapsExplained, Missing, Turned
    <2> QED BY <1>9, <2>1, <2>2 DEF FollowerInv, Buffered, InOrder, Targeted, Follows, Phase, Turned
  <1>10. ASSUME NEW q \in {"live", "ended"}, NEW m \in Nat,
                Phase(c) = "live", ~buffer[c].lagged, e # <<>>, m = Head(e),
                buffer'[c].lagged = buffer[c].lagged, buffer'[c].events = Tail(e),
                \/ /\ m > k /\ heard'[c] = heard[c] \cup {m}
                   /\ Turned(c, q, m, b, stream[c].already)
                \/ /\ ~(m > k) /\ heard'[c] = heard[c] /\ stream'[c] = stream[c]
         PROVE  ReaderInv(c)' /\ (FollowerInv(c) => FollowerInv(c)')
    <2>1. PICK f \in Seq(Nat) : f = Tail(e) /\ Len(f) = Len(e) - 1 /\ \A i \in 1..Len(f) : f[i] = e[i + 1]
      BY <1>10, TailOf
    <2>2. Len(e) > 0 /\ 1 \in 1..Len(e) /\ m = e[1] /\ m \in sent /\ m <= last
      <3>1. Len(e) > 0 /\ 1 \in 1..Len(e) /\ m = e[1]
        BY <1>10
      <3> QED BY <1>1, <1>3, <3>1
    <2>3. PICK l \in Nat : l = (IF m > k THEN m ELSE k)
      OBVIOUS
    <2>4. /\ stream'[c].cursor = l /\ stream'[c].backlog = b /\ stream'[c].already = stream[c].already
          /\ stream'[c].phase \in {"live", "ended"} /\ heard'[c] \subseteq heard[c] \cup {m}
          /\ heard[c] \subseteq heard'[c] /\ (m > k => m \in heard'[c])
      BY <1>2, <1>10, <2>3 DEF Turned, Phase
    <2>5. ReaderInv(c)'
      <3>1. \A i \in 1..Len(f) : f[i] \in sent
        <4> TAKE i \in 1..Len(f)
        <4>1. i + 1 \in 1..Len(e)
          BY <2>1
        <4> QED BY <1>3, <2>1, <4>1
      <3>2. l <= last /\ b = <<>>
        BY <1>3, <1>10, <2>2, <2>3
      <3> QED BY <1>1, <1>3, <1>4, <1>10, <2>1, <2>4, <3>1, <3>2 DEF ReaderInv, Phase
    <2> SUFFICES ASSUME FollowerInv(c)
                 PROVE  FollowerInv(c)'
      BY <2>5
    <2>6. \A n \in Nat : Due(n) /\ n > k => \E j \in 1..Len(e) : e[j] = n
      BY <1>2, <1>10 DEF FollowerInv, Buffered, Follows
    <2>7. ASSUME NEW i \in 1..Len(e), NEW n \in Nat, Due(n), n > k, n < e[i]
          PROVE  \E j \in 1..Len(e) : j < i /\ e[j] = n
      <3>1. Follows(c) /\ InOrder(c)
        BY <1>10 DEF FollowerInv, Follows
      <3> QED BY <1>2, <2>7, <3>1 DEF InOrder
    <2>8. GapsExplained(c)'
      <3> SUFFICES ASSUME NEW n \in Nat, n \in 1..l, n \notin heard'[c]
                   PROVE  (\E s \in sent : s > n) /\ (n \in sent => n \in overtaken)
        BY <1>1, <2>4 DEF GapsExplained, Missing
      <3>1. CASE n <= k
        <4>1. n \in 1..k /\ n \notin heard[c]
          BY <2>4, <3>1
        <4> QED BY <1>5, <4>1
      <3>2. CASE ~(n <= k)
        <4>1. n > k /\ n < m
          BY <2>3, <2>4, <3>2
        <4>2. ~Due(n)
          <5>1. n < e[1] /\ ~ \E j \in 1..Len(e) : j < 1
            BY <2>2, <4>1
          <5> QED BY <2>2, <2>7, <4>1, <5>1
        <4> QED BY <2>2, <4>1, <4>2 DEF Due
      <3> QED BY <3>1, <3>2
    <2>9. \A n \in Nat : n > l => n > k /\ n # m
      BY <2>3
    <2>10. Buffered(c)'
      <3> SUFFICES ASSUME NEW n \in Nat, Due(n), n > l
                   PROVE  \E j \in 1..Len(f) : f[j] = n
        BY <1>1, <1>10, <2>1, <2>4 DEF Buffered, Due
      <3>1. PICK j \in 1..Len(e) : e[j] = n /\ j # 1
        BY <2>2, <2>6, <2>9
      <3>2. j - 1 \in 1..Len(f) /\ f[j - 1] = e[(j - 1) + 1] /\ (j - 1) + 1 = j
        BY <2>1, <3>1
      <3> QED BY <3>1, <3>2
    <2>11. InOrder(c)'
      <3> SUFFICES ASSUME NEW i \in 1..Len(f), NEW n \in Nat, Due(n), n > l, n < f[i]
                   PROVE  \E j \in 1..Len(f) : j < i /\ f[j] = n
        <4>1. \A n \in Nat : Due(n)' <=> Due(n)
          BY <1>1 DEF Due
        <4>2. buffer'[c].events = f /\ stream'[c].cursor = l
          BY <1>10, <2>1, <2>4
        <4> QED BY <4>1, <4>2 DEF InOrder
      <3>1. i + 1 \in 1..Len(e) /\ f[i] = e[i + 1]
        BY <2>1
      <3>2. PICK j \in 1..Len(e) : j < i + 1 /\ e[j] = n /\ j # 1
        BY <2>2, <2>7, <2>9, <3>1
      <3>3. j - 1 \in 1..Len(f) /\ f[j - 1] = e[(j - 1) + 1] /\ (j - 1) + 1 = j /\ j - 1 < i
        BY <2>1, <3>2
      <3> QED BY <3>2, <3>3
    <2>12. Targeted(c)'
      <3> SUFFICES ASSUME NEW w \in Writers, writing[w].step = "targeted", writing[w].seq > l
                   PROVE  c \in writing[w].targets \/ \E s \in sent : s > writing[w].seq
        BY <1>1, <2>4 DEF Targeted
      <3>1. writing[w].seq \in Nat
        BY <1>1 DEF WritersInv, WriterInv
      <3>2. writing[w].seq > k
        BY <2>9, <3>1
      <3> QED BY <1>2, <1>10, <3>2 DEF FollowerInv, Targeted
    <2> QED BY <2>8, <2>10, <2>11, <2>12 DEF FollowerInv
  <1> QED BY <1>2, <1>6, <1>7, <1>8, <1>9, <1>10, StreamMoves

-----------------------------------------------------------------------------
LEMMA StreamsStart == StreamsInit => Typed /\ StreamsInv
  <1> SUFFICES ASSUME StreamsInit PROVE Typed /\ StreamsInv
    OBVIOUS
  <1>1. Idle \in Writing /\ Closed \in Streaming /\ [events |-> <<>>, lagged |-> FALSE] \in Frames
    BY StreamsAssumption DEF Idle, Writing, Steps, Closed, Streaming, Phases, Frames
  <1>2. Typed
    <2>1. PICK i, s, f : i = Idle /\ s = Closed /\ f = [events |-> <<>>, lagged |-> FALSE]
      OBVIOUS
    <2>2. i \in Writing /\ s \in Streaming /\ f \in Frames
      BY <1>1, <2>1
    <2>3. /\ writing = [w \in Writers |-> i] /\ buffer = [c \in Conns |-> f]
          /\ stream = [c \in Conns |-> s] /\ heard = [c \in Conns |-> {}]
      BY <2>1 DEF StreamsInit
    <2>4. /\ writing \in [Writers -> Writing] /\ buffer \in [Conns -> Frames]
          /\ stream \in [Conns -> Streaming] /\ heard \in [Conns -> SUBSET Nat]
      BY <2>2, <2>3
    <2>5. /\ last \in Nat /\ last > 0 /\ ended \in BOOLEAN /\ owned \in BOOLEAN /\ reopens \in Nat
          /\ registered \in SUBSET Conns /\ sent \in SUBSET Nat /\ overtaken \in SUBSET Nat
      <3>1. last = 1 /\ ended = FALSE /\ owned = TRUE /\ reopens = 0 /\ registered = {}
            /\ sent = {1} /\ overtaken = {}
        BY DEF StreamsInit
      <3>2. ended \in BOOLEAN /\ owned \in BOOLEAN
        BY <3>1
      <3>3. last \in Nat /\ last > 0 /\ reopens \in Nat
        BY <3>1
      <3>4. registered \in SUBSET Conns /\ sent \in SUBSET Nat /\ overtaken \in SUBSET Nat
        BY <3>1
      <3> QED BY <3>2, <3>3, <3>4
    <2> HIDE DEF Writing, Streaming, Frames
    <2> QED BY <2>4, <2>5 DEF Typed
  <1>3. \A w \in Writers : writing[w].step = "idle"
    BY DEF StreamsInit, Idle
  <1>4. WritersInv
    BY <1>3 DEF StreamsInit, WritersInv, WriterInv
  <1>5. ASSUME NEW c \in Conns
        PROVE  ReaderInv(c) /\ FollowerInv(c)
    <2>1. stream[c].phase = "closed" /\ stream[c].cursor = 0 /\ stream[c].backlog = <<>>
          /\ buffer[c].events = <<>> /\ last = 1
      BY DEF StreamsInit, Closed
    <2>2. ReaderInv(c)
      BY <2>1 DEF ReaderInv, Phase
    <2>3. FollowerInv(c)
      BY <2>1 DEF FollowerInv, GapsExplained, Missing, Buffered, InOrder, Targeted, Follows, Phase
    <2> QED BY <2>2, <2>3
  <1> QED BY <1>2, <1>4, <1>5 DEF StreamsInv

LEMMA StreamsKept ==
    ASSUME Typed, StreamsInv, [StreamsNext]_streamVars
    PROVE  StreamsInv'
  <1>1. WritersInv /\ \A c \in Conns : ReaderInv(c) /\ (c # Owner => FollowerInv(c))
    BY DEF StreamsInv
  <1>2. ASSUME NEW w \in Writers, Appends(w) \/ PublishStep(w)
        PROVE  StreamsInv'
    <2>1. WritersInv'
      BY <1>1, <1>2, WriterMoves
    <2>2. ASSUME NEW c \in Conns
          PROVE  ReaderInv(c)' /\ (c # Owner => FollowerInv(c)')
      BY <1>1, <1>2, ReaderOfWriter, FollowerOfWriter
    <2> QED BY <2>1, <2>2 DEF StreamsInv
  <1>3. ASSUME NEW d \in Followers,
               Opens(d) \/ Reopens(d) \/ SubscribeFails(d) \/ StreamStep(d)
        PROVE  StreamsInv'
    <2>1. Others(d) /\ UNCHANGED RunVars
      BY <1>3, StreamTurns, StreamMoves DEF StreamStep, RunVars
    <2>2. WritersInv'
      BY <1>1, <2>1 DEF WritersInv, WriterInv, RunVars, logVars
    <2>3. ReaderInv(d)' /\ (FollowerInv(d) => FollowerInv(d)')
      <3>1. d \in Conns /\ ReaderInv(d)
        BY <1>1, StreamsAssumption
      <3> QED BY <1>1, <1>3, <3>1, ReaderTurns, ReaderMoves DEF StreamStep
    <2>4. ASSUME NEW c \in Conns, c # d
          PROVE  ReaderInv(c)' /\ (FollowerInv(c) => FollowerInv(c)')
      <3>1. /\ stream'[c] = stream[c] /\ buffer'[c] = buffer[c] /\ heard'[c] = heard[c]
            /\ c \in registered => c \in registered'
        BY <2>1, <2>4 DEF Others
      <3> QED BY <1>1, <2>1, <3>1, OtherStream
    <2> QED BY <1>1, <2>2, <2>3, <2>4 DEF StreamsInv
  <1>4. CASE UNCHANGED streamVars
    <2>1. UNCHANGED RunVars /\ UNCHANGED <<stream, buffer, heard, registered>>
      BY <1>4 DEF streamVars, RunVars, logVars
    <2>2. WritersInv'
      BY <1>1, <2>1 DEF WritersInv, WriterInv, RunVars, logVars
    <2>3. \A c \in Conns : ReaderInv(c)' /\ (FollowerInv(c) => FollowerInv(c)')
      BY <1>1, <2>1, OtherStream
    <2> QED BY <1>1, <2>2, <2>3 DEF StreamsInv
  <1> QED BY <1>2, <1>3, <1>4 DEF StreamsNext

\* Registration, replay, overrun and reconnection lose nothing: a stream that is not its run's
\* owner's passes over an event only if that event was fanned out after a later one.
THEOREM NothingLostButOvertaken == StreamsSpec => []OnlyOvertakenMissed
  <1>1. StreamsInit => Typed /\ StreamsInv
    BY StreamsStart
  <1>2. Typed /\ StreamsInv /\ [StreamsNext]_streamVars => (Typed /\ StreamsInv)'
    BY TypesKept, StreamsKept
  <1>3. Typed /\ StreamsInv => OnlyOvertakenMissed
    <2> SUFFICES ASSUME Typed, StreamsInv, NEW c \in Conns \ {Owner}, NEW m \in Missed(c) \cap sent
                 PROVE  m \in overtaken
      BY DEF OnlyOvertakenMissed
    <2>1. m \in Nat /\ Missing(c, m) /\ m \in sent
      BY DEF Missed, Missing, Typed
    <2> QED BY <2>1 DEF StreamsInv, FollowerInv, GapsExplained
  <1> QED BY <1>1, <1>2, <1>3, PTL DEF StreamsSpec

-----------------------------------------------------------------------------
(***************************************************************************)
(* The editor's bridge                                                     *)
(***************************************************************************)

AcpKinds == ByLoop \cup {"answered", "cancelled"}
AcpPlaces == {"new", "checked", "sent", "refused", "accepted", "receiving", "reading", "paging",
              "asking", "waiting", "deciding", "leaving", "denying", "answered"}
AcpDecisions == {"none", "open", "approved", "denied"}
AcpEvents == AcpPrompts \X Nat
AcpTurns == [log : Seq(AcpKinds), ticket : AcpDecisions \cup {"pending"}]
AcpBoxes == [events : Seq(AcpEvents), lagged : BOOLEAN]
AcpTasks == [at : AcpPlaces, cursor : Nat, page : Seq(Nat), more : BOOLEAN, back : {"receiving", "paging"}]

\* A cancel that found the session's entry holds the prompt it names.
CancellerOK ==
    /\ canceller \in [at : {"idle", "found", "denying"}, prompt : AcpPrompts \cup {NoPrompt}]
    /\ canceller.at = "found" => canceller.prompt \in AcpPrompts

AcpTyped ==
    /\ turn \in [AcpPrompts -> AcpTurns]
    /\ inflight \subseteq AcpEvents
    /\ inbox \in [AcpPrompts -> AcpBoxes]
    /\ bridge \in [AcpPrompts -> AcpTasks]
    /\ permission \in [AcpPrompts -> AcpDecisions]
    /\ active \in AcpPrompts \cup {NoPrompt}
    /\ CancellerOK
    /\ shown \in [AcpPrompts -> Seq(Nat)]

End(p) == Len(turn[p].log)
Said(p, i) == i \in 1..End(p) /\ turn[p].log[i] \in ByLoop
Before(p) == PromptAt(p) \in {"new", "checked", "sent", "refused"}
Gone(p) == PromptAt(p) \in {"leaving", "denying"}
\* The bridge has a page in hand, though it may be busy with an approval of it.
Paged(p) == \/ PromptAt(p) = "paging"
            \/ PromptAt(p) \in {"asking", "waiting", "deciding"} /\ bridge[p].back = "paging"

\* The run's log ends with its end; while a ticket is open the loop has logged nothing after it;
\* the loop sends what it logged before it logs on.
AcpLogOK(p) ==
    /\ \A i \in 1..End(p) : turn[p].log[i] \in EndKinds => i = End(p)
    /\ turn[p].ticket = "pending" =>
          \A i \in 1..End(p) : Said(p, i) => \E j \in i..End(p) : turn[p].log[j] = "ask"
    /\ \A i, j \in 1..End(p) : <<p, i>> \in inflight /\ Said(p, i) /\ Said(p, j) => j <= i
    /\ Before(p) => End(p) = 0
    /\ \A i \in Nat : <<p, i>> \in inflight => i \in 1..End(p)
    /\ \A k \in 1..Len(inbox[p].events) :
          inbox[p].events[k][1] = p => inbox[p].events[k][2] \in 1..End(p)

\* The cursor is at what was shown last, and a page goes on from it.
AcpPlaceOK(p) ==
    /\ bridge[p].cursor <= End(p)
    /\ Before(p) \/ PromptAt(p) = "accepted" => bridge[p].cursor = 0 /\ Len(shown[p]) = 0
    /\ Paged(p) => /\ bridge[p].cursor + Len(bridge[p].page) <= End(p)
                   /\ \A k \in 1..Len(bridge[p].page) : bridge[p].page[k] = bridge[p].cursor + k
    /\ Gone(p) => bridge[p].cursor = End(p) /\ Settled(p)
    /\ PromptAt(p) = "answered" => Settled(p)
    /\ \A i, j \in 1..Len(shown[p]) : i < j => shown[p][i] < shown[p][j]
    /\ PromptAt(p) # "answered" => \A i \in 1..Len(shown[p]) : shown[p][i] <= bridge[p].cursor

\* Of a run that was not cancelled and whose log was readable: what the loop logged up to the
\* cursor was shown; what it logged above is on its way or will be read from the log, and
\* nothing that was logged after it is taken first.
Sound(p) == p \notin misreads /\ (End(p) # 0 => Last(turn[p].log) # "cancelled")
Seen(p, i) == \E k \in 1..Len(shown[p]) : shown[p][k] = i
Recovering(p, i) ==
    \/ inbox[p].lagged
    \/ PromptAt(p) = "reading"
    \/ (Paged(p) /\ (bridge[p].more \/ i <= bridge[p].cursor + Len(bridge[p].page)))
Queued(p, i, n) == \E k \in 1..n : inbox[p].events[k] = <<p, i>>
Coming(p, i) ==
    <<p, i>> \in inflight \/ Queued(p, i, Len(inbox[p].events)) \/ Recovering(p, i)
NotPassed(p, i) == \A s \in 1..End(p) : i < s => turn[p].log[s] # "answered"
InTurn(p, i) ==
    \A k \in 1..Len(inbox[p].events) :
        inbox[p].events[k][1] = p /\ i < inbox[p].events[k][2] => Recovering(p, i) \/ Queued(p, i, k - 1)
AcpHeardOK(p) ==
    Sound(p) => \A i \in Nat : Said(p, i) =>
        \/ Seen(p, i)
        \/ /\ PromptAt(p) # "answered" /\ bridge[p].cursor < i
           /\ Coming(p, i) /\ NotPassed(p, i) /\ InTurn(p, i)

PromptInv(p) == AcpLogOK(p) /\ AcpPlaceOK(p) /\ AcpHeardOK(p)
AcpInv == AcpTyped /\ \A p \in AcpPrompts : PromptInv(p)

-----------------------------------------------------------------------------
(* Types *)

LEMMA PromptTypes ==
    ASSUME AcpTyped, NEW p \in AcpPrompts
    PROVE  /\ turn[p] \in AcpTurns /\ turn[p].log \in Seq(AcpKinds) /\ End(p) \in Nat
           /\ inbox[p] \in AcpBoxes /\ inbox[p].events \in Seq(AcpEvents)
           /\ inbox[p].lagged \in BOOLEAN /\ Len(inbox[p].events) \in Nat
           /\ bridge[p] \in AcpTasks /\ bridge[p].at \in AcpPlaces /\ bridge[p].cursor \in Nat
           /\ bridge[p].page \in Seq(Nat) /\ Len(bridge[p].page) \in Nat /\ bridge[p].more \in BOOLEAN
           /\ bridge[p].back \in {"receiving", "paging"}
           /\ shown[p] \in Seq(Nat) /\ Len(shown[p]) \in Nat
           /\ \A i \in 1..Len(shown[p]) : shown[p][i] \in Nat
  <1>1. turn[p] \in AcpTurns /\ inbox[p] \in AcpBoxes /\ bridge[p] \in AcpTasks /\ shown[p] \in Seq(Nat)
    BY DEF AcpTyped
  <1>2. turn[p].log \in Seq(AcpKinds)
    BY <1>1 DEF AcpTurns
  <1>3. inbox[p].events \in Seq(AcpEvents) /\ inbox[p].lagged \in BOOLEAN
    BY <1>1 DEF AcpBoxes
  <1>4. /\ bridge[p].at \in AcpPlaces /\ bridge[p].cursor \in Nat /\ bridge[p].page \in Seq(Nat)
        /\ bridge[p].more \in BOOLEAN /\ bridge[p].back \in {"receiving", "paging"}
    BY <1>1 DEF AcpTasks
  <1>5. End(p) \in Nat
    BY <1>2 DEF End
  <1>6. Len(inbox[p].events) \in Nat /\ Len(bridge[p].page) \in Nat /\ Len(shown[p]) \in Nat
    BY <1>1, <1>3, <1>4
  <1>7. \A i \in 1..Len(shown[p]) : shown[p][i] \in Nat
    BY <1>1
  <1> QED BY <1>1, <1>2, <1>3, <1>4, <1>5, <1>6, <1>7

\* An event logged for p.
LEMMA LogsEffect ==
    ASSUME AcpTyped, NEW p \in AcpPrompts, NEW kind \in AcpKinds,
           NEW ticket \in AcpDecisions \cup {"pending"}, Logs(p, kind, ticket)
    PROVE  /\ turn' \in [AcpPrompts -> AcpTurns] /\ inflight' \subseteq AcpEvents
           /\ turn'[p].log = Append(turn[p].log, kind) /\ turn'[p].ticket = ticket
           /\ End(p) \in Nat /\ End(p)' = End(p) + 1
           /\ \A i \in 1..End(p) : turn'[p].log[i] = turn[p].log[i]
           /\ turn'[p].log[End(p) + 1] = kind
           /\ inflight' = inflight \cup {<<p, End(p) + 1>>}
           /\ \A q \in AcpPrompts : q # p => turn'[q] = turn[q]
  <1>1. PICK log \in Seq(AcpKinds) : log = turn[p].log
    BY PromptTypes
  <1>2. PICK n \in Nat : n = Len(log) /\ n = End(p)
    BY <1>1 DEF End
  <1>3. PICK new : new = Append(log, kind)
    OBVIOUS
  <1>4. new \in Seq(AcpKinds) /\ Len(new) = n + 1 /\ new[n + 1] = kind /\ \A i \in 1..n : new[i] = log[i]
    <2>1. /\ Append(log, kind) \in Seq(AcpKinds) /\ Len(Append(log, kind)) = Len(log) + 1
          /\ Append(log, kind)[Len(log) + 1] = kind
          /\ \A i \in 1..Len(log) : Append(log, kind)[i] = log[i]
      BY AppendProperties
    <2> QED BY <1>2, <1>3, <2>1
  <1>5. turn' = [turn EXCEPT ![p].log = new, ![p].ticket = ticket]
    BY <1>1, <1>3 DEF Logs
  <1>6. turn[p] \in AcpTurns
    BY PromptTypes
  <1>7. PICK both \in AcpTurns : both = [turn[p] EXCEPT !.log = new, !.ticket = ticket]
                                 /\ both.log = new /\ both.ticket = ticket
    <2>1. [turn[p] EXCEPT !.log = new, !.ticket = ticket] \in AcpTurns
      BY <1>4, <1>6 DEF AcpTurns
    <2>2. [turn[p] EXCEPT !.log = new, !.ticket = ticket].log = new
          /\ [turn[p] EXCEPT !.log = new, !.ticket = ticket].ticket = ticket
      BY <1>6 DEF AcpTurns
    <2> QED BY <2>1, <2>2
  <1>8. turn' = [turn EXCEPT ![p] = both]
    BY <1>5, <1>7 DEF AcpTyped
  <1>9. /\ turn' \in [AcpPrompts -> AcpTurns] /\ turn'[p] = both
        /\ \A q \in AcpPrompts : q # p => turn'[q] = turn[q]
    BY <1>8 DEF AcpTyped
  <1>10. inflight' = inflight \cup {<<p, n + 1>>}
    BY <1>1, <1>2 DEF Logs
  <1>11. inflight' \subseteq AcpEvents
    BY <1>10 DEF AcpTyped, AcpEvents
  <1>12. End(p)' = n + 1
    BY <1>4, <1>7, <1>9 DEF End
  <1> QED BY <1>1, <1>2, <1>3, <1>4, <1>7, <1>9, <1>10, <1>11, <1>12

-----------------------------------------------------------------------------
(* What the kinds of steps do to a prompt *)

PageOK(p) ==
    Paged(p) => /\ bridge[p].cursor + Len(bridge[p].page) <= End(p)
                /\ \A k \in 1..Len(bridge[p].page) : bridge[p].page[k] = bridge[p].cursor + k

\* The log, the buffer, the cursor and what was shown stay; the bridge may move on.
LEMMA QuietKeeps ==
    ASSUME NEW p \in AcpPrompts, PromptInv(p),
           turn'[p].log = turn[p].log,
           turn'[p].ticket = "pending" => turn[p].ticket = "pending",
           \A i \in Nat : <<p, i>> \in inflight' <=> <<p, i>> \in inflight,
           inbox'[p].events = inbox[p].events,
           bridge'[p].cursor = bridge[p].cursor, shown'[p] = shown[p],
           Before(p)' => Before(p),
           PromptAt(p)' = "accepted" => PromptAt(p) = "accepted",
           Gone(p)' => Gone(p),
           PromptAt(p)' = "answered" <=> PromptAt(p) = "answered",
           PageOK(p)',
           Sound(p)' => /\ Sound(p)
                        /\ \A i \in 1..End(p) : bridge[p].cursor < i /\ Recovering(p, i) => Recovering(p, i)'
    PROVE  PromptInv(p)'
  <1>1. End(p)' = End(p) /\ (Settled(p)' <=> Settled(p)) /\ \A i : Said(p, i)' <=> Said(p, i)
    BY DEF End, Settled, Said, Last
  <1>2. AcpLogOK(p)'
    BY <1>1 DEF PromptInv, AcpLogOK
  <1>3. AcpPlaceOK(p)'
    BY <1>1 DEF PromptInv, AcpPlaceOK, PageOK
  <1>4. ASSUME Sound(p)', NEW i \in Nat, Said(p, i)', ~Seen(p, i)'
        PROVE  /\ PromptAt(p)' # "answered" /\ bridge'[p].cursor < i
               /\ Coming(p, i)' /\ NotPassed(p, i)' /\ InTurn(p, i)'
    <2>1. Sound(p) /\ Said(p, i) /\ ~Seen(p, i) /\ i \in 1..End(p)
      BY <1>1, <1>4 DEF Seen, Said
    <2>2. PromptAt(p) # "answered" /\ bridge[p].cursor < i /\ Coming(p, i) /\ NotPassed(p, i) /\ InTurn(p, i)
      BY <2>1 DEF PromptInv, AcpHeardOK
    <2>3. Recovering(p, i) => Recovering(p, i)'
      BY <1>4, <2>1, <2>2
    <2>4. \A n : Queued(p, i, n)' <=> Queued(p, i, n)
      BY DEF Queued
    <2>5. Coming(p, i)'
      BY <2>2, <2>3, <2>4 DEF Coming
    <2>6. NotPassed(p, i)'
      BY <1>1, <2>2 DEF NotPassed
    <2>7. InTurn(p, i)'
      BY <2>2, <2>3, <2>4 DEF InTurn
    <2> QED BY <2>2, <2>5, <2>6, <2>7
  <1>5. AcpHeardOK(p)'
    BY <1>4 DEF AcpHeardOK
  <1> QED BY <1>2, <1>3, <1>5 DEF PromptInv

\* A step of another prompt.
LEMMA UntouchedKeeps ==
    ASSUME NEW p \in AcpPrompts, PromptInv(p),
           turn'[p] = turn[p], inbox'[p] = inbox[p], bridge'[p] = bridge[p], shown'[p] = shown[p],
           \A i \in Nat : <<p, i>> \in inflight' <=> <<p, i>> \in inflight,
           p \in misreads => p \in misreads'
    PROVE  PromptInv(p)'
  <1>1. /\ Before(p)' <=> Before(p)
        /\ Gone(p)' <=> Gone(p)
        /\ PromptAt(p)' = PromptAt(p)
        /\ PageOK(p)' <=> PageOK(p)
        /\ Sound(p)' => Sound(p)
        /\ \A i : Recovering(p, i)' <=> Recovering(p, i)
    BY DEF Before, Gone, PromptAt, PageOK, Paged, Sound, Recovering, End, Last
  <1>2. PageOK(p)
    BY DEF PromptInv, AcpPlaceOK, PageOK
  <1> QED BY <1>1, <1>2, QuietKeeps

\* The bridge moves from one place to another.
LEMMA MovesKeeps ==
    ASSUME AcpTyped, NEW p \in AcpPrompts, PromptInv(p), NEW at, Moves(p, at),
           UNCHANGED <<turn, inflight, inbox, shown, misreads>>,
           at \in {"new", "checked", "sent", "refused"} => Before(p),
           at # "accepted" /\ at # "answered" /\ PromptAt(p) # "answered",
           at \in {"leaving", "denying"} => Gone(p),
           Paged(p)' => Paged(p),
           \A i \in 1..End(p) : bridge[p].cursor < i /\ Recovering(p, i) => Recovering(p, i)'
    PROVE  PromptInv(p)'
  <1>1. /\ bridge'[p].at = at /\ bridge'[p].cursor = bridge[p].cursor /\ bridge'[p].page = bridge[p].page
        /\ bridge'[p].more = bridge[p].more /\ bridge'[p].back = bridge[p].back
    BY DEF Moves, AcpTyped, AcpTasks
  <1>2. Before(p)' => Before(p)
    BY <1>1 DEF Before, PromptAt
  <1>3. Gone(p)' => Gone(p)
    BY <1>1 DEF Gone, PromptAt
  <1>4. PromptAt(p)' # "accepted" /\ PromptAt(p)' # "answered"
    BY <1>1 DEF PromptAt
  <1>5. PageOK(p)'
    BY <1>1 DEF PageOK, PromptInv, AcpPlaceOK, End
  <1>6. Sound(p)' <=> Sound(p)
    BY DEF Sound, End
  <1> QED BY <1>1, <1>2, <1>3, <1>4, <1>5, <1>6, QuietKeeps

\* The steps of one prompt leave the others alone.
LEMMA OthersMove ==
    ASSUME AcpTyped, NEW p \in AcpPrompts, NEW at, Moves(p, at)
    PROVE  \A q \in AcpPrompts : q # p => bridge'[q] = bridge[q]
  BY DEF Moves, AcpTyped

\* The run's log grows by an event, which is sent.
LEMMA AppendKeeps ==
    ASSUME AcpTyped, NEW p \in AcpPrompts, PromptInv(p), ~Settled(p),
           NEW kind \in AcpKinds, NEW ticket \in AcpDecisions \cup {"pending"}, Logs(p, kind, ticket),
           UNCHANGED <<inbox, shown, misreads>>,
           bridge'[p].cursor = bridge[p].cursor, bridge'[p].page = bridge[p].page,
           bridge'[p].more = bridge[p].more,
           Paged(p)' <=> Paged(p), PromptAt(p)' = "reading" <=> PromptAt(p) = "reading",
           ~Before(p)', ~Gone(p)', PromptAt(p)' # "answered",
           PromptAt(p)' = "accepted" => Before(p) \/ PromptAt(p) = "accepted",
           ticket = "pending" => kind = "ask" \/ (turn[p].ticket = "pending" /\ kind \notin ByLoop),
           kind \in ByLoop => \A i \in Nat : <<p, i>> \in inflight => ~Said(p, i),
           kind = "answered" => \A i \in 1..End(p) : Said(p, i) => i <= bridge[p].cursor
    PROVE  PromptInv(p)'
  <1>1. PICK n \in Nat : n = End(p)
    BY PromptTypes
  <1>2. PICK log : log = turn[p].log
    OBVIOUS
  <1>3. PICK new : new = turn'[p].log
    OBVIOUS
  <1>4. /\ End(p)' = n + 1 /\ n = Len(log) /\ Len(new) = n + 1
        /\ \A i \in 1..n : new[i] = log[i]
        /\ new[n + 1] = kind /\ turn'[p].ticket = ticket
        /\ inflight' = inflight \cup {<<p, n + 1>>}
    <2>1. End(p)' = n + 1 /\ turn'[p].ticket = ticket /\ inflight' = inflight \cup {<<p, n + 1>>}
          /\ turn'[p].log[n + 1] = kind /\ \A i \in 1..n : turn'[p].log[i] = turn[p].log[i]
      BY <1>1, LogsEffect
    <2> QED BY <1>1, <1>2, <1>3, <2>1 DEF End
  <1>5. \A i \in 1..n : log[i] \notin EndKinds
    <2>1. \A i \in 1..n : log[i] \in EndKinds => i = n
      BY <1>1, <1>2 DEF PromptInv, AcpLogOK
    <2>2. n > 0 => log # <<>> /\ log[n] \notin EndKinds
      <3>1. n > 0 => log # <<>>
        BY <1>4
      <3> QED BY <1>2, <1>4, <3>1 DEF Settled, Last
    <2> QED BY <2>1, <2>2
  <1>6. \A i : Said(p, i)' <=> Said(p, i) \/ (i = n + 1 /\ kind \in ByLoop)
    <2>1. \A i : Said(p, i)' <=> i \in 1..(n + 1) /\ new[i] \in ByLoop
      BY <1>3, <1>4 DEF Said
    <2>2. \A i : Said(p, i) <=> i \in 1..n /\ log[i] \in ByLoop
      BY <1>1, <1>2 DEF Said
    <2>3. \A i : i \in 1..(n + 1) <=> i \in 1..n \/ i = n + 1
      OBVIOUS
    <2>4. n + 1 \notin 1..n
      OBVIOUS
    <2> QED BY <1>4, <2>1, <2>2, <2>3, <2>4
  <1>7. AcpLogOK(p)'
    <2>1. \A i \in 1..(n + 1) : new[i] \in EndKinds => i = n + 1
      BY <1>4, <1>5
    <2>2. ASSUME ticket = "pending", NEW i \in 1..(n + 1), Said(p, i)'
          PROVE  \E j \in i..(n + 1) : new[j] = "ask"
      <3>1. CASE kind = "ask"
        BY <1>4, <3>1
      <3>2. CASE kind # "ask"
        <4>1. turn[p].ticket = "pending" /\ Said(p, i) /\ i \in 1..n
          BY <1>1, <1>6, <2>2, <3>2 DEF Said
        <4>2. PICK j \in i..n : log[j] = "ask"
          BY <1>1, <1>2, <4>1 DEF PromptInv, AcpLogOK
        <4> QED BY <1>4, <4>1, <4>2
      <3> QED BY <3>1, <3>2
    <2>3. ASSUME NEW i \in 1..(n + 1), NEW j \in 1..(n + 1), <<p, i>> \in inflight', Said(p, i)', Said(p, j)'
          PROVE  j <= i
      <3>1. CASE i = n + 1
        BY <3>1
      <3>2. CASE i # n + 1
        <4>1. i \in 1..n /\ i \in Nat /\ <<p, i>> \in inflight /\ Said(p, i)
          BY <1>4, <1>6, <2>3, <3>2
        <4>2. kind \notin ByLoop
          BY <4>1
        <4>3. Said(p, j) /\ j \in 1..n
          BY <1>1, <1>6, <2>3, <4>2 DEF Said
        <4> QED BY <1>1, <4>1, <4>3 DEF PromptInv, AcpLogOK
      <3> QED BY <3>1, <3>2
    <2>4. \A i \in Nat : <<p, i>> \in inflight' => i \in 1..(n + 1)
      <3>1. \A i \in Nat : <<p, i>> \in inflight => i \in 1..n
        BY <1>1 DEF PromptInv, AcpLogOK
      <3> QED BY <1>4, <3>1
    <2>5. \A k \in 1..Len(inbox[p].events) : inbox[p].events[k][1] = p => inbox[p].events[k][2] \in 1..(n + 1)
      <3>1. \A k \in 1..Len(inbox[p].events) : inbox[p].events[k][1] = p => inbox[p].events[k][2] \in 1..n
        BY <1>1 DEF PromptInv, AcpLogOK
      <3> QED BY <3>1
    <2>6. \A i \in 1..End(p)' : turn'[p].log[i] \in EndKinds => i = End(p)'
      BY <1>3, <1>4, <2>1
    <2>7. turn'[p].ticket = "pending" =>
             \A i \in 1..End(p)' : Said(p, i)' => \E j \in i..End(p)' : turn'[p].log[j] = "ask"
      BY <1>3, <1>4, <2>2
    <2>8. \A i, j \in 1..End(p)' : <<p, i>> \in inflight' /\ Said(p, i)' /\ Said(p, j)' => j <= i
      BY <1>4, <2>3
    <2>9. \A i \in Nat : <<p, i>> \in inflight' => i \in 1..End(p)'
      BY <1>4, <2>4
    <2>10. \A k \in 1..Len(inbox'[p].events) : inbox'[p].events[k][1] = p => inbox'[p].events[k][2] \in 1..End(p)'
      BY <1>4, <2>5
    <2> QED BY <2>6, <2>7, <2>8, <2>9, <2>10 DEF AcpLogOK
  <1>8. AcpPlaceOK(p)'
    <2>1. bridge[p].cursor <= n /\ bridge[p].cursor \in Nat /\ Len(bridge[p].page) \in Nat
      BY <1>1, PromptTypes DEF PromptInv, AcpPlaceOK
    <2>2. PromptAt(p) # "answered"
      BY DEF PromptInv, AcpPlaceOK
    <2>3. bridge'[p].cursor <= End(p)'
      BY <1>4, <2>1
    <2>4. Before(p)' \/ PromptAt(p)' = "accepted" => bridge'[p].cursor = 0 /\ Len(shown'[p]) = 0
      BY DEF PromptInv, AcpPlaceOK
    <2>5. Paged(p)' => /\ bridge'[p].cursor + Len(bridge'[p].page) <= End(p)'
                       /\ \A k \in 1..Len(bridge'[p].page) : bridge'[p].page[k] = bridge'[p].cursor + k
      <3>1. Paged(p) => /\ bridge[p].cursor + Len(bridge[p].page) <= n
                        /\ \A k \in 1..Len(bridge[p].page) : bridge[p].page[k] = bridge[p].cursor + k
        BY <1>1 DEF PromptInv, AcpPlaceOK
      <3> QED BY <1>4, <2>1, <3>1
    <2>6. /\ \A i, j \in 1..Len(shown'[p]) : i < j => shown'[p][i] < shown'[p][j]
          /\ \A i \in 1..Len(shown'[p]) : shown'[p][i] <= bridge'[p].cursor
      BY <2>2 DEF PromptInv, AcpPlaceOK
    <2> QED BY <2>3, <2>4, <2>5, <2>6 DEF AcpPlaceOK
  <1>9. \A i \in 1..n : Recovering(p, i)' <=> Recovering(p, i)
    BY DEF Recovering
  <1>10. Sound(p)' => Sound(p)
    <2>1. n # 0 => Last(log) # "cancelled"
      BY <1>4, <1>5 DEF Last, EndKinds
    <2> QED BY <1>1, <1>2, <2>1 DEF Sound
  <1>11. Sound(p)' => kind # "cancelled"
    BY <1>3, <1>4 DEF Sound, Last
  <1>12. ASSUME Sound(p)', NEW i \in Nat, Said(p, i)', ~Seen(p, i)'
         PROVE  /\ PromptAt(p)' # "answered" /\ bridge'[p].cursor < i
                /\ Coming(p, i)' /\ NotPassed(p, i)' /\ InTurn(p, i)'
    <2>1. CASE i = n + 1
      <3>1. bridge[p].cursor <= n /\ bridge[p].cursor \in Nat
        BY <1>1, PromptTypes DEF PromptInv, AcpPlaceOK
      <3>2. Coming(p, i)'
        BY <1>4, <2>1 DEF Coming
      <3>3. NotPassed(p, i)'
        BY <1>4, <2>1 DEF NotPassed
      <3>4. \A k \in 1..Len(inbox[p].events) : inbox[p].events[k][1] = p => inbox[p].events[k][2] \in 1..n
        BY <1>1 DEF PromptInv, AcpLogOK
      <3>5. InTurn(p, i)'
        BY <2>1, <3>4 DEF InTurn
      <3> QED BY <2>1, <3>1, <3>2, <3>3, <3>5
    <2>2. CASE i # n + 1
      <3>1. Said(p, i) /\ i \in 1..n /\ ~Seen(p, i) /\ Sound(p)
        BY <1>1, <1>6, <1>10, <1>12, <2>2 DEF Said, Seen
      <3>2. bridge[p].cursor < i /\ Coming(p, i) /\ NotPassed(p, i) /\ InTurn(p, i)
        BY <3>1 DEF PromptInv, AcpHeardOK
      <3>3. \A m : Queued(p, i, m)' <=> Queued(p, i, m)
        BY DEF Queued
      <3>4. Coming(p, i)'
        BY <1>4, <1>9, <3>1, <3>2, <3>3 DEF Coming
      <3>5. kind # "answered"
        <4>1. bridge[p].cursor \in Nat /\ ~(i <= bridge[p].cursor)
          BY <3>2, PromptTypes
        <4> QED BY <1>1, <3>1, <4>1
      <3>6. NotPassed(p, i)'
        <4>1. \A s \in 1..n : i < s => log[s] # "answered"
          BY <1>1, <1>2, <3>2 DEF NotPassed
        <4>2. \A s \in 1..(n + 1) : i < s => new[s] # "answered"
          BY <1>4, <3>5, <4>1
        <4> QED BY <1>3, <1>4, <4>2 DEF NotPassed
      <3>7. InTurn(p, i)'
        BY <1>9, <3>1, <3>2, <3>3 DEF InTurn
      <3> QED BY <3>2, <3>4, <3>6, <3>7
    <2> QED BY <2>1, <2>2
  <1>13. AcpHeardOK(p)'
    BY <1>12 DEF AcpHeardOK
  <1> QED BY <1>7, <1>8, <1>13 DEF PromptInv

\* What a broadcast leaves in the buffer of a prompt that listens.
LEMMA BroadcastEffect ==
    ASSUME AcpTyped, NEW e \in AcpEvents, Broadcasts(e), NEW p \in AcpPrompts, Listens(p), Slots \in Nat \ {0}
    PROVE  /\ inbox'[p] \in AcpBoxes
           /\ \A k \in 1..Len(inbox'[p].events) :
                 inbox'[p].events[k] = e
                 \/ \E j \in 1..Len(inbox[p].events) : inbox'[p].events[k] = inbox[p].events[j]
           /\ inbox'[p].lagged
              \/ /\ ~inbox[p].lagged
                 /\ Len(inbox'[p].events) = Len(inbox[p].events) + 1
                 /\ inbox'[p].events[Len(inbox[p].events) + 1] = e
                 /\ \A k \in 1..Len(inbox[p].events) : inbox'[p].events[k] = inbox[p].events[k]
  <1>1. PICK old \in Seq(AcpEvents) : old = inbox[p].events
    BY PromptTypes
  <1>2. inbox[p] \in AcpBoxes /\ inbox[p].lagged \in BOOLEAN
    BY PromptTypes
  <1>3. CASE Len(old) < Slots
    <2>1. PICK new : new = Append(old, e)
      OBVIOUS
    <2>2. /\ Append(old, e) \in Seq(AcpEvents) /\ Len(Append(old, e)) = Len(old) + 1
          /\ Append(old, e)[Len(old) + 1] = e
          /\ \A i \in 1..Len(old) : Append(old, e)[i] = old[i]
      BY AppendProperties
    <2>3. new \in Seq(AcpEvents) /\ Len(new) = Len(old) + 1 /\ new[Len(old) + 1] = e
          /\ \A i \in 1..Len(old) : new[i] = old[i]
      BY <2>1, <2>2
    <2>4. inbox'[p] = [inbox[p] EXCEPT !.events = new]
      BY <1>1, <1>3, <2>1 DEF Broadcasts
    <2>5. inbox'[p].events = new /\ inbox'[p].lagged = inbox[p].lagged /\ inbox'[p] \in AcpBoxes
      BY <1>2, <2>3, <2>4 DEF AcpBoxes
    <2>6. \A k \in 1..Len(new) : new[k] = e \/ \E j \in 1..Len(old) : new[k] = old[j]
      <3>1. Len(old) \in Nat
        BY <1>1
      <3>2. \A k \in 1..Len(new) : k \in 1..Len(old) \/ k = Len(old) + 1
        BY <2>3, <3>1
      <3> QED BY <2>3, <3>2
    <2> QED BY <1>1, <2>3, <2>5, <2>6
  <1>4. CASE ~(Len(old) < Slots)
    <2>1. PICK rest : rest = Tail(old)
      OBVIOUS
    <2>2. Len(old) \in Nat /\ Len(old) > 0 /\ old # <<>>
      BY <1>1, <1>4
    <2>3. rest \in Seq(AcpEvents) /\ Len(rest) = Len(old) - 1 /\ \A i \in 1..Len(rest) : rest[i] = old[i + 1]
      BY <2>1, <2>2, HeadTailProperties
    <2>4. PICK new : new = Append(rest, e)
      OBVIOUS
    <2>5. /\ Append(rest, e) \in Seq(AcpEvents) /\ Len(Append(rest, e)) = Len(rest) + 1
          /\ Append(rest, e)[Len(rest) + 1] = e
          /\ \A i \in 1..Len(rest) : Append(rest, e)[i] = rest[i]
      BY <2>3, AppendProperties
    <2>6. new \in Seq(AcpEvents) /\ Len(new) = Len(rest) + 1 /\ new[Len(rest) + 1] = e
          /\ \A i \in 1..Len(rest) : new[i] = rest[i]
      BY <2>4, <2>5
    <2>7. inbox'[p] = [events |-> new, lagged |-> TRUE]
      BY <1>1, <1>4, <2>1, <2>4 DEF Broadcasts
    <2>8. inbox'[p].events = new /\ inbox'[p].lagged /\ inbox'[p] \in AcpBoxes
      BY <2>6, <2>7 DEF AcpBoxes
    <2>9. \A k \in 1..Len(new) : new[k] = e \/ \E j \in 1..Len(old) : new[k] = old[j]
      <3>1. \A k \in 1..Len(new) : k \in 1..Len(rest) \/ k = Len(rest) + 1
        BY <2>2, <2>3, <2>6
      <3>2. \A k \in 1..Len(rest) : new[k] = old[k + 1] /\ k + 1 \in 1..Len(old)
        BY <2>2, <2>3, <2>6
      <3> QED BY <2>6, <3>1, <3>2
    <2> QED BY <1>1, <2>8, <2>9
  <1> QED BY <1>3, <1>4

\* An event that is sent: a prompt that listens has it in its buffer, or an overrun to recover from.
LEMMA BroadcastKeeps ==
    ASSUME AcpTyped, NEW e \in inflight, Broadcasts(e), NEW p \in AcpPrompts, PromptInv(p), Slots \in Nat \ {0}
    PROVE  PromptInv(p)'
  <1>1. e \in AcpEvents /\ e = <<e[1], e[2]>> /\ e[1] \in AcpPrompts /\ e[2] \in Nat
    BY DEF AcpTyped, AcpEvents
  <1>2. UNCHANGED <<turn, bridge, shown, misreads>> /\ inflight' = inflight \ {e}
    BY DEF Broadcasts
  <1>3. /\ End(p)' = End(p) /\ (Settled(p)' <=> Settled(p)) /\ (Before(p)' <=> Before(p)) /\ (Gone(p)' <=> Gone(p))
        /\ PromptAt(p)' = PromptAt(p) /\ (Paged(p)' <=> Paged(p)) /\ (Sound(p)' <=> Sound(p))
        /\ (\A i : Said(p, i)' <=> Said(p, i)) /\ (\A i : Seen(p, i)' <=> Seen(p, i))
    BY <1>2 DEF End, Settled, Last, Before, Gone, PromptAt, Paged, Sound, Said, Seen
  <1>4. AcpPlaceOK(p)'
    BY <1>2, <1>3 DEF PromptInv, AcpPlaceOK
  <1>5. CASE ~Listens(p)
    <2>1. inbox'[p] = inbox[p]
      BY <1>5 DEF Broadcasts
    <2>2. AcpLogOK(p)'
      BY <1>2, <1>3, <2>1 DEF PromptInv, AcpLogOK
    <2>3. ASSUME Sound(p), NEW i \in Nat, Said(p, i)
          PROVE  Seen(p, i)
      <3>1. ~Before(p)
        BY <2>3 DEF PromptInv, AcpLogOK, Said
      <3>2. PromptAt(p) = "answered"
        BY <1>5, <3>1 DEF Listens, Before
      <3> QED BY <2>3, <3>2 DEF PromptInv, AcpHeardOK
    <2>4. AcpHeardOK(p)'
      BY <1>3, <2>3 DEF AcpHeardOK
    <2> QED BY <1>4, <2>2, <2>4 DEF PromptInv
  <1>6. CASE Listens(p)
    <2>1. PICK old : old = inbox[p].events
      OBVIOUS
    <2>2. PICK new : new = inbox'[p].events
      OBVIOUS
    <2>3. /\ old \in Seq(AcpEvents) /\ new \in Seq(AcpEvents)
          /\ \A k \in 1..Len(new) : new[k] = e \/ \E j \in 1..Len(old) : new[k] = old[j]
          /\ inbox'[p].lagged
              \/ /\ ~inbox[p].lagged
                 /\ Len(new) = Len(old) + 1
                 /\ new[Len(old) + 1] = e
                 /\ \A k \in 1..Len(old) : new[k] = old[k]
      BY <1>1, <1>6, <2>1, <2>2, BroadcastEffect, PromptTypes DEF AcpBoxes
    <2>4. Len(old) \in Nat /\ Len(new) \in Nat
      BY <2>3
    <2>5. \A i \in Nat : <<p, i>> \in inflight => i \in 1..End(p)
      BY DEF PromptInv, AcpLogOK
    <2>6. \A k \in 1..Len(old) : old[k][1] = p => old[k][2] \in 1..End(p)
      BY <2>1 DEF PromptInv, AcpLogOK
    <2>7. \A k \in 1..Len(new) : new[k][1] = p => new[k][2] \in 1..End(p)
      BY <1>1, <2>3, <2>5, <2>6
    <2>8. AcpLogOK(p)'
      BY <1>2, <1>3, <2>2, <2>7 DEF PromptInv, AcpLogOK
    <2>9. ASSUME Sound(p), NEW i \in Nat, Said(p, i), ~Seen(p, i)
          PROVE  /\ PromptAt(p) # "answered" /\ bridge[p].cursor < i
                 /\ Coming(p, i)' /\ NotPassed(p, i)' /\ InTurn(p, i)'
      <3>1. PromptAt(p) # "answered" /\ bridge[p].cursor < i /\ Coming(p, i) /\ NotPassed(p, i) /\ InTurn(p, i)
        BY <2>9 DEF PromptInv, AcpHeardOK
      <3>2. NotPassed(p, i)'
        BY <1>2, <1>3, <3>1 DEF NotPassed
      <3>3. CASE inbox'[p].lagged
        BY <3>1, <3>2, <3>3 DEF Coming, InTurn, Recovering
      <3>4. CASE ~inbox'[p].lagged
        <4>1. /\ ~inbox[p].lagged /\ Len(new) = Len(old) + 1 /\ new[Len(old) + 1] = e
              /\ \A k \in 1..Len(old) : new[k] = old[k]
          BY <2>3, <3>4
        <4>2. Recovering(p, i)' <=> Recovering(p, i)
          BY <1>2, <1>3, <3>4, <4>1 DEF Recovering
        <4>3. \A m \in 0..Len(old) : Queued(p, i, m)' <=> Queued(p, i, m)
          <5>1. \A m \in 0..Len(old) : \A k \in 1..m : new[k] = old[k]
            BY <2>4, <4>1
          <5> QED BY <2>1, <2>2, <5>1 DEF Queued
        <4>4. <<p, i>> = e => Queued(p, i, Len(new))'
          BY <2>2, <2>4, <4>1 DEF Queued
        <4>5. Queued(p, i, Len(old)) => Queued(p, i, Len(new))'
          <5>1. \A k \in 1..Len(old) : k \in 1..Len(new) /\ new[k] = old[k]
            BY <2>4, <4>1
          <5> QED BY <2>1, <2>2, <5>1 DEF Queued
        <4>6. Coming(p, i)'
          <5>1. CASE <<p, i>> \in inflight
            BY <1>2, <2>2, <4>4, <5>1 DEF Coming
          <5>2. CASE <<p, i>> \notin inflight
            BY <2>1, <2>2, <3>1, <4>2, <4>5, <5>2 DEF Coming
          <5> QED BY <5>1, <5>2
        <4>7. ASSUME e[1] = p, i < e[2]
              PROVE  Recovering(p, i) \/ Queued(p, i, Len(old))
          <5>1. <<p, e[2]>> \in inflight /\ e[2] \in 1..End(p) /\ i \in 1..End(p)
            BY <1>1, <2>5, <2>9, <4>7 DEF Said
          <5>2. turn[p].log[e[2]] # "answered"
            BY <3>1, <4>7, <5>1 DEF NotPassed
          <5>3. turn[p].log[e[2]] # "cancelled"
            <6>1. turn[p].log[e[2]] \in EndKinds => e[2] = End(p)
              BY <5>1 DEF PromptInv, AcpLogOK
            <6>2. Last(turn[p].log) # "cancelled"
              <7>1. End(p) # 0
                BY <5>1
              <7> QED BY <2>9, <7>1 DEF Sound
            <6> QED BY <6>1, <6>2 DEF Last, End, EndKinds
          <5>4. Said(p, e[2])
            <6>1. turn[p].log \in Seq(AcpKinds)
              BY PromptTypes
            <6>2. turn[p].log[e[2]] \in AcpKinds
              BY <5>1, <6>1 DEF End
            <6> QED BY <5>1, <5>2, <5>3, <6>2 DEF Said, AcpKinds
          <5>5. <<p, i>> \notin inflight
            <6>1. <<p, i>> \in inflight => e[2] <= i
              BY <2>9, <5>1, <5>4 DEF PromptInv, AcpLogOK
            <6> QED BY <1>1, <4>7, <6>1
          <5> QED BY <2>1, <3>1, <5>5 DEF Coming
        <4>8. ASSUME NEW k \in 1..Len(new), new[k][1] = p, i < new[k][2]
              PROVE  Recovering(p, i)' \/ Queued(p, i, k - 1)'
          <5>1. CASE k \in 1..Len(old)
            <6>1. old[k][1] = p /\ i < old[k][2] /\ k - 1 \in 0..Len(old)
              BY <2>4, <4>1, <4>8, <5>1
            <6>2. Recovering(p, i) \/ Queued(p, i, k - 1)
              BY <2>1, <3>1, <5>1, <6>1 DEF InTurn
            <6> QED BY <4>2, <4>3, <6>1, <6>2
          <5>2. CASE k \notin 1..Len(old)
            <6>1. k = Len(old) + 1 /\ k - 1 = Len(old) /\ Len(old) \in 0..Len(old)
              BY <2>4, <4>1, <5>2
            <6>2. e[1] = p /\ i < e[2]
              BY <4>1, <4>8, <6>1
            <6> QED BY <4>2, <4>3, <4>7, <6>1, <6>2
          <5> QED BY <5>1, <5>2
        <4>9. InTurn(p, i)'
          BY <2>2, <4>8 DEF InTurn
        <4> QED BY <3>1, <3>2, <4>6, <4>9
      <3> QED BY <3>3, <3>4
    <2>10. AcpHeardOK(p)'
      BY <1>2, <1>3, <2>9 DEF AcpHeardOK
    <2> QED BY <1>4, <2>8, <2>10 DEF PromptInv
  <1> QED BY <1>5, <1>6

\* The oldest event is taken from the buffer; it is not i.
LEMMA TakingKeeps ==
    ASSUME AcpTyped, NEW p \in AcpPrompts, inbox[p].events # <<>>, inbox'[p].events = Tail(inbox[p].events),
           NEW i \in Nat, Head(inbox[p].events) # <<p, i>>,
           Queued(p, i, Len(inbox[p].events)) \/ <<p, i>> \in inflight,
           InTurn(p, i), ~Recovering(p, i), <<p, i>> \in inflight => <<p, i>> \in inflight'
    PROVE  Coming(p, i)' /\ InTurn(p, i)'
  <1>1. PICK old \in Seq(AcpEvents) : old = inbox[p].events
    BY PromptTypes
  <1>2. PICK new : new = Tail(old)
    OBVIOUS
  <1>3. new \in Seq(AcpEvents) /\ Len(new) = Len(old) - 1 /\ (\A k \in 1..Len(new) : new[k] = old[k + 1])
        /\ Len(old) \in Nat /\ Len(old) > 0
    <2>1. old # <<>>
      BY <1>1
    <2> QED BY <1>2, <2>1, HeadTailProperties
  <1>4. inbox'[p].events = new
    BY <1>1, <1>2
  <1>5. old[1] # <<p, i>>
    BY <1>1
  <1>6. \A n \in 1..Len(old) : Queued(p, i, n) => Queued(p, i, n - 1)'
    <2>1. ASSUME NEW n \in 1..Len(old), NEW k \in 1..n, old[k] = <<p, i>>
          PROVE  k - 1 \in 1..(n - 1) /\ new[k - 1] = <<p, i>>
      <3>1. k # 1
        BY <1>5, <2>1
      <3>2. k - 1 \in 1..(n - 1) /\ k - 1 \in 1..Len(new) /\ (k - 1) + 1 = k
        BY <1>3, <3>1
      <3>3. new[k - 1] = old[(k - 1) + 1]
        BY <1>3, <3>2
      <3> QED BY <2>1, <3>2, <3>3
    <2>2. \A n \in 1..Len(old) : (\E k \in 1..n : old[k] = <<p, i>>) => \E k \in 1..(n - 1) : new[k] = <<p, i>>
      BY <2>1
    <2> QED BY <1>1, <1>4, <2>2 DEF Queued
  <1>7. Coming(p, i)'
    <2>1. CASE <<p, i>> \in inflight
      BY <2>1 DEF Coming
    <2>2. CASE Queued(p, i, Len(old))
      <3>1. Len(old) \in 1..Len(old) /\ Len(old) - 1 = Len(new)
        BY <1>3
      <3>2. Queued(p, i, Len(new))'
        BY <1>6, <2>2, <3>1
      <3> QED BY <1>4, <3>2 DEF Coming
    <2> QED BY <1>1, <2>1, <2>2
  <1>8. ASSUME NEW k \in 1..Len(new), new[k][1] = p, i < new[k][2]
        PROVE  Queued(p, i, k - 1)'
    <2>1. k + 1 \in 1..Len(old) /\ old[k + 1] = new[k] /\ (k + 1) - 1 = k /\ k \in 1..Len(old)
      BY <1>3
    <2>2. Queued(p, i, k)
      <3>1. Recovering(p, i) \/ Queued(p, i, (k + 1) - 1)
        BY <1>1, <1>8, <2>1 DEF InTurn
      <3> QED BY <2>1, <3>1
    <2> QED BY <1>6, <2>1, <2>2
  <1>9. InTurn(p, i)'
    BY <1>4, <1>8 DEF InTurn
  <1> QED BY <1>7, <1>9

\* Before a bridge takes an event from its buffer it has nothing to recover.
LEMMA NothingToRecover ==
    ASSUME NEW p \in AcpPrompts, PromptAt(p) = "receiving", ~inbox[p].lagged
    PROVE  \A i : ~Recovering(p, i)
  BY DEF Recovering, Paged

\* An event of another run, or one that was shown, is passed over.
LEMMA SkipKeeps ==
    ASSUME AcpTyped, NEW p \in AcpPrompts, PromptInv(p), PromptAt(p) = "receiving", ~inbox[p].lagged,
           inbox[p].events # <<>>, inbox'[p].events = Tail(inbox[p].events),
           ~(Head(inbox[p].events)[1] = p /\ Head(inbox[p].events)[2] > bridge[p].cursor),
           UNCHANGED <<turn, inflight, bridge, shown, misreads>>
    PROVE  PromptInv(p)'
  <1>1. /\ End(p)' = End(p) /\ (Settled(p)' <=> Settled(p)) /\ (Before(p)' <=> Before(p)) /\ (Gone(p)' <=> Gone(p))
        /\ PromptAt(p)' = PromptAt(p) /\ (Paged(p)' <=> Paged(p)) /\ (Sound(p)' <=> Sound(p))
        /\ (\A i : Said(p, i)' <=> Said(p, i)) /\ (\A i : Seen(p, i)' <=> Seen(p, i))
    BY DEF End, Settled, Last, Before, Gone, PromptAt, Paged, Sound, Said, Seen
  <1>2. AcpPlaceOK(p)'
    BY <1>1 DEF PromptInv, AcpPlaceOK
  <1>3. PICK old \in Seq(AcpEvents) : old = inbox[p].events
    BY PromptTypes
  <1>4. PICK new : new = Tail(old)
    OBVIOUS
  <1>5. (\A k \in 1..Len(new) : new[k] = old[k + 1]) /\ Len(new) = Len(old) - 1 /\ Len(old) \in Nat /\ Len(old) > 0
    BY <1>3, <1>4, HeadTailProperties
  <1>6. inbox'[p].events = new
    BY <1>3, <1>4
  <1>7. \A k \in 1..Len(new) : new[k][1] = p => new[k][2] \in 1..End(p)
    <2>1. \A k \in 1..Len(old) : old[k][1] = p => old[k][2] \in 1..End(p)
      BY <1>3 DEF PromptInv, AcpLogOK
    <2>2. \A k \in 1..Len(new) : k + 1 \in 1..Len(old)
      BY <1>5
    <2> QED BY <1>5, <2>1, <2>2
  <1>8. AcpLogOK(p)'
    BY <1>1, <1>6, <1>7 DEF PromptInv, AcpLogOK
  <1>9. ASSUME Sound(p), NEW i \in Nat, Said(p, i), ~Seen(p, i)
        PROVE  /\ PromptAt(p) # "answered" /\ bridge[p].cursor < i
               /\ Coming(p, i)' /\ NotPassed(p, i)' /\ InTurn(p, i)'
    <2>1. PromptAt(p) # "answered" /\ bridge[p].cursor < i /\ Coming(p, i) /\ NotPassed(p, i) /\ InTurn(p, i)
      BY <1>9 DEF PromptInv, AcpHeardOK
    <2>2. NotPassed(p, i)'
      BY <1>1, <2>1 DEF NotPassed
    <2>3. ~Recovering(p, i)
      BY NothingToRecover
    <2>4. Head(inbox[p].events) # <<p, i>>
      BY <2>1
    <2>5. Queued(p, i, Len(inbox[p].events)) \/ <<p, i>> \in inflight
      BY <2>1, <2>3 DEF Coming
    <2>6. Coming(p, i)' /\ InTurn(p, i)'
      BY <2>1, <2>3, <2>4, <2>5, TakingKeeps
    <2> QED BY <2>1, <2>2, <2>6
  <1>10. AcpHeardOK(p)'
    BY <1>1, <1>9 DEF AcpHeardOK
  <1> QED BY <1>2, <1>8, <1>10 DEF PromptInv

\* An event that is projected.
LEMMA ConsumesEffect ==
    ASSUME AcpTyped, NEW p \in AcpPrompts, NEW seq \in Nat, NEW back, NEW page, Consumes(p, seq, back, page)
    PROVE  /\ bridge'[p].cursor = seq /\ bridge'[p].page = page /\ bridge'[p].more = bridge[p].more
           /\ bridge'[p].back = back
           /\ bridge'[p].at = CASE turn[p].log[seq] = "ask" -> "asking"
                                [] turn[p].log[seq] \in EndKinds -> "leaving" [] OTHER -> back
           /\ \A q \in AcpPrompts : q # p => bridge'[q] = bridge[q] /\ shown'[q] = shown[q]
           /\ shown'[p] \in Seq(Nat) /\ Len(shown'[p]) = Len(shown[p]) + 1
           /\ shown'[p][Len(shown[p]) + 1] = seq
           /\ \A k \in 1..Len(shown[p]) : shown'[p][k] = shown[p][k]
  <1>1. PICK old \in Seq(Nat) : old = shown[p]
    BY PromptTypes
  <1>2. /\ Append(old, seq) \in Seq(Nat) /\ Len(Append(old, seq)) = Len(old) + 1
        /\ Append(old, seq)[Len(old) + 1] = seq
        /\ \A k \in 1..Len(old) : Append(old, seq)[k] = old[k]
    BY AppendProperties
  <1>3. shown'[p] = Append(old, seq)
    BY <1>1 DEF Consumes, AcpTyped
  <1>4. \A q \in AcpPrompts : q # p => bridge'[q] = bridge[q] /\ shown'[q] = shown[q]
    BY DEF Consumes, AcpTyped
  <1>5. PICK at : at = CASE turn[p].log[seq] = "ask" -> "asking"
                         [] turn[p].log[seq] \in EndKinds -> "leaving" [] OTHER -> back
    OBVIOUS
  <1>6. bridge'[p] = [bridge[p] EXCEPT !.cursor = seq, !.page = page, !.back = back, !.at = at]
    BY <1>5 DEF Consumes, AcpTyped
  <1>7. /\ bridge'[p].cursor = seq /\ bridge'[p].page = page /\ bridge'[p].more = bridge[p].more
        /\ bridge'[p].back = back /\ bridge'[p].at = at
    BY <1>6, PromptTypes DEF AcpTasks
  <1> QED BY <1>1, <1>2, <1>3, <1>4, <1>5, <1>7

LEMMA ConsumesKeeps ==
    ASSUME AcpTyped, NEW p \in AcpPrompts, PromptInv(p), PromptAt(p) \in {"receiving", "paging"},
           NEW seq \in 1..End(p), bridge[p].cursor < seq, NEW back \in {"receiving", "paging"},
           NEW page \in Seq(Nat), Consumes(p, seq, back, page), UNCHANGED <<turn, inflight, misreads>>,
           back = "paging" => seq + Len(page) <= End(p) /\ \A k \in 1..Len(page) : page[k] = seq + k,
           \A k \in 1..Len(inbox'[p].events) :
              inbox'[p].events[k][1] = p => inbox'[p].events[k][2] \in 1..End(p),
           Sound(p) => \A i \in Nat : Said(p, i) /\ ~Seen(p, i) => seq <= i,
           Sound(p) => \A i \in Nat :
              Said(p, i) /\ ~Seen(p, i) /\ seq < i => Coming(p, i)' /\ InTurn(p, i)'
    PROVE  PromptInv(p)'
  <1>1. PICK n \in Nat : n = End(p)
    BY PromptTypes
  <1>2. seq \in Nat /\ bridge[p].cursor \in Nat
    BY <1>1, PromptTypes
  <1>3. PICK kind : kind = turn[p].log[seq]
    OBVIOUS
  <1>4. PICK m \in Nat : m = Len(shown[p])
    BY PromptTypes
  <1>5. PICK old : old = shown[p]
    OBVIOUS
  <1>6. PICK new : new = shown'[p]
    OBVIOUS
  <1>7. /\ bridge'[p].cursor = seq /\ bridge'[p].page = page /\ bridge'[p].more = bridge[p].more
        /\ bridge'[p].back = back
        /\ bridge'[p].at = CASE kind = "ask" -> "asking" [] kind \in EndKinds -> "leaving" [] OTHER -> back
        /\ Len(new) = m + 1 /\ new[m + 1] = seq /\ \A k \in 1..m : new[k] = old[k]
    BY <1>2, <1>3, <1>4, <1>5, <1>6, ConsumesEffect
  <1>8. /\ End(p)' = End(p) /\ (Settled(p)' <=> Settled(p)) /\ (Sound(p)' <=> Sound(p))
        /\ (\A i : Said(p, i)' <=> Said(p, i)) /\ (\A i : NotPassed(p, i)' <=> NotPassed(p, i))
    BY DEF End, Settled, Last, Sound, Said, NotPassed
  <1>9. /\ PromptAt(p)' \in {"asking", "leaving", back}
        /\ PromptAt(p)' = "leaving" => kind \in EndKinds
    BY <1>7 DEF PromptAt
  <1>10. ~Before(p)' /\ PromptAt(p)' # "accepted" /\ PromptAt(p)' # "answered" /\ PromptAt(p)' # "denying"
    BY <1>9 DEF Before
  <1>11. AcpLogOK(p)'
    BY <1>8, <1>10 DEF PromptInv, AcpLogOK
  <1>12. Paged(p)' => back = "paging"
    BY <1>7, <1>9 DEF Paged
  <1>13. Gone(p)' => seq = End(p) /\ Settled(p)
    <2>1. SUFFICES ASSUME kind \in EndKinds PROVE seq = End(p) /\ Settled(p)
      BY <1>9, <1>10 DEF Gone
    <2>2. seq = End(p)
      BY <1>3, <2>1 DEF PromptInv, AcpLogOK
    <2>3. turn[p].log # <<>>
      BY <1>1, <2>2, PromptTypes DEF End
    <2> QED BY <1>3, <2>1, <2>2, <2>3 DEF Settled, Last, End
  <1>14. /\ \A i, j \in 1..(m + 1) : i < j => new[i] < new[j]
         /\ \A i \in 1..(m + 1) : new[i] <= seq
    <2>1. \A i \in 1..m : old[i] \in Nat /\ old[i] <= bridge[p].cursor
      BY <1>4, <1>5, PromptTypes DEF PromptInv, AcpPlaceOK
    <2>2. \A i, j \in 1..m : i < j => old[i] < old[j]
      BY <1>4, <1>5 DEF PromptInv, AcpPlaceOK
    <2>3. \A i \in 1..m : new[i] < seq
      BY <1>2, <1>7, <2>1
    <2>4. \A i \in 1..(m + 1) : i \in 1..m \/ i = m + 1
      OBVIOUS
    <2>5. \A i \in 1..(m + 1) : new[i] <= seq
      BY <1>2, <1>7, <2>1, <2>3, <2>4
    <2>6. ASSUME NEW i \in 1..(m + 1), NEW j \in 1..(m + 1), i < j
          PROVE  new[i] < new[j]
      <3>1. i \in 1..m
        BY <2>6
      <3>2. CASE j \in 1..m
        BY <1>7, <2>2, <2>6, <3>1, <3>2
      <3>3. CASE j = m + 1
        BY <1>7, <2>3, <3>1, <3>3
      <3> QED BY <2>4, <3>2, <3>3
    <2> QED BY <2>5, <2>6
  <1>15. AcpPlaceOK(p)'
    BY <1>1, <1>2, <1>6, <1>7, <1>8, <1>10, <1>12, <1>13, <1>14 DEF AcpPlaceOK
  <1>16. \A i : Seen(p, i)' <=> Seen(p, i) \/ i = seq
    <2>1. \A k \in 1..m : k \in 1..(m + 1)
      OBVIOUS
    <2>2. \A k \in 1..(m + 1) : k \in 1..m \/ k = m + 1
      OBVIOUS
    <2>3. m + 1 \in 1..(m + 1)
      OBVIOUS
    <2> QED BY <1>4, <1>5, <1>6, <1>7, <2>1, <2>2, <2>3 DEF Seen
  <1>17. ASSUME Sound(p), NEW i \in Nat, Said(p, i), ~Seen(p, i), i # seq
         PROVE  /\ PromptAt(p)' # "answered" /\ bridge'[p].cursor < i
                /\ Coming(p, i)' /\ NotPassed(p, i)' /\ InTurn(p, i)'
    <2>1. seq < i
      BY <1>2, <1>17
    <2>2. NotPassed(p, i)
      BY <1>17 DEF PromptInv, AcpHeardOK
    <2> QED BY <1>7, <1>8, <1>10, <1>17, <2>1, <2>2
  <1>18. AcpHeardOK(p)'
    BY <1>8, <1>16, <1>17 DEF AcpHeardOK
  <1> QED BY <1>11, <1>15, <1>18 DEF PromptInv

\* consume_event on the buffer: an event of the run above the cursor is shown, others are not.
LEMMA ReceivesKeeps ==
    ASSUME AcpTyped, NEW p \in AcpPrompts, PromptInv(p), Receives(p)
    PROVE  PromptInv(p)'
  <1>1. PICK old \in Seq(AcpEvents) : old = inbox[p].events
    BY PromptTypes
  <1>2. /\ PromptAt(p) = "receiving" /\ ~inbox[p].lagged /\ old # <<>>
        /\ inbox' = [inbox EXCEPT ![p].events = Tail(@)]
        /\ UNCHANGED <<turn, inflight, misreads>>
    BY <1>1 DEF Receives, serverVars
  <1>3. inbox'[p].events = Tail(inbox[p].events)
    <2>1. inbox'[p] = [inbox[p] EXCEPT !.events = Tail(@)]
      BY <1>2 DEF AcpTyped
    <2> QED BY <2>1, PromptTypes DEF AcpBoxes
  <1>4. PICK new : new = Tail(old)
    OBVIOUS
  <1>5. (\A k \in 1..Len(new) : new[k] = old[k + 1]) /\ Len(new) = Len(old) - 1 /\ Len(old) \in Nat /\ Len(old) > 0
    BY <1>2, <1>4, HeadTailProperties
  <1>6. PICK e \in AcpEvents : e = old[1] /\ e = Head(inbox[p].events)
    BY <1>1, <1>2, <1>5
  <1>7. e = <<e[1], e[2]>> /\ e[2] \in Nat
    BY DEF AcpEvents
  <1>8. CASE ~(e[1] = p /\ e[2] > bridge[p].cursor)
    <2>1. UNCHANGED <<bridge, shown>>
      BY <1>6, <1>8 DEF Receives
    <2> QED BY <1>1, <1>2, <1>3, <1>6, <1>8, <2>1, SkipKeeps
  <1>9. CASE e[1] = p /\ e[2] > bridge[p].cursor
    <2>1. PICK seq : seq = e[2]
      OBVIOUS
    <2>2. Consumes(p, seq, "receiving", <<>>)
      BY <1>6, <1>9, <2>1 DEF Receives
    <2>3. \A k \in 1..Len(old) : old[k][1] = p => old[k][2] \in 1..End(p)
      BY <1>1 DEF PromptInv, AcpLogOK
    <2>4. seq \in 1..End(p) /\ seq \in Nat /\ bridge[p].cursor \in Nat /\ bridge[p].cursor < seq
      <3>1. 1 \in 1..Len(old)
        BY <1>5
      <3>2. old[1][1] = p => old[1][2] \in 1..End(p)
        BY <2>3, <3>1
      <3>3. seq \in 1..End(p)
        BY <1>6, <1>9, <2>1, <3>2
      <3>4. bridge[p].cursor \in Nat
        BY PromptTypes
      <3> QED BY <1>7, <1>9, <2>1, <3>3, <3>4
    <2>5. \A k \in 1..Len(new) : new[k][1] = p => new[k][2] \in 1..End(p)
      <3>1. \A k \in 1..Len(new) : k + 1 \in 1..Len(old)
        BY <1>5
      <3> QED BY <1>5, <2>3, <3>1
    <2>6. ASSUME Sound(p), NEW i \in Nat, Said(p, i), ~Seen(p, i)
          PROVE  seq <= i /\ (seq < i => Coming(p, i)' /\ InTurn(p, i)')
      <3>1. Coming(p, i) /\ InTurn(p, i) /\ ~Recovering(p, i)
        BY <1>2, <2>6, NothingToRecover DEF PromptInv, AcpHeardOK
      <3>2. ~(i < seq)
        <4>1. ~Queued(p, i, 1 - 1)
          BY DEF Queued
        <4>2. 1 \in 1..Len(old)
          BY <1>5
        <4> QED BY <1>1, <1>6, <1>9, <2>1, <3>1, <4>1, <4>2 DEF InTurn
      <3>3. seq < i => Coming(p, i)' /\ InTurn(p, i)'
        <4>1. SUFFICES ASSUME seq < i PROVE Coming(p, i)' /\ InTurn(p, i)'
          OBVIOUS
        <4>2. Head(inbox[p].events) # <<p, i>>
          BY <1>6, <1>7, <2>1, <2>4, <4>1
        <4>3. Queued(p, i, Len(inbox[p].events)) \/ <<p, i>> \in inflight
          BY <3>1 DEF Coming
        <4> QED BY <1>1, <1>2, <1>3, <3>1, <4>2, <4>3, TakingKeeps
      <3> QED BY <2>4, <3>2, <3>3
    <2>7. <<>> \in Seq(Nat)
      OBVIOUS
    <2> QED BY <1>1, <1>2, <1>3, <1>4, <2>2, <2>4, <2>5, <2>6, <2>7, ConsumesKeeps
  <1> QED BY <1>8, <1>9

\* consume_event on a page of the log, which goes on from the cursor.
LEMMA PagesOnKeeps ==
    ASSUME AcpTyped, NEW p \in AcpPrompts, PromptInv(p), PagesOn(p)
    PROVE  PromptInv(p)'
  <1>1. PICK page \in Seq(Nat) : page = bridge[p].page
    BY PromptTypes
  <1>2. /\ PromptAt(p) = "paging"
        /\ UNCHANGED <<turn, inflight, inbox, misreads>>
    BY DEF PagesOn, serverVars
  <1>3. Paged(p)
    BY <1>2 DEF Paged
  <1>4. /\ bridge[p].cursor + Len(page) <= End(p)
        /\ \A k \in 1..Len(page) : page[k] = bridge[p].cursor + k
    BY <1>1, <1>3 DEF PromptInv, AcpPlaceOK
  <1>5. CASE page = <<>>
    <2>1. Moves(p, IF bridge[p].more THEN "reading" ELSE "receiving") /\ shown' = shown
      BY <1>1, <1>2, <1>5 DEF PagesOn
    <2>2. PICK at : at = IF bridge[p].more THEN "reading" ELSE "receiving"
      OBVIOUS
    <2>3. bridge'[p].at = at
      BY <2>1, <2>2 DEF Moves, AcpTyped, AcpTasks
    <2>4. ~Paged(p)'
      BY <2>2, <2>3 DEF Paged, PromptAt
    <2>5. ASSUME NEW i \in 1..End(p), bridge[p].cursor < i, Recovering(p, i)
          PROVE  Recovering(p, i)'
      <3>1. inbox[p].lagged \/ bridge[p].more
        <4>1. bridge[p].cursor \in Nat /\ Len(page) = 0
          BY <1>5, PromptTypes
        <4> QED BY <1>1, <1>2, <2>5, <4>1 DEF Recovering
      <3> QED BY <1>2, <2>2, <2>3, <3>1 DEF Recovering, PromptAt
    <2> QED BY <1>2, <2>1, <2>2, <2>4, <2>5, MovesKeeps
  <1>6. CASE page # <<>>
    <2>1. PICK rest : rest = Tail(page)
      OBVIOUS
    <2>2. rest \in Seq(Nat) /\ Len(rest) = Len(page) - 1 /\ (\A k \in 1..Len(rest) : rest[k] = page[k + 1])
          /\ Len(page) \in Nat /\ Len(page) > 0
      BY <1>6, <2>1, HeadTailProperties
    <2>3. PICK seq : seq = page[1]
      OBVIOUS
    <2>4. Consumes(p, seq, "paging", rest)
      BY <1>1, <1>6, <2>1, <2>3 DEF PagesOn
    <2>5. bridge[p].cursor \in Nat /\ End(p) \in Nat
      BY PromptTypes
    <2>6. seq = bridge[p].cursor + 1 /\ seq \in 1..End(p) /\ seq \in Nat
      BY <1>4, <2>2, <2>3, <2>5
    <2>7. seq + Len(rest) <= End(p) /\ \A k \in 1..Len(rest) : rest[k] = seq + k
      <3>1. \A k \in 1..Len(rest) : k + 1 \in 1..Len(page)
        BY <2>2
      <3>2. \A k \in 1..Len(rest) : rest[k] = bridge[p].cursor + (k + 1)
        BY <1>4, <2>2, <3>1
      <3>3. \A k \in 1..Len(rest) : rest[k] = seq + k
        <4>1. \A c \in Nat, k \in 1..Len(rest) : c + (k + 1) = (c + 1) + k
          BY <2>2
        <4> QED BY <2>5, <2>6, <3>2, <4>1
      <3>4. seq + Len(rest) <= End(p)
        BY <1>4, <2>2, <2>5, <2>6
      <3> QED BY <3>3, <3>4
    <2>8. \A k \in 1..Len(inbox[p].events) : inbox[p].events[k][1] = p => inbox[p].events[k][2] \in 1..End(p)
      BY DEF PromptInv, AcpLogOK
    <2>9. ASSUME Sound(p), NEW i \in Nat, Said(p, i), ~Seen(p, i)
          PROVE  seq <= i /\ (seq < i => Coming(p, i)' /\ InTurn(p, i)')
      <3>1. Coming(p, i) /\ InTurn(p, i) /\ bridge[p].cursor < i
        BY <2>9 DEF PromptInv, AcpHeardOK
      <3>2. seq <= i
        BY <2>5, <2>6, <3>1
      <3>3. ASSUME seq < i
            PROVE  Recovering(p, i) => Recovering(p, i)'
        <4>1. turn[p].log[seq] \notin EndKinds
          <5>1. i <= End(p)
            BY <2>5, <2>9 DEF Said
          <5>2. turn[p].log[seq] \in EndKinds => seq = End(p)
            BY <2>6 DEF PromptInv, AcpLogOK
          <5> QED BY <2>5, <2>6, <3>3, <5>1, <5>2
        <4>2. /\ bridge'[p].at \in {"asking", "paging"} /\ bridge'[p].back = "paging"
              /\ bridge'[p].more = bridge[p].more /\ bridge'[p].cursor = seq /\ bridge'[p].page = rest
          BY <2>4, <2>6, <4>1, ConsumesEffect
        <4>3. Paged(p)'
          BY <4>2 DEF Paged, PromptAt
        <4>4. inbox[p].lagged \/ bridge[p].more \/ i <= bridge[p].cursor + Len(page) <=> Recovering(p, i)
          BY <1>1, <1>2, <1>3 DEF Recovering
        <4>5. seq + Len(rest) = bridge[p].cursor + Len(page)
          BY <2>2, <2>5, <2>6
        <4> QED BY <1>2, <4>2, <4>3, <4>4, <4>5 DEF Recovering
      <3>4. \A m : Queued(p, i, m)' <=> Queued(p, i, m)
        BY <1>2 DEF Queued
      <3>5. seq < i => Coming(p, i)'
        BY <1>2, <3>1, <3>3, <3>4 DEF Coming
      <3>6. seq < i => InTurn(p, i)'
        BY <1>2, <3>1, <3>3, <3>4 DEF InTurn
      <3> QED BY <3>2, <3>5, <3>6
    <2>10. bridge[p].cursor < seq
      BY <2>5, <2>6
    <2> QED BY <1>2, <2>2, <2>4, <2>6, <2>7, <2>8, <2>9, <2>10, ConsumesKeeps
  <1> QED BY <1>5, <1>6

\* The prompt is answered when its bridge has seen the end.
LEMMA AnswersKeeps ==
    ASSUME AcpTyped, NEW p \in AcpPrompts, PromptInv(p), Answers(p)
    PROVE  PromptInv(p)'
  <1>1. /\ PromptAt(p) = "denying" /\ UNCHANGED <<turn, inflight, shown, misreads>>
        /\ bridge'[p] = [NewTask EXCEPT !.at = "answered"]
        /\ inbox'[p] = [events |-> <<>>, lagged |-> FALSE]
    BY DEF Answers, serverVars, AcpTyped
  <1>2. /\ PromptAt(p)' = "answered" /\ bridge'[p].cursor = 0 /\ Len(inbox'[p].events) = 0
    BY <1>1 DEF PromptAt, NewTask
  <1>3. /\ End(p)' = End(p) /\ (Settled(p)' <=> Settled(p)) /\ (Sound(p)' <=> Sound(p))
        /\ (\A i : Said(p, i)' <=> Said(p, i)) /\ (\A i : Seen(p, i)' <=> Seen(p, i))
    BY <1>1 DEF End, Settled, Last, Sound, Said, Seen
  <1>4. ~Before(p)' /\ ~Gone(p)' /\ ~Paged(p)'
    BY <1>2 DEF Before, Gone, Paged
  <1>5. AcpLogOK(p)'
    BY <1>1, <1>2, <1>3, <1>4 DEF PromptInv, AcpLogOK
  <1>6. Gone(p) /\ bridge[p].cursor = End(p) /\ Settled(p) /\ End(p) \in Nat
    BY <1>1, PromptTypes DEF Gone, PromptInv, AcpPlaceOK
  <1>7. AcpPlaceOK(p)'
    BY <1>1, <1>2, <1>3, <1>4, <1>6 DEF PromptInv, AcpPlaceOK
  <1>8. ASSUME Sound(p), NEW i \in Nat, Said(p, i)
        PROVE  Seen(p, i)
    <2>1. i <= End(p)
      BY <1>6, <1>8 DEF Said
    <2>2. ~(bridge[p].cursor < i)
      BY <1>6, <2>1
    <2> QED BY <1>8, <2>2 DEF PromptInv, AcpHeardOK
  <1>9. AcpHeardOK(p)'
    BY <1>3, <1>8 DEF AcpHeardOK
  <1> QED BY <1>5, <1>7, <1>9 DEF PromptInv

\* A bounded nonempty set of numbers has a maximum (Max is defined with CHOOSE).
LEMMA NatSetHasMax ==
    ASSUME NEW n \in Nat, NEW S \in SUBSET (1..n), S # {}
    PROVE  Max(S) \in S /\ \A x \in S : x <= Max(S)
  <1> DEFINE less == {p \in Nat \X Nat : p[1] < p[2]}
             T == {n - x : x \in S}
  <1>1. IsWellFoundedOn(less, Nat)
    <2>1. OpToRel(<, Nat) = less
      BY Zenon DEF OpToRel
    <2> QED BY <2>1, NatLessThanWellFounded, Zenon
  <1>2. T \subseteq Nat /\ T # {}
    <2>1. \A x \in S : x \in Nat /\ x <= n /\ n - x \in T
      OBVIOUS
    <2>2. \A x \in S : n - x \in Nat
      BY <2>1
    <2> QED BY <2>2
  <1>3. \E m \in T : \A y \in T : ~(<<y, m>> \in less)
    <2> HIDE DEF less, T
    <2> QED BY <1>1, <1>2, WFMin, Zenon
  <1>4. PICK m \in T : \A y \in T : ~(<<y, m>> \in less)
    BY <1>3
  <1>5. PICK x \in S : m = n - x
    OBVIOUS
  <1>6. \A y \in S : y <= x
    <2> TAKE y \in S
    <2>1. n - y \in T /\ n - y \in Nat /\ n - x \in Nat /\ x \in Nat /\ y \in Nat
      OBVIOUS
    <2>2. ~(n - y < n - x)
      BY <2>1, <1>4, <1>5
    <2> QED BY <2>1, <2>2
  <1> QED BY <1>6 DEF Max

\* While a ticket is open the loop has logged nothing after the approval it is about.
LEMMA OpenAskIsLast ==
    ASSUME AcpTyped, NEW p \in AcpPrompts, PromptInv(p), turn[p].ticket = "pending", NEW i \in 1..End(p), Said(p, i)
    PROVE  i <= OpenAsk(p)
  <1>1. PICK n \in Nat : n = End(p)
    BY PromptTypes
  <1>2. PICK log : log = turn[p].log
    OBVIOUS
  <1>3. PICK asks : asks = {j \in 1..n : log[j] = "ask"}
    OBVIOUS
  <1>4. PICK j \in i..n : log[j] = "ask"
    BY <1>1, <1>2 DEF PromptInv, AcpLogOK
  <1>5. asks \in SUBSET (1..n) /\ asks # {} /\ j \in asks /\ i <= j /\ i \in Nat /\ j \in Nat
    BY <1>1, <1>3, <1>4
  <1>6. Max(asks) \in asks /\ j <= Max(asks)
    BY <1>1, <1>5, NatSetHasMax
  <1>7. OpenAsk(p) = Max(asks)
    BY <1>1, <1>2, <1>3, <1>5 DEF OpenAsk, SelectLastInSubSeq, End
  <1> QED BY <1>3, <1>5, <1>6, <1>7

\* A run that goes on is followed by a bridge that has not seen its end.
LEMMA RunningAt ==
    ASSUME AcpTyped, NEW p \in AcpPrompts, PromptInv(p), Running(p)
    PROVE  ~Settled(p) /\ ~Before(p) /\ ~Gone(p) /\ PromptAt(p) # "answered"
  <1>1. ~Settled(p) /\ turn[p].log # <<>>
    BY DEF Running
  <1>2. End(p) # 0
    BY <1>1, PromptTypes DEF End
  <1> QED BY <1>1, <1>2 DEF PromptInv, AcpLogOK, AcpPlaceOK

-----------------------------------------------------------------------------
(* The steps *)

\* A step that leaves every other prompt alone.
LEMMA OnlyOne ==
    ASSUME AcpTyped', \A q \in AcpPrompts : PromptInv(q), NEW p \in AcpPrompts, PromptInv(p)',
           \A q \in AcpPrompts : q # p =>
              /\ turn'[q] = turn[q] /\ inbox'[q] = inbox[q] /\ bridge'[q] = bridge[q] /\ shown'[q] = shown[q]
              /\ \A i \in Nat : <<q, i>> \in inflight' <=> <<q, i>> \in inflight,
           misreads \subseteq misreads'
    PROVE  AcpInv'
  <1>1. ASSUME NEW q \in AcpPrompts
        PROVE  PromptInv(q)'
    <2>1. CASE q = p
      BY <2>1
    <2>2. CASE q # p
      BY <2>2, UntouchedKeeps
    <2> QED BY <2>1, <2>2
  <1> QED BY <1>1 DEF AcpInv

\* A step of which no prompt takes notice.
LEMMA NoOne ==
    ASSUME AcpTyped', \A q \in AcpPrompts : PromptInv(q),
           UNCHANGED <<turn, inflight, inbox, bridge, shown, misreads>>
    PROVE  AcpInv'
  <1>1. ASSUME NEW q \in AcpPrompts
        PROVE  PromptInv(q)'
    BY UntouchedKeeps
  <1> QED BY <1>1 DEF AcpInv

\* An event is logged while no bridge moves.
LEMMA WorksKeeps ==
    ASSUME AcpInv, NEW p \in AcpPrompts, Works(p)
    PROVE  AcpInv'
  <1>1. AcpTyped /\ PromptInv(p) /\ \A q \in AcpPrompts : PromptInv(q)
    BY DEF AcpInv
  <1>2. /\ Running(p) /\ turn[p].ticket # "pending"
        /\ \A e \in inflight : e[1] = p => turn[p].log[e[2]] \notin ByLoop
        /\ UNCHANGED <<inbox, bridge, active, permission, canceller, shown, misreads>>
    BY DEF Works, loopVars
  <1>3. PICK kind \in ByLoop : Logs(p, kind, IF kind = "ask" THEN "pending" ELSE turn[p].ticket)
    BY DEF Works
  <1>4. PICK ticket : ticket = IF kind = "ask" THEN "pending" ELSE turn[p].ticket
    OBVIOUS
  <1>5. kind \in AcpKinds /\ ticket \in AcpDecisions \cup {"pending"} /\ Logs(p, kind, ticket)
    BY <1>1, <1>3, <1>4, PromptTypes DEF AcpKinds, AcpTurns
  <1>6. \A i \in Nat : <<p, i>> \in inflight => ~Said(p, i)
    BY <1>2 DEF Said
  <1>7. ~Settled(p) /\ ~Before(p)' /\ ~Gone(p)' /\ PromptAt(p)' # "answered" /\ PromptAt(p)' = PromptAt(p)
        /\ (Paged(p)' <=> Paged(p))
    BY <1>1, <1>2, RunningAt DEF Before, Gone, PromptAt, Paged
  <1>8. kind # "answered" /\ (ticket = "pending" => kind = "ask")
    BY <1>2, <1>4 DEF ByLoop
  <1>9. PromptInv(p)'
    BY <1>1, <1>2, <1>5, <1>6, <1>7, <1>8, AppendKeeps
  <1>10. /\ turn' \in [AcpPrompts -> AcpTurns] /\ inflight' \subseteq AcpEvents
         /\ inflight' = inflight \cup {<<p, End(p) + 1>>} /\ \A q \in AcpPrompts : q # p => turn'[q] = turn[q]
    BY <1>1, <1>5, LogsEffect
  <1>11. AcpTyped'
    BY <1>1, <1>2, <1>10 DEF AcpTyped, CancellerOK
  <1> QED BY <1>1, <1>2, <1>9, <1>10, <1>11, OnlyOne

\* The gate's expiry of a ticket.
LEMMA ExpiresKeeps ==
    ASSUME AcpInv, NEW p \in AcpPrompts, TicketExpires(p)
    PROVE  AcpInv'
  <1>1. AcpTyped /\ PromptInv(p) /\ \A q \in AcpPrompts : PromptInv(q)
    BY DEF AcpInv
  <1>2. /\ turn' = [turn EXCEPT ![p].ticket = "denied"]
        /\ UNCHANGED <<inflight, inbox, bridge, active, permission, canceller, shown, misreads>>
    BY DEF TicketExpires, loopVars
  <1>3. turn[p] \in AcpTurns /\ turn[p].log \in Seq(AcpKinds)
    BY <1>1, PromptTypes
  <1>4. PICK both : both = [turn[p] EXCEPT !.ticket = "denied"]
    OBVIOUS
  <1>5. both.log = turn[p].log /\ both.ticket = "denied" /\ both \in AcpTurns
    BY <1>3, <1>4 DEF AcpTurns, AcpDecisions
  <1>6. turn' \in [AcpPrompts -> AcpTurns] /\ turn'[p] = both /\ \A q \in AcpPrompts : q # p => turn'[q] = turn[q]
    BY <1>1, <1>2, <1>4, <1>5 DEF AcpTyped
  <1>7. AcpTyped'
    BY <1>1, <1>2, <1>6 DEF AcpTyped, CancellerOK
  <1>8. /\ Before(p)' => Before(p)
        /\ Gone(p)' => Gone(p)
        /\ PromptAt(p)' = PromptAt(p)
        /\ PageOK(p)' <=> PageOK(p)
        /\ Sound(p)' => Sound(p)
        /\ \A i : Recovering(p, i)' <=> Recovering(p, i)
    BY <1>2, <1>5, <1>6 DEF Before, Gone, PromptAt, PageOK, Paged, Sound, Recovering, End, Last
  <1>9. PageOK(p)
    BY <1>1 DEF PromptInv, AcpPlaceOK, PageOK
  <1>10. PromptInv(p)'
    BY <1>1, <1>2, <1>5, <1>6, <1>8, <1>9, QuietKeeps
  <1> QED BY <1>1, <1>2, <1>6, <1>7, <1>10, OnlyOne

\* A move of a bridge, in its types.
LEMMA MovesTyped ==
    ASSUME AcpTyped, NEW p \in AcpPrompts, NEW at \in AcpPlaces, Moves(p, at)
    PROVE  bridge' \in [AcpPrompts -> AcpTasks] /\ (\A q \in AcpPrompts : q # p => bridge'[q] = bridge[q])
           /\ bridge'[p].at = at /\ bridge'[p].back = bridge[p].back /\ bridge'[p].cursor = bridge[p].cursor
           /\ bridge'[p].page = bridge[p].page /\ bridge'[p].more = bridge[p].more
  <1>1. bridge[p] \in AcpTasks
    BY PromptTypes
  <1>2. PICK b : b = [bridge[p] EXCEPT !.at = at]
    OBVIOUS
  <1>3. b \in AcpTasks /\ b.at = at /\ b.back = bridge[p].back /\ b.cursor = bridge[p].cursor
        /\ b.page = bridge[p].page /\ b.more = bridge[p].more
    BY <1>1, <1>2 DEF AcpTasks
  <1>4. bridge' = [bridge EXCEPT ![p] = b]
    BY <1>2 DEF Moves, AcpTyped
  <1> QED BY <1>3, <1>4 DEF AcpTyped

\* The moves of a bridge that change nothing of its prompt but the place.
Leads(from, back, at) ==
    \/ from = "new" /\ at \in {"checked", "refused"}
    \/ from = "checked" /\ at = "sent"
    \/ from = "sent" /\ at = "refused"
    \/ from = "accepted" /\ at = "receiving"
    \/ from = "asking" /\ at = "waiting"
    \/ from = "waiting" /\ at = "deciding"
    \/ from = "deciding" /\ at = back
    \/ from = "leaving" /\ at = "denying"

LEMMA WalksKeep ==
    ASSUME AcpInv, NEW p \in AcpPrompts, NEW at, Moves(p, at), Leads(PromptAt(p), bridge[p].back, at),
           UNCHANGED <<turn, inflight, inbox, shown, misreads>>,
           active' \in AcpPrompts \cup {NoPrompt}, permission' \in [AcpPrompts -> AcpDecisions],
           CancellerOK'
    PROVE  AcpInv'
  <1>1. AcpTyped /\ PromptInv(p) /\ \A q \in AcpPrompts : PromptInv(q)
    BY DEF AcpInv
  <1>2. bridge[p].back \in {"receiving", "paging"}
    BY <1>1, PromptTypes
  <1>3. at \in AcpPlaces
    BY <1>2 DEF Leads, AcpPlaces
  <1>4. /\ bridge' \in [AcpPrompts -> AcpTasks] /\ (\A q \in AcpPrompts : q # p => bridge'[q] = bridge[q])
        /\ bridge'[p].at = at /\ bridge'[p].back = bridge[p].back /\ bridge'[p].cursor = bridge[p].cursor
        /\ bridge'[p].page = bridge[p].page /\ bridge'[p].more = bridge[p].more
    BY <1>1, <1>3, MovesTyped
  <1>5. AcpTyped'
    BY <1>1, <1>4 DEF AcpTyped
  <1>6. Paged(p)' <=> Paged(p)
    BY <1>2, <1>4 DEF Paged, PromptAt, Leads
  <1>7. \A i \in 1..End(p) : bridge[p].cursor < i /\ Recovering(p, i) => Recovering(p, i)'
    <2>1. PromptAt(p) # "reading"
      BY DEF Leads
    <2> QED BY <1>4, <1>6, <2>1 DEF Recovering
  <1>8. at \in {"new", "checked", "sent", "refused"} => Before(p)
    BY <1>2 DEF Leads, Before
  <1>9. at # "accepted" /\ at # "answered" /\ PromptAt(p) # "answered"
    BY <1>2 DEF Leads
  <1>10. at \in {"leaving", "denying"} => Gone(p)
    BY <1>2 DEF Leads, Gone
  <1>11. PromptInv(p)'
    BY <1>1, <1>6, <1>7, <1>8, <1>9, <1>10, MovesKeeps
  <1> QED BY <1>1, <1>4, <1>5, <1>11, OnlyOne

\* The prompt that the server accepts has its run's first event logged.
LEMMA AcceptedKeeps ==
    ASSUME AcpInv, NEW p \in AcpPrompts, PromptAccepted(p)
    PROVE  AcpInv'
  <1>1. AcpTyped /\ PromptInv(p) /\ \A q \in AcpPrompts : PromptInv(q)
    BY DEF AcpInv
  <1>2. PromptAt(p) = "sent" /\ UNCHANGED <<inbox, active, permission, canceller, shown, misreads>>
    BY DEF PromptAccepted, loopVars
  <1>3. CASE \E q \in AcpPrompts : Running(q)
    <2>1. Moves(p, "refused") /\ UNCHANGED <<turn, inflight>>
      BY <1>3 DEF PromptAccepted, serverVars
    <2>2. Leads(PromptAt(p), bridge[p].back, "refused")
      BY <1>2 DEF Leads
    <2>3. /\ active' \in AcpPrompts \cup {NoPrompt} /\ permission' \in [AcpPrompts -> AcpDecisions]
          /\ CancellerOK'
      BY <1>1, <1>2 DEF AcpTyped, CancellerOK
    <2> QED BY <1>2, <2>1, <2>2, <2>3, WalksKeep
  <1>4. CASE ~\E q \in AcpPrompts : Running(q)
    <2>1. Moves(p, "accepted") /\ Logs(p, "text", "none")
      BY <1>4 DEF PromptAccepted
    <2>2. "text" \in AcpKinds /\ "none" \in AcpDecisions \cup {"pending"} /\ "accepted" \in AcpPlaces
      BY DEF AcpKinds, ByLoop, AcpDecisions, AcpPlaces
    <2>3. /\ bridge' \in [AcpPrompts -> AcpTasks] /\ (\A q \in AcpPrompts : q # p => bridge'[q] = bridge[q])
          /\ bridge'[p].at = "accepted" /\ bridge'[p].back = bridge[p].back /\ bridge'[p].cursor = bridge[p].cursor
          /\ bridge'[p].page = bridge[p].page /\ bridge'[p].more = bridge[p].more
      BY <1>1, <2>1, <2>2, MovesTyped
    <2>4. End(p) = 0 /\ Before(p)
      BY <1>1, <1>2 DEF PromptInv, AcpLogOK, Before
    <2>5. ~Settled(p)
      <3>1. turn[p].log = <<>>
        BY <1>1, <2>4, PromptTypes DEF End
      <3> QED BY <3>1 DEF Settled
    <2>6. \A i \in Nat : <<p, i>> \in inflight => ~Said(p, i)
      BY <2>4 DEF Said
    <2>7. /\ ~Before(p)' /\ ~Gone(p)' /\ PromptAt(p)' = "accepted" /\ ~Paged(p)' /\ ~Paged(p)
      BY <1>2, <2>3 DEF Before, Gone, PromptAt, Paged
    <2>8. PromptInv(p)'
      BY <1>1, <1>2, <2>1, <2>2, <2>3, <2>4, <2>5, <2>6, <2>7, AppendKeeps
    <2>9. /\ turn' \in [AcpPrompts -> AcpTurns] /\ inflight' \subseteq AcpEvents
          /\ inflight' = inflight \cup {<<p, End(p) + 1>>} /\ \A q \in AcpPrompts : q # p => turn'[q] = turn[q]
      BY <1>1, <2>1, <2>2, LogsEffect
    <2>10. AcpTyped'
      BY <1>1, <1>2, <2>3, <2>9 DEF AcpTyped, CancellerOK
    <2> QED BY <1>1, <1>2, <2>3, <2>8, <2>9, <2>10, OnlyOne
  <1> QED BY <1>3, <1>4

\* The decision resolves the approval the run's last ticket is about, or nothing.
LEMMA DecidesKeeps ==
    ASSUME AcpInv, NEW p \in AcpPrompts, Decides(p)
    PROVE  AcpInv'
  <1>1. AcpTyped /\ PromptInv(p) /\ \A q \in AcpPrompts : PromptInv(q)
    BY DEF AcpInv
  <1>2. /\ PromptAt(p) = "deciding" /\ Moves(p, bridge[p].back)
        /\ UNCHANGED <<inbox, active, canceller, shown, misreads>>
        /\ permission' = [permission EXCEPT ![p] = "none"]
    BY DEF Decides, loopVars
  <1>3. PICK back \in {"receiving", "paging"} : back = bridge[p].back
    BY <1>1, PromptTypes
  <1>4. permission' \in [AcpPrompts -> AcpDecisions] /\ permission[p] \in AcpDecisions
    BY <1>1, <1>2 DEF AcpTyped, AcpDecisions
  <1>5. CASE ~(Running(p) /\ turn[p].ticket = "pending" /\ OpenAsk(p) = bridge[p].cursor)
    <2>1. UNCHANGED <<turn, inflight>>
      BY <1>5 DEF Decides, serverVars
    <2>2. Leads(PromptAt(p), bridge[p].back, bridge[p].back)
      BY <1>2 DEF Leads
    <2>3. /\ active' \in AcpPrompts \cup {NoPrompt}
          /\ CancellerOK'
      BY <1>1, <1>2 DEF AcpTyped, CancellerOK
    <2> QED BY <1>2, <1>4, <2>1, <2>2, <2>3, WalksKeep
  <1>6. CASE Running(p) /\ turn[p].ticket = "pending" /\ OpenAsk(p) = bridge[p].cursor
    <2>1. PICK ticket \in AcpDecisions : ticket = permission[p]
      BY <1>4
    <2>2. Logs(p, "answered", ticket)
      BY <1>6, <2>1 DEF Decides
    <2>3. "answered" \in AcpKinds /\ ticket \in AcpDecisions \cup {"pending"} /\ ticket # "pending"
          /\ "answered" \notin ByLoop /\ back \in AcpPlaces
      BY <1>3 DEF AcpKinds, ByLoop, AcpDecisions, AcpPlaces
    <2>4. /\ bridge' \in [AcpPrompts -> AcpTasks] /\ (\A q \in AcpPrompts : q # p => bridge'[q] = bridge[q])
          /\ bridge'[p].at = back /\ bridge'[p].back = bridge[p].back /\ bridge'[p].cursor = bridge[p].cursor
          /\ bridge'[p].page = bridge[p].page /\ bridge'[p].more = bridge[p].more
      BY <1>1, <1>2, <1>3, <2>3, MovesTyped
    <2>5. ~Settled(p)
      BY <1>1, <1>6, RunningAt
    <2>6. \A i \in 1..End(p) : Said(p, i) => i <= bridge[p].cursor
      BY <1>1, <1>6, OpenAskIsLast
    <2>7. /\ ~Before(p)' /\ ~Gone(p)' /\ PromptAt(p)' \in {"receiving", "paging"} /\ PromptAt(p)' # "reading"
          /\ (Paged(p)' <=> Paged(p))
      BY <1>2, <1>3, <2>4 DEF Before, Gone, PromptAt, Paged
    <2>8. PromptInv(p)'
      BY <1>1, <1>2, <2>2, <2>3, <2>4, <2>5, <2>6, <2>7, AppendKeeps
    <2>9. /\ turn' \in [AcpPrompts -> AcpTurns] /\ inflight' \subseteq AcpEvents
          /\ inflight' = inflight \cup {<<p, End(p) + 1>>} /\ \A q \in AcpPrompts : q # p => turn'[q] = turn[q]
      BY <1>1, <2>2, <2>3, LogsEffect
    <2>10. AcpTyped'
      BY <1>1, <1>2, <1>4, <2>4, <2>9 DEF AcpTyped, CancellerOK
    <2> QED BY <1>1, <1>2, <2>4, <2>8, <2>9, <2>10, OnlyOne
  <1> QED BY <1>5, <1>6

\* A cancel ends the run it finds.
LEMMA CancelKeeps ==
    ASSUME AcpInv, CancelsFound
    PROVE  AcpInv'
  <1>1. AcpTyped /\ \A q \in AcpPrompts : PromptInv(q)
    BY DEF AcpInv
  <1>2. /\ canceller.at = "found" /\ canceller' = [canceller EXCEPT !.at = "denying"]
        /\ UNCHANGED <<inbox, bridge, active, permission, shown, misreads>>
    BY DEF CancelsFound
  <1>3. PICK p \in AcpPrompts : p = canceller.prompt
    BY <1>1, <1>2 DEF AcpTyped, CancellerOK
  <1>4. CancellerOK'
    BY <1>1, <1>2 DEF AcpTyped, CancellerOK
  <1>5. CASE ~Running(p)
    <2>1. UNCHANGED <<turn, inflight>>
      BY <1>3, <1>5 DEF CancelsFound, serverVars
    <2>2. AcpTyped'
      BY <1>1, <1>2, <1>4, <2>1 DEF AcpTyped
    <2> QED BY <1>1, <1>2, <2>1, <2>2, NoOne
  <1>6. CASE Running(p)
    <2>1. PICK ticket \in AcpDecisions \cup {"pending"} : ticket = turn[p].ticket
      BY <1>1, PromptTypes DEF AcpTurns
    <2>2. Logs(p, "cancelled", ticket)
      BY <1>3, <1>6, <2>1 DEF CancelsFound
    <2>3. "cancelled" \in AcpKinds /\ "cancelled" \notin ByLoop
      BY DEF AcpKinds, ByLoop
    <2>4. ~Settled(p) /\ ~Before(p)' /\ ~Gone(p)' /\ PromptAt(p)' # "answered" /\ PromptAt(p)' = PromptAt(p)
          /\ (Paged(p)' <=> Paged(p))
      BY <1>1, <1>2, <1>6, RunningAt DEF Before, Gone, PromptAt, Paged
    <2>5. PromptInv(p)'
      BY <1>1, <1>2, <2>1, <2>2, <2>3, <2>4, AppendKeeps
    <2>6. /\ turn' \in [AcpPrompts -> AcpTurns] /\ inflight' \subseteq AcpEvents
          /\ inflight' = inflight \cup {<<p, End(p) + 1>>} /\ \A q \in AcpPrompts : q # p => turn'[q] = turn[q]
      BY <1>1, <2>2, <2>3, LogsEffect
    <2>7. AcpTyped'
      BY <1>1, <1>2, <1>4, <2>6 DEF AcpTyped
    <2> QED BY <1>1, <1>2, <2>5, <2>6, <2>7, OnlyOne
  <1> QED BY <1>5, <1>6

\* An overrun is noticed: the log is read for what the buffer lost.
LEMMA LagsKeeps ==
    ASSUME AcpInv, NEW p \in AcpPrompts, Lags(p)
    PROVE  AcpInv'
  <1>1. AcpTyped /\ PromptInv(p) /\ \A q \in AcpPrompts : PromptInv(q)
    BY DEF AcpInv
  <1>2. /\ PromptAt(p) = "receiving" /\ Moves(p, "reading") /\ inbox' = [inbox EXCEPT ![p].lagged = FALSE]
        /\ UNCHANGED <<turn, inflight, active, permission, canceller, shown, misreads>>
    BY DEF Lags, serverVars, loopVars
  <1>3. "reading" \in AcpPlaces
    BY DEF AcpPlaces
  <1>4. /\ bridge' \in [AcpPrompts -> AcpTasks] /\ (\A q \in AcpPrompts : q # p => bridge'[q] = bridge[q])
        /\ bridge'[p].at = "reading" /\ bridge'[p].back = bridge[p].back /\ bridge'[p].cursor = bridge[p].cursor
        /\ bridge'[p].page = bridge[p].page /\ bridge'[p].more = bridge[p].more
    BY <1>1, <1>2, <1>3, MovesTyped
  <1>5. inbox[p] \in AcpBoxes
    BY <1>1, PromptTypes
  <1>6. PICK box : box = [inbox[p] EXCEPT !.lagged = FALSE]
    OBVIOUS
  <1>7. box \in AcpBoxes /\ box.events = inbox[p].events
    BY <1>5, <1>6 DEF AcpBoxes
  <1>8. /\ inbox' \in [AcpPrompts -> AcpBoxes] /\ inbox'[p] = box
        /\ \A q \in AcpPrompts : q # p => inbox'[q] = inbox[q]
    BY <1>1, <1>2, <1>6, <1>7 DEF AcpTyped
  <1>9. AcpTyped'
    BY <1>1, <1>2, <1>4, <1>8 DEF AcpTyped, CancellerOK
  <1>10. /\ ~Before(p)' /\ ~Gone(p)' /\ PromptAt(p)' = "reading" /\ ~Paged(p)'
    BY <1>4 DEF Before, Gone, PromptAt, Paged
  <1>11. \A i : Recovering(p, i)'
    BY <1>10 DEF Recovering
  <1>12. Sound(p)' <=> Sound(p)
    BY <1>2 DEF Sound, End
  <1>13. PromptInv(p)'
    BY <1>1, <1>2, <1>4, <1>7, <1>8, <1>10, <1>11, <1>12, QuietKeeps DEF PageOK
  <1> QED BY <1>1, <1>2, <1>4, <1>8, <1>9, <1>13, OnlyOne

\* The catch-up cannot read the log: the prompt is no longer one of those the property is about.
LEMMA MisreadsKeeps ==
    ASSUME AcpInv, NEW p \in AcpPrompts, Misreads(p)
    PROVE  AcpInv'
  <1>1. AcpTyped /\ PromptInv(p) /\ \A q \in AcpPrompts : PromptInv(q)
    BY DEF AcpInv
  <1>2. /\ PromptAt(p) = "reading" /\ Moves(p, "receiving") /\ misreads' = misreads \cup {p}
        /\ UNCHANGED <<turn, inflight, inbox, active, permission, canceller, shown>>
    BY DEF Misreads, serverVars, loopVars
  <1>3. "receiving" \in AcpPlaces
    BY DEF AcpPlaces
  <1>4. /\ bridge' \in [AcpPrompts -> AcpTasks] /\ (\A q \in AcpPrompts : q # p => bridge'[q] = bridge[q])
        /\ bridge'[p].at = "receiving" /\ bridge'[p].cursor = bridge[p].cursor
    BY <1>1, <1>2, <1>3, MovesTyped
  <1>5. AcpTyped'
    BY <1>1, <1>2, <1>4 DEF AcpTyped, CancellerOK
  <1>6. ~Before(p)' /\ ~Gone(p)' /\ PromptAt(p)' = "receiving" /\ ~Paged(p)' /\ ~Sound(p)'
    BY <1>2, <1>4 DEF Before, Gone, PromptAt, Paged, Sound
  <1>7. PromptInv(p)'
    BY <1>1, <1>2, <1>4, <1>6, QuietKeeps DEF PageOK
  <1> QED BY <1>1, <1>2, <1>4, <1>5, <1>7, OnlyOne

\* A page of the log above the cursor.
LEMMA ReadsKeeps ==
    ASSUME AcpInv, NEW p \in AcpPrompts, ReadsPage(p), AcpPage \in Nat \ {0}
    PROVE  AcpInv'
  <1>1. AcpTyped /\ PromptInv(p) /\ \A q \in AcpPrompts : PromptInv(q)
    BY DEF AcpInv
  <1>2. PICK c \in Nat : c = bridge[p].cursor
    BY <1>1, PromptTypes
  <1>3. PICK n \in Nat : n = End(p) /\ n = Len(turn[p].log)
    BY <1>1, PromptTypes DEF End
  <1>4. c <= n
    BY <1>1, <1>2, <1>3 DEF PromptInv, AcpPlaceOK
  <1>5. PICK to : to = IF n < c + AcpPage THEN n ELSE c + AcpPage
    OBVIOUS
  <1>6. to \in Nat /\ c <= to /\ to <= n
    BY <1>4, <1>5
  <1>7. PICK page : page = [i \in 1..(to - (c + 1) + 1) |-> (c + 1) + i - 1]
    OBVIOUS
  <1>8. PICK d \in Nat : d = to - c /\ d = to - (c + 1) + 1
    BY <1>6
  <1>9. page = [i \in 1..d |-> (c + 1) + i - 1]
    BY <1>7, <1>8
  <1>10. page \in Seq(Nat) /\ Len(page) = d /\ \A i \in 1..d : page[i] = c + i
    <2>1. page \in [1..d -> Nat]
      BY <1>9
    <2>2. \A i \in 1..d : page[i] = c + i
      BY <1>9
    <2>3. page \in Seq(Nat)
      BY <2>1
    <2>4. Len(page) = d
      BY <2>1
    <2> QED BY <2>2, <2>3, <2>4
  <1>11. /\ PromptAt(p) = "reading"
         /\ bridge' = [bridge EXCEPT ![p] = [@ EXCEPT !.at = "paging", !.page = page, !.more = to < n]]
         /\ UNCHANGED <<turn, inflight, inbox, active, permission, canceller, shown, misreads>>
    BY <1>2, <1>3, <1>5, <1>7 DEF ReadsPage, serverVars, loopVars
  <1>12. PICK b : b = [bridge[p] EXCEPT !.at = "paging", !.page = page, !.more = to < n]
    OBVIOUS
  <1>13. b \in AcpTasks /\ b.at = "paging" /\ b.page = page /\ b.cursor = c /\ (b.more <=> to < n)
    <2>1. bridge[p] \in AcpTasks
      BY <1>1, PromptTypes
    <2>2. PICK more \in BOOLEAN : more = (to < n)
      <3>1. (to < n) \in BOOLEAN
        BY <1>6
      <3> QED BY <3>1
    <2>3. b = [bridge[p] EXCEPT !.at = "paging", !.page = page, !.more = more]
      BY <1>12, <2>2
    <2>4. b \in AcpTasks /\ b.at = "paging" /\ b.page = page /\ b.cursor = bridge[p].cursor /\ b.more = more
      BY <1>10, <2>1, <2>3 DEF AcpTasks, AcpPlaces
    <2> QED BY <1>2, <2>2, <2>4
  <1>14. /\ bridge' \in [AcpPrompts -> AcpTasks] /\ bridge'[p] = b
         /\ \A q \in AcpPrompts : q # p => bridge'[q] = bridge[q]
    BY <1>1, <1>11, <1>12, <1>13 DEF AcpTyped
  <1>15. AcpTyped'
    BY <1>1, <1>11, <1>14 DEF AcpTyped, CancellerOK
  <1>16. ~Before(p)' /\ ~Gone(p)' /\ PromptAt(p)' = "paging" /\ Paged(p)' /\ (Sound(p)' <=> Sound(p)) /\ End(p)' = n
    BY <1>3, <1>11, <1>13, <1>14 DEF Before, Gone, PromptAt, Paged, Sound, End
  <1>17. PageOK(p)'
    <2>1. c + d <= n
      BY <1>6, <1>8
    <2> QED BY <1>10, <1>13, <1>14, <1>16, <2>1 DEF PageOK
  <1>18. \A i \in 1..n : Recovering(p, i)'
    <2>1. \A i \in 1..n : to < n \/ i <= c + d
      BY <1>6, <1>8
    <2> QED BY <1>10, <1>13, <1>14, <1>16, <2>1 DEF Recovering
  <1>19. PromptInv(p)'
    BY <1>1, <1>2, <1>3, <1>11, <1>13, <1>14, <1>16, <1>17, <1>18, QuietKeeps
  <1> QED BY <1>1, <1>11, <1>14, <1>15, <1>19, OnlyOne

\* What a bridge takes from its buffer or from its page.
LEMMA TakesKeep ==
    ASSUME AcpInv, NEW p \in AcpPrompts, Receives(p) \/ PagesOn(p)
    PROVE  AcpInv'
  <1>1. AcpTyped /\ PromptInv(p) /\ \A q \in AcpPrompts : PromptInv(q)
    BY DEF AcpInv
  <1>2. PromptInv(p)'
    BY <1>1, ReceivesKeeps, PagesOnKeeps
  <1>3. UNCHANGED <<turn, inflight, active, permission, canceller, misreads>>
    BY DEF Receives, PagesOn, serverVars, loopVars
  <1>4. /\ inbox' \in [AcpPrompts -> AcpBoxes]
        /\ \A q \in AcpPrompts : q # p => inbox'[q] = inbox[q]
    <2>1. CASE PagesOn(p)
      BY <1>1, <2>1 DEF PagesOn, AcpTyped
    <2>2. CASE Receives(p)
      <3>1. PICK rest : rest = Tail(inbox[p].events)
        OBVIOUS
      <3>2. inbox[p].events # <<>> /\ inbox' = [inbox EXCEPT ![p].events = rest]
        BY <2>2, <3>1 DEF Receives
      <3>3. rest \in Seq(AcpEvents)
        BY <1>1, <3>1, <3>2, PromptTypes, HeadTailProperties
      <3>4. PICK box : box = [inbox[p] EXCEPT !.events = rest]
        OBVIOUS
      <3>5. box \in AcpBoxes
        BY <1>1, <3>3, <3>4, PromptTypes DEF AcpBoxes
      <3>6. inbox' = [inbox EXCEPT ![p] = box]
        BY <1>1, <3>2, <3>4 DEF AcpTyped
      <3> QED BY <1>1, <3>5, <3>6 DEF AcpTyped
    <2> QED BY <2>1, <2>2
  <1>5. /\ bridge' \in [AcpPrompts -> AcpTasks] /\ shown' \in [AcpPrompts -> Seq(Nat)]
        /\ \A q \in AcpPrompts : q # p => bridge'[q] = bridge[q] /\ shown'[q] = shown[q]
    <2>1. ASSUME NEW seq \in Nat, NEW back \in {"receiving", "paging"}, NEW page \in Seq(Nat),
                 Consumes(p, seq, back, page)
          PROVE  /\ bridge' \in [AcpPrompts -> AcpTasks] /\ shown' \in [AcpPrompts -> Seq(Nat)]
                 /\ \A q \in AcpPrompts : q # p => bridge'[q] = bridge[q] /\ shown'[q] = shown[q]
      <3>1. PICK at : at = CASE turn[p].log[seq] = "ask" -> "asking"
                             [] turn[p].log[seq] \in EndKinds -> "leaving" [] OTHER -> back
        OBVIOUS
      <3>2. at \in AcpPlaces
        BY <3>1 DEF AcpPlaces
      <3>3. PICK task : task = [bridge[p] EXCEPT !.cursor = seq, !.page = page, !.back = back, !.at = at]
        OBVIOUS
      <3>4. task \in AcpTasks
        BY <1>1, <2>1, <3>2, <3>3, PromptTypes DEF AcpTasks
      <3>5. bridge' = [bridge EXCEPT ![p] = task]
        BY <1>1, <2>1, <3>1, <3>3 DEF Consumes, AcpTyped
      <3>6. bridge' \in [AcpPrompts -> AcpTasks]
        BY <1>1, <3>4, <3>5 DEF AcpTyped
      <3>7. PICK more : more = Append(shown[p], seq)
        OBVIOUS
      <3>8. Append(shown[p], seq) \in Seq(Nat)
        BY <1>1, PromptTypes, AppendProperties
      <3>9. shown' = [shown EXCEPT ![p] = more]
        BY <2>1, <3>7 DEF Consumes
      <3>10. shown' \in [AcpPrompts -> Seq(Nat)]
        BY <1>1, <3>7, <3>8, <3>9 DEF AcpTyped
      <3>11. \A q \in AcpPrompts : q # p => bridge'[q] = bridge[q] /\ shown'[q] = shown[q]
        BY <1>1, <3>5, <3>9 DEF AcpTyped
      <3> QED BY <3>6, <3>10, <3>11
    <2>2. CASE Receives(p)
      <3>1. PICK old \in Seq(AcpEvents) : old = inbox[p].events
        BY <1>1, PromptTypes
      <3>2. old # <<>>
        BY <2>2, <3>1 DEF Receives
      <3>3. PICK e \in AcpEvents : e = Head(inbox[p].events)
        BY <3>1, <3>2, HeadTailProperties
      <3>4. CASE e[1] = p /\ e[2] > bridge[p].cursor
        <4>1. Consumes(p, e[2], "receiving", <<>>)
          BY <2>2, <3>3, <3>4 DEF Receives
        <4>2. e[2] \in Nat /\ <<>> \in Seq(Nat)
          BY DEF AcpEvents
        <4> QED BY <2>1, <4>1, <4>2
      <3>5. CASE ~(e[1] = p /\ e[2] > bridge[p].cursor)
        BY <1>1, <2>2, <3>3, <3>5 DEF Receives, AcpTyped
      <3> QED BY <3>4, <3>5
    <2>3. CASE PagesOn(p)
      <3>1. PICK page \in Seq(Nat) : page = bridge[p].page
        BY <1>1, PromptTypes
      <3>2. CASE page # <<>>
        <4>1. Head(page) \in Nat /\ Tail(page) \in Seq(Nat)
          BY <3>2, HeadTailProperties
        <4>2. Consumes(p, Head(page), "paging", Tail(page))
          BY <2>3, <3>1, <3>2 DEF PagesOn
        <4> QED BY <2>1, <4>1, <4>2
      <3>3. CASE page = <<>>
        <4>1. Moves(p, IF bridge[p].more THEN "reading" ELSE "receiving") /\ shown' = shown
          BY <2>3, <3>1, <3>3 DEF PagesOn
        <4>2. PICK at \in AcpPlaces : at = IF bridge[p].more THEN "reading" ELSE "receiving"
          BY DEF AcpPlaces
        <4>3. Moves(p, at)
          BY <4>1, <4>2
        <4> QED BY <1>1, <4>1, <4>3, MovesTyped DEF AcpTyped
      <3> QED BY <3>2, <3>3
    <2> QED BY <2>2, <2>3
  <1>6. AcpTyped'
    BY <1>1, <1>3, <1>4, <1>5 DEF AcpTyped, CancellerOK
  <1> QED BY <1>1, <1>2, <1>3, <1>4, <1>5, <1>6, OnlyOne

LEMMA AnswersKeepAll ==
    ASSUME AcpInv, NEW p \in AcpPrompts, Answers(p)
    PROVE  AcpInv'
  <1>1. AcpTyped /\ PromptInv(p) /\ \A q \in AcpPrompts : PromptInv(q)
    BY DEF AcpInv
  <1>2. PromptInv(p)'
    BY <1>1, AnswersKeeps
  <1>3. /\ permission' = Denied /\ UNCHANGED <<turn, inflight, active, canceller, shown, misreads>>
        /\ bridge' = [bridge EXCEPT ![p] = [NewTask EXCEPT !.at = "answered"]]
        /\ inbox' = [inbox EXCEPT ![p] = [events |-> <<>>, lagged |-> FALSE]]
    BY DEF Answers, serverVars, loopVars
  <1>4. permission' \in [AcpPrompts -> AcpDecisions]
    BY <1>1, <1>3 DEF Denied, AcpTyped, AcpDecisions
  <1>5. [NewTask EXCEPT !.at = "answered"] \in AcpTasks /\ [events |-> <<>>, lagged |-> FALSE] \in AcpBoxes
    <2>1. <<>> \in Seq(Nat) /\ <<>> \in Seq(AcpEvents)
      OBVIOUS
    <2>2. PICK task : task = NewTask
      OBVIOUS
    <2>3. task \in AcpTasks
      BY <2>1, <2>2 DEF NewTask, AcpTasks, AcpPlaces
    <2>4. [task EXCEPT !.at = "answered"] \in AcpTasks
      BY <2>3 DEF AcpTasks, AcpPlaces
    <2>5. [events |-> <<>>, lagged |-> FALSE] \in AcpBoxes
      BY <2>1 DEF AcpBoxes
    <2> QED BY <2>2, <2>4, <2>5
  <1>6. AcpTyped'
    BY <1>1, <1>3, <1>4, <1>5 DEF AcpTyped, CancellerOK
  <1>7. \A q \in AcpPrompts : q # p => inbox'[q] = inbox[q] /\ bridge'[q] = bridge[q]
    BY <1>1, <1>3 DEF AcpTyped
  <1> QED BY <1>1, <1>2, <1>3, <1>6, <1>7, OnlyOne

LEMMA BroadcastKeepsAll ==
    ASSUME AcpInv, NEW e \in inflight, Broadcasts(e), Slots \in Nat \ {0}
    PROVE  AcpInv'
  <1>1. AcpTyped /\ \A q \in AcpPrompts : PromptInv(q)
    BY DEF AcpInv
  <1>2. \A q \in AcpPrompts : PromptInv(q)'
    BY <1>1, BroadcastKeeps
  <1>3. e \in AcpEvents
    BY <1>1 DEF AcpTyped
  <1>4. /\ inflight' = inflight \ {e}
        /\ UNCHANGED <<turn, bridge, active, permission, canceller, shown, misreads>>
    BY DEF Broadcasts, loopVars
  <1>5. inbox' \in [AcpPrompts -> AcpBoxes]
    <2>1. ASSUME NEW q \in AcpPrompts
          PROVE  inbox'[q] \in AcpBoxes
      <3>1. CASE Listens(q)
        BY <1>1, <1>3, <3>1, BroadcastEffect
      <3>2. CASE ~Listens(q)
        BY <1>1, <3>2, PromptTypes DEF Broadcasts
      <3> QED BY <3>1, <3>2
    <2>2. inbox' = [q \in AcpPrompts |-> inbox'[q]]
      BY DEF Broadcasts
    <2> QED BY <2>1, <2>2
  <1>6. AcpTyped'
    BY <1>1, <1>4, <1>5 DEF AcpTyped, CancellerOK
  <1> QED BY <1>2, <1>6 DEF AcpInv

-----------------------------------------------------------------------------
(* The theorem *)

LEMMA AcpStarts == AcpInit => AcpInv
  <1> SUFFICES ASSUME AcpInit PROVE AcpInv
    OBVIOUS
  <1>1. AcpTyped
    BY DEF AcpInit, AcpTyped, AcpTurns, AcpBoxes, AcpTasks, AcpDecisions, NewTask, AcpPlaces, CancellerOK
  <1>2. ASSUME NEW p \in AcpPrompts
        PROVE  PromptInv(p)
    <2>1. /\ turn[p].log = <<>> /\ turn[p].ticket = "none" /\ End(p) = 0
          /\ inbox[p].events = <<>> /\ bridge[p] = NewTask /\ PromptAt(p) = "new" /\ bridge[p].cursor = 0
          /\ shown[p] = <<>> /\ inflight = {}
      BY DEF AcpInit, NewTask, PromptAt, End
    <2>2. AcpLogOK(p)
      BY <2>1 DEF AcpLogOK
    <2>3. AcpPlaceOK(p)
      BY <2>1 DEF AcpPlaceOK, Paged, Gone
    <2>4. AcpHeardOK(p)
      BY <2>1 DEF AcpHeardOK, Said
    <2> QED BY <2>2, <2>3, <2>4 DEF PromptInv
  <1> QED BY <1>1, <1>2 DEF AcpInv

LEMMA AcpSteps == AcpInv /\ [AcpNext]_acpVars => AcpInv'
  <1> SUFFICES ASSUME AcpInv, [AcpNext]_acpVars PROVE AcpInv'
    OBVIOUS
  <1>1. AcpTyped /\ \A q \in AcpPrompts : PromptInv(q)
    BY DEF AcpInv
  <1>2. ASSUME NEW p \in AcpPrompts,
               PromptChecks(p) \/ PromptSends(p) \/ PromptEnters(p) \/ Asks(p) \/ StopsWaiting(p) \/ Leaves(p)
        PROVE  AcpInv'
    <2>1. UNCHANGED <<turn, inflight, inbox, canceller, shown, misreads>>
      BY <1>2 DEF PromptChecks, PromptSends, PromptEnters, Asks, StopsWaiting, Leaves, serverVars, loopVars
    <2>2. active' \in AcpPrompts \cup {NoPrompt}
      BY <1>1, <1>2 DEF PromptChecks, PromptSends, PromptEnters, Asks, StopsWaiting, Leaves, AcpTyped
    <2>3. permission' \in [AcpPrompts -> AcpDecisions]
      BY <1>1, <1>2 DEF PromptChecks, PromptSends, PromptEnters, Asks, StopsWaiting, Leaves, AcpTyped, AcpDecisions
    <2>4. CancellerOK'
      BY <1>1, <2>1 DEF AcpTyped, CancellerOK
    <2>5. \E at : Moves(p, at) /\ Leads(PromptAt(p), bridge[p].back, at)
      BY <1>2 DEF PromptChecks, PromptSends, PromptEnters, Asks, StopsWaiting, Leaves, Leads
    <2> QED BY <2>1, <2>2, <2>3, <2>4, <2>5, WalksKeep
  <1>3. ASSUME NEW p \in AcpPrompts, EditorDecides(p)
        PROVE  AcpInv'
    <2>1. UNCHANGED <<turn, inflight, inbox, bridge, active, canceller, shown, misreads>>
      BY <1>3 DEF EditorDecides, serverVars, loopVars
    <2>2. permission' \in [AcpPrompts -> AcpDecisions]
      BY <1>1, <1>3 DEF EditorDecides, AcpTyped, AcpDecisions
    <2>3. AcpTyped'
      BY <1>1, <2>1, <2>2 DEF AcpTyped, CancellerOK
    <2> QED BY <1>1, <2>1, <2>3, NoOne
  <1>4. CASE CancelBegins
    <2>1. UNCHANGED <<turn, inflight, inbox, bridge, active, permission, shown, misreads>>
          /\ canceller' = IF active = NoPrompt THEN canceller ELSE [at |-> "found", prompt |-> active]
      BY <1>4 DEF CancelBegins, serverVars
    <2>2. CancellerOK'
      BY <1>1, <2>1 DEF AcpTyped, CancellerOK
    <2>3. AcpTyped'
      BY <1>1, <2>1, <2>2 DEF AcpTyped
    <2> QED BY <1>1, <2>1, <2>3, NoOne
  <1>5. CASE CancelDenies
    <2>1. UNCHANGED <<turn, inflight, inbox, bridge, active, shown, misreads>>
          /\ canceller' = [at |-> "idle", prompt |-> NoPrompt] /\ permission' = Denied
      BY <1>5 DEF CancelDenies, serverVars
    <2>2. CancellerOK' /\ permission' \in [AcpPrompts -> AcpDecisions]
      BY <1>1, <2>1 DEF AcpTyped, CancellerOK, Denied, AcpDecisions
    <2>3. AcpTyped'
      BY <1>1, <2>1, <2>2 DEF AcpTyped
    <2> QED BY <1>1, <2>1, <2>3, NoOne
  <1>6. CASE UNCHANGED acpVars
    <2>1. UNCHANGED <<turn, inflight, inbox, bridge, active, permission, canceller, shown, misreads>>
      BY <1>6 DEF acpVars
    <2>2. AcpTyped'
      BY <1>1, <2>1 DEF AcpTyped, CancellerOK
    <2> QED BY <1>1, <2>1, <2>2, NoOne
  <1>7. ASSUME NEW p \in AcpPrompts, TaskStep(p)
        PROVE  AcpInv'
    BY <1>2, <1>7, AcceptedKeeps, LagsKeeps, TakesKeep, ReadsKeeps, DecidesKeeps, AnswersKeepAll, AcpAssumption
       DEF TaskStep
  <1> QED BY <1>2, <1>3, <1>4, <1>5, <1>6, <1>7, WorksKeeps, ExpiresKeeps, MisreadsKeeps, BroadcastKeepsAll,
             CancelKeeps, AcpAssumption DEF AcpNext, ServingStep

\* However the run's events, the buffer's overruns, the pages of the log, the approvals, cancels
\* and other prompts interleave, and whatever the sizes of the buffer and of a page, the editor is
\* shown a run's events in the order of the log and each at most once, and when the prompt of
\* a run that was not cancelled is answered it has been shown everything that the loop logged,
\* unless the log could not be read.
THEOREM PromptShowsRunInOrder == AcpSpec => []ShownInOrder
  <1>1. AcpInv => ShownInOrder
    <2> SUFFICES ASSUME AcpInv, NEW p \in AcpPrompts
                 PROVE  /\ \A i, j \in DOMAIN shown[p] : i < j => shown[p][i] < shown[p][j]
                        /\ PromptAt(p) = "answered" /\ p \notin misreads /\ Last(turn[p].log) # "cancelled" =>
                              \A seq \in DOMAIN turn[p].log :
                                  turn[p].log[seq] \in ByLoop => seq \in Range(shown[p])
      BY DEF ShownInOrder
    <2>1. PromptInv(p) /\ AcpTyped
      BY DEF AcpInv
    <2>2. PICK old \in Seq(Nat) : old = shown[p]
      BY <2>1, PromptTypes
    <2>3. DOMAIN old = 1..Len(old) /\ DOMAIN turn[p].log = 1..End(p)
      BY <2>1, PromptTypes DEF End
    <2>4. \A i, j \in 1..Len(old) : i < j => old[i] < old[j]
      BY <2>1, <2>2 DEF PromptInv, AcpPlaceOK
    <2>5. ASSUME PromptAt(p) = "answered", p \notin misreads, Last(turn[p].log) # "cancelled",
                 NEW seq \in DOMAIN turn[p].log, turn[p].log[seq] \in ByLoop
          PROVE  seq \in Range(shown[p])
      <3>1. Sound(p) /\ Said(p, seq) /\ seq \in Nat
        BY <2>1, <2>3, <2>5, PromptTypes DEF Sound, Said
      <3>2. Seen(p, seq)
        BY <2>1, <2>5, <3>1 DEF PromptInv, AcpHeardOK
      <3> QED BY <2>2, <2>3, <3>2 DEF Seen, Range
    <2> QED BY <2>2, <2>3, <2>4, <2>5
  <1> QED BY <1>1, AcpStarts, AcpSteps, PTL DEF AcpSpec
===============================================================================
