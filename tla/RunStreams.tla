------------------------------ MODULE RunStreams ------------------------------
(***************************************************************************)
(* How the events of one run reach its readers: every writer appends to    *)
(* the durable log first and fans the event out afterwards (the event sink *)
(* of the run's loop, and the handlers of run.cancel, run.steer and        *)
(* approval.resolve), run.subscribe registers a connection for the fan-out *)
(* (cool-app-server lib.rs), and an event stream of cool-http replays the  *)
(* log from a cursor and then follows its connection's bounded live        *)
(* buffer, going back to the log when the buffer overran (routes.rs,       *)
(* client.rs).  Events are their sequence numbers.                         *)
(***************************************************************************)
EXTENDS Integers, Sequences, FiniteSets

CONSTANTS
    Conns,       \* connections
    Followers,   \* those of them that open an event stream
    Owner,       \* the connection that started the run
    Handlers,    \* command handlers that append to the run, beside its loop
    MaxSeq,      \* bound: events of the run
    Buffer,      \* capacity of a live buffer (EVENT_BUFFER)
    PageLimit,   \* events of one run.events page
    MaxReopens   \* bound: reconnections of the streams

ASSUME StreamsAssumption ==
    Owner \in Conns /\ Followers \subseteq Conns /\
    {MaxSeq, Buffer, PageLimit} \subseteq Nat \ {0} /\ MaxReopens \in Nat

Loop == "loop"
Writers == Handlers \cup {Loop}

VARIABLES
    last, ended,   \* the log: its last seq, and whether that is the terminal
    writing,       \* per writer: step, seq, terminal, targets, requester
    registered,    \* run_subscribers of the run
    owned,         \* run_owners has the run
    buffer,        \* per connection: the live events not received, and an overrun
    stream,        \* per connection: phase, cursor, backlog, already_terminal
    heard,         \* per connection: the seqs its reader was given
    sent,          \* seqs that were fanned out (history)
    overtaken,     \* seqs fanned out after a later one (history)
    reopens

logVars == <<last, ended>>
streamVars == <<last, ended, writing, registered, owned, buffer, stream, heard, sent,
                overtaken, reopens>>

Idle == [step |-> "idle", seq |-> 0, terminal |-> FALSE, targets |-> {}, to |-> Owner]
Closed == [phase |-> "closed", cursor |-> 0, backlog |-> <<>>, already |-> FALSE]

-----------------------------------------------------------------------------
(* Writers *)

\* The loop is a single writer that owns the run's connection; a handler answers
\* the connection that asked.  Only a handler's cancel ends the log.
Appends(w) ==
    /\ writing[w].step = "idle" /\ ~ended /\ last < MaxSeq
    /\ last' = last + 1 /\ ended' \in BOOLEAN
    /\ \E c \in Conns :
          /\ w = Loop => c = Owner
          /\ writing' = [writing EXCEPT ![w] = [step |-> "appended", seq |-> last', terminal |-> ended',
                                                targets |-> {}, to |-> c]]
    /\ UNCHANGED <<registered, owned, buffer, stream, heard, sent, overtaken, reopens>>

\* publish_to_subscribers reads the owner and the subscribers, then sends.
\* Mutant: only the loop's events are fanned out to the others.
TargetsOfLoop(w) ==
    /\ writing[w].step = "appended"
    /\ writing' = [writing EXCEPT ![w].step = "targeted",
                      ![w].targets = IF w = Loop THEN registered \ {Owner} ELSE {}]
    /\ UNCHANGED <<logVars, registered, owned, buffer, stream, heard, sent, overtaken, reopens>>
Targets(w) ==
    /\ writing[w].step = "appended"
    /\ writing' = [writing EXCEPT ![w].step = "targeted",
                      ![w].targets = IF owned THEN registered \ {Owner} ELSE registered]
    /\ UNCHANGED <<logVars, registered, owned, buffer, stream, heard, sent, overtaken, reopens>>

\* The connection's reader task moves the frame into the broadcast channel, which
\* drops its oldest event when it is full.
Receive(b, seq) ==
    IF Len(b.events) < Buffer THEN [b EXCEPT !.events = Append(@, seq)]
    ELSE [events |-> Append(Tail(b.events), seq), lagged |-> TRUE]

Listening(c) == stream[c].phase # "closed"
SendTo(cs, seq) ==
    buffer' = [c \in Conns |-> IF c \in cs /\ Listening(c) THEN Receive(buffer[c], seq) ELSE buffer[c]]

Delivers(w) ==
    /\ writing[w].step = "targeted"
    /\ SendTo(writing[w].targets, writing[w].seq)
    /\ sent' = sent \cup {writing[w].seq}
    /\ overtaken' = IF \E m \in sent : m > writing[w].seq THEN overtaken \cup {writing[w].seq}
                    ELSE overtaken
    /\ writing' = [writing EXCEPT ![w].step = "published"]
    /\ UNCHANGED <<logVars, registered, owned, stream, heard, reopens>>

\* A terminal event removes the run's registrations; then the writer's own
\* connection gets the event.
Finishes(w) ==
    /\ writing[w].step = "published"
    /\ IF writing[w].terminal THEN registered' = {} /\ owned' = FALSE ELSE UNCHANGED <<registered, owned>>
    /\ SendTo({writing[w].to}, writing[w].seq)
    /\ writing' = [writing EXCEPT ![w] = Idle]
    /\ UNCHANGED <<logVars, stream, heard, sent, overtaken, reopens>>

-----------------------------------------------------------------------------
(* Streams *)

Phase(c) == stream[c].phase
Enters(c, phase) == stream' = [stream EXCEPT ![c].phase = phase]
RunVars == <<logVars, writing, owned, sent, overtaken>>

\* The stream listens to its connection before it asks for anything.  A browser
\* opens it from the start, or from the last event it saw.
Opens(c) ==
    /\ Phase(c) = "closed" /\ Enters(c, "reading")
    /\ UNCHANGED <<RunVars, registered, buffer, heard, reopens>>
Reopens(c) ==
    /\ Phase(c) # "closed" /\ reopens < MaxReopens /\ reopens' = reopens + 1
    /\ stream' = [stream EXCEPT ![c].phase = "reading", ![c].backlog = <<>>, ![c].already = FALSE]
    /\ buffer' = [buffer EXCEPT ![c] = [events |-> <<>>, lagged |-> FALSE]]
    /\ UNCHANGED <<RunVars, registered, heard>>

\* run.subscribe: read the run, register, read it again.
\* Mutants: the answer does not tell that the run has ended; it is given without
\* the second read, and the stream starts from there.
SubscribeForgets(c) ==
    /\ Phase(c) = "reading" /\ Enters(c, IF ended THEN "catchup" ELSE "registering")
    /\ UNCHANGED <<RunVars, registered, buffer, heard, reopens>>
SubscribeReads(c) ==
    /\ Phase(c) = "reading"
    /\ stream' = [stream EXCEPT ![c].phase = IF ended THEN "catchup" ELSE "registering",
                                ![c].already = ended]
    /\ UNCHANGED <<RunVars, registered, buffer, heard, reopens>>
SubscribeRegisters(c) ==
    /\ Phase(c) = "registering" /\ registered' = registered \cup {c} /\ Enters(c, "rereading")
    /\ UNCHANGED <<RunVars, buffer, heard, reopens>>
SubscribeTrusts(c) ==
    /\ Phase(c) = "rereading" /\ Enters(c, "live")
    /\ UNCHANGED <<RunVars, registered, buffer, heard, reopens>>
SubscribeRereads(c) ==
    /\ Phase(c) = "rereading"
    /\ registered' = IF ended THEN registered \ {c} ELSE registered
    /\ stream' = [stream EXCEPT ![c].phase = "catchup", ![c].already = ended]
    /\ UNCHANGED <<RunVars, buffer, heard, reopens>>
SubscribeFails(c) ==
    /\ Phase(c) \in {"reading", "registering", "rereading"} /\ Enters(c, "ended")
    /\ UNCHANGED <<RunVars, registered, buffer, heard, reopens>>

IsTerminal(seq) == ended /\ seq = last
Gives(c, seq) == heard' = [heard EXCEPT ![c] = @ \cup {seq}]

CatchUpGives(c) ==
    /\ Phase(c) = "catchup" /\ stream[c].backlog # <<>>
    /\ LET seq == Head(stream[c].backlog)
       IN  /\ Gives(c, seq)
           /\ stream' = [stream EXCEPT ![c].backlog = Tail(@),
                                       ![c].cursor = IF seq > @ THEN seq ELSE @,
                                       ![c].phase = IF IsTerminal(seq) THEN "ended" ELSE @]
    /\ UNCHANGED <<RunVars, registered, buffer, reopens>>

\* event_page: the events after the cursor in their order, at most PageLimit of them.
Page(cursor) ==
    LET size == IF last - cursor < PageLimit THEN last - cursor ELSE PageLimit
    IN  [i \in 1..size |-> cursor + i]
CatchUpReads(c) ==
    /\ Phase(c) = "catchup" /\ stream[c].backlog = <<>>
    /\ stream' = [stream EXCEPT ![c].backlog = Page(stream[c].cursor),
                                ![c].phase = IF stream[c].cursor < last THEN @
                                             ELSE IF stream[c].already THEN "ended" ELSE "live"]
    /\ UNCHANGED <<RunVars, registered, buffer, heard, reopens>>

\* Mutant: an overrun is not made good from the log.
LiveIgnoresLag(c) ==
    /\ Phase(c) = "live" /\ buffer[c].lagged
    /\ buffer' = [buffer EXCEPT ![c].lagged = FALSE]
    /\ UNCHANGED <<RunVars, registered, stream, heard, reopens>>
LiveLagged(c) ==
    /\ Phase(c) = "live" /\ buffer[c].lagged
    /\ buffer' = [buffer EXCEPT ![c].lagged = FALSE] /\ Enters(c, "catchup")
    /\ UNCHANGED <<RunVars, registered, heard, reopens>>
LiveReceives(c) ==
    /\ Phase(c) = "live" /\ ~buffer[c].lagged /\ buffer[c].events # <<>>
    /\ buffer' = [buffer EXCEPT ![c].events = Tail(@)]
    /\ LET seq == Head(buffer[c].events)
       IN  IF seq > stream[c].cursor
           THEN /\ Gives(c, seq)
                /\ stream' = [stream EXCEPT ![c].cursor = seq,
                                            ![c].phase = IF IsTerminal(seq) THEN "ended" ELSE @]
           ELSE UNCHANGED <<stream, heard>>
    /\ UNCHANGED <<RunVars, registered, reopens>>

-----------------------------------------------------------------------------
StreamsInit ==
    /\ last = 1 /\ ended = FALSE
    /\ writing = [w \in Writers |-> Idle] /\ registered = {} /\ owned = TRUE
    /\ buffer = [c \in Conns |-> [events |-> <<>>, lagged |-> FALSE]]
    /\ stream = [c \in Conns |-> Closed] /\ heard = [c \in Conns |-> {}]
    /\ sent = {1} /\ overtaken = {} /\ reopens = 0

PublishStep(w) == Targets(w) \/ Delivers(w) \/ Finishes(w)
StreamStep(c) ==
    \/ SubscribeReads(c) \/ SubscribeRegisters(c) \/ SubscribeRereads(c)
    \/ CatchUpGives(c) \/ CatchUpReads(c) \/ LiveLagged(c) \/ LiveReceives(c)

StreamsNext ==
    \/ \E w \in Writers : Appends(w) \/ PublishStep(w)
    \/ \E c \in Followers : Opens(c) \/ Reopens(c) \/ SubscribeFails(c) \/ StreamStep(c)

\* A fan-out that began is carried through, and a stream's task runs.
StreamsFairness ==
    /\ \A w \in Writers : WF_streamVars(PublishStep(w))
    /\ \A c \in Followers : WF_streamVars(StreamStep(c))
StreamsSpec == StreamsInit /\ [][StreamsNext]_streamVars /\ StreamsFairness

-----------------------------------------------------------------------------
(* Properties *)

Phases == {"closed", "reading", "registering", "rereading", "catchup", "live", "ended"}
StreamsTypeOK ==
    /\ last \in 1..MaxSeq /\ {ended, owned} \subseteq BOOLEAN
    /\ \A w \in Writers : writing[w].step \in {"idle", "appended", "targeted", "published"}
    /\ registered \subseteq Conns /\ sent \subseteq 1..last /\ overtaken \subseteq sent
    /\ \A c \in Conns : Len(buffer[c].events) <= Buffer /\ stream[c].phase \in Phases
    /\ \A c \in Conns : heard[c] \subseteq 1..last

Missed(c) == (1..stream[c].cursor) \ heard[c]

\* A stream that is not its run's owner's passes over an event only if that event
\* was fanned out after a later one: registration, replay, overrun and reconnection
\* lose nothing, wherever they fall between an append and its fan-out.
OnlyOvertakenMissed == \A c \in Conns \ {Owner} : Missed(c) \cap sent \subseteq overtaken

\* Once the run has ended, every open stream of another connection ends.  (lib.rs:
\* "this connection would otherwise wait for an event that never comes".)
FollowersEnd ==
    \A c \in Conns \ {Owner} : (ended /\ Listening(c)) ~> (Phase(c) = "ended")

\* The same of the owner's.  (lib.rs, of the connection the fan-out leaves out:
\* "which receives it through its own run sink".)
OwnerEnds == (ended /\ Listening(Owner)) ~> (Phase(Owner) = "ended")
=============================================================================
