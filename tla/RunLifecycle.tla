----------------------------- MODULE RunLifecycle -----------------------------
(***************************************************************************)
(* What the run store promises whoever reads a run by its id and a seq: a  *)
(* run is open while events are added at its end, it is closed by the one  *)
(* terminal event that is also its last, and from then on nothing about it *)
(* changes, except that a rewind may supersede it.  Sessions, keys,        *)
(* tickets, crashes and recovery are details of the implementation.        *)
(***************************************************************************)
EXTENDS Naturals

CONSTANT Ends    \* the kinds of event that close a run

VARIABLES
    phase,    \* of each run so far: "open", "closed" or "superseded"
    length,   \* of each run: the seq of its last event
    log       \* of each run: the set of its events, [seq, kind]

lifecycle == <<phase, length, log>>

Begun == DOMAIN phase
Kept(R) == \A r \in R : phase'[r] = phase[r] /\ length'[r] = length[r] /\ log'[r] = log[r]
Begins(r) == r \notin Begun /\ Begun' = Begun \cup {r}

\* Run r gains the events numbered first..length', of which only the last may
\* close it.
Gains(r, first) ==
    LET gained == {e \in log'[r] : e.seq >= first}
    IN  /\ length'[r] >= first
        /\ {e.seq : e \in gained} = first..length'[r]
        /\ \A e \in gained : e.kind \in Ends => e.seq = length'[r]
        /\ \A e, f \in gained : e.seq = f.seq => e = f
        /\ phase'[r] = IF \E e \in gained : e.kind \in Ends THEN "closed" ELSE "open"

\* A run begins with an empty log.
Start(r) ==
    /\ Begins(r) /\ Kept(Begun)
    /\ phase'[r] = "open" /\ length'[r] = 0 /\ log'[r] = {}

\* One transaction adds events to an open run.
Write(r) ==
    /\ phase[r] = "open"
    /\ {e \in log'[r] : e.seq <= length[r]} = log[r]
    /\ Gains(r, length[r] + 1)
    /\ Begun' = Begun /\ Kept(Begun \ {r})

\* A run is inserted together with its log, closed; the closed runs it replaces
\* are superseded and keep their logs.
Seed(r, replaced) ==
    /\ Begins(r) /\ Gains(r, 1) /\ phase'[r] = "closed"
    /\ \A x \in replaced : phase[x] # "open" /\ phase'[x] = "superseded"
                           /\ length'[x] = length[x] /\ log'[x] = log[x]
    /\ Kept(Begun \ replaced)

Init == Begun = {} /\ length = phase /\ log = phase

Next ==
    \/ \E r \in Begun' \ Begun : Start(r) \/ \E replaced \in SUBSET Begun : Seed(r, replaced)
    \/ \E r \in Begun : Write(r)

Spec == Init /\ [][Next]_lifecycle
===============================================================================
