-------------------------- MODULE MCTurnExecution --------------------------
(* TurnExecution for TLC: three instances of it in one run, so that each stays  *)
(* small.  "batches" has two calls, one of them a question without a timer, and *)
(* no steers; "messages" has one call, a timed question, and one steer;         *)
(* "steers" has all the steers and one call, a tool that asks for no approval,  *)
(* so that steers are read together, apart, and on both sides of a tool batch.  *)
EXTENDS TurnExecution

VARIABLE focus
allVars == <<vars, focus>>

\* The call "messages" does not have: the one that is not a question.
Plain == Calls \ Questions

\* The steer of "messages".
OneSteer == CHOOSE m \in Steers : TRUE

MCInit == Init /\ focus \in {"batches", "messages", "steers"}
MCNext ==
    /\ Next /\ UNCHANGED focus
    /\ focus = "batches" => ~(\E m \in Steers : SteerRun(m)) /\ UNCHANGED expired
    /\ focus = "messages" => /\ \A c \in Plain : stage'[c] = "unused"
                             /\ \A i \in SteersAt(log') : log'[i].msg = OneSteer
    /\ focus = "steers" => /\ \A c \in Questions : stage'[c] = "unused"
                           /\ UNCHANGED tickets

\* The server's own fairness only: a model, a tool or a user may never answer.
MCServerSpec == MCInit /\ [][MCNext]_allVars /\ ServerFairness
MCSpec == MCServerSpec /\ CooperativeFairness

=============================================================================
