---------------------------- MODULE MCPlanExecution ----------------------------
(* PlanExecution for TLC: a plan of three steps, whose dependencies are out of *)
(* order in one graph and form a cycle, with an unknown step, in the other.     *)
EXTENDS PlanExecution

SampleGraphs == {<<{3}, {}, {2}>>, <<{2}, {1}, {2, 9}>>}
SampleDelegations == {{}, {3}}
================================================================================
