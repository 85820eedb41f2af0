---------------------------- MODULE MCSwarmRetry ----------------------------
(* One process and one task that gets stuck again and again: two attempts in  *)
(* the retry policy, two recoveries in the budget of the autopilot.           *)
EXTENDS SwarmOrchestrator

CONSTANT p1

MCProcs == {p1}
MCNobody == {}
MCDeps == <<{}>>
MCTasks == {1}
MCRetryOn == {"timed_out"}
MCOverrides == {"task"}
=============================================================================
