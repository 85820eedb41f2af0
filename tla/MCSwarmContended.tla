-------------------------- MODULE MCSwarmContended --------------------------
(* An autopilot and an operator who uses every command fight for one task.   *)
EXTENDS SwarmOrchestrator

CONSTANTS p1, p2

MCProcs == {p1, p2}
MCAutopilots == {p1}
MCOperators == {p2}
MCCommands == {"run", "sync", "cancel", "review", "plan"}
MCOverrides == {"task", "manual"}
MCDeps == <<{}>>
MCAcpTasks == {1}
MCReviewRequired == {1}
MCRetryOn == {"timed_out"}
=============================================================================
