------------------------- MODULE MCSwarmInterleaved -------------------------
(* An autopilot and an operator, with crashes, and two tasks in a row: runs   *)
(* that are stopped as stuck are buried, the attempts being used up.         *)
EXTENDS SwarmOrchestrator

CONSTANTS p1, p2

MCProcs == {p1, p2}
MCAutopilots == {p1}
MCOperators == {p2}
MCDeps == <<{}, {1}>>
MCAcpTasks == {1}
MCReviewRequired == {1}
MCRetryOn == {"timed_out"}
MCCommands == {"run", "cancel", "review"}
MCOverrides == {"task"}
=============================================================================
