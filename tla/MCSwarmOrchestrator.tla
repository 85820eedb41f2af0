------------------------ MODULE MCSwarmOrchestrator ------------------------
(* One process and two slots; four ACP tasks, one of which needs a review    *)
(* before another one may start.                                             *)
EXTENDS SwarmOrchestrator

CONSTANT p1

MCProcs == {p1}
MCNobody == {}
MCDeps == <<{}, {}, {1}, {}>>
MCAcpTasks == {1, 2, 3, 4}
MCReviewRequired == {1}
MCRetryOn == {"failed", "timed_out"}
MCOverrides == {"task"}
=============================================================================
