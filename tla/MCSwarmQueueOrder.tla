------------------------- MODULE MCSwarmQueueOrder -------------------------
(* Three independent ACP tasks and one slot.                                 *)
EXTENDS SwarmQueueOrder

CONSTANT p1

MCProcs == {p1}
MCNobody == {}
MCDeps == <<{}, {}, {}>>
MCTasks == {1, 2, 3}
MCRetryOn == {}
MCOverrides == {"task"}
=============================================================================
