-------------------------- MODULE MCSwarmAutopilot --------------------------
(* One slot and two tasks: the first runs only in a session that exists, the  *)
(* second starts one that it leaves behind for later tasks.                   *)
EXTENDS SwarmAutopilot

CONSTANTS p1, key

MCProcs == {p1}
MCNobody == {}
MCDeps == <<{}, {}>>
MCAll == {1, 2}
MCReviewRequired == {1}
MCRetryOn == {"timed_out"}
MCOverrides == {"task"}
MCSessionPolicy == <<"require_existing", "create_persistent">>
MCBindingKey == <<key, key>>
=============================================================================
