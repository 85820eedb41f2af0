--------------------------- MODULE MCLeaseOverlap ---------------------------
(* A service loop and an operator who runs a tick by hand; no faults and no   *)
(* commands.                                                                  *)
EXTENDS AutopilotLease

CONSTANTS loop, hand, o1, o2, o3

MCLoops == {loop}
MCHands == {hand}
MCNothing == {}
MCOwners == {o1, o2, o3}
=============================================================================
