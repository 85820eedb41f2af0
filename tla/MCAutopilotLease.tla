-------------------------- MODULE MCAutopilotLease --------------------------
(* A service loop whose ticks fail and are killed, an operator who gives      *)
(* every command, and enough owner ids that a new one is always to be had.    *)
EXTENDS AutopilotLease

CONSTANTS loop, o1, o2, o3, o4

MCLoops == {loop}
MCNobody == {}
MCCommands == {"start", "pause", "resume", "stop"}
MCOwners == {o1, o2, o3, o4}
=============================================================================
