---------------------------- MODULE MCSwarmService ----------------------------
(* A polling and a watching service, one cached file, one write, one failure.*)
EXTENDS SwarmService
=============================================================================
