--------------------------- MODULE MCStateWatcher ---------------------------
(* Two run files and a lock file next to them; every library; three starts. *)
EXTENDS StateWatcher, TLC

CONSTANTS runA, runB, lock

MCPath == {runA, runB, lock}
MCKind == (runA :> "run") @@ (runB :> "run") @@ (lock :> "none")
=============================================================================
