--------------------------- MODULE WatcherContract ---------------------------
(***************************************************************************)
(* What the state watcher promises to the one who listens to it: it        *)
(* reports exactly the paths it has heard of since it was last switched    *)
(* on, it reports them while it is on and at no other time, and what it    *)
(* has heard it does report, unless it is switched off first.              *)
(***************************************************************************)
CONSTANT Path       \* the files below the swarm root

VARIABLES
    on,             \* somebody has started the watcher and nobody stopped it
    due,            \* the paths heard of and not reported yet
    reported        \* the paths that the last step reported

vars == <<on, due, reported>>

Init == on = FALSE /\ due = {} /\ reported = {}

SwitchOn == ~on /\ on' = TRUE /\ due' = {} /\ reported' = {}

Hear(heard) == on /\ on' = on /\ due' = due \cup heard /\ reported' = {}

Report == due # {} /\ on' = on /\ due' = {} /\ reported' = due

SwitchOff == on /\ on' = FALSE /\ due' = {} /\ reported' = {}

(* Anything the watcher does that its listener does not notice.             *)
Silence == on' = on /\ due' = due /\ reported' = {}

Next ==
    \/ SwitchOn
    \/ \E heard \in SUBSET Path : Hear(heard)
    \/ Report
    \/ SwitchOff
    \/ Silence

Spec == Init /\ [][Next]_vars /\ WF_vars(Report)
=============================================================================
