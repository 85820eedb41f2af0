------------------------------ MODULE TickDemand ------------------------------
(***************************************************************************)
(* What the service loop promises to those who ask it for a tick: a demand *)
(* made while the loop is open is answered by a tick that begins later,    *)
(* and is forgotten for no other reason than that the loop is closed.      *)
(***************************************************************************)
VARIABLES
    open,       \* the loop takes demands
    asked,      \* some demand has no answer yet
    turn        \* changes its value when a tick begins

vars == <<open, asked, turn>>

Init == open = FALSE /\ asked = FALSE /\ turn = FALSE

Open == ~open /\ open' = TRUE /\ UNCHANGED <<asked, turn>>

Ask == open /\ asked' = TRUE /\ UNCHANGED <<open, turn>>

(* A tick begins, by the clock or as an answer. A demand that comes while   *)
(* it runs waits for the next one.                                          *)
Begin == open /\ turn' = ~turn /\ asked' \in {FALSE, asked} /\ UNCHANGED open

Close == open /\ open' = FALSE /\ asked' = FALSE /\ UNCHANGED turn

Next == Open \/ Ask \/ Begin \/ Close

Spec == Init /\ [][Next]_vars /\ WF_vars(asked /\ Begin)
=============================================================================
