---------------------------- MODULE MCSelfTrigger ----------------------------
(* A watching service, and nobody who writes its files but itself.        *)
EXTENDS SwarmService

(* The safety timer is five minutes away, and need not fire.                *)
IdleSpec == Init /\ [][Next]_vars /\ EventLoop

(* "event-driven", "idle gateway CPU near zero": a watching service that    *)
(* nothing happens to ticks no more, or only because its safety timer       *)
(* fires. The code: classifyPath calls the file that every tick writes      *)
(* (autopilot-state.json) a change, and a change is a trigger.              *)
IdleIsQuiet == []<><<SafetyFires>>_vars \/ <>[](tick = "off")
=============================================================================
