----------------------------- MODULE ServiceLoop -----------------------------
(***************************************************************************)
(* The timers and the tick chain of the autopilot's service loop           *)
(* (src/autopilot/service-loop.ts). The actions change the loop's own      *)
(* state only; SwarmService composes them with the watcher, the cache and  *)
(* the tick.                                                               *)
(*                                                                         *)
(* One instance is started once and stopped at most once: the service      *)
(* makes a new loop every time it is started.                              *)
(***************************************************************************)
EXTENDS Naturals

CONSTANT Modes          \* the values of autopilot.watcherMode that are tried

ASSUME ModesAssumption == Modes \subseteq {"polling", "watch", "hybrid"}

Sources == {"manual", "polling", "watcher", "safety"}

VARIABLES
    mode,               \* this.options.mode
    running,            \* this.running
    projectRoot,        \* this.projectRoot is set
    pollingTimer,       \* this.pollingTimer is armed
    safetyTimer,        \* this.safetyTimer is armed
    debounceSource,     \* this.debounceSource, "none" while the debounce timer is not armed
    followUpSource,     \* this.followUpSource, or "none"
    inFlight,           \* the source of the tick in flight, or "none"
    rearming,           \* the interval timers whose runOnce has not ended yet
    starting,           \* where start() is: "no", "watcher", "done", "failed"
    stopping,           \* where stop() is: "no", "watcher", "inFlight", "done", "failed"
    turn                \* history: changes its value when a tick begins

timerVars == <<pollingTimer, safetyTimer, debounceSource>>
chainVars == <<followUpSource, inFlight, rearming, turn>>
lifeVars  == <<mode, running, projectRoot, starting, stopping>>
loopVars  == <<timerVars, chainVars, lifeVars>>

LoopInit ==
    /\ mode \in Modes
    /\ running = FALSE /\ projectRoot = FALSE
    /\ pollingTimer = FALSE /\ safetyTimer = FALSE /\ debounceSource = "none"
    /\ followUpSource = "none" /\ inFlight = "none" /\ rearming = {}
    /\ starting = "no" /\ stopping = "no"
    /\ turn = FALSE

sourcePriority == [manual |-> 0, polling |-> 1, watcher |-> 2, safety |-> 3]

pickHigherPrioritySource(current, next) ==
    IF current # "none" /\ sourcePriority[next] <= sourcePriority[current] THEN current ELSE next

Hears == running /\ projectRoot

Polls == mode \in {"polling", "hybrid"}
Watches == mode # "polling"

\* Slip: the debounce timer stays armed.
clearTimersSlip == pollingTimer' = FALSE /\ safetyTimer' = FALSE /\ UNCHANGED debounceSource

clearTimers == pollingTimer' = FALSE /\ safetyTimer' = FALSE /\ debounceSource' = "none"

-----------------------------------------------------------------------------
(***************************************************************************)
(* start() and stop().                                                     *)
(***************************************************************************)

(* start() up to its first await: in polling mode it is over, the first     *)
(* poll due at once; otherwise it waits for the watcher to come up.         *)
LoopStart ==
    /\ starting = "no"
    /\ running' = TRUE /\ projectRoot' = TRUE
    /\ IF Watches THEN starting' = "watcher" /\ UNCHANGED pollingTimer
                  ELSE starting' = "done" /\ pollingTimer' = TRUE
    /\ UNCHANGED <<mode, stopping, safetyTimer, debounceSource, chainVars>>

(* The watcher is up; the loop may have been stopped meanwhile.             *)
WatcherStarted ==
    /\ starting = "watcher"
    /\ starting' = "done"
    /\ safetyTimer' = (safetyTimer \/ Hears)
    /\ pollingTimer' = (pollingTimer \/ (Hears /\ Polls))
    /\ UNCHANGED <<mode, running, projectRoot, stopping, debounceSource, chainVars>>

WatcherStartFails ==
    /\ starting = "watcher"
    /\ starting' = "failed"
    /\ running' = FALSE /\ projectRoot' = FALSE
    /\ clearTimers
    /\ UNCHANGED <<mode, stopping, chainVars>>

\* Slip: the tick in flight is forgotten, not awaited.
LoopStopSlip ==
    /\ starting # "no" /\ stopping = "no"
    /\ running' = FALSE
    /\ followUpSource' = "none" /\ inFlight' = "none"
    /\ clearTimers
    /\ stopping' = IF Watches THEN "watcher" ELSE "inFlight"
    /\ UNCHANGED <<mode, projectRoot, starting, rearming, turn>>

LoopStop ==
    /\ starting # "no" /\ stopping = "no"
    /\ running' = FALSE
    /\ followUpSource' = "none"
    /\ clearTimers
    /\ stopping' = IF Watches THEN "watcher" ELSE "inFlight"
    /\ UNCHANGED <<mode, projectRoot, starting, inFlight, rearming, turn>>

WatcherStopped ==
    /\ stopping = "watcher"
    /\ stopping' = "inFlight"
    /\ UNCHANGED <<mode, running, projectRoot, starting, timerVars, chainVars>>

LoopStopped ==
    /\ stopping = "inFlight" /\ inFlight = "none"
    /\ stopping' = "done"
    /\ projectRoot' = FALSE
    /\ UNCHANGED <<mode, running, starting, timerVars, chainVars>>

-----------------------------------------------------------------------------
(***************************************************************************)
(* Triggers, timers and the chain of ticks.                                *)
(***************************************************************************)

(* trigger(): a demand joins the debounce window, the strongest source wins. *)
trigger(source) ==
    /\ debounceSource' = IF Hears THEN pickHigherPrioritySource(debounceSource, source)
                                  ELSE debounceSource
    /\ UNCHANGED <<pollingTimer, safetyTimer, chainVars, lifeVars>>

\* Slip: a demand that comes while a tick is in flight is dropped.
runOnceSlip(source) ==
    /\ IF inFlight = "none" THEN inFlight' = source /\ turn' = ~turn
                            ELSE UNCHANGED <<inFlight, turn>>
    /\ UNCHANGED followUpSource

(* runOnce() up to its first await: it begins a chain, or leaves a follow-up *)
(* for the chain that is in flight.                                          *)
runOnce(source) ==
    IF inFlight = "none"
    THEN inFlight' = source /\ turn' = ~turn /\ UNCHANGED followUpSource
    ELSE /\ followUpSource' = pickHigherPrioritySource(followUpSource, source)
         /\ UNCHANGED <<inFlight, turn>>

PollingFires ==
    /\ pollingTimer /\ Hears
    /\ pollingTimer' = FALSE
    /\ runOnce("polling")
    /\ rearming' = rearming \cup {"polling"}
    /\ UNCHANGED <<safetyTimer, debounceSource, lifeVars>>

SafetyFires ==
    /\ safetyTimer /\ Hears
    /\ safetyTimer' = FALSE
    /\ runOnce("safety")
    /\ rearming' = rearming \cup {"safety"}
    /\ UNCHANGED <<pollingTimer, debounceSource, lifeVars>>

DebounceFires ==
    /\ debounceSource # "none" /\ Hears
    /\ debounceSource' = "none"
    /\ runOnce(debounceSource)
    /\ UNCHANGED <<pollingTimer, safetyTimer, rearming, lifeVars>>

(* The finally of the interval timers that waited for the chain to end.     *)
schedulePollingAndSafety ==
    /\ pollingTimer' = (pollingTimer \/ (Hears /\ "polling" \in rearming))
    /\ safetyTimer' = (safetyTimer \/ (Hears /\ "safety" \in rearming))

(* The tick in flight has ended, well or with an error that was recorded:   *)
(* the chain goes on with the follow-up, or it ends, and everyone who       *)
(* awaited it goes on before another timer can fire.                        *)
ChainGoesOn ==
    /\ inFlight # "none"
    /\ IF running /\ followUpSource # "none"
       THEN /\ inFlight' = followUpSource /\ turn' = ~turn
            /\ UNCHANGED <<pollingTimer, safetyTimer, rearming>>
       ELSE /\ inFlight' = "none"
            /\ schedulePollingAndSafety
            /\ rearming' = {}
            /\ UNCHANGED turn
    /\ followUpSource' = "none"
    /\ UNCHANGED <<debounceSource, lifeVars>>

(* A stop() that awaits a chain which is rejected is rejected with it.      *)
stopFails == stopping' = IF stopping = "inFlight" THEN "failed" ELSE stopping

\* Slip: the interval timers are armed in a then(), not in a finally().
ChainBreaksSlip ==
    /\ inFlight # "none"
    /\ inFlight' = "none"
    /\ rearming' = {}
    /\ stopFails
    /\ UNCHANGED <<followUpSource, turn, timerVars, mode, running, projectRoot, starting>>

(* recordFailure() fails too: the chain is rejected as it is, a follow-up   *)
(* stays where it is, and the interval timers are armed again all the same. *)
ChainBreaks ==
    /\ inFlight # "none"
    /\ inFlight' = "none"
    /\ schedulePollingAndSafety
    /\ rearming' = {}
    /\ stopFails
    /\ UNCHANGED <<followUpSource, turn, debounceSource, mode, running, projectRoot, starting>>

-----------------------------------------------------------------------------
LoopTypeOK ==
    /\ mode \in Modes
    /\ running \in BOOLEAN /\ projectRoot \in BOOLEAN
    /\ pollingTimer \in BOOLEAN /\ safetyTimer \in BOOLEAN
    /\ debounceSource \in Sources \cup {"none"}
    /\ followUpSource \in Sources \cup {"none"} /\ inFlight \in Sources \cup {"none"}
    /\ rearming \subseteq {"polling", "safety"}
    /\ starting \in {"no", "watcher", "done", "failed"}
    /\ stopping \in {"no", "watcher", "inFlight", "done", "failed"}
    /\ turn \in BOOLEAN
=============================================================================
