----------------------------- MODULE SwarmService -----------------------------
(***************************************************************************)
(* The service that createSwarmService puts together: the loop of ticks,   *)
(* the cache the ticks read, and the watcher whose events refresh the      *)
(* cache and ask the loop for a tick, in this order. The watcher is known  *)
(* here by its contract (WatcherContract, which StateWatcher implements).  *)
(*                                                                         *)
(* Other processes (the command line, the tools) write the same files      *)
(* whenever they like. A tick loads every file, may save some of them, and *)
(* writes the autopilot's own state when it begins to work and when it is  *)
(* over.                                                                   *)
(***************************************************************************)
EXTENDS ServiceLoop, StateCache

CONSTANTS
    Autopilot,      \* the file autopilot-state.json, which is not cached
    MaxFaults       \* bound: ticks that fail or yield, refreshes that fail, errors of the watcher

ASSUME ServiceAssumption == MaxFaults \in Nat /\ Autopilot \notin File

WatchedFile == File \cup {Autopilot}

VARIABLES
    watcherOn,      \* the watcher is started and not stopped
    live,           \* the watcher's backend is subscribed
    raw,            \* changes the backend has seen and the watcher has yet to hear of
    due,            \* changes the watcher has heard of and not reported
    reported,       \* what the last step reported
    tick,           \* where the tick in flight is
    target,         \* the file it loads or saves
    unread,         \* the files it has not loaded yet
    ahead,          \* the operations of the cache's queue that it waits for
    owed,           \* what the load must show at least: see LoadsAreFresh
    current,        \* history: files whose newest content some tick has loaded
    promised,       \* history: file -> the newest content that was reported, or saved by a tick
    faults

watcherVars == <<watcherOn, live, raw, due, reported>>
tickVars == <<tick, target, unread, ahead, owed>>
historyVars == <<current, promised, faults>>
vars == <<loopVars, fileVars, cacheVars, stale, watcherVars, tickVars, historyVars>>

Watcher ==
    INSTANCE WatcherContract
        WITH Path <- WatchedFile, on <- watcherOn, due <- due, reported <- reported

Init ==
    /\ LoopInit /\ CacheInit
    /\ Watcher!Init /\ live = FALSE /\ raw = {}
    /\ tick = "off" /\ target = CHOOSE f \in File : TRUE
    /\ unread = {} /\ ahead = 0 /\ owed = 0
    /\ current = File /\ promised = [f \in File |-> 0] /\ faults = 0

(* A file has changed: a subscribed backend sees it. A change of a file the *)
(* cache has read already, before the backend is subscribed, is seen by     *)
(* nobody.                                                                  *)
Noticed(f) == raw' = IF live THEN raw \cup {f} ELSE raw

(* What a tick's load of this file returns.                                 *)
Content(f) == IF Watches THEN load(f) ELSE disk[f]

(* The service itself has just renamed this file, and does not know it yet. *)
Renaming(f) == tick = "written" /\ target = f

Faulty == faults < MaxFaults /\ faults' = faults + 1

(* A tick that begins has everything to load.                               *)
TickBegins ==
    IF turn' # turn
    THEN tick' = "work" /\ unread' = File /\ UNCHANGED <<target, ahead, owed>>
    ELSE UNCHANGED tickVars

-----------------------------------------------------------------------------
(***************************************************************************)
(* The life of the service.                                                *)
(***************************************************************************)

WarmUp ==
    /\ Watches
    /\ \/ \E f \in File : WarmRead(f)
       \/ CacheStarted
    /\ Watcher!Silence
    /\ UNCHANGED <<loopVars, fileVars, stale, live, raw, tickVars, historyVars>>

(* The loop is made when the cache is warm; starting it starts the watcher. *)
ServiceStart ==
    /\ Watches => Started
    /\ LoopStart
    /\ IF Watches THEN Watcher!SwitchOn ELSE Watcher!Silence
    /\ UNCHANGED <<fileVars, cacheVars, stale, live, raw, tickVars, historyVars>>

WatcherComesUp ==
    /\ WatcherStarted
    /\ live' = watcherOn
    /\ Watcher!Silence
    /\ UNCHANGED <<fileVars, cacheVars, stale, raw, tickVars, historyVars>>

(* The watcher rolls its start back, and the loop does the same.            *)
WatcherGivesUp ==
    /\ WatcherStartFails
    /\ IF watcherOn THEN Watcher!SwitchOff ELSE Watcher!Silence
    /\ UNCHANGED <<fileVars, cacheVars, stale, live, raw, tickVars, historyVars>>

(* The loop's stop reaches the watcher at once: what it holds is dropped,   *)
(* and the callbacks of its backend are not heard any more.                 *)
ServiceStop ==
    /\ LoopStop
    /\ IF watcherOn THEN Watcher!SwitchOff ELSE Watcher!Silence
    /\ live' = FALSE /\ raw' = {}
    /\ UNCHANGED <<fileVars, cacheVars, stale, tickVars, historyVars>>

StopGoesOn ==
    /\ WatcherStopped \/ LoopStopped
    /\ Watcher!Silence
    /\ UNCHANGED <<fileVars, cacheVars, stale, live, raw, tickVars, historyVars>>

-----------------------------------------------------------------------------
(***************************************************************************)
(* The watcher.                                                            *)
(***************************************************************************)

(* The backend's callback. A file that the service itself has just renamed  *)
(* is heard of after the rename has returned.                               *)
WatcherHears(f) ==
    /\ f \in raw /\ ~Renaming(f)
    /\ Watcher!Hear({f})
    /\ raw' = raw \ {f}
    /\ UNCHANGED <<loopVars, fileVars, cacheVars, stale, live, tickVars, historyVars>>

(* The first thing that it does: it replays what changed since its          *)
(* snapshot.                                                                *)
WatcherReplays ==
    /\ starting = "watcher" /\ due = {}
    /\ debounceSource = "none" /\ inFlight = "none" /\ ~turn
    /\ \E files \in SUBSET WatchedFile : files # {} /\ Watcher!Hear(files)
    /\ UNCHANGED <<loopVars, fileVars, cacheVars, stale, live, raw, tickVars, historyVars>>

(* The listeners were attached in this order: the cache's, then the loop's. *)
(* A file that the service has just renamed is read again now, but the note *)
(* of that save comes after.                                                *)
WatcherReports ==
    /\ Watcher!Report
    /\ applyChanges(due \cap File)
    /\ trigger("watcher")
    /\ promised' = [f \in File |-> IF f \in due /\ ~Renaming(f) THEN disk[f] ELSE promised[f]]
    /\ stale' = stale \ {f \in due : ~Renaming(f)}
    /\ UNCHANGED <<fileVars, cache, warm, refreshed, live, raw, tickVars, current, faults>>

WatcherErrs ==
    /\ watcherOn /\ Faulty
    /\ trigger("safety")
    /\ Watcher!Silence
    /\ UNCHANGED <<fileVars, cacheVars, stale, live, raw, tickVars, current, promised>>

-----------------------------------------------------------------------------
(***************************************************************************)
(* The cache's queue.                                                      *)
(***************************************************************************)

CacheReads ==
    /\ RefreshRead
    /\ Watcher!Silence
    /\ UNCHANGED <<loopVars, fileVars, stale, live, raw, tickVars, historyVars>>

(* An operation ends: those who wait for it have one less to wait for. A    *)
(* load of a file whose refresh fails is owed nothing any more.             *)
CacheOperationEnds ==
    /\ \/ (RefreshStored \/ NoteApplied) /\ UNCHANGED <<faults, owed>>
       \/ /\ RefreshFails /\ Faulty
          /\ owed' = IF tick = "loading" /\ target = Head(queue).file THEN 0 ELSE owed
    /\ ahead' = IF ahead > 0 THEN ahead - 1 ELSE 0
    /\ Watcher!Silence
    /\ UNCHANGED <<loopVars, fileVars, live, raw, tick, target, unread, current, promised>>

-----------------------------------------------------------------------------
(***************************************************************************)
(* The timers, and the tick as a client of the store.                      *)
(***************************************************************************)

TimerFires ==
    /\ PollingFires \/ SafetyFires \/ DebounceFires
    /\ TickBegins
    /\ Watcher!Silence
    /\ UNCHANGED <<fileVars, cacheVars, stale, live, raw, historyVars>>

(* The content that a load which is called now must show at least.          *)
Due(f) == IF ~Watches THEN disk[f] ELSE IF f \in stale THEN 0 ELSE promised[f]

\* Slip: the load does not await the queue.
LoadCalledSlip ==
    /\ tick = "work"
    /\ \E f \in unread : target' = f /\ owed' = Due(f)
    /\ ahead' = 0
    /\ tick' = "loading"
    /\ Watcher!Silence
    /\ UNCHANGED <<loopVars, fileVars, cacheVars, stale, live, raw, unread, historyVars>>

LoadCalled ==
    /\ tick = "work"
    /\ \E f \in unread : target' = f /\ owed' = Due(f)
    /\ ahead' = Len(queue)
    /\ tick' = "loading"
    /\ Watcher!Silence
    /\ UNCHANGED <<loopVars, fileVars, cacheVars, stale, live, raw, unread, historyVars>>

(* The first load over, the tick takes its lease: it writes the autopilot's *)
(* state.                                                                   *)
LoadReturns ==
    /\ tick = "loading" /\ ahead = 0
    /\ current' = IF Content(target) = disk[target] THEN current \cup {target} ELSE current
    /\ unread' = unread \ {target}
    /\ tick' = "work"
    /\ owed' = 0
    /\ IF unread = File THEN Noticed(Autopilot) ELSE UNCHANGED raw
    /\ Watcher!Silence
    /\ UNCHANGED <<loopVars, fileVars, cacheVars, stale, live, target, ahead, promised, faults>>

(* A save: the new content is on the disk, and the cache does not know yet. *)
SaveWritten ==
    /\ tick = "work" /\ unread = {}
    /\ \E f \in File : writeJsonFileAtomic(f) /\ target' = f /\ Noticed(f) /\ current' = current \ {f}
    /\ owed' = writes + 1
    /\ tick' = "written"
    /\ Watcher!Silence
    /\ UNCHANGED <<loopVars, cacheVars, stale, live, unread, ahead, promised, faults>>

(* The rename has returned: the cache is told, if there is one.             *)
SaveNoted ==
    /\ tick = "written"
    /\ tick' = "noting"
    /\ IF Watches THEN onWritten(target, owed) ELSE UNCHANGED queue
    /\ ahead' = IF Watches THEN Len(queue) + 1 ELSE 0
    /\ Watcher!Silence
    /\ UNCHANGED <<loopVars, fileVars, cache, warm, refreshed, stale, live, raw, target, unread, owed,
                   historyVars>>

(* The save has returned; what was saved is loaded again before it is used. *)
SaveReturns ==
    /\ tick = "noting" /\ ahead = 0
    /\ promised' = [promised EXCEPT ![target] = IF @ > owed THEN @ ELSE owed]
    /\ unread' = {target} /\ owed' = 0
    /\ tick' = "work"
    /\ Watcher!Silence
    /\ UNCHANGED <<loopVars, fileVars, cacheVars, stale, live, raw, target, ahead, current, faults>>

(* After a tick: the chain goes on to the next one, or it is over.          *)
AfterTick ==
    /\ IF turn' # turn THEN tick' = "work" /\ unread' = File ELSE tick' = "off" /\ unread' = {}
    /\ target' = (CHOOSE f \in File : TRUE) /\ owed' = 0
    /\ Watcher!Silence
    /\ UNCHANGED <<fileVars, cacheVars, stale, live, ahead, current, promised>>

(* persistTickState: the tick leaves its decision in the autopilot's state. *)
TickEnds ==
    /\ tick = "work" /\ unread = {}
    /\ ChainGoesOn
    /\ Noticed(Autopilot)
    /\ AfterTick /\ UNCHANGED faults

(* The lease is another's, or the autopilot is paused: the tick loads       *)
(* nothing but the workflow (a load like any other, left out here), and     *)
(* leaves its decision in the autopilot's state.                            *)
TickYields ==
    /\ tick = "work" /\ unread = File /\ Faulty
    /\ ChainGoesOn
    /\ Noticed(Autopilot)
    /\ AfterTick

(* The tick throws; recordFailure writes the autopilot's state, or throws   *)
(* as well.                                                                 *)
TickFails ==
    /\ tick = "work" /\ Faulty
    /\ \/ ChainGoesOn /\ Noticed(Autopilot)
       \/ ChainBreaks /\ UNCHANGED raw
    /\ AfterTick

(* Another process writes a state file.                                     *)
OutsideWrite ==
    /\ \E f \in File :
        /\ writeJsonFileAtomic(f)
        /\ Noticed(f) /\ current' = current \ {f}
        /\ stale' = IF Watches /\ ~live /\ (Started \/ warm[f] # Unread) THEN stale \cup {f} ELSE stale
    /\ Watcher!Silence
    /\ UNCHANGED <<loopVars, cacheVars, live, tickVars, promised, faults>>

-----------------------------------------------------------------------------
Cache == CacheReads \/ CacheOperationEnds

TickStep == LoadCalled \/ LoadReturns \/ SaveNoted \/ SaveReturns \/ TickEnds

Life == WarmUp \/ ServiceStart \/ WatcherComesUp \/ WatcherGivesUp \/ StopGoesOn

Next ==
    \/ Life \/ ServiceStop
    \/ (\E f \in WatchedFile : WatcherHears(f)) \/ WatcherReplays \/ WatcherReports \/ WatcherErrs
    \/ Cache
    \/ TimerFires
    \/ TickStep \/ SaveWritten \/ TickYields \/ TickFails
    \/ OutsideWrite

(* What the event loop and the disk do in the end: timers fire, callbacks   *)
(* are made, reads and writes return. Nobody has to write, stop or fail.    *)
EventLoop ==
    /\ WF_vars(Life)
    /\ (\A f \in WatchedFile : WF_vars(WatcherHears(f)))
    /\ WF_vars(WatcherReports)
    /\ WF_vars(Cache)
    /\ WF_vars(TickStep)
    /\ WF_vars(DebounceFires /\ TimerFires)

IntervalTimers == WF_vars(PollingFires /\ TimerFires) /\ WF_vars(SafetyFires /\ TimerFires)

Spec == Init /\ [][Next]_vars /\ EventLoop /\ IntervalTimers

-----------------------------------------------------------------------------
(***************************************************************************)
(* Properties.                                                             *)
(***************************************************************************)

(* The shape of the state; a tick is under way exactly while the chain is   *)
(* in flight.                                                               *)
TypeOK ==
    /\ LoopTypeOK /\ CacheTypeOK
    /\ watcherOn \in BOOLEAN /\ live \in BOOLEAN
    /\ raw \subseteq WatchedFile /\ due \subseteq WatchedFile /\ reported \subseteq WatchedFile
    /\ tick \in {"off", "work", "loading", "written", "noting"}
    /\ (tick = "off") = (inFlight = "none")
    /\ target \in File /\ unread \subseteq File /\ ahead \in Nat
    /\ owed \in 0 .. MaxWrites /\ current \subseteq File
    /\ promised \in [File -> 0 .. MaxWrites] /\ faults \in 0 .. MaxFaults

(* The loop never goes deaf: while it runs, each of its interval timers is  *)
(* armed, or belongs to a run that has yet to end and will arm it again,    *)
(* whatever fails.                                                          *)
NeverDeaf ==
    /\ (running /\ starting = "done") =>
          /\ Polls => pollingTimer \/ "polling" \in rearming
          /\ Watches => safetyTimer \/ "safety" \in rearming
    /\ rearming # {} => inFlight # "none"

(* When the loop's stop() has returned, or was rejected with the chain that *)
(* it awaited, no tick is in flight, no timer can start one, and the        *)
(* watcher will report nothing any more; even if the loop's start() was     *)
(* still waiting for the watcher when stop() was called.                    *)
StoppedIsQuiet ==
    stopping \in {"done", "failed"} =>
        /\ inFlight = "none" /\ followUpSource = "none"
        /\ ~pollingTimer /\ ~safetyTimer /\ debounceSource = "none"
        /\ ~watcherOn /\ due = {}

(* What a tick loads is never older than the changes that were reported     *)
(* before it asked, and never older than what the service itself has saved: *)
(* the tick that a change causes sees that change. Where a refresh fails,   *)
(* or a change is missed, this holds again from the next report on.         *)
LoadsAreFresh ==
    (tick = "loading" /\ ahead = 0) => Content(target) >= owed

(* The cache catches up with the files again and again. A refresh that      *)
(* fails, or a change that is missed before the watcher is up, puts this    *)
(* off until the file is reported again, and no longer, unless the report   *)
(* falls between a save of the service's own and the note of it.            *)
CacheCatchesUp ==
    \A f \in File :
        []<>((Watches /\ Started /\ live) => cache[f] = disk[f] \/ f \in stale)

(* A change of a file that the backend has seen reaches a tick, which loads *)
(* the file as it is then, unless the service is stopped.                   *)
ChangeReachesATick ==
    \A f \in File : f \in raw ~> (f \in current \/ f \in stale \/ ~running)

(* No demand for a tick is lost: the loop implements TickDemand, where a    *)
(* demand that came while a tick was in flight is answered by a later one.  *)
Demand ==
    INSTANCE TickDemand
        WITH open <- Hears,
             asked <- Hears /\ (debounceSource # "none" \/ followUpSource # "none"),
             turn <- turn

DemandSpec == Demand!Spec
=============================================================================
