-------------------------- MODULE SwarmServiceProofs --------------------------
(***************************************************************************)
(* What the service guarantees about its loop, its watcher and its cache,  *)
(* for any files, any mode and any number of writes and failures: the loop *)
(* never goes deaf, a stopped service is quiet, every step of the loop is  *)
(* one that TickDemand allows, and a tick loads nothing older than what    *)
(* was saved by the service or reported before the tick asked.             *)
(***************************************************************************)
EXTENDS SwarmService, FiniteSetTheorems, TLAPS

----------------------------------------------------------------------------
\* The inductive invariant: the loop's, and what ties the watcher to it.

LifeInv ==
    /\ running <=> starting \in {"watcher", "done"} /\ stopping = "no"
    /\ running => projectRoot
    /\ starting = "no" => stopping = "no" /\ followUpSource = "none"
    /\ ~running => ~pollingTimer /\ ~safetyTimer /\ debounceSource = "none"
    /\ stopping # "no" => followUpSource = "none"
    /\ stopping \in {"done", "failed"} => inFlight = "none"

LoopInv == LoopTypeOK /\ LifeInv /\ NeverDeaf

WatcherInv ==
    /\ watcherOn \in BOOLEAN
    /\ watcherOn => running
    /\ ~watcherOn => due = {}

IInv == LoopInv /\ WatcherInv

----------------------------------------------------------------------------
\* The steps of the loop.

LEMMA PickedIsASource ==
    ASSUME NEW pending \in Sources \cup {"none"}, NEW next \in Sources
    PROVE  pickHigherPrioritySource(pending, next) \in Sources
BY DEF pickHigherPrioritySource

LEMMA NoneIsNoSource == "none" \notin Sources
BY DEF Sources

\* runOnce begins a chain, or leaves a follow-up for the one in flight.
LEMMA RanOnce ==
    ASSUME LoopTypeOK, NEW source \in Sources, runOnce(source)
    PROVE  /\ inFlight' \in Sources /\ turn' \in BOOLEAN
           /\ \/ /\ inFlight = "none" /\ turn' = ~turn /\ followUpSource' = followUpSource
              \/ /\ inFlight # "none" /\ turn' = turn /\ followUpSource' \in Sources
BY PickedIsASource DEF runOnce, LoopTypeOK

\* start() and stop() up to where they return.
LEMMA LifeKeeps ==
    ASSUME LoopInv,
           LoopStart \/ WatcherStarted \/ WatcherStartFails \/ LoopStop \/ WatcherStopped \/ LoopStopped
    PROVE  LoopInv'
<1>1. CASE LoopStart
  <2>1. LoopTypeOK'
    BY <1>1 DEF LoopStart, LoopInv, LoopTypeOK, chainVars
  <2>2. LifeInv'
    BY <1>1 DEF LoopStart, LoopInv, LoopTypeOK, LifeInv, chainVars
  <2>3. NeverDeaf'
    BY <1>1 DEF LoopStart, LoopInv, NeverDeaf, chainVars, Polls, Watches
  <2> QED
    BY <2>1, <2>2, <2>3 DEF LoopInv
<1>2. CASE WatcherStarted
  <2>1. LoopTypeOK'
    BY <1>2 DEF WatcherStarted, LoopInv, LoopTypeOK, chainVars, Hears
  <2>2. LifeInv'
    BY <1>2 DEF WatcherStarted, LoopInv, LoopTypeOK, LifeInv, chainVars, Hears
  <2>3. NeverDeaf'
    BY <1>2 DEF WatcherStarted, LoopInv, LifeInv, NeverDeaf, chainVars, Polls, Watches, Hears
  <2> QED
    BY <2>1, <2>2, <2>3 DEF LoopInv
<1>3. CASE WatcherStartFails
  <2>1. LoopTypeOK'
    BY <1>3 DEF WatcherStartFails, LoopInv, LoopTypeOK, chainVars, clearTimers
  <2>2. LifeInv'
    BY <1>3 DEF WatcherStartFails, LoopInv, LoopTypeOK, LifeInv, chainVars, clearTimers
  <2>3. NeverDeaf'
    BY <1>3 DEF WatcherStartFails, LoopInv, NeverDeaf, chainVars
  <2> QED
    BY <2>1, <2>2, <2>3 DEF LoopInv
<1>4. CASE LoopStop
  <2>1. LoopTypeOK'
    BY <1>4 DEF LoopStop, LoopInv, LoopTypeOK, clearTimers
  <2>2. LifeInv'
    BY <1>4 DEF LoopStop, LoopInv, LoopTypeOK, LifeInv, clearTimers
  <2>3. NeverDeaf'
    BY <1>4 DEF LoopStop, LoopInv, NeverDeaf
  <2> QED
    BY <2>1, <2>2, <2>3 DEF LoopInv
<1>5. CASE WatcherStopped
  <2>1. LoopTypeOK' /\ LifeInv' /\ NeverDeaf'
    BY <1>5 DEF WatcherStopped, LoopInv, LoopTypeOK, LifeInv, NeverDeaf, chainVars, timerVars,
                Polls, Watches
  <2> QED
    BY <2>1 DEF LoopInv
<1>6. CASE LoopStopped
  <2>1. LoopTypeOK' /\ LifeInv' /\ NeverDeaf'
    BY <1>6 DEF LoopStopped, LoopInv, LoopTypeOK, LifeInv, NeverDeaf, chainVars, timerVars,
                Polls, Watches
  <2> QED
    BY <2>1 DEF LoopInv
<1> QED
  BY <1>1, <1>2, <1>3, <1>4, <1>5, <1>6

\* A demand, or a timer that fires.
LEMMA TriggerKeeps ==
    ASSUME LoopInv, NEW source \in Sources, trigger(source)
    PROVE  LoopInv'
<1>1. debounceSource' \in Sources \cup {"none"}
  BY PickedIsASource DEF trigger, LoopInv, LoopTypeOK
<1>2. LoopTypeOK'
  BY <1>1 DEF trigger, LoopInv, LoopTypeOK, chainVars, lifeVars
<1>3. LifeInv' /\ NeverDeaf'
  BY DEF trigger, LoopInv, LifeInv, NeverDeaf, chainVars, lifeVars, Hears, Polls, Watches
<1> QED
  BY <1>2, <1>3 DEF LoopInv

LEMMA FiringKeeps ==
    ASSUME LoopInv, PollingFires \/ SafetyFires \/ DebounceFires
    PROVE  LoopInv'
<1>1. PICK source \in Sources : runOnce(source)
  BY DEF PollingFires, SafetyFires, DebounceFires, LoopInv, LoopTypeOK, Sources
<1>2. /\ inFlight' \in Sources /\ inFlight' # "none" /\ turn' \in BOOLEAN
      /\ followUpSource' \in Sources \cup {"none"}
  BY <1>1, RanOnce, NoneIsNoSource DEF LoopInv, LoopTypeOK
<1>3. running /\ projectRoot /\ stopping = "no" /\ starting # "no" /\ UNCHANGED lifeVars
  BY DEF PollingFires, SafetyFires, DebounceFires, Hears, LoopInv, LifeInv
<1>4. LoopTypeOK'
  BY <1>2, <1>3 DEF PollingFires, SafetyFires, DebounceFires, LoopInv, LoopTypeOK, lifeVars
<1>5. LifeInv'
  BY <1>3 DEF LoopInv, LifeInv, lifeVars
<1>6. NeverDeaf'
  BY <1>2, <1>3 DEF PollingFires, SafetyFires, DebounceFires, LoopInv, NeverDeaf, lifeVars,
                    Polls, Watches
<1> QED
  BY <1>4, <1>5, <1>6 DEF LoopInv

\* A tick ends: whoever awaited the chain arms its timer again.
LEMMA ChainKeeps ==
    ASSUME LoopInv, ChainGoesOn \/ ChainBreaks
    PROVE  LoopInv'
<1>1. CASE ChainGoesOn
  <2>1. LoopTypeOK'
    BY <1>1 DEF ChainGoesOn, schedulePollingAndSafety, LoopInv, LoopTypeOK, lifeVars, Hears
  <2>2. LifeInv'
    BY <1>1 DEF ChainGoesOn, schedulePollingAndSafety, LoopInv, LoopTypeOK, LifeInv, lifeVars, Hears
  <2>3. NeverDeaf'
    BY <1>1 DEF ChainGoesOn, schedulePollingAndSafety, LoopInv, LifeInv, NeverDeaf, lifeVars,
                Hears, Polls, Watches
  <2> QED
    BY <2>1, <2>2, <2>3 DEF LoopInv
<1>2. CASE ChainBreaks
  <2>1. LoopTypeOK'
    BY <1>2 DEF ChainBreaks, stopFails, schedulePollingAndSafety, LoopInv, LoopTypeOK, Hears
  <2>2. LifeInv'
    BY <1>2 DEF ChainBreaks, stopFails, schedulePollingAndSafety, LoopInv, LoopTypeOK, LifeInv, Hears
  <2>3. NeverDeaf'
    BY <1>2 DEF ChainBreaks, schedulePollingAndSafety, LoopInv, LifeInv, NeverDeaf, Hears, Polls,
                Watches
  <2> QED
    BY <2>1, <2>2, <2>3 DEF LoopInv
<1> QED
  BY <1>1, <1>2

LEMMA LoopUnchanged ==
    ASSUME LoopInv, UNCHANGED loopVars
    PROVE  LoopInv'
<1>1. LoopTypeOK' /\ LifeInv' /\ NeverDeaf'
  BY DEF LoopInv, LoopTypeOK, LifeInv, NeverDeaf, Polls, Watches, loopVars, timerVars, chainVars,
         lifeVars
<1> QED
  BY <1>1 DEF LoopInv

----------------------------------------------------------------------------
\* The steps of the service.

LEMMA RunningKept ==
    ASSUME UNCHANGED loopVars \/ UNCHANGED lifeVars
    PROVE  running' = running
BY DEF loopVars, lifeVars

\* While the watcher is neither started nor stopped, what it hears is in due.
LEMMA WatcherKeeps ==
    ASSUME WatcherInv, running' = running,
           Watcher!Silence \/ Watcher!Report \/ \E heard \in SUBSET WatchedFile : Watcher!Hear(heard)
    PROVE  WatcherInv'
BY DEF WatcherInv, Watcher!Silence, Watcher!Report, Watcher!Hear

LEMMA InitKeeps == Init => IInv
<1> SUFFICES ASSUME Init PROVE IInv
  OBVIOUS
<1>1. LoopInv
  BY DEF Init, LoopInit, LoopInv, LoopTypeOK, LifeInv, NeverDeaf
<1>2. WatcherInv
  BY DEF Init, Watcher!Init, WatcherInv
<1> QED
  BY <1>1, <1>2 DEF IInv

LEMMA LifeStepKeeps ==
    ASSUME IInv, Life \/ ServiceStop
    PROVE  IInv'
<1> USE DEF IInv
<1>1. CASE WarmUp
  BY <1>1, LoopUnchanged, RunningKept, WatcherKeeps DEF WarmUp
<1>2. CASE ServiceStart
  <2>1. LoopInv'
    BY <1>2, LifeKeeps DEF ServiceStart
  <2>2. WatcherInv'
    BY <1>2 DEF ServiceStart, LoopStart, WatcherInv, Watcher!SwitchOn, Watcher!Silence
  <2> QED
    BY <2>1, <2>2
<1>3. CASE WatcherComesUp
  <2>1. LoopInv'
    BY <1>3, LifeKeeps DEF WatcherComesUp
  <2>2. WatcherInv'
    BY <1>3, WatcherKeeps DEF WatcherComesUp, WatcherStarted
  <2> QED
    BY <2>1, <2>2
<1>4. CASE WatcherGivesUp
  <2>1. LoopInv'
    BY <1>4, LifeKeeps DEF WatcherGivesUp
  <2>2. WatcherInv'
    BY <1>4 DEF WatcherGivesUp, WatcherInv, Watcher!SwitchOff, Watcher!Silence
  <2> QED
    BY <2>1, <2>2
<1>5. CASE StopGoesOn
  <2>1. LoopInv'
    BY <1>5, LifeKeeps DEF StopGoesOn
  <2>2. running' = running
    BY <1>5 DEF StopGoesOn, WatcherStopped, LoopStopped
  <2>3. WatcherInv'
    BY <1>5, <2>2, WatcherKeeps DEF StopGoesOn
  <2> QED
    BY <2>1, <2>3
<1>6. CASE ServiceStop
  <2>1. LoopInv'
    BY <1>6, LifeKeeps DEF ServiceStop
  <2>2. WatcherInv'
    BY <1>6 DEF ServiceStop, WatcherInv, Watcher!SwitchOff, Watcher!Silence
  <2> QED
    BY <2>1, <2>2
<1> QED
  BY <1>1, <1>2, <1>3, <1>4, <1>5, <1>6 DEF Life

LEMMA WatcherStepKeeps ==
    ASSUME IInv,
           (\E f \in WatchedFile : WatcherHears(f)) \/ WatcherReplays \/ WatcherReports \/ WatcherErrs
    PROVE  IInv'
<1> USE DEF IInv
<1>1. ASSUME NEW f \in WatchedFile, WatcherHears(f) PROVE IInv'
  <2>1. UNCHANGED loopVars /\ Watcher!Hear({f}) /\ {f} \in SUBSET WatchedFile
    BY <1>1 DEF WatcherHears
  <2> QED
    BY <2>1, LoopUnchanged, RunningKept, WatcherKeeps
<1>2. CASE WatcherReplays
  <2>1. /\ UNCHANGED loopVars
        /\ \E heard \in SUBSET WatchedFile : Watcher!Hear(heard)
    BY <1>2 DEF WatcherReplays
  <2> QED
    BY <2>1, LoopUnchanged, RunningKept, WatcherKeeps
<1>3. CASE WatcherReports
  <2>1. trigger("watcher") /\ Watcher!Report
    BY <1>3 DEF WatcherReports
  <2>2. LoopInv' /\ running' = running
    BY <2>1, TriggerKeeps DEF Sources, trigger, lifeVars
  <2> QED
    BY <2>1, <2>2, WatcherKeeps
<1>4. CASE WatcherErrs
  <2>1. trigger("safety") /\ Watcher!Silence
    BY <1>4 DEF WatcherErrs
  <2>2. LoopInv' /\ running' = running
    BY <2>1, TriggerKeeps DEF Sources, trigger, lifeVars
  <2> QED
    BY <2>1, <2>2, WatcherKeeps
<1> QED
  BY <1>1, <1>2, <1>3, <1>4

LEMMA TimerStepKeeps ==
    ASSUME IInv, TimerFires
    PROVE  IInv'
<1>1. LoopInv'
  BY FiringKeeps DEF TimerFires, IInv
<1>2. running' = running
  BY DEF TimerFires, PollingFires, SafetyFires, DebounceFires, lifeVars
<1>3. WatcherInv'
  BY <1>2, WatcherKeeps DEF TimerFires, IInv
<1> QED
  BY <1>1, <1>3 DEF IInv

LEMMA ChainStepKeeps ==
    ASSUME IInv, TickEnds \/ TickYields \/ TickFails
    PROVE  IInv'
<1>1. (ChainGoesOn \/ ChainBreaks) /\ Watcher!Silence
  BY DEF TickEnds, TickYields, TickFails, AfterTick
<1>2. LoopInv' /\ running' = running
  BY <1>1, ChainKeeps DEF IInv, ChainGoesOn, ChainBreaks, lifeVars
<1> QED
  BY <1>1, <1>2, WatcherKeeps DEF IInv

\* What is left reads and writes files, and leaves the loop and the watcher alone.
LEMMA FileStepKeeps ==
    ASSUME IInv,
           \/ CacheReads \/ CacheOperationEnds \/ LoadCalled \/ LoadReturns \/ SaveWritten
           \/ SaveNoted \/ SaveReturns \/ OutsideWrite
    PROVE  IInv'
<1>1. UNCHANGED loopVars /\ Watcher!Silence
  BY DEF CacheReads, CacheOperationEnds, LoadCalled, LoadReturns, SaveWritten, SaveNoted,
         SaveReturns, OutsideWrite
<1> QED
  BY <1>1, LoopUnchanged, RunningKept, WatcherKeeps DEF IInv

LEMMA NextKeeps == IInv /\ [Next]_vars => IInv'
<1> SUFFICES ASSUME IInv, [Next]_vars PROVE IInv'
  OBVIOUS
<1>1. CASE UNCHANGED vars
  <2>1. UNCHANGED loopVars /\ UNCHANGED <<watcherOn, due>>
    BY <1>1 DEF vars, watcherVars
  <2> QED
    BY <2>1, LoopUnchanged, RunningKept DEF IInv, WatcherInv
<1> QED
  BY <1>1, LifeStepKeeps, WatcherStepKeeps, TimerStepKeeps, ChainStepKeeps, FileStepKeeps
     DEF Next, Cache, TickStep

LEMMA IInvHolds == Spec => []IInv
BY InitKeeps, NextKeeps, PTL DEF Spec

----------------------------------------------------------------------------
\* The theorems.

(* The loop never goes deaf: while it runs, each of its interval timers is  *)
(* armed or belongs to a run that will arm it again, whatever fails.        *)
THEOREM ServiceNeverDeaf == Spec => []NeverDeaf
<1>1. IInv => NeverDeaf
  BY DEF IInv, LoopInv
<1> QED
  BY <1>1, IInvHolds, PTL

(* When the loop's stop() has returned, or was rejected, nothing can begin  *)
(* a tick any more, even if the loop's start() was still waiting for the    *)
(* watcher when stop() was called.                                          *)
THEOREM ServiceStoppedIsQuiet == Spec => []StoppedIsQuiet
<1>1. IInv => StoppedIsQuiet
  BY DEF IInv, LoopInv, LifeInv, WatcherInv, StoppedIsQuiet
<1> QED
  BY <1>1, IInvHolds, PTL

----------------------------------------------------------------------------
\* The refinement of TickDemand.

Asked == Hears /\ (debounceSource # "none" \/ followUpSource # "none")

\* A step of the loop that asks for nothing and answers nothing.
LEMMA LoopImplements ==
    ASSUME LoopInv,
           LoopStart \/ WatcherStarted \/ WatcherStartFails \/ LoopStop \/ WatcherStopped \/ LoopStopped
    PROVE  Demand!Next \/ UNCHANGED Demand!vars
<1> USE DEF LoopInv, LoopTypeOK, LifeInv, Hears, chainVars, timerVars, clearTimers, Demand!vars,
            Demand!Next
<1>1. CASE LoopStart
  BY <1>1 DEF LoopStart, Demand!Open
<1>2. CASE WatcherStarted
  BY <1>2 DEF WatcherStarted
<1>3. CASE WatcherStartFails
  BY <1>3 DEF WatcherStartFails, Demand!Close
<1>4. CASE LoopStop
  BY <1>4 DEF LoopStop, Demand!Close
<1>5. CASE WatcherStopped \/ LoopStopped
  BY <1>5 DEF WatcherStopped, LoopStopped
<1> QED
  BY <1>1, <1>2, <1>3, <1>4, <1>5

LEMMA TriggerImplements ==
    ASSUME LoopInv, NEW source \in Sources, trigger(source)
    PROVE  Demand!Next \/ UNCHANGED Demand!vars
<1>1. CASE Hears
  <2>1. debounceSource' # "none"
    BY <1>1, PickedIsASource, NoneIsNoSource DEF trigger, LoopInv, LoopTypeOK
  <2>2. Hears' /\ turn' = turn
    BY <1>1 DEF trigger, Hears, chainVars, lifeVars
  <2> QED
    BY <1>1, <2>1, <2>2 DEF Hears, Demand!Ask, Demand!Next
<1>2. CASE ~Hears
  BY <1>2 DEF trigger, Hears, chainVars, lifeVars, Demand!vars
<1> QED
  BY <1>1, <1>2

LEMMA FiringImplements ==
    ASSUME LoopInv, PollingFires \/ SafetyFires \/ DebounceFires
    PROVE  Demand!Next
<1>1. PICK source \in Sources : runOnce(source)
  BY DEF PollingFires, SafetyFires, DebounceFires, LoopInv, LoopTypeOK, Sources
<1>2. Hears /\ Hears' /\ debounceSource' \in {"none", debounceSource}
  BY DEF PollingFires, SafetyFires, DebounceFires, Hears, lifeVars
<1>3. CASE turn' = ~turn /\ followUpSource' = followUpSource
  BY <1>2, <1>3 DEF Hears, Demand!Begin, Demand!Next
<1>4. CASE turn' = turn /\ followUpSource' \in Sources
  BY <1>2, <1>4, NoneIsNoSource DEF Hears, Demand!Ask, Demand!Next
<1> QED
  BY <1>1, <1>3, <1>4, RanOnce DEF LoopInv

LEMMA ChainImplements ==
    ASSUME LoopInv, ChainGoesOn \/ ChainBreaks
    PROVE  Demand!Next \/ UNCHANGED Demand!vars
<1> USE DEF LoopInv, LoopTypeOK, LifeInv, Hears, lifeVars, Demand!vars, Demand!Next
<1>1. CASE ChainGoesOn
  BY <1>1 DEF ChainGoesOn, Demand!Begin
<1>2. CASE ChainBreaks
  BY <1>2 DEF ChainBreaks, stopFails
<1> QED
  BY <1>1, <1>2

LEMMA NextImplements == IInv /\ [Next]_vars => [Demand!Next]_(Demand!vars)
<1> SUFFICES ASSUME IInv, [Next]_vars PROVE Demand!Next \/ UNCHANGED Demand!vars
  OBVIOUS
<1>1. CASE UNCHANGED loopVars
  BY <1>1 DEF loopVars, timerVars, chainVars, lifeVars, Hears, Demand!vars
<1>2. CASE LoopStart \/ WatcherStarted \/ WatcherStartFails \/ LoopStop \/ WatcherStopped \/ LoopStopped
  BY <1>2, LoopImplements DEF IInv
<1>3. CASE trigger("watcher") \/ trigger("safety")
  BY <1>3, TriggerImplements DEF IInv, Sources
<1>4. CASE PollingFires \/ SafetyFires \/ DebounceFires
  BY <1>4, FiringImplements DEF IInv
<1>5. CASE ChainGoesOn \/ ChainBreaks
  BY <1>5, ChainImplements DEF IInv
<1> QED
  BY <1>1, <1>2, <1>3, <1>4, <1>5
     DEF Next, Life, WarmUp, ServiceStart, WatcherComesUp, WatcherGivesUp, StopGoesOn, ServiceStop,
         WatcherHears, WatcherReplays, WatcherReports, WatcherErrs, Cache, CacheReads,
         CacheOperationEnds, TimerFires, TickStep, LoadCalled, LoadReturns, SaveNoted, SaveReturns,
         SaveWritten, TickEnds, TickYields, TickFails, OutsideWrite, vars

(* Every behaviour of the service is one that TickDemand allows, as far as  *)
(* safety goes: while the loop is open a demand is forgotten by no step but *)
(* the beginning of a tick.                                                 *)
THEOREM NoDemandIsForgotten == Spec => Demand!Init /\ [][Demand!Next]_(Demand!vars)
<1>1. Init => Demand!Init
  BY DEF Init, LoopInit, Hears, Demand!Init
<1> QED
  BY <1>1, IInvHolds, NextImplements, PTL DEF Spec

----------------------------------------------------------------------------
\* The queue: what joins it and what leaves it.

LEMMA AnyFile == (CHOOSE f \in File : TRUE) \in File
BY CacheAssumption

\* r is q with refreshes behind it, one at least of each of these files.
Queued(q, r, files) ==
    /\ r \in Seq(Operation) /\ Len(q) <= Len(r)
    /\ \A i \in 1 .. Len(q) : r[i] = q[i]
    /\ \A i \in Len(q) + 1 .. Len(r) : r[i].op = "refresh"
    /\ \A f \in files : \E i \in Len(q) + 1 .. Len(r) : r[i].file = f

\* An order of the changed files leaves none of them out.
LEMMA OrderIsComplete ==
    ASSUME NEW files \in SUBSET File, NEW order \in SetToSeqs(files)
    PROVE  /\ order \in Seq(files)
           /\ \A f \in files : \E i \in 1 .. Len(order) : order[i] = f
<1> DEFINE n == Cardinality(files)
<1>1. IsFiniteSet(files) /\ n \in Nat
  BY CacheAssumption, FS_Subset, FS_CardinalityType
<1>2. order \in [1 .. n -> files] /\ \A i, j \in 1 .. n : i # j => order[i] # order[j]
  BY DEF SetToSeqs
<1>3. IsFiniteSet(1 .. n) /\ Cardinality(1 .. n) = n
  BY <1>1, FS_Interval
<1>4. order \in Injection(1 .. n, files)
  BY <1>2 DEF Injection, IsInjective
<1>5. order \in Surjection(1 .. n, files)
  BY <1>1, <1>3, <1>4, FS_Injection
<1>6. order \in Seq(files) /\ Len(order) = n
  BY <1>1, <1>2
<1> HIDE DEF n
<1> QED
  BY <1>5, <1>6 DEF Surjection

LEMMA ChangesAreQueued ==
    ASSUME NEW files \in SUBSET File, queue \in Seq(Operation), applyChanges(files)
    PROVE  Queued(queue, queue', files)
<1>1. PICK order \in SetToSeqs(files) :
        queue' = queue \o [i \in 1 .. Len(order) |-> [op |-> "refresh", file |-> order[i]]]
  BY DEF applyChanges
<1>2. /\ order \in Seq(files) /\ Len(order) \in Nat
      /\ \A f \in files : \E i \in 1 .. Len(order) : order[i] = f
  BY <1>1, OrderIsComplete
<1> DEFINE more == [i \in 1 .. Len(order) |-> [op |-> "refresh", file |-> order[i]]]
<1>3. \A i \in 1 .. Len(order) :
        more[i] \in Operation /\ more[i].op = "refresh" /\ more[i].file = order[i]
  <2>1. \A i \in 1 .. Len(order) : order[i] \in File
    BY <1>2
  <2> QED
    BY <2>1 DEF Operation
<1>4. more \in Seq(Operation) /\ Len(more) = Len(order)
  BY <1>2, <1>3
<1> HIDE DEF more
<1>5. /\ queue' = queue \o more /\ queue' \in Seq(Operation)
      /\ Len(queue) \in Nat /\ Len(queue') = Len(queue) + Len(order)
  BY <1>1, <1>2, <1>4 DEF more
<1>6. \A i \in 1 .. Len(queue) : queue'[i] = queue[i]
  BY <1>2, <1>4, <1>5
<1>7. \A i \in 1 .. Len(order) : queue'[Len(queue) + i] = more[i]
  BY <1>2, <1>4, <1>5
<1>8. ASSUME NEW i \in Len(queue) + 1 .. Len(queue')
      PROVE  queue'[i].op = "refresh"
  <2>1. i - Len(queue) \in 1 .. Len(order) /\ i = Len(queue) + (i - Len(queue))
    BY <1>2, <1>5
  <2>2. queue'[i] = more[i - Len(queue)]
    BY <1>7, <2>1
  <2> QED
    BY <1>3, <2>1, <2>2, Zenon
<1>9. ASSUME NEW f \in files
      PROVE  \E i \in Len(queue) + 1 .. Len(queue') : queue'[i].file = f
  <2>1. PICK i \in 1 .. Len(order) : order[i] = f
    BY <1>2
  <2>2. queue'[Len(queue) + i].file = f
    BY <1>3, <1>7, <2>1, Zenon
  <2>3. Len(queue) + i \in Len(queue) + 1 .. Len(queue')
    BY <1>2, <1>5
  <2> QED
    BY <2>2, <2>3
<1>10. Len(queue) <= Len(queue')
  BY <1>2, <1>5
<1> QED
  BY <1>5, <1>6, <1>8, <1>9, <1>10, Zenon DEF Queued

\* What the head leaves behind.
LEMMA TailOfQueue ==
    ASSUME NEW q \in Seq(Operation), q # <<>>
    PROVE  /\ Tail(q) \in Seq(Operation) /\ Len(q) \in Nat \ {0} /\ Len(Tail(q)) = Len(q) - 1
           /\ \A i \in 1 .. Len(q) - 1 : Tail(q)[i] = q[i + 1]
           /\ Head(q) = q[1] /\ q[1] \in Operation
OBVIOUS

LEMMA OperationIs ==
    ASSUME NEW o \in Operation
    PROVE  /\ o.op \in {"refresh", "note"} /\ o.file \in File
           /\ o.op = "note" => o.version \in 0 .. MaxWrites
BY DEF Operation

----------------------------------------------------------------------------
\* Types.

WatcherTypeOK ==
    /\ watcherOn \in BOOLEAN /\ live \in BOOLEAN
    /\ raw \subseteq WatchedFile /\ due \subseteq WatchedFile /\ reported \subseteq WatchedFile

TickTypeOK ==
    /\ tick \in {"off", "work", "loading", "written", "noting"}
    /\ (tick = "off") = (inFlight = "none")
    /\ target \in File /\ unread \subseteq File /\ ahead \in Nat
    /\ owed \in 0 .. MaxWrites

HistoryTypeOK ==
    /\ current \subseteq File /\ promised \in [File -> 0 .. MaxWrites] /\ faults \in 0 .. MaxFaults

LEMMA TypesAre ==
    TypeOK <=> LoopTypeOK /\ CacheTypeOK /\ WatcherTypeOK /\ TickTypeOK /\ HistoryTypeOK
BY DEF TypeOK, WatcherTypeOK, TickTypeOK, HistoryTypeOK

LEMMA TypesMake ==
    ASSUME LoopTypeOK', CacheTypeOK', WatcherTypeOK', TickTypeOK', HistoryTypeOK'
    PROVE  TypeOK'
BY DEF TypeOK, WatcherTypeOK, TickTypeOK, HistoryTypeOK

\* Watcher!Hear and its kin are about what is due and what is reported.
WatcherStep ==
    \/ Watcher!SwitchOn \/ Watcher!SwitchOff \/ Watcher!Silence \/ Watcher!Report
    \/ \E heard \in SUBSET WatchedFile : Watcher!Hear(heard)

LEMMA WatcherTypesKept ==
    ASSUME WatcherTypeOK, WatcherStep, live' \in BOOLEAN, raw' \subseteq WatchedFile
    PROVE  WatcherTypeOK'
<1>1. watcherOn' \in BOOLEAN /\ due' \subseteq WatchedFile /\ reported' \subseteq WatchedFile
  BY DEF WatcherTypeOK, WatcherStep, Watcher!SwitchOn, Watcher!SwitchOff, Watcher!Silence,
         Watcher!Report, Watcher!Hear
<1> QED
  BY <1>1 DEF WatcherTypeOK

LEMMA NoticedIsWatched ==
    ASSUME WatcherTypeOK, NEW f \in WatchedFile, Noticed(f)
    PROVE  raw' \subseteq WatchedFile
BY DEF WatcherTypeOK, Noticed

LEMMA CacheTypesUnchanged ==
    ASSUME CacheTypeOK, UNCHANGED <<fileVars, cacheVars, stale>>
    PROVE  CacheTypeOK'
BY DEF CacheTypeOK, fileVars, cacheVars

LEMMA TickTypesUnchanged ==
    ASSUME TickTypeOK, UNCHANGED tickVars, inFlight' = inFlight
    PROVE  TickTypeOK'
BY DEF TickTypeOK, tickVars

LEMMA HistoryTypesUnchanged ==
    ASSUME HistoryTypeOK, UNCHANGED historyVars
    PROVE  HistoryTypeOK'
BY DEF HistoryTypeOK, historyVars

LEMMA FaultyTypes ==
    ASSUME HistoryTypeOK, Faulty
    PROVE  faults' \in 0 .. MaxFaults
BY ServiceAssumption DEF HistoryTypeOK, Faulty

LEMMA InitTypes == Init => TypeOK
<1> SUFFICES ASSUME Init PROVE TypeOK
  OBVIOUS
<1>1. LoopTypeOK
  BY DEF Init, LoopInit, LoopTypeOK
<1>2. CacheTypeOK
  BY CacheAssumption DEF Init, CacheInit, CacheTypeOK, Unread
<1>3. WatcherTypeOK
  BY DEF Init, Watcher!Init, WatcherTypeOK
<1>4. TickTypeOK
  BY AnyFile, CacheAssumption DEF Init, LoopInit, TickTypeOK
<1>5. HistoryTypeOK
  BY CacheAssumption, ServiceAssumption DEF Init, HistoryTypeOK
<1> QED
  BY <1>1, <1>2, <1>3, <1>4, <1>5, TypesAre

\* The files and the cache: an operation of the queue, a write, a save.
LEMMA OperationTypes ==
    ASSUME CacheTypeOK, RefreshRead \/ RefreshStored \/ RefreshFails \/ NoteApplied,
           UNCHANGED fileVars, RefreshRead => UNCHANGED stale
    PROVE  CacheTypeOK'
<1> DEFINE head == queue[1]
<1>1. /\ queue # <<>> /\ queue \in Seq(Operation)
      /\ Head(queue) = head /\ head \in Operation /\ Tail(queue) \in Seq(Operation)
  BY TailOfQueue DEF CacheTypeOK, RefreshRead, RefreshStored, RefreshFails, NoteApplied
<1>2. head.file \in File /\ (head.op = "note" => head.version \in 0 .. MaxWrites)
  BY <1>1, OperationIs
<1>3. disk[head.file] \in 0 .. MaxWrites /\ MaxWrites \in Nat /\ Unread = MaxWrites + 1
  BY <1>2, CacheAssumption DEF CacheTypeOK, Unread
<1>4. UNCHANGED <<disk, writes>> /\ disk \in [File -> 0 .. MaxWrites] /\ writes \in 0 .. MaxWrites
  BY DEF fileVars, CacheTypeOK
<1> HIDE DEF head
<1>5. CASE RefreshRead
  BY <1>1, <1>3, <1>4, <1>5 DEF RefreshRead, CacheTypeOK
<1>6. CASE RefreshStored
  BY <1>1, <1>2, <1>3, <1>4, <1>6 DEF RefreshStored, CacheTypeOK
<1>7. CASE RefreshFails
  BY <1>1, <1>2, <1>4, <1>7 DEF RefreshFails, CacheTypeOK
<1>8. CASE NoteApplied
  BY <1>1, <1>2, <1>3, <1>4, <1>8 DEF NoteApplied, CacheTypeOK
<1> QED
  BY <1>5, <1>6, <1>7, <1>8

LEMMA WriteTypes ==
    ASSUME CacheTypeOK, NEW f \in File, writeJsonFileAtomic(f), UNCHANGED cacheVars,
           stale' \subseteq File
    PROVE  /\ CacheTypeOK' /\ writes' = writes + 1 /\ writes' \in 0 .. MaxWrites
           /\ disk' = [disk EXCEPT ![f] = writes']
BY CacheAssumption DEF CacheTypeOK, writeJsonFileAtomic, cacheVars

LEMMA WarmTypes ==
    ASSUME CacheTypeOK, NEW f \in File, WarmRead(f) \/ CacheStarted, UNCHANGED <<fileVars, stale>>
    PROVE  CacheTypeOK'
<1>1. disk[f] \in 0 .. Unread /\ Unread \in 0 .. Unread
  BY CacheAssumption DEF CacheTypeOK, Unread
<1> QED
  BY <1>1 DEF CacheTypeOK, WarmRead, CacheStarted, fileVars

\* The steps of the service's life, and the callbacks of the watcher.
LEMMA LifeStepTypes ==
    ASSUME TypeOK, LoopTypeOK', Life \/ ServiceStop
    PROVE  TypeOK'
<1> USE TypesAre, TypesMake
<1>1. UNCHANGED historyVars /\ UNCHANGED tickVars /\ inFlight' = inFlight
  BY DEF Life, ServiceStop, WarmUp, ServiceStart, WatcherComesUp, WatcherGivesUp, StopGoesOn,
         LoopStart, WatcherStarted, WatcherStartFails, LoopStop, WatcherStopped, LoopStopped,
         loopVars, chainVars
<1>2. TickTypeOK' /\ HistoryTypeOK'
  BY <1>1, TickTypesUnchanged, HistoryTypesUnchanged
<1>3. WatcherStep
  BY DEF Life, ServiceStop, WarmUp, ServiceStart, WatcherComesUp, WatcherGivesUp, StopGoesOn, WatcherStep
<1>4. live' \in BOOLEAN /\ raw' \subseteq WatchedFile
  BY DEF Life, ServiceStop, WarmUp, ServiceStart, WatcherComesUp, WatcherGivesUp, StopGoesOn, WatcherTypeOK
<1>5. WatcherTypeOK'
  BY <1>3, <1>4, WatcherTypesKept
<1>6. CacheTypeOK'
  <2>1. CASE WarmUp
    BY <2>1, WarmTypes, AnyFile DEF WarmUp
  <2>2. CASE ~WarmUp
    <3>1. UNCHANGED <<fileVars, cacheVars, stale>>
      BY <2>2 DEF Life, ServiceStop, ServiceStart, WatcherComesUp, WatcherGivesUp, StopGoesOn
    <3> QED
      BY <3>1, CacheTypesUnchanged
  <2> QED
    BY <2>1, <2>2
<1> QED
  BY <1>2, <1>5, <1>6

LEMMA WatcherStepTypes ==
    ASSUME TypeOK, LoopTypeOK',
           (\E f \in WatchedFile : WatcherHears(f)) \/ WatcherReplays \/ WatcherReports \/ WatcherErrs
    PROVE  TypeOK'
<1> USE TypesAre, TypesMake
<1>1. UNCHANGED tickVars /\ inFlight' = inFlight
  BY DEF WatcherHears, WatcherReplays, WatcherReports, WatcherErrs, trigger, loopVars, chainVars
<1>2. TickTypeOK'
  BY <1>1, TickTypesUnchanged
<1>3. WatcherStep
  <2>1. ASSUME NEW f \in WatchedFile, WatcherHears(f) PROVE WatcherStep
    BY <2>1 DEF WatcherHears, WatcherStep
  <2> QED
    BY <2>1 DEF WatcherReplays, WatcherReports, WatcherErrs, WatcherStep
<1>4. live' \in BOOLEAN /\ raw' \subseteq WatchedFile
  BY DEF WatcherHears, WatcherReplays, WatcherReports, WatcherErrs, WatcherTypeOK
<1>5. WatcherTypeOK'
  BY <1>3, <1>4, WatcherTypesKept
<1>6. CASE WatcherReports
  <2>1. due \cap File \in SUBSET File /\ applyChanges(due \cap File) /\ queue \in Seq(Operation)
    BY <1>6 DEF WatcherReports, CacheTypeOK
  <2>2. queue' \in Seq(Operation)
    BY <2>1, ChangesAreQueued DEF Queued
  <2>3. CacheTypeOK'
    <3>1. stale' \subseteq File
      BY <1>6 DEF WatcherReports, CacheTypeOK
    <3> QED
      BY <1>6, <2>2, <3>1 DEF WatcherReports, CacheTypeOK, fileVars
  <2>4. HistoryTypeOK'
    BY <1>6 DEF WatcherReports, HistoryTypeOK, CacheTypeOK
  <2> QED
    BY <1>2, <1>5, <2>3, <2>4
<1>7. CASE ~WatcherReports
  <2>1. UNCHANGED <<fileVars, cacheVars, stale>>
    BY <1>7 DEF WatcherHears, WatcherReplays, WatcherErrs
  <2>2. HistoryTypeOK'
    <3>1. CASE WatcherErrs
      BY <3>1, FaultyTypes DEF WatcherErrs, HistoryTypeOK
    <3>2. CASE ~WatcherErrs
      <4>1. UNCHANGED historyVars
        BY <1>7, <3>2 DEF WatcherHears, WatcherReplays
      <4> QED
        BY <4>1, HistoryTypesUnchanged
    <3> QED
      BY <3>1, <3>2
  <2> QED
    BY <1>2, <1>5, <2>1, <2>2, CacheTypesUnchanged
<1> QED
  BY <1>6, <1>7

LEMMA CacheStepTypes ==
    ASSUME TypeOK, LoopTypeOK', Cache
    PROVE  TypeOK'
<1> USE TypesAre, TypesMake
<1>1. WatcherStep /\ live' = live /\ raw' = raw /\ inFlight' = inFlight /\ UNCHANGED fileVars
  BY DEF Cache, CacheReads, CacheOperationEnds, WatcherStep, loopVars, chainVars
<1>2. WatcherTypeOK'
  BY <1>1, WatcherTypesKept DEF WatcherTypeOK
<1>3. CacheTypeOK'
  <2>1. RefreshRead \/ RefreshStored \/ RefreshFails \/ NoteApplied
    BY DEF Cache, CacheReads, CacheOperationEnds
  <2>2. CASE CacheReads
    BY <1>1, <2>2, OperationTypes DEF CacheReads
  <2>3. CASE CacheOperationEnds
    <3>1. RefreshStored \/ RefreshFails \/ NoteApplied
      BY <2>3 DEF CacheOperationEnds
    <3>2. ~RefreshRead
      BY <3>1, TailOfQueue DEF RefreshStored, RefreshFails, NoteApplied, RefreshRead, CacheTypeOK
    <3> QED
      BY <1>1, <3>1, <3>2, OperationTypes
  <2> QED
    BY <2>2, <2>3 DEF Cache
<1>4. TickTypeOK'
  <2>1. /\ UNCHANGED <<tick, target, unread>> /\ owed' \in {owed, 0}
        /\ ahead' \in {ahead, IF ahead > 0 THEN ahead - 1 ELSE 0}
    BY DEF Cache, CacheReads, CacheOperationEnds, tickVars
  <2>2. ahead' \in Nat /\ owed' \in 0 .. MaxWrites
    BY <2>1, CacheAssumption DEF TickTypeOK
  <2> QED
    BY <1>1, <2>1, <2>2 DEF TickTypeOK
<1>5. HistoryTypeOK'
  <2>1. UNCHANGED <<current, promised>> /\ (faults' = faults \/ Faulty)
    BY DEF Cache, CacheReads, CacheOperationEnds, historyVars
  <2>2. faults' \in 0 .. MaxFaults
    BY <2>1, FaultyTypes DEF HistoryTypeOK
  <2> QED
    BY <2>1, <2>2 DEF HistoryTypeOK
<1> QED
  BY <1>2, <1>3, <1>4, <1>5

\* The steps of the loop's timers and of the tick.
LEMMA TimerStepTypes ==
    ASSUME TypeOK, LoopTypeOK', TimerFires
    PROVE  TypeOK'
<1> USE TypesAre, TypesMake
<1>1. /\ WatcherStep /\ live' = live /\ raw' = raw
      /\ UNCHANGED <<fileVars, cacheVars, stale>> /\ UNCHANGED historyVars
  BY DEF TimerFires, WatcherStep
<1>2. WatcherTypeOK' /\ CacheTypeOK' /\ HistoryTypeOK'
  BY <1>1, WatcherTypesKept, CacheTypesUnchanged, HistoryTypesUnchanged DEF WatcherTypeOK
<1>3. PICK source \in Sources : runOnce(source)
  BY DEF TimerFires, PollingFires, SafetyFires, DebounceFires, LoopTypeOK, Sources
<1>4. inFlight' # "none" /\ (turn' # turn \/ inFlight # "none")
  BY <1>3, RanOnce, NoneIsNoSource
<1>5. TickTypeOK'
  <2>1. CASE turn' # turn
    BY <1>4, <2>1 DEF TimerFires, TickBegins, TickTypeOK
  <2>2. CASE turn' = turn
    BY <1>4, <2>2 DEF TimerFires, TickBegins, TickTypeOK, tickVars
  <2> QED
    BY <2>1, <2>2
<1> QED
  BY <1>2, <1>5

\* A load, or a save up to its note: the chain goes on.
LEMMA LoadStepTypes ==
    ASSUME TypeOK, LoopTypeOK', LoadCalled \/ LoadReturns \/ SaveNoted \/ SaveReturns
    PROVE  TypeOK'
<1> USE TypesAre, TypesMake
<1>1. WatcherStep /\ live' = live /\ inFlight' = inFlight /\ UNCHANGED fileVars
  BY DEF LoadCalled, LoadReturns, SaveNoted, SaveReturns, WatcherStep, loopVars, chainVars
<1>2. raw' \subseteq WatchedFile
  <2>1. Autopilot \in WatchedFile
    BY DEF WatchedFile
  <2>2. raw' = raw \/ Noticed(Autopilot)
    BY DEF LoadCalled, LoadReturns, SaveNoted, SaveReturns
  <2> QED
    BY <2>1, <2>2, NoticedIsWatched DEF WatcherTypeOK
<1>3. WatcherTypeOK'
  BY <1>1, <1>2, WatcherTypesKept DEF WatcherTypeOK
<1>4. CASE LoadCalled
  <2>1. PICK f \in unread : target' = f /\ owed' \in {0, promised[f], disk[f]}
    BY <1>4 DEF LoadCalled, Due
  <2>2. f \in File /\ Len(queue) \in Nat
    BY <2>1 DEF TickTypeOK, CacheTypeOK
  <2>3. promised[f] \in 0 .. MaxWrites /\ disk[f] \in 0 .. MaxWrites
    BY <2>2 DEF CacheTypeOK, HistoryTypeOK
  <2>4. TickTypeOK'
    BY <1>1, <1>4, <2>1, <2>2, <2>3, CacheAssumption DEF LoadCalled, TickTypeOK
  <2>5. CacheTypeOK' /\ HistoryTypeOK'
    BY <1>4, CacheTypesUnchanged, HistoryTypesUnchanged DEF LoadCalled
  <2> QED
    BY <1>3, <2>4, <2>5
<1>5. CASE LoadReturns
  <2>1. TickTypeOK'
    BY <1>1, <1>5, CacheAssumption DEF LoadReturns, TickTypeOK
  <2>2. CacheTypeOK'
    BY <1>5, CacheTypesUnchanged DEF LoadReturns
  <2>3. HistoryTypeOK'
    BY <1>5 DEF LoadReturns, HistoryTypeOK, TickTypeOK
  <2> QED
    BY <1>3, <2>1, <2>2, <2>3
<1>6. CASE SaveNoted
  <2>1. TickTypeOK'
    <3>1. Len(queue) \in Nat
      BY DEF CacheTypeOK
    <3> QED
      BY <1>1, <1>6, <3>1 DEF SaveNoted, TickTypeOK
  <2>2. queue' \in Seq(Operation)
    <3>1. [op |-> "note", file |-> target, version |-> owed] \in Operation
      BY DEF Operation, TickTypeOK
    <3> DEFINE note == [op |-> "note", file |-> target, version |-> owed]
    <3>2. queue \in Seq(Operation)
      BY DEF CacheTypeOK
    <3>3. queue' = queue \/ queue' = Append(queue, note)
      BY <1>6 DEF SaveNoted, onWritten
    <3>4. note \in Operation
      BY <3>1
    <3> HIDE DEF note
    <3> QED
      BY <3>2, <3>3, <3>4
  <2>3. CacheTypeOK'
    BY <1>6, <2>2 DEF SaveNoted, CacheTypeOK, fileVars
  <2>4. HistoryTypeOK'
    BY <1>6, HistoryTypesUnchanged DEF SaveNoted
  <2> QED
    BY <1>3, <2>1, <2>3, <2>4
<1>7. CASE SaveReturns
  <2>1. TickTypeOK'
    BY <1>1, <1>7, CacheAssumption DEF SaveReturns, TickTypeOK
  <2>2. CacheTypeOK'
    BY <1>7, CacheTypesUnchanged DEF SaveReturns
  <2>3. HistoryTypeOK'
    BY <1>7 DEF SaveReturns, HistoryTypeOK, TickTypeOK
  <2> QED
    BY <1>3, <2>1, <2>2, <2>3
<1> QED
  BY <1>4, <1>5, <1>6, <1>7

LEMMA WriteStepTypes ==
    ASSUME TypeOK, LoopTypeOK', SaveWritten \/ OutsideWrite
    PROVE  TypeOK'
<1> USE TypesAre, TypesMake
<1>1. /\ WatcherStep /\ live' = live /\ inFlight' = inFlight
      /\ UNCHANGED cacheVars /\ UNCHANGED <<promised, faults>>
  BY DEF SaveWritten, OutsideWrite, WatcherStep, loopVars, chainVars
<1>2. PICK f \in File : writeJsonFileAtomic(f) /\ Noticed(f) /\ current' = current \ {f}
  BY DEF SaveWritten, OutsideWrite
<1>3. WatcherTypeOK'
  BY <1>1, <1>2, NoticedIsWatched, WatcherTypesKept DEF WatcherTypeOK, WatchedFile
<1>4. HistoryTypeOK'
  BY <1>1, <1>2 DEF HistoryTypeOK
<1>5. stale' \subseteq File
  BY DEF SaveWritten, OutsideWrite, CacheTypeOK
<1>6. CacheTypeOK' /\ writes' = writes + 1 /\ writes' \in 0 .. MaxWrites
  BY <1>1, <1>2, <1>5, WriteTypes
<1>7. TickTypeOK'
  <2>1. CASE SaveWritten
    BY <1>1, <1>6, <2>1 DEF SaveWritten, TickTypeOK
  <2>2. CASE OutsideWrite
    BY <1>1, <2>2, TickTypesUnchanged DEF OutsideWrite
  <2> QED
    BY <2>1, <2>2
<1> QED
  BY <1>3, <1>4, <1>6, <1>7

LEMMA ChainStepTypes ==
    ASSUME TypeOK, LoopTypeOK', TickEnds \/ TickYields \/ TickFails
    PROVE  TypeOK'
<1> USE TypesAre, TypesMake
<1>1. /\ WatcherStep /\ live' = live /\ UNCHANGED <<fileVars, cacheVars, stale>>
      /\ AfterTick /\ (ChainGoesOn \/ ChainBreaks) /\ tick = "work"
      /\ (raw' = raw \/ Noticed(Autopilot)) /\ (faults' = faults \/ Faulty)
  BY DEF TickEnds, TickYields, TickFails, AfterTick, WatcherStep
<1>2. WatcherTypeOK'
  BY <1>1, NoticedIsWatched, WatcherTypesKept DEF WatcherTypeOK, WatchedFile
<1>3. CacheTypeOK'
  BY <1>1, CacheTypesUnchanged
<1>4. HistoryTypeOK'
  BY <1>1, FaultyTypes DEF AfterTick, HistoryTypeOK
<1>5. (turn' # turn) = (inFlight' # "none")
  BY <1>1, NoneIsNoSource DEF ChainGoesOn, ChainBreaks, LoopTypeOK
<1>6. TickTypeOK'
  BY <1>1, <1>5, AnyFile, CacheAssumption DEF AfterTick, TickTypeOK
<1> QED
  BY <1>2, <1>3, <1>4, <1>6

LEMMA NextTypes == IInv /\ TypeOK /\ [Next]_vars => TypeOK'
<1> SUFFICES ASSUME IInv, TypeOK, [Next]_vars PROVE TypeOK'
  OBVIOUS
<1>1. LoopTypeOK'
  BY NextKeeps DEF IInv, LoopInv
<1>2. CASE UNCHANGED vars
  BY <1>2 DEF vars, loopVars, timerVars, chainVars, lifeVars, fileVars, cacheVars, watcherVars,
              tickVars, historyVars, TypeOK, LoopTypeOK, CacheTypeOK
<1> QED
  BY <1>1, <1>2, LifeStepTypes, WatcherStepTypes, CacheStepTypes, TimerStepTypes, LoadStepTypes,
     WriteStepTypes, ChainStepTypes DEF Next, TickStep

(* The service keeps its shape, for any files, mode and bounds, and a tick  *)
(* is under way exactly while the chain of ticks is in flight.              *)
THEOREM ServiceTyped == Spec => []TypeOK
BY InitKeeps, InitTypes, NextKeeps, NextTypes, PTL DEF Spec

----------------------------------------------------------------------------
\* What the files, the cache and its queue hold.

\* q stands for the queue, r for what its head has read, and c for the cache.

\* The operation at this place reads the file, and what it stores is not older than this.
Reads(q, r, f, version, i) ==
    /\ q[i].op = "refresh" /\ q[i].file = f
    /\ i = 1 /\ r # Unread => version <= r

\* After the first n operations the cache is not older than this, unless one of them fails.
Covered(q, r, c, f, version, n) ==
    version <= c[f] \/ \E i \in 1 .. n : Reads(q, r, f, version, i)

\* Nothing is newer than the disk.
NotNewer ==
    \A f \in File :
        /\ disk[f] <= writes /\ promised[f] <= disk[f]
        /\ cache[f] <= disk[f] \/ cache[f] = Unread
        /\ warm[f] <= disk[f] \/ warm[f] = Unread

\* A refresh that has read its file takes the cache to something that is not older.
HeadRead ==
    refreshed # Unread =>
        /\ queue # <<>> /\ queue[1].op = "refresh"
        /\ cache[queue[1].file] <= refreshed /\ refreshed <= disk[queue[1].file]

\* What a load or a save waits for.
Waits ==
    /\ tick \in {"loading", "written", "noting"} => owed <= disk[target]
    /\ ahead > 0 => tick \in {"loading", "noting"} /\ ahead <= Len(queue)

ContentInv == NotNewer /\ HeadRead /\ Waits

\* The cache is filled once, in a service that watches, before the loop is started.
WarmInv ==
    /\ Started => Watches /\ \A f \in File : warm[f] = Unread
    /\ ~Started => queue = <<>> /\ \A f \in File : cache[f] = Unread
    /\ Watches /\ ~Started => starting = "no" /\ tick = "off" /\ \A f \in File : promised[f] = 0
    /\ watcherOn => Watches

\* The one note in the queue is the one that the save in hand waits for.
NoteInv ==
    /\ \A i \in 1 .. Len(queue) :
          queue[i].op = "note" =>
              tick = "noting" /\ i = ahead /\ queue[i].file = target /\ queue[i].version = owed
    /\ Watches /\ tick = "noting" /\ ahead > 0 => queue[ahead].op = "note"

\* What was promised is in the cache, or the queue will bring it.
PromiseInv ==
    /\ \A f \in File : f \in stale \/ Covered(queue, refreshed, cache, f, promised[f], Len(queue))
    /\ tick = "written" => promised[target] <= owed
    /\ tick = "noting" /\ ahead > 0 =>
          \/ promised[target] <= owed
          \/ \E i \in ahead + 1 .. Len(queue) : queue[i].op = "refresh" /\ queue[i].file = target
    /\ tick = "noting" /\ ahead = 0 => owed <= cache[target]
    /\ tick = "loading" => Covered(queue, refreshed, cache, target, owed, ahead)

CacheInv == ContentInv /\ WarmInv /\ NoteInv /\ (Watches => PromiseInv)

FreshInv == IInv /\ TypeOK /\ CacheInv

\* The numbers that are compared.
Numbers ==
    /\ MaxWrites \in Nat /\ Unread = MaxWrites + 1
    /\ writes \in Nat /\ owed \in Nat /\ refreshed \in Nat /\ ahead \in Nat /\ target \in File
    /\ queue \in Seq(Operation) /\ Len(queue) \in Nat
    /\ \A f \in File : /\ disk[f] \in Nat /\ disk[f] < Unread /\ promised[f] \in Nat
                       /\ cache[f] \in Nat /\ warm[f] \in Nat

LEMMA NumbersAre == TypeOK => Numbers
<1> SUFFICES ASSUME TypeOK PROVE Numbers
  OBVIOUS
<1>1. MaxWrites \in Nat /\ Unread = MaxWrites + 1
  BY CacheAssumption DEF Unread
<1> QED
  BY <1>1 DEF TypeOK, CacheTypeOK, Numbers

LEMMA NumbersWillBe == TypeOK' => Numbers'
<1> SUFFICES ASSUME TypeOK' PROVE Numbers'
  OBVIOUS
<1>1. MaxWrites \in Nat /\ Unread = MaxWrites + 1
  BY CacheAssumption DEF Unread
<1> QED
  BY <1>1 DEF TypeOK, CacheTypeOK, Numbers

\* What is covered stays covered by a longer queue, by what the head reads of the disk, and
\* when the head has left.
LEMMA LongerCovers ==
    ASSUME NEW q, NEW s, NEW r, NEW c, NEW f, NEW version, NEW n \in Nat, NEW m \in Nat, n <= m,
           \A i \in 1 .. n : s[i] = q[i], Covered(q, r, c, f, version, n)
    PROVE  Covered(s, r, c, f, version, m)
<1>1. ASSUME NEW i \in 1 .. n, Reads(q, r, f, version, i)
      PROVE  i \in 1 .. m /\ Reads(s, r, f, version, i)
  BY <1>1 DEF Reads
<1> QED
  BY <1>1 DEF Covered

LEMMA ReadCovers ==
    ASSUME NEW q, NEW r, NEW c, NEW f, NEW version, NEW n \in Nat,
           q[1].file = f => version <= r, Covered(q, Unread, c, f, version, n)
    PROVE  Covered(q, r, c, f, version, n)
BY DEF Covered, Reads

LEMMA TailCovers ==
    ASSUME NEW q \in Seq(Operation), q # <<>>, NEW r, NEW c, NEW d, NEW f, NEW version,
           NEW n \in 0 .. Len(q), NEW m \in Nat, n <= m + 1,
           version <= c[f] => version <= d[f], Reads(q, r, f, version, 1) => version <= d[f],
           Covered(q, r, c, f, version, n)
    PROVE  Covered(Tail(q), Unread, d, f, version, m)
<1>1. CASE version <= c[f]
  BY <1>1 DEF Covered
<1>2. ASSUME NEW i \in 1 .. n, Reads(q, r, f, version, i)
      PROVE  Covered(Tail(q), Unread, d, f, version, m)
  <2>1. CASE i = 1
    BY <1>2, <2>1 DEF Covered
  <2>2. CASE i # 1
    <3>1. i - 1 \in 1 .. m /\ i - 1 \in 1 .. Len(q) - 1 /\ Len(q) \in Nat
      BY <2>2
    <3>2. Tail(q)[i - 1] = q[i]
      BY <3>1, TailOfQueue
    <3>3. Reads(Tail(q), Unread, f, version, i - 1)
      BY <1>2, <3>2 DEF Reads
    <3> QED
      BY <3>1, <3>3 DEF Covered
  <2> QED
    BY <2>1, <2>2
<1> QED
  BY <1>1, <1>2 DEF Covered

\* A refresh that nobody has begun will read what is on the disk.
LEMMA RefreshCovers ==
    ASSUME NEW q, NEW c, NEW f, NEW version, NEW n \in Nat, NEW r, NEW i \in 1 .. n,
           q[i].op = "refresh", q[i].file = f, i = 1 => r = Unread
    PROVE  Covered(q, r, c, f, version, n)
BY DEF Covered, Reads

----------------------------------------------------------------------------
\* The steps that leave the files, the cache and the tick alone.

LEMMA ModeKept == [Next]_vars => mode' = mode
<1> SUFFICES ASSUME [Next]_vars PROVE mode' = mode
  OBVIOUS
<1>1. CASE UNCHANGED vars \/ UNCHANGED loopVars
  BY <1>1 DEF vars, loopVars, lifeVars
<1>2. CASE LoopStart \/ WatcherStarted \/ WatcherStartFails \/ LoopStop \/ WatcherStopped \/ LoopStopped
  BY <1>2 DEF LoopStart, WatcherStarted, WatcherStartFails, LoopStop, WatcherStopped, LoopStopped
<1>3. CASE trigger("watcher") \/ trigger("safety")
  BY <1>3 DEF trigger, lifeVars
<1>4. CASE PollingFires \/ SafetyFires \/ DebounceFires \/ ChainGoesOn \/ ChainBreaks
  BY <1>4 DEF PollingFires, SafetyFires, DebounceFires, ChainGoesOn, ChainBreaks, lifeVars
<1> QED
  BY <1>1, <1>2, <1>3, <1>4
     DEF Next, Life, WarmUp, ServiceStart, WatcherComesUp, WatcherGivesUp, StopGoesOn, ServiceStop,
         WatcherHears, WatcherReplays, WatcherReports, WatcherErrs, Cache, CacheReads,
         CacheOperationEnds, TimerFires, TickStep, LoadCalled, LoadReturns, SaveNoted, SaveReturns,
         SaveWritten, TickEnds, TickYields, TickFails, OutsideWrite

Quiet == UNCHANGED <<fileVars, cacheVars, stale, tickVars, promised>>

LEMMA QuietKeeps ==
    ASSUME CacheInv, Quiet, WarmInv', mode' = mode
    PROVE  CacheInv'
<1>1. ContentInv'
  BY DEF CacheInv, ContentInv, NotNewer, HeadRead, Waits, Quiet, fileVars, cacheVars, tickVars
<1>2. NoteInv'
  BY DEF CacheInv, NoteInv, Quiet, cacheVars, tickVars, Watches
<1>3. (Watches => PromiseInv)'
  BY DEF CacheInv, PromiseInv, Quiet, cacheVars, tickVars, Watches
<1> QED
  BY <1>1, <1>2, <1>3 DEF CacheInv

\* Whatever keeps the cache started or not keeps the rest, if no tick begins on a cold cache.
LEMMA WarmKeeps ==
    ASSUME FreshInv, mode' = mode, UNCHANGED <<cache, warm>>,
           ~Started => queue' = queue,
           Watches /\ ~Started => UNCHANGED <<starting, tick, promised>>,
           watcherOn' => watcherOn \/ Watches
    PROVE  WarmInv'
<1>1. Started' = Started /\ Watches' = Watches
  BY DEF Started, Watches
<1> QED
  BY <1>1 DEF FreshInv, CacheInv, WarmInv

\* A loop that hears anything was started, on a cache that was warm.
LEMMA ColdIsDeaf ==
    ASSUME FreshInv, Watches, ~Started
    PROVE  ~Hears /\ starting = "no" /\ ~watcherOn /\ due = {} /\ tick = "off" /\ queue = <<>>
<1>1. starting = "no" /\ tick = "off" /\ queue = <<>>
  BY DEF FreshInv, CacheInv, WarmInv
<1>2. ~running
  BY <1>1 DEF FreshInv, IInv, LoopInv, LifeInv
<1> QED
  BY <1>1, <1>2 DEF Hears, FreshInv, IInv, WatcherInv

LEMMA QuietStepKeeps ==
    ASSUME FreshInv, mode' = mode,
           \/ ServiceStart \/ WatcherComesUp \/ WatcherGivesUp \/ StopGoesOn \/ ServiceStop
           \/ (\E f \in WatchedFile : WatcherHears(f)) \/ WatcherReplays \/ WatcherErrs
    PROVE  CacheInv'
<1>1. Quiet
  BY DEF Quiet, ServiceStart, WatcherComesUp, WatcherGivesUp, StopGoesOn, ServiceStop, WatcherHears,
         WatcherReplays, WatcherErrs, historyVars
<1>2. UNCHANGED <<cache, warm, queue, tick, promised>>
  BY <1>1 DEF Quiet, cacheVars, tickVars
<1>3. Watches /\ ~Started => starting' = starting
  <2> SUFFICES ASSUME Watches, ~Started PROVE starting' = starting
    OBVIOUS
  <2>1. starting = "no" /\ ~watcherOn
    BY ColdIsDeaf
  <2>2. stopping = "no"
    BY <2>1 DEF FreshInv, IInv, LoopInv, LifeInv
  <2> QED
    BY <2>1, <2>2 DEF ServiceStart, WatcherComesUp, WatcherGivesUp, StopGoesOn, ServiceStop, WatcherHears,
           WatcherReplays, WatcherErrs, WatcherStarted, WatcherStartFails, WatcherStopped,
           LoopStopped, LoopStop, loopVars, lifeVars, trigger
<1>4. watcherOn' => watcherOn \/ Watches
  BY DEF ServiceStart, WatcherComesUp, WatcherGivesUp, StopGoesOn, ServiceStop, WatcherHears,
         WatcherReplays, WatcherErrs, Watcher!SwitchOn, Watcher!SwitchOff, Watcher!Silence,
         Watcher!Hear
<1>5. WarmInv'
  BY <1>2, <1>3, <1>4, WarmKeeps
<1> QED
  BY <1>1, <1>5, QuietKeeps DEF FreshInv

\* The cache is filled: what start() has read is not newer than the disk.
LEMMA WarmUpKeeps ==
    ASSUME FreshInv, TypeOK', mode' = mode, WarmUp
    PROVE  CacheInv'
<1>1. /\ UNCHANGED <<fileVars, stale, tickVars, promised, starting, queue, refreshed, watcherOn>>
      /\ Watches /\ Watches' = Watches
  BY DEF WarmUp, WarmRead, CacheStarted, Watcher!Silence, loopVars, lifeVars, historyVars, Watches
<1>2. Numbers /\ Numbers' /\ ContentInv /\ WarmInv /\ NoteInv /\ PromiseInv
  BY <1>1, NumbersAre, NumbersWillBe DEF FreshInv, CacheInv
<1>3. ~Started
  <2>1. Started => \A f \in File : warm[f] = Unread
    BY <1>2 DEF WarmInv
  <2> QED
    BY <2>1, AnyFile DEF WarmUp, WarmRead, CacheStarted
<1>4. /\ queue = <<>> /\ refreshed = Unread /\ starting = "no" /\ tick = "off"
      /\ \A f \in File : promised[f] = 0 /\ cache[f] = Unread
  BY <1>1, <1>2, <1>3 DEF WarmInv, ContentInv, NotNewer, HeadRead, Waits
<1>5. ASSUME NEW f \in File
      PROVE  /\ cache'[f] <= disk[f] \/ cache'[f] = Unread
             /\ warm'[f] <= disk[f] \/ warm'[f] = Unread
  <2>1. CASE CacheStarted
    BY <1>2, <2>1 DEF CacheStarted, ContentInv, NotNewer, HeadRead, Waits
  <2>2. CASE \E g \in File : WarmRead(g)
    <3>1. PICK g \in File : warm' = [warm EXCEPT ![g] = disk[g]] /\ cache' = cache
      BY <2>2 DEF WarmRead
    <3>2. warm \in [File -> 0 .. Unread]
      BY DEF FreshInv, TypeOK, CacheTypeOK
    <3>3. warm'[f] \in {warm[f], disk[f]}
      BY <3>1, <3>2
    <3>4. /\ disk[f] \in Nat
          /\ cache[f] <= disk[f] \/ cache[f] = Unread
          /\ warm[f] <= disk[f] \/ warm[f] = Unread
      BY <1>2 DEF ContentInv, NotNewer, HeadRead, Waits, Numbers
    <3> QED
      BY <3>1, <3>3, <3>4
  <2> QED
    BY <2>1, <2>2 DEF WarmUp
<1>6. ContentInv'
  BY <1>1, <1>2, <1>4, <1>5 DEF ContentInv, NotNewer, HeadRead, Waits, fileVars, tickVars
<1>7. WarmInv'
  <2>1. CASE CacheStarted
    <3>1. \A f \in File : cache'[f] # Unread /\ warm'[f] = Unread
      BY <2>1 DEF CacheStarted
    <3>2. Started'
      BY <3>1 DEF Started
    <3> QED
      BY <1>1, <1>2, <3>1, <3>2 DEF WarmInv
  <2>2. CASE \E g \in File : WarmRead(g)
    <3>1. cache' = cache
      BY <2>2 DEF WarmRead
    <3>2. ~Started'
      BY <1>3, <3>1 DEF Started
    <3> QED
      BY <1>1, <1>2, <1>3, <3>1, <3>2 DEF WarmInv, tickVars
  <2> QED
    BY <2>1, <2>2 DEF WarmUp
<1>8. NoteInv'
  BY <1>1, <1>2, <1>4 DEF NoteInv, tickVars
<1>9. PromiseInv'
  <2>1. \A f \in File : promised'[f] = 0 /\ 0 <= cache'[f]
    BY <1>1, <1>2, <1>4 DEF Numbers
  <2>2. tick' = "off"
    BY <1>1, <1>4 DEF tickVars
  <2> QED
    BY <2>1, <2>2 DEF PromiseInv, Covered
<1> QED
  BY <1>6, <1>7, <1>8, <1>9 DEF CacheInv

----------------------------------------------------------------------------
\* What is reported joins the queue.

LEMMA ReportKeeps ==
    ASSUME FreshInv, TypeOK', mode' = mode, WatcherReports
    PROVE  CacheInv'
<1>1. /\ UNCHANGED <<fileVars, cache, warm, refreshed, tickVars, starting, watcherOn>>
      /\ stale \ due \subseteq stale' /\ due # {} /\ Watches' = Watches
  BY DEF WatcherReports, Watcher!Report, trigger, lifeVars, Watches
<1>2. Started /\ Started' = Started /\ Watches
  <2>1. Watches
    BY <1>1 DEF FreshInv, IInv, WatcherInv, CacheInv, WarmInv
  <2>2. Started
    BY <1>1, <2>1, ColdIsDeaf
  <2> QED
    BY <1>1, <2>1, <2>2 DEF Started
<1>3. Numbers /\ Numbers' /\ ContentInv /\ WarmInv /\ NoteInv /\ PromiseInv
  BY <1>2, NumbersAre, NumbersWillBe DEF FreshInv, CacheInv
<1>4. /\ Len(queue) \in Nat /\ Len(queue') \in Nat /\ ahead \in Nat
      /\ ahead > 0 => ahead <= Len(queue)
      /\ refreshed # Unread => Len(queue) > 0
  BY <1>3 DEF Numbers, ContentInv, NotNewer, HeadRead, Waits
<1>5. Queued(queue, queue', due \cap File)
  BY <1>3, ChangesAreQueued DEF WatcherReports, Numbers
<1>6. /\ Len(queue) <= Len(queue')
      /\ \A i \in 1 .. Len(queue) : queue'[i] = queue[i]
      /\ \A i \in Len(queue) + 1 .. Len(queue') : queue'[i].op = "refresh"
      /\ \A f \in due \cap File : \E i \in Len(queue) + 1 .. Len(queue') : queue'[i].file = f
  BY <1>5 DEF Queued
<1>7. /\ \A f \in File : promised'[f] = promised[f] \/ (f \in due /\ promised'[f] = disk[f])
      /\ tick = "written" => promised'[target] = promised[target]
  BY <1>3 DEF WatcherReports, Renaming, Numbers
<1>8. ContentInv'
  <2>1. refreshed # Unread => queue' # <<>> /\ queue'[1] = queue[1]
    BY <1>3, <1>4, <1>6 DEF Numbers
  <2>2. \A f \in File : promised'[f] <= disk[f]
    <3>1. \A f \in File : disk[f] \in Nat /\ promised[f] <= disk[f]
      BY <1>3 DEF Numbers, ContentInv, NotNewer
    <3> QED
      BY <1>7, <3>1
  <2>3. ahead > 0 => ahead <= Len(queue')
    BY <1>4, <1>6
  <2>4. UNCHANGED <<disk, writes, cache, warm, refreshed, tick, target, owed, ahead>>
    BY <1>1 DEF fileVars, tickVars
  <2>5. NotNewer'
    BY <1>3, <2>2, <2>4 DEF ContentInv, NotNewer
  <2>6. HeadRead'
    BY <1>3, <2>1, <2>4 DEF ContentInv, HeadRead
  <2>7. Waits'
    BY <1>3, <2>3, <2>4 DEF ContentInv, Waits
  <2> QED
    BY <2>5, <2>6, <2>7 DEF ContentInv
<1>9. WarmInv'
  BY <1>1, <1>2, <1>3 DEF WarmInv
<1>10. NoteInv'
  <2>1. ASSUME NEW i \in 1 .. Len(queue'), queue'[i].op = "note"
        PROVE  i \in 1 .. Len(queue) /\ queue'[i] = queue[i]
    <3>1. i \in 1 .. Len(queue) \/ i \in Len(queue) + 1 .. Len(queue')
      BY <1>4, <1>6
    <3> QED
      BY <1>6, <2>1, <3>1
  <2>2. ahead > 0 => queue'[ahead] = queue[ahead]
    BY <1>4, <1>6
  <2> QED
    BY <1>1, <1>3, <2>1, <2>2 DEF NoteInv, tickVars
<1>11. PromiseInv'
  <2>1. ASSUME NEW f \in File, f \notin stale'
        PROVE  Covered(queue', refreshed, cache, f, promised'[f], Len(queue'))
    <3>1. CASE f \notin due
      <4> f \notin stale /\ promised'[f] = promised[f]
        BY <1>1, <1>7, <2>1, <3>1
      <4>1. Covered(queue, refreshed, cache, f, promised[f], Len(queue))
        BY <1>3, <2>1 DEF PromiseInv
      <4> QED
        BY <1>4, <1>6, <3>1, <4>1, LongerCovers
    <3>2. CASE f \in due
      <4>1. PICK i \in Len(queue) + 1 .. Len(queue') : queue'[i].file = f /\ queue'[i].op = "refresh"
        BY <1>6, <3>2
      <4>2. i \in 1 .. Len(queue') /\ (i = 1 => refreshed = Unread)
        BY <1>4
      <4> QED
        BY <1>4, <4>1, <4>2, RefreshCovers
    <3> QED
      BY <3>1, <3>2
  <2>2. tick = "written" => promised'[target] <= owed
    BY <1>3, <1>7 DEF PromiseInv
  <2>3. tick = "noting" /\ ahead > 0 =>
          \/ promised'[target] <= owed
          \/ \E i \in ahead + 1 .. Len(queue') : queue'[i].op = "refresh" /\ queue'[i].file = target
    <3> SUFFICES ASSUME tick = "noting", ahead > 0, ~(promised'[target] <= owed)
                 PROVE  \E i \in ahead + 1 .. Len(queue') :
                            queue'[i].op = "refresh" /\ queue'[i].file = target
      OBVIOUS
    <3>1. CASE promised'[target] = promised[target]
      <4>1. PICK i \in ahead + 1 .. Len(queue) : queue[i].op = "refresh" /\ queue[i].file = target
        BY <1>3, <3>1 DEF PromiseInv
      <4>2. i \in 1 .. Len(queue) /\ i \in ahead + 1 .. Len(queue')
        BY <1>4, <1>6
      <4> QED
        BY <1>6, <4>1, <4>2
    <3>2. CASE target \in due
      <4>1. target \in due \cap File
        BY <1>3, <3>2 DEF Numbers
      <4>2. PICK i \in Len(queue) + 1 .. Len(queue') : queue'[i].file = target /\ queue'[i].op = "refresh"
        BY <1>6, <4>1
      <4>3. i \in ahead + 1 .. Len(queue')
        BY <1>4
      <4> QED
        BY <4>2, <4>3
    <3> QED
      BY <1>3, <1>7, <3>1, <3>2 DEF Numbers
  <2>4. tick = "loading" => Covered(queue', refreshed, cache, target, owed, ahead)
    <3> SUFFICES ASSUME tick = "loading"
                 PROVE  Covered(queue', refreshed, cache, target, owed, ahead)
      OBVIOUS
    <3>1. Covered(queue, refreshed, cache, target, owed, ahead)
      BY <1>3 DEF PromiseInv
    <3>2. \A i \in 1 .. ahead : queue'[i] = queue[i]
      BY <1>4, <1>6
    <3> QED
      BY <1>4, <3>1, <3>2, LongerCovers
  <2> QED
    BY <1>1, <1>3, <2>1, <2>2, <2>3, <2>4 DEF PromiseInv, tickVars
<1> QED
  BY <1>8, <1>9, <1>10, <1>11 DEF CacheInv

----------------------------------------------------------------------------
\* An operation of the queue is carried out.

LEMMA FilledIsStarted ==
    ASSUME FreshInv, queue # <<>>
    PROVE  Started /\ Watches /\ \A f \in File : cache[f] # Unread /\ cache[f] <= disk[f] /\ warm[f] = Unread
<1>1. Started /\ Watches /\ \A f \in File : warm[f] = Unread
  BY DEF FreshInv, CacheInv, WarmInv
<1>2. \A f \in File : cache[f] # Unread
  BY <1>1 DEF Started
<1> QED
  BY <1>1, <1>2 DEF FreshInv, CacheInv, ContentInv, NotNewer

LEMMA ReadKeeps ==
    ASSUME FreshInv, TypeOK', mode' = mode, CacheReads
    PROVE  CacheInv'
<1> DEFINE head == queue[1].file
<1>1. Numbers /\ ContentInv /\ WarmInv /\ NoteInv
  BY NumbersAre DEF FreshInv, CacheInv
<1>2. /\ queue # <<>> /\ queue[1].op = "refresh" /\ refreshed = Unread /\ refreshed' = disk[head]
      /\ head \in File
  BY <1>1, TailOfQueue, OperationIs DEF CacheReads, RefreshRead, Numbers
<1>3. /\ UNCHANGED <<disk, writes, cache, warm, queue, stale, tick, target, owed, ahead, promised>>
      /\ UNCHANGED <<starting, watcherOn>> /\ Watches' = Watches
  BY DEF CacheReads, RefreshRead, Watcher!Silence, fileVars, tickVars, historyVars, loopVars, lifeVars,
         Watches
<1>4. Watches /\ PromiseInv /\ cache[head] <= disk[head] /\ disk[head] \in Nat
  BY <1>1, <1>2, FilledIsStarted DEF FreshInv, CacheInv, Numbers
<1>5. NotNewer'
  BY <1>1, <1>3 DEF ContentInv, NotNewer
<1>6. HeadRead'
  <2>1. disk[head] <= disk[head]
    BY <1>4
  <2> QED
    BY <1>2, <1>3, <1>4, <2>1 DEF HeadRead
<1>7. Waits'
  BY <1>1, <1>3 DEF ContentInv, Waits
<1>8. WarmInv'
  BY <1>1, <1>3 DEF WarmInv, Started
<1>9. NoteInv'
  BY <1>1, <1>3 DEF NoteInv
<1>10. PromiseInv'
  <2>1. ASSUME NEW f \in File, NEW version, NEW n \in Nat, version <= disk[f],
               Covered(queue, refreshed, cache, f, version, n)
        PROVE  Covered(queue, refreshed', cache, f, version, n)
    BY <1>2, <2>1, ReadCovers
  <2>2. \A f \in File : f \in stale \/ Covered(queue, refreshed', cache, f, promised[f], Len(queue))
    <3>1. \A f \in File : promised[f] <= disk[f] /\ Len(queue) \in Nat
      BY <1>1 DEF ContentInv, NotNewer, Numbers
    <3> QED
      BY <1>4, <2>1, <3>1 DEF PromiseInv
  <2>3. tick = "loading" => Covered(queue, refreshed', cache, target, owed, ahead)
    <3>1. tick = "loading" => owed <= disk[target] /\ target \in File /\ ahead \in Nat
      BY <1>1 DEF ContentInv, Waits, Numbers
    <3> QED
      BY <1>4, <2>1, <3>1 DEF PromiseInv
  <2> QED
    BY <1>3, <1>4, <2>2, <2>3 DEF PromiseInv
<1> QED
  BY <1>5, <1>6, <1>7, <1>8, <1>9, <1>10 DEF CacheInv, ContentInv

\* A refresh ends: the cache is not older than before, and what the queue covers it still
\* covers; but for the file whose refresh has failed.
LEMMA RefreshedIs ==
    ASSUME FreshInv, RefreshStored \/ RefreshFails
    PROVE  /\ Numbers /\ queue \in Seq(Operation) /\ queue # <<>>
           /\ queue' = Tail(queue) /\ refreshed' = Unread
           /\ \A f \in File : /\ cache[f] \in Nat /\ cache'[f] \in Nat /\ cache[f] <= cache'[f]
                              /\ RefreshStored /\ f = queue[1].file => cache'[f] = refreshed
<1> DEFINE head == queue[1].file
<1>1. /\ Numbers /\ HeadRead /\ queue \in Seq(Operation) /\ queue # <<>>
      /\ Head(queue) = queue[1] /\ queue' = Tail(queue)
      /\ cache \in [File -> 0 .. Unread]
  BY NumbersAre, TailOfQueue
     DEF FreshInv, CacheInv, ContentInv, Numbers, RefreshStored, RefreshFails, TypeOK, CacheTypeOK
<1>2. CASE RefreshStored
  <2>1. refreshed # Unread /\ refreshed' = Unread /\ cache' = [cache EXCEPT ![head] = refreshed]
    BY <1>1, <1>2 DEF RefreshStored
  <2>2. cache[head] <= refreshed /\ refreshed \in Nat /\ head \in File
    BY <1>1, <2>1, TailOfQueue, OperationIs DEF HeadRead, Numbers
  <2>3. \A f \in File : cache'[f] = IF f = head THEN refreshed ELSE cache[f]
    BY <1>1, <2>1
  <2> QED
    BY <1>1, <2>1, <2>2, <2>3 DEF Numbers
<1>3. CASE RefreshFails
  <2>1. refreshed = Unread /\ refreshed' = Unread /\ cache' = cache /\ ~RefreshStored
    BY <1>3 DEF RefreshFails, RefreshStored
  <2> QED
    BY <1>1, <2>1 DEF Numbers
<1> QED
  BY <1>2, <1>3

LEMMA RefreshedCovers ==
    ASSUME FreshInv, RefreshStored \/ RefreshFails, NEW f \in File, NEW version \in Nat,
           NEW n \in 0 .. Len(queue), NEW m \in Nat, n <= m + 1,
           RefreshFails => f # queue[1].file,
           Covered(queue, refreshed, cache, f, version, n)
    PROVE  Covered(queue', refreshed', cache', f, version, m)
<1>1. /\ cache[f] \in Nat /\ cache'[f] \in Nat /\ cache[f] <= cache'[f]
      /\ RefreshStored /\ f = queue[1].file => cache'[f] = refreshed
  BY RefreshedIs
<1>2. version <= cache[f] => version <= cache'[f]
  BY <1>1
<1>3. Reads(queue, refreshed, f, version, 1) => version <= cache'[f]
  <2>1. RefreshStored => refreshed # Unread
    BY DEF RefreshStored
  <2> QED
    BY <1>1, <2>1 DEF Reads
<1> QED
  BY <1>2, <1>3, RefreshedIs, TailCovers

\* A file whose refresh fails is stale, or another refresh of it is queued.
LEMMA RefreshedKeepsPromise ==
    ASSUME FreshInv, RefreshStored \/ RefreshFails, NEW f \in File, NEW version \in Nat,
           version <= disk[f], f \notin stale',
           f \in stale \/ Covered(queue, refreshed, cache, f, version, Len(queue))
    PROVE  Covered(queue', refreshed', cache', f, version, Len(queue'))
<1>1. /\ Len(queue) \in Nat /\ Len(queue) \in 0 .. Len(queue) /\ Len(queue') = Len(queue) - 1
      /\ Len(queue') \in Nat /\ Len(queue) <= Len(queue') + 1
      /\ \A i \in 1 .. Len(queue) - 1 : queue'[i] = queue[i + 1]
      /\ Head(queue) = queue[1]
  BY RefreshedIs, TailOfQueue
<1>2. CASE f \in stale
  <2>1. RefreshStored /\ f = queue[1].file /\ refreshed = disk[f]
    BY <1>1, <1>2 DEF RefreshStored, RefreshFails
  <2>2. cache'[f] = refreshed
    BY <2>1, RefreshedIs
  <2> QED
    BY <2>1, <2>2 DEF Covered
<1>3. CASE f \notin stale /\ (RefreshFails => f # queue[1].file)
  BY <1>1, <1>3, RefreshedCovers
<1>4. CASE RefreshFails /\ f = queue[1].file
  <2>1. PICK i \in 2 .. Len(queue) : queue[i].op = "refresh" /\ queue[i].file = f
    BY <1>1, <1>4 DEF RefreshFails, RefreshQueued
  <2>2. i - 1 \in 1 .. Len(queue') /\ i - 1 \in 1 .. Len(queue) - 1 /\ (i - 1) + 1 = i
    BY <1>1
  <2>3. queue'[i - 1].op = "refresh" /\ queue'[i - 1].file = f
    BY <1>1, <2>1, <2>2
  <2> QED
    BY <1>1, <2>2, <2>3, RefreshedIs, RefreshCovers
<1> QED
  BY <1>2, <1>3, <1>4

\* What leaves the queue, and what it leaves in the cache.
LEMMA EndIs ==
    ASSUME FreshInv, CacheOperationEnds
    PROVE  /\ UNCHANGED <<disk, writes, warm, tick, target, promised, starting, watcherOn>>
           /\ owed' = owed \/ (owed' = 0 /\ tick = "loading")
           /\ queue # <<>> /\ queue' = Tail(queue) /\ refreshed' = Unread
           /\ ahead' = IF ahead > 0 THEN ahead - 1 ELSE 0
           /\ \A f \in File : cache'[f] # Unread /\ cache'[f] <= disk[f]
           /\ \/ /\ RefreshStored \/ RefreshFails
                 /\ RefreshFails /\ tick = "loading" /\ target = queue[1].file => owed' = 0
              \/ /\ NoteApplied /\ tick = "noting" /\ ahead = 1
                 /\ cache' = [cache EXCEPT ![target] = owed]
                 /\ stale' = IF owed = disk[target] THEN stale \ {target} ELSE stale
<1> DEFINE head == queue[1]
<1>1. Numbers /\ HeadRead /\ Waits /\ NoteInv /\ cache \in [File -> 0 .. Unread]
  BY NumbersAre DEF FreshInv, CacheInv, ContentInv, TypeOK, CacheTypeOK
<1>2. /\ UNCHANGED <<disk, writes, warm, tick, target, promised, starting, watcherOn>>
      /\ owed' = owed \/ (owed' = 0 /\ tick = "loading")
      /\ ahead' = IF ahead > 0 THEN ahead - 1 ELSE 0
  BY DEF CacheOperationEnds, RefreshStored, RefreshFails, NoteApplied, Watcher!Silence, fileVars,
         loopVars, lifeVars
<1>3. RefreshStored \/ RefreshFails \/ NoteApplied
  BY DEF CacheOperationEnds
<1>4. queue # <<>> /\ queue' = Tail(queue) /\ queue \in Seq(Operation)
  BY <1>1, <1>3 DEF RefreshStored, RefreshFails, NoteApplied, Numbers
<1>5. Head(queue) = head /\ head.file \in File /\ Len(queue) \in Nat \ {0}
  BY <1>4, TailOfQueue, OperationIs
<1>6. \A f \in File : cache[f] # Unread /\ cache[f] <= disk[f] /\ disk[f] < Unread /\ disk[f] \in Nat
  BY <1>1, <1>4, FilledIsStarted DEF Numbers
<1> HIDE DEF head
<1>7. CASE RefreshStored
  <2>1. refreshed # Unread /\ refreshed' = Unread /\ cache' = [cache EXCEPT ![head.file] = refreshed]
    BY <1>5, <1>7 DEF RefreshStored
  <2>2. refreshed <= disk[head.file] /\ refreshed \in Nat
    BY <1>1, <2>1 DEF HeadRead, Numbers, head
  <2>3. \A f \in File : cache'[f] = IF f = head.file THEN refreshed ELSE cache[f]
    BY <1>1, <2>1
  <2>4. \A f \in File : cache'[f] # Unread /\ cache'[f] <= disk[f]
    BY <1>5, <1>6, <2>1, <2>2, <2>3
  <2> QED
    BY <1>2, <1>4, <1>7, <2>1, <2>4 DEF RefreshFails
<1>8. CASE RefreshFails
  <2>1. tick = "loading" /\ target = head.file => owed' = 0
    BY <1>5, <1>8 DEF CacheOperationEnds, RefreshStored, RefreshFails, NoteApplied
  <2> QED
    BY <1>2, <1>4, <1>6, <1>8, <2>1 DEF RefreshFails, head
<1>9. CASE NoteApplied
  <2>1. /\ head.op = "note" /\ refreshed' = refreshed
        /\ cache' = [cache EXCEPT ![head.file] = head.version]
        /\ stale' = IF head.version = disk[head.file] THEN stale \ {head.file} ELSE stale
    BY <1>5, <1>9 DEF NoteApplied
  <2>2. refreshed = Unread
    BY <1>1, <2>1 DEF HeadRead, head
  <2>3. tick = "noting" /\ ahead = 1 /\ head.file = target /\ head.version = owed
    <3>1. 1 \in 1 .. Len(queue)
      BY <1>5
    <3> QED
      BY <1>1, <2>1, <3>1 DEF NoteInv, head
  <2>4. owed <= disk[target] /\ owed \in Nat
    BY <1>1, <2>3 DEF Waits, Numbers
  <2>5. \A f \in File : cache'[f] = IF f = target THEN owed ELSE cache[f]
    BY <1>1, <2>1, <2>3
  <2>6. \A f \in File : cache'[f] # Unread /\ cache'[f] <= disk[f]
    <3>1. target \in File
      BY <1>1 DEF Numbers
    <3> QED
      BY <1>6, <2>4, <2>5, <3>1, <1>1 DEF Numbers
  <2>7. /\ cache' = [cache EXCEPT ![target] = owed]
        /\ stale' = IF owed = disk[target] THEN stale \ {target} ELSE stale
    BY <2>1, <2>3
  <2> QED
    BY <1>2, <1>4, <1>9, <2>1, <2>2, <2>3, <2>6, <2>7
<1> QED
  BY <1>3, <1>7, <1>8, <1>9

LEMMA EndKeeps ==
    ASSUME FreshInv, mode' = mode, CacheOperationEnds
    PROVE  CacheInv'
<1> USE EndIs
<1>1. Numbers /\ ContentInv /\ WarmInv /\ NoteInv /\ Watches' = Watches
  BY NumbersAre DEF FreshInv, CacheInv, Watches
<1>2. Started /\ Watches /\ PromiseInv /\ \A f \in File : warm[f] = Unread
  BY FilledIsStarted DEF FreshInv, CacheInv
<1>3. /\ Len(queue) \in Nat \ {0} /\ Len(queue') = Len(queue) - 1
      /\ \A i \in 1 .. Len(queue) - 1 : queue'[i] = queue[i + 1]
  <2>1. queue \in Seq(Operation)
    BY <1>1 DEF Numbers
  <2> QED
    BY <2>1, TailOfQueue
<1>4. /\ ahead \in Nat /\ (ahead > 0 => ahead <= Len(queue))
      /\ ahead' = IF ahead > 0 THEN ahead - 1 ELSE 0
  BY <1>1 DEF Numbers, ContentInv, Waits
<1>5. NotNewer'
  BY <1>1 DEF ContentInv, NotNewer
<1>6. HeadRead'
  BY DEF HeadRead
<1>7. Waits'
  <2>1. disk[target] \in Nat /\ 0 <= disk[target]
    BY <1>1 DEF Numbers
  <2> QED
    BY <1>1, <1>3, <1>4, <2>1 DEF ContentInv, Waits
<1>8. WarmInv'
  <2>1. Started'
    BY DEF Started
  <2> QED
    BY <1>1, <1>2, <2>1 DEF WarmInv
<1>9. NoteInv'
  <2>1. ASSUME NEW i \in 1 .. Len(queue'), queue'[i].op = "note"
        PROVE  tick' = "noting" /\ i = ahead' /\ queue'[i].file = target' /\ queue'[i].version = owed'
    <3>1. i \in 1 .. Len(queue) - 1 /\ i + 1 \in 1 .. Len(queue)
      BY <1>3
    <3>2. queue'[i] = queue[i + 1]
      BY <1>3, <3>1
    <3>3. tick = "noting" /\ i + 1 = ahead /\ queue[i + 1].file = target /\ queue[i + 1].version = owed
      BY <1>1, <2>1, <3>1, <3>2 DEF NoteInv
    <3>4. owed' = owed
      BY <3>3
    <3> QED
      BY <1>4, <3>1, <3>2, <3>3, <3>4
  <2>2. ASSUME tick' = "noting", ahead' > 0
        PROVE  queue'[ahead'].op = "note"
    <3>1. ahead' = ahead - 1 /\ ahead > 0 /\ ahead' \in 1 .. Len(queue) - 1 /\ ahead' + 1 = ahead
      BY <1>3, <1>4, <2>2
    <3>2. queue[ahead].op = "note"
      BY <1>1, <1>2, <2>2, <3>1 DEF NoteInv
    <3> QED
      BY <1>3, <3>1, <3>2
  <2> QED
    BY <2>1, <2>2 DEF NoteInv
<1>10. PromiseInv'
  <2>1. \A f \in File : promised[f] \in Nat /\ promised[f] <= disk[f]
    BY <1>1 DEF Numbers, ContentInv, NotNewer
  <2>2. target \in File /\ owed \in Nat /\ (tick \in {"loading", "noting"} => owed <= disk[target])
    BY <1>1 DEF Numbers, ContentInv, Waits
  <2>3. \A f \in File : f \in stale \/ Covered(queue, refreshed, cache, f, promised[f], Len(queue))
    BY <1>2 DEF PromiseInv
  <2>4. tick = "noting" /\ ahead' > 0 =>
          \/ promised[target] <= owed
          \/ \E i \in ahead' + 1 .. Len(queue') : queue'[i].op = "refresh" /\ queue'[i].file = target
    <3> SUFFICES ASSUME tick = "noting", ahead' > 0, ~(promised[target] <= owed)
                 PROVE  \E i \in ahead' + 1 .. Len(queue') :
                            queue'[i].op = "refresh" /\ queue'[i].file = target
      OBVIOUS
    <3>1. PICK i \in ahead + 1 .. Len(queue) : queue[i].op = "refresh" /\ queue[i].file = target
      BY <1>2, <1>4 DEF PromiseInv
    <3>2. i - 1 \in ahead' + 1 .. Len(queue') /\ i - 1 \in 1 .. Len(queue) - 1 /\ (i - 1) + 1 = i
      BY <1>3, <1>4
    <3> QED
      BY <1>3, <3>1, <3>2
  <2>5. CASE RefreshStored \/ RefreshFails
    <3>1. \A f \in File : f \in stale' \/ Covered(queue', refreshed', cache', f, promised[f], Len(queue'))
      BY <2>1, <2>3, <2>5, RefreshedKeepsPromise
    <3>2. tick = "noting" /\ ahead' = 0 => owed <= cache'[target]
      <4> SUFFICES ASSUME tick = "noting", ahead' = 0
                   PROVE  owed <= cache'[target]
        OBVIOUS
      <4>1. ahead = 0
        <5>1. ahead # 1
          BY <1>1, <1>2, <2>5 DEF NoteInv, RefreshStored, RefreshFails, Numbers
        <5> QED
          BY <1>4, <5>1
      <4>2. owed <= cache[target]
        BY <1>2, <4>1 DEF PromiseInv
      <4>3. /\ cache[target] \in Nat /\ cache'[target] \in Nat
            /\ cache[target] <= cache'[target]
        BY <2>2, <2>5, RefreshedIs
      <4> QED
        BY <2>2, <4>2, <4>3
    <3>3. tick = "loading" => Covered(queue', refreshed', cache', target, owed', ahead')
      <4> SUFFICES ASSUME tick = "loading"
                   PROVE  Covered(queue', refreshed', cache', target, owed', ahead')
        OBVIOUS
      <4>1. CASE owed' = 0
        <5>1. cache'[target] \in Nat
          BY <2>2, <2>5, RefreshedIs
        <5>2. 0 <= cache'[target]
          BY <5>1
        <5> QED
          BY <4>1, <5>2 DEF Covered
      <4>2. CASE owed' # 0
        <5>1. owed' = owed /\ (RefreshFails => target # queue[1].file)
          BY <2>5, <4>2 DEF RefreshStored, RefreshFails, NoteApplied
        <5>2. Covered(queue, refreshed, cache, target, owed, ahead)
          BY <1>2 DEF PromiseInv
        <5>3. ahead \in 0 .. Len(queue) /\ ahead' \in Nat /\ ahead <= ahead' + 1
          BY <1>3, <1>4
        <5> QED
          BY <2>2, <2>5, <5>1, <5>2, <5>3, RefreshedCovers
      <4> QED
        BY <4>1, <4>2
    <3> QED
      BY <1>2, <2>4, <3>1, <3>2, <3>3 DEF PromiseInv
  <2>6. CASE ~(RefreshStored \/ RefreshFails)
    <3>1. /\ NoteApplied /\ tick = "noting" /\ ahead = 1 /\ ahead' = 0
          /\ cache' = [cache EXCEPT ![target] = owed]
          /\ stale' = IF owed = disk[target] THEN stale \ {target} ELSE stale
      BY <1>4, <2>6
    <3>2. \A f \in File : cache'[f] = IF f = target THEN owed ELSE cache[f]
      BY <3>1 DEF FreshInv, TypeOK, CacheTypeOK
    <3>3. ASSUME NEW f \in File, f # target
          PROVE  f \in stale' \/ Covered(queue', refreshed', cache', f, promised[f], Len(queue'))
      <4>1. CASE f \in stale
        BY <3>1, <3>3, <4>1
      <4>2. CASE Covered(queue, refreshed, cache, f, promised[f], Len(queue))
        <5>1. /\ Len(queue) \in 0 .. Len(queue) /\ Len(queue') \in Nat /\ Len(queue) <= Len(queue') + 1
              /\ queue \in Seq(Operation) /\ queue # <<>>
          BY <1>1, <1>3 DEF Numbers
        <5>2. ~Reads(queue, refreshed, f, promised[f], 1)
          BY <3>1, <5>1 DEF Reads, NoteApplied
        <5>3. promised[f] <= cache[f] => promised[f] <= cache'[f]
          BY <3>2, <3>3
        <5>4. Covered(Tail(queue), Unread, cache', f, promised[f], Len(queue'))
          BY <4>2, <5>1, <5>2, <5>3, TailCovers
        <5> QED
          BY <5>4
      <4> QED
        BY <2>3, <4>1, <4>2
    <3>4. Covered(queue', refreshed', cache', target, promised[target], Len(queue'))
      <4>1. CASE promised[target] <= owed
        BY <2>2, <3>2, <4>1 DEF Covered
      <4>2. CASE ~(promised[target] <= owed)
        <5>1. PICK i \in ahead + 1 .. Len(queue) : queue[i].op = "refresh" /\ queue[i].file = target
          BY <1>2, <3>1, <4>2 DEF PromiseInv
        <5>2. i - 1 \in 1 .. Len(queue') /\ i - 1 \in 1 .. Len(queue) - 1 /\ (i - 1) + 1 = i
          BY <1>3, <3>1
        <5>3. queue'[i - 1].op = "refresh" /\ queue'[i - 1].file = target
          BY <1>3, <5>1, <5>2
        <5>4. Len(queue') \in Nat /\ refreshed' = Unread
          BY <1>3
        <5> QED
          BY <5>2, <5>3, <5>4, RefreshCovers
      <4> QED
        BY <4>1, <4>2
    <3>5. owed <= cache'[target]
      BY <2>2, <3>2
    <3> QED
      BY <1>2, <2>4, <3>1, <3>3, <3>4, <3>5 DEF PromiseInv
  <2> QED
    BY <2>5, <2>6
<1> QED
  BY <1>5, <1>6, <1>7, <1>8, <1>9, <1>10 DEF CacheInv, ContentInv

----------------------------------------------------------------------------
\* The tick begins, ends, loads and saves.

LEMMA TickIsWarm ==
    ASSUME FreshInv, tick # "off" \/ Hears, Watches
    PROVE  Started
BY ColdIsDeaf

\* Nobody awaits the queue before or after.
LEMMA RestKeeps ==
    ASSUME FreshInv, mode' = mode, Watches => Started,
           UNCHANGED <<fileVars, cacheVars, stale, promised, watcherOn>>,
           ahead = 0, ahead' = 0, tick # "noting", tick' \in {"off", "work"}
    PROVE  CacheInv'
<1>1. Numbers /\ ContentInv /\ WarmInv /\ NoteInv /\ (Watches => PromiseInv)
  BY NumbersAre DEF FreshInv, CacheInv
<1>2. UNCHANGED <<disk, writes, cache, warm, queue, refreshed>> /\ Watches' = Watches
  BY DEF fileVars, cacheVars, Watches
<1>3. NotNewer' /\ HeadRead'
  BY <1>1, <1>2 DEF ContentInv, NotNewer, HeadRead
<1>4. Waits'
  BY DEF Waits
<1>5. WarmInv'
  BY <1>1, <1>2 DEF WarmInv, Started
<1>6. NoteInv'
  BY <1>1, <1>2 DEF NoteInv
<1>7. (Watches => PromiseInv)'
  BY <1>1, <1>2 DEF PromiseInv
<1> QED
  BY <1>3, <1>4, <1>5, <1>6, <1>7 DEF CacheInv, ContentInv

LEMMA WorkAwaitsNothing ==
    ASSUME FreshInv, tick \in {"off", "work", "written"}
    PROVE  ahead = 0
BY NumbersAre DEF FreshInv, CacheInv, ContentInv, Waits, Numbers

LEMMA BeginKeeps ==
    ASSUME FreshInv, mode' = mode, TimerFires \/ TickEnds \/ TickYields \/ TickFails \/ LoadReturns
    PROVE  CacheInv'
<1>1. UNCHANGED <<fileVars, cacheVars, stale, promised, watcherOn, ahead>>
  BY DEF TimerFires, TickBegins, TickEnds, TickYields, TickFails, AfterTick, LoadReturns,
         Watcher!Silence, historyVars, tickVars
<1>2. CASE TimerFires
  <2>1. Hears
    BY <1>2 DEF TimerFires, PollingFires, SafetyFires, DebounceFires
  <2>2. Watches => Started
    BY <2>1, TickIsWarm
  <2>3. CASE turn' = turn
    <3>1. UNCHANGED tickVars
      BY <1>2, <2>3 DEF TimerFires, TickBegins
    <3>2. Quiet
      BY <1>1, <3>1 DEF Quiet
    <3>3. WarmInv'
      BY <1>1, <2>2, WarmKeeps DEF cacheVars
    <3> QED
      BY <3>2, <3>3, QuietKeeps DEF FreshInv
  <2>4. CASE turn' # turn
    <3>1. PICK source \in Sources : runOnce(source)
      BY <1>2 DEF TimerFires, PollingFires, SafetyFires, DebounceFires, FreshInv, TypeOK, LoopTypeOK,
                  Sources
    <3>2. inFlight = "none"
      BY <2>4, <3>1, RanOnce DEF FreshInv, TypeOK
    <3>3. tick = "off" /\ tick' = "work"
      BY <1>2, <2>4, <3>2 DEF FreshInv, TypeOK, TimerFires, TickBegins
    <3> QED
      BY <1>1, <2>2, <3>3, RestKeeps, WorkAwaitsNothing
  <2> QED
    BY <2>3, <2>4
<1>3. CASE TickEnds \/ TickYields \/ TickFails
  <2>1. tick = "work" /\ tick' \in {"off", "work"}
    BY <1>3 DEF TickEnds, TickYields, TickFails, AfterTick
  <2> QED
    BY <1>1, <2>1, RestKeeps, WorkAwaitsNothing, TickIsWarm
<1>4. CASE LoadReturns
  <2>1. tick = "loading" /\ ahead = 0 /\ tick' = "work"
    BY <1>4 DEF LoadReturns
  <2> QED
    BY <1>1, <2>1, RestKeeps, TickIsWarm
<1> QED
  BY <1>2, <1>3, <1>4

\* A load is owed what was promised, and waits for all that is queued.
LEMMA LoadKeeps ==
    ASSUME FreshInv, mode' = mode, LoadCalled
    PROVE  CacheInv'
<1>1. Numbers /\ ContentInv /\ WarmInv /\ NoteInv /\ (Watches => PromiseInv)
  BY NumbersAre DEF FreshInv, CacheInv
<1>2. /\ UNCHANGED <<disk, writes, cache, warm, queue, refreshed, stale, promised, watcherOn>>
      /\ Watches' = Watches /\ tick = "work" /\ tick' = "loading" /\ ahead' = Len(queue)
  BY DEF LoadCalled, Watcher!Silence, fileVars, cacheVars, historyVars, Watches
<1>3. PICK f \in File : target' = f /\ owed' = Due(f)
  BY DEF LoadCalled, FreshInv, TypeOK
<1>4. /\ disk[f] \in Nat /\ cache[f] \in Nat /\ promised[f] <= disk[f]
      /\ 0 <= disk[f] /\ disk[f] <= disk[f] /\ 0 <= cache[f]
  BY <1>1 DEF Numbers, ContentInv, NotNewer
<1>5. Watches => Started
  BY <1>2, TickIsWarm
<1>6. NotNewer' /\ HeadRead'
  BY <1>1, <1>2 DEF ContentInv, NotNewer, HeadRead
<1>7. Waits'
  <2>1. owed' <= disk[f] /\ Len(queue) \in Nat
    BY <1>1, <1>3, <1>4 DEF Numbers, Due
  <2> QED
    BY <1>2, <1>3, <2>1 DEF Waits
<1>8. WarmInv'
  BY <1>1, <1>2, <1>5 DEF WarmInv, Started
<1>9. NoteInv'
  BY <1>1, <1>2 DEF NoteInv
<1>10. (Watches => PromiseInv)'
  <2> SUFFICES ASSUME Watches PROVE PromiseInv'
    BY <1>2
  <2>1. Covered(queue, refreshed, cache, f, owed', Len(queue))
    <3>1. CASE f \in stale
      BY <1>3, <1>4, <3>1 DEF Due, Covered
    <3>2. CASE f \notin stale
      BY <1>1, <1>3, <3>2 DEF PromiseInv, Due
    <3> QED
      BY <3>1, <3>2
  <2> QED
    BY <1>1, <1>2, <1>3, <2>1 DEF PromiseInv
<1> QED
  BY <1>6, <1>7, <1>8, <1>9, <1>10 DEF CacheInv, ContentInv

\* The cache is told of a save.
LEMMA NotingKeeps ==
    ASSUME FreshInv, mode' = mode, SaveNoted
    PROVE  CacheInv'
<1>1. Numbers /\ ContentInv /\ WarmInv /\ NoteInv /\ (Watches => PromiseInv)
  BY NumbersAre DEF FreshInv, CacheInv
<1>2. /\ UNCHANGED <<disk, writes, cache, warm, refreshed, stale, promised, target, owed, watcherOn>>
      /\ Watches' = Watches /\ tick = "written" /\ tick' = "noting"
  BY DEF SaveNoted, Watcher!Silence, fileVars, historyVars, Watches
<1>3. Watches => Started
  BY <1>2, TickIsWarm
<1>4. NotNewer'
  BY <1>1, <1>2 DEF ContentInv, NotNewer
<1>5. CASE Watches
  <2> DEFINE note == [op |-> "note", file |-> target, version |-> owed]
  <2>1. queue' = Append(queue, note) /\ ahead' = Len(queue) + 1
    BY <1>5 DEF SaveNoted, onWritten
  <2>2. note.op = "note" /\ note.file = target /\ note.version = owed /\ note \in Operation
    BY DEF FreshInv, TypeOK, Operation
  <2> HIDE DEF note
  <2>3. /\ Len(queue) \in Nat /\ Len(queue') = Len(queue) + 1
        /\ \A i \in 1 .. Len(queue) : queue'[i] = queue[i]
        /\ queue'[Len(queue) + 1] = note
    BY <1>1, <2>1, <2>2 DEF Numbers
  <2>4. HeadRead'
    <3>1. refreshed # Unread => Len(queue) > 0 /\ queue' # <<>> /\ queue'[1] = queue[1]
      BY <1>1, <2>1, <2>2, <2>3 DEF ContentInv, HeadRead, Numbers
    <3> QED
      BY <1>1, <1>2, <3>1 DEF ContentInv, HeadRead
  <2>5. Waits'
    BY <1>1, <1>2, <2>1, <2>3 DEF ContentInv, Waits
  <2>6. WarmInv'
    BY <1>1, <1>2, <1>3, <1>5 DEF WarmInv, Started
  <2>7. NoteInv'
    <3>1. ASSUME NEW i \in 1 .. Len(queue'), queue'[i].op = "note"
          PROVE  i = ahead' /\ queue'[i].file = target /\ queue'[i].version = owed
      <4>1. i \in 1 .. Len(queue) \/ i = Len(queue) + 1
        BY <2>3
      <4>2. i \notin 1 .. Len(queue)
        BY <1>1, <1>2, <2>3, <3>1 DEF NoteInv
      <4> QED
        BY <2>1, <2>2, <2>3, <4>1, <4>2
    <3>2. queue'[ahead'].op = "note"
      BY <2>1, <2>2, <2>3
    <3> QED
      BY <1>2, <3>1, <3>2 DEF NoteInv
  <2>8. PromiseInv'
    <3>1. promised[target] <= owed
      BY <1>1, <1>2, <1>5 DEF PromiseInv
    <3>2. ASSUME NEW f \in File, f \notin stale
          PROVE  Covered(queue', refreshed, cache, f, promised[f], Len(queue'))
      <4>1. Covered(queue, refreshed, cache, f, promised[f], Len(queue))
        BY <1>1, <1>5, <3>2 DEF PromiseInv
      <4>2. Len(queue') \in Nat /\ Len(queue) <= Len(queue')
        BY <2>3
      <4> QED
        BY <2>3, <4>1, <4>2, LongerCovers
    <3>3. ahead' # 0
      BY <2>1, <2>3
    <3> QED
      BY <1>2, <3>1, <3>2, <3>3 DEF PromiseInv
  <2> QED
    BY <1>4, <2>4, <2>5, <2>6, <2>7, <2>8 DEF CacheInv, ContentInv
<1>6. CASE ~Watches
  <2>1. queue' = queue /\ ahead' = 0
    BY <1>6 DEF SaveNoted
  <2>2. HeadRead' /\ Waits'
    BY <1>1, <1>2, <2>1 DEF ContentInv, HeadRead, Waits
  <2>3. WarmInv'
    BY <1>1, <1>2, <1>6, <2>1 DEF WarmInv, Started
  <2>4. NoteInv'
    BY <1>1, <1>2, <1>6, <2>1 DEF NoteInv
  <2> QED
    BY <1>2, <1>4, <1>6, <2>2, <2>3, <2>4 DEF CacheInv, ContentInv
<1> QED
  BY <1>5, <1>6

\* A save has returned: the cache has what was saved, or something newer.
LEMMA SavedKeeps ==
    ASSUME FreshInv, mode' = mode, SaveReturns
    PROVE  CacheInv'
<1>1. Numbers /\ ContentInv /\ WarmInv /\ NoteInv /\ (Watches => PromiseInv)
  BY NumbersAre DEF FreshInv, CacheInv
<1>2. /\ UNCHANGED <<disk, writes, cache, warm, queue, refreshed, stale, ahead, watcherOn>>
      /\ Watches' = Watches /\ tick = "noting" /\ tick' = "work" /\ ahead = 0
      /\ promised' = [promised EXCEPT ![target] = IF @ > owed THEN @ ELSE owed]
  BY DEF SaveReturns, Watcher!Silence, fileVars, cacheVars, Watches
<1>3. target \in File /\ owed \in Nat /\ owed <= disk[target]
  BY <1>1, <1>2 DEF Numbers, ContentInv, Waits
<1>4. /\ \A f \in File : f # target => promised'[f] = promised[f]
      /\ promised'[target] \in {promised[target], owed}
  BY <1>2, <1>3 DEF FreshInv, TypeOK
<1>5. Watches => Started
  BY <1>2, TickIsWarm
<1>6. NotNewer'
  <2> SUFFICES ASSUME NEW f \in File
               PROVE  /\ disk[f] <= writes /\ promised'[f] <= disk[f]
                      /\ cache[f] <= disk[f] \/ cache[f] = Unread
                      /\ warm[f] <= disk[f] \/ warm[f] = Unread
    BY <1>2 DEF NotNewer
  <2>1. /\ disk[f] <= writes /\ promised[f] <= disk[f]
        /\ cache[f] <= disk[f] \/ cache[f] = Unread
        /\ warm[f] <= disk[f] \/ warm[f] = Unread
    BY <1>1 DEF ContentInv, NotNewer
  <2> QED
    BY <1>3, <1>4, <2>1
<1>7. HeadRead' /\ Waits'
  BY <1>1, <1>2 DEF ContentInv, HeadRead, Waits
<1>8. WarmInv'
  BY <1>1, <1>2, <1>5 DEF WarmInv, Started
<1>9. NoteInv'
  BY <1>1, <1>2 DEF NoteInv, Numbers
<1>10. (Watches => PromiseInv)'
  <2> SUFFICES ASSUME Watches, NEW f \in File, f \notin stale
               PROVE  Covered(queue, refreshed, cache, f, promised'[f], Len(queue))
    BY <1>2 DEF PromiseInv
  <2>1. CASE promised'[f] = promised[f]
    BY <1>1, <2>1 DEF PromiseInv
  <2>2. CASE f = target /\ promised'[f] = owed
    BY <1>1, <1>2, <2>2 DEF PromiseInv, Covered
  <2> QED
    BY <1>4, <2>1, <2>2
<1> QED
  BY <1>6, <1>7, <1>8, <1>9, <1>10 DEF CacheInv, ContentInv

\* A write, by the tick or by somebody else, makes one file newer than anything.
LEMMA WriteKeeps ==
    ASSUME FreshInv, TypeOK', NEW f \in File, writeJsonFileAtomic(f), UNCHANGED cacheVars,
           promised' = promised
    PROVE  /\ NotNewer' /\ HeadRead' /\ \A g \in File : disk[g] <= disk'[g]
           /\ disk'[f] = writes + 1 /\ promised[f] < writes + 1
<1>1. Numbers /\ NotNewer /\ HeadRead
  BY NumbersAre DEF FreshInv, CacheInv, ContentInv
<1>2. /\ writes' = writes + 1 /\ writes \in Nat /\ disk \in [File -> 0 .. MaxWrites]
      /\ disk' = [disk EXCEPT ![f] = writes + 1]
  BY <1>1 DEF writeJsonFileAtomic, FreshInv, TypeOK, CacheTypeOK, Numbers
<1>3. \A g \in File : disk'[g] = IF g = f THEN writes + 1 ELSE disk[g]
  BY <1>2
<1>4. \A g \in File : /\ disk[g] \in Nat /\ disk[g] <= writes
                      /\ promised[g] \in Nat /\ promised[g] <= disk[g]
                      /\ cache[g] \in Nat /\ (cache[g] <= disk[g] \/ cache[g] = Unread)
                      /\ warm[g] \in Nat /\ (warm[g] <= disk[g] \/ warm[g] = Unread)
  BY <1>1 DEF Numbers, NotNewer
<1>5. \A g \in File : disk[g] <= disk'[g] /\ disk'[g] \in Nat /\ disk'[g] <= writes + 1
  BY <1>2, <1>3, <1>4
<1>6. UNCHANGED <<cache, warm, queue, refreshed>>
  BY DEF cacheVars
<1>7. NotNewer'
  <2> SUFFICES ASSUME NEW g \in File
               PROVE  /\ disk'[g] <= writes + 1 /\ promised[g] <= disk'[g]
                      /\ cache[g] <= disk'[g] \/ cache[g] = Unread
                      /\ warm[g] <= disk'[g] \/ warm[g] = Unread
    BY <1>2, <1>6 DEF NotNewer
  <2> QED
    BY <1>4, <1>5
<1>8. HeadRead'
  <2> SUFFICES ASSUME refreshed # Unread
               PROVE  /\ queue # <<>> /\ queue[1].op = "refresh"
                      /\ cache[queue[1].file] <= refreshed /\ refreshed <= disk'[queue[1].file]
    BY <1>6 DEF HeadRead
  <2>1. /\ queue # <<>> /\ queue[1].op = "refresh"
        /\ cache[queue[1].file] <= refreshed /\ refreshed <= disk[queue[1].file]
    BY <1>1 DEF HeadRead
  <2>2. queue[1].file \in File /\ refreshed \in Nat
    BY <1>1, <2>1, TailOfQueue, OperationIs DEF Numbers
  <2> QED
    BY <1>4, <1>5, <2>1, <2>2
<1>9. disk'[f] = writes + 1 /\ promised[f] < writes + 1
  BY <1>2, <1>3, <1>4
<1> QED
  BY <1>5, <1>7, <1>8, <1>9

LEMMA SaveKeeps ==
    ASSUME FreshInv, TypeOK', mode' = mode, SaveWritten
    PROVE  CacheInv'
<1>1. Numbers /\ ContentInv /\ WarmInv /\ NoteInv /\ (Watches => PromiseInv)
  BY NumbersAre DEF FreshInv, CacheInv
<1>2. /\ UNCHANGED cacheVars /\ UNCHANGED <<cache, warm, queue, refreshed, stale, ahead, promised, watcherOn>>
      /\ Watches' = Watches /\ tick = "work" /\ tick' = "written" /\ owed' = writes + 1
  BY DEF SaveWritten, Watcher!Silence, cacheVars, Watches
<1>3. PICK f \in File : writeJsonFileAtomic(f) /\ target' = f
  BY DEF SaveWritten
<1>4. NotNewer' /\ HeadRead' /\ disk'[f] = writes + 1 /\ promised[f] < writes + 1
  BY <1>2, <1>3, WriteKeeps
<1>5. Watches => Started
  BY <1>2, TickIsWarm
<1>6. ahead = 0
  BY <1>2, WorkAwaitsNothing
<1>7. Waits'
  BY <1>1, <1>2, <1>3, <1>4, <1>6 DEF Waits, Numbers
<1>8. WarmInv'
  BY <1>1, <1>2, <1>5 DEF WarmInv, Started
<1>9. NoteInv'
  BY <1>1, <1>2 DEF NoteInv
<1>10. (Watches => PromiseInv)'
  BY <1>1, <1>2, <1>3, <1>4 DEF PromiseInv, Numbers
<1> QED
  BY <1>4, <1>7, <1>8, <1>9, <1>10 DEF CacheInv, ContentInv

LEMMA OutsideKeeps ==
    ASSUME FreshInv, TypeOK', mode' = mode, OutsideWrite
    PROVE  CacheInv'
<1>1. Numbers /\ ContentInv /\ WarmInv /\ NoteInv /\ (Watches => PromiseInv)
  BY NumbersAre DEF FreshInv, CacheInv
<1>2. /\ UNCHANGED cacheVars
      /\ UNCHANGED <<cache, warm, queue, refreshed, tick, target, owed, ahead, promised, starting, watcherOn>>
      /\ Watches' = Watches
  BY DEF OutsideWrite, Watcher!Silence, cacheVars, tickVars, loopVars, lifeVars, Watches
<1>3. PICK f \in File : writeJsonFileAtomic(f)
  BY DEF OutsideWrite
<1>4. stale \subseteq stale'
  BY DEF OutsideWrite
<1>5. NotNewer' /\ HeadRead' /\ \A g \in File : disk[g] <= disk'[g]
  BY <1>2, <1>3, WriteKeeps
<1>6. Waits'
  <2>1. target \in File /\ owed \in Nat /\ disk[target] \in Nat /\ disk'[target] \in Nat
    BY <1>1, <1>2, NumbersWillBe DEF Numbers
  <2> QED
    BY <1>1, <1>2, <1>5, <2>1 DEF ContentInv, Waits
<1>7. WarmInv'
  BY <1>1, <1>2 DEF WarmInv, Started
<1>8. NoteInv'
  BY <1>1, <1>2 DEF NoteInv
<1>9. (Watches => PromiseInv)'
  BY <1>1, <1>2, <1>4 DEF PromiseInv
<1> QED
  BY <1>5, <1>6, <1>7, <1>8, <1>9 DEF CacheInv, ContentInv

----------------------------------------------------------------------------
\* Every load is fresh.

LEMMA InitFresh == Init => CacheInv
<1> SUFFICES ASSUME Init PROVE CacheInv
  OBVIOUS
<1>1. /\ queue = <<>> /\ refreshed = Unread /\ tick = "off" /\ ahead = 0 /\ writes = 0
      /\ starting = "no" /\ ~watcherOn
      /\ \A f \in File : disk[f] = 0 /\ promised[f] = 0 /\ cache[f] = Unread /\ warm[f] = Unread
  BY DEF Init, LoopInit, CacheInit, Watcher!Init
<1>2. ~Started
  BY <1>1, AnyFile DEF Started
<1>3. Unread \in Nat
  BY CacheAssumption DEF Unread
<1>4. ContentInv
  BY <1>1 DEF ContentInv, NotNewer, HeadRead, Waits
<1>5. WarmInv /\ NoteInv
  BY <1>1, <1>2 DEF WarmInv, NoteInv
<1>6. PromiseInv
  BY <1>1, <1>3 DEF PromiseInv, Covered
<1> QED
  BY <1>4, <1>5, <1>6 DEF CacheInv

LEMMA NextFresh == FreshInv /\ [Next]_vars => FreshInv'
<1> SUFFICES ASSUME FreshInv, [Next]_vars PROVE FreshInv'
  OBVIOUS
<1>1. IInv' /\ TypeOK' /\ mode' = mode
  BY NextKeeps, NextTypes, ModeKept DEF FreshInv
<1>2. CASE UNCHANGED vars
  <2>1. Quiet /\ WarmInv'
    BY <1>2 DEF vars, fileVars, cacheVars, tickVars, historyVars, loopVars, lifeVars, watcherVars, Quiet,
                FreshInv, CacheInv, WarmInv, Started, Watches
  <2> QED
    BY <1>1, <2>1, QuietKeeps DEF FreshInv
<1>3. CASE Next
  <2>1. CacheInv'
    BY <1>1, <1>3, QuietStepKeeps, WarmUpKeeps, ReportKeeps, ReadKeeps, EndKeeps, BeginKeeps,
       LoadKeeps, NotingKeeps, SavedKeeps, SaveKeeps, OutsideKeeps DEF Next, Life, Cache, TickStep
  <2> QED
    BY <1>1, <2>1 DEF FreshInv
<1> QED
  BY <1>2, <1>3

(* What a tick loads is never older than what was reported before it asked  *)
(* or saved by the service itself: for any files, and any number of writes, *)
(* failures and reports, in whatever order refreshes, notes and loads meet. *)
THEOREM ServiceLoadsFresh == Spec => []LoadsAreFresh
<1>1. Init => FreshInv
  BY InitKeeps, InitTypes, InitFresh DEF FreshInv
<1>2. FreshInv => LoadsAreFresh
  <2> SUFFICES ASSUME FreshInv, tick = "loading", ahead = 0
               PROVE  Content(target) >= owed
    BY DEF LoadsAreFresh
  <2>1. target \in File /\ owed \in Nat /\ disk[target] \in Nat /\ cache[target] \in Nat
    BY NumbersAre DEF FreshInv, Numbers
  <2>2. owed <= disk[target]
    BY DEF FreshInv, CacheInv, ContentInv, Waits
  <2>3. Watches => owed <= cache[target]
    BY DEF FreshInv, CacheInv, PromiseInv, Covered
  <2> QED
    BY <2>1, <2>2, <2>3 DEF Content, load
<1> QED
  BY <1>1, <1>2, NextFresh, PTL DEF Spec
====
