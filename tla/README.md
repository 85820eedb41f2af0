# A verification of OpenClaw Swarm Layer

Swarm Layer turns a specification into a graph of tasks, hands the tasks to runners (a human, or an
agent in an ACP session), keeps the state of it all in JSON files, and lets an autopilot do by itself
what an operator does with commands. This directory holds TLA+ models of its core, the TLC
configurations that check them on small instances, and theorems about them that TLAPS proves for every
instance. Paths below are relative to the repository; the TypeScript sources are in `src/src`.

To check everything: `tlc -config <X>.cfg <X>.tla` for each `.cfg`, and `tlapm <M>Proofs.tla` for each
module of proofs.

## 1. The system

### Components

| component | state it keeps | operations | what makes it correct |
|---|---|---|---|
| task graph, planner (`planning/`) | the tasks of the workflow, each with its dependencies | plan a spec, insert evaluators, validate, promote, rank for dispatch | a task waits for what the spec says, nothing starts before its dependencies are done |
| review gate (`review/`) | task status, review status, review queue, lifecycle | apply the status of a run, apply a decision | what needs a review is never forgotten, a finished task stays finished, the lifecycle means what it says |
| orchestrator (`services/orchestrator.ts`) | none of its own; it reads and writes the workflow file, the run records, the session records | runOnce, runBatch, syncRun, syncActiveRuns, cancelRun, evaluateRetry, closeSession | one session per task, never more than `acp.maxConcurrent`, every run tracked |
| runners, retry engine (`runtime/*runner*`, `retry-engine`, `session-sync`, `artifact-acceptance`) | run records | run, sync, decide on a retry | a retry policy is exhausted after `maxAttempts` |
| session adapter and bridge (`runtime/*adapter*`, `*bridge*`) | errors of turns, in memory | spawn, status, cancel, close | the state of the remote session is read right |
| sessions (`session/`) | session records | create, select for reuse, close, clean up | a record does not offer a session that is at work or gone |
| autopilot controller, lease, control (`autopilot/controller`, `lease`, `control`, `autopilot-store`) | `autopilot-state.json`: desired state, lease, metrics | tick, start, pause, resume, stop | one active tick, the operator's wish is heeded |
| recovery planner, review policy, metrics (`autopilot/`) | none | plan recoveries, decide on reviews, judge health | the recovery budget holds, nothing is approved that failed, no silent stall |
| service loop (`autopilot/service-loop`) | timers, a queue of triggers | start, stop, trigger, run ticks | one tick at a time, no trigger lost, none after stop |
| state watcher (`autopilot/state-watcher`) | subscriptions, pending events | start, stop, flush | no event after stop, no leaked subscription |
| state store, state cache (`state/`) | the files; copies of them in memory | load, save, refresh | a read sees the process's own writes, the cache catches up |
| configuration, spec importer, reporting, journal, CLI and tools, workspace | none that the others read | parse, format, print | - |

### Who talks to whom

Every CLI command and every tool call is a process (or an async task) of its own that loads the
workflow file, calls one operation and saves the file. The autopilot's service loop, started with the
plugin, calls `tick`, which takes the lease in `autopilot-state.json`, syncs the active runs, lets the
review policy decide, cancels and retries stuck runs, dispatches a batch, and writes its state back.
Nothing locks the workflow file: a write is atomic (a temporary file is renamed), a load followed by a
save is not. The agents' sessions live outside, in the ACP runtime; the program starts, polls and stops
them. The watcher and the cache turn changes of the files into ticks and cheap reads.

### Which behaviours are hard

* *Interleaving*: most operations save a workflow computed from a copy loaded several awaits before
  (`orchestrator.ts` 259 -> 414, 747 -> 793, 429 -> 480). Two processes lose each other's updates.
* *Crash and partial failure*: session, run record and workflow are three writes; a throwing poll ends
  the sync, and the tick.
* *Transitions that do not look*: the review gate applies any report and any decision to a task in any
  state; only the callers make sense of it.
* *Timeouts and retries*: recovery stops a run that may be about to finish, and starts the task again.
* *Limits*: concurrent sessions, retries, recoveries, rejections.
* *Time*: a lease that expires while its holder works; degraded mode that judges by old runs.
* *Callbacks*: timers, file events and promises of one event loop in any order, with starts and stops
  between the awaits of other starts and stops.
* *Copies*: a cache refreshed by events that are debounced, and overwritten by what the process itself
  wrote.
* *A lease without a lock*: the autopilot state is loaded, decided upon and saved by ticks and commands
  that do not see each other (`controller.ts` 50 -> 124, `service-loop.ts` 209 -> 233).

`PROJECT.json` lists every hazard at its line, with the property that would notice it or the reason
why none does.

## 2. The modules

    Planner                                           (a spec becomes a graph of tasks)
    Planner, SwarmWorkflow  <-  PlannedWorkflow       (the workflow and what it starts from)
    TaskGraph  <-  ReviewGate  <-  SwarmWorkflow      (serial: whole operations, one file)
                               <-  SwarmOrchestrator  (processes, files, sessions)
                                     <- SwarmAutopilot   (the whole tick, session records, outages)
                                     <- SwarmQueueOrder
    AutopilotLease                                    (ticks, commands, autopilot-state.json)
    ServiceLoop, StateCache  <-  SwarmService         (timers, watcher, cache, ticks, other writers)
    StateWatcher                                      (start, stop, subscriptions, debounce)

`A <- B`: B extends A. Three modules are abstract specifications of others, with the refinement checked
and its safety proved or checked: SwarmOrchestrator implements SwarmWorkflow, StateWatcher implements
WatcherContract, SwarmService implements TickDemand. SwarmService in turn knows the watcher only by
WatcherContract.

**Planner** - `planTasksFromSpec`, `injectEvaluatorTasks` and `validateTaskGraph`, as functions from specs
to plans. A task is its id and the ids it waits for; ids are what the code formats them from, so that two
phases with the same title collide here as there. What the author of a spec means by it is `MustWait`,
stated without a plan, and `Follows` compares the two. **PlannedWorkflow** states this of all `Specs`,
beside the workflow; MCSwarmWorkflow takes its task graph from a plan.

**TaskGraph** - `planning/task-graph.ts` and the admission arithmetic of `runBatch`. A task is its
position in the workflow's array, so the scanning order of the code is `<`. The operators take a status
function, because the code calls them on snapshots.

**ReviewGate** - the transitions of a workflow, as functions from the workflow an operation loaded to the
one it saves: `applyAcpRunStatusToWorkflow` (`RunActive`, `RunCompleted`, `RunFailed`, `RunCancelled`),
`applyReviewDecision` (`Approve`, `RejectToBlocked`, `RejectForRetry`), and the workflows that `runOnce`,
`runBatch` and `evaluateRetry` build (`Dispatched`, `MarkQueued`, `RearmedForRetry`, `DeadLettered`).
A workflow is a record of five fields: statuses, review statuses, reject counts, review queue (a set:
it has no repetitions and nothing here reads its order), lifecycle. `WorkflowCoherent` says what all of
them preserve.

**SwarmWorkflow** - the abstract specification: one variable `wf`, each operation one step on the file as
it is, asked for where it makes sense.

**SwarmOrchestrator** - the orchestrator and its callers. Variables: `wf` (workflow-state.json), `ledger`
(the ACP run records), `manualAt` (when the manual record of a task was written; it has a fixed name, so
there is one per task), `remote` (the session each run spawned, outside the program), `nextRun`, and
`proc[p]`, the locals of the operation process `p` executes. An operation is cut where the code awaits a
load, a write or a call into the runtime:

| code | steps |
|---|---|
| `runBatch`, `runOnce` | `StartBatch` / `StartRunOnce`, then per task `SkipTask` or `PickTask`, `SpawnSession`, `RecordRun` (or `RecordManualRun`), `CommitDispatch`; at the end `ReloadForQueue`, `EnqueueOverflow` |
| `syncActiveRuns`, `syncRun`, `syncRunRecord` | `StartSyncActive` / `StartSyncRun`, then per run `LoadForSync`, `Observe`, `NoteSynced`, `Settle` |
| `planAutopilotRecovery`, `swarm session cancel`, `cancelRun` | `StartRecovery` / `StartCancel`, `CancelSession`, `StampRun`, `LoadForCancel`, `ApplyCancel` |
| `tick` after a recovery, `evaluateRetry` | `RereadRun`, `EvaluateRetry`, then `WriteHistory`, `RearmTask` (and a `runOnce`), or `BuryTask` |
| `swarm review`, the review policy | `StartReview`, `Decide` |
| `swarm plan` | `Replan` |
| outside | `SessionEnds`, `RuntimeCallFails`, `Crash` |

*Autopilots* start what a tick starts, where a tick does; *Operators* start any command on any task or
run. `SupervisedSpec` has autopilots only and no crashes; `Spec` has everything.

**SwarmQueueOrder** adds a history variable with the order in which tasks were queued.

**AutopilotLease** - `controller.ts`, `lease.ts`, `control.ts` and the failure path of `service-loop.ts`,
seen from `autopilot-state.json`. Variables: `state` (the file: what the operator desires, the runtime
state, the owner of the lease), `expired` (owners whose `expiresAt` has passed), `tick[p]` (the phase of
the tick that `p` runs, its own owner id, its copy of the state, the recoveries left to do), `command`
(the copy a command is about to save). Again an operation is cut at its awaits:

| code | steps |
|---|---|
| `tick`, the lease | `Load`, `Acquire`, then `Claim`, or `Yield` if the lease is held |
| `tick`, the work | `Sync`, `CheckControl` and `Recover` for each recovery, `RecheckControl`, `Dispatch` |
| `tick`, the end | `Release`, `Persist` |
| `runTickChain`, `recordFailure` | `Fail`, `LoadForFailure`, `Absolve` |
| `applyAutopilotControl` | `LoadForCommand`, `SaveCommand` |
| outside | `Crash` of a tick's process, `Expire` |

*Loops* tick again and again and record failures; *Hands* run single ticks from the command line.

**SwarmAutopilot** - the whole of `AutopilotController.tick` over the operations of SwarmOrchestrator, by
one process that holds its lease. Variables beside those of SwarmOrchestrator: `phase` of the tick, `plan`
(recovery actions left), `sessions` (session records), `unwritten` (a record about to be written),
`closed` and `closedSeen` (the "closed" events of run records, in the file and in the operation's copy);
outside, `lost` and `outage` (sessions the runtime cannot be asked about), `stuck` and `rested` (ages).

| code | steps |
|---|---|
| `tick` | `TickBegins` (sync), `Review`, `PlanRecovery`, `SafeCancel` / `SafeClose` per action, `Dispatch`, `TickEnds` |
| the operations a tick calls | `OperationStep`, made of the steps of SwarmOrchestrator; `WriteSession` for the record each of them writes last |
| calls into the runtime that throw | `CallThrows`, `CloseThrows`, `SpawnThrows`: they end the operation and the tick |
| `swarm session close / status / cleanup` | `SessionClose`, `SessionStatus`, `SessionCleanup`, between any two steps of a tick |
| outside | `RemoteEnds`, `GrowsStuck`, `GrowsStale`, `OutageBegins`, `OutageEnds`, `Killed` |

**StateWatcher** - `state-watcher.ts`. A call of `start()` is known by its generation, and `call[g]` is the
await it waits at; every piece between two awaits is an action that looks at the generation as the code
does. `subscriptions` and `nodeWatchers` are what the watcher holds, `osSubscriptions` what exists; `raw`
is what backends have yet to say. Each of load, subscribe, directory and watch can fail.
**WatcherContract** is what its listeners rely on.

**ServiceLoop** - the timers and the chain of ticks of `service-loop.ts`. **StateCache** - `state-cache.ts`:
one queue of refreshes and notes, each refresh a read and a store, a load that waits for the operations
queued before it. **SwarmService** - what `createSwarmService` makes of them: the events of the watcher
refresh the cache and then ask the loop for a tick; a tick loads every file, saves some, and writes the
autopilot's own state; other processes write when they like. A file's content is the number of the write
it comes from. **TickDemand** is the loop's promise: a demand is answered by a tick that begins later.

Definitions introduced by a comment "Slip" are the same step with a plausible mistake; no specification
uses them. Each property has been confirmed to fail with one of them put in place of the original.

### What the models leave out, and why that is sound

*Planner to SwarmAutopilot.*

* Budgets, journal, reports, dry runs, task kinds and bootstrap change none of the files above; the
  immutability guard is off by default and compares fields nothing here changes. Session records are
  nobody's input in SwarmOrchestrator, and part of SwarmAutopilot.
* `PollOutcome` says what a poll makes of a session. A session that ended cleanly completes, or fails if
  artifact acceptance (a choice) finds something missing. A turn that broke is known to the process that
  started it, which keeps the error in memory; another process sees it only if the runtime records it.
  `ErrorsRecorded` says whether it does; the runs of files and locks take FALSE, the weaker case.
  `autopilot` takes TRUE: with FALSE, a broken turn polled after a restart is taken for a success, and
  `DoneIsEarned` fails.
* The two loads at the start of a recovery (`planAutopilotRecovery` reads the runs, `cancelRun` its
  record) are one step, and so are the two loads of `syncActiveRuns`. SwarmOrchestrator takes the
  decisions of the review policy one task at a time, SwarmAutopilot all at once, as the code does.
* Artifact acceptance changes "completed" only, so a run that is polled, and active, keeps its status when
  the ledger answers for its session; `session status`, which may ask of a run that is over, may turn it
  to "failed" that way.
* The review policy's load of the workflow, its load of the runs and its save are one step (`Review`):
  commands may fall before and after it.
* Ids of runs grow with `startedAt`; `recoveryPolicy.cancelBeforeRetry` is true; all tasks share one
  retry policy. `Replan` is one step: nothing it saves of tasks and queue depends on what it loaded. The
  empty workflow of `swarm init` is not an initial state.
* Dependencies need not be acyclic in the proofs: the planner's graphs are a special case.
* A reused session leaves no trace in SwarmAutopilot, as in the code: `spawnAcpSession` does not look at
  the `existingSessionKey` it is given. `require_existing` without a session skips the task. The default
  binding key `<spec>:<kind>` never matches a record, since records hold only keys that were set.

*AutopilotLease.* It has no clock: a lease that was granted expires at some moment, and `Expire` may
choose any, so every `leaseSeconds` and every speed of a tick is covered. Owner ids are random in the
code; here an id is used again once it is in no file and no copy. Metrics, decisions and reasons are left
out, as nothing here reads them; degraded mode is a choice not to dispatch. The autopilot is enabled in
the configuration, and dry runs, which save nothing of this, are left out. SwarmAutopilot has the rest of
the tick and no lease: what a pause does is checked here, what a tick does there.

*StateWatcher.* Closing and unsubscribing do not fail; error events and the sequence numbers of events
are left out; a client that stops the watcher waits for it before it starts it again, as the loop does.

*SwarmService.* The service is stopped after its start has made a loop: a stop while the cache is still
being filled finds none, and the loop starts afterwards (`orchestrator.ts:849`, `:884`), which the model
leaves out. When `recordFailure` fails as well, the promise of the chain is rejected. Timers drop it
(`void`), and what an unhandled rejection does to the process is the host's choice: the model is of a
host on which it goes on. A `stop()` that awaits the chain is rejected with it, and this is modelled
(`stopping = "failed"`). A tick that finds the lease taken or the autopilot paused loads only the
workflow (`TickYields`); it counts as a fault, since without a bound every tick might be one.
Between the end of a chain and the `finally` of the timers that awaited it no other
callback runs, as these are microtasks. A loop is started once, because the service makes a new one at
every start. Nothing in the program deletes a state file, so delete events do not reach the cache.
A backend's callback about a file the process has just renamed comes after the rename has returned.

## 3. What the runs check

| run | instance | what it shows |
|---|---|---|
| `workflow_serial` (MCSwarmWorkflow) | every spec of up to 3 phases with up to 2 tasks, with and without evaluators (`PlansFollowTheSpec`); over one of them, 4 tasks: two independent, their join, a successor; 3 ACP, 2 reviewed; rejections retried once | the planned graph is what the spec says, and the workflow's invariants under whole operations: `Coherent`, `DependenciesHonoured`, `ReviewIsOfUnfinished`, and that no step takes a task out of done (`DoneIsFinal`) |
| `supervised` (MCSwarmOrchestrator) | 1 process, 4 ACP tasks, one of which needs a review before another may start, 2 slots, 3 runs, 2 attempts, 1 recovery | `NoDuplicateSession`, `ConcurrencyLimit`, `DependencyOrder`, `SessionsTracked`, `RecoveryBudget`, and that the detailed module implements the abstract one (`SerialSpec`) |
| `interleaved` (MCSwarmInterleaved) | 2 processes, an autopilot with recoveries and one attempt, an operator with run, cancel and review, crashes; 2 tasks in a row, the second manual; 1 run | `Coherent` and `LedgerBacksWorkflow` survive lost updates |
| `contended` (MCSwarmContended) | 2 processes, all commands with `sync` of any run, `plan` and a change of runner, crashes, 1 task, 2 attempts | `VerdictsAreTrue`, `LedgerBacksWorkflow`, `Coherent`, types |
| `autopilot` (MCSwarmAutopilot) | 1 slot, 2 tasks: one reviewed and only to run in a session that exists, one that leaves a session behind; 3 runs, 2 attempts, 1 recovery, 1 disturbance (a kill, an outage, a throwing spawn or a session command) | `DoneIsEarned`, `SessionRecordsAreTrue`, `EndedIsNoticed`, `IdleIsClosed`, `StallsForAReason` |
| `lease` (MCAutopilotLease) | a loop whose ticks may fail or be killed twice, every command, at most 2 recoveries a tick, 4 owner ids | `TickingMeansLeased`, `LockoutEnds`, `HoldTakesEffect`, types |
| `watcher` (MCStateWatcher) | 2 run files and a lock file, every library, 2 starts and 2 stops or failures, 2 changes | `NoLeak`, `OnlyCurrentReports`, `NoticedIsReported`, and the refinement of WatcherContract (`ContractSpec`) |
| `service` (MCSwarmService) | a polling or watching service, 1 cached file and the autopilot's own, 1 write, 1 fault | `NeverDeaf`, `StoppedIsQuiet`, `LoadsAreFresh`, `CacheCatchesUp`, `ChangeReachesATick`, and the refinement of TickDemand (`DemandSpec`) |
| `retry_exhaustion` (MCSwarmRetry) | 1 process, 1 task, 2 attempts, 2 recoveries, 3 runs | `RetriesExhaust` fails, see below |
| `queue_order` (MCSwarmQueueOrder) | 1 process, 3 tasks, 1 slot | `FirstInFirstOut` fails, see below |
| `lease_overlap` (MCLeaseOverlap) | a loop and a tick run by hand, no faults, no commands | `OneActiveTick` fails, see below |
| `self_trigger` (MCSelfTrigger) | a watching service, nobody else writes | `IdleIsQuiet` fails, see below |

The properties in words:

* `Coherent`: a task that needs a review is in the queue, pending; "completed" means all is done or
  buried and the queue is empty; "reviewing" means there is something to review; no task is left planned
  whose dependencies are done.
* `LedgerBacksWorkflow`: a task that runs has a run record, one under review or done without approval
  has some record. This is why the code writes the run before the workflow.
* `VerdictsAreTrue`: a record that says a run is over is right, its session is at work no more; and one
  that says "completed" is of a session that a poll can have taken for that. It is what reviews, retries
  and recoveries go by. Several processes poll, cancel and retry one run, and each writes the record from
  the one it read: the poll must come before the verdict in each of them, a cancel that throws must leave
  no verdict, and no late writer may take a verdict back to where it was wrong.
* `NoDuplicateSession`, `ConcurrencyLimit`, `DependencyOrder`, `SessionsTracked`, `RecoveryBudget`: what
  one process guarantees of the sessions it starts. They are stated of sessions, not only of files: with
  two processes at work, or a crash between two steps, they are not to be had, which is why the autopilot
  has a lease.
* `SerialSpec`: everything one process does with stale copies amounts to whole operations on the
  current file.
* `TickingMeansLeased`: a file that says "ticking" names a lease, although stale copies are saved over
  it and a failing tick clears whatever lease it finds.
* `LockoutEnds`: no lease stays in the file for ever, though its holder may be dead.
* `PlansFollowTheSpec`: a plan is refused exactly when two phases share a slug; otherwise what a task
  waits for, directly or not, is what the phases say, the evaluators in between included.
* `DoneIsEarned`: what only the autopilot decided on is done only if a session of it ended without error.
* `SessionRecordsAreTrue`: a record that offers a session as idle, or says that it is over, speaks of a
  session and a run that are over. A tick that was killed, or that wrote the workflow over what a status
  command had saved, is excepted (`torn`): then it does not hold, and the code does not repair it.
* `EndedIsNoticed`, `IdleIsClosed`: if in the end every session can be asked, ended sessions are noticed
  and persistent ones that nobody uses are closed, also in degraded mode. With one slot two active runs
  never meet, so `EndedIsNoticed` says nothing of one run that holds up the sync of another.
* `StallsForAReason`: an autopilot that does nothing more has a reason, and the reasons are listed.
* `NoLeak`, `OnlyCurrentReports`, `NoticedIsReported`: however starts, stops and failures of the watcher
  overlap, no subscription is forgotten, nothing heard before the current start is reported, and what the
  current start hears is reported unless the watcher is stopped.
* `NeverDeaf`, `StoppedIsQuiet`: a running loop has its timers armed, or somebody who will arm them; a
  stopped one has no tick in flight and nothing that could begin one. This is about the `stop()` of the
  loop, whether it returns or is rejected by the tick that it awaits.
* `LoadsAreFresh`: a tick loads nothing older than what was reported before it asked, or than what the
  service itself has saved. `CacheCatchesUp`: the cache agrees with the disk again and again.
  `ChangeReachesATick`: a change the watcher's backend saw is loaded by some tick. A refresh that fails,
  and a change made before the watcher was subscribed, leave the copy old (`stale`) until the next report
  of the file, as the code does not try again; from that report on all three hold again. (A report that
  falls between a save of the service's own and the note of it does not help: the note comes last.)
* `HoldTakesEffect`: if the file says paused or stopped from some moment on, the loops stop recovering
  and dispatching. A command alone does not ensure the premise: a tick that yields saves the wish it
  loaded, and one that persists saves the wish it merged before, so a command in between is lost.

**Bounds.** `MaxRuns` bounds the ACP runs ever started, `RejectBound` the rejections for retry. Three
runs let one task be dispatched, recovered, retried and reviewed while others take part, and overfill
both slots if the limit fails; with two processes one run suffices for a sync, a cancel, a decision and a dispatch of the
other task to overlap with each other and with the late report of that run. The proofs below have no
bounds but those names. The supervised runs stop when all tasks are done or the runs are used up, so
they do not check for deadlock; the two with an operator never stop and do.

In the `lease` run a loop is alone with the operator: with a second ticker the state space grows beyond
what a run can search, and the properties of safety are proved for any number. Two faults let a failing
tick meet the lease that a killed one left behind, two recoveries let a command come between them, and
four owner ids leave one to choose while the file, a command's copy and a tick's copy name three others.

In `autopilot`, three runs are one of the second task, whose session the first then waits for or uses, and
a retry of either; one slot makes them compete; the window of degraded mode (3 runs, all failed, at
least 2) can fill. One disturbance may fall between any two steps. `MaxDispatch` is 2, the default; with
1 the first task, skipped for want of a session at each tick, starves the second and `StallsForAReason`
fails.

In `watcher`, four generations are two starts, each ended by a stop or a failure: the second start runs
while what the first left behind comes to its end. Two changes let two files, or one file twice, fall into
one flush. In `service`, one outside write or own write and one fault (`MaxFaults`: a tick that fails or
yields, a refresh that fails, an error of the watcher) meet every state of the loop. Larger
instances of it took too long for a run but were checked once: the modes polling and hybrid, two writes
without faults, and two writes with a fault.

**Fairness.** `lease`: weak fairness of a loop's tick steps, which its timers ensure (after each tick,
failed or not, `schedulePolling` arms the next, and a killed loop is started again with the plugin), and of `Expire`:
time passes. `autopilot`: weak fairness of the tick's steps for the same reason; strong fairness of
`Time`, which grows an age only between two ticks, because time passes during ticks as well. No session
has to end, no outage to be over. `watcher`: Node fires the debounce timer and makes the callbacks.
`service`: callbacks, timers, reads and writes return (`EventLoop`), and the interval timers fire
(`IntervalTimers`; `self_trigger` does without them). Nothing is ever assumed of commands, faults, other
writers or stops. `supervised`, `interleaved`, `contended` and `workflow_serial` state safety only.

**Disagreements with the documentation.** Four, each shown by a run:

* *Retries are not exhausted.* `evaluateRetry` appends the history to the record of the run that ended;
  the next run starts with an empty one; both tests of the policy read the history of one run. With a
  recovery budget above one the task is retried again, and "moved to dead letter after N attempts" never
  happens. With the default budget of one recovery the difference does not show.
* *The queue is not first in, first out.* Queued tasks are taken in the order of the task array. A task
  early in the array that is queued late, for example after a rejected review, overtakes.
* *Two ticks can be active at once.* "Lease acquisition and expiry prevent concurrent active ticks"
  (`docs/milestones.md`), but a tick acquires the lease on a copy of the state and saves it afterwards
  without looking again. Two ticks that load before either saves both work.
* *An idle service does not rest.* "event-driven", "idle gateway CPU near zero", but every tick writes
  `autopilot-state.json`, which the watcher reports as a change, and every change asks for a tick.

**Met while modelling, without a run of their own.** `swarm session close` builds the session's record
from its run, so that a closed session stays "active" or "idle" on record; `swarm session status` after a
close makes it idle again; cleanup marks stale active records "orphaned", which the next sync overwrites. A
closed session that the runtime has forgotten keeps its run active for ever, as the sync then goes by the
ledger. A crash between `saveWorkflow` and `writeSession` leaves a record active for good. Degraded mode
is left only by runs that somebody else starts, or by a recovery's retry, which dispatches regardless
(`docs/milestones.md:279`). `docs/configuration.md:163` speaks of active sessions where only idle ones are
considered. The watcher's `ignoreInitial` (`docs/configuration.md:157`) is never read.

## 4. What is proved

The proofs need `TaskGraphAssumption`, `ReviewGateAssumption`, `RejectBoundAssumption`,
`OrchestratorAssumption`, `AutopilotAssumption`, `LeaseAssumption`, `WatcherAssumption`,
`ServiceAssumption`, `ModesAssumption`, `CacheAssumption` and `PlannerAssumption`: shapes of the
constants, nothing about the graph, the files, the number of processes or the length of a spec. One
theorem, `EarnedIsDone`, has a hypothesis of its own, see below.

* `ReviewGateProofs`: each transition keeps the type of a workflow and `WorkflowCoherent`. The heart is
  `UpsertPromotes` and `DeriveLifecycleHonest`: after a promotion nobody is left planned with its
  dependencies done, and the derived lifecycle means what it says. Branches that assign the lifecycle
  instead are covered one by one; they keep coherence because they never finish a task.
* `SwarmWorkflowProofs`: `TypeOK`, `Coherent`, `DependenciesHonoured`, `ReviewIsOfUnfinished` and
  `DoneIsFinal` of the serial specification. `DependenciesHonoured` is not inductive alone: a review
  decision on a finished task would take it back from under its successors, so the inductive invariant
  adds that the review queue holds unfinished tasks only, which in turn needs that no transition finishes
  a task and leaves it in the queue.
  The second half of the module is the planner: `PlansFollowTheSpec` for specs of any number of phases and
  tasks. Induction is needed, and is done by hand as the choice of a least counterexample (`LeastNumber`):
  * The recursive functions have solutions: `FlattenSeq` (`FlattenSolves`, `Flattened`) and the rounds of
    `Upstream` (`LayersSolve`, `UpstreamIs`). As many rounds as there are tasks are enough for the least
    set that holds the dependencies of a task and is closed under dependency (`UpstreamIsLeast`): a round
    that adds nothing is the last, and every other adds a task.
  * Both plans, with and without evaluators, have the same description in terms of the phase, the place in
    it and the question whether it is the evaluator (`Planned`, `PlanOf`). Ids are distinct exactly when
    the slugs are, which decides what is refused (`RefusesAmbiguous`).
  * A dependency is always `Later` than who waits for it, and `Later` is transitive and never of oneself:
    so nobody waits for more than he must, and there is no cycle. That he waits for all of it is
    `LaterIsIn`, by going down the phases and, within one that is not parallel, its places.
* `SwarmOrchestratorProofs`: `TypeOK`, `Coherent`, `LedgerBacksWorkflow` and `VerdictsAreTrue` of the full
  specification, with any number of processes, all commands and crashes. An operation saves what it
  computed from a snapshot, so the inductive invariant `IInv` demands of every process's snapshot, and of
  the records in its hands, what it demands of the files. That a snapshot stays as good as it was while
  others write is the relation `Grow`: no process takes back what another may rely on. The lemmas
  `GrowKeeps...` prove that once, and each action is shown to grow the files and to leave its process with
  locals that fit. `VerdictsAreTrue` has an invariant of its own (`Verdicts`): the records in a process's
  hands are as true as those in the file, and one it is about to stamp is of a session that it has just
  stopped; sessions that ended stay ended, so no other process can make it false. `SupervisedIsSpec` carries the results over to `SupervisedSpec`.
* `SupervisedProofs`: a single supervised process implements SwarmWorkflow (`ImplementsSerial`, which is
  `SerialSpec`). The invariant beside `IInv` is `FreshInv`: at the steps that save, the snapshot is the
  file; a task about to be committed is still dispatchable; the run in hand is of a task that runs; the
  task of a retry waits for its review. `ReviewGateProofs` names the transitions that this permits
  (`Transition`), shared with the proofs of SwarmWorkflow, and each action makes one of them or none.
  The same module proves what a single supervised process guarantees of the sessions:
  `NoDuplicateSession`, `ConcurrencyLimit`, `DependencyOrder` and `SessionsTracked`, for any graph, limit,
  retry policy and outcome of calls. `SessionInv` ties the three places that know of a run to each other: a
  session at work is the latest run of a task that the file calls running, or the one in the locals on its
  way there, and a running task has an active latest run, or the process is about to report its end
  (`Kept`); what the locals hold is a latest run (`Tracks`); and the running tasks with those that hold a
  slot are at most `acp.maxConcurrent` (`Within`). The limit is counted once per batch, so the slots must
  last: `Slots` follows a slot from the batch to the dispatch, and from a recovery to the retry that it
  grants. The sessions then number no more than the busy tasks, because no two of them share one. That a
  batch takes no more tasks than it has slots is a fact about `FirstCandidates`, a set of those with few
  before them (`FewCandidates`).
  Last, `RecoveryBudget`, which counts the recoveries of a task over all its runs. A record is written
  back from an earlier reading, so `BudgetInv` adds to the budget (`WithinBudget`) that no record in hand
  forgets a recovery that the ledger has, and that what is about to be stopped may be stopped once more
  (`Counted`). The model counts the recoveries as a set of events (`RecoveryEvents`), not with a sum over
  the ledger, so that one more event is one more element.
* `SwarmAutopilotProofs`: `AutopilotTypeOK`, `DoneIsEarned`, `SessionRecordsAreTrue` and the coherence of
  the files (`Coherent`, `LedgerBacksWorkflow`) for whole ticks with session
  commands, outages and kills, for any graph, any number of runs and any number of disturbances. The
  argument has four layers beside the `IInv` of the orchestrator, whose `Grow` lemmas are reused:
  * `TickInv`: between two ticks nothing is under way, and only the recovery phase has a plan. Without it a
    command could meet a half-done operation that the code cannot leave behind.
  * `BegunInv`: files, plan and runtime speak of started runs only, so that what is recorded of a new run
    cannot be a leftover.
  * `EarnedInv`: what holds of the files holds of every snapshot and every record in a process's hands: a task
    done in it has a session that ended clean, and a record that says "completed" is of one. `DoneIsEarned`
    alone is not inductive, because a tick saves what it computed from what it polled earlier; it takes
    that a clean end is final (`Lasting`).
  * `TruthInv`: unless a tick was torn (killed halfway, or it saved the workflow over what a `session status`
    had saved meanwhile), a session whose record lets go of it is over, and so is its run (`Truthful`);
    the recovery plan closes only sessions of runs that are over (`ClosesOver`); a session record still to
    be written is built from a run on file, and lets go of it only if that is over (`ToBeWritten`); what a
    process has read of the runs it polls, stops or tries again is still true (`Holds`). All four are
    needed: each operation writes the session's record from a run record that it read before others acted.

  `EarnedIsDone` assumes `ErrorsRecorded = TRUE`, the runtime that shows the error of a turn; the run
  `autopilot` has the same value. The other kind of runtime lets a session that broke poll as completed,
  and then "done" is not earned; this is a property of that runtime, which the adapter cannot make up for.
* `AutopilotLeaseProofs`: `TypeOK` and `TickingMeansLeased` for any number of loops, ticks by hand and
  commands. What is saved was a copy first, so the inductive invariant demands of every copy what it
  demands of the file, and for the types that a tick begins a recovery only if one is left to do.
* `StateWatcherProofs`: `TypeOK`, `NoLeak`, `OnlyCurrentReports`, and the safety half of the refinement of
  WatcherContract (`KeepsItsContract`), for any files and any number of starts, stops and changes. The
  inductive invariant adds that a generation nobody started yet has no call waiting (`Lives`), and that
  what is in the buffer was heard by the current start and has the timer armed (`HeardByCurrent`): the
  flush then reports exactly what is due (`FlushReports`).
* `SwarmServiceProofs`: `NeverDeaf`, `StoppedIsQuiet`, and the safety half of the refinement of TickDemand
  (`NoDemandIsForgotten`), for any files, mode and number of failures. The inductive invariant is about
  the loop (`LifeInv`: what runs, what is stopping, and that a loop that does not run has nothing armed)
  and ties the watcher to it (`WatcherInv`); most steps leave both alone.
  `TypeOK` and `LoadsAreFresh` concern the cache too, for any files and any number of writes. A load waits
  for what stands before it in the queue, and what was promised to it may still be on its way, so
  `CacheInv` says where a promise is kept: in the cache, or in a refresh that has not read yet or has read
  something no older (`Covered`, `PromiseInv`). That a refresh, which reads before it stores, does not take
  the cache back is `HeadRead`; that a note of an own save cannot hide a later change is the third part of
  `PromiseInv`, and rests on the note being the only one in the queue and the one the save in hand waits
  for (`NoteInv`). Of the flush of several changes at once the proof needs that each due file gets a
  refresh, in whatever order (`OrderIsComplete`).

The strengthened invariants were checked with TLC before they were proved, those of the autopilot and of
the cache on instances larger than a run's. Each invariant that a passing run checks is now also a theorem.

Only model-checked: all liveness, with the fairness halves of `ContractSpec` and `DemandSpec`, since
liveness under fairness and `ENABLED` are out of the prover's reach.

## 5. Not modelled

* Parsing and formatting (configuration, spec importer, reports, journal, CLI output), directories,
  version probing and the subprocess bridge: they keep no state the operations read. The immutability
  guard and the rubric are off the paths above.
* `swarm session followup` adds a task to a workflow, whose lifecycle stays as it was: the models have a
  fixed set of tasks. `swarm session steer` starts a session that nothing tracks, and writes its record
  back as active. Thread binding and `preferredSessionId` choose among sessions that are then not reused.
* Budgets are recorded and never enforced; retry on failure signals has no caller.
* Runs of the manual runner inside the autopilot's tick: SwarmOrchestrator has them, SwarmAutopilot not.
* Several autopilots with session records, and the lease and the tick in one model: their product is out
  of TLC's reach.
