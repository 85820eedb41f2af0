------------------------- MODULE SwarmOrchestrator -------------------------
(***************************************************************************)
(* The orchestrator (src/src/services/orchestrator.ts) and its callers, on *)
(* the files that they share: the workflow, the run ledger, and, outside   *)
(* the program, the sessions of the ACP runtime.                           *)
(*                                                                         *)
(* A process is one node process working on the project: a CLI command, a  *)
(* tool call, or the autopilot.  Every operation is cut where the code     *)
(* awaits a load, a write or a call into the runtime, and keeps between    *)
(* two steps what the code keeps in its locals; most operations save a     *)
(* workflow computed from one that they loaded several steps before.       *)
(*                                                                         *)
(* Left out: session records and session reuse (the tasks' session policy  *)
(* is "none"), budgets, journaling and reports, dry runs, and the          *)
(* immutability guard, none of which changes what these files hold.        *)
(***************************************************************************)
EXTENDS ReviewGate

CONSTANTS
    Procs,              \* the processes that work on the project:
    Autopilots,         \* those that run ticks of the autopilot, or act as prudently,
    Operators,          \* and those that run any command, whenever they like
    Commands,           \* the commands they use
    Overrides,          \* the --runner choices of the operator; "task" is none
    MaxConcurrent,      \* config acp.maxConcurrent
    MaxAttempts,        \* retryPolicy.maxAttempts of the tasks; 0: no retry policy
    RetryOn,            \* retryPolicy.retryOn
    MaxRecoveries,      \* config autopilot.recoveryPolicy.maxRecoveriesPerTask
    ErrorsRecorded,     \* the runtime shows the error of a turn in the session's status
    MaxRuns,            \* bound: the ACP runs ever started
    RejectBound         \* bound: how often a task may be rejected for retry

ASSUME OrchestratorAssumption ==
    /\ Autopilots \subseteq Procs /\ Operators \subseteq Procs
    /\ Commands \subseteq {"run", "sync", "cancel", "review", "plan"}
    /\ Overrides \subseteq {"task", "acp", "manual"} /\ "task" \in Overrides
    /\ MaxConcurrent \in Nat \ {0}
    /\ MaxAttempts \in Nat
    /\ RetryOn \subseteq {"failed", "timed_out"}
    /\ MaxRecoveries \in Nat
    /\ ErrorsRecorded \in BOOLEAN
    /\ MaxRuns \in Nat
    /\ RejectBound \in Nat

VARIABLES
    wf,         \* workflow-state.json
    ledger,     \* the ACP run records, one file each
    manualAt,   \* manualAt[t]: when the manual run of t was recorded, 0 if never
    remote,     \* remote[r]: the ACP session that run r spawned
    nextRun,    \* the next run id; ids grow with startedAt
    proc        \* proc[p]: the locals of the operation that p executes

vars == <<wf, ledger, manualAt, remote, nextRun, proc>>

RunIds == 1..MaxRuns

\* retries is the length of retryHistory; recoveries counts the
\* "recovery_cancelled" events of the record.
RunRecord == [id : RunIds, task : Tasks, status : RunStatus,
              retries : Nat, recoveries : Nat]

NoRecord == [id |-> 0, task |-> 0, status |-> "accepted", retries |-> 0, recoveries |-> 0]

SessionState == {"none", "running", "clean", "broken"}

NoSession == [task |-> 0, state |-> "none"]

Step == {"idle",
         "pick", "spawn", "record", "commit",           \* runOnce
         "reload", "enqueue",                           \* the end of runBatch
         "poll", "observe", "note", "settle",           \* syncRunRecord
         "cancel", "stamp", "load", "apply",            \* cancelRun
         "reread", "retry", "history", "rearm", "bury", \* evaluateRetry
         "decide"}                                      \* applyReviewDecision

Locals == [at : Step,
           snap : Workflow,             \* the workflow loaded last
           task : Tasks \union {0},     \* the task at hand
           rec : RunRecord \union {NoRecord},
           runner : {"acp", "manual"},
           override : {"task", "acp", "manual"},
           todo : SUBSET Tasks,         \* tasks still to be dispatched,
           waited : SUBSET Tasks,       \* those of them that were queued,
           overflow : SUBSET Tasks,     \* and tasks to be queued at the end
           polls : SUBSET RunRecord,    \* run records still to be polled
           recovery : BOOLEAN,          \* the cancel is a recovery with a retry
           decision : ReviewDecision]

Idle == [at |-> "idle", snap |-> InitialWorkflow, task |-> 0, rec |-> NoRecord,
         runner |-> "acp", override |-> "task", todo |-> {}, waited |-> {},
         overflow |-> {}, polls |-> {}, recovery |-> FALSE, decision |-> "approve"]

Init ==
    /\ wf = InitialWorkflow
    /\ ledger = {}
    /\ manualAt = [t \in Tasks |-> 0]
    /\ remote = [r \in RunIds |-> NoSession]
    /\ nextRun = 1
    /\ proc = [p \in Procs |-> Idle]

----------------------------------------------------------------------------
\* The run ledger.

Records(t) == {r \in ledger : r.task = t}

WriteRun(rec) == ledger' = {r \in ledger : r.id # rec.id} \union {rec}

IsLatest(rec, recs) == rec \in recs /\ \A other \in recs : other.id <= rec.id

Active(rec) == rec.status \in {"accepted", "running"}

\* findLatestRunByTask finds rec, an active ACP run of t: a manual run is newer
\* than the ACP runs that were started before it was recorded.
IsActiveLatestRun(rec, t) ==
    IsLatest(rec, Records(t)) /\ Active(rec) /\ manualAt[t] <= rec.id

\* Its "recovery_cancelled" events, in the records of all its runs.
RecoveryEvents(t) == UNION {{rec.id} \X (1..rec.recoveries) : rec \in Records(t)}

Recoveries(t) == Cardinality(RecoveryEvents(t))

----------------------------------------------------------------------------
\* A process moves on to the locals l, or is done with the operation.

Become(p, l) == proc' = [proc EXCEPT ![p] = l]

At(p, step) == proc[p].at = step

\* A batch runs the tasks that were queued first, then the others, in array order.
IsNextInLine(l, t) ==
    /\ t \in l.todo
    /\ \A u \in l.todo : \/ t \in l.waited /\ u \notin l.waited
                         \/ (t \in l.waited <=> u \in l.waited) /\ t <= u

\* What runBatch (or the caller of runOnce) does when a runOnce has returned.
AfterRunOnce(l) ==
    IF l.todo # {} THEN [Idle EXCEPT !.at = "pick", !.override = l.override,
                             !.todo = l.todo, !.waited = l.waited, !.overflow = l.overflow]
    ELSE IF l.overflow # {} THEN [Idle EXCEPT !.at = "reload", !.overflow = l.overflow]
    ELSE Idle

AfterSync(l) ==
    IF l.polls # {} THEN [Idle EXCEPT !.at = "poll", !.polls = l.polls] ELSE Idle

RunnerOf(t, override) ==
    IF override # "task" THEN override
    ELSE IF t \in AcpTasks THEN "acp" ELSE "manual"

----------------------------------------------------------------------------
\* Dispatch: runBatch and runOnce.

\* runOnce --task t; without a task it takes the first of the candidates, one of the t.
StartRunOnce(p, t, override) ==
    /\ At(p, "idle")
    /\ Become(p, [Idle EXCEPT !.at = "pick", !.override = override, !.todo = {t}])
    /\ UNCHANGED <<wf, ledger, manualAt, remote, nextRun>>

\* runBatch for n tasks: what the limit leaves room for is run, the rest queued.
StartBatch(p, n, override) ==
    LET requested == FirstCandidates(wf.status, n)
        slots     == AvailableSlots(wf.status, MaxConcurrent)
        admitted  == FirstCandidates(wf.status, IF n < slots THEN n ELSE slots)
    IN  /\ At(p, "idle")
        /\ requested # {}
        /\ Become(p, AfterRunOnce([Idle EXCEPT
                        !.override = override, !.todo = admitted,
                        !.waited = {t \in admitted : wf.status[t] = "queued"},
                        !.overflow = requested \ admitted]))
        /\ UNCHANGED <<wf, ledger, manualAt, remote, nextRun>>

\* runOnce loads the workflow and finds the task no longer dispatchable.
SkipTask(p, t) ==
    /\ At(p, "pick")
    /\ IsNextInLine(proc[p], t)
    /\ t \notin DispatchableTasks(wf.status)
    /\ Become(p, AfterRunOnce([proc[p] EXCEPT !.todo = @ \ {t}]))
    /\ UNCHANGED <<wf, ledger, manualAt, remote, nextRun>>

\* runOnce finds the task still dispatchable and resolves its runner.
PickTask(p, t) ==
    LET runner == RunnerOf(t, proc[p].override)
    IN  /\ At(p, "pick")
        /\ IsNextInLine(proc[p], t)
        /\ t \in DispatchableTasks(wf.status)
        /\ Become(p, [proc[p] EXCEPT
                        !.at = IF runner = "acp" THEN "spawn" ELSE "record",
                        !.snap = wf, !.task = t, !.runner = runner, !.todo = @ \ {t}])
        /\ UNCHANGED <<wf, ledger, manualAt, remote, nextRun>>

SpawnSession(p) ==
    /\ At(p, "spawn")
    /\ nextRun <= MaxRuns
    /\ remote' = [remote EXCEPT ![nextRun] = [task |-> proc[p].task, state |-> "running"]]
    /\ nextRun' = nextRun + 1
    /\ Become(p, [proc[p] EXCEPT !.at = "record",
                    !.rec = [id |-> nextRun, task |-> proc[p].task, status |-> "accepted",
                             retries |-> 0, recoveries |-> 0]])
    /\ UNCHANGED <<wf, ledger, manualAt>>

\* Slip: the record of the new run never reaches the ledger.
RecordRunLost(p) ==
    /\ At(p, "record") /\ proc[p].runner = "acp"
    /\ Become(p, [proc[p] EXCEPT !.at = "commit"])
    /\ UNCHANGED <<wf, ledger, manualAt, remote, nextRun>>

RecordRun(p) ==
    /\ At(p, "record") /\ proc[p].runner = "acp"
    /\ WriteRun(proc[p].rec)
    /\ Become(p, [proc[p] EXCEPT !.at = "commit"])
    /\ UNCHANGED <<wf, manualAt, remote, nextRun>>

\* The record of a manual run is always <task>-run-1: it replaces the one before.
RecordManualRun(p) ==
    /\ At(p, "record") /\ proc[p].runner = "manual"
    /\ manualAt' = [manualAt EXCEPT ![proc[p].task] = nextRun]
    /\ Become(p, [proc[p] EXCEPT !.at = "commit"])
    /\ UNCHANGED <<wf, ledger, remote, nextRun>>

CommitDispatch(p) ==
    /\ At(p, "commit")
    /\ wf' = Dispatched(proc[p].snap, proc[p].task, proc[p].runner)
    /\ Become(p, AfterRunOnce(proc[p]))
    /\ UNCHANGED <<ledger, manualAt, remote, nextRun>>

ReloadForQueue(p) ==
    /\ At(p, "reload")
    /\ Become(p, [proc[p] EXCEPT !.at = "enqueue", !.snap = wf])
    /\ UNCHANGED <<wf, ledger, manualAt, remote, nextRun>>

EnqueueOverflow(p) ==
    /\ At(p, "enqueue")
    /\ wf' = MarkQueued(proc[p].snap, proc[p].overflow)
    /\ Become(p, Idle)
    /\ UNCHANGED <<ledger, manualAt, remote, nextRun>>

DispatchStep(p) ==
    \/ \E t \in Tasks : SkipTask(p, t) \/ PickTask(p, t)
    \/ SpawnSession(p) \/ RecordRun(p) \/ RecordManualRun(p) \/ CommitDispatch(p)
    \/ ReloadForQueue(p) \/ EnqueueOverflow(p)

----------------------------------------------------------------------------
\* Sync: syncActiveRuns, syncRun and syncRunRecord.

\* The latest active run of every running task, read once, then polled one by one.
StartSyncActive(p) ==
    LET active  == {r \in ledger : Active(r) /\ wf.status[r.task] = "running"}
        current == {r \in active : \A s \in active : s.task = r.task => s.id <= r.id}
    IN  /\ At(p, "idle")
        /\ current # {}
        /\ Become(p, [Idle EXCEPT !.at = "poll", !.polls = current])
        /\ UNCHANGED <<wf, ledger, manualAt, remote, nextRun>>

\* syncRun: any run of the ledger.
StartSyncRun(p, rec) ==
    /\ At(p, "idle")
    /\ Become(p, [Idle EXCEPT !.at = "poll", !.polls = {rec}])
    /\ UNCHANGED <<wf, ledger, manualAt, remote, nextRun>>

\* The latest of them is polled first.
LoadForSync(p) ==
    /\ At(p, "poll")
    /\ \E rec \in proc[p].polls :
          /\ IsLatest(rec, proc[p].polls)
          /\ Become(p, [proc[p] EXCEPT !.at = "observe", !.snap = wf, !.task = rec.task,
                                       !.rec = rec, !.polls = @ \ {rec}])
    /\ UNCHANGED <<wf, ledger, manualAt, remote, nextRun>>

\* What the adapter makes of the session's state.  The error of a turn that the
\* runtime does not show is known to the process that started the turn and to no
\* other, so that a poll by another one takes a broken turn for a success.
mapManagerState == [none    |-> {},
                    running |-> {"running"},
                    clean   |-> {"completed"},
                    broken  |-> IF ErrorsRecorded THEN {"failed"} ELSE {"failed", "completed"}]

\* A completed run whose task misses an expected artifact has failed.
applyArtifactAcceptance(status) ==
    IF status = "completed" THEN {"completed", "failed"} ELSE {status}

\* The statuses that a poll of a session in the given state can end with.
PollOutcome(state) == UNION {applyArtifactAcceptance(s) : s \in mapManagerState[state]}

Observe(p) ==
    /\ At(p, "observe")
    /\ \E status \in PollOutcome(remote[proc[p].rec.id].state) :
          Become(p, [proc[p] EXCEPT !.at = "note", !.rec.status = status])
    /\ UNCHANGED <<wf, ledger, manualAt, remote, nextRun>>

\* Slip: what the poll said is not written to the ledger.
NoteSyncedSlip(p) ==
    /\ At(p, "note")
    /\ Become(p, [proc[p] EXCEPT !.at = "settle"])
    /\ UNCHANGED <<wf, ledger, manualAt, remote, nextRun>>

NoteSynced(p) ==
    /\ At(p, "note")
    /\ WriteRun(proc[p].rec)
    /\ Become(p, [proc[p] EXCEPT !.at = "settle"])
    /\ UNCHANGED <<wf, manualAt, remote, nextRun>>

Settle(p) ==
    /\ At(p, "settle")
    /\ wf' = ApplyRunStatus(proc[p].snap, proc[p].task, proc[p].rec.status)
    /\ Become(p, AfterSync(proc[p]))
    /\ UNCHANGED <<ledger, manualAt, remote, nextRun>>

SyncStep(p) == LoadForSync(p) \/ Observe(p) \/ NoteSynced(p) \/ Settle(p)

----------------------------------------------------------------------------
\* Cancel and recovery: cancelRun, swarm session cancel, planAutopilotRecovery.

\* swarm session cancel: any run of the ledger.
StartCancel(p, rec) ==
    /\ At(p, "idle")
    /\ Become(p, [Idle EXCEPT !.at = "cancel", !.task = rec.task, !.rec = rec])
    /\ UNCHANGED <<wf, ledger, manualAt, remote, nextRun>>

\* Slip: the recovery budget allows one more.
StartRecoveryBeyondBudget(p, rec) ==
    /\ At(p, "idle")
    /\ wf.status[rec.task] = "running"
    /\ IsActiveLatestRun(rec, rec.task)
    /\ Recoveries(rec.task) <= MaxRecoveries
    /\ Become(p, [Idle EXCEPT !.at = "cancel", !.task = rec.task, !.rec = rec,
                              !.recovery = TRUE])
    /\ UNCHANGED <<wf, ledger, manualAt, remote, nextRun>>

\* safe_cancel: the latest run of a running task has been active for too long.
StartRecovery(p, rec) ==
    /\ At(p, "idle")
    /\ wf.status[rec.task] = "running"
    /\ IsActiveLatestRun(rec, rec.task)
    /\ Recoveries(rec.task) < MaxRecoveries
    /\ Become(p, [Idle EXCEPT !.at = "cancel", !.task = rec.task, !.rec = rec,
                              !.recovery = TRUE])
    /\ UNCHANGED <<wf, ledger, manualAt, remote, nextRun>>

\* Slip: a call that does not reach the session is taken to have stopped it.
CancelSessionSlip(p) ==
    /\ At(p, "cancel")
    /\ Become(p, [proc[p] EXCEPT !.at = "stamp"])
    /\ UNCHANGED <<wf, ledger, manualAt, remote, nextRun>>

\* A session that still runs is stopped, cleanly or not; one that has ended stays so.
CancelSession(p) ==
    LET r == proc[p].rec.id
    IN  /\ At(p, "cancel")
        /\ \E state \in (IF remote[r].state = "running" THEN {"clean", "broken"}
                         ELSE {remote[r].state}) :
              remote' = [remote EXCEPT ![r].state = state]
        /\ Become(p, [proc[p] EXCEPT !.at = "stamp"])
        /\ UNCHANGED <<wf, ledger, manualAt, nextRun>>

\* A recovery that will try again marks the run timed out.
RetryAfterCancel == MaxAttempts > 0 /\ "timed_out" \in RetryOn

StampRun(p) ==
    LET recovery == proc[p].recovery
        stamped  == [proc[p].rec EXCEPT
                        !.status = IF recovery /\ RetryAfterCancel
                                   THEN "timed_out" ELSE "cancelled",
                        !.recoveries = IF recovery THEN @ + 1 ELSE @]
    IN  /\ At(p, "stamp")
        /\ WriteRun(stamped)
        /\ Become(p, [proc[p] EXCEPT !.at = "load", !.rec = stamped])
        /\ UNCHANGED <<wf, manualAt, remote, nextRun>>

LoadForCancel(p) ==
    /\ At(p, "load")
    /\ Become(p, [proc[p] EXCEPT !.at = "apply", !.snap = wf])
    /\ UNCHANGED <<wf, ledger, manualAt, remote, nextRun>>

\* Slip: cancelRun leaves the workflow to the next sync.
ApplyCancelUnsaved(p) ==
    /\ At(p, "apply")
    /\ Become(p, IF proc[p].recovery /\ RetryAfterCancel
                 THEN [Idle EXCEPT !.at = "reread", !.task = proc[p].task, !.rec = proc[p].rec]
                 ELSE Idle)
    /\ UNCHANGED <<wf, ledger, manualAt, remote, nextRun>>

ApplyCancel(p) ==
    /\ At(p, "apply")
    /\ wf' = ApplyRunStatus(proc[p].snap, proc[p].task, proc[p].rec.status)
    /\ Become(p, IF proc[p].recovery /\ RetryAfterCancel
                 THEN [Idle EXCEPT !.at = "reread", !.task = proc[p].task, !.rec = proc[p].rec]
                 ELSE Idle)
    /\ UNCHANGED <<ledger, manualAt, remote, nextRun>>

CancelStep(p) == CancelSession(p) \/ StampRun(p) \/ LoadForCancel(p) \/ ApplyCancel(p)

----------------------------------------------------------------------------
\* Retry: evaluateRetry, which only the autopilot calls, after a recovery.

Retryable(status) ==
    status \in (IF RetryOn = {} THEN {"failed", "timed_out"} ELSE RetryOn)

ShouldRetry(rec) ==
    MaxAttempts > 0 /\ Retryable(rec.status) /\ rec.retries + 1 < MaxAttempts

Exhausted(rec) == MaxAttempts > 0 /\ rec.retries + 1 >= MaxAttempts

\* The controller reads the run again before it asks for the retry.
RereadRun(p) ==
    /\ At(p, "reread")
    /\ \E rec \in ledger :
          /\ rec.id = proc[p].rec.id
          /\ Become(p, [proc[p] EXCEPT !.at = "retry", !.rec = rec])
    /\ UNCHANGED <<wf, ledger, manualAt, remote, nextRun>>

EvaluateRetry(p) ==
    LET rec == proc[p].rec
    IN  /\ At(p, "retry")
        /\ Become(p,
              IF ShouldRetry(rec)
              THEN [proc[p] EXCEPT !.at = "history", !.snap = wf, !.rec.retries = @ + 1]
              ELSE IF Exhausted(rec) THEN [proc[p] EXCEPT !.at = "bury", !.snap = wf]
              ELSE Idle)
        /\ UNCHANGED <<wf, ledger, manualAt, remote, nextRun>>

\* The history is written to the run that ended, not to the one that follows.
WriteHistory(p) ==
    /\ At(p, "history")
    /\ WriteRun(proc[p].rec)
    /\ Become(p, [proc[p] EXCEPT !.at = "rearm"])
    /\ UNCHANGED <<wf, manualAt, remote, nextRun>>

RearmTask(p) ==
    /\ At(p, "rearm")
    /\ wf' = RearmedForRetry(proc[p].snap, proc[p].task)
    /\ Become(p, [Idle EXCEPT !.at = "pick", !.todo = {proc[p].task}])
    /\ UNCHANGED <<ledger, manualAt, remote, nextRun>>

BuryTask(p) ==
    /\ At(p, "bury")
    /\ wf' = DeadLettered(proc[p].snap, proc[p].task)
    /\ Become(p, Idle)
    /\ UNCHANGED <<ledger, manualAt, remote, nextRun>>

RetryStep(p) ==
    RereadRun(p) \/ EvaluateRetry(p) \/ WriteHistory(p) \/ RearmTask(p) \/ BuryTask(p)

----------------------------------------------------------------------------
\* Review and planning commands.

StartReview(p, t, decision) ==
    /\ At(p, "idle")
    /\ ApplyReviewDecision(wf, t, decision).retryCount[t] <= RejectBound
    /\ Become(p, [Idle EXCEPT !.at = "decide", !.snap = wf, !.task = t,
                              !.decision = decision])
    /\ UNCHANGED <<wf, ledger, manualAt, remote, nextRun>>

Decide(p) ==
    /\ At(p, "decide")
    /\ wf' = ApplyReviewDecision(proc[p].snap, proc[p].task, proc[p].decision)
    /\ Become(p, Idle)
    /\ UNCHANGED <<ledger, manualAt, remote, nextRun>>

\* swarm plan replaces the tasks and the queue, whatever is going on.
Replan(p) ==
    /\ At(p, "idle")
    /\ wf' = InitialWorkflow
    /\ UNCHANGED <<ledger, manualAt, remote, nextRun, proc>>

----------------------------------------------------------------------------
\* The environment.

\* A session ends its turn.
SessionEnds(r) ==
    /\ remote[r].state = "running"
    /\ \E state \in {"clean", "broken"} : remote' = [remote EXCEPT ![r].state = state]
    /\ UNCHANGED <<wf, ledger, manualAt, nextRun, proc>>

\* A call into the ACP runtime throws, and the operation with it: the tasks
\* of the batch that are left are neither run nor queued, the runs of the
\* sync that are left are not polled.
RuntimeCallFails(p) ==
    /\ proc[p].at \in {"spawn", "observe", "cancel"}
    /\ Become(p, Idle)
    /\ UNCHANGED <<wf, ledger, manualAt, remote, nextRun>>

\* The process is killed, or a write of its fails; another one takes its place.
Crash(p) ==
    /\ ~At(p, "idle")
    /\ Become(p, Idle)
    /\ UNCHANGED <<wf, ledger, manualAt, remote, nextRun>>

Environment ==
    \/ \E r \in RunIds : SessionEnds(r)
    \/ \E p \in Procs : RuntimeCallFails(p)

Steps(p) ==
    DispatchStep(p) \/ SyncStep(p) \/ CancelStep(p) \/ RetryStep(p) \/ Decide(p)

\* The autopilot and the prudent operator: every operation where it makes sense.
SupervisedStart(p) ==
    \/ \E n \in Tasks : StartBatch(p, n, "task")
    \/ StartSyncActive(p)
    \/ \E rec \in ledger : StartRecovery(p, rec)
    \/ \E t \in wf.reviewQueue, decision \in ReviewDecision : StartReview(p, t, decision)

\* Whatever the commands and tools accept.
OperatorStart(p) ==
    \/ /\ "run" \in Commands
       /\ \/ \E t \in Tasks, override \in Overrides : StartRunOnce(p, t, override)
          \/ \E n \in Tasks, override \in Overrides : StartBatch(p, n, override)
    \/ "sync" \in Commands /\ \E rec \in ledger : StartSyncRun(p, rec)
    \/ "cancel" \in Commands /\ \E rec \in ledger : StartCancel(p, rec)
    \/ /\ "review" \in Commands
       /\ \E t \in Tasks, decision \in ReviewDecision : StartReview(p, t, decision)
    \/ "plan" \in Commands /\ Replan(p)

SupervisedNext ==
    \/ \E p \in Autopilots : SupervisedStart(p)
    \/ \E p \in Procs : Steps(p)
    \/ Environment

Next ==
    \/ SupervisedNext
    \/ \E p \in Operators : OperatorStart(p)
    \/ \E p \in Procs : Crash(p)

SupervisedSpec == Init /\ [][SupervisedNext]_vars

Spec == Init /\ [][Next]_vars

----------------------------------------------------------------------------
\* Every file and every local has the shape that the code's types give it.
TypeOK ==
    /\ wf \in Workflow
    /\ ledger \subseteq RunRecord
    /\ manualAt \in [Tasks -> 0..(MaxRuns + 1)]
    /\ remote \in [RunIds -> [task : Tasks \union {0}, state : SessionState]]
    /\ nextRun \in 1..(MaxRuns + 1)
    /\ proc \in [Procs -> Locals]

\* However operations overlap, fail or are cut short, and however stale what
\* they save, the workflow file never misleads its readers (see ReviewGate).
Coherent == WorkflowCoherent(wf)

\* Runs are written before the workflow, so the workflow never speaks of a run
\* that nobody can find: behind a task that runs there is an ACP run record,
\* behind one under review or done without an approval there is some record.
LedgerBacksWorkflow ==
    \A t \in Tasks :
        /\ wf.status[t] = "running" => Records(t) # {}
        /\ \/ wf.status[t] = "review_required"
           \/ wf.status[t] = "done" /\ wf.review[t] # "approved"
           => Records(t) # {} \/ manualAt[t] > 0

\* A record that says how a run ended is true: its session is at work no more, and
\* a run that "completed" is one that a poll of the session can have taken for that.
\* This is what reviews, retries and recoveries go by; it must hold although polls,
\* cancels and retries of several processes write the same record from old copies,
\* and although a call that was to stop the session may throw.
VerdictsAreTrue ==
    \A rec \in ledger :
        /\ ~Active(rec) => remote[rec.id].state # "running"
        /\ rec.status = "completed" => "completed" \in mapManagerState[remote[rec.id].state]

----------------------------------------------------------------------------
\* What holds as long as one process drives the project (SupervisedSpec).

Quiet == \A p \in Procs : At(p, "idle")

Live(r) == remote[r].state = "running"

\* No task ever has two sessions working on it at once.
NoDuplicateSession ==
    \A r, s \in RunIds : Live(r) /\ Live(s) /\ remote[r].task = remote[s].task => r = s

\* The sessions at work never exceed acp.maxConcurrent, through batches,
\* queued tasks, recoveries and retries.
ConcurrencyLimit == Cardinality({r \in RunIds : Live(r)}) <= MaxConcurrent

\* While a session works on a task, everything the task depends on is done.
DependencyOrder ==
    \A r \in RunIds : Live(r) => DependenciesDone(wf.status, remote[r].task)

\* Between operations, the latest run of a running task is active, so that the
\* next sync polls it and the recovery planner can find it stuck; and a session
\* at work is the latest run of a task that runs.
SessionsTracked ==
    Quiet =>
        /\ \A t \in Tasks : wf.status[t] = "running" =>
              \E rec \in ledger : IsActiveLatestRun(rec, t)
        /\ \A r \in RunIds : Live(r) =>
              /\ wf.status[remote[r].task] = "running"
              /\ \E rec \in ledger : rec.id = r /\ IsLatest(rec, Records(rec.task))

\* The autopilot never stops more runs of a task than its recovery budget.
RecoveryBudget == \A t \in Tasks : Recoveries(t) <= MaxRecoveries

\* A single process implements the serial workflow: everything it does with
\* stale copies amounts to whole operations on the current file.
Serial == INSTANCE SwarmWorkflow WITH wf <- wf

SerialSpec == Serial!Spec

\* A task is never run more often than maxAttempts: no retry is granted to a
\* task whose runs, counted together, have used the attempts up.
RetriesExhaust ==
    \A t \in Tasks :
        MaxAttempts > 0 => Cardinality({r \in Records(t) : r.retries > 0}) < MaxAttempts
=============================================================================
