---------------------- MODULE SwarmOrchestratorProofs ----------------------
(***************************************************************************)
(* What holds of the orchestrator for any number of processes, tasks and   *)
(* runs, whatever commands overlap, fail or are cut short.                 *)
(*                                                                         *)
(* What is said of the files beside the workflow takes them as a record f, *)
(* so that one lemma serves the files before and after a step.             *)
(***************************************************************************)
EXTENDS SwarmOrchestrator, ReviewGateProofs

Files == [ledger |-> ledger, manualAt |-> manualAt, remote |-> remote, nextRun |-> nextRun]

RecordsIn(f, t) == {rec \in f.ledger : rec.task = t}

\* The record is of a run whose session was spawned for its task.
Spawned(rec, f) ==
    /\ rec \in RunRecord
    /\ rec.id < f.nextRun
    /\ f.remote[rec.id].task = rec.task

\* It was in the ledger at some time, so its task still has a record there.
Known(rec, f) == Spawned(rec, f) /\ RecordsIn(f, rec.task) # {}

\* Some record stands behind whatever the workflow w says of runs.
Backed(w, f) ==
    \A t \in Tasks :
        /\ w.status[t] = "running" => RecordsIn(f, t) # {}
        /\ \/ w.status[t] = "review_required"
           \/ w.status[t] = "done" /\ w.review[t] # "approved"
           => RecordsIn(f, t) # {} \/ f.manualAt[t] > 0

FilesFit(f) ==
    /\ f.ledger \subseteq RunRecord
    /\ f.manualAt \in [Tasks -> 0..(MaxRuns + 1)]
    /\ f.remote \in [RunIds -> [task : Tasks \union {0}, state : SessionState]]
    /\ f.nextRun \in 1..(MaxRuns + 1)
    /\ \A rec \in f.ledger : Spawned(rec, f)
    /\ \A a, b \in f.ledger : a.id = b.id => a = b

\* The steps at which an operation has a task at hand,
TaskSteps == Step \ {"idle", "pick", "reload", "enqueue", "poll"}

\* and those at which it has read the record of one of its runs.
RunSteps == {"observe", "note", "settle", "cancel", "stamp", "load", "apply",
             "reread", "retry", "history", "rearm", "bury"}

\* The locals l are those of an operation at its step.
LocalsFit(l, f) ==
    /\ WorkflowCoherent(l.snap) /\ Backed(l.snap, f)
    /\ \A rec \in l.polls : Known(rec, f)
    /\ l.at \in TaskSteps => l.task \in Tasks
    /\ l.at \in RunSteps => Known(l.rec, f) /\ l.rec.task = l.task
    /\ l.at = "record" /\ l.runner = "acp" => Spawned(l.rec, f) /\ l.rec.task = l.task
    /\ l.at = "commit" => IF l.runner = "acp" THEN RecordsIn(f, l.task) # {}
                          ELSE f.manualAt[l.task] > 0

\* The inductive invariant: what is saved is computed from a snapshot and a
\* record that may be stale, so these must be as good as the files are.
IInv ==
    /\ wf \in Workflow /\ WorkflowCoherent(wf) /\ Backed(wf, Files)
    /\ FilesFit(Files)
    /\ proc \in [Procs -> Locals]
    /\ \A p \in Procs : LocalsFit(proc[p], Files)

\* From f to g nothing is taken back that some process may rely on.
Grow(f, g) ==
    /\ \A t \in Tasks : RecordsIn(f, t) # {} => RecordsIn(g, t) # {}
    /\ \A t \in Tasks : f.manualAt[t] > 0 => g.manualAt[t] > 0
    /\ f.nextRun <= g.nextRun
    /\ \A r \in RunIds : r < f.nextRun => g.remote[r].task = f.remote[r].task

----------------------------------------------------------------------------
\* The files grow.

LEMMA GrowKeepsSpawned ==
    ASSUME NEW f, NEW g, FilesFit(f), FilesFit(g), Grow(f, g), NEW rec, Spawned(rec, f)
    PROVE  Spawned(rec, g)
<1>1. rec.id \in RunIds /\ rec.id \in Nat /\ f.nextRun \in Nat /\ g.nextRun \in Nat
  BY OrchestratorAssumption DEF Spawned, RunRecord, RunIds, FilesFit
<1>2. rec.id < g.nextRun
  BY <1>1 DEF Spawned, Grow
<1>3. g.remote[rec.id].task = rec.task
  BY <1>1 DEF Spawned, Grow
<1> QED
  BY <1>2, <1>3 DEF Spawned

LEMMA GrowKeepsKnown ==
    ASSUME NEW f, NEW g, FilesFit(f), FilesFit(g), Grow(f, g), NEW rec, Known(rec, f)
    PROVE  Known(rec, g)
<1>1. Spawned(rec, g)
  BY GrowKeepsSpawned DEF Known
<1>2. rec.task \in Tasks
  BY <1>1 DEF Spawned, RunRecord
<1> QED
  BY <1>1, <1>2 DEF Known, Grow

LEMMA GrowKeepsBacked ==
    ASSUME NEW f, NEW g, Grow(f, g), NEW w, Backed(w, f)
    PROVE  Backed(w, g)
BY DEF Backed, Grow

LEMMA GrowKeepsLocals ==
    ASSUME NEW f, NEW g, FilesFit(f), FilesFit(g), Grow(f, g),
           NEW l \in Locals, LocalsFit(l, f)
    PROVE  LocalsFit(l, g)
<1>1. Backed(l.snap, g)
  BY GrowKeepsBacked DEF LocalsFit
<1>2. \A rec \in l.polls : Known(rec, g)
  BY GrowKeepsKnown DEF LocalsFit
<1>3. l.at \in RunSteps => Known(l.rec, g)
  BY GrowKeepsKnown DEF LocalsFit
<1>4. l.at = "record" /\ l.runner = "acp" => Spawned(l.rec, g)
  BY GrowKeepsSpawned DEF LocalsFit
<1>5. l.at = "commit" => l.task \in Tasks
  BY DEF LocalsFit, TaskSteps, Step
<1>6. l.at = "commit" => IF l.runner = "acp" THEN RecordsIn(g, l.task) # {}
                         ELSE g.manualAt[l.task] > 0
  BY <1>5 DEF LocalsFit, Grow
<1> QED
  BY <1>1, <1>2, <1>3, <1>4, <1>6 DEF LocalsFit

LEMMA GrowReflexive ==
    ASSUME NEW f, FilesFit(f)
    PROVE  Grow(f, f)
BY OrchestratorAssumption DEF Grow, FilesFit

----------------------------------------------------------------------------
\* The locals of a process between operations, and between the parts of one.

LEMMA IdleFits ==
    ASSUME NEW f
    PROVE  Idle \in Locals /\ LocalsFit(Idle, f)
<1>1. Idle \in Locals
  BY InitialType DEF Idle, Locals, Step, ReviewDecision
<1>2. Backed(InitialWorkflow, f)
  <2> DEFINE mid == [t \in Tasks |-> "planned"]
  <2>1. mid \in [Tasks -> TaskStatus] /\ InitialWorkflow.status = UpsertTaskStatuses(mid)
    BY DEF TaskStatus, InitialWorkflow
  <2>2. \A t \in Tasks : InitialWorkflow.status[t] \in {"planned", "ready"}
    BY <2>1, UpsertKeeps
  <2> QED
    BY <2>2 DEF Backed
<1> QED
  BY <1>1, <1>2, InitialCoherent DEF Idle, LocalsFit, TaskSteps, RunSteps

\* Locals that are idle but for where they are and what is to be dispatched.
LEMMA AfterRunOnceFits ==
    ASSUME NEW f, NEW l \in Locals
    PROVE  AfterRunOnce(l) \in Locals /\ LocalsFit(AfterRunOnce(l), f)
<1>1. Idle \in Locals /\ LocalsFit(Idle, f)
  BY IdleFits
<1>2. AfterRunOnce(l) \in Locals
  <2>1. /\ l.override \in {"task", "acp", "manual"}
        /\ l.todo \in SUBSET Tasks /\ l.waited \in SUBSET Tasks /\ l.overflow \in SUBSET Tasks
    BY DEF Locals
  <2>2. [Idle EXCEPT !.at = "pick", !.override = l.override, !.todo = l.todo,
                     !.waited = l.waited, !.overflow = l.overflow] \in Locals
    BY <1>1, <2>1 DEF Locals, Step
  <2>3. [Idle EXCEPT !.at = "reload", !.overflow = l.overflow] \in Locals
    BY <1>1, <2>1 DEF Locals, Step
  <2> QED
    BY <1>1, <2>2, <2>3 DEF AfterRunOnce
<1>3. /\ AfterRunOnce(l).snap = Idle.snap /\ AfterRunOnce(l).polls = Idle.polls
      /\ AfterRunOnce(l).at \in {"pick", "reload", "idle"}
  BY DEF AfterRunOnce, Idle
<1> QED
  BY <1>1, <1>2, <1>3 DEF LocalsFit, TaskSteps, RunSteps

LEMMA AfterSyncFits ==
    ASSUME NEW f, NEW l \in Locals, \A rec \in l.polls : Known(rec, f)
    PROVE  AfterSync(l) \in Locals /\ LocalsFit(AfterSync(l), f)
<1>1. Idle \in Locals /\ LocalsFit(Idle, f)
  BY IdleFits
<1>2. AfterSync(l) \in Locals
  <2>1. l.polls \in SUBSET RunRecord
    BY DEF Locals
  <2>2. [Idle EXCEPT !.at = "poll", !.polls = l.polls] \in Locals
    BY <1>1, <2>1 DEF Locals, Step
  <2> QED
    BY <1>1, <2>2 DEF AfterSync
<1>3. /\ AfterSync(l).snap = Idle.snap /\ AfterSync(l).polls \in {l.polls, Idle.polls}
      /\ AfterSync(l).at \in {"poll", "idle"}
  BY DEF AfterSync, Idle
<1> QED
  BY <1>1, <1>2, <1>3 DEF LocalsFit, TaskSteps, RunSteps

----------------------------------------------------------------------------
\* Steps.

\* A step keeps the invariant if the locals it leaves behind, the workflow it
\* saves, and the files it writes are as they should be.
LEMMA StepKeeps ==
    ASSUME IInv, NEW p \in Procs, NEW l \in Locals, Become(p, l),
           LocalsFit(l, Files'), FilesFit(Files'), Grow(Files, Files'),
           wf' \in Workflow, WorkflowCoherent(wf'), Backed(wf', Files')
    PROVE  IInv'
<1>1. proc' \in [Procs -> Locals]
  BY DEF IInv, Become
<1>2. ASSUME NEW q \in Procs
      PROVE  LocalsFit(proc'[q], Files')
  <2>1. CASE q = p
    BY <2>1 DEF IInv, Become
  <2>2. CASE q # p
    <3>1. proc'[q] = proc[q] /\ proc[q] \in Locals /\ LocalsFit(proc[q], Files)
      BY <2>2 DEF IInv, Become
    <3> QED
      BY <3>1, GrowKeepsLocals DEF IInv
  <2> QED
    BY <2>1, <2>2
<1> QED
  BY <1>1, <1>2 DEF IInv

\* A step that only moves a process on.
LEMMA LocalStepKeeps ==
    ASSUME IInv, NEW p \in Procs, NEW l \in Locals, Become(p, l), LocalsFit(l, Files),
           UNCHANGED <<wf, ledger, manualAt, remote, nextRun>>
    PROVE  IInv'
<1>1. Files' = Files
  BY DEF Files
<1> QED
  BY <1>1, StepKeeps, GrowReflexive DEF IInv

\* A step that saves the workflow, and moves a process on.
LEMMA SaveStepKeeps ==
    ASSUME IInv, NEW p \in Procs, NEW l \in Locals, Become(p, l), LocalsFit(l, Files),
           wf' \in Workflow, WorkflowCoherent(wf'), Backed(wf', Files),
           UNCHANGED <<ledger, manualAt, remote, nextRun>>
    PROVE  IInv'
<1>1. Files' = Files
  BY DEF Files
<1> QED
  BY <1>1, StepKeeps, GrowReflexive DEF IInv

\* A step that writes a run record, and moves a process on.
LEMMA WriteRunGrows ==
    ASSUME FilesFit(Files), NEW rec, Spawned(rec, Files), WriteRun(rec),
           UNCHANGED <<manualAt, remote, nextRun>>
    PROVE  FilesFit(Files') /\ Grow(Files, Files') /\ RecordsIn(Files', rec.task) # {}
<1>1. /\ Files'.ledger = {r \in Files.ledger : r.id # rec.id} \union {rec}
      /\ Files'.manualAt = Files.manualAt /\ Files'.remote = Files.remote
      /\ Files'.nextRun = Files.nextRun
  BY DEF Files, WriteRun
<1> HIDE DEF Files
<1>2. rec \in RunRecord /\ rec \in Files'.ledger
  BY <1>1 DEF Spawned
<1>3. \A r \in Files'.ledger : Spawned(r, Files')
  BY <1>1 DEF FilesFit, Spawned
<1>4. FilesFit(Files')
  BY <1>1, <1>2, <1>3 DEF FilesFit
<1>5. ASSUME NEW t \in Tasks, RecordsIn(Files, t) # {}
      PROVE  RecordsIn(Files', t) # {}
  <2>1. PICK r \in Files.ledger : r.task = t
    BY <1>5 DEF RecordsIn
  <2>2. CASE r.id = rec.id
    BY <1>2, <2>1, <2>2 DEF RecordsIn, FilesFit, Spawned
  <2>3. CASE r.id # rec.id
    BY <1>1, <2>1, <2>3 DEF RecordsIn
  <2> QED
    BY <2>2, <2>3
<1>6. Files.nextRun <= Files'.nextRun
  BY <1>1, OrchestratorAssumption DEF FilesFit
<1> QED
  BY <1>1, <1>2, <1>4, <1>5, <1>6 DEF Grow, RecordsIn

LEMMA RecordStepKeeps ==
    ASSUME IInv, NEW p \in Procs, NEW l \in Locals, Become(p, l), LocalsFit(l, Files'),
           NEW rec, Spawned(rec, Files), WriteRun(rec),
           UNCHANGED <<wf, manualAt, remote, nextRun>>
    PROVE  IInv'
<1>1. FilesFit(Files') /\ Grow(Files, Files')
  BY WriteRunGrows DEF IInv
<1>2. Backed(wf', Files')
  BY <1>1, GrowKeepsBacked DEF IInv
<1> QED
  BY <1>1, <1>2, StepKeeps DEF IInv

----------------------------------------------------------------------------
\* Dispatch.

LEMMA StartDispatchKeeps ==
    ASSUME IInv, NEW p \in Procs,
           NEW todo \in SUBSET Tasks, NEW waited \in SUBSET Tasks,
           NEW overflow \in SUBSET Tasks, NEW override \in {"task", "acp", "manual"},
           Become(p, AfterRunOnce([Idle EXCEPT !.override = override, !.todo = todo,
                                      !.waited = waited, !.overflow = overflow])),
           UNCHANGED <<wf, ledger, manualAt, remote, nextRun>>
    PROVE  IInv'
<1> DEFINE l == [Idle EXCEPT !.override = override, !.todo = todo,
                             !.waited = waited, !.overflow = overflow]
<1>1. l \in Locals
  BY IdleFits DEF Locals
<1> HIDE DEF l
<1>2. AfterRunOnce(l) \in Locals /\ LocalsFit(AfterRunOnce(l), Files)
  BY <1>1, AfterRunOnceFits
<1> QED
  BY <1>2, LocalStepKeeps DEF l

LEMMA StartBatchKeeps ==
    ASSUME IInv, NEW p \in Procs, NEW n, NEW override \in {"task", "acp", "manual"},
           StartBatch(p, n, override)
    PROVE  IInv'
<1> DEFINE requested == FirstCandidates(wf.status, n)
           slots     == AvailableSlots(wf.status, MaxConcurrent)
           admitted  == FirstCandidates(wf.status, IF n < slots THEN n ELSE slots)
           waited    == {t \in admitted : wf.status[t] = "queued"}
           overflow  == requested \ admitted
<1>1. /\ admitted \in SUBSET Tasks /\ waited \in SUBSET Tasks
      /\ overflow \in SUBSET Tasks
  BY DEF FirstCandidates, DispatchableTasks, QueuedTasks, RunnableTasks
<1>2. /\ Become(p, AfterRunOnce([Idle EXCEPT !.override = override, !.todo = admitted,
                                    !.waited = waited, !.overflow = overflow]))
      /\ UNCHANGED <<wf, ledger, manualAt, remote, nextRun>>
  BY DEF StartBatch
<1> HIDE DEF requested, slots, admitted, waited, overflow
<1> QED
  BY <1>1, <1>2, StartDispatchKeeps

LEMMA StartRunOnceKeeps ==
    ASSUME IInv, NEW p \in Procs, NEW t \in Tasks, NEW override \in {"task", "acp", "manual"},
           StartRunOnce(p, t, override)
    PROVE  IInv'
<1> DEFINE l == [Idle EXCEPT !.at = "pick", !.override = override, !.todo = {t}]
<1>1. l \in Locals
  BY IdleFits DEF Locals, Step
<1>2. LocalsFit(l, Files)
  <2>1. l.snap = Idle.snap /\ l.polls = Idle.polls /\ l.at = "pick"
    BY DEF Idle
  <2> HIDE DEF l
  <2> QED
    BY <2>1, IdleFits DEF LocalsFit, TaskSteps, RunSteps
<1> QED
  BY <1>1, <1>2, LocalStepKeeps DEF StartRunOnce

LEMMA SkipTaskKeeps ==
    ASSUME IInv, NEW p \in Procs, NEW t \in Tasks, SkipTask(p, t)
    PROVE  IInv'
<1> DEFINE l == [proc[p] EXCEPT !.todo = @ \ {t}]
<1>1. l \in Locals
  BY DEF IInv, Locals
<1> HIDE DEF l
<1>2. AfterRunOnce(l) \in Locals /\ LocalsFit(AfterRunOnce(l), Files)
  BY <1>1, AfterRunOnceFits
<1> QED
  BY <1>2, LocalStepKeeps DEF SkipTask, l

LEMMA PickTaskKeeps ==
    ASSUME IInv, NEW p \in Procs, NEW t \in Tasks, PickTask(p, t)
    PROVE  IInv'
<1> DEFINE runner == RunnerOf(t, proc[p].override)
           at     == IF runner = "acp" THEN "spawn" ELSE "record"
           l      == [proc[p] EXCEPT !.at = at, !.snap = wf, !.task = t,
                                     !.runner = runner, !.todo = @ \ {t}]
<1>1. runner \in {"acp", "manual"} /\ at \in Step
  BY DEF RunnerOf, IInv, Locals, Step
<1>2. at \in {"spawn", "record"} /\ (at = "record" => runner # "acp")
  OBVIOUS
<1>3. Become(p, l) /\ UNCHANGED <<wf, ledger, manualAt, remote, nextRun>>
  BY DEF PickTask
<1> HIDE DEF runner, at
<1>4. l \in Locals
  BY <1>1 DEF IInv, Locals
<1>5. /\ l.at = at /\ l.snap = wf /\ l.task = t /\ l.runner = runner
      /\ l.polls = proc[p].polls
  BY DEF IInv, Locals
<1> HIDE DEF l
<1>6. LocalsFit(l, Files)
  BY <1>2, <1>5 DEF LocalsFit, IInv, RunSteps
<1> QED
  BY <1>3, <1>4, <1>6, LocalStepKeeps

----------------------------------------------------------------------------
\* Every transition of the workflow leaves it backed by records.

LEMMA OthersStayBacked ==
    ASSUME NEW f, NEW w, NEW v, NEW t \in Tasks, Backed(w, f),
           \A u \in Tasks : u # t =>
               /\ \/ v.status[u] = w.status[u]
                  \/ v.status[u] \notin {"running", "review_required", "done"}
               /\ v.review[u] = w.review[u],
           v.status[t] = "running" => RecordsIn(f, t) # {},
           \/ v.status[t] = "review_required"
           \/ v.status[t] = "done" /\ v.review[t] # "approved"
           => RecordsIn(f, t) # {} \/ f.manualAt[t] > 0
    PROVE  Backed(v, f)
BY DEF Backed

LEMMA ApplyRunStatusBacked ==
    ASSUME NEW f, NEW w \in Workflow, NEW t \in Tasks, NEW s \in RunStatus, Backed(w, f),
           RecordsIn(f, t) # {}
    PROVE  Backed(ApplyRunStatus(w, t, s), f)
<1>1. Backed(RunActive(w, t), f) /\ Backed(RunFailed(w, t), f) /\ Backed(RunCancelled(w, t), f)
  BY DEF RunActive, RunFailed, RunCancelled, Backed, Workflow
<1>2. Backed(RunCompleted(w, t), f)
  <2> DEFINE v   == RunCompleted(w, t)
             mid == [w.status EXCEPT ![t] = IF t \in ReviewRequired
                                            THEN "review_required" ELSE "done"]
  <2>1. /\ v.status = UpsertTaskStatuses(mid)
        /\ v.review = [w.review EXCEPT ![t] = IF t \in ReviewRequired
                                              THEN "pending" ELSE @]
    BY DEF RunCompleted, Workflow
  <2>2. mid \in [Tasks -> TaskStatus] /\ \A u \in Tasks : u # t => mid[u] = w.status[u]
    BY DEF Workflow, TaskStatus
  <2> HIDE DEF mid, v
  <2>3. \A u \in Tasks : v.status[u] = mid[u] \/ v.status[u] = "ready"
    BY <2>1, <2>2, UpsertKeeps
  <2>4. \A u \in Tasks : u # t => v.review[u] = w.review[u]
    BY <2>1 DEF Workflow
  <2>5. Backed(v, f)
    BY <2>2, <2>3, <2>4, OthersStayBacked
  <2> QED
    BY <2>5 DEF v
<1> QED
  BY <1>1, <1>2 DEF ApplyRunStatus, RunStatus

LEMMA ApproveBacked ==
    ASSUME NEW f, NEW w \in Workflow, NEW t \in Tasks, Backed(w, f)
    PROVE  Backed(Approve(w, t), f)
<1> DEFINE v   == Approve(w, t)
           mid == [w.status EXCEPT ![t] = "done"]
<1>1. v.status = UpsertTaskStatuses(mid) /\ v.review = [w.review EXCEPT ![t] = "approved"]
  BY DEF Approve, Workflow
<1>2. /\ mid \in [Tasks -> TaskStatus] /\ mid[t] = "done"
      /\ \A u \in Tasks : u # t => mid[u] = w.status[u]
  BY DEF Workflow, TaskStatus
<1> HIDE DEF mid, v
<1>3. \A u \in Tasks : v.status[u] = mid[u] \/ v.status[u] = "ready"
  BY <1>1, <1>2, UpsertKeeps
<1>4. v.review[t] = "approved" /\ \A u \in Tasks : u # t => v.review[u] = w.review[u]
  BY <1>1 DEF Workflow
<1>5. \A u \in Tasks : u # t => \/ v.status[u] = w.status[u]
                               \/ v.status[u] \notin {"running", "review_required", "done"}
  BY <1>2, <1>3
<1>6. v.status[t] \in {"done", "ready"}
  BY <1>2, <1>3
<1>7. Backed(v, f)
  BY <1>4, <1>5, <1>6, OthersStayBacked
<1> QED
  BY <1>7 DEF v

LEMMA RejectBacked ==
    ASSUME NEW f, NEW w \in Workflow, NEW t \in Tasks, NEW maxRetries, Backed(w, f)
    PROVE  Backed(RejectToBlocked(w, t), f) /\ Backed(RejectForRetry(w, t, maxRetries), f)
<1> DEFINE b == RejectToBlocked(w, t)
           v == RejectForRetry(w, t, maxRetries)
<1>1. /\ b \in Workflow
      /\ b.status = [w.status EXCEPT ![t] = "blocked"]
      /\ b.review = [w.review EXCEPT ![t] = "rejected"]
  BY RejectToBlockedType DEF RejectToBlocked, Workflow
<1>2. Backed(b, f)
  <2> HIDE DEF b
  <2> QED
    BY <1>1 DEF Backed, Workflow
<1>3. CASE w.retryCount[t] < maxRetries
  <2>1. /\ v.status = [w.status EXCEPT ![t] = "ready"]
        /\ v.review = [w.review EXCEPT ![t] = "rejected"]
    BY <1>3 DEF RejectForRetry, Workflow
  <2> HIDE DEF v
  <2>2. Backed(v, f)
    BY <2>1 DEF Backed, Workflow
  <2> QED
    BY <1>2, <2>2 DEF v
<1>4. CASE ~(w.retryCount[t] < maxRetries)
  <2>1. v = [b EXCEPT !.retryCount[t] = b.retryCount[t] + 1]
    BY <1>4, Zenon DEF RejectForRetry
  <2> HIDE DEF v, b
  <2>2. v.status = b.status /\ v.review = b.review
    BY <1>1, <2>1 DEF Workflow
  <2>3. Backed(v, f)
    BY <1>2, <2>2 DEF Backed
  <2> QED
    BY <1>2, <2>3 DEF v, b
<1> QED
  BY <1>3, <1>4

LEMMA ApplyReviewDecisionBacked ==
    ASSUME NEW f, NEW w \in Workflow, NEW t \in Tasks, NEW decision \in ReviewDecision,
           Backed(w, f)
    PROVE  Backed(ApplyReviewDecision(w, t, decision), f)
BY ApproveBacked, RejectBacked DEF ApplyReviewDecision, ReviewDecision

LEMMA DispatchedBacked ==
    ASSUME NEW f, NEW w \in Workflow, NEW t \in Tasks, NEW runner \in {"acp", "manual"},
           Backed(w, f),
           IF runner = "acp" THEN RecordsIn(f, t) # {} ELSE f.manualAt[t] > 0
    PROVE  Backed(Dispatched(w, t, runner), f)
<1> DEFINE v    == Dispatched(w, t, runner)
           next == IF runner = "acp" THEN "running"
                   ELSE IF t \in ReviewRequired THEN "review_required" ELSE "done"
           mid  == [w.status EXCEPT ![t] = next]
<1>1. /\ v.status = UpsertTaskStatuses(mid)
      /\ v.review = [w.review EXCEPT ![t] = IF next = "review_required"
                                            THEN "pending" ELSE @]
  BY DEF Dispatched, Workflow
<1>2. /\ mid \in [Tasks -> TaskStatus] /\ mid[t] = next
      /\ \A u \in Tasks : u # t => mid[u] = w.status[u]
  BY DEF Workflow, TaskStatus
<1>3. next = "running" <=> runner = "acp"
  OBVIOUS
<1> HIDE DEF mid, v, next
<1>4. \A u \in Tasks : v.status[u] = mid[u] \/ v.status[u] = "ready"
  BY <1>1, <1>2, UpsertKeeps
<1>5. \A u \in Tasks : u # t => v.review[u] = w.review[u]
  BY <1>1 DEF Workflow
<1>6. \A u \in Tasks : u # t => \/ v.status[u] = w.status[u]
                               \/ v.status[u] \notin {"running", "review_required", "done"}
  BY <1>2, <1>4
<1>7. v.status[t] \in {next, "ready"}
  BY <1>2, <1>4
<1>8. Backed(v, f)
  BY <1>3, <1>5, <1>6, <1>7, OthersStayBacked
<1> QED
  BY <1>8 DEF v

LEMMA OrchestratorTransitionsBacked ==
    ASSUME NEW f, NEW w \in Workflow, NEW t \in Tasks, NEW S \in SUBSET Tasks, Backed(w, f)
    PROVE  /\ Backed(MarkQueued(w, S), f)
           /\ Backed(RearmedForRetry(w, t), f)
           /\ Backed(DeadLettered(w, t), f)
BY DEF Backed, MarkQueued, RearmedForRetry, DeadLettered, Workflow

----------------------------------------------------------------------------
\* The steps of runOnce and of the end of runBatch.

LEMMA SpawnSessionKeeps ==
    ASSUME IInv, NEW p \in Procs, SpawnSession(p)
    PROVE  IInv'
<1> DEFINE rec == [id |-> nextRun, task |-> proc[p].task, status |-> "accepted",
                   retries |-> 0, recoveries |-> 0]
           l   == [proc[p] EXCEPT !.at = "record", !.rec = rec]
<1>1. /\ nextRun \in RunIds /\ nextRun + 1 \in 1..(MaxRuns + 1)
      /\ proc[p] \in Locals /\ LocalsFit(proc[p], Files) /\ proc[p].task \in Tasks
  <2>1. nextRun \in 1..(MaxRuns + 1) /\ nextRun <= MaxRuns
    BY DEF IInv, FilesFit, Files, SpawnSession
  <2>2. nextRun \in RunIds /\ nextRun + 1 \in 1..(MaxRuns + 1)
    BY <2>1, OrchestratorAssumption DEF RunIds
  <2>3. proc[p].at = "spawn" /\ proc[p] \in Locals /\ LocalsFit(proc[p], Files)
    BY DEF IInv, SpawnSession, At
  <2> QED
    BY <2>2, <2>3 DEF LocalsFit, TaskSteps, Step
<1>2. rec \in RunRecord
  BY <1>1 DEF RunRecord, RunStatus
<1>3. l \in Locals /\ Become(p, l)
  BY <1>1, <1>2 DEF Locals, Step, SpawnSession
<1>4. /\ l.at = "record" /\ l.rec = rec /\ l.task = proc[p].task
      /\ l.snap = proc[p].snap /\ l.polls = proc[p].polls
      /\ rec.id = nextRun /\ rec.task = proc[p].task
  BY <1>1 DEF Locals
<1>5. /\ Files'.ledger = Files.ledger /\ Files'.manualAt = Files.manualAt
      /\ Files.nextRun = nextRun /\ Files'.nextRun = nextRun + 1
      /\ Files'.remote = [Files.remote EXCEPT
             ![nextRun] = [task |-> proc[p].task, state |-> "running"]]
  BY DEF Files, SpawnSession
<1> HIDE DEF rec, l, Files
<1>6. Grow(Files, Files')
  BY <1>1, <1>5 DEF IInv, FilesFit, Grow, RecordsIn, RunIds
<1>7. Spawned(rec, Files')
  <2>1. Files'.remote[nextRun].task = proc[p].task
    BY <1>1, <1>5 DEF IInv, FilesFit
  <2>2. nextRun < nextRun + 1
    BY <1>1 DEF RunIds
  <2> QED
    BY <1>2, <1>4, <1>5, <2>1, <2>2 DEF Spawned
<1>8. \A r \in Files'.ledger : Spawned(r, Files')
  <2> SUFFICES ASSUME NEW r \in Files.ledger
               PROVE  Spawned(r, Files')
    BY <1>5
  <2>1. r \in RunRecord /\ r.id < Files.nextRun /\ Files.remote[r.id].task = r.task
    BY DEF IInv, FilesFit, Spawned
  <2>2. r.id \in RunIds
    BY <2>1 DEF RunRecord
  <2>3. Files'.remote[r.id].task = r.task
    BY <1>1, <1>5, <2>1, <2>2 DEF IInv, FilesFit, RunIds
  <2>4. r.id < Files'.nextRun
    BY <1>1, <1>5, <2>1, <2>2 DEF RunIds
  <2> QED
    BY <2>1, <2>3, <2>4 DEF Spawned
<1>9. FilesFit(Files')
  <2>1. Files'.remote \in [RunIds -> [task : Tasks \union {0}, state : SessionState]]
    BY <1>1, <1>5 DEF IInv, FilesFit, SessionState
  <2> QED
    BY <1>1, <1>5, <1>8, <2>1 DEF IInv, FilesFit
<1>10. LocalsFit(l, Files')
  <2>1. Backed(l.snap, Files') /\ \A r \in l.polls : Known(r, Files')
    BY <1>1, <1>4, <1>6, <1>9, GrowKeepsBacked, GrowKeepsKnown DEF IInv, LocalsFit
  <2> QED
    BY <1>1, <1>4, <1>7, <2>1 DEF LocalsFit, RunSteps
<1>11. wf' = wf /\ Backed(wf', Files')
  BY <1>6, GrowKeepsBacked DEF IInv, SpawnSession
<1> QED
  BY <1>3, <1>6, <1>9, <1>10, <1>11, StepKeeps DEF IInv

LEMMA RecordRunKeeps ==
    ASSUME IInv, NEW p \in Procs, RecordRun(p)
    PROVE  IInv'
<1> DEFINE rec == proc[p].rec
           l   == [proc[p] EXCEPT !.at = "commit"]
<1>1. /\ proc[p] \in Locals /\ LocalsFit(proc[p], Files)
      /\ proc[p].at = "record" /\ proc[p].runner = "acp"
  BY DEF IInv, RecordRun, At
<1>2. Spawned(rec, Files) /\ rec.task = proc[p].task /\ proc[p].task \in Tasks
  BY <1>1 DEF LocalsFit, TaskSteps, Step
<1>3. l \in Locals /\ Become(p, l)
  BY <1>1 DEF Locals, Step, RecordRun
<1>4. /\ l.at = "commit" /\ l.task = proc[p].task /\ l.runner = "acp"
      /\ l.snap = proc[p].snap /\ l.polls = proc[p].polls
  BY <1>1 DEF Locals
<1>5. /\ WriteRun(rec) /\ UNCHANGED <<wf, manualAt, remote, nextRun>>
  BY DEF RecordRun
<1> HIDE DEF rec, l
<1>6. FilesFit(Files') /\ Grow(Files, Files') /\ RecordsIn(Files', proc[p].task) # {}
  BY <1>2, <1>5, WriteRunGrows DEF IInv
<1>7. LocalsFit(proc[p], Files')
  BY <1>1, <1>6, GrowKeepsLocals DEF IInv
<1>8. LocalsFit(l, Files')
  BY <1>2, <1>4, <1>6, <1>7 DEF LocalsFit, RunSteps
<1> QED
  BY <1>2, <1>3, <1>5, <1>8, RecordStepKeeps

LEMMA RecordManualRunKeeps ==
    ASSUME IInv, NEW p \in Procs, RecordManualRun(p)
    PROVE  IInv'
<1> DEFINE l == [proc[p] EXCEPT !.at = "commit"]
<1>1. /\ proc[p] \in Locals /\ LocalsFit(proc[p], Files)
      /\ proc[p].at = "record" /\ proc[p].runner = "manual"
  BY DEF IInv, RecordManualRun, At
<1>2. proc[p].task \in Tasks
  BY <1>1 DEF LocalsFit, TaskSteps, Step
<1>3. l \in Locals /\ Become(p, l)
  BY <1>1 DEF Locals, Step, RecordManualRun
<1>4. /\ l.at = "commit" /\ l.task = proc[p].task /\ l.runner = "manual"
      /\ l.snap = proc[p].snap /\ l.polls = proc[p].polls
  BY <1>1 DEF Locals
<1>5. /\ Files'.ledger = Files.ledger /\ Files'.remote = Files.remote
      /\ Files'.nextRun = Files.nextRun
      /\ Files'.manualAt = [Files.manualAt EXCEPT ![proc[p].task] = Files.nextRun]
      /\ wf' = wf
  BY DEF Files, RecordManualRun
<1> HIDE DEF l, Files
<1>6. Files.nextRun \in 0..(MaxRuns + 1) /\ Files.nextRun > 0
  BY OrchestratorAssumption DEF IInv, FilesFit
<1>7. FilesFit(Files')
  BY <1>2, <1>5, <1>6 DEF IInv, FilesFit, Spawned
<1>8. Grow(Files, Files') /\ Files'.manualAt[proc[p].task] > 0
  BY <1>2, <1>5, <1>6 DEF IInv, FilesFit, Grow, RecordsIn
<1>9. LocalsFit(proc[p], Files')
  BY <1>1, <1>7, <1>8, GrowKeepsLocals DEF IInv
<1>10. LocalsFit(l, Files')
  BY <1>2, <1>4, <1>8, <1>9 DEF LocalsFit, RunSteps
<1>11. Backed(wf', Files')
  BY <1>5, <1>8, GrowKeepsBacked DEF IInv
<1> QED
  BY <1>3, <1>5, <1>7, <1>8, <1>10, <1>11, StepKeeps DEF IInv

LEMMA CommitDispatchKeeps ==
    ASSUME IInv, NEW p \in Procs, CommitDispatch(p)
    PROVE  IInv'
<1>1. proc[p] \in Locals /\ LocalsFit(proc[p], Files) /\ proc[p].at = "commit"
  BY DEF IInv, CommitDispatch, At
<1>2. /\ proc[p].snap \in Workflow /\ proc[p].task \in Tasks
      /\ proc[p].runner \in {"acp", "manual"}
  BY <1>1 DEF Locals, LocalsFit, TaskSteps, Step
<1>3. wf' \in Workflow /\ WorkflowCoherent(wf')
  BY <1>1, <1>2, DispatchedType, DispatchedCoherent DEF LocalsFit, CommitDispatch
<1>4. Backed(wf', Files)
  BY <1>1, <1>2, DispatchedBacked DEF LocalsFit, CommitDispatch
<1>5. AfterRunOnce(proc[p]) \in Locals /\ LocalsFit(AfterRunOnce(proc[p]), Files)
  BY <1>1, AfterRunOnceFits
<1> QED
  BY <1>3, <1>4, <1>5, SaveStepKeeps DEF CommitDispatch

LEMMA ReloadForQueueKeeps ==
    ASSUME IInv, NEW p \in Procs, ReloadForQueue(p)
    PROVE  IInv'
<1> DEFINE l == [proc[p] EXCEPT !.at = "enqueue", !.snap = wf]
<1>1. proc[p] \in Locals /\ LocalsFit(proc[p], Files)
  BY DEF IInv
<1>2. l \in Locals /\ l.at = "enqueue" /\ l.snap = wf /\ l.polls = proc[p].polls
  BY <1>1 DEF IInv, Locals, Step
<1>3. Become(p, l) /\ UNCHANGED <<wf, ledger, manualAt, remote, nextRun>>
  BY DEF ReloadForQueue
<1> HIDE DEF l
<1>4. LocalsFit(l, Files)
  BY <1>1, <1>2 DEF LocalsFit, TaskSteps, RunSteps, IInv
<1> QED
  BY <1>2, <1>3, <1>4, LocalStepKeeps

LEMMA EnqueueOverflowKeeps ==
    ASSUME IInv, NEW p \in Procs, EnqueueOverflow(p)
    PROVE  IInv'
<1>1. proc[p] \in Locals /\ LocalsFit(proc[p], Files)
  BY DEF IInv
<1>2. /\ proc[p].snap \in Workflow /\ proc[p].overflow \in SUBSET Tasks
      /\ WorkflowCoherent(proc[p].snap) /\ Backed(proc[p].snap, Files)
  BY <1>1 DEF Locals, LocalsFit
<1>3. wf' \in Workflow /\ WorkflowCoherent(wf')
  BY <1>2, MarkQueuedType, MarkQueuedCoherent DEF EnqueueOverflow
<1>4. Backed(wf', Files)
  <2>1. 1 \in Tasks
    BY TaskGraphAssumption DEF Tasks
  <2> QED
    BY <1>2, <2>1, OrchestratorTransitionsBacked DEF EnqueueOverflow
<1> QED
  BY <1>3, <1>4, IdleFits, SaveStepKeeps DEF EnqueueOverflow

----------------------------------------------------------------------------
\* Sync.

\* Every record of the ledger is known.
LEMMA LedgerKnown ==
    ASSUME IInv, NEW rec \in ledger
    PROVE  rec \in RunRecord /\ rec.task \in Tasks /\ Known(rec, Files)
<1>1. Files.ledger = ledger
  BY DEF Files
<1> HIDE DEF Files
<1>2. Spawned(rec, Files)
  BY <1>1 DEF IInv, FilesFit
<1> QED
  BY <1>1, <1>2 DEF Known, RecordsIn, Spawned, RunRecord

LEMMA StartPollsKeeps ==
    ASSUME IInv, NEW p \in Procs, NEW polls \in SUBSET ledger,
           Become(p, [Idle EXCEPT !.at = "poll", !.polls = polls]),
           UNCHANGED <<wf, ledger, manualAt, remote, nextRun>>
    PROVE  IInv'
<1> DEFINE l == [Idle EXCEPT !.at = "poll", !.polls = polls]
<1>1. /\ \A rec \in polls : Known(rec, Files)
      /\ polls \in SUBSET RunRecord
  BY LedgerKnown
<1>2. Idle \in Locals /\ LocalsFit(Idle, Files)
  BY IdleFits
<1>3. l \in Locals
  BY <1>1, <1>2 DEF Locals, Step
<1>4. l.at = "poll" /\ l.snap = Idle.snap /\ l.polls = polls
  BY <1>2 DEF Locals
<1> HIDE DEF l
<1>5. LocalsFit(l, Files)
  BY <1>1, <1>2, <1>4 DEF LocalsFit, TaskSteps, RunSteps
<1> QED
  BY <1>3, <1>5, LocalStepKeeps DEF l

LEMMA StartSyncKeeps ==
    ASSUME IInv, NEW p \in Procs,
           StartSyncActive(p) \/ \E rec \in ledger : StartSyncRun(p, rec)
    PROVE  IInv'
<1>1. CASE StartSyncActive(p)
  <2> DEFINE active  == {r \in ledger : Active(r) /\ wf.status[r.task] = "running"}
             current == {r \in active : \A s \in active : s.task = r.task => s.id <= r.id}
  <2>1. current \in SUBSET ledger
    OBVIOUS
  <2>2. /\ Become(p, [Idle EXCEPT !.at = "poll", !.polls = current])
        /\ UNCHANGED <<wf, ledger, manualAt, remote, nextRun>>
    BY <1>1 DEF StartSyncActive
  <2> HIDE DEF current
  <2> QED
    BY <2>1, <2>2, StartPollsKeeps
<1>2. CASE \E rec \in ledger : StartSyncRun(p, rec)
  <2>1. PICK rec \in ledger : StartSyncRun(p, rec)
    BY <1>2
  <2>2. {rec} \in SUBSET ledger
    OBVIOUS
  <2> QED
    BY <2>1, <2>2, StartPollsKeeps DEF StartSyncRun
<1> QED
  BY <1>1, <1>2

LEMMA LoadForSyncKeeps ==
    ASSUME IInv, NEW p \in Procs, LoadForSync(p)
    PROVE  IInv'
<1>1. PICK rec \in proc[p].polls :
         Become(p, [proc[p] EXCEPT !.at = "observe", !.snap = wf, !.task = rec.task,
                                   !.rec = rec, !.polls = @ \ {rec}])
  BY DEF LoadForSync
<1> DEFINE l == [proc[p] EXCEPT !.at = "observe", !.snap = wf, !.task = rec.task,
                                !.rec = rec, !.polls = @ \ {rec}]
<1>2. proc[p] \in Locals /\ LocalsFit(proc[p], Files)
  BY DEF IInv
<1>3. Known(rec, Files) /\ rec \in RunRecord /\ rec.task \in Tasks
  BY <1>2 DEF LocalsFit, Known, Spawned, RunRecord
<1>4. l \in Locals
  BY <1>2, <1>3 DEF IInv, Locals, Step
<1>5. /\ l.at = "observe" /\ l.snap = wf /\ l.task = rec.task /\ l.rec = rec
      /\ l.polls = proc[p].polls \ {rec}
  BY <1>2 DEF Locals
<1> HIDE DEF l
<1>6. LocalsFit(l, Files)
  BY <1>2, <1>3, <1>5 DEF LocalsFit, TaskSteps, RunSteps, IInv
<1>7. Become(p, l) /\ UNCHANGED <<wf, ledger, manualAt, remote, nextRun>>
  BY <1>1 DEF LoadForSync, l
<1> QED
  BY <1>4, <1>6, <1>7, LocalStepKeeps

\* What an operation changes in its copy of a record leaves it known.
LEMMA StillKnown ==
    ASSUME NEW f, NEW rec, Known(rec, f), NEW new \in RunRecord,
           new.id = rec.id, new.task = rec.task
    PROVE  Known(new, f)
BY DEF Known, Spawned

\* An operation changes its copy of the record and goes on with the same run.
LEMMA ReviseFits ==
    ASSUME NEW f, NEW k \in Locals, LocalsFit(k, f), k.at \in RunSteps,
           NEW l \in Locals, l.at \in RunSteps, Known(l.rec, f),
           l.rec.task = k.rec.task, l.task = k.task, l.polls = k.polls,
           WorkflowCoherent(l.snap), Backed(l.snap, f)
    PROVE  LocalsFit(l, f)
<1>1. RunSteps \subseteq TaskSteps \ {"record", "commit"}
  BY DEF RunSteps, TaskSteps, Step
<1> QED
  BY <1>1 DEF LocalsFit

LEMMA ObserveKeeps ==
    ASSUME IInv, NEW p \in Procs, Observe(p)
    PROVE  IInv'
<1>1. /\ proc[p] \in Locals /\ LocalsFit(proc[p], Files) /\ proc[p].at = "observe"
      /\ proc[p].at \in RunSteps
  BY DEF IInv, Observe, At, RunSteps
<1>2. /\ Known(proc[p].rec, Files) /\ proc[p].rec \in RunRecord
      /\ proc[p].rec.id \in RunIds
  BY <1>1 DEF LocalsFit, Known, Spawned, RunRecord
<1>3. remote[proc[p].rec.id].state \in SessionState
  BY <1>2 DEF IInv, FilesFit, Files
<1>4. PICK status \in PollOutcome(remote[proc[p].rec.id].state) :
         Become(p, [proc[p] EXCEPT !.at = "note", !.rec.status = status])
  BY DEF Observe
<1>5. status \in RunStatus
  BY <1>3, OrchestratorAssumption DEF PollOutcome, applyArtifactAcceptance, mapManagerState, SessionState, RunStatus
<1> DEFINE rec == [proc[p].rec EXCEPT !.status = status]
           l   == [proc[p] EXCEPT !.at = "note", !.rec = rec]
<1>6. rec \in RunRecord /\ rec.id = proc[p].rec.id /\ rec.task = proc[p].rec.task
  BY <1>2, <1>5 DEF RunRecord
<1>7. Become(p, l) /\ UNCHANGED <<wf, ledger, manualAt, remote, nextRun>>
  BY <1>4 DEF Observe
<1> HIDE DEF rec
<1>8. l \in Locals
  BY <1>1, <1>6 DEF Locals, Step
<1>9. /\ l.at = "note" /\ l.rec = rec /\ l.task = proc[p].task
      /\ l.snap = proc[p].snap /\ l.polls = proc[p].polls
  BY <1>1 DEF Locals
<1> HIDE DEF l
<1>10. Known(rec, Files)
  BY <1>2, <1>6, StillKnown
<1>11. l.at \in RunSteps
  BY <1>9 DEF RunSteps
<1>12. WorkflowCoherent(l.snap) /\ Backed(l.snap, Files)
  BY <1>1, <1>9 DEF LocalsFit
<1>13. LocalsFit(l, Files)
  BY <1>1, <1>6, <1>8, <1>9, <1>10, <1>11, <1>12, ReviseFits
<1> QED
  BY <1>7, <1>8, <1>13, LocalStepKeeps

\* An operation that has a run at hand writes its record (note, stamp, history).
LEMMA WriteRevisedKeeps ==
    ASSUME IInv, NEW p \in Procs, proc[p].at \in RunSteps,
           NEW rec \in RunRecord, rec.id = proc[p].rec.id, rec.task = proc[p].rec.task,
           NEW at \in RunSteps, NEW l \in Locals,
           l.at = at, l.rec = rec, l.task = proc[p].task,
           l.snap = proc[p].snap, l.polls = proc[p].polls,
           Become(p, l), WriteRun(rec), UNCHANGED <<wf, manualAt, remote, nextRun>>
    PROVE  IInv'
<1>1. proc[p] \in Locals /\ LocalsFit(proc[p], Files)
  BY DEF IInv
<1>2. Known(proc[p].rec, Files)
  BY <1>1 DEF LocalsFit
<1>3. Known(rec, Files) /\ Spawned(rec, Files)
  BY <1>2, StillKnown DEF Known
<1>4. FilesFit(Files') /\ Grow(Files, Files')
  BY <1>3, WriteRunGrows DEF IInv
<1>5. LocalsFit(proc[p], Files') /\ Known(rec, Files')
  BY <1>1, <1>3, <1>4, GrowKeepsLocals, GrowKeepsKnown DEF IInv
<1>6. WorkflowCoherent(l.snap) /\ Backed(l.snap, Files')
  BY <1>5 DEF LocalsFit
<1>7. LocalsFit(l, Files')
  BY <1>1, <1>5, <1>6, ReviseFits
<1> QED
  BY <1>3, <1>7, RecordStepKeeps

LEMMA NoteSyncedKeeps ==
    ASSUME IInv, NEW p \in Procs, NoteSynced(p)
    PROVE  IInv'
<1> DEFINE l == [proc[p] EXCEPT !.at = "settle"]
<1>1. /\ proc[p] \in Locals /\ LocalsFit(proc[p], Files)
      /\ proc[p].at \in RunSteps /\ "settle" \in RunSteps
  BY DEF IInv, NoteSynced, At, RunSteps
<1>2. proc[p].rec \in RunRecord
  BY <1>1 DEF LocalsFit, Known, Spawned
<1>3. /\ l \in Locals /\ l.at = "settle" /\ l.rec = proc[p].rec /\ l.task = proc[p].task
      /\ l.snap = proc[p].snap /\ l.polls = proc[p].polls
  BY <1>1 DEF Locals, Step
<1>4. /\ Become(p, l) /\ WriteRun(proc[p].rec)
      /\ UNCHANGED <<wf, manualAt, remote, nextRun>>
  BY DEF NoteSynced
<1> HIDE DEF l
<1> QED
  BY <1>1, <1>2, <1>3, <1>4, WriteRevisedKeeps

\* An operation that has a run at hand settles the status of its task.
LEMMA ApplyRunStatusKeeps ==
    ASSUME IInv, NEW p \in Procs, proc[p].at \in RunSteps,
           NEW l \in Locals, Become(p, l), LocalsFit(l, Files),
           wf' = ApplyRunStatus(proc[p].snap, proc[p].task, proc[p].rec.status),
           UNCHANGED <<ledger, manualAt, remote, nextRun>>
    PROVE  IInv'
<1>1. proc[p] \in Locals /\ LocalsFit(proc[p], Files)
  BY DEF IInv
<1>2. /\ Known(proc[p].rec, Files) /\ proc[p].rec.task = proc[p].task
      /\ WorkflowCoherent(proc[p].snap) /\ Backed(proc[p].snap, Files)
  BY <1>1 DEF LocalsFit
<1>3. /\ proc[p].snap \in Workflow /\ proc[p].task \in Tasks
      /\ proc[p].rec.status \in RunStatus /\ RecordsIn(Files, proc[p].task) # {}
  BY <1>1, <1>2 DEF Locals, Known, Spawned, RunRecord
<1>4. wf' \in Workflow /\ WorkflowCoherent(wf') /\ Backed(wf', Files)
  BY <1>2, <1>3, ApplyRunStatusType, ApplyRunStatusCoherent, ApplyRunStatusBacked
<1> QED
  BY <1>4, SaveStepKeeps

LEMMA SettleKeeps ==
    ASSUME IInv, NEW p \in Procs, Settle(p)
    PROVE  IInv'
<1>1. /\ proc[p] \in Locals /\ LocalsFit(proc[p], Files)
      /\ proc[p].at \in RunSteps
  BY DEF IInv, Settle, At, RunSteps
<1>2. \A rec \in proc[p].polls : Known(rec, Files)
  BY <1>1 DEF LocalsFit
<1>3. AfterSync(proc[p]) \in Locals /\ LocalsFit(AfterSync(proc[p]), Files)
  BY <1>1, <1>2, AfterSyncFits
<1> QED
  BY <1>1, <1>3, ApplyRunStatusKeeps DEF Settle

----------------------------------------------------------------------------
\* Cancel and recovery.

LEMMA StartCancelKeeps ==
    ASSUME IInv, NEW p \in Procs, NEW rec \in ledger,
           StartCancel(p, rec) \/ StartRecovery(p, rec)
    PROVE  IInv'
<1> DEFINE cancel   == [Idle EXCEPT !.at = "cancel", !.task = rec.task, !.rec = rec]
           recovery == [Idle EXCEPT !.at = "cancel", !.task = rec.task, !.rec = rec,
                                    !.recovery = TRUE]
<1>1. Idle \in Locals /\ LocalsFit(Idle, Files)
  BY IdleFits
<1>2. rec \in RunRecord /\ rec.task \in Tasks /\ Known(rec, Files)
  BY LedgerKnown
<1>3. cancel \in Locals /\ recovery \in Locals
  BY <1>1, <1>2 DEF Locals, Step
<1>4. \A l \in {cancel, recovery} :
         /\ l.at = "cancel" /\ l.task = rec.task /\ l.rec = rec
         /\ l.snap = Idle.snap /\ l.polls = Idle.polls
  BY <1>1 DEF Locals
<1>5. /\ Become(p, cancel) \/ Become(p, recovery)
      /\ UNCHANGED <<wf, ledger, manualAt, remote, nextRun>>
  BY DEF StartCancel, StartRecovery
<1> HIDE DEF cancel, recovery
<1>6. LocalsFit(cancel, Files) /\ LocalsFit(recovery, Files)
  BY <1>1, <1>2, <1>4 DEF LocalsFit
<1> QED
  BY <1>3, <1>5, <1>6, LocalStepKeeps

\* The end of a session changes nothing that is relied on.
LEMMA SessionChangeGrows ==
    ASSUME IInv, NEW r \in RunIds, NEW state \in SessionState,
           remote' = [remote EXCEPT ![r].state = state],
           UNCHANGED <<ledger, manualAt, nextRun>>
    PROVE  FilesFit(Files') /\ Grow(Files, Files')
<1>1. /\ Files'.ledger = Files.ledger /\ Files'.manualAt = Files.manualAt
      /\ Files'.nextRun = Files.nextRun
      /\ Files'.remote = [Files.remote EXCEPT ![r].state = state]
  BY DEF Files
<1> HIDE DEF Files
<1>2. /\ Files'.remote \in [RunIds -> [task : Tasks \union {0}, state : SessionState]]
      /\ \A s \in RunIds : Files'.remote[s].task = Files.remote[s].task
  BY <1>1 DEF IInv, FilesFit
<1>3. \A rec \in Files'.ledger : Spawned(rec, Files')
  BY <1>1, <1>2 DEF IInv, FilesFit, Spawned, RunRecord
<1>4. FilesFit(Files')
  BY <1>1, <1>2, <1>3 DEF IInv, FilesFit
<1>5. Files.nextRun <= Files'.nextRun
  BY <1>1, OrchestratorAssumption DEF IInv, FilesFit
<1> QED
  BY <1>1, <1>2, <1>4, <1>5 DEF Grow, RecordsIn

LEMMA CancelSessionKeeps ==
    ASSUME IInv, NEW p \in Procs, CancelSession(p)
    PROVE  IInv'
<1> DEFINE r == proc[p].rec.id
           l == [proc[p] EXCEPT !.at = "stamp"]
<1>1. /\ proc[p] \in Locals /\ LocalsFit(proc[p], Files)
      /\ proc[p].at \in RunSteps
  BY DEF IInv, CancelSession, At, RunSteps
<1>2. Known(proc[p].rec, Files) /\ r \in RunIds
  BY <1>1 DEF LocalsFit, Known, Spawned, RunRecord
<1>3. PICK state \in SessionState : remote' = [remote EXCEPT ![r].state = state]
  BY <1>2 DEF CancelSession, IInv, FilesFit, Files, SessionState
<1>4. UNCHANGED <<wf, ledger, manualAt, nextRun>> /\ Become(p, l)
  BY DEF CancelSession
<1>5. FilesFit(Files') /\ Grow(Files, Files')
  BY <1>2, <1>3, <1>4, SessionChangeGrows
<1>6. /\ l \in Locals /\ l.at = "stamp" /\ l.rec = proc[p].rec
      /\ l.task = proc[p].task /\ l.snap = proc[p].snap /\ l.polls = proc[p].polls
  BY <1>1 DEF Locals, Step
<1> HIDE DEF l, Files
<1>7. LocalsFit(proc[p], Files') /\ Known(proc[p].rec, Files')
  BY <1>1, <1>2, <1>5, GrowKeepsLocals, GrowKeepsKnown DEF IInv
<1>8. LocalsFit(l, Files')
  <2>1. l.at \in RunSteps
    BY <1>6 DEF RunSteps
  <2>2. WorkflowCoherent(l.snap) /\ Backed(l.snap, Files')
    BY <1>6, <1>7 DEF LocalsFit
  <2> QED
    BY <1>1, <1>6, <1>7, <2>1, <2>2, ReviseFits
<1>9. Backed(wf', Files')
  BY <1>4, <1>5, GrowKeepsBacked DEF IInv
<1> QED
  BY <1>4, <1>5, <1>6, <1>8, <1>9, StepKeeps DEF IInv

LEMMA StampRunKeeps ==
    ASSUME IInv, NEW p \in Procs, StampRun(p)
    PROVE  IInv'
<1> DEFINE status     == IF proc[p].recovery /\ RetryAfterCancel
                         THEN "timed_out" ELSE "cancelled"
           recoveries == IF proc[p].recovery THEN proc[p].rec.recoveries + 1
                         ELSE proc[p].rec.recoveries
           rec        == [proc[p].rec EXCEPT !.status = status, !.recoveries = recoveries]
           l          == [proc[p] EXCEPT !.at = "load", !.rec = rec]
<1>1. /\ proc[p] \in Locals /\ LocalsFit(proc[p], Files)
      /\ proc[p].at \in RunSteps /\ "load" \in RunSteps
  BY DEF IInv, StampRun, At, RunSteps
<1>2. proc[p].rec \in RunRecord
  BY <1>1 DEF LocalsFit, Known, Spawned
<1>3. Become(p, l) /\ WriteRun(rec) /\ UNCHANGED <<wf, manualAt, remote, nextRun>>
  BY Zenon DEF StampRun
<1>4. status \in RunStatus /\ recoveries \in Nat
  BY <1>2 DEF RunStatus, RunRecord
<1> HIDE DEF status, recoveries
<1>5. rec \in RunRecord /\ rec.id = proc[p].rec.id /\ rec.task = proc[p].rec.task
  BY <1>2, <1>4 DEF RunRecord
<1> HIDE DEF rec
<1>6. /\ l \in Locals /\ l.at = "load" /\ l.rec = rec /\ l.task = proc[p].task
      /\ l.snap = proc[p].snap /\ l.polls = proc[p].polls
  BY <1>1, <1>5 DEF Locals, Step
<1> HIDE DEF l
<1> QED
  BY <1>1, <1>3, <1>5, <1>6, WriteRevisedKeeps

\* An operation that has a run at hand loads the workflow.
LEMMA LoadKeeps ==
    ASSUME IInv, NEW p \in Procs, proc[p].at \in RunSteps,
           NEW l \in Locals, l.at \in RunSteps, Known(l.rec, Files),
           l.rec.task = proc[p].rec.task, l.task = proc[p].task,
           l.polls = proc[p].polls, l.snap = wf,
           Become(p, l), UNCHANGED <<wf, ledger, manualAt, remote, nextRun>>
    PROVE  IInv'
<1>1. proc[p] \in Locals /\ LocalsFit(proc[p], Files)
  BY DEF IInv
<1>2. WorkflowCoherent(l.snap) /\ Backed(l.snap, Files)
  BY DEF IInv
<1>3. LocalsFit(l, Files)
  BY <1>1, <1>2, ReviseFits
<1> QED
  BY <1>3, LocalStepKeeps

LEMMA LoadForCancelKeeps ==
    ASSUME IInv, NEW p \in Procs, LoadForCancel(p)
    PROVE  IInv'
<1> DEFINE l == [proc[p] EXCEPT !.at = "apply", !.snap = wf]
<1>1. /\ proc[p] \in Locals /\ LocalsFit(proc[p], Files)
      /\ proc[p].at \in RunSteps /\ "apply" \in RunSteps
  BY DEF IInv, LoadForCancel, At, RunSteps
<1>2. /\ l \in Locals /\ l.at = "apply" /\ l.rec = proc[p].rec /\ l.task = proc[p].task
      /\ l.snap = wf /\ l.polls = proc[p].polls
  BY <1>1 DEF IInv, Locals, Step
<1>3. Become(p, l) /\ UNCHANGED <<wf, ledger, manualAt, remote, nextRun>>
  BY DEF LoadForCancel
<1>4. Known(proc[p].rec, Files)
  BY <1>1 DEF LocalsFit
<1> HIDE DEF l
<1> QED
  BY <1>1, <1>2, <1>3, <1>4, LoadKeeps

LEMMA ApplyCancelKeeps ==
    ASSUME IInv, NEW p \in Procs, ApplyCancel(p)
    PROVE  IInv'
<1> DEFINE again == [Idle EXCEPT !.at = "reread", !.task = proc[p].task,
                                 !.rec = proc[p].rec]
           l     == IF proc[p].recovery /\ RetryAfterCancel THEN again ELSE Idle
<1>1. /\ proc[p] \in Locals /\ LocalsFit(proc[p], Files)
      /\ proc[p].at \in RunSteps
  BY DEF IInv, ApplyCancel, At, RunSteps
<1>2. Idle \in Locals /\ LocalsFit(Idle, Files)
  BY IdleFits
<1>3. /\ Known(proc[p].rec, Files) /\ proc[p].rec.task = proc[p].task
      /\ proc[p].rec \in RunRecord /\ proc[p].task \in Tasks
  BY <1>1 DEF LocalsFit, Known, Spawned, RunRecord
<1>4. again \in Locals
  BY <1>2, <1>3 DEF Locals, Step
<1>5. /\ again.at = "reread" /\ again.task = proc[p].task /\ again.rec = proc[p].rec
      /\ again.snap = Idle.snap /\ again.polls = Idle.polls
  BY <1>2 DEF Locals
<1>6. Become(p, l) /\ wf' = ApplyRunStatus(proc[p].snap, proc[p].task, proc[p].rec.status)
  BY Zenon DEF ApplyCancel
<1>7. UNCHANGED <<ledger, manualAt, remote, nextRun>>
  BY DEF ApplyCancel
<1> HIDE DEF again
<1>8. LocalsFit(again, Files)
  BY <1>2, <1>3, <1>5 DEF LocalsFit
<1>9. l \in Locals /\ LocalsFit(l, Files)
  BY <1>2, <1>4, <1>8
<1> HIDE DEF l
<1> QED
  BY <1>1, <1>6, <1>7, <1>9, ApplyRunStatusKeeps

----------------------------------------------------------------------------
\* Retry.

LEMMA RereadRunKeeps ==
    ASSUME IInv, NEW p \in Procs, RereadRun(p)
    PROVE  IInv'
<1>1. PICK rec \in ledger :
         rec.id = proc[p].rec.id /\ Become(p, [proc[p] EXCEPT !.at = "retry", !.rec = rec])
  BY DEF RereadRun
<1> DEFINE l == [proc[p] EXCEPT !.at = "retry", !.rec = rec]
<1>2. /\ proc[p] \in Locals /\ LocalsFit(proc[p], Files)
      /\ proc[p].at \in RunSteps
  BY DEF IInv, RereadRun, At, RunSteps
<1>3. rec \in RunRecord /\ Known(rec, Files)
  BY LedgerKnown
<1>4. rec.task = proc[p].rec.task
  <2>1. Known(proc[p].rec, Files)
    BY <1>2 DEF LocalsFit
  <2> QED
    BY <1>1, <1>3, <2>1 DEF Known, Spawned
<1>5. /\ l \in Locals /\ l.at = "retry" /\ l.rec = rec /\ l.task = proc[p].task
      /\ l.snap = proc[p].snap /\ l.polls = proc[p].polls
  BY <1>2, <1>3 DEF Locals, Step
<1>6. Become(p, l) /\ UNCHANGED <<wf, ledger, manualAt, remote, nextRun>>
  BY <1>1 DEF RereadRun
<1> HIDE DEF l
<1>7. l.at \in RunSteps
  BY <1>5 DEF RunSteps
<1>8. WorkflowCoherent(l.snap) /\ Backed(l.snap, Files)
  BY <1>2, <1>5 DEF LocalsFit
<1>9. LocalsFit(l, Files)
  BY <1>2, <1>3, <1>4, <1>5, <1>7, <1>8, ReviseFits
<1> QED
  BY <1>5, <1>6, <1>9, LocalStepKeeps

LEMMA EvaluateRetryKeeps ==
    ASSUME IInv, NEW p \in Procs, EvaluateRetry(p)
    PROVE  IInv'
<1> DEFINE retries == proc[p].rec.retries + 1
           rec     == [proc[p].rec EXCEPT !.retries = retries]
           again   == [proc[p] EXCEPT !.at = "history", !.snap = wf, !.rec = rec]
           bury    == [proc[p] EXCEPT !.at = "bury", !.snap = wf]
<1>1. /\ proc[p] \in Locals /\ LocalsFit(proc[p], Files)
      /\ proc[p].at \in RunSteps
  BY DEF IInv, EvaluateRetry, At, RunSteps
<1>2. Known(proc[p].rec, Files) /\ proc[p].rec \in RunRecord
  BY <1>1 DEF LocalsFit, Known, Spawned
<1>3. /\ Become(p, again) \/ Become(p, bury) \/ Become(p, Idle)
      /\ UNCHANGED <<wf, ledger, manualAt, remote, nextRun>>
  BY Zenon DEF EvaluateRetry
<1>4. retries \in Nat
  BY <1>2 DEF RunRecord
<1> HIDE DEF retries
<1>5. rec \in RunRecord /\ rec.id = proc[p].rec.id /\ rec.task = proc[p].rec.task
  BY <1>2, <1>4 DEF RunRecord
<1> HIDE DEF rec
<1>6. /\ again \in Locals /\ again.at = "history" /\ again.rec = rec
      /\ again.task = proc[p].task /\ again.snap = wf /\ again.polls = proc[p].polls
  BY <1>1, <1>5 DEF IInv, Locals, Step
<1>7. /\ bury \in Locals /\ bury.at = "bury" /\ bury.rec = proc[p].rec
      /\ bury.task = proc[p].task /\ bury.snap = wf /\ bury.polls = proc[p].polls
  BY <1>1 DEF IInv, Locals, Step
<1> HIDE DEF again, bury
<1>8. Known(rec, Files) /\ again.at \in RunSteps /\ bury.at \in RunSteps
  BY <1>2, <1>5, <1>6, <1>7, StillKnown DEF RunSteps
<1>9. CASE Become(p, again)
  BY <1>1, <1>3, <1>5, <1>6, <1>8, <1>9, LoadKeeps
<1>10. CASE Become(p, bury)
  BY <1>1, <1>2, <1>3, <1>7, <1>8, <1>10, LoadKeeps
<1>11. CASE Become(p, Idle)
  BY <1>3, <1>11, IdleFits, LocalStepKeeps
<1> QED
  BY <1>3, <1>9, <1>10, <1>11

LEMMA WriteHistoryKeeps ==
    ASSUME IInv, NEW p \in Procs, WriteHistory(p)
    PROVE  IInv'
<1> DEFINE l == [proc[p] EXCEPT !.at = "rearm"]
<1>1. /\ proc[p] \in Locals /\ LocalsFit(proc[p], Files)
      /\ proc[p].at \in RunSteps /\ "rearm" \in RunSteps
  BY DEF IInv, WriteHistory, At, RunSteps
<1>2. proc[p].rec \in RunRecord
  BY <1>1 DEF LocalsFit, Known, Spawned
<1>3. /\ l \in Locals /\ l.at = "rearm" /\ l.rec = proc[p].rec /\ l.task = proc[p].task
      /\ l.snap = proc[p].snap /\ l.polls = proc[p].polls
  BY <1>1 DEF Locals, Step
<1>4. /\ Become(p, l) /\ WriteRun(proc[p].rec)
      /\ UNCHANGED <<wf, manualAt, remote, nextRun>>
  BY DEF WriteHistory
<1> HIDE DEF l
<1> QED
  BY <1>1, <1>2, <1>3, <1>4, WriteRevisedKeeps

\* An operation that has a task and a snapshot of the workflow at hand.
LEMMA TaskAtHand ==
    ASSUME IInv, NEW p \in Procs, proc[p].at \in {"rearm", "bury", "decide"}
    PROVE  /\ proc[p].snap \in Workflow /\ proc[p].task \in Tasks
           /\ proc[p].decision \in ReviewDecision
           /\ WorkflowCoherent(proc[p].snap) /\ Backed(proc[p].snap, Files)
BY DEF IInv, Locals, LocalsFit, TaskSteps, Step

LEMMA RearmTaskKeeps ==
    ASSUME IInv, NEW p \in Procs, RearmTask(p)
    PROVE  IInv'
<1> DEFINE l == [Idle EXCEPT !.at = "pick", !.todo = {proc[p].task}]
<1>1. /\ proc[p].snap \in Workflow /\ proc[p].task \in Tasks
      /\ WorkflowCoherent(proc[p].snap) /\ Backed(proc[p].snap, Files)
  BY TaskAtHand DEF RearmTask, At
<1>2. /\ wf' = RearmedForRetry(proc[p].snap, proc[p].task)
      /\ Become(p, l) /\ UNCHANGED <<ledger, manualAt, remote, nextRun>>
  BY DEF RearmTask
<1>3. wf' \in Workflow /\ WorkflowCoherent(wf') /\ Backed(wf', Files)
  BY <1>1, <1>2, RearmedType, RearmedCoherent, OrchestratorTransitionsBacked
<1>4. Idle \in Locals /\ LocalsFit(Idle, Files)
  BY IdleFits
<1>5. l \in Locals /\ l.at = "pick" /\ l.snap = Idle.snap /\ l.polls = Idle.polls
  BY <1>1, <1>4 DEF Locals, Step
<1> HIDE DEF l
<1>6. LocalsFit(l, Files)
  BY <1>4, <1>5 DEF LocalsFit, TaskSteps, RunSteps
<1> QED
  BY <1>2, <1>3, <1>5, <1>6, SaveStepKeeps

LEMMA BuryTaskKeeps ==
    ASSUME IInv, NEW p \in Procs, BuryTask(p)
    PROVE  IInv'
<1>1. /\ proc[p].snap \in Workflow /\ proc[p].task \in Tasks
      /\ WorkflowCoherent(proc[p].snap) /\ Backed(proc[p].snap, Files)
  BY TaskAtHand DEF BuryTask, At
<1>2. wf' \in Workflow /\ WorkflowCoherent(wf') /\ Backed(wf', Files)
  BY <1>1, DeadLetteredType, DeadLetteredCoherent, OrchestratorTransitionsBacked
     DEF BuryTask
<1> QED
  BY <1>2, IdleFits, SaveStepKeeps DEF BuryTask

----------------------------------------------------------------------------
\* Review and planning.

LEMMA StartReviewKeeps ==
    ASSUME IInv, NEW p \in Procs, NEW t \in Tasks, NEW decision \in ReviewDecision,
           StartReview(p, t, decision)
    PROVE  IInv'
<1> DEFINE l == [Idle EXCEPT !.at = "decide", !.snap = wf, !.task = t,
                             !.decision = decision]
<1>1. Idle \in Locals /\ LocalsFit(Idle, Files)
  BY IdleFits
<1>2. /\ l \in Locals /\ l.at = "decide" /\ l.snap = wf /\ l.task = t
      /\ l.polls = Idle.polls
  BY <1>1 DEF IInv, Locals, Step
<1>3. Become(p, l) /\ UNCHANGED <<wf, ledger, manualAt, remote, nextRun>>
  BY DEF StartReview
<1> HIDE DEF l
<1>4. LocalsFit(l, Files)
  BY <1>1, <1>2 DEF IInv, LocalsFit, RunSteps
<1> QED
  BY <1>2, <1>3, <1>4, LocalStepKeeps

LEMMA DecideKeeps ==
    ASSUME IInv, NEW p \in Procs, Decide(p)
    PROVE  IInv'
<1>1. /\ proc[p].snap \in Workflow /\ proc[p].task \in Tasks
      /\ proc[p].decision \in ReviewDecision
      /\ WorkflowCoherent(proc[p].snap) /\ Backed(proc[p].snap, Files)
  BY TaskAtHand DEF Decide, At
<1>2. wf' \in Workflow /\ WorkflowCoherent(wf') /\ Backed(wf', Files)
  BY <1>1, ApplyReviewDecisionType, ApplyReviewDecisionCoherent,
     ApplyReviewDecisionBacked DEF Decide
<1> QED
  BY <1>2, IdleFits, SaveStepKeeps DEF Decide

LEMMA InitialBacked ==
    ASSUME NEW f
    PROVE  Backed(InitialWorkflow, f)
BY IdleFits DEF Idle, LocalsFit

LEMMA ReplanKeeps ==
    ASSUME IInv, NEW p \in Procs, Replan(p)
    PROVE  IInv'
<1>1. Files' = Files /\ proc' = proc /\ wf' = InitialWorkflow
  BY DEF Replan, Files
<1> QED
  BY <1>1, InitialType, InitialCoherent, InitialBacked DEF IInv

----------------------------------------------------------------------------
\* The environment.

LEMMA SessionEndsKeeps ==
    ASSUME IInv, NEW r \in RunIds, SessionEnds(r)
    PROVE  IInv'
<1>1. PICK state \in {"clean", "broken"} : remote' = [remote EXCEPT ![r].state = state]
  BY DEF SessionEnds
<1>2. UNCHANGED <<wf, ledger, manualAt, nextRun, proc>>
  BY DEF SessionEnds
<1>3. FilesFit(Files') /\ Grow(Files, Files')
  BY <1>1, <1>2, SessionChangeGrows DEF SessionState
<1> HIDE DEF Files
<1>4. Backed(wf', Files')
  BY <1>2, <1>3, GrowKeepsBacked DEF IInv
<1>5. \A p \in Procs : LocalsFit(proc[p], Files')
  BY <1>3, GrowKeepsLocals DEF IInv
<1> QED
  BY <1>2, <1>3, <1>4, <1>5 DEF IInv

LEMMA AbandonKeeps ==
    ASSUME IInv, NEW p \in Procs, RuntimeCallFails(p) \/ Crash(p)
    PROVE  IInv'
BY IdleFits, LocalStepKeeps DEF RuntimeCallFails, Crash

----------------------------------------------------------------------------
\* The invariant holds initially, and every step keeps it.

LEMMA InitEstablishes == Init => IInv
<1> SUFFICES ASSUME Init
             PROVE  IInv
  OBVIOUS
<1>1. /\ Files.ledger = {} /\ Files.manualAt = [t \in Tasks |-> 0]
      /\ Files.remote = [r \in RunIds |-> NoSession] /\ Files.nextRun = 1
  BY DEF Init, Files
<1> HIDE DEF Files
<1>2. FilesFit(Files)
  BY <1>1, OrchestratorAssumption DEF FilesFit, NoSession, SessionState
<1>3. wf \in Workflow /\ WorkflowCoherent(wf) /\ Backed(wf, Files)
  BY InitialType, InitialCoherent, InitialBacked DEF Init
<1>4. /\ proc \in [Procs -> Locals]
      /\ \A p \in Procs : LocalsFit(proc[p], Files)
  BY IdleFits DEF Init
<1> QED
  BY <1>2, <1>3, <1>4 DEF IInv

LEMMA StepsKeep ==
    ASSUME IInv, NEW p \in Procs, Steps(p)
    PROVE  IInv'
<1>1. CASE DispatchStep(p)
  BY <1>1, SkipTaskKeeps, PickTaskKeeps, SpawnSessionKeeps, RecordRunKeeps,
     RecordManualRunKeeps, CommitDispatchKeeps, ReloadForQueueKeeps,
     EnqueueOverflowKeeps DEF DispatchStep
<1>2. CASE SyncStep(p)
  BY <1>2, LoadForSyncKeeps, ObserveKeeps, NoteSyncedKeeps, SettleKeeps DEF SyncStep
<1>3. CASE CancelStep(p)
  BY <1>3, CancelSessionKeeps, StampRunKeeps, LoadForCancelKeeps, ApplyCancelKeeps
     DEF CancelStep
<1>4. CASE RetryStep(p)
  BY <1>4, RereadRunKeeps, EvaluateRetryKeeps, WriteHistoryKeeps, RearmTaskKeeps,
     BuryTaskKeeps DEF RetryStep
<1>5. CASE Decide(p)
  BY <1>5, DecideKeeps
<1> QED
  BY <1>1, <1>2, <1>3, <1>4, <1>5 DEF Steps

LEMMA StartsKeep ==
    ASSUME IInv, NEW p \in Procs, SupervisedStart(p) \/ OperatorStart(p)
    PROVE  IInv'
<1>1. Overrides \subseteq {"task", "acp", "manual"} /\ "task" \in Overrides
  BY OrchestratorAssumption
<1>2. wf.reviewQueue \subseteq Tasks
  BY DEF IInv, Workflow
<1>3. CASE SupervisedStart(p)
  BY <1>1, <1>2, <1>3, StartBatchKeeps, StartSyncKeeps, StartCancelKeeps, StartReviewKeeps
     DEF SupervisedStart
<1>4. CASE OperatorStart(p)
  BY <1>1, <1>4, StartBatchKeeps, StartRunOnceKeeps, StartSyncKeeps, StartCancelKeeps,
     StartReviewKeeps, ReplanKeeps DEF OperatorStart
<1> QED
  BY <1>3, <1>4

LEMMA NextKeeps == IInv /\ [Next]_vars => IInv'
<1> SUFFICES ASSUME IInv, [Next]_vars
             PROVE  IInv'
  OBVIOUS
<1>1. CASE UNCHANGED vars
  BY <1>1 DEF vars, IInv, Files
<1>2. CASE Next
  <2>1. Autopilots \subseteq Procs /\ Operators \subseteq Procs
    BY OrchestratorAssumption
  <2>2. CASE SupervisedNext
    BY <2>1, <2>2, StartsKeep, StepsKeep, SessionEndsKeeps, AbandonKeeps
       DEF SupervisedNext, Environment
  <2>3. CASE (\E p \in Operators : OperatorStart(p)) \/ (\E p \in Procs : Crash(p))
    BY <2>1, <2>3, StartsKeep, AbandonKeeps
  <2> QED
    BY <1>2, <2>2, <2>3 DEF Next
<1> QED
  BY <1>1, <1>2

LEMMA Invariance == Spec => []IInv
<1>1. Init => IInv
  BY InitEstablishes
<1>2. IInv /\ [Next]_vars => IInv'
  BY NextKeeps
<1> QED
  BY <1>1, <1>2, PTL DEF Spec

----------------------------------------------------------------------------
\* What the records say of the sessions.

\* What the record says of the end of its run is so.
TrueRecord(rec, rem) ==
    /\ ~Active(rec) => rem[rec.id].state # "running"
    /\ rec.status = "completed" => "completed" \in mapManagerState[rem[rec.id].state]

\* So it is for the copies that an operation has at hand, and a run is stamped
\* only when its session has been stopped.
TrueLocals(l, rem) ==
    /\ \A rec \in l.polls : TrueRecord(rec, rem)
    /\ l.at \in RunSteps => TrueRecord(l.rec, rem)
    /\ l.at = "record" /\ l.runner = "acp" => l.rec.status = "accepted"
    /\ l.at = "stamp" => rem[l.rec.id].state # "running"

\* Inductive together with IInv.
Verdicts ==
    /\ \A rec \in ledger : TrueRecord(rec, remote)
    /\ \A p \in Procs : TrueLocals(proc[p], remote)

\* What is over stays over, as it was.
StaysOver ==
    \A r \in RunIds : r < nextRun /\ remote[r].state # "running"
                          => remote'[r].state = remote[r].state

LEMMA TrueRecordStays ==
    ASSUME StaysOver, NEW rec, Spawned(rec, Files), TrueRecord(rec, remote)
    PROVE  TrueRecord(rec, remote')
<1>1. rec.id \in RunIds /\ rec.id < nextRun
  BY DEF Spawned, RunRecord, Files
<1>2. CASE Active(rec)
  BY <1>2 DEF TrueRecord, Active
<1>3. CASE ~Active(rec)
  BY <1>1, <1>3 DEF TrueRecord, StaysOver
<1> QED
  BY <1>2, <1>3

LEMMA TrueLocalsStay ==
    ASSUME IInv, StaysOver, NEW p \in Procs, TrueLocals(proc[p], remote)
    PROVE  TrueLocals(proc[p], remote')
<1>1. LocalsFit(proc[p], Files)
  BY DEF IInv
<1>2. \A rec \in proc[p].polls : TrueRecord(rec, remote')
  BY <1>1, TrueRecordStays DEF LocalsFit, Known, TrueLocals
<1>3. proc[p].at \in RunSteps => TrueRecord(proc[p].rec, remote')
  BY <1>1, TrueRecordStays DEF LocalsFit, Known, TrueLocals
<1>4. ASSUME proc[p].at = "stamp"
      PROVE  remote'[proc[p].rec.id].state # "running"
  <2>1. Spawned(proc[p].rec, Files)
    BY <1>1, <1>4 DEF LocalsFit, Known, RunSteps
  <2>2. proc[p].rec.id \in RunIds /\ proc[p].rec.id < nextRun
    BY <2>1 DEF Spawned, RunRecord, Files
  <2> QED
    BY <1>4, <2>2 DEF TrueLocals, StaysOver
<1> QED
  BY <1>2, <1>3, <1>4 DEF TrueLocals

\* A step keeps the records true if what is over stays over, and what it writes
\* or takes to hand is true.
LEMMA TrueStep ==
    ASSUME IInv, Verdicts, StaysOver, NEW p \in Procs, NEW l, Become(p, l),
           \A rec \in ledger' \ ledger : TrueRecord(rec, remote'),
           TrueLocals(l, remote')
    PROVE  Verdicts'
<1>1. ASSUME NEW rec \in ledger'
      PROVE  TrueRecord(rec, remote')
  <2>1. CASE rec \in ledger
    BY <2>1, LedgerKnown, TrueRecordStays DEF Verdicts, Known
  <2>2. CASE rec \notin ledger
    BY <2>2
  <2> QED
    BY <2>1, <2>2
<1>2. ASSUME NEW q \in Procs
      PROVE  TrueLocals(proc'[q], remote')
  <2>1. CASE q = p
    BY <2>1 DEF IInv, Become
  <2>2. CASE q # p
    BY <2>2, TrueLocalsStay DEF IInv, Become, Verdicts
  <2> QED
    BY <2>1, <2>2
<1> QED
  BY <1>1, <1>2 DEF Verdicts

LEMMA TrueLocalStep ==
    ASSUME IInv, Verdicts, NEW p \in Procs, NEW l, Become(p, l), TrueLocals(l, remote),
           UNCHANGED <<ledger, remote>>
    PROVE  Verdicts'
BY TrueStep DEF StaysOver

LEMMA TrueWriteStep ==
    ASSUME IInv, Verdicts, NEW p \in Procs, NEW l, Become(p, l), TrueLocals(l, remote),
           NEW rec, WriteRun(rec), TrueRecord(rec, remote), UNCHANGED remote
    PROVE  Verdicts'
<1>1. \A new \in ledger' \ ledger : TrueRecord(new, remote')
  BY DEF WriteRun
<1> QED
  BY <1>1, TrueStep DEF StaysOver

\* An operation that has no run at hand, and none to poll.
LEMMA NothingAtHand ==
    ASSUME NEW l, NEW rem, l.polls = {}, l.at \notin RunSteps, l.at # "record"
    PROVE  TrueLocals(l, rem)
BY DEF TrueLocals, RunSteps

LEMMA IdleIsTrue ==
    ASSUME NEW rem
    PROVE  TrueLocals(Idle, rem)
<1>1. Idle.polls = {} /\ Idle.at = "idle"
  BY DEF Idle
<1> QED
  BY <1>1, NothingAtHand DEF RunSteps

LEMMA BetweenRunsTrue ==
    ASSUME NEW l, NEW rem
    PROVE  TrueLocals(AfterRunOnce(l), rem)
<1>1. AfterRunOnce(l).polls = {} /\ AfterRunOnce(l).at \in {"pick", "reload", "idle"}
  BY DEF AfterRunOnce, Idle
<1> QED
  BY <1>1, NothingAtHand DEF RunSteps

\* A process that moves on keeps the records that it is to poll.
LEMMA SamePollsTrue ==
    ASSUME NEW k, NEW rem, TrueLocals(k, rem), NEW l, l.polls \subseteq k.polls,
           l.at \in RunSteps => TrueRecord(l.rec, rem),
           l.at = "record" /\ l.runner = "acp" => l.rec.status = "accepted",
           l.at = "stamp" => rem[l.rec.id].state # "running"
    PROVE  TrueLocals(l, rem)
BY DEF TrueLocals

LEMMA DispatchKeepsVerdicts ==
    ASSUME IInv, Verdicts, NEW p \in Procs, DispatchStep(p)
    PROVE  Verdicts'
<1>1. proc[p] \in Locals /\ TrueLocals(proc[p], remote)
  BY DEF IInv, Verdicts
<1>2. ASSUME NEW t \in Tasks, SkipTask(p, t)
      PROVE  Verdicts'
  BY <1>2, BetweenRunsTrue, TrueLocalStep DEF SkipTask
<1>3. ASSUME NEW t \in Tasks, PickTask(p, t)
      PROVE  Verdicts'
  <2> DEFINE runner == RunnerOf(t, proc[p].override)
             at     == IF runner = "acp" THEN "spawn" ELSE "record"
             l      == [proc[p] EXCEPT !.at = at, !.snap = wf, !.task = t,
                                       !.runner = runner, !.todo = @ \ {t}]
  <2>1. at \in {"spawn", "record"} /\ (at = "record" => runner # "acp")
    OBVIOUS
  <2>2. Become(p, l) /\ UNCHANGED <<ledger, remote>>
    BY <1>3 DEF PickTask
  <2> HIDE DEF runner, at
  <2>3. l.at = at /\ l.runner = runner /\ l.polls = proc[p].polls
    BY <1>1 DEF Locals
  <2> HIDE DEF l
  <2>4. TrueLocals(l, remote)
    BY <1>1, <2>1, <2>3, SamePollsTrue DEF RunSteps
  <2> QED
    BY <2>2, <2>4, TrueLocalStep
<1>4. CASE SpawnSession(p)
  <2> DEFINE rec == [id |-> nextRun, task |-> proc[p].task, status |-> "accepted",
                     retries |-> 0, recoveries |-> 0]
             l   == [proc[p] EXCEPT !.at = "record", !.rec = rec]
  <2>1. Become(p, l) /\ UNCHANGED ledger
    BY <1>4 DEF SpawnSession
  <2>2. \A r \in RunIds : r < nextRun => remote'[r] = remote[r]
    <3>1. remote' = [remote EXCEPT ![nextRun] =
                        [task |-> proc[p].task, state |-> "running"]]
      BY <1>4 DEF SpawnSession
    <3>2. \A r \in RunIds : r < nextRun => r # nextRun
      BY OrchestratorAssumption DEF RunIds, IInv, FilesFit, Files
    <3>3. remote \in [RunIds -> [task : Tasks \union {0}, state : SessionState]]
      BY DEF IInv, FilesFit, Files
    <3> QED
      BY <3>1, <3>2, <3>3
  <2>3. StaysOver
    BY <2>2 DEF StaysOver
  <2>4. /\ l.polls = proc[p].polls /\ l.at = "record" /\ l.rec = rec
        /\ rec.status = "accepted"
    BY <1>1 DEF Locals
  <2> HIDE DEF l, rec
  <2>5. TrueLocals(l, remote')
    <3>1. TrueLocals(proc[p], remote')
      BY <1>1, <2>3, TrueLocalsStay
    <3> QED
      BY <2>4, <3>1, SamePollsTrue DEF RunSteps
  <2> QED
    BY <2>1, <2>3, <2>5, TrueStep
<1>5. CASE RecordRun(p)
  <2> DEFINE l == [proc[p] EXCEPT !.at = "commit"]
  <2>1. /\ Become(p, l) /\ WriteRun(proc[p].rec) /\ UNCHANGED remote
        /\ proc[p].at = "record" /\ proc[p].runner = "acp"
    BY <1>5 DEF RecordRun, At
  <2>2. TrueRecord(proc[p].rec, remote)
    BY <1>1, <2>1 DEF TrueLocals, TrueRecord, Active
  <2>3. l.polls = proc[p].polls /\ l.at = "commit"
    BY <1>1 DEF Locals
  <2> HIDE DEF l
  <2>4. TrueLocals(l, remote)
    BY <1>1, <2>3, SamePollsTrue DEF RunSteps
  <2> QED
    BY <2>1, <2>2, <2>4, TrueWriteStep
<1>6. CASE RecordManualRun(p)
  <2> DEFINE l == [proc[p] EXCEPT !.at = "commit"]
  <2>1. l.polls = proc[p].polls /\ l.at = "commit"
    BY <1>1 DEF Locals
  <2>2. Become(p, l) /\ UNCHANGED <<ledger, remote>>
    BY <1>6 DEF RecordManualRun
  <2> HIDE DEF l
  <2>3. TrueLocals(l, remote)
    BY <1>1, <2>1, SamePollsTrue DEF RunSteps
  <2> QED
    BY <2>2, <2>3, TrueLocalStep
<1>7. CASE ReloadForQueue(p)
  <2> DEFINE l == [proc[p] EXCEPT !.at = "enqueue", !.snap = wf]
  <2>1. l.polls = proc[p].polls /\ l.at = "enqueue"
    BY <1>1 DEF Locals
  <2>2. Become(p, l) /\ UNCHANGED <<ledger, remote>>
    BY <1>7 DEF ReloadForQueue
  <2> HIDE DEF l
  <2>3. TrueLocals(l, remote)
    BY <1>1, <2>1, SamePollsTrue DEF RunSteps
  <2> QED
    BY <2>2, <2>3, TrueLocalStep
<1>8. CASE CommitDispatch(p)
  BY <1>8, BetweenRunsTrue, TrueLocalStep DEF CommitDispatch
<1>9. CASE EnqueueOverflow(p)
  BY <1>9, IdleIsTrue, TrueLocalStep DEF EnqueueOverflow
<1> QED
  BY <1>2, <1>3, <1>4, <1>5, <1>6, <1>7, <1>8, <1>9 DEF DispatchStep

LEMMA SyncKeepsVerdicts ==
    ASSUME IInv, Verdicts, NEW p \in Procs, SyncStep(p)
    PROVE  Verdicts'
<1>1. proc[p] \in Locals /\ TrueLocals(proc[p], remote) /\ LocalsFit(proc[p], Files)
  BY DEF IInv, Verdicts
<1>2. CASE LoadForSync(p)
  <2>1. PICK rec \in proc[p].polls :
           Become(p, [proc[p] EXCEPT !.at = "observe", !.snap = wf, !.task = rec.task,
                                     !.rec = rec, !.polls = @ \ {rec}])
    BY <1>2 DEF LoadForSync
  <2> DEFINE l == [proc[p] EXCEPT !.at = "observe", !.snap = wf, !.task = rec.task,
                                  !.rec = rec, !.polls = @ \ {rec}]
  <2>2. l.polls \subseteq proc[p].polls /\ l.at = "observe" /\ l.rec = rec
    BY <1>1 DEF Locals
  <2> HIDE DEF l
  <2>3. TrueLocals(l, remote)
    BY <1>1, <2>2, SamePollsTrue DEF TrueLocals
  <2> QED
    BY <1>2, <2>1, <2>3, TrueLocalStep DEF LoadForSync, l
<1>3. CASE Observe(p)
  <2>1. PICK status \in PollOutcome(remote[proc[p].rec.id].state) :
           Become(p, [proc[p] EXCEPT !.at = "note", !.rec.status = status])
    BY <1>3 DEF Observe
  <2> DEFINE rec == [proc[p].rec EXCEPT !.status = status]
             l   == [proc[p] EXCEPT !.at = "note", !.rec = rec]
  <2>2. Known(proc[p].rec, Files) /\ proc[p].rec \in RunRecord
    BY <1>1, <1>3 DEF Observe, At, LocalsFit, Known, Spawned, RunSteps
  <2>3. remote[proc[p].rec.id].state \in SessionState
    BY <2>2 DEF IInv, FilesFit, Files, RunRecord
  <2>4. rec.status = status /\ rec.id = proc[p].rec.id
    BY <2>2 DEF RunRecord
  <2>5. l.polls = proc[p].polls /\ l.at = "note" /\ l.rec = rec
    BY <1>1 DEF Locals
  <2> HIDE DEF l, rec
  <2>6. TrueRecord(rec, remote)
    BY <2>1, <2>3, <2>4, OrchestratorAssumption
       DEF TrueRecord, Active, PollOutcome, applyArtifactAcceptance, mapManagerState,
           SessionState
  <2>7. TrueLocals(l, remote)
    BY <1>1, <2>5, <2>6, SamePollsTrue
  <2> QED
    BY <1>3, <2>1, <2>7, TrueLocalStep DEF Observe, l, rec
<1>4. CASE NoteSynced(p)
  <2> DEFINE l == [proc[p] EXCEPT !.at = "settle"]
  <2>1. TrueRecord(proc[p].rec, remote)
    BY <1>1, <1>4 DEF NoteSynced, At, TrueLocals, RunSteps
  <2>2. l.polls = proc[p].polls /\ l.at = "settle" /\ l.rec = proc[p].rec
    BY <1>1 DEF Locals
  <2>3. Become(p, l) /\ WriteRun(proc[p].rec) /\ UNCHANGED remote
    BY <1>4 DEF NoteSynced
  <2> HIDE DEF l
  <2>4. TrueLocals(l, remote)
    BY <1>1, <2>1, <2>2, SamePollsTrue
  <2> QED
    BY <2>1, <2>3, <2>4, TrueWriteStep
<1>5. CASE Settle(p)
  <2>1. /\ AfterSync(proc[p]).polls \subseteq proc[p].polls
        /\ AfterSync(proc[p]).at \in {"poll", "idle"}
    BY DEF AfterSync, Idle
  <2>2. TrueLocals(AfterSync(proc[p]), remote)
    BY <1>1, <2>1, SamePollsTrue DEF RunSteps
  <2> QED
    BY <1>5, <2>2, TrueLocalStep DEF Settle
<1> QED
  BY <1>2, <1>3, <1>4, <1>5 DEF SyncStep

\* The end of a session leaves those that are over as they are.
LEMMA EndStaysOver ==
    ASSUME IInv, NEW r \in RunIds, NEW state,
           remote[r].state = "running" \/ remote[r].state = state,
           remote' = [remote EXCEPT ![r].state = state]
    PROVE  StaysOver
<1>1. \A s \in RunIds : s # r => remote'[s] = remote[s]
  BY DEF IInv, FilesFit, Files
<1>2. remote'[r].state = state
  BY DEF IInv, FilesFit, Files
<1> QED
  BY <1>1, <1>2 DEF StaysOver

LEMMA CancelKeepsVerdicts ==
    ASSUME IInv, Verdicts, NEW p \in Procs, CancelStep(p)
    PROVE  Verdicts'
<1>1. proc[p] \in Locals /\ TrueLocals(proc[p], remote) /\ LocalsFit(proc[p], Files)
  BY DEF IInv, Verdicts
<1>2. CASE CancelSession(p)
  <2> DEFINE r == proc[p].rec.id
             l == [proc[p] EXCEPT !.at = "stamp"]
  <2>1. r \in RunIds /\ proc[p].at = "cancel" /\ proc[p].at \in RunSteps
    BY <1>1, <1>2 DEF CancelSession, At, LocalsFit, Known, Spawned, RunRecord, RunSteps
  <2>2. PICK state \in (IF remote[r].state = "running" THEN {"clean", "broken"}
                        ELSE {remote[r].state}) :
           remote' = [remote EXCEPT ![r].state = state]
    BY <1>2 DEF CancelSession
  <2>3. Become(p, l) /\ UNCHANGED ledger
    BY <1>2 DEF CancelSession
  <2>4. StaysOver
    BY <2>1, <2>2, EndStaysOver
  <2>5. l.polls = proc[p].polls /\ l.at = "stamp" /\ l.rec = proc[p].rec
    BY <1>1 DEF Locals
  <2>6. remote'[r].state # "running"
    BY <2>1, <2>2 DEF IInv, FilesFit, Files
  <2> HIDE DEF l
  <2>7. TrueLocals(l, remote')
    <3>1. TrueLocals(proc[p], remote')
      BY <1>1, <2>4, TrueLocalsStay
    <3>2. TrueRecord(proc[p].rec, remote')
      BY <2>1, <3>1 DEF TrueLocals
    <3> QED
      BY <2>5, <2>6, <3>1, <3>2, SamePollsTrue
  <2> QED
    BY <2>3, <2>4, <2>7, TrueStep
<1>3. CASE StampRun(p)
  <2> DEFINE status     == IF proc[p].recovery /\ RetryAfterCancel
                           THEN "timed_out" ELSE "cancelled"
             recoveries == IF proc[p].recovery THEN proc[p].rec.recoveries + 1
                           ELSE proc[p].rec.recoveries
             rec        == [proc[p].rec EXCEPT !.status = status, !.recoveries = recoveries]
             l          == [proc[p] EXCEPT !.at = "load", !.rec = rec]
  <2>1. Become(p, l) /\ WriteRun(rec) /\ UNCHANGED remote
    BY <1>3, Zenon DEF StampRun
  <2>2. proc[p].rec \in RunRecord /\ remote[proc[p].rec.id].state # "running"
    BY <1>1, <1>3 DEF StampRun, At, LocalsFit, Known, Spawned, RunSteps, TrueLocals
  <2>3. status \in {"timed_out", "cancelled"}
    OBVIOUS
  <2> HIDE DEF status, recoveries
  <2>4. rec.status = status /\ rec.id = proc[p].rec.id
    BY <2>2 DEF RunRecord
  <2>5. l.polls = proc[p].polls /\ l.at = "load" /\ l.rec = rec
    BY <1>1 DEF Locals
  <2> HIDE DEF l, rec
  <2>6. TrueRecord(rec, remote)
    BY <2>2, <2>3, <2>4 DEF TrueRecord
  <2>7. TrueLocals(l, remote)
    BY <1>1, <2>5, <2>6, SamePollsTrue
  <2> QED
    BY <2>1, <2>6, <2>7, TrueWriteStep
<1>4. CASE LoadForCancel(p)
  <2> DEFINE l == [proc[p] EXCEPT !.at = "apply", !.snap = wf]
  <2>1. TrueRecord(proc[p].rec, remote)
    BY <1>1, <1>4 DEF LoadForCancel, At, TrueLocals, RunSteps
  <2>2. l.polls = proc[p].polls /\ l.at = "apply" /\ l.rec = proc[p].rec
    BY <1>1 DEF Locals
  <2>3. Become(p, l) /\ UNCHANGED <<ledger, remote>>
    BY <1>4 DEF LoadForCancel
  <2> HIDE DEF l
  <2>4. TrueLocals(l, remote)
    BY <1>1, <2>1, <2>2, SamePollsTrue
  <2> QED
    BY <2>3, <2>4, TrueLocalStep
<1>5. CASE ApplyCancel(p)
  <2> DEFINE again == [Idle EXCEPT !.at = "reread", !.task = proc[p].task,
                                   !.rec = proc[p].rec]
  <2>1. Become(p, again) \/ Become(p, Idle)
    BY <1>5, Zenon DEF ApplyCancel
  <2>2. again.at = "reread" /\ again.rec = proc[p].rec /\ again.polls = {}
    BY DEF Idle
  <2>3. TrueRecord(proc[p].rec, remote)
    BY <1>1, <1>5 DEF ApplyCancel, At, TrueLocals, RunSteps
  <2> HIDE DEF again
  <2>4. TrueLocals(again, remote)
    BY <2>2, <2>3 DEF TrueLocals
  <2>5. UNCHANGED <<ledger, remote>>
    BY <1>5 DEF ApplyCancel
  <2> QED
    BY <2>1, <2>4, <2>5, IdleIsTrue, TrueLocalStep
<1> QED
  BY <1>2, <1>3, <1>4, <1>5 DEF CancelStep

LEMMA RetryKeepsVerdicts ==
    ASSUME IInv, Verdicts, NEW p \in Procs, RetryStep(p)
    PROVE  Verdicts'
<1>1. /\ proc[p] \in Locals /\ TrueLocals(proc[p], remote) /\ LocalsFit(proc[p], Files)
      /\ proc[p].at \in RunSteps
  BY DEF IInv, Verdicts, RetryStep, RereadRun, EvaluateRetry, WriteHistory, RearmTask,
         BuryTask, At, RunSteps
<1>2. proc[p].rec \in RunRecord /\ TrueRecord(proc[p].rec, remote)
  BY <1>1 DEF TrueLocals, LocalsFit, Known, Spawned
<1>3. CASE RereadRun(p)
  <2>1. PICK rec \in ledger : Become(p, [proc[p] EXCEPT !.at = "retry", !.rec = rec])
    BY <1>3 DEF RereadRun
  <2> DEFINE l == [proc[p] EXCEPT !.at = "retry", !.rec = rec]
  <2>2. l.polls = proc[p].polls /\ l.at = "retry" /\ l.rec = rec
    BY <1>1 DEF Locals
  <2> HIDE DEF l
  <2>3. TrueLocals(l, remote)
    BY <1>1, <2>2, SamePollsTrue DEF Verdicts
  <2> QED
    BY <1>3, <2>1, <2>3, TrueLocalStep DEF RereadRun, l
<1>4. CASE EvaluateRetry(p)
  <2> DEFINE retries == proc[p].rec.retries + 1
             rec     == [proc[p].rec EXCEPT !.retries = retries]
             again   == [proc[p] EXCEPT !.at = "history", !.snap = wf, !.rec = rec]
             bury    == [proc[p] EXCEPT !.at = "bury", !.snap = wf]
  <2>1. /\ Become(p, again) \/ Become(p, bury) \/ Become(p, Idle)
        /\ UNCHANGED <<ledger, remote>>
    BY <1>4, Zenon DEF EvaluateRetry
  <2>2. rec.id = proc[p].rec.id /\ rec.status = proc[p].rec.status
    BY <1>2 DEF RunRecord
  <2>3. /\ again.polls = proc[p].polls /\ again.at = "history" /\ again.rec = rec
        /\ bury.polls = proc[p].polls /\ bury.at = "bury" /\ bury.rec = proc[p].rec
    BY <1>1 DEF Locals
  <2> HIDE DEF again, bury, rec
  <2>4. TrueRecord(rec, remote)
    BY <1>2, <2>2 DEF TrueRecord, Active
  <2>5. TrueLocals(again, remote) /\ TrueLocals(bury, remote)
    BY <1>1, <1>2, <2>3, <2>4, SamePollsTrue
  <2> QED
    BY <2>1, <2>5, IdleIsTrue, TrueLocalStep
<1>5. CASE WriteHistory(p)
  <2> DEFINE l == [proc[p] EXCEPT !.at = "rearm"]
  <2>1. l.polls = proc[p].polls /\ l.at = "rearm" /\ l.rec = proc[p].rec
    BY <1>1 DEF Locals
  <2>2. Become(p, l) /\ WriteRun(proc[p].rec) /\ UNCHANGED remote
    BY <1>5 DEF WriteHistory
  <2> HIDE DEF l
  <2>3. TrueLocals(l, remote)
    BY <1>1, <1>2, <2>1, SamePollsTrue
  <2> QED
    BY <1>2, <2>2, <2>3, TrueWriteStep
<1>6. CASE RearmTask(p)
  <2> DEFINE l == [Idle EXCEPT !.at = "pick", !.todo = {proc[p].task}]
  <2>1. l.polls = {} /\ l.at = "pick"
    BY DEF Idle
  <2>2. Become(p, l) /\ UNCHANGED <<ledger, remote>>
    BY <1>6 DEF RearmTask
  <2> HIDE DEF l
  <2> QED
    BY <2>1, <2>2, NothingAtHand, TrueLocalStep DEF RunSteps
<1>7. CASE BuryTask(p)
  BY <1>7, IdleIsTrue, TrueLocalStep DEF BuryTask
<1> QED
  BY <1>3, <1>4, <1>5, <1>6, <1>7 DEF RetryStep

LEMMA StartKeepsVerdicts ==
    ASSUME IInv, Verdicts, NEW p \in Procs, SupervisedStart(p) \/ OperatorStart(p)
    PROVE  Verdicts'
<1>1. \A rec \in ledger : TrueRecord(rec, remote)
  BY DEF Verdicts
<1>2. ASSUME NEW n, NEW override, StartBatch(p, n, override)
      PROVE  Verdicts'
  <2>1. PICK l : Become(p, AfterRunOnce(l))
    BY <1>2 DEF StartBatch
  <2> QED
    BY <1>2, <2>1, BetweenRunsTrue, TrueLocalStep DEF StartBatch
<1>3. ASSUME NEW t, NEW override, StartRunOnce(p, t, override)
      PROVE  Verdicts'
  <2> DEFINE l == [Idle EXCEPT !.at = "pick", !.override = override, !.todo = {t}]
  <2>1. l.polls = {} /\ l.at = "pick"
    BY DEF Idle
  <2>2. Become(p, l) /\ UNCHANGED <<ledger, remote>>
    BY <1>3 DEF StartRunOnce
  <2> HIDE DEF l
  <2> QED
    BY <2>1, <2>2, NothingAtHand, TrueLocalStep DEF RunSteps
<1>4. ASSUME NEW polls \in SUBSET ledger, UNCHANGED <<ledger, remote>>,
             Become(p, [Idle EXCEPT !.at = "poll", !.polls = polls])
      PROVE  Verdicts'
  <2> DEFINE l == [Idle EXCEPT !.at = "poll", !.polls = polls]
  <2>1. l.polls = polls /\ l.at = "poll"
    BY DEF Idle
  <2> HIDE DEF l
  <2>2. TrueLocals(l, remote)
    BY <1>1, <2>1 DEF TrueLocals, RunSteps
  <2> QED
    BY <1>4, <2>2, TrueLocalStep DEF l
<1>5. ASSUME NEW rec \in ledger, StartCancel(p, rec) \/ StartRecovery(p, rec)
      PROVE  Verdicts'
  <2> DEFINE cancel   == [Idle EXCEPT !.at = "cancel", !.task = rec.task, !.rec = rec]
             recovery == [Idle EXCEPT !.at = "cancel", !.task = rec.task, !.rec = rec,
                                      !.recovery = TRUE]
  <2>1. \A l \in {cancel, recovery} : l.polls = {} /\ l.at = "cancel" /\ l.rec = rec
    BY DEF Idle
  <2>2. /\ Become(p, cancel) \/ Become(p, recovery)
        /\ UNCHANGED <<ledger, remote>>
    BY <1>5 DEF StartCancel, StartRecovery
  <2> HIDE DEF cancel, recovery
  <2>3. TrueLocals(cancel, remote) /\ TrueLocals(recovery, remote)
    BY <1>1, <2>1 DEF TrueLocals
  <2> QED
    BY <2>2, <2>3, TrueLocalStep
<1>6. ASSUME NEW t, NEW decision, StartReview(p, t, decision)
      PROVE  Verdicts'
  <2> DEFINE l == [Idle EXCEPT !.at = "decide", !.snap = wf, !.task = t,
                               !.decision = decision]
  <2>1. l.polls = {} /\ l.at = "decide"
    BY DEF Idle
  <2>2. Become(p, l) /\ UNCHANGED <<ledger, remote>>
    BY <1>6 DEF StartReview
  <2> HIDE DEF l
  <2> QED
    BY <2>1, <2>2, NothingAtHand, TrueLocalStep DEF RunSteps
<1>7. ASSUME StartSyncActive(p) \/ \E rec \in ledger : StartSyncRun(p, rec)
      PROVE  Verdicts'
  <2>1. CASE StartSyncActive(p)
    <3> DEFINE active  == {r \in ledger : Active(r) /\ wf.status[r.task] = "running"}
               current == {r \in active : \A s \in active : s.task = r.task => s.id <= r.id}
    <3>1. current \in SUBSET ledger
      OBVIOUS
    <3>2. /\ Become(p, [Idle EXCEPT !.at = "poll", !.polls = current])
          /\ UNCHANGED <<ledger, remote>>
      BY <2>1 DEF StartSyncActive
    <3> HIDE DEF current
    <3> QED
      BY <1>4, <3>1, <3>2
  <2>2. CASE \E rec \in ledger : StartSyncRun(p, rec)
    <3>1. PICK rec \in ledger : StartSyncRun(p, rec)
      BY <2>2
    <3>2. {rec} \in SUBSET ledger
      OBVIOUS
    <3> QED
      BY <1>4, <3>1, <3>2 DEF StartSyncRun
  <2> QED
    BY <1>7, <2>1, <2>2
<1>8. ASSUME Replan(p)
      PROVE  Verdicts'
  BY <1>8 DEF Replan, Verdicts
<1>9. CASE SupervisedStart(p)
  BY <1>2, <1>5, <1>6, <1>7, <1>9 DEF SupervisedStart
<1>10. CASE OperatorStart(p)
  BY <1>2, <1>3, <1>5, <1>6, <1>7, <1>8, <1>10 DEF OperatorStart
<1> QED
  BY <1>9, <1>10

LEMMA EnvironmentKeepsVerdicts ==
    ASSUME IInv, Verdicts, Environment \/ \E p \in Procs : Crash(p)
    PROVE  Verdicts'
<1>1. ASSUME NEW r \in RunIds, SessionEnds(r)
      PROVE  Verdicts'
  <2>1. StaysOver
    BY <1>1, EndStaysOver DEF SessionEnds
  <2>2. UNCHANGED <<ledger, proc>>
    BY <1>1 DEF SessionEnds
  <2>3. \A rec \in ledger : TrueRecord(rec, remote')
    BY <2>1, LedgerKnown, TrueRecordStays DEF Verdicts, Known
  <2>4. \A p \in Procs : TrueLocals(proc[p], remote')
    BY <2>1, TrueLocalsStay DEF Verdicts
  <2> QED
    BY <2>2, <2>3, <2>4 DEF Verdicts
<1>2. ASSUME NEW p \in Procs, RuntimeCallFails(p) \/ Crash(p)
      PROVE  Verdicts'
  BY <1>2, IdleIsTrue, TrueLocalStep DEF RuntimeCallFails, Crash
<1> QED
  BY <1>1, <1>2 DEF Environment

LEMMA NextKeepsVerdicts == IInv /\ Verdicts /\ [Next]_vars => Verdicts'
<1> SUFFICES ASSUME IInv, Verdicts, [Next]_vars
             PROVE  Verdicts'
  OBVIOUS
<1>1. CASE UNCHANGED vars
  BY <1>1 DEF vars, Verdicts
<1>2. CASE Next
  <2>1. Autopilots \subseteq Procs /\ Operators \subseteq Procs
    BY OrchestratorAssumption
  <2>2. ASSUME NEW p \in Procs, Decide(p)
        PROVE  Verdicts'
    BY <2>2, IdleIsTrue, TrueLocalStep DEF Decide
  <2>3. ASSUME NEW p \in Procs, Steps(p)
        PROVE  Verdicts'
    BY <2>2, <2>3, DispatchKeepsVerdicts, SyncKeepsVerdicts, CancelKeepsVerdicts,
       RetryKeepsVerdicts DEF Steps
  <2>4. CASE SupervisedNext
    BY <2>1, <2>3, <2>4, StartKeepsVerdicts, EnvironmentKeepsVerdicts DEF SupervisedNext
  <2>5. CASE (\E p \in Operators : OperatorStart(p)) \/ (\E p \in Procs : Crash(p))
    BY <2>1, <2>5, StartKeepsVerdicts, EnvironmentKeepsVerdicts
  <2> QED
    BY <1>2, <2>4, <2>5 DEF Next
<1> QED
  BY <1>1, <1>2

LEMMA VerdictInvariance == Spec => []Verdicts
<1>1. Init => Verdicts
  BY IdleIsTrue DEF Init, Verdicts
<1>2. IInv /\ Verdicts /\ [Next]_vars => Verdicts'
  BY NextKeepsVerdicts
<1> QED
  BY <1>1, <1>2, Invariance, PTL DEF Spec

----------------------------------------------------------------------------
\* The results.

\* Every file and every local keeps its type, whatever overlaps or is cut short.
THEOREM OrchestratorTyped == Spec => []TypeOK
<1>1. IInv => TypeOK
  BY DEF IInv, FilesFit, Files, TypeOK
<1> QED
  BY <1>1, Invariance, PTL

\* The workflow file is coherent at all times, although the operations save
\* copies that other processes have overtaken.
THEOREM OrchestratorCoherence == Spec => []Coherent
<1>1. IInv => Coherent
  BY DEF IInv, Coherent
<1> QED
  BY <1>1, Invariance, PTL

\* Behind what the workflow file says of runs there is a record, even after a
\* crash between the two writes or a save of an old copy.
THEOREM RecordsBackTheWorkflow == Spec => []LedgerBacksWorkflow
<1>1. IInv => LedgerBacksWorkflow
  BY DEF IInv, Backed, Files, RecordsIn, Records, LedgerBacksWorkflow
<1> QED
  BY <1>1, Invariance, PTL

\* No run record calls a run over, or completed, whose session is not, whatever
\* polls, cancels and retries write it from what they read before.
THEOREM VerdictsStayTrue == Spec => []VerdictsAreTrue
<1>1. Verdicts => VerdictsAreTrue
  BY DEF Verdicts, VerdictsAreTrue, TrueRecord
<1> QED
  BY <1>1, VerdictInvariance, PTL

\* The same holds of a project that one process drives.
THEOREM SupervisedIsSpec == SupervisedSpec => Spec
<1>1. [SupervisedNext]_vars => [Next]_vars
  BY DEF Next
<1> QED
  BY <1>1, PTL DEF SupervisedSpec, Spec
=============================================================================
