-------------------------- MODULE SupervisedProofs --------------------------
(***************************************************************************)
(* A project that one supervised process drives: whatever the task graph,  *)
(* the configuration and the runtime do, the orchestrator implements the   *)
(* serial workflow of SwarmWorkflow.  The copy of the workflow that an     *)
(* operation saves is, at the step that saves it, still what it was        *)
(* computed from.                                                          *)
(*                                                                         *)
(* And what such a process guarantees of the sessions it starts: one per   *)
(* task, on tasks whose dependencies are done, tracked by the run ledger,  *)
(* never more than acp.maxConcurrent, and never stopped more often than    *)
(* the recovery budget allows.                                             *)
(***************************************************************************)
EXTENDS SwarmOrchestratorProofs, FiniteSetTheorems

OneProcess == \E p : Procs = {p}

\* The steps of the operations.
LaunchSteps   == {"spawn", "record", "commit"}
DispatchSteps == LaunchSteps \union {"pick", "reload", "enqueue"}
ReportSteps   == {"observe", "note", "settle"}
CancelSteps   == {"cancel", "stamp", "load", "apply"}
RetrySteps    == {"reread", "retry", "history", "rearm", "bury"}

\* Those at which the workflow loaded last is about to be saved.
SaveSteps == LaunchSteps \union ReportSteps
             \union {"enqueue", "apply", "history", "rearm", "bury", "decide"}

\* What the locals l say is still true of the workflow w.
Fresh(l, w) ==
    /\ l.at \in SaveSteps => l.snap = w
    /\ l.at \in LaunchSteps => l.task \in DispatchableTasks(w.status) \ l.overflow
    /\ l.overflow \subseteq DispatchableTasks(w.status) \ l.todo
    /\ l.at \notin DispatchSteps => l.overflow = {} /\ l.todo = {}
    /\ \A rec \in l.polls : w.status[rec.task] = "running"
    /\ \A a, b \in l.polls : a.task = b.task => a = b
    /\ l.at \notin ReportSteps \union {"poll"} => l.polls = {}
    /\ l.at \in ReportSteps =>
          w.status[l.task] = "running" /\ \A rec \in l.polls : rec.task # l.task
    /\ l.at \in CancelSteps => w.status[l.task] = "running" /\ l.recovery
    /\ l.at \in {"load", "apply"} =>
          l.rec.status = IF RetryAfterCancel THEN "timed_out" ELSE "cancelled"
    /\ l.at \in RetrySteps => w.status[l.task] = "review_required"
    /\ l.at = "decide" =>
          /\ l.task \in w.reviewQueue
          /\ ApplyReviewDecision(w, l.task, l.decision).retryCount[l.task] <= RejectBound

\* The inductive invariant, beside that of SwarmOrchestratorProofs.
FreshInv == \A p \in Procs : Fresh(proc[p], wf)

\* The step of wf to v is an operation of the serial workflow, or none.
Serially(w, v) == v = w \/ Transition(w, v, RejectBound)

\* From k to l a process changes nothing but its step and its record.
Carried(k, l) ==
    /\ l.snap = k.snap /\ l.task = k.task /\ l.runner = k.runner
    /\ l.override = k.override /\ l.todo = k.todo /\ l.overflow = k.overflow
    /\ l.polls = k.polls /\ l.recovery = k.recovery /\ l.decision = k.decision

\* It has nothing left to dispatch or to poll.
Rested(l) == l.todo = {} /\ l.overflow = {} /\ l.polls = {} /\ l.override = "task"

----------------------------------------------------------------------------
\* Where each step leaves its process.

LEMMA Becomes ==
    ASSUME IInv, NEW p \in Procs, NEW l, Become(p, l)
    PROVE  proc'[p] = l
BY DEF IInv, Become

LEMMA IdleIs == Idle \in Locals /\ Idle.at = "idle" /\ Rested(Idle)
<1>1. Idle \in Locals
  BY IdleFits
<1> QED
  BY <1>1 DEF Idle, Rested

LEMMA AfterRunOnceIs ==
    ASSUME NEW l \in Locals
    PROVE  /\ AfterRunOnce(l).at \in {"pick", "reload", "idle"}
           /\ AfterRunOnce(l).todo = l.todo
           /\ AfterRunOnce(l).overflow = l.overflow
           /\ AfterRunOnce(l).at = "idle" => l.todo = {} /\ l.overflow = {}
           /\ AfterRunOnce(l).polls = {}
           /\ AfterRunOnce(l).override \in {l.override, "task"}
<1> DEFINE more == [Idle EXCEPT !.at = "pick", !.override = l.override,
                                !.todo = l.todo, !.waited = l.waited, !.overflow = l.overflow]
           last == [Idle EXCEPT !.at = "reload", !.overflow = l.overflow]
<1>1. CASE l.todo # {}
  <2>1. AfterRunOnce(l) = more
    BY <1>1 DEF AfterRunOnce
  <2>2. /\ more.at = "pick" /\ more.todo = l.todo /\ more.overflow = l.overflow
        /\ more.polls = {} /\ more.override = l.override
    BY DEF Idle
  <2> QED
    BY <2>1, <2>2
<1>2. CASE l.todo = {} /\ l.overflow # {}
  <2>1. AfterRunOnce(l) = last
    BY <1>2 DEF AfterRunOnce
  <2>2. /\ last.at = "reload" /\ last.todo = {} /\ last.overflow = l.overflow
        /\ last.polls = {} /\ last.override = "task"
    BY DEF Idle
  <2> QED
    BY <1>2, <2>1, <2>2
<1>3. CASE l.todo = {} /\ l.overflow = {}
  <2>1. AfterRunOnce(l) = Idle
    BY <1>3 DEF AfterRunOnce
  <2> QED
    BY <1>3, <2>1, IdleIs DEF Rested
<1> QED
  BY <1>1, <1>2, <1>3

LEMMA AfterSyncIs ==
    ASSUME NEW l \in Locals
    PROVE  /\ AfterSync(l).at \in {"poll", "idle"}
           /\ AfterSync(l).todo = {} /\ AfterSync(l).overflow = {}
           /\ AfterSync(l).polls = l.polls
           /\ AfterSync(l).at = "idle" => l.polls = {}
           /\ AfterSync(l).override = "task"
<1> DEFINE more == [Idle EXCEPT !.at = "poll", !.polls = l.polls]
<1>1. /\ more.at = "poll" /\ more.polls = l.polls /\ more.todo = {}
      /\ more.overflow = {} /\ more.override = "task"
  BY DEF Idle
<1> HIDE DEF more
<1> QED
  BY <1>1, IdleIs DEF AfterSync, more, Rested
LEMMA StartBatchDoes ==
    ASSUME IInv, NEW p \in Procs, NEW n, StartBatch(p, n, "task")
    PROVE  LET slots    == AvailableSlots(wf.status, MaxConcurrent)
               admitted == FirstCandidates(wf.status, IF n < slots THEN n ELSE slots)
           IN  /\ proc[p].at = "idle"
               /\ proc'[p].at \in {"pick", "reload", "idle"}
               /\ proc'[p].at = "idle" => proc'[p].todo = {} /\ proc'[p].overflow = {}
               /\ proc'[p].todo = admitted
               /\ proc'[p].overflow = FirstCandidates(wf.status, n) \ admitted
               /\ proc'[p].polls = {} /\ proc'[p].override = "task"
               /\ UNCHANGED <<wf, ledger, manualAt, remote, nextRun>>
<1> DEFINE requested == FirstCandidates(wf.status, n)
           slots     == AvailableSlots(wf.status, MaxConcurrent)
           admitted  == FirstCandidates(wf.status, IF n < slots THEN n ELSE slots)
           waited    == {t \in admitted : wf.status[t] = "queued"}
           overflow  == requested \ admitted
           l         == [Idle EXCEPT !.override = "task", !.todo = admitted,
                                     !.waited = waited, !.overflow = overflow]
<1>1. /\ admitted \in SUBSET Tasks /\ waited \in SUBSET Tasks
      /\ overflow \in SUBSET Tasks
  BY DEF FirstCandidates, DispatchableTasks, QueuedTasks, RunnableTasks
<1>2. /\ proc[p].at = "idle" /\ Become(p, AfterRunOnce(l))
      /\ UNCHANGED <<wf, ledger, manualAt, remote, nextRun>>
  BY DEF StartBatch, At
<1> HIDE DEF requested, slots, admitted, waited, overflow
<1>3. l \in Locals /\ l.override = "task" /\ l.todo = admitted /\ l.overflow = overflow
  BY <1>1, IdleIs DEF Locals
<1> HIDE DEF l
<1>4. /\ proc'[p].at \in {"pick", "reload", "idle"} /\ proc'[p].todo = admitted
      /\ proc'[p].overflow = overflow /\ proc'[p].polls = {} /\ proc'[p].override = "task"
      /\ proc'[p].at = "idle" => proc'[p].todo = {} /\ proc'[p].overflow = {}
  BY <1>2, <1>3, AfterRunOnceIs, Becomes
<1> QED
  BY <1>2, <1>4 DEF requested, slots, admitted, overflow

LEMMA SkipTaskDoes ==
    ASSUME IInv, NEW p \in Procs, NEW t \in Tasks, SkipTask(p, t)
    PROVE  /\ proc[p].at = "pick" /\ proc'[p].at \in {"pick", "reload", "idle"}
           /\ proc'[p].at = "idle" => proc'[p].todo = {} /\ proc'[p].overflow = {}
           /\ proc'[p].todo = proc[p].todo \ {t}
           /\ proc'[p].overflow = proc[p].overflow
           /\ proc'[p].polls = {} /\ proc'[p].override \in {proc[p].override, "task"}
           /\ UNCHANGED <<wf, ledger, manualAt, remote, nextRun>>
<1> DEFINE l == [proc[p] EXCEPT !.todo = @ \ {t}]
<1>1. /\ l \in Locals /\ l.todo = proc[p].todo \ {t}
      /\ l.overflow = proc[p].overflow /\ l.override = proc[p].override
  BY DEF IInv, Locals
<1>2. /\ proc[p].at = "pick" /\ Become(p, AfterRunOnce(l))
      /\ UNCHANGED <<wf, ledger, manualAt, remote, nextRun>>
  BY DEF SkipTask, At
<1> HIDE DEF l
<1> QED
  BY <1>1, <1>2, AfterRunOnceIs, Becomes

LEMMA PickTaskDoes ==
    ASSUME IInv, NEW p \in Procs, NEW t \in Tasks, PickTask(p, t)
    PROVE  /\ proc[p].at = "pick" /\ t \in proc[p].todo /\ t \in DispatchableTasks(wf.status)
           /\ proc'[p].runner = RunnerOf(t, proc[p].override)
           /\ proc'[p].at = IF proc'[p].runner = "acp" THEN "spawn" ELSE "record"
           /\ proc'[p].snap = wf /\ proc'[p].task = t
           /\ proc'[p].todo = proc[p].todo \ {t}
           /\ proc'[p].overflow = proc[p].overflow /\ proc'[p].polls = proc[p].polls
           /\ proc'[p].override = proc[p].override
           /\ UNCHANGED <<wf, ledger, manualAt, remote, nextRun>>
<1> DEFINE runner == RunnerOf(t, proc[p].override)
           at     == IF runner = "acp" THEN "spawn" ELSE "record"
           l      == [proc[p] EXCEPT !.at = at, !.snap = wf, !.task = t,
                                     !.runner = runner, !.todo = @ \ {t}]
<1>1. /\ proc[p].at = "pick" /\ t \in proc[p].todo /\ t \in DispatchableTasks(wf.status)
      /\ Become(p, l) /\ UNCHANGED <<wf, ledger, manualAt, remote, nextRun>>
  BY DEF PickTask, At, IsNextInLine
<1> HIDE DEF runner
<1>2. /\ l.at = at /\ l.snap = wf /\ l.task = t /\ l.runner = runner
      /\ l.todo = proc[p].todo \ {t} /\ l.overflow = proc[p].overflow
      /\ l.polls = proc[p].polls /\ l.override = proc[p].override
  BY DEF IInv, Locals
<1> HIDE DEF l, at
<1>3. proc'[p] = l
  BY <1>1, Becomes
<1> QED
  BY <1>1, <1>2, <1>3 DEF runner, at

LEMMA SpawnSessionDoes ==
    ASSUME IInv, NEW p \in Procs, SpawnSession(p)
    PROVE  /\ proc[p].at = "spawn" /\ proc'[p].at = "record" /\ Carried(proc[p], proc'[p])
           /\ nextRun \in RunIds /\ nextRun' = nextRun + 1
           /\ remote' = [remote EXCEPT ![nextRun] =
                            [task |-> proc[p].task, state |-> "running"]]
           /\ proc'[p].rec.id = nextRun /\ proc'[p].rec.task = proc[p].task
           /\ proc'[p].rec.status = "accepted" /\ proc'[p].rec.recoveries = 0
           /\ UNCHANGED <<wf, ledger, manualAt>>
<1> DEFINE rec == [id |-> nextRun, task |-> proc[p].task, status |-> "accepted",
                   retries |-> 0, recoveries |-> 0]
           l   == [proc[p] EXCEPT !.at = "record", !.rec = rec]
<1>1. nextRun \in RunIds
  BY OrchestratorAssumption DEF SpawnSession, IInv, FilesFit, Files, RunIds
<1>2. l.at = "record" /\ l.rec = rec /\ Carried(proc[p], l)
  BY DEF IInv, Locals, Carried
<1>3. /\ rec.id = nextRun /\ rec.task = proc[p].task /\ rec.status = "accepted"
      /\ rec.recoveries = 0
  OBVIOUS
<1>4. Become(p, l)
  BY DEF SpawnSession
<1> HIDE DEF l, rec
<1>5. proc'[p] = l
  BY <1>4, Becomes
<1> QED
  BY <1>1, <1>2, <1>3, <1>5 DEF SpawnSession, At

LEMMA RecordRunDoes ==
    ASSUME IInv, NEW p \in Procs, RecordRun(p)
    PROVE  /\ proc[p].at = "record" /\ proc[p].runner = "acp" /\ proc'[p].at = "commit"
           /\ proc'[p].rec = proc[p].rec /\ Carried(proc[p], proc'[p])
           /\ WriteRun(proc[p].rec) /\ UNCHANGED <<wf, manualAt, remote, nextRun>>
<1> DEFINE l == [proc[p] EXCEPT !.at = "commit"]
<1>1. l.at = "commit" /\ l.rec = proc[p].rec /\ Carried(proc[p], l)
  BY DEF IInv, Locals, Carried
<1>2. Become(p, l)
  BY DEF RecordRun
<1> HIDE DEF l
<1>3. proc'[p] = l
  BY <1>2, Becomes
<1> QED
  BY <1>1, <1>3 DEF RecordRun, At

LEMMA RecordManualRunDoes ==
    ASSUME IInv, NEW p \in Procs, RecordManualRun(p)
    PROVE  /\ proc[p].at = "record" /\ proc[p].runner = "manual" /\ proc'[p].at = "commit"
           /\ proc'[p].rec = proc[p].rec /\ Carried(proc[p], proc'[p])
           /\ manualAt' = [manualAt EXCEPT ![proc[p].task] = nextRun]
           /\ UNCHANGED <<wf, ledger, remote, nextRun>>
<1> DEFINE l == [proc[p] EXCEPT !.at = "commit"]
<1>1. l.at = "commit" /\ l.rec = proc[p].rec /\ Carried(proc[p], l)
  BY DEF IInv, Locals, Carried
<1>2. Become(p, l)
  BY DEF RecordManualRun
<1> HIDE DEF l
<1>3. proc'[p] = l
  BY <1>2, Becomes
<1> QED
  BY <1>1, <1>3 DEF RecordManualRun, At

LEMMA CommitDispatchDoes ==
    ASSUME IInv, NEW p \in Procs, CommitDispatch(p)
    PROVE  /\ proc[p].at = "commit" /\ proc'[p].at \in {"pick", "reload", "idle"}
           /\ proc'[p].at = "idle" => proc'[p].todo = {} /\ proc'[p].overflow = {}
           /\ wf' = Dispatched(proc[p].snap, proc[p].task, proc[p].runner)
           /\ proc'[p].todo = proc[p].todo /\ proc'[p].overflow = proc[p].overflow
           /\ proc'[p].polls = {} /\ proc'[p].override \in {proc[p].override, "task"}
           /\ UNCHANGED <<ledger, manualAt, remote, nextRun>>
<1>1. proc[p] \in Locals /\ proc'[p] = AfterRunOnce(proc[p])
  BY Becomes DEF IInv, CommitDispatch
<1> QED
  BY <1>1, AfterRunOnceIs DEF CommitDispatch, At

LEMMA ReloadForQueueDoes ==
    ASSUME IInv, NEW p \in Procs, ReloadForQueue(p)
    PROVE  /\ proc[p].at = "reload" /\ proc'[p].at = "enqueue" /\ proc'[p].snap = wf
           /\ proc'[p].todo = proc[p].todo /\ proc'[p].overflow = proc[p].overflow
           /\ proc'[p].polls = proc[p].polls /\ proc'[p].override = proc[p].override
           /\ UNCHANGED <<wf, ledger, manualAt, remote, nextRun>>
<1> DEFINE l == [proc[p] EXCEPT !.at = "enqueue", !.snap = wf]
<1>1. /\ l.at = "enqueue" /\ l.snap = wf /\ l.todo = proc[p].todo
      /\ l.overflow = proc[p].overflow /\ l.polls = proc[p].polls
      /\ l.override = proc[p].override
  BY DEF IInv, Locals
<1>2. Become(p, l)
  BY DEF ReloadForQueue
<1> HIDE DEF l
<1>3. proc'[p] = l
  BY <1>2, Becomes
<1> QED
  BY <1>1, <1>3 DEF ReloadForQueue, At

LEMMA EnqueueOverflowDoes ==
    ASSUME IInv, NEW p \in Procs, EnqueueOverflow(p)
    PROVE  /\ proc[p].at = "enqueue" /\ proc'[p].at = "idle" /\ Rested(proc'[p])
           /\ wf' = MarkQueued(proc[p].snap, proc[p].overflow)
           /\ UNCHANGED <<ledger, manualAt, remote, nextRun>>
BY Becomes, IdleIs DEF EnqueueOverflow, At
LEMMA StartSyncActiveDoes ==
    ASSUME IInv, NEW p \in Procs, StartSyncActive(p)
    PROVE  LET active == {r \in ledger : Active(r) /\ wf.status[r.task] = "running"}
           IN  /\ proc[p].at = "idle" /\ proc'[p].at = "poll"
               /\ proc'[p].polls =
                     {r \in active : \A s \in active : s.task = r.task => s.id <= r.id}
               /\ proc'[p].todo = {} /\ proc'[p].overflow = {}
               /\ proc'[p].override = "task"
               /\ UNCHANGED <<wf, ledger, manualAt, remote, nextRun>>
<1> DEFINE active  == {r \in ledger : Active(r) /\ wf.status[r.task] = "running"}
           current == {r \in active : \A s \in active : s.task = r.task => s.id <= r.id}
           l       == [Idle EXCEPT !.at = "poll", !.polls = current]
<1>1. proc[p].at = "idle" /\ Become(p, l) /\ UNCHANGED <<wf, ledger, manualAt, remote, nextRun>>
  BY DEF StartSyncActive, At
<1> HIDE DEF current
<1>2. /\ l.at = "poll" /\ l.polls = current /\ l.todo = {} /\ l.overflow = {}
      /\ l.override = "task"
  BY DEF Idle
<1> HIDE DEF l
<1>3. proc'[p] = l
  BY <1>1, Becomes
<1> QED
  BY <1>1, <1>2, <1>3 DEF current

LEMMA LoadForSyncDoes ==
    ASSUME IInv, NEW p \in Procs, LoadForSync(p)
    PROVE  /\ proc[p].at = "poll" /\ proc'[p].at = "observe"
           /\ proc'[p].rec \in proc[p].polls
           /\ proc'[p].snap = wf /\ proc'[p].task = proc'[p].rec.task
           /\ proc'[p].polls = proc[p].polls \ {proc'[p].rec}
           /\ proc'[p].todo = proc[p].todo /\ proc'[p].overflow = proc[p].overflow
           /\ proc'[p].override = proc[p].override
           /\ UNCHANGED <<wf, ledger, manualAt, remote, nextRun>>
<1>1. PICK rec \in proc[p].polls :
         Become(p, [proc[p] EXCEPT !.at = "observe", !.snap = wf, !.task = rec.task,
                                   !.rec = rec, !.polls = @ \ {rec}])
  BY DEF LoadForSync
<1> DEFINE l == [proc[p] EXCEPT !.at = "observe", !.snap = wf, !.task = rec.task,
                                !.rec = rec, !.polls = @ \ {rec}]
<1>2. /\ l.at = "observe" /\ l.snap = wf /\ l.task = rec.task /\ l.rec = rec
      /\ l.polls = proc[p].polls \ {rec} /\ l.todo = proc[p].todo
      /\ l.overflow = proc[p].overflow /\ l.override = proc[p].override
  BY DEF IInv, Locals
<1>3. Become(p, l)
  BY <1>1
<1> HIDE DEF l
<1>4. proc'[p] = l
  BY <1>3, Becomes
<1> QED
  BY <1>2, <1>4 DEF LoadForSync, At

LEMMA ObserveDoes ==
    ASSUME IInv, NEW p \in Procs, Observe(p)
    PROVE  /\ proc[p].at = "observe" /\ proc'[p].at = "note" /\ Carried(proc[p], proc'[p])
           /\ proc'[p].rec.id = proc[p].rec.id /\ proc'[p].rec.task = proc[p].rec.task
           /\ proc'[p].rec.recoveries = proc[p].rec.recoveries
           /\ proc'[p].rec.status \in PollOutcome(remote[proc[p].rec.id].state)
           /\ UNCHANGED <<wf, ledger, manualAt, remote, nextRun>>
<1>1. /\ proc[p] \in Locals /\ proc[p].at = "observe" /\ LocalsFit(proc[p], Files)
  BY DEF IInv, Observe, At
<1>2. proc[p].rec \in RunRecord
  BY <1>1 DEF LocalsFit, RunSteps, Known, Spawned
<1>3. PICK status \in PollOutcome(remote[proc[p].rec.id].state) :
         Become(p, [proc[p] EXCEPT !.at = "note", !.rec.status = status])
  BY DEF Observe
<1> DEFINE rec == [proc[p].rec EXCEPT !.status = status]
           l   == [proc[p] EXCEPT !.at = "note", !.rec = rec]
<1>4. /\ rec.id = proc[p].rec.id /\ rec.task = proc[p].rec.task /\ rec.status = status
      /\ rec.recoveries = proc[p].rec.recoveries
  BY <1>2 DEF RunRecord
<1>5. Become(p, l)
  BY <1>3
<1> HIDE DEF rec
<1>6. l.at = "note" /\ l.rec = rec /\ Carried(proc[p], l)
  BY <1>1 DEF Locals, Carried
<1> HIDE DEF l
<1>7. proc'[p] = l
  BY <1>5, Becomes
<1> QED
  BY <1>1, <1>4, <1>6, <1>7 DEF Observe

LEMMA NoteSyncedDoes ==
    ASSUME IInv, NEW p \in Procs, NoteSynced(p)
    PROVE  /\ proc[p].at = "note" /\ proc'[p].at = "settle" /\ Carried(proc[p], proc'[p])
           /\ proc'[p].rec = proc[p].rec
           /\ WriteRun(proc[p].rec) /\ UNCHANGED <<wf, manualAt, remote, nextRun>>
<1> DEFINE l == [proc[p] EXCEPT !.at = "settle"]
<1>1. l.at = "settle" /\ l.rec = proc[p].rec /\ Carried(proc[p], l)
  BY DEF IInv, Locals, Carried
<1>2. Become(p, l)
  BY DEF NoteSynced
<1> HIDE DEF l
<1>3. proc'[p] = l
  BY <1>2, Becomes
<1> QED
  BY <1>1, <1>3 DEF NoteSynced, At

LEMMA SettleDoes ==
    ASSUME IInv, NEW p \in Procs, Settle(p)
    PROVE  /\ proc[p].at = "settle" /\ proc'[p].at \in {"poll", "idle"}
           /\ wf' = ApplyRunStatus(proc[p].snap, proc[p].task, proc[p].rec.status)
           /\ proc'[p].todo = {} /\ proc'[p].overflow = {}
           /\ proc'[p].polls = proc[p].polls /\ proc'[p].override = "task"
           /\ proc'[p].at = "idle" => proc'[p].polls = {}
           /\ UNCHANGED <<ledger, manualAt, remote, nextRun>>
<1>1. proc[p] \in Locals /\ proc'[p] = AfterSync(proc[p])
  BY Becomes DEF IInv, Settle
<1> QED
  BY <1>1, AfterSyncIs DEF Settle, At

LEMMA StartRecoveryDoes ==
    ASSUME IInv, NEW p \in Procs, NEW rec \in ledger, StartRecovery(p, rec)
    PROVE  /\ proc[p].at = "idle" /\ proc'[p].at = "cancel"
           /\ wf.status[rec.task] = "running" /\ IsActiveLatestRun(rec, rec.task)
           /\ Recoveries(rec.task) < MaxRecoveries
           /\ proc'[p].task = rec.task /\ proc'[p].rec = rec /\ proc'[p].recovery
           /\ Rested(proc'[p])
           /\ UNCHANGED <<wf, ledger, manualAt, remote, nextRun>>
<1> DEFINE l == [Idle EXCEPT !.at = "cancel", !.task = rec.task, !.rec = rec,
                             !.recovery = TRUE]
<1>1. l.at = "cancel" /\ l.task = rec.task /\ l.rec = rec /\ l.recovery /\ Rested(l)
  BY DEF Idle, Rested
<1>2. Become(p, l)
  BY DEF StartRecovery
<1> HIDE DEF l
<1>3. proc'[p] = l
  BY <1>2, Becomes
<1> QED
  BY <1>1, <1>3 DEF StartRecovery, At

LEMMA CancelSessionDoes ==
    ASSUME IInv, NEW p \in Procs, CancelSession(p)
    PROVE  /\ proc[p].at = "cancel" /\ proc'[p].at = "stamp" /\ Carried(proc[p], proc'[p])
           /\ proc'[p].rec = proc[p].rec
           /\ \E state \in SessionState \ {"running"} :
                 remote' = [remote EXCEPT ![proc[p].rec.id].state = state]
           /\ UNCHANGED <<wf, ledger, manualAt, nextRun>>
<1> DEFINE l == [proc[p] EXCEPT !.at = "stamp"]
<1>1. l.at = "stamp" /\ l.rec = proc[p].rec /\ Carried(proc[p], l)
  BY DEF IInv, Locals, Carried
<1>2. Become(p, l)
  BY DEF CancelSession
<1> HIDE DEF l
<1>3. proc'[p] = l
  BY <1>2, Becomes
<1>4. /\ proc[p] \in Locals /\ proc[p].at = "cancel" /\ LocalsFit(proc[p], Files)
  BY DEF IInv, CancelSession, At
<1>5. proc[p].rec.id \in RunIds
  BY <1>4 DEF LocalsFit, RunSteps, Known, Spawned, RunRecord
<1>6. remote[proc[p].rec.id].state \in SessionState
  BY <1>5 DEF IInv, FilesFit, Files
<1>7. \E state \in SessionState \ {"running"} :
         remote' = [remote EXCEPT ![proc[p].rec.id].state = state]
  BY <1>6 DEF CancelSession, SessionState
<1> QED
  BY <1>1, <1>3, <1>4, <1>7 DEF CancelSession

LEMMA StampRunDoes ==
    ASSUME IInv, NEW p \in Procs, StampRun(p)
    PROVE  /\ proc[p].at = "stamp" /\ proc'[p].at = "load" /\ Carried(proc[p], proc'[p])
           /\ proc'[p].rec.id = proc[p].rec.id /\ proc'[p].rec.task = proc[p].rec.task
           /\ proc'[p].rec.status = IF proc[p].recovery /\ RetryAfterCancel
                                    THEN "timed_out" ELSE "cancelled"
           /\ proc[p].recovery => proc'[p].rec.recoveries = proc[p].rec.recoveries + 1
           /\ WriteRun(proc'[p].rec) /\ UNCHANGED <<wf, manualAt, remote, nextRun>>
<1> DEFINE status     == IF proc[p].recovery /\ RetryAfterCancel
                         THEN "timed_out" ELSE "cancelled"
           recoveries == IF proc[p].recovery THEN proc[p].rec.recoveries + 1
                         ELSE proc[p].rec.recoveries
           rec        == [proc[p].rec EXCEPT !.status = status, !.recoveries = recoveries]
           l          == [proc[p] EXCEPT !.at = "load", !.rec = rec]
<1>1. proc[p] \in Locals /\ proc[p].at = "stamp" /\ LocalsFit(proc[p], Files)
  BY DEF IInv, StampRun, At
<1>2. proc[p].rec \in RunRecord
  BY <1>1 DEF LocalsFit, RunSteps, Known, Spawned
<1>3. Become(p, l) /\ WriteRun(rec) /\ UNCHANGED <<wf, manualAt, remote, nextRun>>
  BY Zenon DEF StampRun
<1> HIDE DEF status, recoveries
<1>4. /\ rec.id = proc[p].rec.id /\ rec.task = proc[p].rec.task /\ rec.status = status
      /\ rec.recoveries = recoveries
  BY <1>2 DEF RunRecord
<1> HIDE DEF rec
<1>5. l.at = "load" /\ l.rec = rec /\ Carried(proc[p], l)
  BY <1>1 DEF Locals, Carried
<1> HIDE DEF l
<1>6. proc'[p] = l
  BY <1>3, Becomes
<1> QED
  BY <1>1, <1>3, <1>4, <1>5, <1>6 DEF status, recoveries

LEMMA LoadForCancelDoes ==
    ASSUME IInv, NEW p \in Procs, LoadForCancel(p)
    PROVE  /\ proc[p].at = "load" /\ proc'[p].at = "apply" /\ proc'[p].snap = wf
           /\ proc'[p].task = proc[p].task /\ proc'[p].rec = proc[p].rec
           /\ proc'[p].recovery = proc[p].recovery
           /\ proc'[p].todo = proc[p].todo /\ proc'[p].overflow = proc[p].overflow
           /\ proc'[p].polls = proc[p].polls /\ proc'[p].override = proc[p].override
           /\ UNCHANGED <<wf, ledger, manualAt, remote, nextRun>>
<1> DEFINE l == [proc[p] EXCEPT !.at = "apply", !.snap = wf]
<1>1. /\ l.at = "apply" /\ l.snap = wf /\ l.task = proc[p].task /\ l.rec = proc[p].rec
      /\ l.recovery = proc[p].recovery /\ l.todo = proc[p].todo
      /\ l.overflow = proc[p].overflow /\ l.polls = proc[p].polls
      /\ l.override = proc[p].override
  BY DEF IInv, Locals
<1>2. Become(p, l)
  BY DEF LoadForCancel
<1> HIDE DEF l
<1>3. proc'[p] = l
  BY <1>2, Becomes
<1> QED
  BY <1>1, <1>3 DEF LoadForCancel, At

LEMMA ApplyCancelDoes ==
    ASSUME IInv, NEW p \in Procs, ApplyCancel(p)
    PROVE  /\ proc[p].at = "apply"
           /\ wf' = ApplyRunStatus(proc[p].snap, proc[p].task, proc[p].rec.status)
           /\ Rested(proc'[p])
           /\ \/ proc'[p].at = "idle"
              \/ /\ proc[p].recovery /\ RetryAfterCancel
                 /\ proc'[p].at = "reread" /\ proc'[p].task = proc[p].task
           /\ UNCHANGED <<ledger, manualAt, remote, nextRun>>
<1> DEFINE again == [Idle EXCEPT !.at = "reread", !.task = proc[p].task,
                                 !.rec = proc[p].rec]
           l     == IF proc[p].recovery /\ RetryAfterCancel THEN again ELSE Idle
<1>1. again.at = "reread" /\ again.task = proc[p].task /\ Rested(again)
  BY DEF Idle, Rested
<1>2. Become(p, l)
  BY Zenon DEF ApplyCancel
<1> HIDE DEF again
<1>3. \/ l.at = "idle" /\ Rested(l)
      \/ /\ proc[p].recovery /\ RetryAfterCancel
         /\ l.at = "reread" /\ l.task = proc[p].task /\ Rested(l)
  BY <1>1, IdleIs
<1> HIDE DEF l
<1>4. proc'[p] = l
  BY <1>2, Becomes
<1> QED
  BY <1>3, <1>4 DEF ApplyCancel, At
LEMMA RereadRunDoes ==
    ASSUME IInv, NEW p \in Procs, RereadRun(p)
    PROVE  /\ proc[p].at = "reread" /\ proc'[p].at = "retry" /\ Carried(proc[p], proc'[p])
           /\ proc'[p].rec \in ledger
           /\ UNCHANGED <<wf, ledger, manualAt, remote, nextRun>>
<1>1. PICK rec \in ledger : Become(p, [proc[p] EXCEPT !.at = "retry", !.rec = rec])
  BY DEF RereadRun
<1> DEFINE l == [proc[p] EXCEPT !.at = "retry", !.rec = rec]
<1>2. l.at = "retry" /\ l.rec = rec /\ Carried(proc[p], l)
  BY DEF IInv, Locals, Carried
<1>3. Become(p, l)
  BY <1>1
<1> HIDE DEF l
<1>4. proc'[p] = l
  BY <1>3, Becomes
<1> QED
  BY <1>2, <1>4 DEF RereadRun, At

LEMMA EvaluateRetryDoes ==
    ASSUME IInv, NEW p \in Procs, EvaluateRetry(p)
    PROVE  /\ proc[p].at = "retry"
           /\ \/ proc'[p].at = "idle" /\ Rested(proc'[p])
              \/ /\ proc'[p].at \in {"history", "bury"}
                 /\ proc'[p].snap = wf /\ proc'[p].task = proc[p].task
                 /\ proc'[p].todo = proc[p].todo /\ proc'[p].overflow = proc[p].overflow
                 /\ proc'[p].polls = proc[p].polls /\ proc'[p].override = proc[p].override
                 /\ proc'[p].rec.id = proc[p].rec.id
                 /\ proc'[p].rec.recoveries = proc[p].rec.recoveries
                 /\ proc'[p].rec.status = proc[p].rec.status
                 /\ proc'[p].at = "history" => Retryable(proc[p].rec.status)
           /\ UNCHANGED <<wf, ledger, manualAt, remote, nextRun>>
<1> DEFINE new  == [proc[p].rec EXCEPT !.retries = @ + 1]
           past == [proc[p] EXCEPT !.at = "history", !.snap = wf, !.rec = new]
           bury == [proc[p] EXCEPT !.at = "bury", !.snap = wf]
           l    == IF ShouldRetry(proc[p].rec) THEN past
                   ELSE IF Exhausted(proc[p].rec) THEN bury ELSE Idle
<1>1. Become(p, l)
  BY Zenon DEF EvaluateRetry
<1>2. proc[p].rec \in RunRecord
  BY DEF IInv, EvaluateRetry, At, LocalsFit, RunSteps, Known, Spawned
<1>3. /\ new.id = proc[p].rec.id /\ new.recoveries = proc[p].rec.recoveries
      /\ new.status = proc[p].rec.status
  BY <1>2 DEF RunRecord
<1> HIDE DEF new
<1>4. /\ past.at = "history" /\ past.snap = wf /\ past.task = proc[p].task
      /\ past.todo = proc[p].todo /\ past.overflow = proc[p].overflow
      /\ past.polls = proc[p].polls /\ past.override = proc[p].override
      /\ past.rec = new
  BY DEF IInv, Locals
<1>5. /\ bury.at = "bury" /\ bury.snap = wf /\ bury.task = proc[p].task
      /\ bury.todo = proc[p].todo /\ bury.overflow = proc[p].overflow
      /\ bury.polls = proc[p].polls /\ bury.override = proc[p].override
      /\ bury.rec = proc[p].rec
  BY DEF IInv, Locals
<1> HIDE DEF past, bury
<1>6. (l = past /\ Retryable(proc[p].rec.status)) \/ l = bury \/ l = Idle
  BY DEF ShouldRetry
<1> HIDE DEF l
<1>7. proc'[p] = l
  BY <1>1, Becomes
<1> QED
  BY <1>3, <1>4, <1>5, <1>6, <1>7, IdleIs DEF EvaluateRetry, At

LEMMA WriteHistoryDoes ==
    ASSUME IInv, NEW p \in Procs, WriteHistory(p)
    PROVE  /\ proc[p].at = "history" /\ proc'[p].at = "rearm" /\ Carried(proc[p], proc'[p])
           /\ WriteRun(proc[p].rec) /\ UNCHANGED <<wf, manualAt, remote, nextRun>>
<1> DEFINE l == [proc[p] EXCEPT !.at = "rearm"]
<1>1. l.at = "rearm" /\ Carried(proc[p], l)
  BY DEF IInv, Locals, Carried
<1>2. Become(p, l)
  BY DEF WriteHistory
<1> HIDE DEF l
<1>3. proc'[p] = l
  BY <1>2, Becomes
<1> QED
  BY <1>1, <1>3 DEF WriteHistory, At

LEMMA RearmTaskDoes ==
    ASSUME IInv, NEW p \in Procs, RearmTask(p)
    PROVE  /\ proc[p].at = "rearm" /\ proc'[p].at = "pick"
           /\ wf' = RearmedForRetry(proc[p].snap, proc[p].task)
           /\ proc'[p].todo = {proc[p].task} /\ proc'[p].overflow = {}
           /\ proc'[p].polls = {} /\ proc'[p].override = "task"
           /\ UNCHANGED <<ledger, manualAt, remote, nextRun>>
<1> DEFINE l == [Idle EXCEPT !.at = "pick", !.todo = {proc[p].task}]
<1>1. /\ l.at = "pick" /\ l.todo = {proc[p].task} /\ l.overflow = {} /\ l.polls = {}
      /\ l.override = "task"
  BY DEF Idle
<1>2. Become(p, l)
  BY DEF RearmTask
<1> HIDE DEF l
<1>3. proc'[p] = l
  BY <1>2, Becomes
<1> QED
  BY <1>1, <1>3 DEF RearmTask, At

LEMMA BuryTaskDoes ==
    ASSUME IInv, NEW p \in Procs, BuryTask(p)
    PROVE  /\ proc[p].at = "bury" /\ proc'[p].at = "idle" /\ Rested(proc'[p])
           /\ wf' = DeadLettered(proc[p].snap, proc[p].task)
           /\ UNCHANGED <<ledger, manualAt, remote, nextRun>>
BY Becomes, IdleIs DEF BuryTask, At

LEMMA StartReviewDoes ==
    ASSUME IInv, NEW p \in Procs, NEW t \in Tasks, NEW decision \in ReviewDecision,
           StartReview(p, t, decision)
    PROVE  /\ proc[p].at = "idle" /\ proc'[p].at = "decide" /\ Rested(proc'[p])
           /\ ApplyReviewDecision(wf, t, decision).retryCount[t] <= RejectBound
           /\ proc'[p].snap = wf /\ proc'[p].task = t /\ proc'[p].decision = decision
           /\ UNCHANGED <<wf, ledger, manualAt, remote, nextRun>>
<1> DEFINE l == [Idle EXCEPT !.at = "decide", !.snap = wf, !.task = t,
                             !.decision = decision]
<1>1. l.at = "decide" /\ l.snap = wf /\ l.task = t /\ l.decision = decision /\ Rested(l)
  BY DEF Idle, Rested
<1>2. Become(p, l)
  BY DEF StartReview
<1> HIDE DEF l
<1>3. proc'[p] = l
  BY <1>2, Becomes
<1> QED
  BY <1>1, <1>3 DEF StartReview, At

LEMMA DecideDoes ==
    ASSUME IInv, NEW p \in Procs, Decide(p)
    PROVE  /\ proc[p].at = "decide" /\ proc'[p].at = "idle" /\ Rested(proc'[p])
           /\ wf' = ApplyReviewDecision(proc[p].snap, proc[p].task, proc[p].decision)
           /\ UNCHANGED <<ledger, manualAt, remote, nextRun>>
BY Becomes, IdleIs DEF Decide, At

LEMMA RuntimeCallFailsDoes ==
    ASSUME IInv, NEW p \in Procs, RuntimeCallFails(p)
    PROVE  /\ proc[p].at \in {"spawn", "observe", "cancel"}
           /\ proc'[p].at = "idle" /\ Rested(proc'[p])
           /\ UNCHANGED <<wf, ledger, manualAt, remote, nextRun>>
BY Becomes, IdleIs DEF RuntimeCallFails

----------------------------------------------------------------------------
\* What a transition leaves of the tasks that it is not about.

LEMMA MovesLeaveOthers ==
    ASSUME NEW w \in Workflow, NEW v, NEW t \in Tasks,
           \E next \in TaskStatus \ {"planned"} : Moves(w, v, t, next),
           NEW u \in Tasks, u # t
    PROVE  \/ v.status[u] = w.status[u]
           \/ /\ w.status[u] = "planned" /\ v.status[u] = "ready"
<1>1. PICK next \in TaskStatus \ {"planned"} : Moves(w, v, t, next)
  OBVIOUS
<1> DEFINE mid == [w.status EXCEPT ![t] = next]
<1>2. mid \in [Tasks -> TaskStatus] /\ mid[u] = w.status[u]
  BY DEF Workflow
<1>3. v.status = mid \/ v.status = UpsertTaskStatuses(mid)
  BY <1>1 DEF Moves
<1> HIDE DEF mid
<1> QED
  BY <1>2, <1>3, UpsertKeeps

\* A dispatch leaves the other dispatchable tasks dispatchable.
LEMMA DispatchLeavesDispatchable ==
    ASSUME NEW w \in Workflow, NEW t \in DispatchableTasks(w.status),
           NEW runner \in {"acp", "manual"}, NEW u \in DispatchableTasks(w.status), u # t
    PROVE  u \in DispatchableTasks(Dispatched(w, t, runner).status)
<1> DEFINE v == Dispatched(w, t, runner)
<1>1. /\ t \in Tasks /\ w.status[t] \in {"planned", "ready", "queued"}
      /\ u \in Tasks /\ w.status[u] \in {"planned", "ready", "queued"}
      /\ DependenciesDone(w.status, u)
  BY DispatchableIsNotDone
<1>2. \E next \in TaskStatus \ {"planned"} : Moves(w, v, t, next)
  BY <1>1, DispatchMoves
<1> HIDE DEF v
<1>3. v.status[u] \in {"planned", "ready", "queued"}
  BY <1>1, <1>2, MovesLeaveOthers
<1>4. DependenciesDone(v.status, u)
  <2> SUFFICES ASSUME NEW d \in Deps[u]
               PROVE  v.status[d] = "done"
    BY DEF DependenciesDone
  <2>1. d \in Tasks /\ w.status[d] = "done"
    BY <1>1, TaskGraphAssumption DEF DependenciesDone
  <2> QED
    BY <1>1, <1>2, <2>1, MovesLeaveOthers
<1>5. u \in DispatchableTasks(v.status)
  BY <1>1, <1>3, <1>4 DEF DispatchableTasks, QueuedTasks, RunnableTasks
<1> QED
  BY <1>5 DEF v

\* The outcome of a run leaves the other running tasks running.
LEMMA ReportLeavesRunning ==
    ASSUME NEW w \in Workflow, NEW t \in Tasks, NEW s \in RunStatus,
           NEW u \in Tasks, u # t, w.status[u] = "running"
    PROVE  ApplyRunStatus(w, t, s).status[u] = "running"
<1> DEFINE v == ApplyRunStatus(w, t, s)
<1>1. \E next \in TaskStatus \ {"planned"} : Moves(w, v, t, next)
  BY ReportMoves
<1> HIDE DEF v
<1>2. v.status[u] = "running"
  BY <1>1, MovesLeaveOthers
<1> QED
  BY <1>2 DEF v

LEMMA TimeoutIsReviewed ==
    ASSUME NEW w \in Workflow, NEW t \in Tasks
    PROVE  ApplyRunStatus(w, t, "timed_out").status[t] = "review_required"
BY DEF ApplyRunStatus, RunFailed, Workflow
----------------------------------------------------------------------------
\* Every step keeps what the process knows fresh, and is an operation of the
\* serial workflow if it saves the workflow.

\* What the invariant of SwarmOrchestratorProofs says of the types.
LEMMA TypesAtHand ==
    ASSUME IInv, NEW p \in Procs
    PROVE  /\ wf \in Workflow /\ proc[p] \in Locals
           /\ proc[p].polls \subseteq RunRecord
           /\ \A rec \in proc[p].polls : rec.task \in Tasks
           /\ proc[p].at \in TaskSteps => proc[p].task \in Tasks
           /\ proc[p].at \in RunSteps =>
                 proc[p].rec \in RunRecord /\ proc[p].rec.task = proc[p].task
BY DEF IInv, LocalsFit, Known, Spawned, Locals, RunRecord

\* Locals that are at rest, and whose step asks for nothing, are fresh.
LEMMA RestedIsFresh ==
    ASSUME NEW l, NEW w, l.at = "idle", Rested(l)
    PROVE  Fresh(l, w)
BY DEF Fresh, Rested, SaveSteps, DispatchSteps, LaunchSteps, ReportSteps, CancelSteps, RetrySteps

\* So are those between the parts of a batch,
LEMMA BatchIsFresh ==
    ASSUME NEW l, NEW w, l.at \in {"pick", "reload", "idle"}, l.polls = {},
           l.overflow \subseteq DispatchableTasks(w.status) \ l.todo,
           l.at = "idle" => l.todo = {} /\ l.overflow = {}
    PROVE  Fresh(l, w)
BY DEF Fresh, SaveSteps, DispatchSteps, LaunchSteps, ReportSteps, CancelSteps, RetrySteps

\* and between the polls of a sync.
LEMMA PollsAreFresh ==
    ASSUME NEW l, NEW w, l.at \in {"poll", "idle"},
           l.todo = {}, l.overflow = {}, l.at = "idle" => l.polls = {},
           \A rec \in l.polls : w.status[rec.task] = "running",
           \A a, b \in l.polls : a.task = b.task => a = b
    PROVE  Fresh(l, w)
BY DEF Fresh, SaveSteps, DispatchSteps, LaunchSteps, ReportSteps, CancelSteps, RetrySteps

LEMMA StartBatchFresh ==
    ASSUME IInv, NEW p \in Procs, NEW n \in Tasks, StartBatch(p, n, "task")
    PROVE  Fresh(proc'[p], wf') /\ Serially(wf, wf')
<1>1. \A k : FirstCandidates(wf.status, k) \subseteq DispatchableTasks(wf.status)
  BY DEF FirstCandidates
<1>2. /\ proc'[p].overflow \subseteq DispatchableTasks(wf.status) \ proc'[p].todo
      /\ proc'[p].at \in {"pick", "reload", "idle"} /\ proc'[p].polls = {} /\ wf' = wf
      /\ proc'[p].at = "idle" => proc'[p].todo = {} /\ proc'[p].overflow = {}
  BY <1>1, StartBatchDoes
<1> QED
  BY <1>2, BatchIsFresh DEF Serially
LEMMA SkipTaskFresh ==
    ASSUME IInv, NEW p \in Procs, Fresh(proc[p], wf), NEW t \in Tasks, SkipTask(p, t)
    PROVE  Fresh(proc'[p], wf') /\ Serially(wf, wf')
<1>1. /\ proc'[p].overflow \subseteq DispatchableTasks(wf.status) \ proc'[p].todo
      /\ proc'[p].at \in {"pick", "reload", "idle"} /\ proc'[p].polls = {} /\ wf' = wf
      /\ proc'[p].at = "idle" => proc'[p].todo = {} /\ proc'[p].overflow = {}
  BY SkipTaskDoes DEF Fresh
<1> QED
  BY <1>1, BatchIsFresh DEF Serially

LEMMA PickTaskFresh ==
    ASSUME IInv, NEW p \in Procs, Fresh(proc[p], wf), NEW t \in Tasks, PickTask(p, t)
    PROVE  Fresh(proc'[p], wf') /\ Serially(wf, wf')
<1>1. /\ proc'[p].at \in {"spawn", "record"} /\ proc'[p].snap = wf /\ proc'[p].task = t
      /\ t \in DispatchableTasks(wf.status) /\ t \in proc[p].todo
      /\ proc'[p].todo = proc[p].todo \ {t} /\ proc'[p].overflow = proc[p].overflow
      /\ proc'[p].polls = proc[p].polls /\ proc[p].at = "pick" /\ wf' = wf
  BY PickTaskDoes
<1>2. proc'[p].overflow \subseteq DispatchableTasks(wf.status) \ proc'[p].todo
  BY <1>1 DEF Fresh
<1>3. proc'[p].polls = {}
  BY <1>1 DEF Fresh, ReportSteps
<1>4. t \notin proc'[p].overflow
  BY <1>1 DEF Fresh
<1> QED
  BY <1>1, <1>2, <1>3, <1>4
     DEF Fresh, Serially, SaveSteps, DispatchSteps, LaunchSteps, ReportSteps, CancelSteps,
         RetrySteps

\* A step that leaves the workflow and everything but the record as it was.
LEMMA CarriedFresh ==
    ASSUME NEW k, NEW l, NEW w, Fresh(k, w), Carried(k, l),
           \/ k.at \in {"spawn", "record"} /\ l.at \in {"record", "commit"}
           \/ k.at \in {"observe", "note"} /\ l.at \in {"note", "settle"}
           \/ k.at = "cancel" /\ l.at = "stamp"
           \/ /\ k.at = "stamp" /\ l.at = "load"
              /\ l.rec.status = IF RetryAfterCancel THEN "timed_out" ELSE "cancelled"
           \/ k.at = "reread" /\ l.at = "retry"
           \/ k.at = "history" /\ l.at = "rearm"
    PROVE  Fresh(l, w)
BY DEF Fresh, Carried, SaveSteps, DispatchSteps, LaunchSteps, ReportSteps, CancelSteps, RetrySteps

LEMMA CarriedStepsFresh ==
    ASSUME IInv, NEW p \in Procs, Fresh(proc[p], wf),
           \/ SpawnSession(p) \/ RecordRun(p) \/ RecordManualRun(p)
           \/ Observe(p) \/ NoteSynced(p)
           \/ CancelSession(p) \/ StampRun(p)
           \/ RereadRun(p) \/ WriteHistory(p)
    PROVE  Fresh(proc'[p], wf') /\ Serially(wf, wf')
<1>1. CASE SpawnSession(p)
  BY <1>1, SpawnSessionDoes, CarriedFresh DEF Serially
<1>2. CASE RecordRun(p)
  BY <1>2, RecordRunDoes, CarriedFresh DEF Serially
<1>3. CASE RecordManualRun(p)
  BY <1>3, RecordManualRunDoes, CarriedFresh DEF Serially
<1>4. CASE Observe(p)
  BY <1>4, ObserveDoes, CarriedFresh DEF Serially
<1>5. CASE NoteSynced(p)
  BY <1>5, NoteSyncedDoes, CarriedFresh DEF Serially
<1>6. CASE CancelSession(p)
  BY <1>6, CancelSessionDoes, CarriedFresh DEF Serially
<1>7. CASE StampRun(p)
  <2>1. proc[p].at = "stamp" /\ proc[p].recovery
    BY <1>7, StampRunDoes DEF Fresh, CancelSteps
  <2> QED
    BY <1>7, <2>1, StampRunDoes, CarriedFresh DEF Serially
<1>8. CASE RereadRun(p)
  BY <1>8, RereadRunDoes, CarriedFresh DEF Serially
<1>9. CASE WriteHistory(p)
  BY <1>9, WriteHistoryDoes, CarriedFresh DEF Serially
<1> QED
  BY <1>1, <1>2, <1>3, <1>4, <1>5, <1>6, <1>7, <1>8, <1>9

LEMMA CommitDispatchFresh ==
    ASSUME IInv, NEW p \in Procs, Fresh(proc[p], wf), CommitDispatch(p)
    PROVE  Fresh(proc'[p], wf') /\ Serially(wf, wf')
<1> DEFINE t == proc[p].task
           runner == proc[p].runner
<1>1. /\ proc[p].snap = wf /\ t \in DispatchableTasks(wf.status) \ proc[p].overflow
      /\ proc[p].overflow \subseteq DispatchableTasks(wf.status) \ proc[p].todo
  BY CommitDispatchDoes DEF Fresh, SaveSteps, LaunchSteps
<1>2. wf \in Workflow /\ runner \in {"acp", "manual"}
  BY TypesAtHand DEF Locals
<1>3. wf' = Dispatched(wf, t, runner)
  BY <1>1, CommitDispatchDoes
<1> HIDE DEF t, runner
<1>4. proc[p].overflow \subseteq DispatchableTasks(wf'.status) \ proc[p].todo
  BY <1>1, <1>2, <1>3, DispatchLeavesDispatchable
<1>5. /\ proc'[p].overflow \subseteq DispatchableTasks(wf'.status) \ proc'[p].todo
      /\ proc'[p].at \in {"pick", "reload", "idle"} /\ proc'[p].polls = {}
      /\ proc'[p].at = "idle" => proc'[p].todo = {} /\ proc'[p].overflow = {}
  BY <1>4, CommitDispatchDoes
<1>6. Transition(wf, wf', RejectBound)
  BY <1>1, <1>2, <1>3 DEF Transition
<1> QED
  BY <1>5, <1>6, BatchIsFresh DEF Serially

LEMMA ReloadForQueueFresh ==
    ASSUME IInv, NEW p \in Procs, Fresh(proc[p], wf), ReloadForQueue(p)
    PROVE  Fresh(proc'[p], wf') /\ Serially(wf, wf')
BY ReloadForQueueDoes
   DEF Fresh, Serially, SaveSteps, DispatchSteps, LaunchSteps, ReportSteps, CancelSteps,
         RetrySteps

LEMMA EnqueueOverflowFresh ==
    ASSUME IInv, NEW p \in Procs, Fresh(proc[p], wf), EnqueueOverflow(p)
    PROVE  Fresh(proc'[p], wf') /\ Serially(wf, wf')
<1>1. /\ proc[p].at = "enqueue" /\ proc'[p].at = "idle" /\ Rested(proc'[p])
      /\ wf' = MarkQueued(proc[p].snap, proc[p].overflow)
  BY EnqueueOverflowDoes
<1>2. proc[p].snap = wf /\ proc[p].overflow \in SUBSET DispatchableTasks(wf.status)
  BY <1>1 DEF Fresh, SaveSteps
<1> QED
  BY <1>1, <1>2, RestedIsFresh DEF Serially, Transition

LEMMA StartSyncActiveFresh ==
    ASSUME IInv, NEW p \in Procs, StartSyncActive(p)
    PROVE  Fresh(proc'[p], wf') /\ Serially(wf, wf')
<1> DEFINE active == {r \in ledger : Active(r) /\ wf.status[r.task] = "running"}
<1>1. /\ proc'[p].at = "poll" /\ proc'[p].todo = {} /\ proc'[p].overflow = {} /\ wf' = wf
      /\ proc'[p].polls = {r \in active : \A s \in active : s.task = r.task => s.id <= r.id}
  BY StartSyncActiveDoes
<1>2. \A rec \in proc'[p].polls : wf'.status[rec.task] = "running"
  BY <1>1
<1>3. ASSUME NEW a \in proc'[p].polls, NEW b \in proc'[p].polls, a.task = b.task
      PROVE  a = b
  <2>1. a \in ledger /\ b \in ledger /\ a.id <= b.id /\ b.id <= a.id
    BY <1>1, <1>3
  <2>2. a.id \in Nat /\ b.id \in Nat
    BY <2>1, LedgerKnown, OrchestratorAssumption DEF RunRecord, RunIds
  <2>3. a.id = b.id
    BY <2>1, <2>2
  <2> QED
    BY <2>1, <2>3 DEF IInv, FilesFit, Files
<1> HIDE DEF active
<1> QED
  BY <1>1, <1>2, <1>3, PollsAreFresh DEF Serially

LEMMA LoadForSyncFresh ==
    ASSUME IInv, NEW p \in Procs, Fresh(proc[p], wf), LoadForSync(p)
    PROVE  Fresh(proc'[p], wf') /\ Serially(wf, wf')
<1>1. /\ proc[p].at = "poll" /\ proc'[p].at = "observe"
      /\ proc'[p].rec \in proc[p].polls
      /\ proc'[p].snap = wf /\ proc'[p].task = proc'[p].rec.task
      /\ proc'[p].polls = proc[p].polls \ {proc'[p].rec}
      /\ proc'[p].todo = proc[p].todo /\ proc'[p].overflow = proc[p].overflow
      /\ wf' = wf
  BY LoadForSyncDoes
<1>2. proc'[p].todo = {} /\ proc'[p].overflow = {}
  BY <1>1 DEF Fresh, DispatchSteps, LaunchSteps
<1>3. /\ wf.status[proc'[p].task] = "running"
      /\ \A rec \in proc'[p].polls : rec.task # proc'[p].task /\ wf.status[rec.task] = "running"
      /\ \A a, b \in proc'[p].polls : a.task = b.task => a = b
  BY <1>1 DEF Fresh
<1> QED
  BY <1>1, <1>2, <1>3
     DEF Fresh, Serially, SaveSteps, DispatchSteps, LaunchSteps, ReportSteps, CancelSteps,
         RetrySteps

LEMMA SettleFresh ==
    ASSUME IInv, NEW p \in Procs, Fresh(proc[p], wf), Settle(p)
    PROVE  Fresh(proc'[p], wf') /\ Serially(wf, wf')
<1> DEFINE t == proc[p].task
           s == proc[p].rec.status
<1>1. /\ proc[p].at = "settle" /\ proc'[p].at \in {"poll", "idle"}
      /\ wf' = ApplyRunStatus(proc[p].snap, t, s)
      /\ proc'[p].todo = {} /\ proc'[p].overflow = {}
      /\ proc'[p].polls = proc[p].polls /\ (proc'[p].at = "idle" => proc'[p].polls = {})
  BY SettleDoes
<1>2. /\ proc[p].snap = wf /\ wf.status[t] = "running"
      /\ \A rec \in proc[p].polls : rec.task # t /\ wf.status[rec.task] = "running"
      /\ \A a, b \in proc[p].polls : a.task = b.task => a = b
  BY <1>1 DEF Fresh, SaveSteps, ReportSteps
<1>3. /\ wf \in Workflow /\ t \in Tasks /\ s \in RunStatus
      /\ \A rec \in proc[p].polls : rec.task \in Tasks
  BY <1>1, TypesAtHand DEF TaskSteps, RunSteps, Step, RunRecord
<1> HIDE DEF t, s
<1>4. \A rec \in proc[p].polls : wf'.status[rec.task] = "running"
  BY <1>1, <1>2, <1>3, ReportLeavesRunning
<1>5. Transition(wf, wf', RejectBound)
  BY <1>1, <1>2, <1>3 DEF Transition
<1> QED
  BY <1>1, <1>2, <1>4, <1>5, PollsAreFresh DEF Serially
LEMMA StartRecoveryFresh ==
    ASSUME IInv, NEW p \in Procs, NEW rec \in ledger, StartRecovery(p, rec)
    PROVE  Fresh(proc'[p], wf') /\ Serially(wf, wf')
<1>1. /\ proc'[p].at = "cancel" /\ wf.status[proc'[p].task] = "running"
      /\ proc'[p].recovery /\ Rested(proc'[p]) /\ wf' = wf
  BY StartRecoveryDoes
<1> QED
  BY <1>1 DEF Fresh, Rested, Serially, SaveSteps, DispatchSteps, LaunchSteps, ReportSteps,
              CancelSteps, RetrySteps

LEMMA LoadForCancelFresh ==
    ASSUME IInv, NEW p \in Procs, Fresh(proc[p], wf), LoadForCancel(p)
    PROVE  Fresh(proc'[p], wf') /\ Serially(wf, wf')
<1>1. /\ proc[p].at = "load" /\ proc'[p].at = "apply" /\ proc'[p].snap = wf
      /\ proc'[p].task = proc[p].task /\ proc'[p].rec = proc[p].rec
      /\ proc'[p].recovery = proc[p].recovery
      /\ proc'[p].todo = proc[p].todo /\ proc'[p].overflow = proc[p].overflow
      /\ proc'[p].polls = proc[p].polls /\ wf' = wf
  BY LoadForCancelDoes
<1> QED
  BY <1>1 DEF Fresh, Serially, SaveSteps, DispatchSteps, LaunchSteps, ReportSteps, CancelSteps,
         RetrySteps

LEMMA ApplyCancelFresh ==
    ASSUME IInv, NEW p \in Procs, Fresh(proc[p], wf), ApplyCancel(p)
    PROVE  Fresh(proc'[p], wf') /\ Serially(wf, wf')
<1> DEFINE t == proc[p].task
           s == proc[p].rec.status
<1>1. /\ proc[p].at = "apply" /\ wf' = ApplyRunStatus(proc[p].snap, t, s)
      /\ Rested(proc'[p])
      /\ \/ proc'[p].at = "idle"
         \/ RetryAfterCancel /\ proc'[p].at = "reread" /\ proc'[p].task = t
  BY ApplyCancelDoes
<1>2. /\ proc[p].snap = wf /\ wf.status[t] = "running"
      /\ RetryAfterCancel => s = "timed_out"
  BY <1>1 DEF Fresh, SaveSteps, CancelSteps
<1>3. wf \in Workflow /\ t \in Tasks /\ s \in RunStatus
  BY <1>1, TypesAtHand DEF TaskSteps, RunSteps, Step, RunRecord
<1> HIDE DEF t, s
<1>4. Transition(wf, wf', RejectBound)
  BY <1>1, <1>2, <1>3 DEF Transition
<1>5. RetryAfterCancel => wf'.status[t] = "review_required"
  BY <1>1, <1>2, <1>3, TimeoutIsReviewed
<1>6. CASE proc'[p].at = "idle"
  BY <1>1, <1>4, <1>6, RestedIsFresh DEF Serially
<1>7. CASE RetryAfterCancel /\ proc'[p].at = "reread" /\ proc'[p].task = t
  BY <1>1, <1>4, <1>5, <1>7 DEF Fresh, Rested, Serially, SaveSteps, DispatchSteps, LaunchSteps,
                               ReportSteps, CancelSteps, RetrySteps
<1> QED
  BY <1>1, <1>6, <1>7

LEMMA EvaluateRetryFresh ==
    ASSUME IInv, NEW p \in Procs, Fresh(proc[p], wf), EvaluateRetry(p)
    PROVE  Fresh(proc'[p], wf') /\ Serially(wf, wf')
<1>1. CASE proc'[p].at = "idle" /\ Rested(proc'[p])
  BY <1>1, EvaluateRetryDoes, RestedIsFresh DEF Serially
<1>2. CASE ~(proc'[p].at = "idle" /\ Rested(proc'[p]))
  <2>1. /\ proc[p].at = "retry" /\ proc'[p].at \in {"history", "bury"}
        /\ proc'[p].snap = wf /\ proc'[p].task = proc[p].task
        /\ proc'[p].todo = proc[p].todo /\ proc'[p].overflow = proc[p].overflow
        /\ proc'[p].polls = proc[p].polls /\ wf' = wf
    BY <1>2, EvaluateRetryDoes
  <2> QED
    BY <2>1 DEF Fresh, Serially, SaveSteps, DispatchSteps, LaunchSteps, ReportSteps, CancelSteps,
                RetrySteps
<1> QED
  BY <1>1, <1>2

LEMMA RearmTaskFresh ==
    ASSUME IInv, NEW p \in Procs, Fresh(proc[p], wf), RearmTask(p)
    PROVE  Fresh(proc'[p], wf') /\ Serially(wf, wf')
<1>1. /\ proc[p].at = "rearm" /\ proc'[p].at = "pick"
      /\ wf' = RearmedForRetry(proc[p].snap, proc[p].task)
      /\ proc'[p].overflow = {} /\ proc'[p].polls = {}
  BY RearmTaskDoes
<1>2. proc[p].snap = wf /\ wf.status[proc[p].task] = "review_required"
  BY <1>1 DEF Fresh, SaveSteps, RetrySteps
<1>3. proc[p].task \in Tasks
  BY <1>1, TypesAtHand DEF TaskSteps, Step
<1> QED
  BY <1>1, <1>2, <1>3, BatchIsFresh DEF Serially, Transition

LEMMA BuryTaskFresh ==
    ASSUME IInv, NEW p \in Procs, Fresh(proc[p], wf), BuryTask(p)
    PROVE  Fresh(proc'[p], wf') /\ Serially(wf, wf')
<1>1. /\ proc[p].at = "bury" /\ proc'[p].at = "idle" /\ Rested(proc'[p])
      /\ wf' = DeadLettered(proc[p].snap, proc[p].task)
  BY BuryTaskDoes
<1>2. proc[p].snap = wf /\ wf.status[proc[p].task] = "review_required"
  BY <1>1 DEF Fresh, SaveSteps, RetrySteps
<1>3. proc[p].task \in Tasks
  BY <1>1, TypesAtHand DEF TaskSteps, Step
<1> QED
  BY <1>1, <1>2, <1>3, RestedIsFresh DEF Serially, Transition

LEMMA StartReviewFresh ==
    ASSUME IInv, NEW p \in Procs, NEW t \in wf.reviewQueue, NEW decision \in ReviewDecision,
           StartReview(p, t, decision)
    PROVE  Fresh(proc'[p], wf') /\ Serially(wf, wf')
<1>1. t \in Tasks
  BY TypesAtHand DEF Workflow
<1>2. /\ proc'[p].at = "decide" /\ proc'[p].snap = wf /\ proc'[p].task = t
      /\ proc'[p].decision = decision /\ Rested(proc'[p]) /\ wf' = wf
      /\ ApplyReviewDecision(wf, t, decision).retryCount[t] <= RejectBound
  BY <1>1, StartReviewDoes
<1> QED
  BY <1>2 DEF Fresh, Rested, Serially, SaveSteps, DispatchSteps, LaunchSteps, ReportSteps,
              CancelSteps, RetrySteps

LEMMA DecideFresh ==
    ASSUME IInv, NEW p \in Procs, Fresh(proc[p], wf), Decide(p)
    PROVE  Fresh(proc'[p], wf') /\ Serially(wf, wf')
<1>1. /\ proc[p].at = "decide" /\ proc'[p].at = "idle" /\ Rested(proc'[p])
      /\ wf' = ApplyReviewDecision(proc[p].snap, proc[p].task, proc[p].decision)
  BY DecideDoes
<1>2. /\ proc[p].snap = wf /\ proc[p].task \in wf.reviewQueue
      /\ ApplyReviewDecision(wf, proc[p].task, proc[p].decision).retryCount[proc[p].task]
            <= RejectBound
  BY <1>1 DEF Fresh, SaveSteps
<1>3. proc[p].decision \in ReviewDecision
  BY TypesAtHand DEF Locals
<1>4. Transition(wf, wf', RejectBound)
  BY <1>1, <1>2, <1>3 DEF Transition
<1> QED
  BY <1>1, <1>4, RestedIsFresh DEF Serially

\* A step of a process, and the start of an operation.
LEMMA StepsFresh ==
    ASSUME IInv, NEW p \in Procs, Fresh(proc[p], wf), Steps(p)
    PROVE  Fresh(proc'[p], wf') /\ Serially(wf, wf')
<1>1. CASE DispatchStep(p)
  BY <1>1, SkipTaskFresh, PickTaskFresh, CarriedStepsFresh, CommitDispatchFresh,
     ReloadForQueueFresh, EnqueueOverflowFresh DEF DispatchStep
<1>2. CASE SyncStep(p)
  BY <1>2, LoadForSyncFresh, CarriedStepsFresh, SettleFresh DEF SyncStep
<1>3. CASE CancelStep(p)
  BY <1>3, CarriedStepsFresh, LoadForCancelFresh, ApplyCancelFresh DEF CancelStep
<1>4. CASE RetryStep(p)
  BY <1>4, CarriedStepsFresh, EvaluateRetryFresh, RearmTaskFresh, BuryTaskFresh
     DEF RetryStep
<1>5. CASE Decide(p)
  BY <1>5, DecideFresh
<1> QED
  BY <1>1, <1>2, <1>3, <1>4, <1>5 DEF Steps

LEMMA SupervisedStartFresh ==
    ASSUME IInv, NEW p \in Procs, SupervisedStart(p)
    PROVE  Fresh(proc'[p], wf') /\ Serially(wf, wf')
BY StartBatchFresh, StartSyncActiveFresh, StartRecoveryFresh, StartReviewFresh
   DEF SupervisedStart

LEMMA RuntimeCallFailsFresh ==
    ASSUME IInv, NEW p \in Procs, RuntimeCallFails(p)
    PROVE  Fresh(proc'[p], wf') /\ Serially(wf, wf')
BY RuntimeCallFailsDoes, RestedIsFresh DEF Serially

LEMMA InitFresh == Init => FreshInv
BY IdleIs, RestedIsFresh DEF Init, FreshInv

\* With one process, what is fresh for the one that steps is fresh for all.
LEMMA NextFresh ==
    ASSUME OneProcess, IInv, FreshInv, [SupervisedNext]_vars
    PROVE  FreshInv' /\ Serially(wf, wf')
<1>1. ASSUME NEW p \in Procs, Fresh(proc'[p], wf') /\ Serially(wf, wf')
      PROVE  FreshInv' /\ Serially(wf, wf')
  BY <1>1 DEF OneProcess, FreshInv
<1>2. CASE \E p \in Autopilots : SupervisedStart(p)
  BY <1>1, <1>2, SupervisedStartFresh, OrchestratorAssumption
<1>3. CASE \E p \in Procs : Steps(p)
  BY <1>1, <1>3, StepsFresh DEF FreshInv
<1>4. CASE \E p \in Procs : RuntimeCallFails(p)
  BY <1>1, <1>4, RuntimeCallFailsFresh
<1>5. CASE \E r \in RunIds : SessionEnds(r)
  BY <1>5 DEF SessionEnds, FreshInv, Serially
<1>6. CASE UNCHANGED vars
  BY <1>6 DEF vars, FreshInv, Serially
<1> QED
  BY <1>2, <1>3, <1>4, <1>5, <1>6 DEF SupervisedNext, Environment
LEMMA SupervisedInvariance ==
    ASSUME OneProcess
    PROVE  SupervisedSpec => [](IInv /\ FreshInv)
<1>1. Init => IInv /\ FreshInv
  BY InitEstablishes, InitFresh
<1>2. IInv /\ FreshInv /\ [SupervisedNext]_vars => (IInv /\ FreshInv)'
  <2>1. [SupervisedNext]_vars => [Next]_vars
    BY DEF Next
  <2> QED
    BY <2>1, NextKeeps, NextFresh
<1> QED
  BY <1>1, <1>2, PTL DEF SupervisedSpec

----------------------------------------------------------------------------
\* The operators of the serial workflow are those of the orchestrator.

LEMMA SerialReaders ==
    ASSUME NEW status
    PROVE  /\ Serial!DispatchableTasks(status) = DispatchableTasks(status)
           /\ Serial!UpsertTaskStatuses(status) = UpsertTaskStatuses(status)
           /\ \A queue : Serial!DeriveLifecycle(status, queue) = DeriveLifecycle(status, queue)
<1>1. Serial!RunnableTasks(status) = RunnableTasks(status)
  BY DEF Serial!RunnableTasks, RunnableTasks, Serial!DependenciesDone, DependenciesDone,
         Serial!Tasks, Tasks
<1>2. Serial!QueuedTasks(status) = QueuedTasks(status)
  BY DEF Serial!QueuedTasks, QueuedTasks, Serial!DependenciesDone, DependenciesDone,
         Serial!Tasks, Tasks
<1> QED
  BY <1>1, <1>2 DEF Serial!DispatchableTasks, DispatchableTasks, Serial!UpsertTaskStatuses,
     UpsertTaskStatuses, Serial!DeriveLifecycle, DeriveLifecycle, Serial!Tasks, Tasks

LEMMA SerialOutcomes ==
    ASSUME NEW w, NEW t, NEW s
    PROVE  Serial!ApplyRunStatus(w, t, s) = ApplyRunStatus(w, t, s)
BY SerialReaders
   DEF Serial!ApplyRunStatus, ApplyRunStatus, Serial!RunActive, RunActive,
       Serial!RunCompleted, RunCompleted, Serial!RunFailed, RunFailed,
       Serial!RunCancelled, RunCancelled

LEMMA SerialDecisions ==
    ASSUME NEW w, NEW t, NEW decision
    PROVE  Serial!ApplyReviewDecision(w, t, decision) = ApplyReviewDecision(w, t, decision)
<1>1. Serial!Approve(w, t) = Approve(w, t)
  BY SerialReaders DEF Serial!Approve, Approve
<1>2. Serial!RejectToBlocked(w, t) = RejectToBlocked(w, t)
  BY DEF Serial!RejectToBlocked, RejectToBlocked
<1>3. \A m : Serial!RejectForRetry(w, t, m) = RejectForRetry(w, t, m)
  BY <1>2 DEF Serial!RejectForRetry, RejectForRetry
<1> QED
  BY <1>1, <1>2, <1>3 DEF Serial!ApplyReviewDecision, ApplyReviewDecision

LEMMA SerialSaves ==
    ASSUME NEW w, NEW t, NEW runner, NEW S
    PROVE  /\ Serial!Dispatched(w, t, runner) = Dispatched(w, t, runner)
           /\ Serial!MarkQueued(w, S) = MarkQueued(w, S)
           /\ Serial!RearmedForRetry(w, t) = RearmedForRetry(w, t)
           /\ Serial!DeadLettered(w, t) = DeadLettered(w, t)
<1>1. Serial!Dispatched(w, t, runner) = Dispatched(w, t, runner)
  <2> DEFINE next == IF runner = "acp" THEN "running"
                     ELSE IF t \in ReviewRequired THEN "review_required" ELSE "done"
             mid  == [w.status EXCEPT ![t] = next]
  <2>1. Serial!UpsertTaskStatuses(mid) = UpsertTaskStatuses(mid)
    BY SerialReaders
  <2>2. \A queue : Serial!DeriveLifecycle(UpsertTaskStatuses(mid), queue)
                     = DeriveLifecycle(UpsertTaskStatuses(mid), queue)
    BY SerialReaders
  <2>3. CASE runner = "acp"
    BY <2>1, <2>2, <2>3 DEF Serial!Dispatched, Dispatched
  <2>4. CASE runner # "acp" /\ t \in ReviewRequired
    BY <2>1, <2>2, <2>4 DEF Serial!Dispatched, Dispatched
  <2>5. CASE runner # "acp" /\ t \notin ReviewRequired
    BY <2>1, <2>2, <2>5 DEF Serial!Dispatched, Dispatched
  <2> QED
    BY <2>3, <2>4, <2>5
<1>2. Serial!MarkQueued(w, S) = MarkQueued(w, S)
  BY DEF Serial!MarkQueued, MarkQueued, Serial!Tasks, Tasks
<1>3. Serial!RearmedForRetry(w, t) = RearmedForRetry(w, t)
  BY DEF Serial!RearmedForRetry, RearmedForRetry
<1>4. Serial!DeadLettered(w, t) = DeadLettered(w, t)
  BY DEF Serial!DeadLettered, DeadLettered
<1> QED
  BY <1>1, <1>2, <1>3, <1>4

LEMMA SerialInit == Init => Serial!Init
BY SerialReaders DEF Init, Serial!Init, InitialWorkflow, Serial!InitialWorkflow,
                     Serial!Tasks, Tasks

\* A transition is a step of the serial workflow.
LEMMA TransitionIsSerial ==
    ASSUME wf \in Workflow, Transition(wf, wf', RejectBound)
    PROVE  Serial!Next
<1> USE DEF Serial!Tasks, Tasks, Serial!RunStatus, RunStatus,
            Serial!ReviewDecision, ReviewDecision
<1>1. wf.reviewQueue \subseteq Tasks
  BY DEF Workflow
<1>2. \A t \in DispatchableTasks(wf.status) : t \in Tasks
  BY DispatchableIsNotDone
<1>3. CASE \E t \in DispatchableTasks(wf.status), runner \in {"acp", "manual"} :
              wf' = Dispatched(wf, t, runner)
  <2>1. \E t \in Tasks, runner \in {"acp", "manual"} : Serial!Dispatch(t, runner)
    BY <1>2, <1>3, SerialReaders, SerialSaves DEF Serial!Dispatch
  <2> QED
    BY <2>1 DEF Serial!Next
<1>4. CASE \E S \in SUBSET DispatchableTasks(wf.status) : wf' = MarkQueued(wf, S)
  <2>1. \E S \in SUBSET Tasks : Serial!Overflow(S)
    BY <1>2, <1>4, SerialReaders, SerialSaves DEF Serial!Overflow
  <2> QED
    BY <2>1 DEF Serial!Next
<1>5. CASE \E t \in Tasks, s \in RunStatus :
              wf.status[t] = "running" /\ wf' = ApplyRunStatus(wf, t, s)
  <2>1. \E t \in Tasks, s \in RunStatus : Serial!ReportRun(t, s)
    BY <1>5, SerialOutcomes DEF Serial!ReportRun
  <2> QED
    BY <2>1 DEF Serial!Next
<1>6. CASE \E t \in Tasks : /\ wf.status[t] = "review_required"
                            /\ wf' = RearmedForRetry(wf, t) \/ wf' = DeadLettered(wf, t)
  <2>1. \E t \in Tasks : Serial!Rearm(t) \/ Serial!Bury(t)
    BY <1>6, SerialSaves DEF Serial!Rearm, Serial!Bury
  <2> QED
    BY <2>1 DEF Serial!Next
<1>7. CASE \E t \in wf.reviewQueue, decision \in ReviewDecision :
              /\ wf' = ApplyReviewDecision(wf, t, decision)
              /\ wf'.retryCount[t] <= RejectBound
  <2>1. \E t \in Tasks, decision \in ReviewDecision : Serial!Decide(t, decision)
    BY <1>1, <1>7, SerialDecisions DEF Serial!Decide
  <2> QED
    BY <2>1 DEF Serial!Next
<1> QED
  BY <1>3, <1>4, <1>5, <1>6, <1>7 DEF Transition

----------------------------------------------------------------------------
\* A single supervised process implements the serial workflow: whatever it
\* saves amounts to one whole operation on the workflow as it is in the file.
THEOREM ImplementsSerial ==
    ASSUME OneProcess
    PROVE  SupervisedSpec => SerialSpec
<1>1. Init => Serial!Init
  BY SerialInit
<1>2. IInv /\ FreshInv /\ [SupervisedNext]_vars => [Serial!Next]_wf
  <2>1. ASSUME IInv, FreshInv, [SupervisedNext]_vars
        PROVE  wf' = wf \/ Serial!Next
    BY <2>1, NextFresh, TransitionIsSerial DEF Serially, IInv
  <2> QED
    BY <2>1
<1> QED
  BY <1>1, <1>2, SupervisedInvariance, PTL DEF SupervisedSpec, SerialSpec, Serial!Spec

----------------------------------------------------------------------------
\* The sessions that the process starts.

LiveIn(r, f) == f.remote[r].state = "running"

\* The ledger has a record of run r, and none of a later run of its task.
Newest(r, f) ==
    \E rec \in f.ledger : /\ rec.id = r
                          /\ \A other \in f.ledger :
                                other.task = rec.task => other.id <= r

\* The latest run of t is active.
Tracked(t, f) ==
    \E rec \in f.ledger : /\ rec.task = t /\ Active(rec)
                          /\ \A other \in f.ledger :
                                other.task = t => other.id <= rec.id

\* Run r was spawned, and its task is about to be saved as running.
Carries(l, r) == l.at \in {"record", "commit"} /\ l.runner = "acp" /\ l.rec.id = r

\* The record of a run of t may say that it is over; the workflow will follow.
Pending(l, t) == l.at \in {"settle", "load", "apply"} /\ l.task = t

\* Runs are of the tasks whose runner is "acp", manual runs of the others.
OwnRunners(f) ==
    /\ \A rec \in f.ledger : rec.task \in AcpTasks
    /\ \A t \in AcpTasks : f.manualAt[t] = 0

\* A session at work is the latest run of a running task, and a running task
\* has an active run, but for the one that the process deals with.
Kept(l, w, f) ==
    /\ \A r \in RunIds : LiveIn(r, f) =>
          \/ Carries(l, r)
          \/ w.status[f.remote[r].task] = "running" /\ Newest(r, f)
    /\ \A t \in Tasks : w.status[t] = "running" =>
          t \notin w.reviewQueue /\ (Pending(l, t) \/ Tracked(t, f))

\* The process deals with the latest run of its task.
Tracks(l, f) ==
    /\ l.override = "task"
    /\ l.at \in LaunchSteps => (l.runner = "acp" <=> l.task \in AcpTasks)
    /\ l.at = "spawn" => l.runner = "acp"
    /\ l.at \in {"record", "commit"} /\ l.runner = "acp" =>
          l.rec.id = f.nextRun - 1 /\ l.rec.task = l.task /\ l.rec.status = "accepted"
    /\ l.at = "commit" /\ l.runner = "acp" => l.rec \in f.ledger /\ Newest(l.rec.id, f)
    /\ \A rec \in l.polls : Newest(rec.id, f)
    /\ l.at \in ReportSteps \union CancelSteps => Newest(l.rec.id, f)
    /\ l.at = "settle" => l.rec \in f.ledger
    /\ l.at \in {"note", "settle"} => Active(l.rec) \/ ~LiveIn(l.rec.id, f)
    /\ l.at \in {"stamp", "load", "apply"} => ~LiveIn(l.rec.id, f)

\* The tasks that the process has taken a slot for.
Slots(l) ==
    l.todo \union IF l.at \in LaunchSteps \union {"reread", "retry", "history", "rearm"}
                  THEN {l.task} ELSE {}

Busy(l, w) == ActiveTasks(w.status) \union (Slots(l) \intersect AcpTasks)

Within(l, w) == Cardinality(Busy(l, w)) <= MaxConcurrent

\* The inductive invariant, beside IInv and FreshInv.
Sound(l, w, f) ==
    OwnRunners(f) /\ Kept(l, w, f) /\ Tracks(l, f) /\ Within(l, w)

SessionInv == Orderly(wf) /\ \A p \in Procs : Sound(proc[p], wf, Files)

----------------------------------------------------------------------------
\* What each part of the invariant needs of a step.

\* The process moves on, and neither the workflow nor the files change.
LEMMA LocalKept ==
    ASSUME NEW k, NEW l, NEW w, NEW f, Kept(k, w, f),
           \A t \in Tasks : Pending(k, t) => Pending(l, t),
           \A r \in RunIds : Carries(k, r) => Carries(l, r)
    PROVE  Kept(l, w, f)
BY DEF Kept

LEMMA ActiveInTasks ==
    ASSUME NEW k, NEW w
    PROVE  /\ Busy(k, w) \subseteq Tasks /\ IsFiniteSet(Busy(k, w))
           /\ Cardinality(Busy(k, w)) \in Nat
<1>1. Busy(k, w) \subseteq Tasks
  BY TaskGraphAssumption DEF Busy, ActiveTasks
<1>2. IsFiniteSet(Tasks)
  BY FS_Interval, TaskGraphAssumption DEF Tasks
<1> QED
  BY <1>1, <1>2, FS_Subset, FS_CardinalityType

\* It takes no slot that it did not have.
LEMMA NarrowerWithin ==
    ASSUME NEW k, NEW l, NEW w, NEW v, Within(k, w), Busy(l, v) \subseteq Busy(k, w)
    PROVE  Within(l, v)
<1>1. /\ IsFiniteSet(Busy(k, w))
      /\ Cardinality(Busy(k, w)) \in Nat /\ Cardinality(Busy(l, v)) \in Nat
  BY ActiveInTasks
<1>2. Cardinality(Busy(l, v)) <= Cardinality(Busy(k, w))
  BY <1>1, FS_Subset
<1> QED
  BY <1>1, <1>2, OrchestratorAssumption DEF Within

\* The workflow says the same of the tasks that run, but for t.
Touches(w, v, t) ==
    \A u \in Tasks : u # t =>
        /\ v.status[u] = "running" <=> w.status[u] = "running"
        /\ u \in v.reviewQueue => u \in w.reviewQueue

LEMMA MovesTouch ==
    ASSUME NEW w \in Workflow, NEW v, NEW t \in Tasks,
           \E next \in TaskStatus \ {"planned"} : Moves(w, v, t, next)
    PROVE  Touches(w, v, t)
<1>1. \A u \in Tasks : u # t => \/ v.status[u] = w.status[u]
                                \/ w.status[u] = "planned" /\ v.status[u] = "ready"
  BY MovesLeaveOthers
<1>2. v.reviewQueue \subseteq w.reviewQueue \union {t}
  BY DEF Moves
<1> QED
  BY <1>1, <1>2 DEF Touches

LEMMA NewestIsSpawned ==
    ASSUME NEW f, FilesFit(f), NEW r, Newest(r, f)
    PROVE  f.remote[r].task \in Tasks
BY DEF Newest, FilesFit, Spawned, RunRecord

\* A workflow is saved: t is what the operation is about.
LEMMA SaveKept ==
    ASSUME NEW k, NEW l, NEW w, NEW v, NEW f, Kept(k, w, f),
           NEW t \in Tasks, Touches(w, v, t),
           v.status[t] = "running" => t \notin v.reviewQueue /\ Tracked(t, f),
           \A r \in RunIds : LiveIn(r, f) /\ f.remote[r].task = t =>
              v.status[t] = "running" /\ Newest(r, f),
           FilesFit(f),
           \A u \in Tasks : Pending(k, u) => u = t,
           \A r \in RunIds : LiveIn(r, f) /\ Carries(k, r) => f.remote[r].task = t
    PROVE  Kept(l, v, f)
<1>1. ASSUME NEW r \in RunIds, LiveIn(r, f)
      PROVE  v.status[f.remote[r].task] = "running" /\ Newest(r, f)
  <2>1. CASE f.remote[r].task = t
    BY <1>1, <2>1
  <2>2. CASE f.remote[r].task # t
    <3>1. w.status[f.remote[r].task] = "running" /\ Newest(r, f)
      BY <1>1, <2>2 DEF Kept
    <3>2. f.remote[r].task \in Tasks
      BY <3>1, NewestIsSpawned
    <3> QED
      BY <2>2, <3>1, <3>2 DEF Touches
  <2> QED
    BY <2>1, <2>2
<1> QED
  BY <1>1 DEF Kept, Touches

\* From f to g the record of a run is written.
Written(rec, f, g) ==
    /\ g.ledger = {r \in f.ledger : r.id # rec.id} \union {rec}
    /\ g.manualAt = f.manualAt /\ g.remote = f.remote /\ g.nextRun = f.nextRun

LEMMA WriteRunWrites ==
    ASSUME NEW rec, WriteRun(rec), UNCHANGED <<manualAt, remote, nextRun>>
    PROVE  Written(rec, Files, Files')
BY DEF WriteRun, Written, Files

\* The write of a latest record leaves every run the latest that was.
LEMMA WriteNewest ==
    ASSUME NEW f, NEW g, FilesFit(f), NEW rec, Spawned(rec, f), Written(rec, f, g),
           NEW r, Newest(r, f), Newest(rec.id, f) \/ f.remote[r].task # rec.task
    PROVE  Newest(r, g)
<1>1. PICK o \in f.ledger : /\ o.id = r
                            /\ \A other \in f.ledger : other.task = o.task => other.id <= r
  BY DEF Newest
<1>2. /\ o \in RunRecord /\ rec \in RunRecord /\ o.id \in Nat /\ rec.id \in Nat
      /\ f.remote[r].task = o.task /\ f.remote[rec.id].task = rec.task
  BY <1>1, OrchestratorAssumption DEF FilesFit, Spawned, RunRecord, RunIds
<1>3. CASE o.task # rec.task
  <2>1. o \in g.ledger /\ \A other \in g.ledger : other.task = o.task => other \in f.ledger
    BY <1>1, <1>2, <1>3 DEF Written
  <2> QED
    BY <1>1, <2>1 DEF Newest
<1>4. CASE o.task = rec.task
  <2>1. PICK last \in f.ledger :
           /\ last.id = rec.id
           /\ \A other \in f.ledger : other.task = last.task => other.id <= rec.id
    BY <1>2, <1>4 DEF Newest
  <2>2. last.task = rec.task
    BY <1>2, <2>1 DEF FilesFit, Spawned
  <2>3. rec.id <= r /\ r <= rec.id
    BY <1>1, <1>4, <2>1, <2>2
  <2>4. r = rec.id
    BY <1>1, <1>2, <2>3
  <2>5. /\ rec \in g.ledger
        /\ \A other \in g.ledger : other.task = rec.task => other.id <= r
    BY <1>1, <1>2, <1>4, <2>4 DEF Written
  <2> QED
    BY <2>4, <2>5 DEF Newest
<1> QED
  BY <1>3, <1>4

LEMMA WriteTracked ==
    ASSUME NEW f, NEW g, FilesFit(f), NEW rec, Spawned(rec, f), Written(rec, f, g),
           NEW t, Tracked(t, f), t # rec.task
    PROVE  Tracked(t, g)
<1>1. PICK o \in f.ledger : /\ o.task = t /\ Active(o)
                            /\ \A other \in f.ledger : other.task = t => other.id <= o.id
  BY DEF Tracked
<1>2. f.remote[o.id].task = t /\ f.remote[rec.id].task = rec.task
  BY <1>1 DEF FilesFit, Spawned
<1>3. o \in g.ledger /\ \A other \in g.ledger : other.task = t => other \in f.ledger
  BY <1>1, <1>2 DEF Written
<1> QED
  BY <1>1, <1>3 DEF Tracked

LEMMA WriteKept ==
    ASSUME NEW k, NEW l, NEW w, NEW f, NEW g, FilesFit(f), Kept(k, w, f),
           NEW rec, Spawned(rec, f), Written(rec, f, g),
           \A u \in Tasks : ~Pending(k, u),
           w.status[rec.task] = "running" => Pending(l, rec.task) /\ Newest(rec.id, f),
           \A r \in RunIds : Carries(k, r) => Carries(l, r)
    PROVE  Kept(l, w, g)
<1>1. g.remote = f.remote
  BY DEF Written
<1>2. ASSUME NEW r \in RunIds, LiveIn(r, g), ~Carries(l, r)
      PROVE  w.status[g.remote[r].task] = "running" /\ Newest(r, g)
  <2>1. w.status[f.remote[r].task] = "running" /\ Newest(r, f)
    BY <1>1, <1>2 DEF Kept, LiveIn
  <2>2. Newest(rec.id, f) \/ f.remote[r].task # rec.task
    BY <2>1
  <2> QED
    BY <1>1, <2>1, <2>2, WriteNewest
<1>3. ASSUME NEW t \in Tasks, w.status[t] = "running"
      PROVE  t \notin w.reviewQueue /\ (Pending(l, t) \/ Tracked(t, g))
  <2>1. t \notin w.reviewQueue /\ Tracked(t, f)
    BY <1>3 DEF Kept
  <2> QED
    BY <1>3, <2>1, WriteTracked
<1> QED
  BY <1>2, <1>3 DEF Kept

LEMMA WriteOwn ==
    ASSUME NEW f, NEW g, OwnRunners(f), NEW rec, Written(rec, f, g), rec.task \in AcpTasks
    PROVE  OwnRunners(g)
BY DEF OwnRunners, Written

\* From f to g sessions may have ended, and nothing else has changed.
Ended(f, g) ==
    /\ g.ledger = f.ledger /\ g.manualAt = f.manualAt /\ g.nextRun = f.nextRun
    /\ \A r \in RunIds : /\ g.remote[r].task = f.remote[r].task
                         /\ LiveIn(r, g) => LiveIn(r, f)

LEMMA EndedKept ==
    ASSUME NEW k, NEW w, NEW f, NEW g, Kept(k, w, f), Ended(f, g)
    PROVE  Kept(k, w, g)
BY DEF Kept, Ended, Newest, Tracked

----------------------------------------------------------------------------
\* Steps that neither save the workflow nor write the files.

LEMMA LocalSound ==
    ASSUME NEW k, NEW l, NEW w, NEW f, Sound(k, w, f), Tracks(l, f),
           \A t \in Tasks : Pending(k, t) => Pending(l, t),
           \A r \in RunIds : Carries(k, r) => Carries(l, r),
           Slots(l) \intersect AcpTasks \subseteq Busy(k, w)
    PROVE  Sound(l, w, f)
<1>1. Busy(l, w) \subseteq Busy(k, w)
  BY DEF Busy
<1> QED
  BY <1>1, LocalKept, NarrowerWithin DEF Sound

\* No session is in the hands of the process.
LEMMA QuietTracks ==
    ASSUME NEW l, NEW f, l.override = "task", \A rec \in l.polls : Newest(rec.id, f),
           l.at \notin LaunchSteps \union ReportSteps \union CancelSteps
    PROVE  Tracks(l, f)
BY DEF Tracks, LaunchSteps, ReportSteps, CancelSteps

LEMMA RestedSound ==
    ASSUME NEW k, NEW l, NEW w, NEW f, Sound(k, w, f), Rested(l),
           l.at \in {"idle", "decide"},
           k.at \notin {"record", "commit", "settle", "load", "apply"}
    PROVE  Sound(l, w, f)
<1>1. Tracks(l, f)
  BY QuietTracks DEF Rested, LaunchSteps, ReportSteps, CancelSteps
<1>2. Slots(l) = {}
  BY DEF Slots, Rested, LaunchSteps
<1> QED
  BY <1>1, <1>2, LocalSound DEF Pending, Carries

LEMMA FilesSame ==
    ASSUME UNCHANGED <<ledger, manualAt, remote, nextRun>>
    PROVE  Files' = Files
BY DEF Files

LEMMA SkipTaskSound ==
    ASSUME IInv, NEW p \in Procs, Sound(proc[p], wf, Files), NEW t \in Tasks, SkipTask(p, t)
    PROVE  Sound(proc'[p], wf', Files')
<1>1. /\ proc[p].at = "pick" /\ proc'[p].at \in {"pick", "reload", "idle"}
      /\ proc'[p].todo = proc[p].todo \ {t} /\ proc'[p].polls = {}
      /\ proc'[p].override \in {proc[p].override, "task"}
      /\ wf' = wf /\ Files' = Files
  BY SkipTaskDoes, FilesSame
<1>2. proc'[p].override = "task"
  BY <1>1 DEF Sound, Tracks
<1>3. Tracks(proc'[p], Files)
  BY <1>1, <1>2, QuietTracks DEF LaunchSteps, ReportSteps, CancelSteps
<1>4. Slots(proc'[p]) \subseteq Slots(proc[p])
  BY <1>1 DEF Slots, LaunchSteps
<1> QED
  BY <1>1, <1>3, <1>4, LocalSound DEF Pending, Carries, Busy

LEMMA PickTaskSound ==
    ASSUME IInv, NEW p \in Procs, Sound(proc[p], wf, Files), NEW t \in Tasks, PickTask(p, t)
    PROVE  Sound(proc'[p], wf', Files')
<1>1. /\ proc[p].at = "pick" /\ t \in proc[p].todo
      /\ proc'[p].runner = RunnerOf(t, proc[p].override)
      /\ proc'[p].at = IF proc'[p].runner = "acp" THEN "spawn" ELSE "record"
      /\ proc'[p].task = t /\ proc'[p].todo = proc[p].todo \ {t}
      /\ proc'[p].polls = proc[p].polls /\ proc'[p].override = proc[p].override
      /\ wf' = wf /\ Files' = Files
  BY PickTaskDoes, FilesSame
<1>2. proc[p].override = "task" /\ \A rec \in proc[p].polls : Newest(rec.id, Files)
  BY DEF Sound, Tracks
<1>3. proc'[p].runner = "acp" <=> t \in AcpTasks
  BY <1>1, <1>2 DEF RunnerOf
<1>4. \/ proc'[p].at = "spawn"
      \/ proc'[p].at = "record" /\ proc'[p].runner # "acp"
  BY <1>1
<1>5. Tracks(proc'[p], Files)
  BY <1>1, <1>2, <1>3, <1>4 DEF Tracks, ReportSteps, CancelSteps
<1>6. Slots(proc'[p]) \subseteq Slots(proc[p])
  BY <1>1 DEF Slots
<1>7. \A r \in RunIds : ~Carries(proc[p], r)
  BY <1>1 DEF Carries
<1>8. \A u \in Tasks : ~Pending(proc[p], u)
  BY <1>1 DEF Pending
<1> QED
  BY <1>1, <1>5, <1>6, <1>7, <1>8, LocalSound DEF Busy

LEMMA ReloadForQueueSound ==
    ASSUME IInv, NEW p \in Procs, Sound(proc[p], wf, Files), ReloadForQueue(p)
    PROVE  Sound(proc'[p], wf', Files')
<1>1. /\ proc[p].at = "reload" /\ proc'[p].at = "enqueue"
      /\ proc'[p].todo = proc[p].todo /\ proc'[p].polls = proc[p].polls
      /\ proc'[p].override = proc[p].override
      /\ wf' = wf /\ Files' = Files
  BY ReloadForQueueDoes, FilesSame
<1>2. Tracks(proc'[p], Files)
  BY <1>1, QuietTracks DEF Sound, Tracks, LaunchSteps, ReportSteps, CancelSteps
<1>3. Slots(proc'[p]) \subseteq Slots(proc[p])
  BY <1>1 DEF Slots, LaunchSteps
<1> QED
  BY <1>1, <1>2, <1>3, LocalSound DEF Pending, Carries, Busy

\* The latest active run of a running task is its latest run.
LEMMA StartSyncActiveSound ==
    ASSUME IInv, NEW p \in Procs, Sound(proc[p], wf, Files), StartSyncActive(p)
    PROVE  Sound(proc'[p], wf', Files')
<1> DEFINE active == {r \in ledger : Active(r) /\ wf.status[r.task] = "running"}
<1>1. /\ proc[p].at = "idle" /\ proc'[p].at = "poll" /\ proc'[p].todo = {}
      /\ proc'[p].polls = {r \in active : \A s \in active : s.task = r.task => s.id <= r.id}
      /\ proc'[p].override = "task" /\ wf' = wf /\ Files' = Files
  BY StartSyncActiveDoes, FilesSame
<1>2. ASSUME NEW rec \in proc'[p].polls
      PROVE  Newest(rec.id, Files)
  <2>1. /\ rec \in ledger /\ wf.status[rec.task] = "running"
        /\ \A s \in active : s.task = rec.task => s.id <= rec.id
    BY <1>1
  <2>2. rec.task \in Tasks /\ \A r \in ledger : r.id \in Nat
    BY <2>1, LedgerKnown, OrchestratorAssumption DEF RunRecord, RunIds
  <2>3. Tracked(rec.task, Files)
    BY <1>1, <2>1, <2>2 DEF Sound, Kept, Pending
  <2>4. PICK o \in ledger :
           /\ o.task = rec.task /\ Active(o)
           /\ \A other \in ledger : other.task = rec.task => other.id <= o.id
    BY <2>3 DEF Tracked, Files
  <2>5. o.id <= rec.id
    BY <2>1, <2>4
  <2>6. \A other \in ledger : other.task = rec.task => other.id <= rec.id
    BY <2>1, <2>2, <2>4, <2>5
  <2> QED
    BY <2>1, <2>6 DEF Newest, Files
<1>3. Tracks(proc'[p], Files)
  BY <1>1, <1>2, QuietTracks DEF LaunchSteps, ReportSteps, CancelSteps
<1>4. Slots(proc'[p]) = {}
  BY <1>1 DEF Slots, LaunchSteps
<1> QED
  BY <1>1, <1>3, <1>4, LocalSound DEF Pending, Carries

LEMMA LoadForSyncSound ==
    ASSUME IInv, NEW p \in Procs, Sound(proc[p], wf, Files), LoadForSync(p)
    PROVE  Sound(proc'[p], wf', Files')
<1>1. /\ proc[p].at = "poll" /\ proc'[p].at = "observe"
      /\ proc'[p].rec \in proc[p].polls
      /\ proc'[p].polls = proc[p].polls \ {proc'[p].rec}
      /\ proc'[p].todo = proc[p].todo /\ proc'[p].override = proc[p].override
      /\ wf' = wf /\ Files' = Files
  BY LoadForSyncDoes, FilesSame
<1>2. Tracks(proc'[p], Files)
  BY <1>1 DEF Sound, Tracks, LaunchSteps, ReportSteps
<1>3. Slots(proc'[p]) \subseteq Slots(proc[p])
  BY <1>1 DEF Slots, LaunchSteps
<1> QED
  BY <1>1, <1>2, <1>3, LocalSound DEF Pending, Carries, Busy

\* A poll that finds the run over has seen the session end.
LEMMA PollIsHonest ==
    ASSUME NEW state \in SessionState, NEW status \in PollOutcome(state),
           status \notin {"accepted", "running"}
    PROVE  state # "running"
BY DEF PollOutcome, mapManagerState, applyArtifactAcceptance, SessionState

LEMMA ObserveSound ==
    ASSUME IInv, NEW p \in Procs, Sound(proc[p], wf, Files), Observe(p)
    PROVE  Sound(proc'[p], wf', Files')
<1>1. /\ proc[p].at = "observe" /\ proc'[p].at = "note" /\ Carried(proc[p], proc'[p])
      /\ proc'[p].rec.id = proc[p].rec.id
      /\ proc'[p].rec.status \in PollOutcome(remote[proc[p].rec.id].state)
      /\ wf' = wf /\ Files' = Files
  BY ObserveDoes, FilesSame
<1>2. remote[proc[p].rec.id].state \in SessionState
  <2>1. proc[p].rec.id \in RunIds
    BY <1>1, TypesAtHand DEF RunSteps, RunRecord
  <2> QED
    BY <2>1 DEF IInv, FilesFit, Files
<1>3. Active(proc'[p].rec) \/ ~LiveIn(proc'[p].rec.id, Files)
  BY <1>1, <1>2, PollIsHonest DEF Active, LiveIn, Files
<1>4. Tracks(proc'[p], Files)
  BY <1>1, <1>3 DEF Sound, Tracks, Carried, LaunchSteps, ReportSteps
<1>5. Slots(proc'[p]) \subseteq Slots(proc[p])
  BY <1>1 DEF Slots, Carried, LaunchSteps
<1> QED
  BY <1>1, <1>4, <1>5, LocalSound DEF Pending, Carries, Busy

LEMMA StartRecoverySound ==
    ASSUME IInv, NEW p \in Procs, Sound(proc[p], wf, Files), NEW rec \in ledger,
           StartRecovery(p, rec)
    PROVE  Sound(proc'[p], wf', Files')
<1>1. /\ proc[p].at = "idle" /\ proc'[p].at = "cancel"
      /\ IsActiveLatestRun(rec, rec.task) /\ proc'[p].rec = rec /\ Rested(proc'[p])
      /\ wf' = wf /\ Files' = Files
  BY StartRecoveryDoes, FilesSame
<1>2. Newest(rec.id, Files)
  BY <1>1 DEF IsActiveLatestRun, IsLatest, Records, Newest, Files
<1>3. Tracks(proc'[p], Files)
  BY <1>1, <1>2 DEF Tracks, Rested, LaunchSteps
<1>4. Slots(proc'[p]) = {}
  BY <1>1 DEF Slots, Rested, LaunchSteps
<1> QED
  BY <1>1, <1>3, <1>4, LocalSound DEF Pending, Carries

LEMMA LoadForCancelSound ==
    ASSUME IInv, NEW p \in Procs, Sound(proc[p], wf, Files), LoadForCancel(p)
    PROVE  Sound(proc'[p], wf', Files')
<1>1. /\ proc[p].at = "load" /\ proc'[p].at = "apply"
      /\ proc'[p].task = proc[p].task /\ proc'[p].rec = proc[p].rec
      /\ proc'[p].todo = proc[p].todo /\ proc'[p].polls = proc[p].polls
      /\ proc'[p].override = proc[p].override
      /\ wf' = wf /\ Files' = Files
  BY LoadForCancelDoes, FilesSame
<1>2. Tracks(proc'[p], Files)
  BY <1>1 DEF Sound, Tracks, LaunchSteps, CancelSteps
<1>3. Slots(proc'[p]) \subseteq Slots(proc[p])
  BY <1>1 DEF Slots, LaunchSteps
<1> QED
  BY <1>1, <1>2, <1>3, LocalSound DEF Pending, Carries, Busy

LEMMA RereadRunSound ==
    ASSUME IInv, NEW p \in Procs, Sound(proc[p], wf, Files), RereadRun(p)
    PROVE  Sound(proc'[p], wf', Files')
<1>1. /\ proc[p].at = "reread" /\ proc'[p].at = "retry" /\ Carried(proc[p], proc'[p])
      /\ wf' = wf /\ Files' = Files
  BY RereadRunDoes, FilesSame
<1>2. Tracks(proc'[p], Files)
  BY <1>1, QuietTracks DEF Sound, Tracks, Carried, LaunchSteps, ReportSteps, CancelSteps
<1>3. Slots(proc'[p]) \subseteq Slots(proc[p])
  BY <1>1 DEF Slots, Carried
<1> QED
  BY <1>1, <1>2, <1>3, LocalSound DEF Pending, Carries, Busy

LEMMA EvaluateRetrySound ==
    ASSUME IInv, NEW p \in Procs, Sound(proc[p], wf, Files), EvaluateRetry(p)
    PROVE  Sound(proc'[p], wf', Files')
<1>1. proc[p].at = "retry" /\ wf' = wf /\ Files' = Files
  BY EvaluateRetryDoes, FilesSame
<1>2. CASE proc'[p].at = "idle" /\ Rested(proc'[p])
  BY <1>1, <1>2, RestedSound
<1>3. CASE ~(proc'[p].at = "idle" /\ Rested(proc'[p]))
  <2>1. /\ proc'[p].at \in {"history", "bury"} /\ proc'[p].task = proc[p].task
        /\ proc'[p].todo = proc[p].todo /\ proc'[p].polls = proc[p].polls
        /\ proc'[p].override = proc[p].override
    BY <1>3, EvaluateRetryDoes
  <2>2. Tracks(proc'[p], Files)
    BY <2>1, QuietTracks DEF Sound, Tracks, LaunchSteps, ReportSteps, CancelSteps
  <2>3. Slots(proc'[p]) \subseteq Slots(proc[p])
    BY <1>1, <2>1 DEF Slots
  <2> QED
    BY <1>1, <2>2, <2>3, LocalSound DEF Pending, Carries, Busy
<1> QED
  BY <1>2, <1>3

LEMMA StartReviewSound ==
    ASSUME IInv, NEW p \in Procs, Sound(proc[p], wf, Files), NEW t \in wf.reviewQueue,
           NEW decision \in ReviewDecision, StartReview(p, t, decision)
    PROVE  Sound(proc'[p], wf', Files')
<1>1. t \in Tasks
  BY TypesAtHand DEF Workflow
<1>2. /\ proc[p].at = "idle" /\ proc'[p].at = "decide" /\ Rested(proc'[p])
      /\ wf' = wf /\ Files' = Files
  BY <1>1, StartReviewDoes, FilesSame
<1> QED
  BY <1>2, RestedSound

LEMMA RuntimeCallFailsSound ==
    ASSUME IInv, NEW p \in Procs, Sound(proc[p], wf, Files), RuntimeCallFails(p)
    PROVE  Sound(proc'[p], wf', Files')
<1>1. /\ proc[p].at \in {"spawn", "observe", "cancel"} /\ proc'[p].at = "idle"
      /\ Rested(proc'[p]) /\ wf' = wf /\ Files' = Files
  BY RuntimeCallFailsDoes, FilesSame
<1> QED
  BY <1>1, RestedSound

----------------------------------------------------------------------------
\* A batch takes no more slots than there are.

LEMMA FewCandidates ==
    ASSUME NEW status, NEW n \in Nat
    PROVE  /\ IsFiniteSet(FirstCandidates(status, n))
           /\ Cardinality(FirstCandidates(status, n)) <= n
<1> DEFINE D == DispatchableTasks(status)
           Before(t) == {u \in D : Precedes(status, u, t)}
           F == FirstCandidates(status, n)
           rank == [t \in F |-> Cardinality(Before(t))]
<1>1. D \subseteq Tasks /\ IsFiniteSet(D)
  <2>1. D \subseteq Tasks
    BY DEF DispatchableTasks, QueuedTasks, RunnableTasks
  <2>2. IsFiniteSet(Tasks)
    BY FS_Interval, TaskGraphAssumption DEF Tasks
  <2> QED
    BY <2>1, <2>2, FS_Subset
<1>2. \A t \in F : t \in D /\ Cardinality(Before(t)) < n
  BY Zenon DEF FirstCandidates
<1> HIDE DEF D, F
<1>3. \A t \in D : IsFiniteSet(Before(t)) /\ Cardinality(Before(t)) \in Nat
  <2>1. \A t \in D : Before(t) \subseteq D
    OBVIOUS
  <2> QED
    BY <1>1, <2>1, FS_Subset, FS_CardinalityType
<1>4. ASSUME NEW a \in D, NEW b \in D, Precedes(status, a, b)
      PROVE  Cardinality(Before(a)) < Cardinality(Before(b))
  <2>1. a \in Nat /\ b \in Nat /\ \A u \in D : u \in Nat
    BY <1>1 DEF Tasks
  <2>2. ASSUME NEW u \in Before(a)
        PROVE  u \in Before(b)
    <3>1. u \in D /\ Precedes(status, u, a) /\ u \in Nat
      BY <2>1
    <3>2. Precedes(status, u, b)
      BY <1>4, <2>1, <3>1 DEF Precedes
    <3> QED
      BY <3>1, <3>2
  <2>3. a \in Before(b) /\ a \notin Before(a)
    BY <1>4, <2>1 DEF Precedes
  <2>4. Before(a) # Before(b)
    BY <2>3
  <2> QED
    BY <1>3, <2>2, <2>4, FS_Subset
<1>5. \A a, b \in D : a # b => Precedes(status, a, b) \/ Precedes(status, b, a)
  <2>1. \A u \in D : u \in Nat
    BY <1>1 DEF Tasks
  <2> QED
    BY <2>1 DEF Precedes
<1>6. \A a, b \in D : a # b => Cardinality(Before(a)) # Cardinality(Before(b))
  <2> HIDE DEF Before
  <2> SUFFICES ASSUME NEW a \in D, NEW b \in D, a # b
               PROVE  Cardinality(Before(a)) # Cardinality(Before(b))
    OBVIOUS
  <2>1. Cardinality(Before(a)) \in Nat /\ Cardinality(Before(b)) \in Nat
    BY <1>3
  <2>2. \/ Cardinality(Before(a)) < Cardinality(Before(b))
        \/ Cardinality(Before(b)) < Cardinality(Before(a))
    BY <1>4, <1>5
  <2> QED
    BY <2>1, <2>2
<1> HIDE DEF Before
<1>7. IsFiniteSet(0..(n-1)) /\ Cardinality(0..(n-1)) = n
  BY FS_Interval
<1>8. rank \in Injection(F, 0..(n-1))
  <2>1. \A t \in F : t \in D /\ Cardinality(Before(t)) \in 0..(n-1)
    BY <1>2, <1>3
  <2> QED
    BY <1>6, <2>1 DEF Injection, IsInjective
<1> HIDE DEF rank
<1>9. IsFiniteSet(F) /\ Cardinality(F) <= n
  BY <1>7, <1>8, FS_Injection DEF ExistsInjection
<1> QED
  BY <1>9 DEF F

LEMMA StartBatchSound ==
    ASSUME IInv, NEW p \in Procs, Sound(proc[p], wf, Files), NEW n \in Tasks,
           StartBatch(p, n, "task")
    PROVE  Sound(proc'[p], wf', Files')
<1> DEFINE slots    == AvailableSlots(wf.status, MaxConcurrent)
           k        == IF n < slots THEN n ELSE slots
           admitted == FirstCandidates(wf.status, k)
           active   == ActiveTasks(wf.status)
<1>1. /\ proc[p].at = "idle" /\ proc'[p].at \in {"pick", "reload", "idle"}
      /\ proc'[p].todo = admitted /\ proc'[p].polls = {} /\ proc'[p].override = "task"
      /\ wf' = wf /\ Files' = Files
  BY StartBatchDoes, FilesSame
<1>2. Tracks(proc'[p], Files)
  BY <1>1, QuietTracks DEF LaunchSteps, ReportSteps, CancelSteps
<1>3. Kept(proc'[p], wf, Files)
  BY <1>1, LocalKept DEF Sound, Pending, Carries
<1>4. /\ IsFiniteSet(active) /\ Cardinality(active) \in Nat
      /\ Cardinality(active) <= MaxConcurrent
  <2>1. active \subseteq Busy(proc[p], wf)
    BY DEF Busy
  <2>2. IsFiniteSet(Busy(proc[p], wf)) /\ Cardinality(Busy(proc[p], wf)) \in Nat
    BY ActiveInTasks
  <2>3. IsFiniteSet(active) /\ Cardinality(active) <= Cardinality(Busy(proc[p], wf))
    BY <2>1, <2>2, FS_Subset
  <2>4. Cardinality(active) \in Nat
    BY <2>3, FS_CardinalityType
  <2> QED
    BY <2>2, <2>3, <2>4, OrchestratorAssumption DEF Sound, Within
<1>5. slots \in Nat /\ slots + Cardinality(active) <= MaxConcurrent
  <2> DEFINE c == Cardinality(active)
  <2>1. slots = IF c >= MaxConcurrent THEN 0 ELSE MaxConcurrent - c
    BY DEF AvailableSlots
  <2>2. c \in Nat /\ c <= MaxConcurrent
    BY <1>4
  <2> HIDE DEF slots, c
  <2>3. slots \in Nat /\ slots + c <= MaxConcurrent
    BY <2>1, <2>2, OrchestratorAssumption
  <2> QED
    BY <2>3 DEF c
<1>6. k \in Nat /\ k <= slots
  <2>1. n \in Nat
    BY DEF Tasks
  <2> HIDE DEF slots
  <2> QED
    BY <1>5, <2>1
<1> HIDE DEF slots, k, active
<1>7. IsFiniteSet(admitted) /\ Cardinality(admitted) \in Nat /\ Cardinality(admitted) <= k
  BY <1>6, FewCandidates, FS_CardinalityType
<1> HIDE DEF admitted
<1>8. Busy(proc'[p], wf) = active \union (admitted \intersect AcpTasks)
  BY <1>1 DEF Busy, Slots, LaunchSteps, active
<1>9. /\ IsFiniteSet(admitted \intersect AcpTasks)
      /\ Cardinality(admitted \intersect AcpTasks) \in Nat
      /\ Cardinality(admitted \intersect AcpTasks) <= Cardinality(admitted)
  <2>1. admitted \intersect AcpTasks \subseteq admitted
    OBVIOUS
  <2> QED
    BY <1>7, <2>1, FS_Subset, FS_CardinalityType
<1>10. Within(proc'[p], wf)
  <2> DEFINE both == active \intersect (admitted \intersect AcpTasks)
  <2>1. /\ Cardinality(Busy(proc'[p], wf)) =
              Cardinality(active) + Cardinality(admitted \intersect AcpTasks)
                 - Cardinality(both)
        /\ Cardinality(both) \in Nat
    <3>1. both \subseteq active
      OBVIOUS
    <3> QED
      BY <1>4, <1>8, <1>9, <3>1, FS_Union, FS_Subset, FS_CardinalityType
  <2> HIDE DEF both
  <2>2. Cardinality(Busy(proc'[p], wf)) \in Nat
    BY ActiveInTasks
  <2> QED
    BY <1>4, <1>5, <1>6, <1>7, <1>9, <2>1, <2>2, OrchestratorAssumption DEF Within
<1> QED
  BY <1>1, <1>2, <1>3, <1>10 DEF Sound

----------------------------------------------------------------------------
\* Steps that write a record, start a session, or see one end.

\* The record in the process's hands, and what Fresh says of its task.
LEMMA RecordAtHand ==
    ASSUME IInv, NEW p \in Procs, proc[p].at \in RunSteps
    PROVE  /\ FilesFit(Files) /\ proc[p].task \in Tasks
           /\ Spawned(proc[p].rec, Files) /\ proc[p].rec.task = proc[p].task
           /\ OwnRunners(Files) => proc[p].task \in AcpTasks
<1>1. LocalsFit(proc[p], Files) /\ Known(proc[p].rec, Files) /\ proc[p].rec.task = proc[p].task
  BY DEF IInv, LocalsFit
<1>2. proc[p].at \in TaskSteps
  BY DEF RunSteps, TaskSteps, Step
<1>3. OwnRunners(Files) => proc[p].task \in AcpTasks
  BY <1>1 DEF Known, RecordsIn, OwnRunners
<1> QED
  BY <1>1, <1>2, <1>3 DEF IInv, LocalsFit, Known

LEMMA SpawnSessionSound ==
    ASSUME IInv, NEW p \in Procs, Sound(proc[p], wf, Files), SpawnSession(p)
    PROVE  Sound(proc'[p], wf', Files')
<1> DEFINE k == proc[p]
           l == proc'[p]
           f == Files
           g == Files'
<1>1. /\ k.at = "spawn" /\ l.at = "record" /\ Carried(k, l) /\ wf' = wf
      /\ nextRun \in RunIds /\ l.rec.id = nextRun /\ l.rec.task = k.task
      /\ l.rec.status = "accepted"
  BY SpawnSessionDoes
<1>2. /\ g.ledger = f.ledger /\ g.manualAt = f.manualAt /\ g.nextRun = f.nextRun + 1
      /\ g.nextRun - 1 = nextRun
      /\ \A r \in RunIds : r # nextRun => g.remote[r] = f.remote[r]
  <2>1. nextRun \in Nat
    BY <1>1, OrchestratorAssumption DEF RunIds
  <2>2. \A r \in RunIds : r # nextRun => remote'[r] = remote[r]
    BY SpawnSessionDoes DEF IInv, FilesFit, Files
  <2> QED
    BY <2>1, <2>2, SpawnSessionDoes DEF Files
<1>3. k.runner = "acp" <=> k.task \in AcpTasks
  BY <1>1 DEF Sound, Tracks, LaunchSteps
<1>4. k.runner = "acp"
  BY <1>1 DEF Sound, Tracks
<1> HIDE DEF k, l, f, g
<1>5. OwnRunners(g)
  BY <1>2 DEF Sound, OwnRunners, f, k
<1>6. Kept(l, wf, g)
  <2>1. Kept(k, wf, f)
    BY DEF Sound, k, f
  <2>2. \A r \in RunIds : ~Carries(k, r) /\ (r = nextRun => Carries(l, r))
    BY <1>1, <1>4 DEF Carries, Carried
  <2>3. \A t \in Tasks : ~Pending(k, t)
    BY <1>1 DEF Pending
  <2> QED
    BY <1>2, <2>1, <2>2, <2>3 DEF Kept, LiveIn, Newest, Tracked
<1>7. Tracks(l, g)
  <2>1. Tracks(k, f)
    BY DEF Sound, k, f
  <2> QED
    BY <1>1, <1>2, <1>3, <2>1 DEF Tracks, Carried, Newest, LaunchSteps, ReportSteps, CancelSteps
<1>8. Within(l, wf)
  <2>1. Slots(l) \subseteq Slots(k)
    BY <1>1 DEF Slots, Carried, LaunchSteps
  <2> QED
    BY <2>1, NarrowerWithin DEF Busy, Sound, k
<1> QED
  BY <1>1, <1>5, <1>6, <1>7, <1>8 DEF Sound, l, g

LEMMA RecordRunSound ==
    ASSUME IInv, NEW p \in Procs, Fresh(proc[p], wf), Sound(proc[p], wf, Files), RecordRun(p)
    PROVE  Sound(proc'[p], wf', Files')
<1> DEFINE k == proc[p]
           l == proc'[p]
           f == Files
           g == Files'
<1>1. /\ k.at = "record" /\ k.runner = "acp" /\ l.at = "commit" /\ l.rec = k.rec
      /\ Carried(k, l) /\ wf' = wf /\ Written(k.rec, f, g)
  BY RecordRunDoes, WriteRunWrites
<1>2. /\ k.task \in DispatchableTasks(wf.status) /\ k.polls = {}
      /\ FilesFit(f) /\ Spawned(k.rec, f) /\ k.rec.task = k.task
  BY <1>1 DEF Fresh, LaunchSteps, ReportSteps, IInv, LocalsFit
<1>3. /\ k.task \in AcpTasks /\ k.rec.id = f.nextRun - 1 /\ OwnRunners(f) /\ Kept(k, wf, f)
      /\ k.override = "task" /\ k.rec.status = "accepted"
  BY <1>1 DEF Sound, Tracks, LaunchSteps
<1>4. wf.status[k.task] # "running"
  BY <1>2, DispatchableIsNotDone
<1> HIDE DEF k, l, f, g
<1>5. OwnRunners(g)
  BY <1>1, <1>2, <1>3, WriteOwn
<1>6. Kept(l, wf, g)
  <2>1. \A r \in RunIds : Carries(k, r) => Carries(l, r)
    BY <1>1 DEF Carries, Carried
  <2>2. \A t \in Tasks : ~Pending(k, t)
    BY <1>1 DEF Pending
  <2> QED
    BY <1>1, <1>2, <1>3, <1>4, <2>1, <2>2, WriteKept
<1>7. k.rec \in g.ledger /\ Newest(k.rec.id, g)
  <2>1. \A o \in f.ledger : o.id <= k.rec.id
    <3>1. f.nextRun \in Nat /\ \A o \in f.ledger : o.id \in Nat /\ o.id < f.nextRun
      BY <1>2, OrchestratorAssumption DEF FilesFit, Spawned, RunRecord, RunIds
    <3> QED
      BY <1>3, <3>1
  <2>2. k.rec.id \in Nat
    BY <1>2, OrchestratorAssumption DEF Spawned, RunRecord, RunIds
  <2>3. k.rec \in g.ledger /\ \A o \in g.ledger : o.id <= k.rec.id
    BY <1>1, <2>1, <2>2 DEF Written
  <2> QED
    BY <2>3 DEF Newest
<1>8. Tracks(l, g)
  BY <1>1, <1>2, <1>3, <1>7 DEF Tracks, Carried, Written, LaunchSteps, ReportSteps, CancelSteps
<1>9. Within(l, wf)
  <2>1. Slots(l) \subseteq Slots(k)
    BY <1>1 DEF Slots, Carried, LaunchSteps
  <2> QED
    BY <2>1, NarrowerWithin DEF Busy, Sound, k
<1> QED
  BY <1>1, <1>5, <1>6, <1>8, <1>9 DEF Sound, l, g

LEMMA RecordManualRunSound ==
    ASSUME IInv, NEW p \in Procs, Sound(proc[p], wf, Files), RecordManualRun(p)
    PROVE  Sound(proc'[p], wf', Files')
<1> DEFINE k == proc[p]
           l == proc'[p]
           f == Files
           g == Files'
<1>1. /\ k.at = "record" /\ k.runner = "manual" /\ l.at = "commit" /\ Carried(k, l)
      /\ wf' = wf /\ g.ledger = f.ledger /\ g.remote = f.remote /\ g.nextRun = f.nextRun
  BY RecordManualRunDoes DEF Files
<1>2. k.task \notin AcpTasks
  BY <1>1 DEF Sound, Tracks, LaunchSteps
<1>3. \A t \in Tasks : t # k.task => manualAt'[t] = manualAt[t]
  BY RecordManualRunDoes DEF IInv, FilesFit, Files
<1>4. OwnRunners(g)
  <2>1. \A t \in AcpTasks : t \in Tasks /\ t # k.task
    BY <1>2, TaskGraphAssumption
  <2> QED
    BY <1>1, <1>3, <2>1 DEF Sound, OwnRunners, Files
<1> HIDE DEF k, l, f, g
<1>5. Kept(l, wf, g)
  <2>1. Kept(k, wf, f)
    BY DEF Sound, k, f
  <2>2. \A r \in RunIds : ~Carries(k, r)
    BY <1>1 DEF Carries
  <2>3. \A t \in Tasks : ~Pending(k, t)
    BY <1>1 DEF Pending
  <2> QED
    BY <1>1, <2>1, <2>2, <2>3 DEF Kept, LiveIn, Newest, Tracked
<1>6. Tracks(l, g)
  <2>1. Tracks(k, f)
    BY DEF Sound, k, f
  <2> QED
    BY <1>1, <1>2, <2>1 DEF Tracks, Carried, Newest, LaunchSteps, ReportSteps, CancelSteps
<1>7. Within(l, wf)
  <2>1. Slots(l) \subseteq Slots(k)
    BY <1>1 DEF Slots, Carried, LaunchSteps
  <2> QED
    BY <2>1, NarrowerWithin DEF Busy, Sound, k
<1> QED
  BY <1>1, <1>4, <1>5, <1>6, <1>7 DEF Sound, l, g

\* The record of a run that is written again is still that of the latest run.
LEMMA RewriteSound ==
    ASSUME NEW k, NEW l, NEW w, NEW f, NEW g, FilesFit(f), Sound(k, w, f),
           Spawned(l.rec, f), Written(l.rec, f, g), l.rec.task \in AcpTasks,
           l.rec.id = k.rec.id, l.rec.task = k.task, Carried(k, l),
           \/ /\ k.at = "note" /\ l.at = "settle" /\ l.rec = k.rec
           \/ /\ k.at = "stamp" /\ l.at = "load"
    PROVE  Sound(l, w, g)
<1>1. Newest(l.rec.id, f)
  BY DEF Sound, Tracks, ReportSteps, CancelSteps
<1>2. OwnRunners(g)
  BY WriteOwn DEF Sound
<1>3. Kept(l, w, g)
  <2>1. \A r \in RunIds : ~Carries(k, r)
    BY DEF Carries
  <2>2. (\A t \in Tasks : ~Pending(k, t)) /\ Pending(l, l.rec.task)
    BY DEF Pending, Carried
  <2> QED
    BY <1>1, <2>1, <2>2, WriteKept DEF Sound
<1>4. /\ Newest(l.rec.id, g) /\ l.rec \in g.ledger
      /\ \A rec \in l.polls : Newest(rec.id, g)
  <2>1. \A rec \in l.polls : Newest(rec.id, f)
    BY DEF Sound, Tracks, Carried
  <2> QED
    BY <1>1, <2>1, WriteNewest DEF Written
<1>5. Tracks(l, g)
  BY <1>4 DEF Sound, Tracks, Carried, Written, LiveIn, LaunchSteps, ReportSteps, CancelSteps
<1>6. Within(l, w)
  <2>1. Slots(l) \subseteq Slots(k)
    BY DEF Slots, Carried, LaunchSteps
  <2> QED
    BY <2>1, NarrowerWithin DEF Busy, Sound
<1> QED
  BY <1>2, <1>3, <1>5, <1>6 DEF Sound

LEMMA NoteSyncedSound ==
    ASSUME IInv, NEW p \in Procs, Sound(proc[p], wf, Files), NoteSynced(p)
    PROVE  Sound(proc'[p], wf', Files')
<1>1. /\ proc[p].at = "note" /\ proc'[p].at = "settle" /\ Carried(proc[p], proc'[p])
      /\ proc'[p].rec = proc[p].rec /\ Written(proc[p].rec, Files, Files') /\ wf' = wf
  BY NoteSyncedDoes, WriteRunWrites
<1>2. /\ FilesFit(Files) /\ Spawned(proc[p].rec, Files)
      /\ proc[p].rec.task = proc[p].task /\ proc[p].task \in AcpTasks
  BY <1>1, RecordAtHand DEF RunSteps, Sound
<1> QED
  BY <1>1, <1>2, RewriteSound

LEMMA StampRunSound ==
    ASSUME IInv, NEW p \in Procs, Sound(proc[p], wf, Files), StampRun(p)
    PROVE  Sound(proc'[p], wf', Files')
<1>1. /\ proc[p].at = "stamp" /\ proc'[p].at = "load" /\ Carried(proc[p], proc'[p])
      /\ proc'[p].rec.id = proc[p].rec.id /\ proc'[p].rec.task = proc[p].rec.task
      /\ Written(proc'[p].rec, Files, Files') /\ wf' = wf
  BY StampRunDoes, WriteRunWrites
<1>2. /\ FilesFit(Files) /\ Spawned(proc[p].rec, Files)
      /\ proc[p].rec.task = proc[p].task /\ proc[p].task \in AcpTasks
  BY <1>1, RecordAtHand DEF RunSteps, Sound
<1>3. proc'[p].rec \in RunRecord
  <2>1. IInv'
    BY StampRunKeeps
  <2> QED
    BY <1>1, <2>1 DEF IInv, LocalsFit, RunSteps, Known, Spawned
<1>4. Spawned(proc'[p].rec, Files)
  BY <1>1, <1>2, <1>3 DEF Spawned
<1> QED
  BY <1>1, <1>2, <1>4, RewriteSound

LEMMA WriteHistorySound ==
    ASSUME IInv, NEW p \in Procs, Fresh(proc[p], wf), Sound(proc[p], wf, Files),
           WriteHistory(p)
    PROVE  Sound(proc'[p], wf', Files')
<1> DEFINE k == proc[p]
           l == proc'[p]
           f == Files
           g == Files'
<1>1. /\ k.at = "history" /\ l.at = "rearm" /\ Carried(k, l)
      /\ Written(k.rec, f, g) /\ wf' = wf
  BY WriteHistoryDoes, WriteRunWrites
<1>2. /\ FilesFit(f) /\ Spawned(k.rec, f) /\ k.rec.task = k.task /\ k.task \in AcpTasks
  BY <1>1, RecordAtHand DEF RunSteps, Sound
<1>3. wf.status[k.task] # "running" /\ k.polls = {}
  BY <1>1 DEF Fresh, RetrySteps, ReportSteps
<1>4. OwnRunners(f) /\ Kept(k, wf, f) /\ k.override = "task" /\ Within(k, wf)
  BY DEF Sound, Tracks
<1> HIDE DEF k, l, f, g
<1>5. OwnRunners(g)
  BY <1>1, <1>2, <1>4, WriteOwn
<1>6. Kept(l, wf, g)
  <2>1. (\A r \in RunIds : ~Carries(k, r)) /\ \A t \in Tasks : ~Pending(k, t)
    BY <1>1 DEF Carries, Pending
  <2> QED
    BY <1>1, <1>2, <1>3, <1>4, <2>1, WriteKept
<1>7. Tracks(l, g)
  BY <1>1, <1>3, <1>4, QuietTracks DEF Carried, LaunchSteps, ReportSteps, CancelSteps
<1>8. Within(l, wf)
  <2>1. Slots(l) \subseteq Slots(k)
    BY <1>1 DEF Slots, Carried
  <2> QED
    BY <1>4, <2>1, NarrowerWithin DEF Busy
<1> QED
  BY <1>1, <1>5, <1>6, <1>7, <1>8 DEF Sound, l, g

\* Sessions end by themselves,
LEMMA EndedSound ==
    ASSUME NEW k, NEW w, NEW f, NEW g, Sound(k, w, f), Ended(f, g), FilesFit(f),
           k.at \in RunSteps => k.rec.id \in RunIds
    PROVE  Sound(k, w, g)
<1>1. Kept(k, w, g)
  BY EndedKept DEF Sound
<1>2. Tracks(k, g)
  BY DEF Sound, Tracks, Ended, Newest, RunSteps
<1> QED
  BY <1>1, <1>2 DEF Sound, OwnRunners, Ended

LEMMA SessionEndsSound ==
    ASSUME IInv, NEW r \in RunIds, SessionEnds(r), NEW p \in Procs, Sound(proc[p], wf, Files)
    PROVE  Sound(proc'[p], wf', Files')
<1>1. remote \in [RunIds -> [task : Tasks \union {0}, state : SessionState]]
  BY DEF IInv, FilesFit, Files
<1>2. Ended(Files, Files')
  BY <1>1 DEF SessionEnds, Ended, LiveIn, Files
<1>3. proc[p].at \in RunSteps => proc[p].rec.id \in RunIds
  BY RecordAtHand DEF Spawned, RunRecord
<1>4. wf' = wf /\ proc' = proc /\ FilesFit(Files)
  BY DEF SessionEnds, IInv
<1> QED
  BY <1>2, <1>3, <1>4, EndedSound

\* or because they are cancelled.
LEMMA CancelSessionSound ==
    ASSUME IInv, NEW p \in Procs, Sound(proc[p], wf, Files), CancelSession(p)
    PROVE  Sound(proc'[p], wf', Files')
<1>1. /\ proc[p].at = "cancel" /\ proc'[p].at = "stamp" /\ Carried(proc[p], proc'[p])
      /\ proc'[p].rec = proc[p].rec /\ wf' = wf
  BY CancelSessionDoes
<1>2. PICK state \in SessionState \ {"running"} :
         remote' = [remote EXCEPT ![proc[p].rec.id].state = state]
  BY CancelSessionDoes
<1>3. proc[p].rec.id \in RunIds
  BY <1>1, RecordAtHand DEF RunSteps, Spawned, RunRecord
<1>4. remote \in [RunIds -> [task : Tasks \union {0}, state : SessionState]]
  BY DEF IInv, FilesFit, Files
<1>5. Ended(Files, Files')
  BY <1>2, <1>4, CancelSessionDoes DEF Ended, LiveIn, Files
<1>6. ~LiveIn(proc[p].rec.id, Files')
  BY <1>2, <1>3, <1>4 DEF LiveIn, Files
<1>7. Sound(proc[p], wf, Files')
  BY <1>3, <1>5, EndedSound DEF IInv
<1> DEFINE g == Files'
<1>8. Tracks(proc'[p], g)
  BY <1>1, <1>6, <1>7 DEF Sound, Tracks, Carried, LaunchSteps, CancelSteps
<1>9. Slots(proc'[p]) \subseteq Slots(proc[p])
  BY <1>1 DEF Slots, Carried, LaunchSteps
<1> HIDE DEF g
<1>10. Sound(proc'[p], wf, g)
  BY <1>1, <1>7, <1>8, <1>9, LocalSound DEF Pending, Carries, Busy, g
<1> QED
  BY <1>1, <1>10 DEF g

----------------------------------------------------------------------------
\* Steps that save the workflow.

\* The task that an operation is about ends up where it was moved.
LEMMA MovesTo ==
    ASSUME NEW w \in Workflow, NEW v, NEW t \in Tasks,
           NEW next \in TaskStatus \ {"planned"}, Moves(w, v, t, next)
    PROVE  v.status[t] = next
<1> DEFINE mid == [w.status EXCEPT ![t] = next]
<1>1. mid \in [Tasks -> TaskStatus] /\ mid[t] = next
  BY DEF Workflow
<1>2. v.status = mid \/ v.status = UpsertTaskStatuses(mid)
  BY DEF Moves
<1> HIDE DEF mid
<1> QED
  BY <1>1, <1>2, UpsertKeeps

LEMMA DispatchRuns ==
    ASSUME NEW w \in Workflow, NEW t \in Tasks, NEW runner \in {"acp", "manual"}
    PROVE  LET v == Dispatched(w, t, runner)
           IN  /\ v.status[t] = "running" <=> runner = "acp"
               /\ runner = "acp" => t \notin v.reviewQueue
<1> DEFINE v    == Dispatched(w, t, runner)
           next == IF runner = "acp" THEN "running"
                   ELSE IF t \in ReviewRequired THEN "review_required" ELSE "done"
           mid  == [w.status EXCEPT ![t] = next]
<1>1. /\ v.status = UpsertTaskStatuses(mid)
      /\ v.reviewQueue = IF next = "review_required" THEN w.reviewQueue \union {t}
                         ELSE w.reviewQueue \ {t}
  BY DEF Dispatched, Workflow
<1>2. mid \in [Tasks -> TaskStatus] /\ mid[t] = next /\ next # "planned"
  BY DEF Workflow, TaskStatus
<1> HIDE DEF v, mid
<1>3. v.status[t] = next
  BY <1>1, <1>2, UpsertKeeps
<1>4. /\ v.status[t] = "running" <=> runner = "acp"
      /\ runner = "acp" => t \notin v.reviewQueue
  BY <1>1, <1>3
<1> QED
  BY <1>4 DEF v

LEMMA ReportRuns ==
    ASSUME NEW w \in Workflow, NEW t \in Tasks, NEW s \in RunStatus
    PROVE  LET v == ApplyRunStatus(w, t, s)
           IN  /\ s \in {"accepted", "running"} => v.reviewQueue = w.reviewQueue
               /\ s \notin {"accepted", "running"} => v.status[t] # "running"
<1>1. RunActive(w, t).reviewQueue = w.reviewQueue
  BY DEF RunActive, Workflow
<1>2. RunFailed(w, t).status[t] # "running" /\ RunCancelled(w, t).status[t] # "running"
  BY DEF RunFailed, RunCancelled, Workflow
<1>3. RunCompleted(w, t).status[t] # "running"
  <2> DEFINE next == IF t \in ReviewRequired THEN "review_required" ELSE "done"
             mid  == [w.status EXCEPT ![t] = next]
  <2>1. RunCompleted(w, t).status = UpsertTaskStatuses(mid)
    BY DEF RunCompleted, Workflow
  <2>2. mid \in [Tasks -> TaskStatus] /\ mid[t] = next /\ next \notin {"planned", "running"}
    BY DEF Workflow, TaskStatus
  <2> HIDE DEF mid
  <2> QED
    BY <2>1, <2>2, UpsertKeeps
<1> QED
  BY <1>1, <1>2, <1>3 DEF ApplyRunStatus, RunStatus

\* No task begins to run but one that had a slot.
LEMMA TouchesWithin ==
    ASSUME NEW k, NEW l, NEW w, NEW v, NEW t \in Tasks, Touches(w, v, t), Within(k, w),
           v.status[t] = "running" => w.status[t] = "running" \/ t \in Slots(k),
           Slots(l) \intersect AcpTasks \subseteq Busy(k, w)
    PROVE  Within(l, v)
<1>1. ActiveTasks(v.status) \subseteq Busy(k, w)
  BY DEF ActiveTasks, Touches, Busy
<1>2. Busy(l, v) \subseteq Busy(k, w)
  BY <1>1 DEF Busy
<1> QED
  BY <1>2, NarrowerWithin

\* The session of a run that is over was the only one of its task.
LEMMA NobodyElse ==
    ASSUME NEW k, NEW w, NEW f, FilesFit(f), Kept(k, w, f), NEW rec, Spawned(rec, f),
           Newest(rec.id, f), ~LiveIn(rec.id, f), NEW r \in RunIds, ~Carries(k, r),
           f.remote[r].task = rec.task
    PROVE  ~LiveIn(r, f)
<1> SUFFICES ASSUME LiveIn(r, f)
             PROVE  FALSE
  OBVIOUS
<1>1. PICK a \in f.ledger : /\ a.id = r
                            /\ \A other \in f.ledger : other.task = a.task => other.id <= r
  BY DEF Kept, Newest
<1>2. PICK b \in f.ledger :
         /\ b.id = rec.id
         /\ \A other \in f.ledger : other.task = b.task => other.id <= rec.id
  BY DEF Newest
<1>3. a.task = rec.task /\ b.task = rec.task
  BY <1>1, <1>2 DEF FilesFit, Spawned
<1>4. r <= rec.id /\ rec.id <= r /\ r \in Nat /\ rec.id \in Nat
  BY <1>1, <1>2, <1>3, OrchestratorAssumption DEF Spawned, RunRecord, RunIds
<1> QED
  BY <1>4

\* A workflow is saved in which t does not run and has no session at work.
LEMMA StopKept ==
    ASSUME NEW k, NEW l, NEW w, NEW v, NEW f, FilesFit(f), Kept(k, w, f),
           NEW t \in Tasks, Touches(w, v, t), v.status[t] # "running",
           \A r \in RunIds : f.remote[r].task = t => ~LiveIn(r, f),
           \A r \in RunIds : ~Carries(k, r),
           \A u \in Tasks : Pending(k, u) => u = t
    PROVE  Kept(l, v, f)
BY SaveKept

LEMMA CommitDispatchSound ==
    ASSUME IInv, NEW p \in Procs, Fresh(proc[p], wf), Sound(proc[p], wf, Files),
           CommitDispatch(p)
    PROVE  Sound(proc'[p], wf', Files')
<1> DEFINE k == proc[p]
           l == proc'[p]
           f == Files
           t == k.task
<1>1. /\ k.at = "commit" /\ l.at \in {"pick", "reload", "idle"} /\ l.todo = k.todo
      /\ wf' = Dispatched(wf, t, k.runner) /\ l.polls = {}
      /\ l.override \in {k.override, "task"} /\ Files' = f
  BY CommitDispatchDoes, FilesSame DEF Fresh, SaveSteps, LaunchSteps
<1>2. /\ t \in DispatchableTasks(wf.status) /\ wf \in Workflow /\ t \in Tasks
      /\ wf.status[t] # "running" /\ k.runner \in {"acp", "manual"} /\ FilesFit(f)
  BY <1>1, TypesAtHand, DispatchableIsNotDone DEF Fresh, LaunchSteps, Locals, IInv
<1>3. /\ OwnRunners(f) /\ Kept(k, wf, f) /\ k.override = "task" /\ Within(k, wf)
      /\ k.runner = "acp" =>
            /\ k.rec \in f.ledger /\ Newest(k.rec.id, f)
            /\ k.rec.task = t /\ k.rec.status = "accepted"
  BY <1>1 DEF Sound, Tracks, LaunchSteps
<1> HIDE DEF k, l, f, t
<1>4. Touches(wf, wf', t)
  BY <1>1, <1>2, DispatchMoves, MovesTouch
<1>5. /\ wf'.status[t] = "running" <=> k.runner = "acp"
      /\ k.runner = "acp" => t \notin wf'.reviewQueue
  BY <1>1, <1>2, DispatchRuns
<1>6. k.runner = "acp" => Tracked(t, f) /\ f.remote[k.rec.id].task = t
  <2> SUFFICES ASSUME k.runner = "acp"
               PROVE  Tracked(t, f) /\ f.remote[k.rec.id].task = t
    OBVIOUS
  <2>1. k.rec \in f.ledger /\ k.rec.task = t /\ Active(k.rec)
    BY <1>3 DEF Active
  <2>2. \A rec \in f.ledger : rec.id = k.rec.id => rec = k.rec
    BY <1>2, <2>1 DEF FilesFit
  <2>3. \A other \in f.ledger : other.task = t => other.id <= k.rec.id
    BY <1>3, <2>1, <2>2 DEF Newest
  <2> QED
    BY <1>2, <2>1, <2>3 DEF Tracked, FilesFit, Spawned
<1>7. Kept(l, wf', f)
  <2>1. \A u \in Tasks : ~Pending(k, u)
    BY <1>1 DEF Pending
  <2>2. ASSUME NEW r \in RunIds, LiveIn(r, f), f.remote[r].task = t
        PROVE  wf'.status[t] = "running" /\ Newest(r, f)
    <3>1. Carries(k, r)
      BY <1>2, <1>3, <2>2 DEF Kept
    <3> QED
      BY <1>3, <1>5, <3>1 DEF Carries
  <2>3. \A r \in RunIds : Carries(k, r) => f.remote[r].task = t
    BY <1>6 DEF Carries
  <2> QED
    BY <1>2, <1>3, <1>4, <1>5, <1>6, <2>1, <2>2, <2>3, SaveKept
<1>8. Tracks(l, f)
  BY <1>1, <1>3, QuietTracks DEF LaunchSteps, ReportSteps, CancelSteps
<1>9. t \in Slots(k) /\ Slots(l) \subseteq Slots(k)
  BY <1>1 DEF Slots, LaunchSteps, t
<1>10. Within(l, wf')
  BY <1>2, <1>3, <1>4, <1>9, TouchesWithin DEF Busy
<1> QED
  BY <1>1, <1>3, <1>7, <1>8, <1>10 DEF Sound, l, f

LEMMA EnqueueOverflowSound ==
    ASSUME IInv, NEW p \in Procs, Fresh(proc[p], wf), Sound(proc[p], wf, Files),
           EnqueueOverflow(p)
    PROVE  Sound(proc'[p], wf', Files')
<1>1. /\ proc[p].at = "enqueue" /\ proc'[p].at = "idle" /\ Rested(proc'[p])
      /\ wf' = MarkQueued(wf, proc[p].overflow) /\ Files' = Files
  BY EnqueueOverflowDoes, FilesSame DEF Fresh, SaveSteps
<1>2. wf'.reviewQueue = wf.reviewQueue /\ wf \in Workflow
  BY <1>1, TypesAtHand DEF MarkQueued, Workflow
<1>3. \A t \in Tasks : wf'.status[t] = "running" <=> wf.status[t] = "running"
  BY <1>1, <1>2 DEF MarkQueued, Workflow
<1>4. Kept(proc[p], wf', Files)
  <2>1. Kept(proc[p], wf, Files) /\ FilesFit(Files)
    BY DEF Sound, IInv
  <2>2. \A r \in RunIds : ~Carries(proc[p], r)
    BY <1>1 DEF Carries
  <2>3. \A r \in RunIds : LiveIn(r, Files) =>
           wf'.status[Files.remote[r].task] = "running" /\ Newest(r, Files)
    BY <1>3, <2>1, <2>2, NewestIsSpawned DEF Kept
  <2> QED
    BY <1>2, <1>3, <2>1, <2>3 DEF Kept
<1>5. Within(proc[p], wf')
  <2>1. Busy(proc[p], wf') = Busy(proc[p], wf)
    BY <1>3 DEF Busy, ActiveTasks
  <2> QED
    BY <2>1 DEF Sound, Within
<1>6. Sound(proc[p], wf', Files)
  BY <1>4, <1>5 DEF Sound
<1> QED
  BY <1>1, <1>6, RestedSound

LEMMA SettleSound ==
    ASSUME IInv, NEW p \in Procs, Fresh(proc[p], wf), Sound(proc[p], wf, Files), Settle(p)
    PROVE  Sound(proc'[p], wf', Files')
<1> DEFINE k == proc[p]
           l == proc'[p]
           f == Files
           t == k.task
<1>1. /\ k.at = "settle" /\ l.at \in {"poll", "idle"} /\ l.todo = {}
      /\ wf' = ApplyRunStatus(wf, t, k.rec.status) /\ l.polls = k.polls
      /\ l.override = "task" /\ Files' = f
  BY SettleDoes, FilesSame DEF Fresh, SaveSteps, ReportSteps
<1>2. /\ wf \in Workflow /\ t \in Tasks /\ wf.status[t] = "running" /\ FilesFit(f)
      /\ Spawned(k.rec, f) /\ k.rec.task = t /\ k.rec.status \in RunStatus
  BY <1>1, TypesAtHand, RecordAtHand DEF Fresh, ReportSteps, RunSteps, RunRecord
<1>3. /\ OwnRunners(f) /\ Kept(k, wf, f) /\ Within(k, wf)
      /\ k.rec \in f.ledger /\ Newest(k.rec.id, f)
      /\ Active(k.rec) \/ ~LiveIn(k.rec.id, f)
      /\ \A rec \in k.polls : Newest(rec.id, f)
  BY <1>1 DEF Sound, Tracks, ReportSteps
<1> HIDE DEF k, l, f, t
<1>4. Touches(wf, wf', t)
  BY <1>1, <1>2, ReportMoves, MovesTouch
<1>5. (\A r \in RunIds : ~Carries(k, r)) /\ \A u \in Tasks : Pending(k, u) => u = t
  BY <1>1 DEF Carries, Pending, t
<1>6. ASSUME Active(k.rec)
      PROVE  Kept(l, wf', f)
  <2>1. wf'.reviewQueue = wf.reviewQueue
    BY <1>1, <1>2, <1>6, ReportRuns DEF Active
  <2>2. wf'.status[t] = "running"
    <3>1. wf' = RunActive(wf, t)
      BY <1>1, <1>6 DEF Active, ApplyRunStatus
    <3> QED
      BY <1>2, <3>1 DEF RunActive, Workflow
  <2>3. t \notin wf.reviewQueue
    BY <1>2, <1>3 DEF Kept
  <2>4. Tracked(t, f)
    <3>1. \A rec \in f.ledger : rec.id = k.rec.id => rec = k.rec
      BY <1>2, <1>3 DEF FilesFit
    <3>2. \A other \in f.ledger : other.task = t => other.id <= k.rec.id
      BY <1>2, <1>3, <3>1 DEF Newest
    <3> QED
      BY <1>2, <1>3, <1>6, <3>2 DEF Tracked
  <2>5. \A r \in RunIds : LiveIn(r, f) => Newest(r, f)
    BY <1>3, <1>5 DEF Kept
  <2> QED
    BY <1>2, <1>3, <1>4, <1>5, <2>1, <2>2, <2>3, <2>4, <2>5, SaveKept
<1>7. ASSUME ~Active(k.rec)
      PROVE  Kept(l, wf', f)
  <2>1. wf'.status[t] # "running"
    BY <1>1, <1>2, <1>7, ReportRuns DEF Active
  <2>2. \A r \in RunIds : f.remote[r].task = t => ~LiveIn(r, f)
    BY <1>2, <1>3, <1>5, <1>7, NobodyElse
  <2> QED
    BY <1>2, <1>3, <1>4, <1>5, <2>1, <2>2, StopKept
<1>8. Tracks(l, f)
  BY <1>1, <1>3, QuietTracks DEF LaunchSteps, ReportSteps, CancelSteps
<1>9. Slots(l) = {}
  BY <1>1 DEF Slots, LaunchSteps
<1>10. Within(l, wf')
  BY <1>2, <1>3, <1>4, <1>9, TouchesWithin
<1> QED
  BY <1>1, <1>3, <1>6, <1>7, <1>8, <1>10 DEF Sound, l, f

LEMMA ApplyCancelSound ==
    ASSUME IInv, NEW p \in Procs, Fresh(proc[p], wf), Sound(proc[p], wf, Files),
           ApplyCancel(p)
    PROVE  Sound(proc'[p], wf', Files')
<1> DEFINE k == proc[p]
           l == proc'[p]
           f == Files
           t == k.task
<1>1. /\ k.at = "apply" /\ wf' = ApplyRunStatus(wf, t, k.rec.status) /\ Rested(l)
      /\ \/ l.at = "idle"
         \/ l.at = "reread" /\ l.task = t
      /\ k.rec.status \notin {"accepted", "running"} /\ Files' = f
  BY ApplyCancelDoes, FilesSame DEF Fresh, SaveSteps
<1>2. /\ wf \in Workflow /\ t \in Tasks /\ wf.status[t] = "running" /\ FilesFit(f)
      /\ Spawned(k.rec, f) /\ k.rec.task = t /\ k.rec.status \in RunStatus
  BY <1>1, TypesAtHand, RecordAtHand DEF Fresh, CancelSteps, RunSteps, RunRecord
<1>3. /\ OwnRunners(f) /\ Kept(k, wf, f) /\ Within(k, wf)
      /\ Newest(k.rec.id, f) /\ ~LiveIn(k.rec.id, f)
  BY <1>1 DEF Sound, Tracks, CancelSteps
<1> HIDE DEF k, l, f, t
<1>4. Touches(wf, wf', t) /\ wf'.status[t] # "running"
  BY <1>1, <1>2, ReportMoves, MovesTouch, ReportRuns
<1>5. (\A r \in RunIds : ~Carries(k, r)) /\ \A u \in Tasks : Pending(k, u) => u = t
  BY <1>1 DEF Carries, Pending, t
<1>6. \A r \in RunIds : f.remote[r].task = t => ~LiveIn(r, f)
  BY <1>2, <1>3, <1>5, NobodyElse
<1>7. Kept(l, wf', f)
  BY <1>2, <1>3, <1>4, <1>5, <1>6, StopKept
<1>8. Tracks(l, f)
  BY <1>1, QuietTracks DEF Rested, LaunchSteps, ReportSteps, CancelSteps
<1>9. Slots(l) \subseteq {t} /\ (t \in AcpTasks => t \in Busy(k, wf))
  BY <1>1, <1>2 DEF Slots, Rested, LaunchSteps, Busy, ActiveTasks
<1>10. Within(l, wf')
  BY <1>2, <1>3, <1>4, <1>9, TouchesWithin
<1> QED
  BY <1>1, <1>3, <1>7, <1>8, <1>10 DEF Sound, l, f

\* A retry and a review are of a task that does not run.
LEMMA RestingTaskSound ==
    ASSUME NEW k, NEW l, NEW w \in Workflow, NEW v, NEW f, FilesFit(f), Sound(k, w, f),
           NEW t \in Tasks, w.status[t] # "running",
           NEW next \in TaskStatus \ {"planned", "running"}, Moves(w, v, t, next),
           k.at \in {"rearm", "bury", "decide"},
           l.at \in {"pick", "idle"}, l.override = "task", l.polls = {},
           Slots(l) \subseteq Slots(k)
    PROVE  Sound(l, v, f)
<1>1. Touches(w, v, t) /\ v.status[t] = next
  BY MovesTouch, MovesTo
<1>2. (\A r \in RunIds : ~Carries(k, r)) /\ \A u \in Tasks : ~Pending(k, u)
  BY DEF Carries, Pending
<1>3. \A r \in RunIds : f.remote[r].task = t => ~LiveIn(r, f)
  BY <1>2 DEF Sound, Kept
<1>4. Kept(l, v, f)
  BY <1>1, <1>2, <1>3, StopKept DEF Sound
<1>5. Tracks(l, f)
  BY QuietTracks DEF LaunchSteps, ReportSteps, CancelSteps
<1>6. Within(l, v)
  BY <1>1, TouchesWithin DEF Sound, Busy
<1> QED
  BY <1>4, <1>5, <1>6 DEF Sound

LEMMA RetrySavesSound ==
    ASSUME IInv, NEW p \in Procs, Fresh(proc[p], wf), Sound(proc[p], wf, Files),
           RearmTask(p) \/ BuryTask(p)
    PROVE  Sound(proc'[p], wf', Files')
<1>1. proc[p].at \in {"rearm", "bury"} /\ Files' = Files
  BY RearmTaskDoes, BuryTaskDoes, FilesSame
<1>2. /\ wf \in Workflow /\ proc[p].task \in Tasks /\ wf.status[proc[p].task] # "running"
      /\ proc[p].snap = wf /\ FilesFit(Files)
  BY <1>1, TypesAtHand, RecordAtHand DEF Fresh, RetrySteps, SaveSteps, RunSteps
<1>3. CASE RearmTask(p)
  <2>1. /\ proc[p].at = "rearm" /\ proc'[p].at = "pick"
        /\ wf' = RearmedForRetry(wf, proc[p].task)
        /\ proc'[p].todo = {proc[p].task} /\ proc'[p].polls = {}
        /\ proc'[p].override = "task"
    BY <1>2, <1>3, RearmTaskDoes
  <2>2. Slots(proc'[p]) \subseteq Slots(proc[p])
    BY <2>1 DEF Slots, LaunchSteps
  <2>3. Moves(wf, wf', proc[p].task, "ready") /\ "ready" \in TaskStatus \ {"planned", "running"}
    BY <1>2, <2>1, RetryMoves DEF TaskStatus
  <2> QED
    BY <1>1, <1>2, <2>1, <2>2, <2>3, RestingTaskSound
<1>4. CASE BuryTask(p)
  <2>1. /\ proc[p].at = "bury" /\ proc'[p].at = "idle" /\ Rested(proc'[p])
        /\ wf' = DeadLettered(wf, proc[p].task)
    BY <1>2, <1>4, BuryTaskDoes
  <2>2. Slots(proc'[p]) = {} /\ proc'[p].override = "task" /\ proc'[p].polls = {}
    BY <2>1 DEF Slots, Rested, LaunchSteps
  <2>3. /\ Moves(wf, wf', proc[p].task, "dead_letter")
        /\ "dead_letter" \in TaskStatus \ {"planned", "running"}
    BY <1>2, <2>1, RetryMoves DEF TaskStatus
  <2> QED
    BY <1>1, <1>2, <2>1, <2>2, <2>3, RestingTaskSound
<1> QED
  BY <1>3, <1>4

LEMMA DecideSound ==
    ASSUME IInv, NEW p \in Procs, Fresh(proc[p], wf), Sound(proc[p], wf, Files), Decide(p)
    PROVE  Sound(proc'[p], wf', Files')
<1>1. /\ proc[p].at = "decide" /\ proc'[p].at = "idle" /\ Rested(proc'[p])
      /\ wf' = ApplyReviewDecision(proc[p].snap, proc[p].task, proc[p].decision)
      /\ Files' = Files
  BY DecideDoes, FilesSame
<1>2. /\ wf \in Workflow /\ proc[p].task \in Tasks /\ proc[p].task \in wf.reviewQueue
      /\ proc[p].snap = wf /\ FilesFit(Files) /\ proc[p].decision \in ReviewDecision
  BY <1>1, TypesAtHand DEF Fresh, SaveSteps, TaskSteps, Step, Locals, IInv
<1>3. wf.status[proc[p].task] # "running"
  BY <1>2 DEF Sound, Kept
<1>4. PICK next \in {"done", "ready", "blocked"} : Moves(wf, wf', proc[p].task, next)
  BY <1>1, <1>2, DecisionMoves
<1>5. next \in TaskStatus \ {"planned", "running"}
  BY DEF TaskStatus
<1>6. Slots(proc'[p]) = {} /\ proc'[p].override = "task" /\ proc'[p].polls = {}
  BY <1>1 DEF Slots, Rested, LaunchSteps
<1> QED
  BY <1>1, <1>2, <1>3, <1>4, <1>5, <1>6, RestingTaskSound

----------------------------------------------------------------------------
\* The invariant is inductive.

LEMMA InitSound == Init => SessionInv
<1> SUFFICES ASSUME Init
             PROVE  SessionInv
  OBVIOUS
<1>1. Orderly(wf)
  BY InitialOrderly DEF Init
<1>2. ASSUME NEW p \in Procs
      PROVE  Sound(proc[p], wf, Files)
  <2>1. \A t \in Tasks : wf.status[t] # "running"
    BY DEF Init, InitialWorkflow, UpsertTaskStatuses
  <2>2. /\ Files.ledger = {} /\ Files.manualAt = [t \in Tasks |-> 0]
        /\ \A r \in RunIds : ~LiveIn(r, Files)
    BY DEF Init, Files, NoSession, LiveIn
  <2>3. proc[p].at = "idle" /\ Rested(proc[p])
    BY IdleIs DEF Init
  <2>4. OwnRunners(Files)
    BY <2>2, TaskGraphAssumption DEF OwnRunners
  <2>5. Kept(proc[p], wf, Files)
    BY <2>1, <2>2 DEF Kept
  <2>6. Tracks(proc[p], Files)
    BY <2>3, QuietTracks DEF Rested, LaunchSteps, ReportSteps, CancelSteps
  <2>7. Within(proc[p], wf)
    <3>1. Busy(proc[p], wf) = {}
      BY <2>1, <2>3 DEF Busy, ActiveTasks, Slots, Rested, LaunchSteps
    <3> QED
      BY <3>1, FS_EmptySet, OrchestratorAssumption DEF Within
  <2> QED
    BY <2>4, <2>5, <2>6, <2>7 DEF Sound
<1> QED
  BY <1>1, <1>2 DEF SessionInv

\* A step of a process, and the start of an operation.
LEMMA StepsSound ==
    ASSUME IInv, NEW p \in Procs, Fresh(proc[p], wf), Sound(proc[p], wf, Files), Steps(p)
    PROVE  Sound(proc'[p], wf', Files')
<1>1. CASE DispatchStep(p)
  BY <1>1, SkipTaskSound, PickTaskSound, SpawnSessionSound, RecordRunSound,
     RecordManualRunSound, CommitDispatchSound, ReloadForQueueSound,
     EnqueueOverflowSound DEF DispatchStep
<1>2. CASE SyncStep(p)
  BY <1>2, LoadForSyncSound, ObserveSound, NoteSyncedSound, SettleSound DEF SyncStep
<1>3. CASE CancelStep(p)
  BY <1>3, CancelSessionSound, StampRunSound, LoadForCancelSound, ApplyCancelSound
     DEF CancelStep
<1>4. CASE RetryStep(p)
  BY <1>4, RereadRunSound, EvaluateRetrySound, WriteHistorySound, RetrySavesSound
     DEF RetryStep
<1>5. CASE Decide(p)
  BY <1>5, DecideSound
<1> QED
  BY <1>1, <1>2, <1>3, <1>4, <1>5 DEF Steps

LEMMA SupervisedStartSound ==
    ASSUME IInv, NEW p \in Procs, Sound(proc[p], wf, Files), SupervisedStart(p)
    PROVE  Sound(proc'[p], wf', Files')
BY StartBatchSound, StartSyncActiveSound, StartRecoverySound, StartReviewSound
   DEF SupervisedStart

LEMMA NextSound ==
    ASSUME OneProcess, IInv, FreshInv, SessionInv, [SupervisedNext]_vars
    PROVE  SessionInv'
<1>1. Orderly(wf)'
  <2>1. Serially(wf, wf') /\ Orderly(wf)
    BY NextFresh DEF SessionInv
  <2>2. Orderly(wf')
    BY <2>1, TransitionOrderly DEF Serially
  <2> QED
    BY <2>2 DEF Orderly
<1>2. ASSUME NEW p \in Procs, Sound(proc'[p], wf', Files')
      PROVE  SessionInv'
  <2>1. \A q \in Procs : Sound(proc'[q], wf', Files')
    BY <1>2 DEF OneProcess
  <2> QED
    BY <1>1, <2>1 DEF SessionInv
<1>3. \A p \in Procs : Fresh(proc[p], wf) /\ Sound(proc[p], wf, Files)
  BY DEF FreshInv, SessionInv
<1>4. CASE \E p \in Autopilots : SupervisedStart(p)
  BY <1>2, <1>3, <1>4, SupervisedStartSound, OrchestratorAssumption
<1>5. CASE \E p \in Procs : Steps(p)
  BY <1>2, <1>3, <1>5, StepsSound
<1>6. CASE \E p \in Procs : RuntimeCallFails(p)
  BY <1>2, <1>3, <1>6, RuntimeCallFailsSound
<1>7. CASE \E r \in RunIds : SessionEnds(r)
  BY <1>2, <1>3, <1>7, SessionEndsSound DEF OneProcess
<1>8. CASE UNCHANGED vars
  <2>1. proc' = proc /\ wf' = wf /\ Files' = Files
    BY <1>8, FilesSame DEF vars
  <2> QED
    BY <1>2, <1>3, <2>1 DEF OneProcess
<1> QED
  BY <1>4, <1>5, <1>6, <1>7, <1>8 DEF SupervisedNext, Environment

LEMMA SessionInvariance ==
    ASSUME OneProcess
    PROVE  SupervisedSpec => [](IInv /\ FreshInv /\ SessionInv)
<1>1. Init => SessionInv
  BY InitSound
<1>2. IInv /\ FreshInv /\ SessionInv /\ [SupervisedNext]_vars => SessionInv'
  BY NextSound
<1> QED
  BY <1>1, <1>2, SupervisedInvariance, PTL DEF SupervisedSpec

----------------------------------------------------------------------------
\* What the invariant says of the sessions at work.

\* The task of a run that is about to be saved as running.
LEMMA CarriedRun ==
    ASSUME IInv, FreshInv, SessionInv, NEW p \in Procs, NEW r \in RunIds, Carries(proc[p], r)
    PROVE  /\ remote[r].task = proc[p].task
           /\ proc[p].task \in DispatchableTasks(wf.status)
           /\ proc[p].task \in Slots(proc[p]) \intersect AcpTasks
<1>1. /\ proc[p].at \in {"record", "commit"} /\ proc[p].runner = "acp"
      /\ proc[p].rec.id = r
  BY DEF Carries
<1>2. /\ FilesFit(Files) /\ LocalsFit(proc[p], Files)
      /\ Fresh(proc[p], wf) /\ Tracks(proc[p], Files)
  BY DEF IInv, FreshInv, SessionInv, Sound
<1>3. Spawned(proc[p].rec, Files) /\ proc[p].rec.task = proc[p].task
  BY <1>1, <1>2 DEF LocalsFit, Tracks, FilesFit
<1>4. remote[r].task = proc[p].task
  BY <1>1, <1>3 DEF Spawned, Files
<1>5. proc[p].task \in DispatchableTasks(wf.status)
  BY <1>1, <1>2 DEF Fresh, LaunchSteps
<1>6. proc[p].task \in AcpTasks
  BY <1>1, <1>2 DEF Tracks, LaunchSteps
<1>7. proc[p].task \in Slots(proc[p])
  BY <1>1 DEF Slots, LaunchSteps
<1> QED
  BY <1>4, <1>5, <1>6, <1>7

\* A session at work, but for that one, is the latest run of a running task.
LEMMA LiveRun ==
    ASSUME IInv, SessionInv, NEW p \in Procs, NEW r \in RunIds, Live(r), ~Carries(proc[p], r)
    PROVE  /\ wf.status[remote[r].task] = "running"
           /\ remote[r].task \in AcpTasks
           /\ \E rec \in ledger : /\ rec.id = r /\ rec.task = remote[r].task
                                  /\ IsLatest(rec, Records(rec.task))
<1>1. /\ FilesFit(Files) /\ Kept(proc[p], wf, Files) /\ OwnRunners(Files)
  BY DEF IInv, SessionInv, Sound
<1>2. wf.status[remote[r].task] = "running" /\ Newest(r, Files)
  BY <1>1 DEF Kept, LiveIn, Live, Files
<1>3. PICK rec \in ledger : /\ rec.id = r
                            /\ \A other \in ledger : other.task = rec.task => other.id <= r
  BY <1>2 DEF Newest, Files
<1>4. rec.task = remote[r].task /\ rec.task \in AcpTasks
  BY <1>1, <1>3 DEF FilesFit, Spawned, Files, OwnRunners
<1>5. IsLatest(rec, Records(rec.task))
  BY <1>3 DEF IsLatest, Records
<1> QED
  BY <1>2, <1>3, <1>4, <1>5

LEMMA InvNoDuplicate ==
    ASSUME OneProcess, IInv, FreshInv, SessionInv
    PROVE  NoDuplicateSession
<1> SUFFICES ASSUME NEW r \in RunIds, NEW s \in RunIds, Live(r), Live(s),
                    remote[r].task = remote[s].task
             PROVE  r = s
  BY DEF NoDuplicateSession
<1>1. PICK p \in Procs : TRUE
  BY DEF OneProcess
<1>2. ASSUME NEW a \in RunIds, NEW b \in RunIds, Carries(proc[p], a), Live(b),
             ~Carries(proc[p], b), remote[a].task = remote[b].task
      PROVE  FALSE
  <2>1. remote[a].task \in DispatchableTasks(wf.status)
    BY <1>2, CarriedRun
  <2>2. wf.status[remote[a].task] = "running"
    BY <1>2, LiveRun
  <2> QED
    BY <2>1, <2>2, DispatchableIsNotDone
<1>3. CASE Carries(proc[p], r) \/ Carries(proc[p], s)
  BY <1>2, <1>3 DEF Carries
<1>4. CASE ~Carries(proc[p], r) /\ ~Carries(proc[p], s)
  <2>1. PICK a \in ledger : /\ a.id = r /\ a.task = remote[r].task
                            /\ IsLatest(a, Records(a.task))
    BY <1>4, LiveRun
  <2>2. PICK b \in ledger : /\ b.id = s /\ b.task = remote[s].task
                            /\ IsLatest(b, Records(b.task))
    BY <1>4, LiveRun
  <2>3. s <= r /\ r <= s
    BY <2>1, <2>2 DEF IsLatest, Records
  <2> QED
    BY <2>3 DEF RunIds
<1> QED
  BY <1>3, <1>4

LEMMA InvDependencyOrder ==
    ASSUME OneProcess, IInv, FreshInv, SessionInv
    PROVE  DependencyOrder
<1> SUFFICES ASSUME NEW r \in RunIds, Live(r)
             PROVE  DependenciesDone(wf.status, remote[r].task)
  BY DEF DependencyOrder
<1>1. PICK p \in Procs : TRUE
  BY DEF OneProcess
<1>2. CASE Carries(proc[p], r)
  BY <1>2, CarriedRun, DispatchableIsNotDone
<1>3. CASE ~Carries(proc[p], r)
  <2>1. wf.status[remote[r].task] = "running" /\ remote[r].task \in AcpTasks
    BY <1>3, LiveRun
  <2>2. remote[r].task \in Tasks
    BY <2>1, TaskGraphAssumption
  <2> QED
    BY <2>1, <2>2 DEF SessionInv, Orderly, Honoured
<1> QED
  BY <1>2, <1>3

LEMMA InvTracked ==
    ASSUME OneProcess, IInv, FreshInv, SessionInv
    PROVE  SessionsTracked
<1> SUFFICES ASSUME Quiet
             PROVE  /\ \A t \in Tasks : wf.status[t] = "running" =>
                          \E rec \in ledger : IsActiveLatestRun(rec, t)
                    /\ \A r \in RunIds : Live(r) =>
                          /\ wf.status[remote[r].task] = "running"
                          /\ \E rec \in ledger :
                                rec.id = r /\ IsLatest(rec, Records(rec.task))
  BY DEF SessionsTracked
<1>1. PICK p \in Procs : proc[p].at = "idle"
  BY DEF OneProcess, Quiet, At
<1>2. ASSUME NEW t \in Tasks, wf.status[t] = "running"
      PROVE  \E rec \in ledger : IsActiveLatestRun(rec, t)
  <2>1. Tracked(t, Files) /\ OwnRunners(Files) /\ FilesFit(Files)
    BY <1>1, <1>2 DEF SessionInv, Sound, Kept, Pending, IInv
  <2>2. PICK rec \in ledger : /\ rec.task = t /\ Active(rec)
                              /\ \A other \in ledger : other.task = t => other.id <= rec.id
    BY <2>1 DEF Tracked, Files
  <2>3. manualAt[t] = 0 /\ rec.id \in Nat
    BY <2>1, <2>2, OrchestratorAssumption
       DEF OwnRunners, FilesFit, Files, RunRecord, RunIds
  <2>4. IsLatest(rec, Records(t)) /\ manualAt[t] <= rec.id
    BY <2>2, <2>3 DEF IsLatest, Records
  <2> QED
    BY <2>2, <2>4 DEF IsActiveLatestRun
<1>3. \A r \in RunIds : ~Carries(proc[p], r)
  BY <1>1 DEF Carries
<1> QED
  BY <1>2, <1>3, LiveRun

LEMMA InvConcurrency ==
    ASSUME OneProcess, IInv, FreshInv, SessionInv
    PROVE  ConcurrencyLimit
<1>1. PICK p \in Procs : TRUE
  BY DEF OneProcess
<1> DEFINE L    == {r \in RunIds : Live(r)}
           B    == Busy(proc[p], wf)
           host == [r \in L |-> remote[r].task]
<1>2. ASSUME NEW r \in L
      PROVE  remote[r].task \in B
  <2>1. CASE Carries(proc[p], r)
    BY <2>1, CarriedRun DEF Busy
  <2>2. CASE ~Carries(proc[p], r)
    <3>1. wf.status[remote[r].task] = "running" /\ remote[r].task \in AcpTasks
      BY <2>2, LiveRun
    <3>2. remote[r].task \in Tasks
      BY <3>1, TaskGraphAssumption
    <3> QED
      BY <3>1, <3>2 DEF Busy, ActiveTasks
  <2> QED
    BY <2>1, <2>2
<1>3. \A r, s \in L : remote[r].task = remote[s].task => r = s
  BY InvNoDuplicate DEF NoDuplicateSession
<1>4. IsFiniteSet(B) /\ Cardinality(B) \in Nat /\ Cardinality(B) <= MaxConcurrent
  BY ActiveInTasks DEF SessionInv, Sound, Within
<1> HIDE DEF L, B
<1>5. host \in Injection(L, B)
  BY <1>2, <1>3 DEF Injection, IsInjective
<1> HIDE DEF host
<1>6. IsFiniteSet(L) /\ Cardinality(L) <= Cardinality(B)
  BY <1>4, <1>5, FS_Injection DEF ExistsInjection
<1>7. Cardinality(L) <= MaxConcurrent
  BY <1>4, <1>6, FS_CardinalityType, OrchestratorAssumption
<1> QED
  BY <1>7 DEF ConcurrencyLimit, L

----------------------------------------------------------------------------
\* The recovery budget.

\* The recoveries that a record counts, and those of all the runs of a task.
StopsOf(rec) == {rec.id} \X (1..rec.recoveries)

StopsIn(f, t) == UNION {StopsOf(rec) : rec \in RecordsIn(f, t)}

\* The ledger counts as many recoveries of the run as the record does.
OnFile(rec, f) == \E o \in f.ledger : o.id = rec.id /\ o.recoveries = rec.recoveries

\* No record that the process is about to write forgets a recovery, and what it
\* is about to stop may be stopped once more.
Counted(l, f) ==
    /\ \A rec \in l.polls : OnFile(rec, f)
    /\ l.at \in ReportSteps \union {"cancel", "stamp", "retry", "history"} => OnFile(l.rec, f)
    /\ l.at = "record" /\ l.runner = "acp" =>
          l.rec.recoveries = 0 /\ \A o \in f.ledger : o.id # l.rec.id
    /\ l.at \in {"cancel", "stamp"} => Cardinality(StopsIn(f, l.task)) < MaxRecoveries

WithinBudget(f) ==
    \A t \in Tasks : IsFiniteSet(StopsIn(f, t)) /\ Cardinality(StopsIn(f, t)) <= MaxRecoveries

\* The inductive invariant, beside the others.
BudgetInv == WithinBudget(Files) /\ \A p \in Procs : Counted(proc[p], Files)

LEMMA EventsAreStops ==
    ASSUME NEW t
    PROVE  RecoveryEvents(t) = StopsIn(Files, t)
BY DEF RecoveryEvents, StopsIn, StopsOf, Records, RecordsIn, Files

LEMMA WriteOnFile ==
    ASSUME NEW f, NEW g, NEW rec, Written(rec, f, g), NEW r, OnFile(r, f),
           r.id = rec.id => r.recoveries = rec.recoveries
    PROVE  OnFile(r, g)
<1>1. PICK o \in f.ledger : o.id = r.id /\ o.recoveries = r.recoveries
  BY DEF OnFile
<1>2. rec \in g.ledger /\ (o.id # rec.id => o \in g.ledger)
  BY DEF Written
<1> QED
  BY <1>1, <1>2 DEF OnFile

\* Two records on file of one run count the same recoveries.
LEMMA OnFileAgree ==
    ASSUME NEW f, FilesFit(f), NEW r, NEW s, OnFile(r, f), OnFile(s, f), r.id = s.id
    PROVE  r.recoveries = s.recoveries
BY DEF OnFile, FilesFit

\* The record counts the recoveries new beside those that the ledger has of the run.
Adds(rec, new, f) ==
    \/ \E o \in f.ledger : o.id = rec.id /\ StopsOf(rec) = StopsOf(o) \union new
    \/ (\A o \in f.ledger : o.id # rec.id) /\ StopsOf(rec) = new

LEMMA WriteStops ==
    ASSUME NEW f, NEW g, FilesFit(f), NEW rec, Spawned(rec, f), Written(rec, f, g),
           NEW new, Adds(rec, new, f), NEW t
    PROVE  StopsIn(g, t) = StopsIn(f, t) \union IF t = rec.task THEN new ELSE {}
<1>1. \A r \in f.ledger : r.id = rec.id => r.task = rec.task
  BY DEF FilesFit, Spawned
<1>2. RecordsIn(g, t) = {r \in RecordsIn(f, t) : r.id # rec.id}
                           \union IF t = rec.task THEN {rec} ELSE {}
  BY DEF RecordsIn, Written
<1>3. \A r \in f.ledger : r.id = rec.id => StopsOf(rec) = StopsOf(r) \union new
  BY DEF FilesFit, Adds
<1>4. new \subseteq StopsOf(rec)
  BY DEF Adds
<1>5. ASSUME NEW x \in StopsIn(g, t)
      PROVE  x \in StopsIn(f, t) \union IF t = rec.task THEN new ELSE {}
  <2>1. PICK r \in RecordsIn(g, t) : x \in StopsOf(r)
    BY <1>5 DEF StopsIn
  <2>2. CASE r \in RecordsIn(f, t)
    BY <2>1, <2>2 DEF StopsIn
  <2>3. CASE r = rec /\ t = rec.task /\ x \in new
    BY <2>3
  <2>4. CASE r = rec /\ t = rec.task /\ x \notin new
    <3>1. PICK o \in f.ledger : o.id = rec.id /\ StopsOf(rec) = StopsOf(o) \union new
      BY <2>1, <2>4 DEF Adds
    <3>2. o \in RecordsIn(f, t) /\ x \in StopsOf(o)
      BY <1>1, <2>1, <2>4, <3>1 DEF RecordsIn
    <3> QED
      BY <3>2 DEF StopsIn
  <2> QED
    BY <1>2, <2>1, <2>2, <2>3, <2>4
<1>6. ASSUME NEW x \in StopsIn(f, t)
      PROVE  x \in StopsIn(g, t)
  <2>1. PICK r \in RecordsIn(f, t) : x \in StopsOf(r)
    BY <1>6 DEF StopsIn
  <2>2. CASE r.id # rec.id
    <3>1. r \in RecordsIn(g, t)
      BY <1>2, <2>2
    <3> QED
      BY <2>1, <3>1 DEF StopsIn
  <2>3. CASE r.id = rec.id
    <3>1. t = rec.task /\ StopsOf(r) \subseteq StopsOf(rec)
      BY <1>1, <1>3, <2>3 DEF RecordsIn
    <3>2. rec \in RecordsIn(g, t) /\ x \in StopsOf(rec)
      BY <1>2, <2>1, <3>1
    <3> QED
      BY <3>2 DEF StopsIn
  <2> QED
    BY <2>2, <2>3
<1>7. ASSUME t = rec.task, NEW x \in new
      PROVE  x \in StopsIn(g, t)
  <2>1. rec \in RecordsIn(g, t) /\ x \in StopsOf(rec)
    BY <1>2, <1>4, <1>7
  <2> QED
    BY <2>1 DEF StopsIn
<1> QED
  BY <1>5, <1>6, <1>7

\* The record says nothing new.
LEMMA WriteKeepsStops ==
    ASSUME NEW f, NEW g, FilesFit(f), NEW rec, Spawned(rec, f), Written(rec, f, g),
           \/ OnFile(rec, f)
           \/ rec.recoveries = 0 /\ \A o \in f.ledger : o.id # rec.id,
           NEW t
    PROVE  StopsIn(g, t) = StopsIn(f, t)
<1>1. Adds(rec, {}, f)
  <2>1. rec.recoveries = 0 => StopsOf(rec) = {}
    BY DEF StopsOf
  <2>2. ASSUME NEW o \in f.ledger, o.id = rec.id, o.recoveries = rec.recoveries
        PROVE  StopsOf(o) = StopsOf(rec)
    BY <2>2 DEF StopsOf
  <2> QED
    BY <2>1, <2>2 DEF OnFile, Adds
<1>2. StopsIn(g, t) = StopsIn(f, t) \union IF t = rec.task THEN {} ELSE {}
  BY <1>1, WriteStops
<1> QED
  BY <1>2

\* It counts one more recovery.
LEMMA StampAdds ==
    ASSUME NEW f, FilesFit(f), NEW rec, NEW o \in f.ledger,
           o.id = rec.id, rec.recoveries = o.recoveries + 1
    PROVE  Adds(rec, {<<rec.id, rec.recoveries>>}, f)
<1> DEFINE new == {<<rec.id, rec.recoveries>>}
<1>1. o.recoveries \in Nat
  BY DEF FilesFit, RunRecord
<1>2. 1..rec.recoveries = (1..o.recoveries) \union {rec.recoveries}
  BY <1>1
<1>3. {rec.id} \X {rec.recoveries} = new
  OBVIOUS
<1>4. \A S, T : {rec.id} \X (S \union T) = ({rec.id} \X S) \union ({rec.id} \X T)
  OBVIOUS
<1>5. StopsOf(rec) = StopsOf(o) \union new
  <2>1. StopsOf(rec) = ({rec.id} \X (1..o.recoveries)) \union ({rec.id} \X {rec.recoveries})
    BY <1>2, <1>4, Zenon DEF StopsOf
  <2> QED
    BY <1>3, <2>1, Zenon DEF StopsOf
<1> HIDE DEF new
<1>6. Adds(rec, new, f)
  BY <1>5 DEF Adds
<1> QED
  BY <1>6 DEF new

\* The write of a record that says nothing new leaves every count as it was.
LEMMA WriteKeepsBudget ==
    ASSUME NEW f, NEW g, FilesFit(f), WithinBudget(f),
           NEW rec, Spawned(rec, f), Written(rec, f, g),
           \/ OnFile(rec, f)
           \/ rec.recoveries = 0 /\ \A o \in f.ledger : o.id # rec.id
    PROVE  /\ WithinBudget(g) /\ OnFile(rec, g)
           /\ \A r : OnFile(r, f) => OnFile(r, g)
<1>1. \A t : StopsIn(g, t) = StopsIn(f, t)
  BY WriteKeepsStops
<1>2. OnFile(rec, g)
  BY DEF OnFile, Written
<1>3. ASSUME NEW r, OnFile(r, f)
      PROVE  OnFile(r, g)
  <2>1. r.id = rec.id => r.recoveries = rec.recoveries
    BY <1>3, OnFileAgree DEF OnFile
  <2> QED
    BY <1>3, <2>1, WriteOnFile
<1> QED
  BY <1>1, <1>2, <1>3 DEF WithinBudget

\* What a step leaves to prove where the process has no record at hand.
LEMMA QuietCounted ==
    ASSUME NEW l, NEW f, \A rec \in l.polls : OnFile(rec, f),
           l.at \notin ReportSteps \union {"cancel", "stamp", "retry", "history"},
           l.at = "record" => l.runner # "acp"
    PROVE  Counted(l, f)
BY DEF Counted

LEMMA LedgerOnFile ==
    ASSUME NEW f, NEW rec \in f.ledger
    PROVE  OnFile(rec, f)
BY DEF OnFile

LEMMA DispatchCounted ==
    ASSUME IInv, NEW p \in Procs, Counted(proc[p], Files), WithinBudget(Files),
           DispatchStep(p)
    PROVE  Counted(proc'[p], Files') /\ WithinBudget(Files')
<1>1. ASSUME NEW t \in Tasks, SkipTask(p, t)
      PROVE  Counted(proc'[p], Files') /\ WithinBudget(Files')
  <2>1. /\ proc'[p].at \in {"pick", "reload", "idle"} /\ proc'[p].polls = {}
        /\ Files' = Files
    BY <1>1, SkipTaskDoes, FilesSame
  <2> QED
    BY <2>1, QuietCounted DEF ReportSteps
<1>2. ASSUME NEW t \in Tasks, PickTask(p, t)
      PROVE  Counted(proc'[p], Files') /\ WithinBudget(Files')
  <2>1. /\ proc'[p].at = IF proc'[p].runner = "acp" THEN "spawn" ELSE "record"
        /\ proc'[p].polls = proc[p].polls /\ Files' = Files
    BY <1>2, PickTaskDoes, FilesSame
  <2>2. \A rec \in proc'[p].polls : OnFile(rec, Files)
    BY <2>1 DEF Counted
  <2> QED
    BY <2>1, <2>2, QuietCounted DEF ReportSteps
<1>3. CASE SpawnSession(p)
  <2>1. /\ proc'[p].at = "record" /\ proc'[p].polls = proc[p].polls
        /\ proc'[p].rec.recoveries = 0 /\ proc'[p].rec.id = nextRun
        /\ Files'.ledger = Files.ledger
    BY <1>3, SpawnSessionDoes DEF Carried, Files
  <2>2. \A o \in Files.ledger : o.id # nextRun
    <3>1. nextRun \in Nat
      BY OrchestratorAssumption DEF IInv, FilesFit, Files
    <3>2. \A o \in Files.ledger : o.id \in Nat /\ o.id < nextRun
      BY OrchestratorAssumption DEF IInv, FilesFit, Files, Spawned, RunRecord, RunIds
    <3> QED
      BY <3>1, <3>2
  <2>3. \A rec \in proc'[p].polls : OnFile(rec, Files')
    BY <2>1 DEF Counted, OnFile
  <2>4. WithinBudget(Files')
    BY <2>1 DEF WithinBudget, StopsIn, RecordsIn
  <2> QED
    BY <2>1, <2>2, <2>3, <2>4 DEF Counted, ReportSteps
<1>4. CASE RecordRun(p)
  <2>1. /\ proc[p].at = "record" /\ proc[p].runner = "acp" /\ proc'[p].at = "commit"
        /\ proc'[p].polls = proc[p].polls /\ Written(proc[p].rec, Files, Files')
    BY <1>4, RecordRunDoes, WriteRunWrites DEF Carried
  <2>2. Spawned(proc[p].rec, Files) /\ FilesFit(Files)
    BY <2>1 DEF IInv, LocalsFit
  <2>3. /\ proc[p].rec.recoveries = 0 /\ \A o \in Files.ledger : o.id # proc[p].rec.id
        /\ \A rec \in proc[p].polls : OnFile(rec, Files)
    BY <2>1 DEF Counted
  <2>4. WithinBudget(Files') /\ \A rec \in proc'[p].polls : OnFile(rec, Files')
    BY <2>1, <2>2, <2>3, WriteKeepsBudget
  <2> QED
    BY <2>1, <2>4, QuietCounted DEF ReportSteps
<1>5. CASE RecordManualRun(p)
  <2>1. /\ proc'[p].at = "commit" /\ proc'[p].polls = proc[p].polls
        /\ Files'.ledger = Files.ledger
    BY <1>5, RecordManualRunDoes DEF Carried, Files
  <2>2. WithinBudget(Files') /\ \A rec \in proc'[p].polls : OnFile(rec, Files')
    BY <2>1 DEF WithinBudget, StopsIn, RecordsIn, Counted, OnFile
  <2> QED
    BY <2>1, <2>2, QuietCounted DEF ReportSteps
<1>6. CASE CommitDispatch(p) \/ ReloadForQueue(p) \/ EnqueueOverflow(p)
  <2>1. /\ proc'[p].at \in {"pick", "reload", "idle", "enqueue"}
        /\ proc'[p].polls = {} \/ proc'[p].polls = proc[p].polls
        /\ Files' = Files
    BY <1>6, CommitDispatchDoes, ReloadForQueueDoes, EnqueueOverflowDoes, FilesSame
       DEF Rested
  <2>2. \A rec \in proc'[p].polls : OnFile(rec, Files)
    BY <2>1 DEF Counted
  <2> QED
    BY <2>1, <2>2, QuietCounted DEF ReportSteps
<1> QED
  BY <1>1, <1>2, <1>3, <1>4, <1>5, <1>6 DEF DispatchStep

LEMMA SyncCounted ==
    ASSUME IInv, NEW p \in Procs, Counted(proc[p], Files), WithinBudget(Files), SyncStep(p)
    PROVE  Counted(proc'[p], Files') /\ WithinBudget(Files')
<1>1. CASE LoadForSync(p)
  <2>1. /\ proc'[p].at = "observe" /\ proc'[p].rec \in proc[p].polls
        /\ proc'[p].polls \subseteq proc[p].polls /\ Files' = Files
    BY <1>1, LoadForSyncDoes, FilesSame
  <2> QED
    BY <2>1 DEF Counted, ReportSteps
<1>2. CASE Observe(p)
  <2>1. /\ proc[p].at = "observe" /\ proc'[p].at = "note" /\ proc'[p].polls = proc[p].polls
        /\ proc'[p].rec.id = proc[p].rec.id
        /\ proc'[p].rec.recoveries = proc[p].rec.recoveries /\ Files' = Files
    BY <1>2, ObserveDoes, FilesSame DEF Carried
  <2> QED
    BY <2>1 DEF Counted, ReportSteps, OnFile
<1>3. CASE NoteSynced(p)
  <2>1. /\ proc[p].at = "note" /\ proc'[p].at = "settle" /\ proc'[p].polls = proc[p].polls
        /\ proc'[p].rec = proc[p].rec /\ Written(proc[p].rec, Files, Files')
    BY <1>3, NoteSyncedDoes, WriteRunWrites DEF Carried
  <2>2. Spawned(proc[p].rec, Files) /\ FilesFit(Files)
    BY <2>1, RecordAtHand DEF RunSteps
  <2>3. OnFile(proc[p].rec, Files) /\ \A rec \in proc[p].polls : OnFile(rec, Files)
    BY <2>1 DEF Counted, ReportSteps
  <2>4. /\ WithinBudget(Files') /\ OnFile(proc'[p].rec, Files')
        /\ \A rec \in proc'[p].polls : OnFile(rec, Files')
    BY <2>1, <2>2, <2>3, WriteKeepsBudget
  <2> QED
    BY <2>1, <2>4 DEF Counted, ReportSteps
<1>4. CASE Settle(p)
  <2>1. /\ proc'[p].at \in {"poll", "idle"} /\ proc'[p].polls = proc[p].polls
        /\ Files' = Files
    BY <1>4, SettleDoes, FilesSame
  <2>2. \A rec \in proc'[p].polls : OnFile(rec, Files)
    BY <2>1 DEF Counted
  <2> QED
    BY <2>1, <2>2, QuietCounted DEF ReportSteps
<1> QED
  BY <1>1, <1>2, <1>3, <1>4 DEF SyncStep

\* The stop that the recovery records is the one that its budget allowed.
LEMMA StampRunCounted ==
    ASSUME IInv, NEW p \in Procs, Fresh(proc[p], wf), Counted(proc[p], Files),
           WithinBudget(Files), StampRun(p)
    PROVE  Counted(proc'[p], Files') /\ WithinBudget(Files')
<1> DEFINE rec == proc'[p].rec
<1>1. /\ proc[p].at = "stamp" /\ proc'[p].at = "load" /\ proc'[p].polls = proc[p].polls
      /\ rec.id = proc[p].rec.id /\ rec.task = proc[p].rec.task
      /\ proc[p].recovery => rec.recoveries = proc[p].rec.recoveries + 1
      /\ Written(rec, Files, Files')
  BY StampRunDoes, WriteRunWrites DEF Carried
<1>2. proc[p].polls = {} /\ rec.recoveries = proc[p].rec.recoveries + 1
  BY <1>1 DEF Fresh, CancelSteps, ReportSteps
<1>3. PICK o \in Files.ledger : /\ o.id = rec.id
                                /\ rec.recoveries = o.recoveries + 1
  BY <1>1, <1>2 DEF Counted, OnFile
<1>4. FilesFit(Files) /\ Spawned(proc[p].rec, Files) /\ rec.task = proc[p].task
  BY <1>1, RecordAtHand DEF RunSteps
<1>5. Spawned(rec, Files)
  <2>1. IInv'
    BY NextKeeps DEF Next, SupervisedNext, Steps, CancelStep
  <2>2. Spawned(rec, Files')
    BY <1>1, <2>1 DEF IInv, LocalsFit, RunSteps, Known
  <2> QED
    BY <1>1, <2>2 DEF Spawned, Written
<1> DEFINE x == <<rec.id, rec.recoveries>>
<1>6. Adds(rec, {x}, Files)
  BY <1>3, <1>4, StampAdds, Zenon
<1> HIDE DEF rec, x
<1>7. ASSUME NEW t \in Tasks
      PROVE  /\ IsFiniteSet(StopsIn(Files', t))
             /\ Cardinality(StopsIn(Files', t)) <= MaxRecoveries
  <2>1. StopsIn(Files', t) = StopsIn(Files, t) \union IF t = rec.task THEN {x} ELSE {}
    BY <1>1, <1>4, <1>5, <1>6, WriteStops
  <2>2. CASE t # rec.task
    <3>1. StopsIn(Files', t) = StopsIn(Files, t)
      BY <2>1, <2>2
    <3> QED
      BY <3>1 DEF WithinBudget
  <2>3. CASE t = rec.task
    <3> DEFINE S == StopsIn(Files, t)
    <3>1. StopsIn(Files', t) = S \union {x}
      BY <2>1, <2>3
    <3>2. IsFiniteSet(S) /\ Cardinality(S) < MaxRecoveries
      BY <1>1, <1>4, <2>3 DEF Counted, WithinBudget
    <3> HIDE DEF S
    <3>3. Cardinality(S) \in Nat
      BY <3>2, FS_CardinalityType
    <3>4. /\ IsFiniteSet(S \union {x})
          /\ Cardinality(S \union {x}) \in {Cardinality(S), Cardinality(S) + 1}
      BY <3>2, FS_AddElement
    <3> QED
      BY <3>1, <3>2, <3>3, <3>4, OrchestratorAssumption
  <2> QED
    BY <2>2, <2>3
<1> QED
  BY <1>1, <1>2, <1>7, QuietCounted DEF WithinBudget, ReportSteps

LEMMA CancelCounted ==
    ASSUME IInv, NEW p \in Procs, Fresh(proc[p], wf), Counted(proc[p], Files),
           WithinBudget(Files), CancelStep(p)
    PROVE  Counted(proc'[p], Files') /\ WithinBudget(Files')
<1>1. CASE CancelSession(p)
  <2>1. /\ proc[p].at = "cancel" /\ proc'[p].at = "stamp" /\ Carried(proc[p], proc'[p])
        /\ proc'[p].rec = proc[p].rec /\ Files'.ledger = Files.ledger
    BY <1>1, CancelSessionDoes DEF Files
  <2>2. /\ OnFile(proc[p].rec, Files') /\ \A rec \in proc[p].polls : OnFile(rec, Files')
        /\ \A t : StopsIn(Files', t) = StopsIn(Files, t)
    BY <2>1 DEF Counted, OnFile, StopsIn, RecordsIn
  <2> QED
    BY <2>1, <2>2 DEF Counted, Carried, WithinBudget, ReportSteps
<1>2. CASE StampRun(p)
  BY <1>2, StampRunCounted
<1>3. CASE LoadForCancel(p) \/ ApplyCancel(p)
  <2>1. /\ proc'[p].at \in {"apply", "idle", "reread"}
        /\ proc'[p].polls = {} \/ proc'[p].polls = proc[p].polls
        /\ Files' = Files
    BY <1>3, LoadForCancelDoes, ApplyCancelDoes, FilesSame DEF Rested
  <2>2. \A rec \in proc'[p].polls : OnFile(rec, Files)
    BY <2>1 DEF Counted
  <2> QED
    BY <2>1, <2>2, QuietCounted DEF ReportSteps
<1> QED
  BY <1>1, <1>2, <1>3 DEF CancelStep

LEMMA RetryCounted ==
    ASSUME IInv, NEW p \in Procs, Counted(proc[p], Files), WithinBudget(Files), RetryStep(p)
    PROVE  Counted(proc'[p], Files') /\ WithinBudget(Files')
<1>1. CASE RereadRun(p)
  <2>1. /\ proc'[p].at = "retry" /\ proc'[p].polls = proc[p].polls
        /\ proc'[p].rec \in Files.ledger /\ Files' = Files
    BY <1>1, RereadRunDoes, FilesSame DEF Carried, Files
  <2> QED
    BY <2>1, LedgerOnFile DEF Counted, ReportSteps
<1>2. CASE EvaluateRetry(p)
  <2>1. /\ proc[p].at = "retry" /\ Files' = Files
        /\ \/ proc'[p].at = "idle" /\ proc'[p].polls = {}
           \/ /\ proc'[p].at \in {"history", "bury"} /\ proc'[p].polls = proc[p].polls
              /\ proc'[p].rec.id = proc[p].rec.id
              /\ proc'[p].rec.recoveries = proc[p].rec.recoveries
    BY <1>2, EvaluateRetryDoes, FilesSame DEF Rested
  <2> QED
    BY <2>1 DEF Counted, ReportSteps, OnFile
<1>3. CASE WriteHistory(p)
  <2>1. /\ proc[p].at = "history" /\ proc'[p].at = "rearm" /\ proc'[p].polls = proc[p].polls
        /\ Written(proc[p].rec, Files, Files')
    BY <1>3, WriteHistoryDoes, WriteRunWrites DEF Carried
  <2>2. Spawned(proc[p].rec, Files) /\ FilesFit(Files)
    BY <2>1, RecordAtHand DEF RunSteps
  <2>3. OnFile(proc[p].rec, Files) /\ \A rec \in proc[p].polls : OnFile(rec, Files)
    BY <2>1 DEF Counted
  <2>4. WithinBudget(Files') /\ \A rec \in proc'[p].polls : OnFile(rec, Files')
    BY <2>1, <2>2, <2>3, WriteKeepsBudget
  <2> QED
    BY <2>1, <2>4, QuietCounted DEF ReportSteps
<1>4. CASE RearmTask(p) \/ BuryTask(p)
  <2>1. proc'[p].at \in {"pick", "idle"} /\ proc'[p].polls = {} /\ Files' = Files
    BY <1>4, RearmTaskDoes, BuryTaskDoes, FilesSame DEF Rested
  <2> QED
    BY <2>1, QuietCounted DEF ReportSteps
<1> QED
  BY <1>1, <1>2, <1>3, <1>4 DEF RetryStep

LEMMA StartCounted ==
    ASSUME IInv, NEW p \in Procs, WithinBudget(Files), SupervisedStart(p)
    PROVE  Counted(proc'[p], Files') /\ WithinBudget(Files')
<1>1. ASSUME NEW n \in Tasks, StartBatch(p, n, "task")
      PROVE  Counted(proc'[p], Files') /\ WithinBudget(Files')
  <2>1. /\ proc'[p].at \in {"pick", "reload", "idle"} /\ proc'[p].polls = {}
        /\ Files' = Files
    BY <1>1, StartBatchDoes, FilesSame
  <2> QED
    BY <2>1, QuietCounted DEF ReportSteps
<1>2. CASE StartSyncActive(p)
  <2>1. proc'[p].at = "poll" /\ proc'[p].polls \subseteq Files.ledger /\ Files' = Files
    BY <1>2, StartSyncActiveDoes, FilesSame DEF Files
  <2> QED
    BY <2>1, LedgerOnFile, QuietCounted DEF ReportSteps
<1>3. ASSUME NEW rec \in ledger, StartRecovery(p, rec)
      PROVE  Counted(proc'[p], Files') /\ WithinBudget(Files')
  <2>1. /\ proc'[p].at = "cancel" /\ proc'[p].task = rec.task /\ proc'[p].rec = rec
        /\ Recoveries(rec.task) < MaxRecoveries /\ proc'[p].polls = {} /\ Files' = Files
    BY <1>3, StartRecoveryDoes, FilesSame DEF Rested
  <2>2. Cardinality(StopsIn(Files, rec.task)) < MaxRecoveries
    BY <2>1, EventsAreStops DEF Recoveries
  <2>3. OnFile(rec, Files)
    BY LedgerOnFile DEF Files
  <2> QED
    BY <2>1, <2>2, <2>3 DEF Counted, ReportSteps
<1>4. ASSUME NEW t \in wf.reviewQueue, NEW decision \in ReviewDecision,
             StartReview(p, t, decision)
      PROVE  Counted(proc'[p], Files') /\ WithinBudget(Files')
  <2>1. t \in Tasks
    BY DEF IInv, Workflow
  <2>2. proc'[p].at = "decide" /\ proc'[p].polls = {} /\ Files' = Files
    BY <1>4, <2>1, StartReviewDoes, FilesSame DEF Rested
  <2> QED
    BY <2>2, QuietCounted DEF ReportSteps
<1> QED
  BY <1>1, <1>2, <1>3, <1>4 DEF SupervisedStart

LEMMA InitBudget == Init => BudgetInv
<1> SUFFICES ASSUME Init
             PROVE  BudgetInv
  OBVIOUS
<1>1. \A t : StopsIn(Files, t) = {}
  BY DEF Init, StopsIn, RecordsIn, Files
<1>2. WithinBudget(Files)
  BY <1>1, FS_EmptySet, OrchestratorAssumption DEF WithinBudget
<1>3. \A p \in Procs : Counted(proc[p], Files)
  BY IdleIs, QuietCounted DEF Init, Rested, ReportSteps
<1> QED
  BY <1>2, <1>3 DEF BudgetInv

LEMMA NextBudget ==
    ASSUME OneProcess, IInv, FreshInv, BudgetInv, [SupervisedNext]_vars
    PROVE  BudgetInv'
<1>1. \A p \in Procs : Fresh(proc[p], wf) /\ Counted(proc[p], Files) /\ WithinBudget(Files)
  BY DEF FreshInv, BudgetInv
<1>2. ASSUME NEW p \in Procs, Counted(proc'[p], Files') /\ WithinBudget(Files')
      PROVE  BudgetInv'
  BY <1>2 DEF OneProcess, BudgetInv
<1>3. CASE \E p \in Autopilots : SupervisedStart(p)
  BY <1>1, <1>2, <1>3, StartCounted, OrchestratorAssumption
<1>4. ASSUME NEW p \in Procs, Steps(p)
      PROVE  BudgetInv'
  <2>1. CASE Decide(p)
    <3>1. proc'[p].at = "idle" /\ proc'[p].polls = {} /\ Files' = Files
      BY <2>1, DecideDoes, FilesSame DEF Rested
    <3>2. Counted(proc'[p], Files) /\ WithinBudget(Files)
      BY <1>1, <3>1, QuietCounted DEF ReportSteps
    <3> QED
      BY <1>2, <3>1, <3>2
  <2> QED
    BY <1>1, <1>2, <1>4, <2>1, DispatchCounted, SyncCounted, CancelCounted, RetryCounted
       DEF Steps
<1>5. CASE \E p \in Procs : RuntimeCallFails(p)
  <2>1. PICK p \in Procs : RuntimeCallFails(p)
    BY <1>5
  <2>2. proc'[p].at = "idle" /\ proc'[p].polls = {} /\ Files' = Files
    BY <2>1, RuntimeCallFailsDoes, FilesSame DEF Rested
  <2>3. Counted(proc'[p], Files) /\ WithinBudget(Files)
    BY <1>1, <2>2, QuietCounted DEF ReportSteps
  <2> QED
    BY <1>2, <2>2, <2>3
<1>6. CASE (\E r \in RunIds : SessionEnds(r)) \/ UNCHANGED vars
  <2>1. Files'.ledger = Files.ledger /\ proc' = proc
    BY <1>6 DEF SessionEnds, vars, Files
  <2>2. \A t : StopsIn(Files', t) = StopsIn(Files, t)
    BY <2>1 DEF StopsIn, RecordsIn
  <2>3. WithinBudget(Files')
    BY <2>2 DEF BudgetInv, WithinBudget
  <2>4. \A p \in Procs : Counted(proc'[p], Files')
    BY <2>1, <2>2 DEF BudgetInv, Counted, OnFile
  <2> QED
    BY <2>3, <2>4 DEF BudgetInv
<1> QED
  BY <1>3, <1>4, <1>5, <1>6 DEF SupervisedNext, Environment

LEMMA BudgetInvariance ==
    ASSUME OneProcess
    PROVE  SupervisedSpec => []BudgetInv
<1>1. Init => BudgetInv
  BY InitBudget
<1>2. IInv /\ FreshInv /\ BudgetInv /\ [SupervisedNext]_vars => BudgetInv'
  BY NextBudget
<1> QED
  BY <1>1, <1>2, SupervisedInvariance, PTL DEF SupervisedSpec

----------------------------------------------------------------------------
\* For every task graph, configuration and behaviour of the runtime:

\* Under one process no task has two sessions at work at once: no operation
\* that works from what it read before starts a run beside one that is alive.
THEOREM OneSessionPerTask ==
    ASSUME OneProcess
    PROVE  SupervisedSpec => []NoDuplicateSession
<1>1. IInv /\ FreshInv /\ SessionInv => NoDuplicateSession
  BY InvNoDuplicate
<1> QED
  BY <1>1, SessionInvariance, PTL

\* Under one process the sessions at work never exceed acp.maxConcurrent: the
\* slots that runBatch counts once serve the batch to its end, and a recovery
\* hands the slot of the session it stops to the retry.
THEOREM SessionsWithinLimit ==
    ASSUME OneProcess
    PROVE  SupervisedSpec => []ConcurrencyLimit
<1>1. IInv /\ FreshInv /\ SessionInv => ConcurrencyLimit
  BY InvConcurrency
<1> QED
  BY <1>1, SessionInvariance, PTL

\* Under one process a session only ever works on a task all of whose
\* dependencies are done, and they stay done while it works.
THEOREM SessionsFollowDependencies ==
    ASSUME OneProcess
    PROVE  SupervisedSpec => []DependencyOrder
<1>1. IInv /\ FreshInv /\ SessionInv => DependencyOrder
  BY InvDependencyOrder
<1> QED
  BY <1>1, SessionInvariance, PTL

\* Under one process the run ledger accounts, between two operations, for every
\* session at work and every running task, so that a sync will poll it.
THEOREM LedgerTracksSessions ==
    ASSUME OneProcess
    PROVE  SupervisedSpec => []SessionsTracked
<1>1. IInv /\ FreshInv /\ SessionInv => SessionsTracked
  BY InvTracked
<1> QED
  BY <1>1, SessionInvariance, PTL

\* Under one process no task is stopped and retried by the autopilot more often
\* than autopilot.recoveryPolicy.maxRecoveriesPerTask allows: no record that is
\* written back from an earlier reading, by a sync or with the history of a retry,
\* takes back an event that the planner is to count.
THEOREM RecoveriesWithinBudget ==
    ASSUME OneProcess
    PROVE  SupervisedSpec => []RecoveryBudget
<1>1. BudgetInv => RecoveryBudget
  BY EventsAreStops DEF BudgetInv, WithinBudget, RecoveryBudget, Recoveries
<1> QED
  BY <1>1, BudgetInvariance, PTL
=============================================================================
