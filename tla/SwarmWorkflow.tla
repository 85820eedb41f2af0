--------------------------- MODULE SwarmWorkflow ---------------------------
(***************************************************************************)
(* What the orchestrator promises of a workflow when its operations do not *)
(* overlap: the file workflow-state.json alone, each operation one step    *)
(* taken on the workflow as it is, and each asked for where it makes sense *)
(* (a run is reported for a task that runs, a decision is made on a task   *)
(* under review).  Runs, sessions, processes and failures are in           *)
(* SwarmOrchestrator, which implements this module as long as a single     *)
(* process drives the project.                                             *)
(***************************************************************************)
EXTENDS ReviewGate

CONSTANT RejectBound   \* bound: how often a task may be rejected for retry

ASSUME RejectBoundAssumption == RejectBound \in Nat

VARIABLE wf            \* the persisted workflow

Init == wf = InitialWorkflow

\* runOnce: a dispatchable task is handed to a runner.
Dispatch(t, runner) ==
    /\ t \in DispatchableTasks(wf.status)
    /\ wf' = Dispatched(wf, t, runner)

\* runBatch: the tasks beyond the concurrency limit are queued.
Overflow(S) ==
    /\ S \subseteq DispatchableTasks(wf.status)
    /\ wf' = MarkQueued(wf, S)

\* syncRun, cancelRun: the run of a running task has reached status s.
ReportRun(t, s) ==
    /\ wf.status[t] = "running"
    /\ wf' = ApplyRunStatus(wf, t, s)

\* evaluateRetry, after a recovery has stopped the run of the task.
Rearm(t) ==
    /\ wf.status[t] = "review_required"
    /\ wf' = RearmedForRetry(wf, t)

Bury(t) ==
    /\ wf.status[t] = "review_required"
    /\ wf' = DeadLettered(wf, t)

\* A reviewer, or the review policy of the autopilot, decides on a task in the queue.
Decide(t, decision) ==
    /\ t \in wf.reviewQueue
    /\ ApplyReviewDecision(wf, t, decision).retryCount[t] <= RejectBound
    /\ wf' = ApplyReviewDecision(wf, t, decision)

Next ==
    \/ \E t \in Tasks, runner \in {"acp", "manual"} : Dispatch(t, runner)
    \/ \E S \in SUBSET Tasks : Overflow(S)
    \/ \E t \in Tasks, s \in RunStatus : ReportRun(t, s)
    \/ \E t \in Tasks : Rearm(t) \/ Bury(t)
    \/ \E t \in Tasks, decision \in ReviewDecision : Decide(t, decision)

Spec == Init /\ [][Next]_wf

----------------------------------------------------------------------------

\* The workflow file always has the shape that its schema demands.
TypeOK == wf \in Workflow

\* Nobody who reads the file is misled: what needs a review is listed as
\* pending, "completed" and "reviewing" mean it, and no task waits for
\* dependencies that are already done.
Coherent == WorkflowCoherent(wf)

\* A task leaves "planned" only once everything it depends on is done, and
\* nothing it depends on is undone afterwards, by a rejection, a retry or a
\* late report: downstream work never outlives its grounds.
DependenciesHonoured ==
    \A t \in Tasks : wf.status[t] # "planned" => DependenciesDone(wf.status, t)

\* A task that a reviewer is asked about has been worked on and is not done, so
\* that no decision takes a finished task back or passes over one not begun.
ReviewIsOfUnfinished == \A t \in wf.reviewQueue : wf.status[t] \notin {"planned", "done"}

\* No step of any operation takes a task that is done out of "done".
DoneIsFinal ==
    [][\A t \in Tasks : wf.status[t] = "done" => wf'.status[t] = "done"]_wf
=============================================================================
