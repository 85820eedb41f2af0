----------------------------- MODULE ReviewGate -----------------------------
(***************************************************************************)
(* The transitions of a workflow, as functions from the workflow that an   *)
(* operation loaded to the one it saves: src/src/review/review-gate.ts,    *)
(* and the workflow that SwarmOrchestrator.runOnce, runBatch and           *)
(* evaluateRetry build (src/src/services/orchestrator.ts).                 *)
(*                                                                         *)
(* None of them looks at the status the task has: the code applies them to *)
(* whatever it finds.  What they preserve all the same is                  *)
(* WorkflowCoherent, at the end of the module.                             *)
(***************************************************************************)
EXTENDS TaskGraph

CONSTANTS
    ReviewRequired,     \* the tasks with review.required
    RejectPolicy,       \* config review.rejectPolicy
    MaxRejectRetries    \* config review.maxRejectRetries

ASSUME ReviewGateAssumption ==
    /\ ReviewRequired \subseteq Tasks
    /\ RejectPolicy \in {"blocked", "ready_retry"}
    /\ MaxRejectRetries \in Nat

RunStatus == {"accepted", "running", "completed", "failed", "cancelled", "timed_out"}

Lifecycle == {"idle", "planned", "running", "reviewing", "blocked", "completed", "failed"}

ReviewStatus == {"unset", "pending", "approved", "rejected"}

\* A workflow state file.  The review queue of the code is an array without
\* repetitions whose order nothing here reads: it is a set.
Workflow == [status      : [Tasks -> TaskStatus],
             review      : [Tasks -> ReviewStatus],
             retryCount  : [Tasks -> Nat],
             reviewQueue : SUBSET Tasks,
             lifecycle   : Lifecycle]

DeriveLifecycle(status, queue) ==
    IF queue # {} \/ \E t \in Tasks : status[t] = "review_required" THEN "reviewing"
    ELSE IF \A t \in Tasks : status[t] = "done" THEN "completed"
    ELSE IF \E t \in Tasks : status[t] \in {"running", "queued"} THEN "running"
    ELSE IF \E t \in Tasks : status[t] = "blocked" THEN "blocked"
    ELSE "planned"

----------------------------------------------------------------------------
\* Outcomes of a run: applyAcpRunStatusToWorkflow.

\* Slip: the status of the run is stored as the status of the task.
RunActiveByRunStatus(w, t) ==
    [w EXCEPT !.status[t] = "accepted", !.lifecycle = "running"]

RunActive(w, t) ==
    [w EXCEPT !.status[t] = "running", !.lifecycle = "running"]

\* Slip: finishing a task does not promote the tasks that waited for it.
CompletedWithoutPromotion(w, t) ==
    LET gated  == t \in ReviewRequired
        status == [w.status EXCEPT ![t] = IF gated THEN "review_required" ELSE "done"]
        queue  == IF gated THEN w.reviewQueue \union {t} ELSE w.reviewQueue \ {t}
    IN  [w EXCEPT !.status = status, !.reviewQueue = queue,
                  !.review[t] = IF gated THEN "pending" ELSE @,
                  !.lifecycle = DeriveLifecycle(status, queue)]

RunCompleted(w, t) ==
    LET gated  == t \in ReviewRequired
        status == UpsertTaskStatuses(
                    [w.status EXCEPT ![t] = IF gated THEN "review_required" ELSE "done"])
        queue  == IF gated THEN w.reviewQueue \union {t} ELSE w.reviewQueue \ {t}
    IN  [w EXCEPT !.status = status, !.reviewQueue = queue,
                  !.review[t] = IF gated THEN "pending" ELSE @,
                  !.lifecycle = DeriveLifecycle(status, queue)]

\* Slip: a failed run marks its task for review but nobody is told.
FailedWithoutEnqueue(w, t) ==
    [w EXCEPT !.status[t] = "review_required", !.review[t] = "pending",
              !.lifecycle = "reviewing"]

RunFailed(w, t) ==
    [w EXCEPT !.status[t] = "review_required", !.review[t] = "pending",
              !.reviewQueue = @ \union {t}, !.lifecycle = "reviewing"]

RunCancelled(w, t) ==
    [w EXCEPT !.status[t] = "blocked", !.reviewQueue = @ \ {t}, !.lifecycle = "blocked"]

ApplyRunStatus(w, t, s) ==
    CASE s \in {"accepted", "running"} -> RunActive(w, t)
      [] s = "completed"               -> RunCompleted(w, t)
      [] s \in {"failed", "timed_out"} -> RunFailed(w, t)
      [] s = "cancelled"               -> RunCancelled(w, t)

----------------------------------------------------------------------------
\* Review decisions: applyReviewDecision.

\* Slip: an approved task stays in the review queue.
ApproveKeepingQueue(w, t) ==
    LET status == UpsertTaskStatuses([w.status EXCEPT ![t] = "done"])
    IN  [w EXCEPT !.status = status, !.review[t] = "approved",
                  !.lifecycle = DeriveLifecycle(status, w.reviewQueue)]

Approve(w, t) ==
    LET status == UpsertTaskStatuses([w.status EXCEPT ![t] = "done"])
        queue  == w.reviewQueue \ {t}
    IN  [w EXCEPT !.status = status, !.review[t] = "approved", !.reviewQueue = queue,
                  !.lifecycle = DeriveLifecycle(status, queue)]

RejectToBlocked(w, t) ==
    [w EXCEPT !.status[t] = "blocked", !.review[t] = "rejected",
              !.reviewQueue = @ \ {t}, !.lifecycle = "blocked"]

RejectForRetry(w, t, maxRetries) ==
    IF w.retryCount[t] < maxRetries
    THEN [w EXCEPT !.status[t] = "ready", !.review[t] = "rejected",
                   !.retryCount[t] = @ + 1,
                   !.reviewQueue = @ \ {t}, !.lifecycle = "planned"]
    ELSE [RejectToBlocked(w, t) EXCEPT !.retryCount[t] = @ + 1]

ReviewDecision == {"approve", "reject", "retry_now"}

\* "retry_now" is a reject with --retry-now: it retries without a limit.
ApplyReviewDecision(w, t, decision) ==
    CASE decision = "approve"   -> Approve(w, t)
      [] decision = "retry_now" -> RejectForRetry(w, t, w.retryCount[t] + 1)
      [] decision = "reject"    -> IF RejectPolicy = "ready_retry"
                                   THEN RejectForRetry(w, t, MaxRejectRetries)
                                   ELSE RejectToBlocked(w, t)

----------------------------------------------------------------------------
\* The workflows that the orchestrator builds itself.

InitialWorkflow ==
    [status      |-> UpsertTaskStatuses([t \in Tasks |-> "planned"]),
     review      |-> [t \in Tasks |-> "unset"],
     retryCount  |-> [t \in Tasks |-> 0],
     reviewQueue |-> {},
     lifecycle   |-> "planned"]

\* Slip: runOnce records the run but leaves the status of the task alone.
DispatchedUnmarked(w, t, runner) ==
    [w EXCEPT !.reviewQueue = @ \ {t},
              !.lifecycle = DeriveLifecycle(w.status, w.reviewQueue \ {t})]

\* What runOnce saves: an ACP run leaves the task running, a manual run ends at once.
Dispatched(w, t, runner) ==
    LET next   == IF runner = "acp" THEN "running"
                  ELSE IF t \in ReviewRequired THEN "review_required" ELSE "done"
        status == UpsertTaskStatuses([w.status EXCEPT ![t] = next])
        queue  == IF next = "review_required" THEN w.reviewQueue \union {t}
                  ELSE w.reviewQueue \ {t}
    IN  [w EXCEPT !.status = status, !.reviewQueue = queue,
                  !.review[t] = IF next = "review_required" THEN "pending" ELSE @,
                  !.lifecycle = DeriveLifecycle(status, queue)]

\* What runBatch saves for the tasks it found no slot for.
MarkQueued(w, S) ==
    [w EXCEPT !.status = [t \in Tasks |-> IF t \in S /\ @[t] \in {"ready", "planned"}
                                          THEN "queued" ELSE @[t]]]

\* What evaluateRetry saves before it runs the task again, and when it gives up.
\* Neither takes the task off the review queue.
RearmedForRetry(w, t) == [w EXCEPT !.status[t] = "ready", !.lifecycle = "planned"]

DeadLettered(w, t) == [w EXCEPT !.status[t] = "dead_letter"]

----------------------------------------------------------------------------
(***************************************************************************)
(* What every transition preserves, from any coherent workflow.            *)
(***************************************************************************)

\* A task that needs a review is in the queue the reviewer is shown, pending.
ReviewNeverForgotten(w) ==
    \A t \in Tasks : w.status[t] = "review_required" =>
                        t \in w.reviewQueue /\ w.review[t] = "pending"

\* A workflow reported completed has nothing left to do.
CompletedIsSettled(w) ==
    w.lifecycle = "completed" =>
        /\ \A t \in Tasks : w.status[t] \in {"done", "dead_letter"}
        /\ w.reviewQueue = {}

\* A workflow reported as reviewing has something to review.
ReviewingHasWork(w) == w.lifecycle = "reviewing" => w.reviewQueue # {}

\* No task is left planned once its dependencies are done.
NobodyLeftPlanned(w) ==
    \A t \in Tasks : w.status[t] = "planned" => ~DependenciesDone(w.status, t)

WorkflowCoherent(w) ==
    /\ ReviewNeverForgotten(w)
    /\ CompletedIsSettled(w)
    /\ ReviewingHasWork(w)
    /\ NobodyLeftPlanned(w)
=============================================================================
