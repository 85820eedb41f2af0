-------------------------- MODULE ReviewGateProofs --------------------------
(***************************************************************************)
(* Every transition of ReviewGate takes a workflow to a workflow, and a    *)
(* coherent one to a coherent one, whatever the task it is applied to.     *)
(* Those that the state of the task permits (Transition) keep it orderly   *)
(* besides: no task has left planned before its dependencies are done, and *)
(* the review queue holds unfinished tasks only.                           *)
(***************************************************************************)
EXTENDS ReviewGate, TLAPS

----------------------------------------------------------------------------
\* The promotion of planned tasks.

\* Promotion keeps a status function one.
LEMMA UpsertType ==
    ASSUME NEW status \in [Tasks -> TaskStatus]
    PROVE  UpsertTaskStatuses(status) \in [Tasks -> TaskStatus]
BY DEF UpsertTaskStatuses, TaskStatus

\* Promotion makes planned tasks ready and leaves the others alone.
LEMMA UpsertKeeps ==
    ASSUME NEW status \in [Tasks -> TaskStatus], NEW t \in Tasks
    PROVE  /\ status[t] # "planned" => UpsertTaskStatuses(status)[t] = status[t]
           /\ UpsertTaskStatuses(status)[t] # status[t] =>
                 /\ status[t] = "planned"
                 /\ UpsertTaskStatuses(status)[t] = "ready"
                 /\ DependenciesDone(status, t)
BY DEF UpsertTaskStatuses, RunnableTasks

\* Promotion finishes nobody, so the same dependencies are done afterwards.
LEMMA UpsertKeepsDone ==
    ASSUME NEW status \in [Tasks -> TaskStatus], NEW t \in Tasks
    PROVE  DependenciesDone(UpsertTaskStatuses(status), t) <=> DependenciesDone(status, t)
<1>1. \A d \in Tasks : UpsertTaskStatuses(status)[d] = "done" <=> status[d] = "done"
  BY UpsertKeeps
<1>2. \A d \in Deps[t] : d \in Tasks
  BY TaskGraphAssumption
<1> QED
  BY <1>1, <1>2 DEF DependenciesDone

\* After a promotion, nobody is planned whose dependencies are done.
LEMMA UpsertPromotes ==
    ASSUME NEW status \in [Tasks -> TaskStatus], NEW t \in Tasks,
           UpsertTaskStatuses(status)[t] = "planned"
    PROVE  ~DependenciesDone(UpsertTaskStatuses(status), t)
<1>1. status[t] = "planned"
  BY UpsertKeeps
<1>2. t \notin RunnableTasks(status)
  BY <1>1 DEF UpsertTaskStatuses
<1>3. ~DependenciesDone(status, t)
  BY <1>1, <1>2 DEF RunnableTasks
<1> QED
  BY <1>3, UpsertKeepsDone

----------------------------------------------------------------------------
\* Types.

LEMMA DeriveLifecycleType ==
    ASSUME NEW status, NEW queue
    PROVE  DeriveLifecycle(status, queue) \in Lifecycle
BY DEF DeriveLifecycle, Lifecycle

\* A derived lifecycle says "reviewing" or "completed" only when that is so.
LEMMA DeriveLifecycleHonest ==
    ASSUME NEW status, NEW queue
    PROVE  /\ DeriveLifecycle(status, queue) = "reviewing" =>
                 queue # {} \/ \E t \in Tasks : status[t] = "review_required"
           /\ DeriveLifecycle(status, queue) = "completed" =>
                 queue = {} /\ \A t \in Tasks : status[t] = "done"
BY DEF DeriveLifecycle

LEMMA InitialType == InitialWorkflow \in Workflow
<1>1. [t \in Tasks |-> "planned"] \in [Tasks -> TaskStatus]
  BY DEF TaskStatus
<1>2. UpsertTaskStatuses([t \in Tasks |-> "planned"]) \in [Tasks -> TaskStatus]
  BY <1>1, UpsertType
<1> QED
  BY <1>2 DEF InitialWorkflow, Workflow, ReviewStatus, Lifecycle

LEMMA RunActiveType ==
    ASSUME NEW w \in Workflow, NEW t \in Tasks
    PROVE  RunActive(w, t) \in Workflow
BY DEF RunActive, Workflow, TaskStatus, Lifecycle

LEMMA RunCompletedType ==
    ASSUME NEW w \in Workflow, NEW t \in Tasks
    PROVE  RunCompleted(w, t) \in Workflow
<1> DEFINE gated  == t \in ReviewRequired
           mid    == [w.status EXCEPT ![t] = IF gated THEN "review_required" ELSE "done"]
           status == UpsertTaskStatuses(mid)
           queue  == IF gated THEN w.reviewQueue \union {t} ELSE w.reviewQueue \ {t}
<1>1. mid \in [Tasks -> TaskStatus]
  BY DEF Workflow, TaskStatus
<1>2. status \in [Tasks -> TaskStatus]
  BY <1>1, UpsertType
<1>3. DeriveLifecycle(status, queue) \in Lifecycle
  BY DeriveLifecycleType
<1> QED
  BY <1>2, <1>3 DEF RunCompleted, Workflow, ReviewStatus

LEMMA RunFailedType ==
    ASSUME NEW w \in Workflow, NEW t \in Tasks
    PROVE  RunFailed(w, t) \in Workflow
BY DEF RunFailed, Workflow, TaskStatus, ReviewStatus, Lifecycle

LEMMA RunCancelledType ==
    ASSUME NEW w \in Workflow, NEW t \in Tasks
    PROVE  RunCancelled(w, t) \in Workflow
BY DEF RunCancelled, Workflow, TaskStatus, Lifecycle

LEMMA ApproveType ==
    ASSUME NEW w \in Workflow, NEW t \in Tasks
    PROVE  Approve(w, t) \in Workflow
<1> DEFINE mid    == [w.status EXCEPT ![t] = "done"]
           status == UpsertTaskStatuses(mid)
<1>1. mid \in [Tasks -> TaskStatus]
  BY DEF Workflow, TaskStatus
<1>2. status \in [Tasks -> TaskStatus]
  BY <1>1, UpsertType
<1>3. DeriveLifecycle(status, w.reviewQueue \ {t}) \in Lifecycle
  BY DeriveLifecycleType
<1> QED
  BY <1>2, <1>3 DEF Approve, Workflow, ReviewStatus

LEMMA RejectToBlockedType ==
    ASSUME NEW w \in Workflow, NEW t \in Tasks
    PROVE  RejectToBlocked(w, t) \in Workflow
BY DEF RejectToBlocked, Workflow, TaskStatus, ReviewStatus, Lifecycle

LEMMA RejectForRetryType ==
    ASSUME NEW w \in Workflow, NEW t \in Tasks, NEW maxRetries
    PROVE  RejectForRetry(w, t, maxRetries) \in Workflow
<1>1. RejectToBlocked(w, t) \in Workflow
  BY RejectToBlockedType
<1>2. CASE w.retryCount[t] < maxRetries
  <2>1. w.retryCount[t] + 1 \in Nat
    BY DEF Workflow
  <2>2. \A n \in Nat : [w EXCEPT !.status[t] = "ready", !.review[t] = "rejected",
                                 !.retryCount[t] = n, !.reviewQueue = @ \ {t},
                                 !.lifecycle = "planned"] \in Workflow
    BY DEF Workflow, TaskStatus, ReviewStatus, Lifecycle
  <2>3. RejectForRetry(w, t, maxRetries) =
            [w EXCEPT !.status[t] = "ready", !.review[t] = "rejected",
                      !.retryCount[t] = w.retryCount[t] + 1, !.reviewQueue = @ \ {t},
                      !.lifecycle = "planned"]
    BY <1>2, Zenon DEF RejectForRetry
  <2> QED
    BY <2>1, <2>2, <2>3
<1>3. CASE ~(w.retryCount[t] < maxRetries)
  <2> DEFINE v == RejectToBlocked(w, t)
  <2> HIDE DEF v
  <2>1. v.retryCount[t] + 1 \in Nat
    BY <1>1 DEF Workflow, v
  <2>2. \A u \in Workflow, n \in Nat : [u EXCEPT !.retryCount[t] = n] \in Workflow
    BY DEF Workflow
  <2>3. [v EXCEPT !.retryCount[t] = v.retryCount[t] + 1] \in Workflow
    BY <1>1, <2>1, <2>2, Zenon DEF v
  <2>4. RejectForRetry(w, t, maxRetries) = [v EXCEPT !.retryCount[t] = v.retryCount[t] + 1]
    BY <1>3, Zenon DEF RejectForRetry, v
  <2> QED
    BY <2>3, <2>4
<1> QED
  BY <1>2, <1>3

LEMMA DispatchedType ==
    ASSUME NEW w \in Workflow, NEW t \in Tasks, NEW runner \in {"acp", "manual"}
    PROVE  Dispatched(w, t, runner) \in Workflow
<1> DEFINE next   == IF runner = "acp" THEN "running"
                     ELSE IF t \in ReviewRequired THEN "review_required" ELSE "done"
           mid    == [w.status EXCEPT ![t] = next]
           status == UpsertTaskStatuses(mid)
           queue  == IF next = "review_required" THEN w.reviewQueue \union {t}
                     ELSE w.reviewQueue \ {t}
<1>1. mid \in [Tasks -> TaskStatus]
  BY DEF Workflow, TaskStatus
<1>2. status \in [Tasks -> TaskStatus]
  BY <1>1, UpsertType
<1>3. DeriveLifecycle(status, queue) \in Lifecycle
  BY DeriveLifecycleType
<1> QED
  BY <1>2, <1>3 DEF Dispatched, Workflow, ReviewStatus

LEMMA MarkQueuedType ==
    ASSUME NEW w \in Workflow, NEW S \in SUBSET Tasks
    PROVE  MarkQueued(w, S) \in Workflow
BY DEF MarkQueued, Workflow, TaskStatus

LEMMA RearmedType ==
    ASSUME NEW w \in Workflow, NEW t \in Tasks
    PROVE  RearmedForRetry(w, t) \in Workflow
BY DEF RearmedForRetry, Workflow, TaskStatus, Lifecycle

LEMMA DeadLetteredType ==
    ASSUME NEW w \in Workflow, NEW t \in Tasks
    PROVE  DeadLettered(w, t) \in Workflow
BY DEF DeadLettered, Workflow, TaskStatus

\* Applying the status of a run yields a workflow.
LEMMA ApplyRunStatusType ==
    ASSUME NEW w \in Workflow, NEW t \in Tasks, NEW s \in RunStatus
    PROVE  ApplyRunStatus(w, t, s) \in Workflow
BY RunActiveType, RunCompletedType, RunFailedType, RunCancelledType
   DEF ApplyRunStatus, RunStatus

\* Applying a review decision yields a workflow.
LEMMA ApplyReviewDecisionType ==
    ASSUME NEW w \in Workflow, NEW t \in Tasks, NEW decision \in ReviewDecision
    PROVE  ApplyReviewDecision(w, t, decision) \in Workflow
BY ApproveType, RejectToBlockedType, RejectForRetryType
   DEF ApplyReviewDecision, ReviewDecision

----------------------------------------------------------------------------
\* Coherence.

\* A workflow that was just promoted, and whose lifecycle was just derived, is
\* coherent as soon as its queue holds what is under review.
LEMMA DerivedIsCoherent ==
    ASSUME NEW v, NEW mid \in [Tasks -> TaskStatus],
           v.status = UpsertTaskStatuses(mid),
           v.lifecycle = DeriveLifecycle(v.status, v.reviewQueue),
           ReviewNeverForgotten(v)
    PROVE  WorkflowCoherent(v)
<1>1. CompletedIsSettled(v)
  BY DeriveLifecycleHonest DEF CompletedIsSettled
<1>2. ReviewingHasWork(v)
  BY DeriveLifecycleHonest DEF ReviewingHasWork, ReviewNeverForgotten
<1>3. NobodyLeftPlanned(v)
  BY UpsertPromotes DEF NobodyLeftPlanned
<1> QED
  BY <1>1, <1>2, <1>3 DEF WorkflowCoherent

\* Giving one task a status other than planned and done completes nobody's
\* dependencies.
LEMMA StillNobodyLeftPlanned ==
    ASSUME NEW w \in Workflow, NEW v, NEW t \in Tasks,
           NEW s \in TaskStatus \ {"planned", "done"},
           v.status = [w.status EXCEPT ![t] = s],
           NobodyLeftPlanned(w)
    PROVE  NobodyLeftPlanned(v)
<1> SUFFICES ASSUME NEW u \in Tasks, v.status[u] = "planned"
             PROVE  ~DependenciesDone(v.status, u)
  BY DEF NobodyLeftPlanned
<1>1. w.status \in [Tasks -> TaskStatus]
  BY DEF Workflow
<1>2. w.status[u] = "planned"
  BY <1>1
<1>3. PICK d \in Deps[u] : w.status[d] # "done"
  BY <1>2 DEF NobodyLeftPlanned, DependenciesDone
<1>4. d \in Tasks
  BY TaskGraphAssumption
<1>5. v.status[d] # "done"
  BY <1>1, <1>3, <1>4
<1> QED
  BY <1>5 DEF DependenciesDone

LEMMA InitialCoherent == WorkflowCoherent(InitialWorkflow)
<1> DEFINE mid == [t \in Tasks |-> "planned"]
<1>1. mid \in [Tasks -> TaskStatus]
  BY DEF TaskStatus
<1>2. /\ InitialWorkflow.status = UpsertTaskStatuses(mid)
      /\ InitialWorkflow.lifecycle = "planned"
  BY DEF InitialWorkflow
<1>3. NobodyLeftPlanned(InitialWorkflow)
  BY <1>1, <1>2, UpsertPromotes DEF NobodyLeftPlanned
<1>4. ReviewNeverForgotten(InitialWorkflow)
  <2>1. \A t \in Tasks : InitialWorkflow.status[t] # "review_required"
    BY <1>1, <1>2, UpsertKeeps
  <2> QED
    BY <2>1 DEF ReviewNeverForgotten
<1> QED
  BY <1>2, <1>3, <1>4 DEF WorkflowCoherent, CompletedIsSettled, ReviewingHasWork

LEMMA RunActiveCoherent ==
    ASSUME NEW w \in Workflow, NEW t \in Tasks, WorkflowCoherent(w)
    PROVE  WorkflowCoherent(RunActive(w, t))
<1> DEFINE v == RunActive(w, t)
<1>1. /\ v.status = [w.status EXCEPT ![t] = "running"]
      /\ v.review = w.review /\ v.reviewQueue = w.reviewQueue
      /\ v.lifecycle = "running"
  BY DEF RunActive, Workflow
<1> HIDE DEF v
<1>2. NobodyLeftPlanned(v)
  BY <1>1, StillNobodyLeftPlanned DEF WorkflowCoherent, TaskStatus
<1>3. ReviewNeverForgotten(v)
  BY <1>1 DEF WorkflowCoherent, ReviewNeverForgotten, Workflow
<1> QED
  BY <1>1, <1>2, <1>3 DEF WorkflowCoherent, CompletedIsSettled, ReviewingHasWork, v

LEMMA RunCompletedCoherent ==
    ASSUME NEW w \in Workflow, NEW t \in Tasks, WorkflowCoherent(w)
    PROVE  WorkflowCoherent(RunCompleted(w, t))
<1> DEFINE v == RunCompleted(w, t)
           gated  == t \in ReviewRequired
           mid    == [w.status EXCEPT ![t] = IF gated THEN "review_required" ELSE "done"]
<1>1. /\ v.status = UpsertTaskStatuses(mid)
      /\ v.review = [w.review EXCEPT ![t] = IF gated THEN "pending" ELSE @]
      /\ v.reviewQueue = IF gated THEN w.reviewQueue \union {t} ELSE w.reviewQueue \ {t}
      /\ v.lifecycle = DeriveLifecycle(v.status, v.reviewQueue)
  BY DEF RunCompleted, Workflow
<1>2. mid \in [Tasks -> TaskStatus]
  BY DEF Workflow, TaskStatus
<1>3. \A u \in Tasks : v.status[u] = "review_required" => mid[u] = "review_required"
  BY <1>1, <1>2, UpsertKeeps
<1>4. ReviewNeverForgotten(v)
  <2> HIDE DEF v
  <2> QED
    BY <1>1, <1>3 DEF WorkflowCoherent, ReviewNeverForgotten, Workflow
<1> QED
  BY <1>1, <1>2, <1>4, DerivedIsCoherent

LEMMA RunFailedCoherent ==
    ASSUME NEW w \in Workflow, NEW t \in Tasks, WorkflowCoherent(w)
    PROVE  WorkflowCoherent(RunFailed(w, t))
<1> DEFINE v == RunFailed(w, t)
<1>1. /\ v.status = [w.status EXCEPT ![t] = "review_required"]
      /\ v.review = [w.review EXCEPT ![t] = "pending"]
      /\ v.reviewQueue = w.reviewQueue \union {t}
      /\ v.lifecycle = "reviewing"
  BY DEF RunFailed, Workflow
<1> HIDE DEF v
<1>2. NobodyLeftPlanned(v)
  BY <1>1, StillNobodyLeftPlanned DEF WorkflowCoherent, TaskStatus
<1>3. ReviewNeverForgotten(v)
  BY <1>1 DEF WorkflowCoherent, ReviewNeverForgotten, Workflow
<1> QED
  BY <1>1, <1>2, <1>3 DEF WorkflowCoherent, CompletedIsSettled, ReviewingHasWork, v

\* A cancelled run and a rejection block the task and take it off the queue.
LEMMA BlockingCoherent ==
    ASSUME NEW w \in Workflow, NEW v, NEW t \in Tasks, WorkflowCoherent(w),
           v.status = [w.status EXCEPT ![t] = "blocked"],
           \A u \in Tasks : u # t => v.review[u] = w.review[u],
           v.reviewQueue = w.reviewQueue \ {t},
           v.lifecycle = "blocked"
    PROVE  WorkflowCoherent(v)
<1>1. NobodyLeftPlanned(v)
  BY StillNobodyLeftPlanned DEF WorkflowCoherent, TaskStatus
<1>2. ReviewNeverForgotten(v)
  BY DEF WorkflowCoherent, ReviewNeverForgotten, Workflow
<1> QED
  BY <1>1, <1>2 DEF WorkflowCoherent, CompletedIsSettled, ReviewingHasWork

LEMMA RunCancelledCoherent ==
    ASSUME NEW w \in Workflow, NEW t \in Tasks, WorkflowCoherent(w)
    PROVE  WorkflowCoherent(RunCancelled(w, t))
<1> DEFINE v == RunCancelled(w, t)
<1>1. /\ v.status = [w.status EXCEPT ![t] = "blocked"]
      /\ v.review = w.review
      /\ v.reviewQueue = w.reviewQueue \ {t}
      /\ v.lifecycle = "blocked"
  BY DEF RunCancelled, Workflow
<1> QED
  BY <1>1, BlockingCoherent

LEMMA ApproveCoherent ==
    ASSUME NEW w \in Workflow, NEW t \in Tasks, WorkflowCoherent(w)
    PROVE  WorkflowCoherent(Approve(w, t))
<1> DEFINE v   == Approve(w, t)
           mid == [w.status EXCEPT ![t] = "done"]
<1>1. /\ v.status = UpsertTaskStatuses(mid)
      /\ v.review = [w.review EXCEPT ![t] = "approved"]
      /\ v.reviewQueue = w.reviewQueue \ {t}
      /\ v.lifecycle = DeriveLifecycle(v.status, v.reviewQueue)
  BY DEF Approve, Workflow
<1>2. mid \in [Tasks -> TaskStatus]
  BY DEF Workflow, TaskStatus
<1>3. \A u \in Tasks : v.status[u] = "review_required" => mid[u] = "review_required"
  BY <1>1, <1>2, UpsertKeeps
<1>4. ReviewNeverForgotten(v)
  <2> HIDE DEF v
  <2> QED
    BY <1>1, <1>3 DEF WorkflowCoherent, ReviewNeverForgotten, Workflow
<1> QED
  BY <1>1, <1>2, <1>4, DerivedIsCoherent

LEMMA RejectToBlockedCoherent ==
    ASSUME NEW w \in Workflow, NEW t \in Tasks, WorkflowCoherent(w)
    PROVE  WorkflowCoherent(RejectToBlocked(w, t))
<1> DEFINE v == RejectToBlocked(w, t)
<1>1. /\ v.status = [w.status EXCEPT ![t] = "blocked"]
      /\ v.review = [w.review EXCEPT ![t] = "rejected"]
      /\ v.reviewQueue = w.reviewQueue \ {t}
      /\ v.lifecycle = "blocked"
  BY DEF RejectToBlocked, Workflow
<1> HIDE DEF v
<1>2. \A u \in Tasks : u # t => v.review[u] = w.review[u]
  BY <1>1 DEF Workflow
<1>3. WorkflowCoherent(v)
  BY <1>1, <1>2, BlockingCoherent
<1> QED
  BY <1>3 DEF v

LEMMA RejectForRetryCoherent ==
    ASSUME NEW w \in Workflow, NEW t \in Tasks, NEW maxRetries, WorkflowCoherent(w)
    PROVE  WorkflowCoherent(RejectForRetry(w, t, maxRetries))
<1> DEFINE v == RejectForRetry(w, t, maxRetries)
<1>1. CASE w.retryCount[t] < maxRetries
  <2>1. /\ v.status = [w.status EXCEPT ![t] = "ready"]
        /\ v.review = [w.review EXCEPT ![t] = "rejected"]
        /\ v.reviewQueue = w.reviewQueue \ {t}
        /\ v.lifecycle = "planned"
    BY <1>1 DEF RejectForRetry, Workflow
  <2> HIDE DEF v
  <2>2. NobodyLeftPlanned(v)
    BY <2>1, StillNobodyLeftPlanned DEF WorkflowCoherent, TaskStatus
  <2>3. ReviewNeverForgotten(v)
    BY <2>1 DEF WorkflowCoherent, ReviewNeverForgotten, Workflow
  <2>4. WorkflowCoherent(v)
    BY <2>1, <2>2, <2>3 DEF WorkflowCoherent, CompletedIsSettled, ReviewingHasWork
  <2> QED
    BY <2>4 DEF v
<1>2. CASE ~(w.retryCount[t] < maxRetries)
  <2> DEFINE b == RejectToBlocked(w, t)
  <2>1. b \in Workflow /\ WorkflowCoherent(b)
    BY RejectToBlockedType, RejectToBlockedCoherent
  <2>2. v = [b EXCEPT !.retryCount[t] = b.retryCount[t] + 1]
    BY <1>2, Zenon DEF RejectForRetry
  <2> HIDE DEF v, b
  <2>3. /\ v.status = b.status /\ v.review = b.review
        /\ v.reviewQueue = b.reviewQueue /\ v.lifecycle = b.lifecycle
    BY <2>1, <2>2 DEF Workflow
  <2>4. WorkflowCoherent(v)
    BY <2>1, <2>3 DEF WorkflowCoherent, ReviewNeverForgotten, CompletedIsSettled,
                      ReviewingHasWork, NobodyLeftPlanned
  <2> QED
    BY <2>4 DEF v
<1> QED
  BY <1>1, <1>2

LEMMA DispatchedCoherent ==
    ASSUME NEW w \in Workflow, NEW t \in Tasks, NEW runner \in {"acp", "manual"},
           WorkflowCoherent(w)
    PROVE  WorkflowCoherent(Dispatched(w, t, runner))
<1> DEFINE v    == Dispatched(w, t, runner)
           next == IF runner = "acp" THEN "running"
                   ELSE IF t \in ReviewRequired THEN "review_required" ELSE "done"
           mid  == [w.status EXCEPT ![t] = next]
<1>1. /\ v.status = UpsertTaskStatuses(mid)
      /\ v.review = [w.review EXCEPT ![t] = IF next = "review_required"
                                            THEN "pending" ELSE @]
      /\ v.reviewQueue = IF next = "review_required" THEN w.reviewQueue \union {t}
                         ELSE w.reviewQueue \ {t}
      /\ v.lifecycle = DeriveLifecycle(v.status, v.reviewQueue)
  BY DEF Dispatched, Workflow
<1>2. mid \in [Tasks -> TaskStatus]
  BY DEF Workflow, TaskStatus
<1>3. \A u \in Tasks : v.status[u] = "review_required" => mid[u] = "review_required"
  BY <1>1, <1>2, UpsertKeeps
<1>4. ReviewNeverForgotten(v)
  <2> HIDE DEF v, next
  <2> QED
    BY <1>1, <1>3 DEF WorkflowCoherent, ReviewNeverForgotten, Workflow
<1> QED
  BY <1>1, <1>2, <1>4, DerivedIsCoherent

LEMMA MarkQueuedCoherent ==
    ASSUME NEW w \in Workflow, NEW S \in SUBSET Tasks, WorkflowCoherent(w)
    PROVE  WorkflowCoherent(MarkQueued(w, S))
<1> DEFINE v == MarkQueued(w, S)
<1>1. /\ v.status = [t \in Tasks |->
                       IF t \in S /\ w.status[t] \in {"ready", "planned"}
                       THEN "queued" ELSE w.status[t]]
      /\ v.review = w.review /\ v.reviewQueue = w.reviewQueue
      /\ v.lifecycle = w.lifecycle
  BY DEF MarkQueued, Workflow
<1> HIDE DEF v
<1>2. \A t \in Tasks : \/ v.status[t] = w.status[t]
                         \/ /\ w.status[t] \in {"ready", "planned"}
                            /\ v.status[t] = "queued"
  BY <1>1
<1>3. ReviewNeverForgotten(v) /\ ReviewingHasWork(v)
  BY <1>1, <1>2 DEF WorkflowCoherent, ReviewNeverForgotten, ReviewingHasWork
<1>4. CompletedIsSettled(v)
  BY <1>1, <1>2 DEF WorkflowCoherent, CompletedIsSettled
<1>5. NobodyLeftPlanned(v)
  <2> SUFFICES ASSUME NEW u \in Tasks, v.status[u] = "planned"
               PROVE  ~DependenciesDone(v.status, u)
    BY DEF NobodyLeftPlanned
  <2>1. PICK d \in Deps[u] : w.status[d] # "done"
    BY <1>2 DEF WorkflowCoherent, NobodyLeftPlanned, DependenciesDone
  <2>2. d \in Tasks
    BY TaskGraphAssumption
  <2> QED
    BY <1>2, <2>1, <2>2 DEF DependenciesDone
<1>6. WorkflowCoherent(v)
  BY <1>3, <1>4, <1>5 DEF WorkflowCoherent
<1> QED
  BY <1>6 DEF v

LEMMA RearmedCoherent ==
    ASSUME NEW w \in Workflow, NEW t \in Tasks, WorkflowCoherent(w)
    PROVE  WorkflowCoherent(RearmedForRetry(w, t))
<1> DEFINE v == RearmedForRetry(w, t)
<1>1. /\ v.status = [w.status EXCEPT ![t] = "ready"]
      /\ v.review = w.review /\ v.reviewQueue = w.reviewQueue
      /\ v.lifecycle = "planned"
  BY DEF RearmedForRetry, Workflow
<1> HIDE DEF v
<1>2. NobodyLeftPlanned(v)
  BY <1>1, StillNobodyLeftPlanned DEF WorkflowCoherent, TaskStatus
<1>3. ReviewNeverForgotten(v)
  BY <1>1 DEF WorkflowCoherent, ReviewNeverForgotten, Workflow
<1> QED
  BY <1>1, <1>2, <1>3 DEF WorkflowCoherent, CompletedIsSettled, ReviewingHasWork, v

LEMMA DeadLetteredCoherent ==
    ASSUME NEW w \in Workflow, NEW t \in Tasks, WorkflowCoherent(w)
    PROVE  WorkflowCoherent(DeadLettered(w, t))
<1> DEFINE v == DeadLettered(w, t)
<1>1. /\ v.status = [w.status EXCEPT ![t] = "dead_letter"]
      /\ v.review = w.review /\ v.reviewQueue = w.reviewQueue
      /\ v.lifecycle = w.lifecycle
  BY DEF DeadLettered, Workflow
<1> HIDE DEF v
<1>2. NobodyLeftPlanned(v)
  BY <1>1, StillNobodyLeftPlanned DEF WorkflowCoherent, TaskStatus
<1>3. ReviewNeverForgotten(v)
  BY <1>1 DEF WorkflowCoherent, ReviewNeverForgotten, Workflow
<1>4. CompletedIsSettled(v) /\ ReviewingHasWork(v)
  BY <1>1 DEF WorkflowCoherent, CompletedIsSettled, ReviewingHasWork, Workflow
<1> QED
  BY <1>2, <1>3, <1>4 DEF WorkflowCoherent, v

\* Whatever a run reports, of whatever task, it leaves the workflow coherent.
LEMMA ApplyRunStatusCoherent ==
    ASSUME NEW w \in Workflow, NEW t \in Tasks, NEW s \in RunStatus, WorkflowCoherent(w)
    PROVE  WorkflowCoherent(ApplyRunStatus(w, t, s))
BY RunActiveCoherent, RunCompletedCoherent, RunFailedCoherent, RunCancelledCoherent
   DEF ApplyRunStatus, RunStatus

\* Whatever a reviewer decides, of whatever task, it leaves the workflow coherent.
LEMMA ApplyReviewDecisionCoherent ==
    ASSUME NEW w \in Workflow, NEW t \in Tasks, NEW decision \in ReviewDecision,
           WorkflowCoherent(w)
    PROVE  WorkflowCoherent(ApplyReviewDecision(w, t, decision))
BY ApproveCoherent, RejectToBlockedCoherent, RejectForRetryCoherent
   DEF ApplyReviewDecision, ReviewDecision
----------------------------------------------------------------------------
(***************************************************************************)
(* What a transition does to the order of the work, when the task is one   *)
(* that it makes sense for.                                                *)
(***************************************************************************)

Honoured(status) == \A t \in Tasks : status[t] # "planned" => DependenciesDone(status, t)

Unfinished(status, queue) == \A t \in queue : status[t] \notin {"planned", "done"}

DoneKept(old, new) == \A t \in Tasks : old[t] = "done" => new[t] = "done"

\* Every operation but the queueing of the overflow gives one task a new
\* status, promotes the tasks that waited or not, and adds that task to the
\* queue or removes it.
Moves(w, v, t, next) ==
    /\ \/ v.status = [w.status EXCEPT ![t] = next]
       \/ v.status = UpsertTaskStatuses([w.status EXCEPT ![t] = next])
    /\ v.reviewQueue \subseteq w.reviewQueue \union {t}
    /\ next = "done" => t \notin v.reviewQueue

----------------------------------------------------------------------------
\* A promotion keeps the invariants.
LEMMA UpsertHonoured ==
    ASSUME NEW status \in [Tasks -> TaskStatus], Honoured(status)
    PROVE  Honoured(UpsertTaskStatuses(status))
<1> SUFFICES ASSUME NEW t \in Tasks, UpsertTaskStatuses(status)[t] # "planned"
             PROVE  DependenciesDone(UpsertTaskStatuses(status), t)
  BY DEF Honoured
<1>1. DependenciesDone(status, t)
  BY UpsertKeeps DEF Honoured
<1> QED
  BY <1>1, UpsertKeepsDone

\* So does a move of a task that may move and is not done.
LEMMA MoveKeeps ==
    ASSUME NEW w \in Workflow, NEW v, NEW t \in Tasks,
           NEW next \in TaskStatus \ {"planned"},
           Moves(w, v, t, next),
           w.status[t] # "done",
           DependenciesDone(w.status, t),
           Honoured(w.status),
           Unfinished(w.status, w.reviewQueue)
    PROVE  /\ Honoured(v.status)
           /\ Unfinished(v.status, v.reviewQueue)
           /\ DoneKept(w.status, v.status)
<1> DEFINE mid == [w.status EXCEPT ![t] = next]
<1>1. w.status \in [Tasks -> TaskStatus] /\ w.reviewQueue \subseteq Tasks
  BY DEF Workflow
<1>2. mid \in [Tasks -> TaskStatus]
  BY <1>1
<1>3. DoneKept(w.status, mid)
  BY <1>1 DEF DoneKept
<1>4. Honoured(mid)
  <2> SUFFICES ASSUME NEW u \in Tasks, mid[u] # "planned", NEW d \in Deps[u]
               PROVE  mid[d] = "done"
    BY DEF Honoured, DependenciesDone
  <2>1. d \in Tasks
    BY TaskGraphAssumption
  <2>2. w.status[d] = "done"
    BY <1>1 DEF Honoured, DependenciesDone
  <2> QED
    BY <1>3, <2>1, <2>2 DEF DoneKept
<1>5. Unfinished(mid, v.reviewQueue)
  BY <1>1 DEF Unfinished, Moves
<1>6. v.reviewQueue \subseteq Tasks
  BY <1>1 DEF Moves
<1> HIDE DEF mid
<1>7. CASE v.status = mid
  BY <1>3, <1>4, <1>5, <1>7
<1>8. CASE v.status = UpsertTaskStatuses(mid)
  <2>1. Honoured(v.status)
    BY <1>2, <1>4, <1>8, UpsertHonoured
  <2>2. \A u \in Tasks : mid[u] # "planned" => v.status[u] = mid[u]
    BY <1>2, <1>8, UpsertKeeps
  <2>3. Unfinished(v.status, v.reviewQueue)
    BY <1>5, <1>6, <2>2 DEF Unfinished
  <2>4. DoneKept(w.status, v.status)
    BY <1>3, <2>2 DEF DoneKept
  <2> QED
    BY <2>1, <2>3, <2>4
<1> QED
  BY <1>7, <1>8 DEF Moves, mid

----------------------------------------------------------------------------
\* Every operation moves the task it is about.

LEMMA DispatchMoves ==
    ASSUME NEW w \in Workflow, NEW t \in Tasks, NEW runner \in {"acp", "manual"}
    PROVE  \E next \in TaskStatus \ {"planned"} : Moves(w, Dispatched(w, t, runner), t, next)
<1> DEFINE v    == Dispatched(w, t, runner)
           next == IF runner = "acp" THEN "running"
                   ELSE IF t \in ReviewRequired THEN "review_required" ELSE "done"
<1>1. /\ v.status = UpsertTaskStatuses([w.status EXCEPT ![t] = next])
      /\ v.reviewQueue = IF next = "review_required" THEN w.reviewQueue \union {t}
                         ELSE w.reviewQueue \ {t}
  BY DEF Dispatched, Workflow
<1>2. Moves(w, v, t, next)
  <2> HIDE DEF v, next
  <2> QED
    BY <1>1 DEF Moves
<1>3. next \in TaskStatus \ {"planned"}
  BY DEF TaskStatus
<1> QED
  BY <1>2, <1>3

LEMMA ReportMoves ==
    ASSUME NEW w \in Workflow, NEW t \in Tasks, NEW s \in RunStatus
    PROVE  \E next \in TaskStatus \ {"planned"} : Moves(w, ApplyRunStatus(w, t, s), t, next)
<1>1. CASE s \in {"accepted", "running"}
  <2>1. Moves(w, RunActive(w, t), t, "running")
    BY DEF RunActive, Workflow, Moves
  <2> QED
    BY <1>1, <2>1 DEF ApplyRunStatus, TaskStatus
<1>2. CASE s = "completed"
  <2> DEFINE v    == RunCompleted(w, t)
             next == IF t \in ReviewRequired THEN "review_required" ELSE "done"
  <2>1. /\ v.status = UpsertTaskStatuses([w.status EXCEPT ![t] = next])
        /\ v.reviewQueue = IF t \in ReviewRequired THEN w.reviewQueue \union {t}
                           ELSE w.reviewQueue \ {t}
    BY DEF RunCompleted, Workflow
  <2>2. Moves(w, v, t, next)
    BY <2>1 DEF Moves
  <2> QED
    BY <1>2, <2>2 DEF ApplyRunStatus, TaskStatus
<1>3. CASE s \in {"failed", "timed_out"}
  <2>1. Moves(w, RunFailed(w, t), t, "review_required")
    BY DEF RunFailed, Workflow, Moves
  <2> QED
    BY <1>3, <2>1 DEF ApplyRunStatus, TaskStatus
<1>4. CASE s = "cancelled"
  <2>1. Moves(w, RunCancelled(w, t), t, "blocked")
    BY DEF RunCancelled, Workflow, Moves
  <2> QED
    BY <1>4, <2>1 DEF ApplyRunStatus, TaskStatus
<1> QED
  BY <1>1, <1>2, <1>3, <1>4 DEF RunStatus

LEMMA RetryMoves ==
    ASSUME NEW w \in Workflow, NEW t \in Tasks
    PROVE  /\ Moves(w, RearmedForRetry(w, t), t, "ready")
           /\ Moves(w, DeadLettered(w, t), t, "dead_letter")
BY DEF RearmedForRetry, DeadLettered, Workflow, Moves

LEMMA DecisionMoves ==
    ASSUME NEW w \in Workflow, NEW t \in Tasks, NEW decision \in ReviewDecision
    PROVE  \E next \in {"done", "ready", "blocked"} :
              /\ Moves(w, ApplyReviewDecision(w, t, decision), t, next)
              /\ next = "done" => decision = "approve"
<1>1. Moves(w, Approve(w, t), t, "done")
  BY DEF Approve, Workflow, Moves
<1>2. Moves(w, RejectToBlocked(w, t), t, "blocked")
  BY DEF RejectToBlocked, Workflow, Moves
<1>3. ASSUME NEW maxRetries
      PROVE  \E next \in {"ready", "blocked"} :
                Moves(w, RejectForRetry(w, t, maxRetries), t, next)
  <2>1. CASE w.retryCount[t] < maxRetries
    <3>1. Moves(w, RejectForRetry(w, t, maxRetries), t, "ready")
      BY <2>1 DEF RejectForRetry, Workflow, Moves
    <3> QED
      BY <3>1
  <2>2. CASE ~(w.retryCount[t] < maxRetries)
    <3> DEFINE b == RejectToBlocked(w, t)
    <3>1. RejectForRetry(w, t, maxRetries) = [b EXCEPT !.retryCount[t] = b.retryCount[t] + 1]
      BY <2>2, Zenon DEF RejectForRetry
    <3>2. b \in Workflow
      BY RejectToBlockedType
    <3> HIDE DEF b
    <3>3. /\ RejectForRetry(w, t, maxRetries).status = b.status
          /\ RejectForRetry(w, t, maxRetries).reviewQueue = b.reviewQueue
      BY <3>1, <3>2 DEF Workflow
    <3>4. Moves(w, RejectForRetry(w, t, maxRetries), t, "blocked")
      BY <1>2, <3>3 DEF Moves, b
    <3> QED
      BY <3>4
  <2> QED
    BY <2>1, <2>2
<1> QED
  BY <1>1, <1>2, <1>3 DEF ApplyReviewDecision, ReviewDecision
----------------------------------------------------------------------------
\* Whole operations on the current workflow.

\* An orderly workflow: coherent, begun only on grounds that are done, and
\* with nothing in the queue that a decision would take back or pass over.
Orderly(w) ==
    /\ w \in Workflow /\ WorkflowCoherent(w)
    /\ Honoured(w.status) /\ Unfinished(w.status, w.reviewQueue)

\* The operations, each for a task that it makes sense for; bound bounds the
\* retries that decisions may lead to.
Transition(w, v, bound) ==
    \/ \E t \in DispatchableTasks(w.status), runner \in {"acp", "manual"} :
          v = Dispatched(w, t, runner)
    \/ \E S \in SUBSET DispatchableTasks(w.status) : v = MarkQueued(w, S)
    \/ \E t \in Tasks, s \in RunStatus : w.status[t] = "running" /\ v = ApplyRunStatus(w, t, s)
    \/ \E t \in Tasks : /\ w.status[t] = "review_required"
                        /\ v = RearmedForRetry(w, t) \/ v = DeadLettered(w, t)
    \/ \E t \in w.reviewQueue, decision \in ReviewDecision :
          /\ v = ApplyReviewDecision(w, t, decision)
          /\ v.retryCount[t] <= bound

LEMMA InitialOrderly == Orderly(InitialWorkflow)
<1> DEFINE mid == [t \in Tasks |-> "planned"]
<1>1. mid \in [Tasks -> TaskStatus] /\ Honoured(mid)
  BY DEF TaskStatus, Honoured
<1>2. InitialWorkflow.status = UpsertTaskStatuses(mid) /\ InitialWorkflow.reviewQueue = {}
  BY DEF InitialWorkflow
<1>3. Honoured(InitialWorkflow.status)
  BY <1>1, <1>2, UpsertHonoured
<1>4. Unfinished(InitialWorkflow.status, InitialWorkflow.reviewQueue)
  BY <1>2 DEF Unfinished
<1> QED
  BY <1>3, <1>4, InitialType, InitialCoherent DEF Orderly

LEMMA DispatchableIsNotDone ==
    ASSUME NEW w, NEW t \in DispatchableTasks(w.status)
    PROVE  /\ t \in Tasks /\ DependenciesDone(w.status, t)
           /\ w.status[t] \in {"planned", "ready", "queued"}
BY DEF DispatchableTasks, QueuedTasks, RunnableTasks

\* A move of a task that is begun and not done keeps a workflow orderly.
LEMMA MoveOrderly ==
    ASSUME NEW w, Orderly(w), NEW v, NEW t \in Tasks,
           \E next \in TaskStatus \ {"planned"} : Moves(w, v, t, next),
           w.status[t] # "done",
           w.status[t] # "planned" \/ DependenciesDone(w.status, t),
           v \in Workflow, WorkflowCoherent(v)
    PROVE  Orderly(v) /\ DoneKept(w.status, v.status)
<1>1. DependenciesDone(w.status, t)
  BY DEF Orderly, Honoured
<1> QED
  BY <1>1, MoveKeeps DEF Orderly

\* So does the queueing of tasks that could as well be dispatched.
LEMMA MarkQueuedOrderly ==
    ASSUME NEW w, Orderly(w), NEW S \in SUBSET DispatchableTasks(w.status)
    PROVE  Orderly(MarkQueued(w, S)) /\ DoneKept(w.status, MarkQueued(w, S).status)
<1> DEFINE v == MarkQueued(w, S)
<1>1. w \in Workflow /\ WorkflowCoherent(w) /\ S \in SUBSET Tasks
  BY DispatchableIsNotDone DEF Orderly
<1>2. v \in Workflow /\ WorkflowCoherent(v)
  BY <1>1, MarkQueuedType, MarkQueuedCoherent
<1>3. /\ v.reviewQueue = w.reviewQueue
      /\ \A t \in Tasks : v.status[t] = IF t \in S /\ w.status[t] \in {"ready", "planned"}
                                        THEN "queued" ELSE w.status[t]
  BY <1>1 DEF MarkQueued, Workflow
<1> HIDE DEF v
<1>4. DoneKept(w.status, v.status)
  BY <1>3 DEF DoneKept
<1>5. Unfinished(v.status, v.reviewQueue)
  BY <1>1, <1>3 DEF Orderly, Unfinished, Workflow
<1>6. Honoured(v.status)
  <2> SUFFICES ASSUME NEW t \in Tasks, v.status[t] # "planned", NEW d \in Deps[t]
               PROVE  v.status[d] = "done"
    BY DEF Honoured, DependenciesDone
  <2>1. DependenciesDone(w.status, t)
    BY <1>3, DispatchableIsNotDone DEF Orderly, Honoured
  <2> QED
    BY <1>4, <2>1, TaskGraphAssumption DEF DependenciesDone, DoneKept
<1> QED
  BY <1>2, <1>4, <1>5, <1>6 DEF Orderly, v

\* Every whole operation keeps the workflow orderly, and finished tasks finished.
LEMMA TransitionOrderly ==
    ASSUME NEW w, Orderly(w), NEW v, NEW bound, Transition(w, v, bound)
    PROVE  Orderly(v) /\ DoneKept(w.status, v.status)
<1>1. w \in Workflow /\ WorkflowCoherent(w) /\ w.reviewQueue \subseteq Tasks
  BY DEF Orderly, Workflow
<1>2. ASSUME NEW t \in DispatchableTasks(w.status), NEW runner \in {"acp", "manual"},
             v = Dispatched(w, t, runner)
      PROVE  Orderly(v) /\ DoneKept(w.status, v.status)
  <2>1. t \in Tasks /\ w.status[t] # "done" /\ DependenciesDone(w.status, t)
    BY DispatchableIsNotDone
  <2> QED
    BY <1>1, <1>2, <2>1, DispatchMoves, DispatchedType, DispatchedCoherent, MoveOrderly
<1>3. ASSUME NEW t \in Tasks, NEW s \in RunStatus,
             w.status[t] = "running", v = ApplyRunStatus(w, t, s)
      PROVE  Orderly(v) /\ DoneKept(w.status, v.status)
  BY <1>1, <1>3, ReportMoves, ApplyRunStatusType, ApplyRunStatusCoherent, MoveOrderly
<1>4. ASSUME NEW t \in Tasks, w.status[t] = "review_required",
             v = RearmedForRetry(w, t) \/ v = DeadLettered(w, t)
      PROVE  Orderly(v) /\ DoneKept(w.status, v.status)
  <2>1. v \in Workflow /\ WorkflowCoherent(v)
    BY <1>1, <1>4, RearmedType, RearmedCoherent, DeadLetteredType, DeadLetteredCoherent
  <2>2. \E next \in TaskStatus \ {"planned"} : Moves(w, v, t, next)
    BY <1>1, <1>4, RetryMoves DEF TaskStatus
  <2> QED
    BY <1>4, <2>1, <2>2, MoveOrderly
<1>5. ASSUME NEW t \in w.reviewQueue, NEW decision \in ReviewDecision,
             v = ApplyReviewDecision(w, t, decision)
      PROVE  Orderly(v) /\ DoneKept(w.status, v.status)
  <2>1. t \in Tasks /\ w.status[t] \notin {"planned", "done"}
    BY <1>1 DEF Orderly, Unfinished
  <2>2. v \in Workflow /\ WorkflowCoherent(v)
    BY <1>1, <1>5, <2>1, ApplyReviewDecisionType, ApplyReviewDecisionCoherent
  <2>3. \E next \in TaskStatus \ {"planned"} : Moves(w, v, t, next)
    BY <1>1, <1>5, <2>1, DecisionMoves DEF TaskStatus
  <2> QED
    BY <2>1, <2>2, <2>3, MoveOrderly
<1> QED
  BY <1>2, <1>3, <1>4, <1>5, MarkQueuedOrderly DEF Transition
=============================================================================
