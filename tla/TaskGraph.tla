----------------------------- MODULE TaskGraph -----------------------------
(***************************************************************************)
(* The dependency graph of a workflow: src/src/planning/task-graph.ts and  *)
(* the two admission helpers of src/src/runtime/concurrency-gate.ts and    *)
(* SwarmOrchestrator.runBatch that rank tasks by it.                       *)
(*                                                                         *)
(* A workflow holds its tasks in an array.  A task is its position in that *)
(* array, so the order in which the code scans the array is the order on   *)
(* 1..NumTasks.  The operators take the statuses of the tasks, a function  *)
(* on Tasks, because the code calls them on snapshots of the workflow that *)
(* may no longer be the persisted one.                                     *)
(***************************************************************************)
EXTENDS Naturals, FiniteSets

CONSTANTS
    NumTasks,   \* number of tasks of the plan
    Deps,       \* Deps[t]: the tasks that t depends on
    AcpTasks    \* the tasks whose runner type is "acp"; the others are "manual"

Tasks == 1..NumTasks

ASSUME TaskGraphAssumption ==
    /\ NumTasks \in Nat \ {0}
    /\ Deps \in [Tasks -> SUBSET Tasks]
    /\ AcpTasks \subseteq Tasks

\* "failed" is declared by the code's type but no operation assigns it.
TaskStatus == {"planned", "ready", "queued", "running", "review_required",
               "blocked", "done", "failed", "dead_letter"}

----------------------------------------------------------------------------

DependenciesDone(status, t) == \A d \in Deps[t] : status[d] = "done"

\* Slip: the dependencies of a task are not looked at.
RunnableIgnoringDeps(status) == {t \in Tasks : status[t] \in {"planned", "ready"}}

RunnableTasks(status) ==
    {t \in Tasks : status[t] \in {"planned", "ready"} /\ DependenciesDone(status, t)}

QueuedTasks(status) ==
    {t \in Tasks : status[t] = "queued" /\ DependenciesDone(status, t)}

\* Slip: a task that was queued is forgotten.
DispatchableTasksSlip(status) == RunnableTasks(status)

DispatchableTasks(status) == QueuedTasks(status) \union RunnableTasks(status)

\* Every planned task whose dependencies are done becomes ready.
UpsertTaskStatuses(status) ==
    [t \in Tasks |-> IF status[t] = "planned" /\ t \in RunnableTasks(status)
                     THEN "ready" ELSE status[t]]

----------------------------------------------------------------------------

\* The candidate list of a batch is the queued tasks, then the runnable ones,
\* each in array order.
Precedes(status, a, b) ==
    \/ status[a] = "queued" /\ status[b] # "queued"
    \/ (status[a] = "queued" <=> status[b] = "queued") /\ a < b

\* The first k entries of that list.
FirstCandidates(status, k) ==
    {t \in DispatchableTasks(status) :
        Cardinality({u \in DispatchableTasks(status) : Precedes(status, u, t)}) < k}

\* The tasks that hold a concurrency slot: running, by their own runner type.
ActiveTasks(status) == {t \in Tasks : status[t] = "running" /\ t \in AcpTasks}

\* Slip: a batch admits up to the whole limit, whatever already runs.
SlotsIgnoringActive(status, limit) == limit

AvailableSlots(status, limit) ==
    LET active == Cardinality(ActiveTasks(status))
    IN  IF active >= limit THEN 0 ELSE limit - active
=============================================================================
