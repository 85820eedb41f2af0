-------------------------- MODULE SwarmQueueOrder --------------------------
(***************************************************************************)
(* The orchestrator under a single process, with a history variable that   *)
(* remembers in which order tasks were queued for want of a slot.          *)
(***************************************************************************)
EXTENDS SwarmOrchestrator

LOCAL INSTANCE FiniteSetsExt

VARIABLE queuedAt       \* queuedAt[t]: the rank of t among the queued, 0 if it is not

Queued(status) == {t \in Tasks : status[t] = "queued"}

\* A task that is queued by a step ranks behind all that were queued before it.
QueueRanks ==
    queuedAt' = [t \in Tasks |->
        IF t \notin Queued(wf'.status) THEN 0
        ELSE IF t \in Queued(wf.status) THEN queuedAt[t]
        ELSE 1 + Max({queuedAt[u] : u \in Tasks})]

QueueInit == Init /\ queuedAt = [t \in Tasks |-> 0]

QueueNext == SupervisedNext /\ QueueRanks

QueueSpec == QueueInit /\ [][QueueNext]_<<vars, queuedAt>>

\* Queued tasks get their slot first in, first out: no step dispatches a task
\* from the queue while one that was queued before it, and that may run, waits.
FirstInFirstOut ==
    [][\A a, b \in Tasks :
          /\ 0 < queuedAt[a] /\ queuedAt[a] < queuedAt[b]
          /\ a \in QueuedTasks(wf.status)
          /\ wf'.status[b] = "running"
          => wf'.status[a] # "queued"]_<<vars, queuedAt>>
=============================================================================
