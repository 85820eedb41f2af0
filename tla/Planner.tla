------------------------------ MODULE Planner ------------------------------
(***************************************************************************)
(* How a spec becomes the task graph of a workflow: planTasksFromSpec of   *)
(* src/src/planning/planner.ts, the evaluator tasks that                   *)
(* src/src/planning/evaluator-injection.ts inserts, and validateTaskGraph  *)
(* of src/src/planning/task-graph.ts, which refuses what cannot be run.    *)
(*                                                                         *)
(* A task is its id and the set of ids it depends on; a plan is a sequence *)
(* of tasks.  An id is formatted from the id of the phase, the position in *)
(* the phase and, for an evaluator, a suffix, so it is those three things. *)
(* Titles, contracts and runners are left out.                             *)
(***************************************************************************)
EXTENDS Naturals, Sequences, FiniteSets, SequencesExt

CONSTANTS
    Slugs,      \* what titles of phases can be shortened to
    Specs       \* the specs that are looked at, each the sequence of its phases

\* What a phase heading of the markdown can say.  Its id is the slug of its
\* title, so two phases can have the same one; a phase may list no tasks, and
\* runs them one after the other unless it is marked parallel.
Phase == [slug : Slugs, parallel : BOOLEAN, tasks : Nat]

ASSUME PlannerAssumption == Specs \subseteq Seq(Phase)

TaskId(phase, k) == [phase |-> phase.slug, index |-> k, evaluates |-> FALSE]

\* A phase that lists no tasks is one task of its own.
PhaseTaskIds(phase) ==
    [k \in 1..(IF phase.tasks = 0 THEN 1 ELSE phase.tasks) |-> TaskId(phase, k)]

\* The tasks that the next phase waits for.
PhaseLeafTaskIds(phase) ==
    LET ids == PhaseTaskIds(phase)
    IN  IF phase.parallel THEN {ids[k] : k \in DOMAIN ids} ELSE {ids[Len(ids)]}

PhasePlan(spec, i) ==
    LET ids      == PhaseTaskIds(spec[i])
        previous == IF i = 1 THEN {} ELSE PhaseLeafTaskIds(spec[i - 1])
    IN  [k \in DOMAIN ids |->
            [id   |-> ids[k],
             deps |-> IF spec[i].parallel \/ k = 1 THEN previous ELSE {ids[k - 1]}]]

CodingTasks(spec) == FlattenSeq([i \in DOMAIN spec |-> PhasePlan(spec, i)])

EvaluatorId(id) == [id EXCEPT !.evaluates = TRUE]

\* Slip: the evaluators are inserted and nobody is made to wait for them.
injectEvaluatorTasksSlip(tasks) ==
    FlattenSeq([k \in DOMAIN tasks |->
        <<tasks[k], [id |-> EvaluatorId(tasks[k].id), deps |-> {tasks[k].id}]>>])

\* Each task is followed by its evaluator, and who waited for the task now
\* waits for the evaluator.  Every task of a plan is of the kind "coding".
injectEvaluatorTasks(tasks) ==
    FlattenSeq([k \in DOMAIN tasks |->
        <<[tasks[k] EXCEPT !.deps = {EvaluatorId(d) : d \in @}],
          [id |-> EvaluatorId(tasks[k].id), deps |-> {tasks[k].id}]>>])

\* evaluators: config.evaluator is enabled and names the kind "coding".
PlanTasks(spec, evaluators) ==
    IF evaluators THEN injectEvaluatorTasks(CodingTasks(spec)) ELSE CodingTasks(spec)

----------------------------------------------------------------------------

Ids(tasks) == {tasks[k].id : k \in DOMAIN tasks}

\* The dependencies of an id: of the last task that has it, as in the code's map.
DepsOf(tasks, id) ==
    LET k == CHOOSE k \in DOMAIN tasks :
                /\ tasks[k].id = id
                /\ \A l \in DOMAIN tasks : tasks[l].id = id => l <= k
    IN  IF id \in Ids(tasks) THEN tasks[k].deps ELSE {}

\* Everything a task waits for, directly or not.
Upstream(tasks, id) ==
    LET reached[n \in 0..Len(tasks)] ==
            IF n = 0 THEN DepsOf(tasks, id)
            ELSE LET before == reached[n - 1]
                 IN  before \union UNION {DepsOf(tasks, d) : d \in before}
    IN  reached[Len(tasks)]

\* A plan that does not satisfy this is refused, and nothing is saved.
validateTaskGraph(tasks) ==
    /\ Cardinality(Ids(tasks)) = Len(tasks)
    /\ \A k \in DOMAIN tasks : tasks[k].deps \subseteq Ids(tasks)
    /\ \A id \in Ids(tasks) : id \notin Upstream(tasks, id)

\* The dependencies by position in the plan, as TaskGraph takes them.
DepsByPosition(tasks) ==
    [k \in DOMAIN tasks |-> {l \in DOMAIN tasks : tasks[l].id \in tasks[k].deps}]

----------------------------------------------------------------------------

\* What the author of a spec means by it: id a is to wait for id b.
MustWait(spec, a, b) ==
    LET position(id) == CHOOSE i \in DOMAIN spec : spec[i].slug = id.phase
    IN  \/ position(b) < position(a)
        \/ b.phase = a.phase /\ b.index = a.index /\ a.evaluates /\ ~b.evaluates
        \/ /\ b.phase = a.phase
           /\ ~spec[position(a)].parallel
           /\ b.index < a.index

\* The ids of the phases collide.
Ambiguous(spec) == \E i, j \in DOMAIN spec : i # j /\ spec[i].slug = spec[j].slug

\* The plan of a spec is refused exactly when two of its phases have the same slug;
\* otherwise each task waits for what the phases say, the evaluators of the tasks
\* before it included, and for nothing else.
Follows(spec, evaluators) ==
    LET plan == PlanTasks(spec, evaluators)
    IN  IF Ambiguous(spec)
        THEN ~validateTaskGraph(plan)
        ELSE /\ validateTaskGraph(plan)
             /\ \A a \in Ids(plan) :
                    Upstream(plan, a) = {b \in Ids(plan) : MustWait(spec, a, b)}
=============================================================================
