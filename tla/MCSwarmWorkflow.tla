-------------------------- MODULE MCSwarmWorkflow --------------------------
(* Four tasks, planned from a spec of a parallel phase of two tasks and a     *)
(* sequential one of two: a join of both, and a task after it.                *)
EXTENDS PlannedWorkflow

MCSpec == <<[slug |-> "build", parallel |-> TRUE, tasks |-> 2],
            [slug |-> "ship", parallel |-> FALSE, tasks |-> 2]>>
MCDeps == DepsByPosition(PlanTasks(MCSpec, FALSE))
MCAcpTasks == {1, 2, 3}
MCReviewRequired == {2, 3}

\* bound: three phases of at most two tasks; phase i has one of the first i
\* slugs, which is every spec up to a renaming of the slugs
MCSlugs == {"a", "b", "c"}
MCSlugOrder == <<"a", "b", "c">>
MCPhases == [slug : MCSlugs, parallel : BOOLEAN, tasks : 0..2]
MCSpecs == {s \in UNION {[1..n -> MCPhases] : n \in 0..3} :
                \A i \in DOMAIN s : \E j \in 1..i : s[i].slug = MCSlugOrder[j]}
=============================================================================
