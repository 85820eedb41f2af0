-------------------------- MODULE PlannedWorkflow --------------------------
(***************************************************************************)
(* The serial workflow together with the planner that it starts from.      *)
(***************************************************************************)
EXTENDS SwarmWorkflow, Planner

(* Of the workflow as planTasksFromSpec leaves it: the plan of a spec makes *)
(* each task wait for what the phases say, and for nothing else; a spec     *)
(* whose phases cannot be told apart is refused.                            *)
PlansFollowTheSpec ==
    wf = InitialWorkflow => \A spec \in Specs, evaluators \in BOOLEAN : Follows(spec, evaluators)
=============================================================================
