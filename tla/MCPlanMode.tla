----------------------------- MODULE MCPlanMode -----------------------------
(* Checking PlanMode: the instance is in the cfg.  Handlers of a kind are   *)
(* interchangeable, and so are the names of plans.                         *)
EXTENDS PlanMode, TLC
Fresh == {AllPending, [s \in Steps |-> IF s = 1 THEN "in_progress" ELSE "done"]}
Symmetry == Permutations(Requests) \cup Permutations(Slugs)
=============================================================================
