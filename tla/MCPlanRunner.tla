---------------------------- MODULE MCPlanRunner ----------------------------
(* Small instances of PlanRunner. *)
EXTENDS PlanRunner, TLC

Symmetry == Permutations(Pages)
=============================================================================
