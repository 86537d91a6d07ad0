------------------------------ MODULE MCMerge -------------------------------
(* The merge and commit machines over a worktree, small bounds.             *)
EXTENDS MergeMachine
=============================================================================
