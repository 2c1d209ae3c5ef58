------------------------ MODULE MCAdvancedTaskQueue ------------------------
(* AdvancedTaskQueue with tasks that differ in their names only.           *)
EXTENDS AdvancedTaskQueue

TaskSymmetry == Permutations(Tasks)
=============================================================================
