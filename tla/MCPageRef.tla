------------------------------- MODULE MCPageRef -------------------------------
(* Small instances of PageRef for TLC. *)
EXTENDS PageRef, TLC

TaskSymmetry == Permutations(Tasks)
===============================================================================
