-------------------------------- MODULE MCVfs --------------------------------
(* A small instance of Vfs for TLC.  No action distinguishes the processes. *)
EXTENDS Vfs, TLC

Symmetry == Permutations(Tasks)
===============================================================================
