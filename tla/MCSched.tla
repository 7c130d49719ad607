------------------------------- MODULE MCSched -------------------------------
(* A small instance of Sched for TLC: symmetry of the user threads. *)
EXTENDS Sched, TLC

UserSymmetry == Permutations(Users)
===============================================================================
