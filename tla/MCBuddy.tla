------------------------------- MODULE MCBuddy -------------------------------
(* A small instance of Buddy for TLC. *)
EXTENDS Buddy
===============================================================================
