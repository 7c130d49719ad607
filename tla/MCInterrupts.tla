---------------------------- MODULE MCInterrupts ----------------------------
(* A small instance of Interrupts for TLC. *)
EXTENDS Interrupts
=============================================================================
