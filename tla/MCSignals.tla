------------------------------ MODULE MCSignals ------------------------------
(* A small instance of Signals for TLC. *)
EXTENDS Signals
===============================================================================
