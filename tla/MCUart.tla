------------------------------- MODULE MCUart -------------------------------
(* A small instance of Uart for TLC. *)
EXTENDS Uart
=============================================================================
