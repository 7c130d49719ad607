----------------------------- MODULE MCRingBuffer -----------------------------
(* A small instance of RingBuffer for TLC. *)
EXTENDS RingBuffer
===============================================================================
