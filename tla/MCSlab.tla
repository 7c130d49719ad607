------------------------------- MODULE MCSlab -------------------------------
(* A small instance of Slab for TLC. *)
EXTENDS Slab
===============================================================================
