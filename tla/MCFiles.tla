------------------------------- MODULE MCFiles -------------------------------
(* A small instance of Files for TLC. *)
EXTENDS Files, TLC

\* an offset before the start, for FilesSeek.cfg
Before == {-1}

Symmetry == Permutations(Procs) \cup Permutations(Handles)
===============================================================================
