-------------------------------- MODULE MCVm --------------------------------
(* Small instances of Vm for TLC. *)
EXTENDS Vm, TLC

FrameSymmetry == Permutations(Frames) \cup Permutations(Tasks)

MCProts == {{"r", "w"}, {"r"}}
===============================================================================
