--------------------------------- MODULE Heap ---------------------------------
(***************************************************************************)
(* What kmalloc and kfree promise: memory handed out belongs to one caller *)
(* until that caller gives it back.                                        *)
(***************************************************************************)
EXTENDS Integers

CONSTANT MemorySize

VARIABLE held   \* the allocations callers hold: [addr, len]

Bytes(a) == a.addr..(a.addr + a.len - 1)

InMemory(a) == a.len > 0 /\ Bytes(a) \subseteq 0..(MemorySize - 1)

Init == held = {}

Hand(a) ==
  /\ held' = held \cup {a}
  /\ \A b \in held : Bytes(a) \cap Bytes(b) = {}

TakeBack(a) == a \in held /\ held' = held \ {a}

Next == \E a \in held \cup held' : InMemory(a) /\ (Hand(a) \/ TakeBack(a))

Spec == Init /\ [][Next]_held
===============================================================================
