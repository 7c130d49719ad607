------------------------------- MODULE PagePool -------------------------------
(***************************************************************************)
(* What the page allocator promises its callers: a set of free pages, out  *)
(* of which blocks of 2^order pages, aligned to their size, are handed out *)
(* and given back whole.  Which block is chosen is not promised.           *)
(***************************************************************************)
EXTENDS Integers

CONSTANTS MaxOrder, MaxPages

VARIABLES
  free,   \* the pages nobody holds
  held    \* the blocks handed out: [pfn, order]

Orders == 0..(MaxOrder - 1)
Pages  == 0..(MaxPages - 1)

Extent(b) == b.pfn..(b.pfn + 2^b.order - 1)

Blocks == {b \in [pfn : Pages, order : Orders] : b.pfn % 2^b.order = 0}

Init == free \subseteq Pages /\ held = {}

Hand(b) ==
  /\ held' = held \cup {b}
  /\ Extent(b) \subseteq free
  /\ free' = free \ Extent(b)

TakeBack(b) ==
  /\ b \in held
  /\ held' = held \ {b}
  /\ free' = free \cup Extent(b)

Next == \E b \in Blocks : Hand(b) \/ TakeBack(b)

Spec == Init /\ [][Next]_<<free, held>>
===============================================================================
