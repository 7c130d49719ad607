------------------------------- MODULE BuddyOps -------------------------------
(***************************************************************************)
(* The buddy page allocator as operators on its state (mm/buddy.c).        *)
(*                                                                         *)
(* The state of the allocator is one record mem with the fields            *)
(*   lists   the free list of each order, a sequence of first page numbers *)
(*   masks   the free bitmap of each order, the set of indices whose bit   *)
(*           is set (index = pfn >> order)                                 *)
(*   order   the order under which each page was last allocated            *)
(*   refs    the reference count of each page                              *)
(* Every function of buddy.c runs with interrupts disabled from end to     *)
(* end, except page_refcount_update, whose steps are split in PageRef.     *)
(***************************************************************************)
EXTENDS Integers, Sequences, SequencesExt, FiniteSetsExt

CONSTANTS
  MaxOrder,  \* MAX_ORDER: orders are 0 .. MaxOrder - 1
  MaxPages,  \* MAX_PAGES
  RefMod     \* reference counts are uint32_t: modulo RefMod

\* The largest block size divides the memory, as 2^10 divides MAX_PAGES = 0x3C000.
ASSUME BuddyAssumption ==
  /\ MaxOrder \in Nat \ {0}
  /\ MaxPages \in Nat \ {0} /\ MaxPages % 2^(MaxOrder - 1) = 0
  /\ RefMod \in Nat /\ RefMod > 1

VARIABLE mem   \* the allocator's state

Orders == 0..(MaxOrder - 1)
Pages  == 0..(MaxPages - 1)

\* the values that the static variables of buddy.c take
Mems ==
  [lists : [Orders -> Seq(Pages)], masks : [Orders -> SUBSET Pages],
   order : [Pages -> Orders], refs : [Pages -> 0..(RefMod - 1)]]

Size(o)       == 2^o
Index(o, p)   == p \div Size(o)
\* mutant: rounds up
AlignUp(p, o) == p - (p % Size(o)) + Size(o)

AlignDown(p, o) == p - (p % Size(o))
BlockInvalid(p, o) == p % Size(o) # 0

\* mutant: the buddy is taken to be the block above
BlockAbove(p, o) == p + Size(o)

\* BUDDY(pfn, order): pfn with bit `order` flipped
Buddy(p, o) == IF Index(o, p) % 2 = 0 THEN p + Size(o) ELSE p - Size(o)

\* the pages of the block of order o that starts at p
Block(p, o) == p..(p + Size(o) - 1)

\* mutant: the page number is not shifted
MaskUnshifted(M, o, p) == p >= MaxPages \/ p \in M.masks[o]

MaskIsFree(M, o, p) == p >= MaxPages \/ Index(o, p) \in M.masks[o]

\* the pages of the blocks that the free lists hold
FreePagesOf(M) == UNION {UNION {Block(p, o) : p \in ToSet(M.lists[o])} : o \in Orders}

(***************************************************************************)
(* buddy_init: scan the memory upwards, taking each time the largest       *)
(* aligned block without a reserved page.                                  *)
(***************************************************************************)
FitsUnreserved(reserved, p, o) ==
  ~BlockInvalid(p, o) /\ Block(p, o) \subseteq Pages \ reserved

LargestOrder(reserved, p) == Max({o \in Orders : FitsUnreserved(reserved, p, o)})

\* Scan[p]: the free lists that the scan of the pages from p on adds to
InitialLists(reserved) ==
  LET Scan[p \in 0..MaxPages] ==
        IF p = MaxPages THEN [o \in Orders |-> <<>>]
        ELSE IF p \in reserved THEN Scan[p + 1]
        ELSE LET o == LargestOrder(reserved, p)
             IN  [Scan[p + Size(o)] EXCEPT ![o] = <<p>> \o @]
  IN  Scan[0]

InitialMem(reserved) ==
  LET lists == InitialLists(reserved)
  IN  [lists |-> lists,
       masks |-> [o \in Orders |-> {Index(o, lists[o][i]) : i \in DOMAIN lists[o]}],
       order |-> [p \in Pages |-> 0],
       refs  |-> [p \in Pages |-> 0]]

(***************************************************************************)
(* page_alloc(o).  The block comes from the smallest order k >= o that has *)
(* one; the loop that halves it leaves its upper half, then the upper half *)
(* of the lower half, and so on, alone in the lists of k-1, ..., o, which  *)
(* were empty.                                                             *)
(***************************************************************************)
CanAlloc(M, o) == \E k \in o..(MaxOrder - 1) : M.lists[k] # <<>>

SourceOrder(M, o) == Min({k \in o..(MaxOrder - 1) : M.lists[k] # <<>>})

AllocPfn(M, o) == Head(M.lists[SourceOrder(M, o)])

AfterAlloc(M, o) ==
  LET k == SourceOrder(M, o)
      p == AllocPfn(M, o)
  IN  [lists |-> [j \in Orders |-> IF j = k THEN Tail(M.lists[k])
                                   ELSE IF o <= j /\ j < k THEN <<Buddy(p, j)>>
                                   ELSE M.lists[j]],
       masks |-> [j \in Orders |-> IF j = k THEN M.masks[k] \ {Index(k, p)}
                                   ELSE IF o <= j /\ j < k
                                   THEN (M.masks[j] \ {Index(j, p)}) \cup {Index(j, Buddy(p, j))}
                                   ELSE M.masks[j]],
       order |-> [M.order EXCEPT ![p] = o],
       refs  |-> [M.refs EXCEPT ![p] = 1]]

(***************************************************************************)
(* page_free(p).  The loop merges while the buddy is free: it stops at the *)
(* first order whose buddy is misaligned or not free, or at the last one.  *)
(***************************************************************************)
\* mutant: the bitmap of the buddy is not consulted
StopOrderBlind(M, p) ==
  IF BlockInvalid(p, M.order[p]) THEN M.order[p] ELSE MaxOrder - 1

\* mutant: the loop ends one order early
StopOrderEarly(M, p) ==
  Min({m \in M.order[p]..(MaxOrder - 1) :
         \/ m >= MaxOrder - 2
         \/ BlockInvalid(p, M.order[p])
         \/ ~MaskIsFree(M, m, Buddy(AlignDown(p, m), m))})

StopOrder(M, p) ==
  Min({m \in M.order[p]..(MaxOrder - 1) :
         LET b == Buddy(AlignDown(p, m), m)
         IN  \/ m = MaxOrder - 1
             \/ BlockInvalid(p, M.order[p])
             \/ ~MaskIsFree(M, m, b)})

\* the order says the page is free already: nothing is done
RefusesFree(M, p) == MaskIsFree(M, M.order[p], p)

AfterFree(M, p) ==
  IF RefusesFree(M, p) THEN M
  ELSE LET o == M.order[p]
           m == StopOrder(M, p)
           q == IF m = o THEN p ELSE AlignDown(p, m)
           BuddyAt(j) == Buddy(AlignDown(p, j), j)
       IN  [lists |-> [j \in Orders |-> IF j = m THEN Append(M.lists[m], q)
                                        ELSE IF o <= j /\ j < m
                                        THEN RemoveFirst(M.lists[j], BuddyAt(j))
                                        ELSE M.lists[j]],
            masks |-> [j \in Orders |-> IF j = m THEN M.masks[m] \cup {Index(m, q)}
                                        ELSE IF o <= j /\ j < m
                                        THEN M.masks[j] \ {Index(j, BuddyAt(j))}
                                        ELSE M.masks[j]],
            order |-> M.order,
            refs  |-> [M.refs EXCEPT ![p] = 0]]

(***************************************************************************)
(* page_refcount_update(p, increment), run without an interruption.        *)
(***************************************************************************)
AfterRefInc(M, p) ==
  IF RefusesFree(M, p) THEN M
  ELSE [M EXCEPT !.refs[p] = (@ + 1) % RefMod]

\* mutant: the last holder but one frees the block
AfterRefDecEarly(M, p) ==
  LET less == [M EXCEPT !.refs[p] = (@ - 1) % RefMod]
  IN  IF less.refs[p] <= 1 THEN AfterFree(less, p) ELSE less

AfterRefDec(M, p) ==
  IF RefusesFree(M, p) THEN M
  ELSE LET less == [M EXCEPT !.refs[p] = (@ - 1) % RefMod]
       IN  IF less.refs[p] = 0 THEN AfterFree(less, p) ELSE less
===============================================================================
