--------------------------------- MODULE Buddy ---------------------------------
(***************************************************************************)
(* The buddy page allocator (mm/buddy.c) used as its callers use it: a     *)
(* block is freed, or has its reference count changed, only by a holder.   *)
(***************************************************************************)
EXTENDS BuddyOps, FiniteSets

CONSTANT MaxRefs   \* bound on the reference count a holder takes a block to

ASSUME BuddyRefsAssumption == MaxRefs \in Nat /\ MaxRefs < RefMod

VARIABLES
  reserved,  \* the pages buddy_reserve() took before buddy_init()
  held       \* the blocks callers hold: [pfn, order] (the callers' own record)

vars == <<reserved, mem, held>>

Init ==
  /\ reserved \in SUBSET Pages
  /\ mem = InitialMem(reserved)
  /\ held = {}

PageAlloc(o) ==
  /\ CanAlloc(mem, o)
  /\ mem' = AfterAlloc(mem, o)
  /\ held' = held \cup {[pfn |-> AllocPfn(mem, o), order |-> o]}
  /\ UNCHANGED reserved

\* kfree() of a block frees it whatever its count
PageFree(b) ==
  /\ mem' = AfterFree(mem, b.pfn)
  /\ held' = held \ {b}
  /\ UNCHANGED reserved

RefInc(b) ==
  /\ mem.refs[b.pfn] < MaxRefs
  /\ mem' = AfterRefInc(mem, b.pfn)
  /\ UNCHANGED <<reserved, held>>

\* the last reference frees the block
RefDec(b) ==
  /\ mem' = AfterRefDec(mem, b.pfn)
  /\ held' = IF mem.refs[b.pfn] = 1 THEN held \ {b} ELSE held
  /\ UNCHANGED reserved

Next ==
  \/ \E o \in Orders : PageAlloc(o)
  \/ \E b \in held : PageFree(b) \/ RefInc(b) \/ RefDec(b)

Spec == Init /\ [][Next]_vars

(***************************************************************************)
(* Properties.                                                             *)
(***************************************************************************)
\* Every variable keeps its type.
TypeOK ==
  /\ reserved \subseteq Pages
  /\ mem \in Mems
  /\ held \subseteq [pfn : Pages, order : Orders]

FreeBlocks == UNION {{[pfn |-> p, order |-> o] : p \in ToSet(mem.lists[o])} : o \in Orders}

PagesOf(b) == Block(b.pfn, b.order)

FreePages == UNION {PagesOf(b) : b \in FreeBlocks}

\* No page is handed out twice and none is lost: the free blocks and the held blocks are
\* disjoint, aligned to their size, and together make up the unreserved memory, whatever
\* splits and merges page_alloc and page_free went through.
Partition ==
  LET blocks == FreeBlocks \cup held
  IN  /\ FreeBlocks \cap held = {}
      /\ \A b \in blocks : ~BlockInvalid(b.pfn, b.order)
      /\ \A b, c \in blocks : b # c => PagesOf(b) \cap PagesOf(c) = {}
      /\ UNION {PagesOf(b) : b \in blocks} = Pages \ reserved

\* The bitmap that page_free consults and the lists that page_alloc takes from never
\* disagree: a bit is set exactly when the block it stands for is in the list, once.
MasksMatchLists ==
  \A o \in Orders :
    /\ IsInjective(mem.lists[o])
    /\ mem.masks[o] = {Index(o, p) : p \in ToSet(mem.lists[o])}

\* Free memory is always fully merged: an aligned run of free pages lies within one free
\* block.  So page_alloc returns NULL only when no aligned block of the order is free.
FullyMerged ==
  LET blocks == FreeBlocks
      pages  == FreePages
  IN  \A o \in Orders : \A p \in {p \in Pages : ~BlockInvalid(p, o)} :
        Block(p, o) \subseteq pages => \E b \in blocks : Block(p, o) \subseteq PagesOf(b)

\* Only the first page of a held block has a positive count, and pfn_order remembers the
\* order page_free will need; a freed page keeps no count.
CountsFollowHolders ==
  /\ \A b \in held : mem.refs[b.pfn] > 0 /\ mem.order[b.pfn] = b.order
  /\ \A p \in Pages : mem.refs[p] > 0 => \E b \in held : b.pfn = p

\* The allocator keeps the promise of PagePool: its free blocks, however they are split
\* and merged, are nothing but a set of free pages to its callers.
Pool == INSTANCE PagePool WITH free <- FreePages

ImplementsPagePool == Pool!Spec
===============================================================================
