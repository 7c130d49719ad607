--------------------------------- MODULE Slab ---------------------------------
(***************************************************************************)
(* kmalloc and kfree (mm/slab.c) over the buddy page allocator (BuddyOps). *)
(*                                                                         *)
(* A slab is a page cut into chunks of one size behind a header; the pool  *)
(* of each chunk size links the slabs that still have a free chunk.  Both  *)
(* functions run with interrupts disabled, so a call is one step.          *)
(***************************************************************************)
EXTENDS BuddyOps, Functions

CONSTANTS
  PageSize,       \* PAGE_SIZE
  HeaderSize,     \* sizeof(slab_header_t)
  MaxChunkSize,   \* MAX_CHUNK_SIZE
  NumPools,       \* NUM_POOLS
  Reserved,       \* the pages buddy_reserve() took
  Sizes           \* the sizes callers ask for

PoolIds == 0..(NumPools - 1)

ChunkSize(i) == MaxChunkSize \div 2^(NumPools - i - 1)

\* the chunks behind the header
TotalChunks(size) == (PageSize - HeaderSize) \div size

\* As with 4096, 48, 1024 and 7: every slab has at least two chunks, and none starts a page.
ASSUME SlabAssumption ==
  /\ PageSize \in Nat /\ HeaderSize \in 1..PageSize /\ NumPools \in Nat \ {0}
  /\ MaxChunkSize \in 1..PageSize /\ MaxChunkSize % 2^(NumPools - 1) = 0
  /\ \A i \in PoolIds : TotalChunks(ChunkSize(i)) >= 2
  /\ Reserved \subseteq Pages
  \* beyond the largest block, order_find's -1 would be passed to page_alloc
  /\ Sizes \subseteq 1..(2^(MaxOrder - 1) * PageSize)

VARIABLES
  slabs,  \* the slab headers: of each slab its chunk_size and free_list
  pools,  \* of each chunk size the slabs that its list links
  owned   \* the allocations callers hold: [addr, len]

slabVars == <<mem, slabs, pools, owned>>

Address(page) == page * PageSize
PageOf(addr) == addr \div PageSize

\* pool_find
Fits(size) == {i \in PoolIds : ChunkSize(i) >= size}

PagesFor(size) == (size + PageSize - 1) \div PageSize

\* order_find
OrderFor(size) == Min({o \in Orders : 2^o >= PagesFor(size)})

\* mutant: the chunks are one byte apart
NewSlabOverlapping(p, i) ==
  [chunk_size |-> ChunkSize(i),
   free_list |-> [n \in 1..TotalChunks(ChunkSize(i)) |-> Address(p) + HeaderSize + (n - 1)]]

\* a fresh slab on page p
NewSlab(p, i) ==
  [chunk_size |-> ChunkSize(i),
   free_list |-> [n \in 1..TotalChunks(ChunkSize(i)) |->
                    Address(p) + HeaderSize + (n - 1) * ChunkSize(i)]]

(***************************************************************************)
(* kmalloc.  When no page is left nothing changes: a small request returns *)
(* NULL, a large one the address PA_TO_VA(NULL).                           *)
(***************************************************************************)
\* the first chunk of the first slab linked; a slab without free chunks is unlinked
TakeChunk(i, avail, linked) ==
  LET p == Head(linked)
      chunk == Head(avail[p].free_list)
  IN  /\ slabs' = [avail EXCEPT ![p].free_list = Tail(@)]
      /\ pools' = [pools EXCEPT ![i] = IF slabs'[p].free_list = <<>> THEN Tail(linked) ELSE linked]
      /\ owned' = owned \cup {[addr |-> chunk, len |-> avail[p].chunk_size]}

KmallocLinked(i) ==
  /\ pools[i] # <<>>
  /\ TakeChunk(i, slabs, pools[i])
  /\ UNCHANGED mem

KmallocFresh(i) ==
  /\ pools[i] = <<>>
  /\ CanAlloc(mem, 0)
  /\ mem' = AfterAlloc(mem, 0)
  /\ LET p == AllocPfn(mem, 0)
     IN  TakeChunk(i, [q \in DOMAIN slabs \cup {p} |-> IF q = p THEN NewSlab(p, i) ELSE slabs[q]],
                   <<p>>)

KmallocLarge(size) ==
  /\ Fits(size) = {}
  /\ CanAlloc(mem, OrderFor(size))
  /\ mem' = AfterAlloc(mem, OrderFor(size))
  /\ owned' = owned \cup {[addr |-> Address(AllocPfn(mem, OrderFor(size))), len |-> size]}
  /\ UNCHANGED <<slabs, pools>>

Kmalloc(size) ==
  \/ \E i \in Fits(size) : i = Min(Fits(size)) /\ (KmallocLinked(i) \/ KmallocFresh(i))
  \/ KmallocLarge(size)

(***************************************************************************)
(* kfree.  An address that starts a page is a block of its own.            *)
(***************************************************************************)
KfreeLarge(a) ==
  /\ a.addr % PageSize = 0
  /\ mem' = AfterFree(mem, PageOf(a.addr))
  /\ owned' = owned \ {a}
  /\ UNCHANGED <<slabs, pools>>

\* mutant: linked when it has become empty, not when it is no longer full
AfterKfreeLate(p, freed) ==
  LET size == freed[p].chunk_size
      i == CHOOSE j \in PoolIds : ChunkSize(j) = size
  IN  IF Len(freed[p].free_list) = TotalChunks(size)
      THEN [slabs |-> freed, pools |-> [pools EXCEPT ![i] = Append(@, p)], mem |-> mem]
      ELSE [slabs |-> freed, pools |-> pools, mem |-> mem]

\* A slab that was full is linked again; a slab that is unused goes back to page_free.
AfterKfree(p, freed) ==
  LET size == freed[p].chunk_size
      i == CHOOSE j \in PoolIds : ChunkSize(j) = size
      now == Len(freed[p].free_list)
  IN  IF now = 1
      THEN [slabs |-> freed, pools |-> [pools EXCEPT ![i] = Append(@, p)], mem |-> mem]
      ELSE IF now = TotalChunks(size)
      THEN [slabs |-> Restrict(freed, DOMAIN freed \ {p}),
            pools |-> [pools EXCEPT ![i] = RemoveFirst(@, p)], mem |-> AfterFree(mem, p)]
      ELSE [slabs |-> freed, pools |-> pools, mem |-> mem]

KfreeChunk(a) ==
  LET p == PageOf(a.addr)
      after == AfterKfree(p, [slabs EXCEPT ![p].free_list = Append(@, a.addr)])
  IN  /\ a.addr % PageSize # 0
      /\ slabs' = after.slabs /\ pools' = after.pools /\ mem' = after.mem
      /\ owned' = owned \ {a}

Kfree(a) == KfreeLarge(a) \/ KfreeChunk(a)

SlabInit ==
  /\ mem = InitialMem(Reserved)
  /\ slabs = <<>>
  /\ pools = [i \in PoolIds |-> <<>>]
  /\ owned = {}

SlabNext ==
  \/ \E size \in Sizes : Kmalloc(size)
  \/ \E a \in owned : Kfree(a)

SlabSpec == SlabInit /\ [][SlabNext]_slabVars

(***************************************************************************)
(* Properties                                                              *)
(***************************************************************************)
MemorySize == MaxPages * PageSize

\* The slab allocator keeps the promise of Heap: whatever chunks and blocks share the pages
\* and however often a page changes its use, no allocation overlaps one that is owned.
ImplementsHeap == INSTANCE Heap WITH held <- owned

HeapSpec == ImplementsHeap!Spec

PagesTaken == UNION {PageOf(a.addr)..PageOf(a.addr + a.len - 1) : a \in owned}

\* A page is free exactly when nothing on it is in use, but for the pages that fill up a
\* large block: kfree() finds the slab and the pool again and returns the page, so that
\* everything freed leaves nothing behind.
NothingKept ==
  /\ FreePagesOf(mem) \cap PagesTaken = {}
  /\ \A p \in Pages \ (Reserved \cup FreePagesOf(mem) \cup PagesTaken) :
       \E a \in owned : p \in Block(PageOf(a.addr), mem.order[PageOf(a.addr)])
===============================================================================
