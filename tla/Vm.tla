---------------------------------- MODULE Vm ----------------------------------
(***************************************************************************)
(* Demand paging and copy-on-write (mm/vm.c), with the process operations  *)
(* that build and tear down an address space (proc_setup_vma, sys_exec,    *)
(* sys_fork, sys_mmap, proc_release) and the reference counts of the page  *)
(* frames (page_refcount_update).                                          *)
(*                                                                         *)
(* Each handler is one action: no task switch happens inside it (PageRef   *)
(* looks at the switches inside).  Frames are handed out as PagePool, which *)
(* module Buddy implements, promises: any free frame.  Virtual addresses   *)
(* are numbers with PageSize addresses to a page; the three levels of      *)
(* tables of walk() are one function from virtual pages to entries, and    *)
(* the frames that hold tables are left out.  Of the TLB the model keeps   *)
(* the writable translations fork() leaves in it: they go at the next      *)
(* switch to another task, which mmu_switch_to() makes with a flush.       *)
(***************************************************************************)
EXTENDS Integers, Sequences, FiniteSets, FiniteSetsExt

CONSTANTS
  Tasks,
  Values,       \* contents of a page
  Junk,         \* the contents of a free frame, which nobody tracks
  Frames,       \* the frames page_alloc hands out
  ZeroFrame,    \* the frame at physical address 0, which a NULL stands for
  RefMod,       \* reference counts are uint32_t: modulo RefMod
  PageSize,     \* addresses in a page
  NumVPages,    \* virtual pages of an address space
  StackBase,    \* PROC_USTACK_BASE; the stack ends with the address space
  ProgSizes,    \* sizes a program may have
  Hints,        \* address hints passed to mmap, already rounded down to a page
  MmapLens,     \* lengths passed to mmap
  PopulateLens, \* lengths passed to mmap with MAP_POPULATE
  Prots,        \* protections passed to mmap, subsets of {"r", "w"}
  OutOfMemory   \* may a fault happen when no frame is free?

AllFrames == Frames \cup {ZeroFrame}

VPages == 0..(NumVPages - 1)

Top == NumVPages * PageSize

RW == {"r", "w"}

ASSUME VmAssumption ==
  /\ ZeroFrame \notin Frames
  /\ Junk \notin Values
  /\ IsFiniteSet(Tasks) /\ RefMod \in Nat /\ RefMod > Cardinality(Tasks)
  /\ PageSize \in Nat \ {0} /\ NumVPages \in Nat \ {0}
  /\ StackBase \in 1..(Top - 1) /\ StackBase % PageSize = 0
  /\ \A s \in ProgSizes : s \in 1..StackBase
  /\ \A h \in Hints : h \in 0..(Top - 1) /\ h % PageSize = 0
  /\ MmapLens \cup PopulateLens \subseteq Nat \ {0}
  /\ Prots \subseteq SUBSET RW
  /\ OutOfMemory \in BOOLEAN

VARIABLES
  status,   \* "none", "running" or "dead" (waiting for the idle thread)
  size,     \* size of the task's program
  vmas,     \* vm_area_queue: a sequence of [start, end, prot, file]
  pt,       \* page table: a function from mapped virtual pages to [frame, ap]
  mem,      \* the allocator: [free, refs, block]; block[f] is what page_free(f) frees
  data,     \* contents of the frames
  stale     \* pages a task may still write through the TLB whatever its page table says

vars == <<status, size, vmas, pt, mem, data, stale>>

NoEntries == [v \in {} |-> [frame |-> ZeroFrame, ap |-> "none"]]

AlignUp(a) == ((a + PageSize - 1) \div PageSize) * PageSize

VPageOf(a) == a \div PageSize

PagesIn(start, end) == {v \in VPages : start < (v + 1) * PageSize /\ v * PageSize < end}

(***************************************************************************)
(* The allocator.                                                          *)
(***************************************************************************)
\* page_alloc of a block whose first frame is head
Taken(m, head, block) ==
  [free  |-> m.free \ block,
   refs  |-> [m.refs EXCEPT ![head] = 1],
   block |-> [m.block EXCEPT ![head] = block]]

\* mutant: fork counts nothing
SharedUncounted(m, S) == m

\* page_refcount_update(f, +1) for each f of S
Shared(m, S) ==
  [free  |-> m.free,
   refs  |-> [f \in AllFrames |->
                IF f \in S \ m.free THEN (m.refs[f] + 1) % RefMod ELSE m.refs[f]],
   block |-> m.block]

\* page_refcount_update(f, -1) for each f of S: the last reference frees the block
Dropped(m, S) ==
  LET refs == [f \in AllFrames |->
                 IF f \in S \ m.free THEN (m.refs[f] - 1) % RefMod ELSE m.refs[f]]
  IN  [free  |-> m.free \cup UNION {m.block[f] : f \in {g \in S \ m.free : refs[g] = 0}},
       refs  |-> refs,
       block |-> m.block]

\* contents are kept only for frames in use
Kept(d, m) == [f \in AllFrames |-> IF f \in m.free THEN Junk ELSE d[f]]

FramesOf(table) == {table[v].frame : v \in DOMAIN table}

(***************************************************************************)
(* Areas.                                                                  *)
(***************************************************************************)
Area(start, end, prot, file) == [start |-> start, end |-> end, prot |-> prot, file |-> file]

\* vma_get
AreasAt(t, a) == {i \in DOMAIN vmas[t] : vmas[t][i].start <= a /\ a < vmas[t][i].end}

AreaAt(t, a) == vmas[t][Min(AreasAt(t, a))]

\* mutant: only the first address is looked at
IsFreeAtStart(t, start, end) ==
  \A i \in DOMAIN vmas[t] : start >= vmas[t][i].end \/ start < vmas[t][i].start

\* vma_is_free
IsFree(t, start, end) ==
  \A i \in DOMAIN vmas[t] : start >= vmas[t][i].end \/ end <= vmas[t][i].start

\* mutant: the search does not look at the areas
BasesTrusting(t, len) ==
  {b \in AlignUp(size[t])..StackBase : (b - AlignUp(size[t])) % len = 0 /\ b + len < StackBase}

\* the bases at which vma_find_free finds room, trying from the end of the program, len apart
Bases(t, len) ==
  {b \in AlignUp(size[t])..StackBase :
     (b - AlignUp(size[t])) % len = 0 /\ b + len < StackBase /\ IsFree(t, b, b + len)}

\* vma_find_free; 0 stands for failure
FindFree(t, hint, len) ==
  IF hint # 0 /\ IsFree(t, hint, hint + len) THEN hint
  ELSE IF Bases(t, len) # {} THEN Min(Bases(t, len)) ELSE 0

\* prot_to_flag
Flag(prot) == IF RW \subseteq prot THEN "rw" ELSE IF "r" \in prot THEN "ro" ELSE "none"

\* proc_setup_vma
ProgAreas(sz) == << Area(0, sz, RW, TRUE), Area(StackBase, Top, RW, FALSE) >>

IsMapped(t, v) == v \in DOMAIN pt[t]

\* what the TLB holds after a flush
Flushed == [s \in Tasks |-> {}]

\* what it holds after a step of t, for which mmu_switch_to flushed it if another task ran before
OnlyOf(t) == [Flushed EXCEPT ![t] = stale[t]]

(***************************************************************************)
(* Life of a task.                                                         *)
(***************************************************************************)
\* proc_create of a program of size sz
Create(t, sz) ==
  /\ status[t] = "none"
  /\ status' = [status EXCEPT ![t] = "running"]
  /\ size' = [size EXCEPT ![t] = sz]
  /\ vmas' = [vmas EXCEPT ![t] = ProgAreas(sz)]
  /\ stale' = Flushed
  /\ UNCHANGED <<pt, mem, data>>

\* vm_release: every frame of the table but frame 0 loses the reference of its entry
FreeTables(t) ==
  /\ pt' = [pt EXCEPT ![t] = NoEntries]
  /\ mem' = Dropped(mem, FramesOf(pt[t]) \ {ZeroFrame})
  /\ data' = Kept(data, mem')
  /\ stale' = Flushed

\* sys_exec: vm_release and proc_setup_vma
Exec(t, sz) ==
  /\ status[t] = "running"
  /\ size' = [size EXCEPT ![t] = sz]
  /\ vmas' = [vmas EXCEPT ![t] = ProgAreas(sz)]
  /\ FreeTables(t)
  /\ UNCHANGED status

\* mutant: fork leaves the parent's entries writable
Unprotected(e) == e

WritablePages(t) == {v \in DOMAIN pt[t] : pt[t][v].ap = "rw"}

ReadOnly(e) == [frame |-> e.frame, ap |-> IF e.ap = "rw" THEN "ro" ELSE e.ap]

\* sys_fork and vm_copy: every entry becomes read-only in both tables, its frame is shared;
\* the TLB is not flushed, so it may keep the entries as they were
Fork(t, c) ==
  /\ status[t] = "running" /\ status[c] = "none"
  /\ status' = [status EXCEPT ![c] = "running"]
  /\ size' = [size EXCEPT ![c] = size[t]]
  /\ vmas' = [vmas EXCEPT ![c] = vmas[t]]
  /\ LET both == [v \in DOMAIN pt[t] |-> ReadOnly(pt[t][v])]
     IN  pt' = [pt EXCEPT ![t] = both, ![c] = both]
  /\ mem' = Shared(mem, FramesOf(pt[t]))
  /\ stale' = [OnlyOf(t) EXCEPT ![t] = @ \cup WritablePages(t)]
  /\ UNCHANGED data

Die(t) ==
  /\ status[t] = "running"
  /\ status' = [status EXCEPT ![t] = "dead"]
  /\ stale' = Flushed
  /\ UNCHANGED <<size, vmas, pt, mem, data>>

\* proc_release by the idle thread
Release(t) ==
  /\ status[t] = "dead"
  /\ status' = [status EXCEPT ![t] = "none"]
  /\ vmas' = [vmas EXCEPT ![t] = <<>>]
  /\ FreeTables(t)
  /\ UNCHANGED size

(***************************************************************************)
(* vm_mmap, anonymous.                                                     *)
(***************************************************************************)
AddArea(t, va, len, prot) ==
  vmas' = [vmas EXCEPT ![t] = Append(@, Area(va, va + len, prot, FALSE))]

Mmap(t, hint, n, prot) ==
  LET va == FindFree(t, hint, AlignUp(n))
  IN  /\ status[t] = "running"
      /\ va # 0
      /\ AddArea(t, va, AlignUp(n), prot)
      /\ stale' = OnlyOf(t)
      /\ UNCHANGED <<status, size, pt, mem, data>>

\* the frames kmalloc hands out for n pages: a power of two of them
BlockLen(n) == Min({2^o : o \in {o \in 0..n : 2^o >= n}})

FreeBlocks(n) ==
  {b \in [1..BlockLen(n) -> mem.free] : \A i, j \in 1..BlockLen(n) : b[i] = b[j] => i = j}

\* with MAP_POPULATE one block is mapped at once
MmapPopulate(t, hint, n, prot) ==
  LET len == AlignUp(n)
      va  == FindFree(t, hint, len)
      new == PagesIn(va, va + len)
  IN  /\ status[t] = "running"
      /\ va # 0
      /\ \E b \in FreeBlocks(len \div PageSize), x \in Values :
           LET used == {b[i] : i \in DOMAIN b}
           IN  /\ mem' = Taken(mem, b[1], used)
               /\ data' = [f \in AllFrames |-> IF f \in used THEN x ELSE data[f]]
               /\ pt' = [pt EXCEPT ![t] =
                    [v \in DOMAIN @ \cup new |->
                       IF v \in new THEN [frame |-> b[v - VPageOf(va) + 1], ap |-> Flag(prot)]
                       ELSE @[v]]]
      /\ AddArea(t, va, len, prot)
      /\ stale' = OnlyOf(t)
      /\ UNCHANGED <<status, size>>

(***************************************************************************)
(* Accesses and vm_fault_handle.                                           *)
(***************************************************************************)
\* page_alloc(0): a free frame, or frame 0 because a NULL goes unnoticed
AllocFrame(m, f, after) ==
  IF m.free # {} THEN f \in m.free /\ after = Taken(m, f, {f})
  ELSE OutOfMemory /\ f = ZeroFrame /\ after = m

\* a first access: the new frame holds the program's page, or what was left in it
TranslationFault(t, a) ==
  LET v == VPageOf(a)
  IN  /\ status[t] = "running"
      /\ ~IsMapped(t, v)
      /\ AreasAt(t, a) # {}
      /\ \E f \in AllFrames, x \in Values :
           /\ AllocFrame(mem, f, mem')
           /\ data' = [data EXCEPT ![f] = x]
           /\ pt' = [pt EXCEPT ![t] =
                [w \in DOMAIN @ \cup {v} |->
                   IF w = v THEN [frame |-> f, ap |-> Flag(AreaAt(t, a).prot)] ELSE @[w]]]
      /\ stale' = OnlyOf(t)
      /\ UNCHANGED <<status, size, vmas>>

\* mutant: two references do not count as sharing
SharedByThree(f) == f \in mem.free \/ mem.refs[f] > 2

\* page_refcount_update(f, 0) > 1; of a free page it returns -1, the largest uint32_t
IsShared(f) == f \in mem.free \/ mem.refs[f] > 1

\* a store to a write-protected page of a writable area: a shared frame is copied first
PermissionFault(t, a) ==
  LET v   == VPageOf(a)
      old == pt[t][v].frame
  IN  /\ status[t] = "running"
      /\ IsMapped(t, v) /\ pt[t][v].ap # "rw"
      /\ AreasAt(t, a) # {} /\ "w" \in AreaAt(t, a).prot
      /\ IF IsShared(old)
         THEN \E f \in AllFrames, m \in {Taken(mem, f, {f}) : f \in mem.free} \cup {mem} :
                /\ AllocFrame(mem, f, m)
                /\ mem' = Dropped(m, {old})
                /\ data' = Kept([data EXCEPT ![f] = data[old]], mem')
                /\ pt' = [pt EXCEPT ![t][v] = [frame |-> f, ap |-> "rw"]]
         ELSE /\ pt' = [pt EXCEPT ![t][v] = [frame |-> old, ap |-> "rw"]]
              /\ UNCHANGED <<mem, data>>
      /\ stale' = Flushed
      /\ UNCHANGED <<status, size, vmas>>

\* no area, a store outside a writable area, or a load without permission: SIGKILL
SegmentationFault(t, a, store) ==
  LET v == VPageOf(a)
  IN  /\ IF IsMapped(t, v)
         THEN IF store
              THEN pt[t][v].ap # "rw" /\ (AreasAt(t, a) # {} => "w" \notin AreaAt(t, a).prot)
              ELSE pt[t][v].ap = "none"
         ELSE AreasAt(t, a) = {}
      /\ Die(t)

\* a store the hardware lets through, by the page table or by the TLB
Store(t, v, x) ==
  /\ status[t] = "running"
  /\ IsMapped(t, v) /\ (pt[t][v].ap = "rw" \/ v \in stale[t])
  /\ data' = [data EXCEPT ![pt[t][v].frame] = x]
  /\ stale' = OnlyOf(t)
  /\ UNCHANGED <<status, size, vmas, pt, mem>>

(***************************************************************************)
(* The specification.                                                      *)
(***************************************************************************)
Init ==
  /\ status = [t \in Tasks |-> "none"]
  /\ size = [t \in Tasks |-> 0]
  /\ vmas = [t \in Tasks |-> <<>>]
  /\ pt = [t \in Tasks |-> NoEntries]
  /\ mem = [free |-> Frames, refs |-> [f \in AllFrames |-> 0], block |-> [f \in AllFrames |-> {f}]]
  /\ data = [f \in AllFrames |-> Junk]
  /\ stale = Flushed

Next ==
  \E t \in Tasks :
    \/ \E sz \in ProgSizes : Create(t, sz) \/ Exec(t, sz)
    \/ \E c \in Tasks : Fork(t, c)
    \/ Die(t)
    \/ Release(t)
    \/ \E hint \in Hints, prot \in Prots :
         \/ \E n \in MmapLens : Mmap(t, hint, n, prot)
         \/ \E n \in PopulateLens : MmapPopulate(t, hint, n, prot)
    \/ \E a \in 0..(Top - 1) :
         \/ TranslationFault(t, a)
         \/ PermissionFault(t, a)
         \/ \E store \in BOOLEAN : SegmentationFault(t, a, store)
    \/ \E v \in VPages, x \in Values : Store(t, v, x)

Spec == Init /\ [][Next]_vars

(***************************************************************************)
(* Properties.                                                             *)
(***************************************************************************)
Entries == [frame : AllFrames, ap : {"none", "ro", "rw"}]
Tables == UNION {[S -> Entries] : S \in SUBSET VPages}
Areas == [start : 0..Top, end : 0..Top, prot : SUBSET RW, file : BOOLEAN]

\* Every variable keeps its type.
TypeOK ==
  /\ status \in [Tasks -> {"none", "running", "dead"}]
  /\ size \in [Tasks -> ProgSizes \cup {0}]
  /\ vmas \in [Tasks -> Seq(Areas)]
  /\ pt \in [Tasks -> Tables]
  /\ mem \in [free : SUBSET Frames, refs : [AllFrames -> 0..(RefMod - 1)],
              block : [AllFrames -> SUBSET AllFrames]]
  /\ data \in [AllFrames -> Values \cup {Junk}]
  /\ stale \in [Tasks -> SUBSET VPages]

Mappings(f) == {m \in Tasks \X VPages : IsMapped(m[1], m[2]) /\ pt[m[1]][m[2]].frame = f}

\* A frame's reference count is the number of page-table entries that point to it, across
\* faults, forks, copies, exec and reaping; a frame without an entry is free again.
RefsCountMappings ==
  \A f \in Frames :
    /\ mem.refs[f] = Cardinality(Mappings(f))
    /\ (f \in mem.free) = (Mappings(f) = {})

\* Two entries share a frame only if neither lets its task write to it.
SharedIsReadOnly ==
  \A f \in AllFrames :
    Cardinality(Mappings(f)) > 1 => \A m \in Mappings(f) : pt[m[1]][m[2]].ap # "rw"

\* The areas of a task never overlap, not even within a page, although a program's area
\* may end in the middle of one; and every mapped page belongs to an area.
AreasDisjoint ==
  \A t \in Tasks :
    /\ \A i, j \in DOMAIN vmas[t] : i # j =>
         PagesIn(vmas[t][i].start, vmas[t][i].end) \cap PagesIn(vmas[t][j].start, vmas[t][j].end) = {}
    /\ \A v \in DOMAIN pt[t] :
         \E i \in DOMAIN vmas[t] : v \in PagesIn(vmas[t][i].start, vmas[t][i].end)

\* what a task reads at its pages
Memory(t) == [v \in DOMAIN pt[t] |-> data[pt[t][v].frame]]

\* the pages of other tasks, <<task, page>>, that stores of t reach through the TLB
Late(t) ==
  {m \in (Tasks \ {t}) \X stale[t] :
     IsMapped(m[1], m[2]) /\ pt[m[1]][m[2]].frame = pt[t][m[2]].frame}

\* Copy-on-write keeps the promise of AddressSpaces: each task sees a memory of its own
\* (README.md, lab 6: "isolated virtual address spaces ... demand paging and copy-on-write"),
\* except that the children a task forked since it last lost the processor may see its
\* stores, while the TLB keeps what vm_copy took away (vm.c:183).
Isolation == INSTANCE AddressSpaces
  WITH space <- [t \in Tasks |-> Memory(t)], late <- [t \in Tasks |-> Late(t)]

IsolatedSpaces == Isolation!Spec

\* A store changes what no other task reads ("isolated virtual address spaces").
StoreIsPrivate ==
  [][\A t \in Tasks, v \in VPages, x \in Values :
       Store(t, v, x) => \A s \in Tasks \ {t} : Memory(s)' = Memory(s)]_vars
===============================================================================
