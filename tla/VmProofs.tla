------------------------------- MODULE VmProofs -------------------------------
(***************************************************************************)
(* Virtual memory with any number of tasks, frames, pages, areas and       *)
(* sizes.  Two things are assumed, whose absence VmOutOfMemory.cfg and     *)
(* VmPopulateFork.cfg show to break the same properties: memory lasts, and *)
(* MAP_POPULATE is asked for one page at a time.                           *)
(***************************************************************************)
EXTENDS Vm, FiniteSetTheorems, SequenceTheorems, TLAPS

Restricted == ~OutOfMemory /\ PopulateLens \subseteq 1..PageSize

(***************************************************************************)
(* Numbers, pages and addresses.                                           *)
(***************************************************************************)
\* A set of natural numbers has a least element.
LEMMA LeastExists ==
  ASSUME NEW S \in SUBSET Nat, S # {}
  PROVE  \E x \in S : \A y \in S : x <= y
<1> DEFINE T == {0..x : x \in S}
           R == StrictSubsetOrdering(Nat)
<1>1. T \subseteq FiniteSubsetsOf(Nat) /\ T # {}
  <2>1. \A x \in S : 0..x \in SUBSET Nat /\ IsFiniteSet(0..x)
    BY FS_Interval
  <2> QED
    BY <2>1 DEF FiniteSubsetsOf
<1>2. PICK X \in T : \A Y \in T : <<Y, X>> \notin R
  <2> HIDE DEF T, R
  <2> QED
    BY <1>1, FS_StrictSubsetOrderingWellFounded, WFMin DEF R
<1>3. PICK x \in S : X = 0..x
  OBVIOUS
<1>4. ASSUME NEW y \in S, ~(x <= y) PROVE FALSE
  <2>1. 0..y \subseteq 0..x /\ 0..y # 0..x
    BY <1>4
  <2>2. <<0..y, 0..x>> \in R
    BY <2>1 DEF StrictSubsetOrdering
  <2> QED
    BY <2>2, <1>2, <1>3
<1> QED
  BY <1>4

LEMMA Facts ==
  /\ PageSize \in Nat \ {0} /\ NumVPages \in Nat \ {0} /\ Top \in Nat \ {0}
  /\ StackBase \in Nat /\ 0 < StackBase /\ StackBase < Top
  /\ StackBase % PageSize = 0
  BY VmAssumption DEF Top

Aligned(a) == a \in Nat /\ a % PageSize = 0

LEMMA AlignedIs ==
  ASSUME NEW a
  PROVE  Aligned(a) <=> \E k \in Nat : a = k * PageSize
<1>1. ASSUME Aligned(a) PROVE \E k \in Nat : a = k * PageSize
  <2>1. a \in Nat /\ a \div PageSize \in Nat /\ a = (a \div PageSize) * PageSize
    BY <1>1, Facts DEF Aligned
  <2> QED
    BY <2>1
<1>2. ASSUME NEW k \in Nat, a = k * PageSize PROVE Aligned(a)
  BY <1>2, Facts DEF Aligned
<1> QED
  BY <1>1, <1>2

LEMMA TimesMonotone ==
  ASSUME NEW k \in Int, NEW j \in Int
  PROVE  /\ k * PageSize < j * PageSize => k < j
         /\ k <= j => k * PageSize <= j * PageSize
         /\ (k + 1) * PageSize = k * PageSize + PageSize
         /\ k * PageSize \in Int
  BY Facts

LEMMA AlignedSum ==
  ASSUME NEW a, NEW b, Aligned(a), Aligned(b)
  PROVE  Aligned(a + b)
<1>1. PICK k \in Nat : a = k * PageSize
  BY AlignedIs
<1>2. PICK j \in Nat : b = j * PageSize
  BY AlignedIs
<1>3. a + b = (k + j) * PageSize /\ k + j \in Nat
  BY <1>1, <1>2, Facts
<1> QED
  BY <1>3, AlignedIs

LEMMA AlignedTimes ==
  ASSUME NEW a, Aligned(a), NEW m \in Nat
  PROVE  Aligned(m * a)
<1>1. PICK k \in Nat : a = k * PageSize
  BY AlignedIs
<1>2. m * a = (m * k) * PageSize /\ m * k \in Nat
  BY <1>1, Facts
<1> QED
  BY <1>2, AlignedIs

LEMMA AlignUpIs ==
  ASSUME NEW a \in Nat
  PROVE  Aligned(AlignUp(a)) /\ a <= AlignUp(a) /\ AlignUp(a) < a + PageSize
<1> DEFINE k == (a + PageSize - 1) \div PageSize
<1>1. k \in Nat /\ k * PageSize <= a + PageSize - 1 /\ a + PageSize - 1 < k * PageSize + PageSize
  BY Facts
<1>2. AlignUp(a) = k * PageSize
  BY DEF AlignUp
<1> HIDE DEF k
<1>3. Aligned(AlignUp(a))
  BY <1>1, <1>2, AlignedIs
<1>4. k * PageSize \in Int
  BY <1>1, TimesMonotone
<1> QED
  BY <1>1, <1>2, <1>3, <1>4, Facts

\* The page of an address is a page of every area the address is in.
LEMMA PageOfAddress ==
  ASSUME NEW start \in Nat, NEW end \in Nat, NEW a \in 0..(Top - 1), start <= a, a < end
  PROVE  VPageOf(a) \in PagesIn(start, end)
<1> DEFINE v == a \div PageSize
<1>1. v \in Nat /\ v * PageSize <= a /\ a < v * PageSize + PageSize
  BY Facts
<1> HIDE DEF v
<1>2. v * PageSize \in Int /\ (v + 1) * PageSize = v * PageSize + PageSize
  BY <1>1, TimesMonotone
<1>3. v < NumVPages
  <2>1. v * PageSize < NumVPages * PageSize
    BY <1>1, <1>2, Facts DEF Top
  <2> QED
    BY <1>1, <2>1, TimesMonotone, Facts
<1>4. start < (v + 1) * PageSize /\ v * PageSize < end
  BY <1>1, <1>2, Facts
<1> QED
  BY <1>1, <1>3, <1>4, Facts DEF PagesIn, VPages, VPageOf, v

\* Areas that do not overlap share no page if the higher one starts at a page.
LEMMA NoCommonPage ==
  ASSUME NEW start \in Nat, NEW low \in Nat, NEW end, NEW other, Aligned(start), low <= start
  PROVE  PagesIn(other, low) \cap PagesIn(start, end) = {}
<1> SUFFICES ASSUME NEW v \in VPages, v * PageSize < low, start < (v + 1) * PageSize PROVE FALSE
  BY DEF PagesIn
<1>1. PICK k \in Nat : start = k * PageSize
  BY AlignedIs
<1>2. v \in Int /\ v * PageSize \in Int /\ (v + 1) * PageSize \in Int
  BY TimesMonotone, Facts DEF VPages
<1>3. v * PageSize < k * PageSize /\ k * PageSize < (v + 1) * PageSize
  BY <1>1, <1>2
<1>4. v < k /\ k < v + 1
  BY <1>2, <1>3, TimesMonotone
<1> QED
  BY <1>2, <1>4

\* An area of one page.
LEMMA OnePage ==
  ASSUME NEW start, Aligned(start), start < Top
  PROVE  PagesIn(start, start + PageSize) = {VPageOf(start)}
<1>1. PICK k \in Nat : start = k * PageSize
  BY AlignedIs
<1>2. VPageOf(start) = k
  BY <1>1, Facts DEF VPageOf
<1>3. start \in Nat /\ start + PageSize = (k + 1) * PageSize
  BY <1>1, TimesMonotone DEF Aligned
<1>4. k \in PagesIn(start, start + PageSize)
  BY <1>2, <1>3, PageOfAddress, Facts
<1>5. ASSUME NEW v \in PagesIn(start, start + PageSize) PROVE v = k
  <2>1. v \in Nat /\ k * PageSize < (v + 1) * PageSize /\ v * PageSize < (k + 1) * PageSize
    BY <1>1, <1>3, <1>5, Facts DEF PagesIn, VPages
  <2>2. k < v + 1 /\ v < k + 1
    BY <2>1, TimesMonotone
  <2> QED
    BY <2>1, <2>2
<1> QED
  BY <1>2, <1>4, <1>5

(***************************************************************************)
(* The inductive invariant.                                                *)
(***************************************************************************)
\* the tasks with an entry for frame f
Mappers(f) == {t \in Tasks : f \in FramesOf(pt[t])}

\* No entry is for the frame at address 0, and no task has two entries for one frame: that
\* is why a count, which is kept per entry, stays below RefMod.
EntriesInjective ==
  \A t \in Tasks : \A v, w \in DOMAIN pt[t] :
    /\ pt[t][v].frame \in Frames
    /\ pt[t][v].frame = pt[t][w].frame => v = w

Counted ==
  \A f \in Frames : /\ mem.refs[f] = Cardinality(Mappers(f))
                    /\ f \in mem.free <=> Mappers(f) = {}

\* the block of every frame is the frame alone
SingleBlocks == \A f \in AllFrames : mem.block[f] = {f}

\* What two tasks share neither may write.
Protected ==
  \A t, u \in Tasks : \A v \in DOMAIN pt[t], w \in DOMAIN pt[u] :
    t # u /\ pt[t][v].frame = pt[u][w].frame => pt[t][v].ap # "rw"

NoneHasNothing == \A t \in Tasks : status[t] = "none" => pt[t] = NoEntries /\ vmas[t] = <<>>

\* A task has a program and a stack at the top, below which its other areas lie: vma_find_free
\* finds no room beyond.
HasStack ==
  \A t \in Tasks : status[t] # "none" =>
    /\ size[t] \in ProgSizes
    /\ \E i \in DOMAIN vmas[t] : vmas[t][i].start = StackBase /\ vmas[t][i].end = Top

\* Areas start at pages (and end anywhere).
StartsAligned == \A t \in Tasks : \A i \in DOMAIN vmas[t] : vmas[t][i].start % PageSize = 0

\* The TLB keeps translations only of pages that are mapped, and who shares the frame of
\* such a page has it at the same page: fork() made it so.
StaleIsMapped == \A t \in Tasks : stale[t] \subseteq DOMAIN pt[t]

StaleInPlace ==
  \A t, u \in Tasks : \A v \in stale[t], w \in DOMAIN pt[u] :
    t # u /\ pt[u][w].frame = pt[t][v].frame => w = v

IInv ==
  /\ TypeOK
  /\ EntriesInjective /\ Counted /\ SingleBlocks /\ Protected
  /\ StaleIsMapped /\ StaleInPlace
  /\ NoneHasNothing /\ HasStack /\ StartsAligned /\ AreasDisjoint

\* What concerns the areas alone.
AreaInv == /\ vmas \in [Tasks -> Seq(Areas)]
           /\ size \in [Tasks -> ProgSizes \cup {0}]
           /\ StartsAligned

PagesDisjoint(areas) ==
  \A i, j \in DOMAIN areas : i # j =>
    PagesIn(areas[i].start, areas[i].end) \cap PagesIn(areas[j].start, areas[j].end) = {}

(***************************************************************************)
(* Areas.                                                                  *)
(***************************************************************************)
LEMMA AreaFacts ==
  ASSUME AreaInv, NEW t \in Tasks, NEW i \in DOMAIN vmas[t]
  PROVE  /\ vmas[t] \in Seq(Areas)
         /\ vmas[t][i] \in Areas
         /\ vmas[t][i].start \in Nat /\ vmas[t][i].end \in Nat
         /\ vmas[t][i].start <= Top /\ vmas[t][i].end <= Top
         /\ Aligned(vmas[t][i].start)
<1>1. vmas[t] \in Seq(Areas)
  BY DEF AreaInv
<1>2. vmas[t][i] \in Areas
  BY <1>1, ElementOfSeq, LenProperties
<1>3. vmas[t][i].start % PageSize = 0
  BY DEF AreaInv, StartsAligned
<1> QED
  BY <1>1, <1>2, <1>3, Facts DEF Areas, Aligned

\* vma_find_free gives a page-aligned address above 0 with room below the stack.
LEMMA FindFreeIsFree ==
  ASSUME AreaInv, NEW t \in Tasks, NEW hint \in Hints, NEW n \in Nat \ {0},
         size[t] \in ProgSizes,
         \E i \in DOMAIN vmas[t] : vmas[t][i].start = StackBase /\ vmas[t][i].end = Top,
         FindFree(t, hint, AlignUp(n)) # 0
  PROVE  LET va == FindFree(t, hint, AlignUp(n))
             len == AlignUp(n)
         IN  /\ Aligned(va) /\ Aligned(len) /\ len > 0 /\ va + len <= StackBase
             /\ IsFree(t, va, va + len)
<1> DEFINE len == AlignUp(n)
           va == FindFree(t, hint, len)
<1>1. Aligned(len) /\ len \in Nat /\ len > 0
  BY AlignUpIs DEF Aligned
<1> HIDE DEF len
<1>2. CASE hint # 0 /\ IsFree(t, hint, hint + len)
  <2>1. va = hint /\ hint \in Nat /\ hint < Top /\ Aligned(hint)
    BY <1>2, VmAssumption, Facts DEF FindFree, Aligned
  <2>2. hint >= Top \/ hint + len <= StackBase
    BY <1>2 DEF IsFree
  <2> QED
    BY <1>1, <1>2, <2>1, <2>2, Facts DEF len
<1>3. CASE ~(hint # 0 /\ IsFree(t, hint, hint + len))
  <2>1. va = IF Bases(t, len) # {} THEN Min(Bases(t, len)) ELSE 0
    BY <1>3 DEF FindFree
  <2>2. Bases(t, len) # {} /\ va = Min(Bases(t, len))
    BY <2>1 DEF len
  <2> HIDE DEF va
  <2>3. size[t] \in Nat
    BY VmAssumption, Facts
  <2>4. Aligned(AlignUp(size[t])) /\ AlignUp(size[t]) \in Nat
    BY <2>3, AlignUpIs DEF Aligned
  <2>5. Bases(t, len) \in SUBSET Nat
    BY <2>4, Facts DEF Bases
  <2>6. va \in Bases(t, len)
    BY <2>2, <2>5, LeastExists DEF Min
  <2>7. /\ va \in Nat /\ AlignUp(size[t]) <= va
        /\ (va - AlignUp(size[t])) % len = 0
        /\ va + len < StackBase /\ IsFree(t, va, va + len)
    BY <2>4, <2>6, Facts DEF Bases
  <2>8. Aligned(va)
    <3> DEFINE d == va - AlignUp(size[t])
               m == d \div len
    <3>1. d \in Nat /\ d % len = 0 /\ va = AlignUp(size[t]) + d
      BY <2>4, <2>7
    <3> HIDE DEF d
    <3>2. m \in Nat /\ d = m * len
      BY <1>1, <3>1
    <3> HIDE DEF m
    <3>3. Aligned(d)
      BY <1>1, <3>2, AlignedTimes
    <3> QED
      BY <2>4, <3>1, <3>3, AlignedSum
  <2> QED
    BY <1>1, <2>7, <2>8, Facts DEF va, len
<1> QED
  BY <1>2, <1>3

Added(t, va, len, prot) == Append(vmas[t], Area(va, va + len, prot, FALSE))

\* What is promised of the areas with a new one from start to end.
NewAreas(t, areas, start, end) ==
  /\ areas \in Seq(Areas)
  /\ DOMAIN vmas[t] \subseteq DOMAIN areas
  /\ \A i \in DOMAIN vmas[t] : areas[i] = vmas[t][i]
  /\ \A i \in DOMAIN areas : areas[i].start % PageSize = 0
  /\ PagesDisjoint(areas)
  /\ \E i \in DOMAIN areas : areas[i].start = start /\ areas[i].end = end
  /\ \A i \in DOMAIN vmas[t] :
       PagesIn(vmas[t][i].start, vmas[t][i].end) \cap PagesIn(start, end) = {}

\* A new area in free room shares no page with the old ones.
LEMMA NewAreaDisjoint ==
  ASSUME AreaInv, NEW t \in Tasks, PagesDisjoint(vmas[t]),
         NEW va, NEW len, Aligned(va), Aligned(len), va + len <= Top, NEW prot \in SUBSET RW,
         IsFree(t, va, va + len)
  PROVE  NewAreas(t, Added(t, va, len, prot), va, va + len)
<1> DEFINE areas == Added(t, va, len, prot)
           n == Len(vmas[t])
           new == Area(va, va + len, prot, FALSE)
<1>1. vmas[t] \in Seq(Areas) /\ n \in Nat /\ DOMAIN vmas[t] = 1..n
  BY LenProperties DEF AreaInv
<1>2. /\ new \in Areas /\ new.start = va /\ new.end = va + len
      /\ va \in Nat /\ len \in Nat
  BY Facts DEF Area, Areas, Aligned
<1> HIDE DEF new, areas
<1>3. /\ areas \in Seq(Areas) /\ Len(areas) = n + 1 /\ areas[n + 1] = new
      /\ \A i \in 1..n : areas[i] = vmas[t][i]
      /\ DOMAIN areas = 1..(n + 1)
  <2>1. areas = Append(vmas[t], new)
    BY DEF new, areas, Added
  <2>2. vmas[t] \in Seq(Areas) /\ new \in Areas
    BY <1>1, <1>2
  <2>3. /\ Append(vmas[t], new) \in Seq(Areas)
        /\ Len(Append(vmas[t], new)) = Len(vmas[t]) + 1
        /\ Append(vmas[t], new)[Len(vmas[t]) + 1] = new
        /\ \A i \in 1..Len(vmas[t]) : Append(vmas[t], new)[i] = vmas[t][i]
    BY <2>2, AppendProperties
  <2> QED
    BY <2>1, <2>3, LenProperties DEF n
<1>4. ASSUME NEW i \in 1..n
      PROVE  PagesIn(vmas[t][i].start, vmas[t][i].end) \cap PagesIn(va, va + len) = {}
  <2>1. /\ vmas[t][i].start \in Nat /\ vmas[t][i].end \in Nat /\ Aligned(vmas[t][i].start)
    BY <1>1, AreaFacts
  <2>2. CASE va >= vmas[t][i].end
    BY <1>2, <2>1, <2>2, NoCommonPage
  <2>3. CASE va + len <= vmas[t][i].start
    BY <1>2, <2>1, <2>3, NoCommonPage
  <2> QED
    BY <1>1, <2>2, <2>3 DEF IsFree
<1> HIDE DEF n
<1>5. \A i \in DOMAIN areas : areas[i].start % PageSize = 0
  <2>1. \A i \in 1..n : vmas[t][i].start % PageSize = 0
    BY <1>1, AreaFacts DEF Aligned
  <2>2. new.start % PageSize = 0
    BY <1>2 DEF Aligned
  <2>3. \A i \in 1..(n + 1) : i \in 1..n \/ i = n + 1
    BY <1>1
  <2> QED
    BY <1>3, <2>1, <2>2, <2>3
<1>6. PagesDisjoint(areas)
  <2> SUFFICES ASSUME NEW i \in 1..(n + 1), NEW j \in 1..(n + 1), i # j
               PROVE  PagesIn(areas[i].start, areas[i].end)
                        \cap PagesIn(areas[j].start, areas[j].end) = {}
    BY <1>3 DEF PagesDisjoint
  <2>1. CASE i \in 1..n /\ j \in 1..n
    <3>1. areas[i] = vmas[t][i] /\ areas[j] = vmas[t][j]
      BY <1>3, <2>1
    <3> QED
      BY <1>1, <2>1, <3>1 DEF PagesDisjoint
  <2>2. CASE i = n + 1
    <3>1. j \in 1..n
      BY <1>1, <2>2
    <3> QED
      BY <1>2, <1>3, <1>4, <2>2, <3>1
  <2>3. CASE j = n + 1
    <3>1. i \in 1..n
      BY <1>1, <2>3
    <3> QED
      BY <1>2, <1>3, <1>4, <2>3, <3>1
  <2>4. /\ i \in 1..n \/ i = n + 1
        /\ j \in 1..n \/ j = n + 1
    BY <1>1
  <2> QED
    BY <2>1, <2>2, <2>3, <2>4, Zenon
<1>7. \E i \in DOMAIN areas : areas[i].start = va /\ areas[i].end = va + len
  <2>1. n + 1 \in DOMAIN areas
    BY <1>1, <1>3
  <2> QED
    BY <1>2, <1>3, <2>1
<1>8. DOMAIN vmas[t] \subseteq DOMAIN areas
  BY <1>1, <1>3
<1>9. NewAreas(t, areas, va, va + len)
  BY <1>1, <1>3, <1>4, <1>5, <1>6, <1>7, <1>8 DEF NewAreas
<1> QED
  BY <1>9 DEF areas

\* proc_setup_vma: a program and its stack.
LEMMA ProgAreasAre ==
  ASSUME NEW sz \in ProgSizes
  PROVE  /\ ProgAreas(sz) \in Seq(Areas)
         /\ \A i \in DOMAIN ProgAreas(sz) : ProgAreas(sz)[i].start % PageSize = 0
         /\ PagesDisjoint(ProgAreas(sz))
         /\ \E i \in DOMAIN ProgAreas(sz) :
              ProgAreas(sz)[i].start = StackBase /\ ProgAreas(sz)[i].end = Top
<1> DEFINE a == Area(0, sz, RW, TRUE)
           b == Area(StackBase, Top, RW, FALSE)
<1>1. sz \in Nat /\ sz <= StackBase
  BY VmAssumption, Facts
<1>2. /\ a \in Areas /\ b \in Areas /\ a.start = 0 /\ a.end = sz
      /\ b.start = StackBase /\ b.end = Top
  BY <1>1, Facts DEF Area, Areas
<1> HIDE DEF a, b
<1>3. ProgAreas(sz) = <<a, b>>
  BY DEF ProgAreas, a, b
<1>4. /\ <<a, b>> \in Seq(Areas) /\ DOMAIN <<a, b>> = {1, 2}
      /\ <<a, b>>[1] = a /\ <<a, b>>[2] = b
  BY <1>2
<1>5. PagesIn(0, sz) \cap PagesIn(StackBase, Top) = {}
  BY <1>1, NoCommonPage, Facts DEF Aligned
<1>6. 0 % PageSize = 0 /\ StackBase % PageSize = 0
  BY Facts
<1> QED
  BY <1>2, <1>3, <1>4, <1>5, <1>6 DEF PagesDisjoint

(***************************************************************************)
(* Entries and counts.                                                     *)
(***************************************************************************)
\* What concerns the page tables, the allocator and the contents of frames.
MemInv == /\ pt \in [Tasks -> Tables]
          /\ mem \in [free : SUBSET Frames, refs : [AllFrames -> 0..(RefMod - 1)],
                      block : [AllFrames -> SUBSET AllFrames]]
          /\ data \in [AllFrames -> Values \cup {Junk}]
          /\ EntriesInjective /\ Counted /\ SingleBlocks /\ Protected

LEMMA TableIs ==
  ASSUME NEW table
  PROVE  table \in Tables <=> /\ DOMAIN table \subseteq VPages
                             /\ table = [v \in DOMAIN table |-> table[v]]
                             /\ \A v \in DOMAIN table : table[v] \in Entries
<1>1. ASSUME table \in Tables
      PROVE  /\ DOMAIN table \subseteq VPages
             /\ table = [v \in DOMAIN table |-> table[v]]
             /\ \A v \in DOMAIN table : table[v] \in Entries
  <2>1. PICK S \in SUBSET VPages : table \in [S -> Entries]
    BY <1>1 DEF Tables
  <2> QED
    BY <2>1
<1>2. ASSUME DOMAIN table \subseteq VPages, table = [v \in DOMAIN table |-> table[v]],
             \A v \in DOMAIN table : table[v] \in Entries
      PROVE  table \in Tables
  <2>1. table \in [DOMAIN table -> Entries]
    BY <1>2
  <2> QED
    BY <1>2, <2>1 DEF Tables
<1> QED
  BY <1>1, <1>2

LEMMA NoEntriesIs == NoEntries \in Tables /\ DOMAIN NoEntries = {} /\ FramesOf(NoEntries) = {}
  BY TableIs DEF NoEntries, FramesOf

LEMMA MapperFacts ==
  ASSUME NEW f
  PROVE  /\ IsFiniteSet(Mappers(f)) /\ Cardinality(Mappers(f)) \in Nat
         /\ Cardinality(Mappers(f)) < RefMod
         /\ Cardinality(Mappers(f)) = 0 <=> Mappers(f) = {}
<1>1. Mappers(f) \subseteq Tasks
  BY DEF Mappers
<1>2. /\ IsFiniteSet(Mappers(f)) /\ Cardinality(Mappers(f)) <= Cardinality(Tasks)
  BY <1>1, FS_Subset, VmAssumption
<1>3. Cardinality(Mappers(f)) \in Nat /\ Cardinality(Tasks) \in Nat
  BY <1>2, FS_CardinalityType, VmAssumption
<1>4. Cardinality(Mappers(f)) = 0 <=> Mappers(f) = {}
  BY <1>2, FS_EmptySet
<1> QED
  BY <1>2, <1>3, <1>4, VmAssumption

\* One task's table changes.
LEMMA MappersOfChange ==
  ASSUME NEW t \in Tasks, \A u \in Tasks \ {t} : pt'[u] = pt[u], NEW f
  PROVE  Mappers(f)' = IF f \in FramesOf(pt'[t]) THEN Mappers(f) \cup {t} ELSE Mappers(f) \ {t}
  BY DEF Mappers, FramesOf

\* A count of one or less leaves no second task.
LEMMA OnlyMapper ==
  ASSUME NEW f, NEW t \in Mappers(f), NEW u \in Mappers(f), Cardinality(Mappers(f)) <= 1
  PROVE  t = u
<1>1. /\ IsFiniteSet(Mappers(f) \ {t})
      /\ Cardinality(Mappers(f) \ {t}) = Cardinality(Mappers(f)) - 1
  BY MapperFacts, FS_RemoveElement
<1>2. Cardinality(Mappers(f) \ {t}) \in Nat
  BY <1>1, FS_CardinalityType
<1>3. Cardinality(Mappers(f) \ {t}) = 0
  BY <1>1, <1>2, MapperFacts
<1>4. Mappers(f) \ {t} = {}
  BY <1>1, <1>3, FS_EmptySet
<1> QED
  BY <1>4

\* The allocator as a record.
LEMMA MemIs ==
  ASSUME MemInv
  PROVE  /\ mem.free \in SUBSET Frames /\ mem.refs \in [AllFrames -> 0..(RefMod - 1)]
         /\ mem.block \in [AllFrames -> SUBSET AllFrames]
         /\ mem = [free |-> mem.free, refs |-> mem.refs, block |-> mem.block]
  BY DEF MemInv

LEMMA TakenIs ==
  ASSUME MemInv, NEW t \in Tasks, NEW f \in mem.free, NEW m, m = Taken(mem, f, {f})
  PROVE  /\ m \in [free : SUBSET Frames, refs : [AllFrames -> 0..(RefMod - 1)],
                   block : [AllFrames -> SUBSET AllFrames]]
         /\ m.free = mem.free \ {f}
         /\ m.refs[f] = 1
         /\ \A g \in AllFrames \ {f} : m.refs[g] = mem.refs[g]
         /\ \A g \in AllFrames : m.block[g] = {g}
<1>1. f \in Frames /\ f \in AllFrames
  BY MemIs DEF AllFrames
<1>2. 1 \in 0..(RefMod - 1)
  <2>1. Cardinality(Tasks) \in Nat /\ (Cardinality(Tasks) = 0 <=> Tasks = {})
    BY FS_CardinalityType, FS_EmptySet, VmAssumption
  <2> QED
    BY <2>1, VmAssumption
<1> QED
  BY <1>1, <1>2, MemIs DEF Taken, MemInv, SingleBlocks, AllFrames

\* page_refcount_update(f, -1) for frames in use whose blocks are single frames
LEMMA DroppedIs ==
  ASSUME NEW m \in [free : SUBSET Frames, refs : [AllFrames -> 0..(RefMod - 1)],
                    block : [AllFrames -> SUBSET AllFrames]],
         \A g \in AllFrames : m.block[g] = {g},
         NEW S \in SUBSET Frames, S \cap m.free = {},
         \A g \in S : m.refs[g] # 0,
         NEW d, d = Dropped(m, S)
  PROVE  /\ d \in [free : SUBSET Frames, refs : [AllFrames -> 0..(RefMod - 1)],
                   block : [AllFrames -> SUBSET AllFrames]]
         /\ d.free = m.free \cup {g \in S : m.refs[g] = 1}
         /\ \A g \in AllFrames : d.refs[g] = IF g \in S THEN m.refs[g] - 1 ELSE m.refs[g]
         /\ d.block = m.block
<1> DEFINE refs == [f \in AllFrames |->
                     IF f \in S \ m.free THEN (m.refs[f] - 1) % RefMod ELSE m.refs[f]]
           gone == UNION {m.block[f] : f \in {g \in S \ m.free : refs[g] = 0}}
<1>1. S \subseteq AllFrames /\ S \ m.free = S /\ RefMod \in Nat
  BY VmAssumption DEF AllFrames
<1>2. \A g \in S : /\ m.refs[g] \in 1..(RefMod - 1)
                   /\ (m.refs[g] - 1) % RefMod = m.refs[g] - 1
  <2>1. \A g \in S : m.refs[g] \in 1..(RefMod - 1)
    BY <1>1
  <2>2. \A k \in 1..(RefMod - 1) : (k - 1) % RefMod = k - 1
    BY <1>1
  <2> QED
    BY <2>1, <2>2
<1>3. \A g \in AllFrames : refs[g] = IF g \in S THEN m.refs[g] - 1 ELSE m.refs[g]
  BY <1>1, <1>2
<1>4. refs \in [AllFrames -> 0..(RefMod - 1)]
  <2>1. \A g \in AllFrames : (IF g \in S THEN m.refs[g] - 1 ELSE m.refs[g]) \in 0..(RefMod - 1)
    <3>1. \A g \in AllFrames : m.refs[g] \in 0..(RefMod - 1)
      OBVIOUS
    <3>2. \A g \in S : m.refs[g] - 1 \in 0..(RefMod - 1)
      BY <1>1, <1>2
    <3> QED
      BY <3>1, <3>2
  <2>2. \A g \in AllFrames : refs[g] \in 0..(RefMod - 1)
    BY <1>3, <2>1
  <2> QED
    BY <2>2
<1>5. gone = {g \in S : m.refs[g] = 1}
  <2>1. \A g \in S : refs[g] = 0 <=> m.refs[g] = 1
    BY <1>1, <1>2, <1>3
  <2> HIDE DEF refs
  <2> QED
    BY <1>1, <2>1
<1>6. d = [free |-> m.free \cup gone, refs |-> refs, block |-> m.block]
  BY DEF Dropped
<1> HIDE DEF refs, gone
<1> QED
  BY <1>3, <1>4, <1>5, <1>6

LEMMA KeptIs ==
  ASSUME NEW d \in [AllFrames -> Values \cup {Junk}], NEW m
  PROVE  Kept(d, m) \in [AllFrames -> Values \cup {Junk}]
  BY DEF Kept

\* What an entry says of its frame.
LEMMA EntryFacts ==
  ASSUME MemInv, NEW t \in Tasks, NEW v \in DOMAIN pt[t]
  PROVE  /\ v \in VPages /\ pt[t] \in Tables /\ pt[t][v] \in Entries
         /\ pt[t][v].frame \in Frames /\ pt[t][v].frame \notin mem.free
         /\ pt[t][v].frame \in FramesOf(pt[t]) /\ t \in Mappers(pt[t][v].frame)
         /\ mem.refs[pt[t][v].frame] # 0
<1>1. pt[t] \in Tables
  BY DEF MemInv
<1>2. v \in VPages /\ pt[t][v] \in Entries
  BY <1>1, TableIs
<1>3. pt[t][v].frame \in Frames
  BY DEF MemInv, EntriesInjective
<1>4. pt[t][v].frame \in FramesOf(pt[t])
  BY DEF FramesOf
<1>5. t \in Mappers(pt[t][v].frame)
  BY <1>4 DEF Mappers
<1>6. pt[t][v].frame \notin mem.free /\ mem.refs[pt[t][v].frame] # 0
  BY <1>3, <1>5, MapperFacts DEF MemInv, Counted
<1> QED
  BY <1>1, <1>2, <1>3, <1>4, <1>5, <1>6

LEMMA FramesInUse ==
  ASSUME MemInv, NEW t \in Tasks
  PROVE  /\ FramesOf(pt[t]) \subseteq Frames /\ FramesOf(pt[t]) \cap mem.free = {}
         /\ \A f \in FramesOf(pt[t]) : t \in Mappers(f) /\ mem.refs[f] # 0
  BY EntryFacts DEF FramesOf

LEMMA FreeIsUnmapped ==
  ASSUME MemInv, NEW f \in mem.free, NEW t \in Tasks
  PROVE  f \in Frames /\ f \in AllFrames /\ f \notin FramesOf(pt[t]) /\ Mappers(f) = {}
  BY FramesInUse, MemIs DEF MemInv, Counted, AllFrames

\* free_tables takes away one reference for each entry.
LEMMA FreeTablesKeeps ==
  ASSUME MemInv, NEW t \in Tasks, FreeTables(t)
  PROVE  MemInv'
<1> DEFINE S == FramesOf(pt[t])
<1>1. /\ pt' = [pt EXCEPT ![t] = NoEntries]
      /\ mem' = Dropped(mem, S)
      /\ data' = Kept(data, mem')
  <2>1. S \ {ZeroFrame} = S
    BY FramesInUse, VmAssumption
  <2> QED
    BY <2>1 DEF FreeTables
<1>2. /\ pt' \in [Tasks -> Tables] /\ pt'[t] = NoEntries
      /\ \A u \in Tasks \ {t} : pt'[u] = pt[u]
  BY <1>1, NoEntriesIs DEF MemInv
<1>3. /\ S \subseteq Frames /\ S \cap mem.free = {}
      /\ \A f \in S : t \in Mappers(f) /\ mem.refs[f] # 0
  BY FramesInUse
<1>4. /\ mem' \in [free : SUBSET Frames, refs : [AllFrames -> 0..(RefMod - 1)],
                   block : [AllFrames -> SUBSET AllFrames]]
      /\ mem'.free = mem.free \cup {g \in S : mem.refs[g] = 1}
      /\ \A g \in AllFrames : mem'.refs[g] = IF g \in S THEN mem.refs[g] - 1 ELSE mem.refs[g]
      /\ mem'.block = mem.block
  <2>1. /\ mem \in [free : SUBSET Frames, refs : [AllFrames -> 0..(RefMod - 1)],
                    block : [AllFrames -> SUBSET AllFrames]]
        /\ \A g \in AllFrames : mem.block[g] = {g}
    BY DEF MemInv, SingleBlocks
  <2> QED
    BY <1>1, <1>3, <2>1, DroppedIs
<1>5. data' \in [AllFrames -> Values \cup {Junk}]
  BY <1>1, KeptIs DEF MemInv
<1>6. EntriesInjective' /\ Protected'
  <2>1. DOMAIN pt'[t] = {}
    BY <1>2, NoEntriesIs
  <2> QED
    <3>1. \A u \in Tasks : DOMAIN pt'[u] # {} => u # t /\ pt'[u] = pt[u]
      BY <1>2, <2>1
    <3>2. EntriesInjective'
      BY <3>1 DEF MemInv, EntriesInjective
    <3>3. Protected'
      BY <3>1 DEF MemInv, Protected
    <3> QED
      BY <3>2, <3>3
<1>7. SingleBlocks'
  BY <1>4 DEF MemInv, SingleBlocks
<1>8. Counted'
  <2> SUFFICES ASSUME NEW f \in Frames
               PROVE  /\ mem'.refs[f] = Cardinality(Mappers(f)')
                      /\ f \in mem'.free <=> Mappers(f)' = {}
    BY DEF Counted
  <2>1. Mappers(f)' = Mappers(f) \ {t}
    BY <1>2, NoEntriesIs, MappersOfChange
  <2>2. f \in AllFrames /\ mem.refs[f] = Cardinality(Mappers(f))
        /\ (f \in mem.free <=> Mappers(f) = {})
    BY DEF MemInv, Counted, AllFrames
  <2>3. CASE f \in S
    <3>1. /\ IsFiniteSet(Mappers(f) \ {t})
          /\ Cardinality(Mappers(f) \ {t}) = Cardinality(Mappers(f)) - 1
      BY <1>3, <2>3, MapperFacts, FS_RemoveElement
    <3>2. mem.refs[f] = 1 <=> Mappers(f) \ {t} = {}
      BY <2>2, <3>1, FS_EmptySet, MapperFacts
    <3> QED
      BY <1>3, <1>4, <2>1, <2>2, <2>3, <3>1, <3>2
  <2>4. CASE f \notin S
    <3>1. Mappers(f)' = Mappers(f)
      BY <2>1, <2>4 DEF Mappers
    <3> QED
      BY <1>4, <2>2, <2>4, <3>1
  <2> QED
    BY <2>3, <2>4
<1> QED
  BY <1>2, <1>4, <1>5, <1>6, <1>7, <1>8 DEF MemInv

\* A table with an entry for page v.
WithEntry(table, v, f, ap) ==
  [w \in DOMAIN table \cup {v} |-> IF w = v THEN [frame |-> f, ap |-> ap] ELSE table[w]]

\* A page without an entry gets one for a frame that was free.
LEMMA NewEntryKeeps ==
  ASSUME MemInv, NEW t \in Tasks, NEW v \in VPages, v \notin DOMAIN pt[t],
         NEW f \in mem.free, mem' = Taken(mem, f, {f}), NEW ap \in {"none", "ro", "rw"},
         pt' = [pt EXCEPT ![t] = WithEntry(pt[t], v, f, ap)],
         data' \in [AllFrames -> Values \cup {Junk}]
  PROVE  MemInv'
<1> DEFINE table == WithEntry(pt[t], v, f, ap)
<1>1. f \in Frames /\ f \in AllFrames /\ f \notin FramesOf(pt[t]) /\ Mappers(f) = {}
  BY FreeIsUnmapped
<1>2. pt[t] \in Tables
  BY DEF MemInv
<1>3. table \in Tables
  <2>1. [frame |-> f, ap |-> ap] \in Entries
    BY <1>1 DEF Entries
  <2>2. table \in [DOMAIN pt[t] \cup {v} -> Entries]
    BY <1>2, <2>1, TableIs DEF WithEntry
  <2>3. DOMAIN pt[t] \cup {v} \in SUBSET VPages
    BY <1>2, TableIs
  <2> QED
    BY <2>2, <2>3 DEF Tables
<1>4. /\ DOMAIN table = DOMAIN pt[t] \cup {v}
      /\ table[v].frame = f
      /\ \A w \in DOMAIN pt[t] : table[w] = pt[t][w]
  BY DEF WithEntry
<1>5. /\ pt' \in [Tasks -> Tables] /\ pt'[t] = table
      /\ \A u \in Tasks \ {t} : pt'[u] = pt[u]
  BY <1>3 DEF MemInv
<1> HIDE DEF table
<1>6. FramesOf(pt'[t]) = FramesOf(pt[t]) \cup {f}
  BY <1>4, <1>5 DEF FramesOf
<1>7. /\ mem' \in [free : SUBSET Frames, refs : [AllFrames -> 0..(RefMod - 1)],
                   block : [AllFrames -> SUBSET AllFrames]]
      /\ mem'.free = mem.free \ {f} /\ mem'.refs[f] = 1
      /\ \A g \in AllFrames \ {f} : mem'.refs[g] = mem.refs[g]
      /\ \A g \in AllFrames : mem'.block[g] = {g}
  BY TakenIs
<1>8. \A u \in Tasks : \A w \in DOMAIN pt[u] : pt[u][w].frame # f
  BY <1>1, EntryFacts
<1>9. EntriesInjective'
  <2> SUFFICES ASSUME NEW u \in Tasks, NEW w \in DOMAIN pt'[u], NEW x \in DOMAIN pt'[u]
               PROVE  /\ pt'[u][w].frame \in Frames
                      /\ pt'[u][w].frame = pt'[u][x].frame => w = x
    BY DEF EntriesInjective
  <2>1. CASE u # t
    BY <1>5, <2>1 DEF MemInv, EntriesInjective
  <2>2. CASE u = t
    <3>1. w \in DOMAIN pt[t] \cup {v} /\ x \in DOMAIN pt[t] \cup {v}
      BY <1>4, <1>5, <2>2
    <3> QED
      BY <1>1, <1>4, <1>5, <1>8, <2>2, <3>1 DEF MemInv, EntriesInjective
  <2> QED
    BY <2>1, <2>2
<1>10. Protected'
  <2> SUFFICES ASSUME NEW u \in Tasks, NEW z \in Tasks, u # z,
                      NEW w \in DOMAIN pt'[u], NEW x \in DOMAIN pt'[z],
                      pt'[u][w].frame = pt'[z][x].frame
               PROVE  pt'[u][w].ap # "rw"
    BY DEF Protected
  <2>1. ~(u = t /\ w = v) /\ ~(z = t /\ x = v)
    BY <1>4, <1>5, <1>8
  <2>2. w \in DOMAIN pt[u] /\ pt'[u][w] = pt[u][w]
    BY <1>4, <1>5, <2>1
  <2>3. x \in DOMAIN pt[z] /\ pt'[z][x] = pt[z][x]
    BY <1>4, <1>5, <2>1
  <2> QED
    BY <2>2, <2>3 DEF MemInv, Protected
<1>11. Counted'
  <2> SUFFICES ASSUME NEW g \in Frames
               PROVE  /\ mem'.refs[g] = Cardinality(Mappers(g)')
                      /\ g \in mem'.free <=> Mappers(g)' = {}
    BY DEF Counted
  <2>1. g \in AllFrames /\ mem.refs[g] = Cardinality(Mappers(g))
        /\ (g \in mem.free <=> Mappers(g) = {})
    BY DEF MemInv, Counted, AllFrames
  <2>2. Mappers(g)' = IF g \in FramesOf(pt[t]) \cup {f} THEN Mappers(g) \cup {t}
                      ELSE Mappers(g) \ {t}
    BY <1>5, <1>6, MappersOfChange
  <2>3. CASE g = f
    <3>1. Mappers(g)' = {t}
      BY <1>1, <2>2, <2>3
    <3> QED
      BY <1>7, <2>3, <3>1, FS_Singleton
  <2>4. CASE g # f
    <3>1. Mappers(g)' = Mappers(g)
      BY <2>2, <2>4 DEF Mappers
    <3> QED
      BY <1>7, <2>1, <2>4, <3>1
  <2> QED
    BY <2>3, <2>4
<1> QED
  BY <1>5, <1>7, <1>9, <1>10, <1>11 DEF MemInv, SingleBlocks

\* What is to be shown for Protected after a step.
LEMMA ProtectedNext ==
  ASSUME ASSUME NEW u \in Tasks, NEW z \in Tasks, u # z,
                NEW w \in DOMAIN pt'[u], NEW x \in DOMAIN pt'[z],
                pt'[u][w].frame = pt'[z][x].frame
         PROVE  pt'[u][w].ap # "rw"
  PROVE  Protected'
BY DEF Protected

\* vm_copy: the child maps what the parent maps, and nobody may write to it.
LEMMA ForkKeeps ==
  ASSUME MemInv, NEW t \in Tasks, NEW c \in Tasks, t # c, pt[c] = NoEntries, NEW both,
         both = [v \in DOMAIN pt[t] |-> ReadOnly(pt[t][v])],
         pt' = [pt EXCEPT ![t] = both, ![c] = both],
         mem' = Shared(mem, FramesOf(pt[t])), data' = data
  PROVE  MemInv'
<1> DEFINE S == FramesOf(pt[t])
<1>1. pt[t] \in Tables /\ \A v \in DOMAIN pt[t] : pt[t][v] \in Entries
  BY EntryFacts DEF MemInv
<1>2. /\ DOMAIN both = DOMAIN pt[t]
      /\ \A v \in DOMAIN pt[t] : /\ both[v] \in Entries /\ both[v].frame = pt[t][v].frame
                               /\ both[v].ap # "rw"
  BY <1>1 DEF ReadOnly, Entries
<1>3. both \in Tables
  <2>1. both = [v \in DOMAIN both |-> both[v]]
    BY <1>2
  <2> QED
    BY <1>1, <1>2, <2>1, TableIs
<1>4. /\ pt' \in [Tasks -> Tables] /\ pt'[t] = both /\ pt'[c] = both
      /\ \A u \in Tasks \ {t, c} : pt'[u] = pt[u]
  BY <1>3 DEF MemInv
<1>5. FramesOf(both) = S /\ FramesOf(NoEntries) = {} /\ DOMAIN NoEntries = {}
  BY <1>2, NoEntriesIs DEF FramesOf
<1>6. /\ S \subseteq Frames /\ S \cap mem.free = {} /\ S \subseteq AllFrames
      /\ \A f \in S : t \in Mappers(f)
  BY FramesInUse DEF AllFrames
<1>7. \A f \in Frames : Mappers(f)' = IF f \in S THEN Mappers(f) \cup {c} ELSE Mappers(f)
  <2>1. \A u \in Tasks, f \in Frames :
          f \in FramesOf(pt'[u]) <=> f \in FramesOf(pt[u]) \/ (f \in S /\ u = c)
    BY <1>4, <1>5
  <2> HIDE DEF S
  <2>2. \A f \in Frames : Mappers(f)' = {u \in Tasks : f \in FramesOf(pt[u]) \/ (f \in S /\ u = c)}
    <3> TAKE f \in Frames
    <3>1. Mappers(f)' = {u \in Tasks : f \in FramesOf(pt'[u])}
      BY DEF Mappers, FramesOf
    <3> QED
      BY <2>1, <3>1
  <2> QED
    BY <2>2 DEF Mappers
<1>8. /\ mem'.free = mem.free /\ mem'.block = mem.block
      /\ \A g \in AllFrames : mem'.refs[g] = IF g \in S THEN (mem.refs[g] + 1) % RefMod
                                               ELSE mem.refs[g]
  BY <1>6, MemIs DEF Shared
<1>9. \A f \in S : /\ Cardinality(Mappers(f)') = Cardinality(Mappers(f)) + 1
                   /\ mem'.refs[f] = Cardinality(Mappers(f)')
                   /\ mem'.refs[f] \in 0..(RefMod - 1)
  <2> SUFFICES ASSUME NEW f \in S
               PROVE  /\ Cardinality(Mappers(f)') = Cardinality(Mappers(f)) + 1
                      /\ mem'.refs[f] = Cardinality(Mappers(f)')
                      /\ mem'.refs[f] \in 0..(RefMod - 1)
    OBVIOUS
  <2>1. c \notin Mappers(f) /\ Mappers(f)' = Mappers(f) \cup {c}
    BY <1>5, <1>6, <1>7 DEF Mappers
  <2>2. Cardinality(Mappers(f)') = Cardinality(Mappers(f)) + 1
    BY <2>1, MapperFacts, FS_AddElement
  <2>3. Mappers(f)' \subseteq Tasks
    BY DEF Mappers
  <2>4. /\ Cardinality(Mappers(f)') <= Cardinality(Tasks)
        /\ Cardinality(Tasks) \in Nat /\ RefMod \in Nat /\ Cardinality(Tasks) < RefMod
    BY <2>3, FS_Subset, FS_CardinalityType, VmAssumption
  <2>5. mem.refs[f] = Cardinality(Mappers(f)) /\ mem.refs[f] \in Nat
    BY <1>6, MapperFacts DEF MemInv, Counted
  <2>6. mem.refs[f] + 1 < RefMod
    BY <2>2, <2>4, <2>5
  <2>7. (mem.refs[f] + 1) % RefMod = mem.refs[f] + 1
    BY <2>4, <2>5, <2>6
  <2> QED
    BY <1>6, <1>8, <2>2, <2>4, <2>5, <2>6, <2>7
<1>10. mem' \in [free : SUBSET Frames, refs : [AllFrames -> 0..(RefMod - 1)],
                 block : [AllFrames -> SUBSET AllFrames]]
  <2> DEFINE refs == [f \in AllFrames |->
                       IF f \in S \ mem.free THEN (mem.refs[f] + 1) % RefMod ELSE mem.refs[f]]
  <2>1. mem' = [free |-> mem.free, refs |-> refs, block |-> mem.block]
    BY DEF Shared
  <2>2. mem'.refs = refs
    BY <2>1
  <2> HIDE DEF refs
  <2>3. \A g \in AllFrames : mem'.refs[g] \in 0..(RefMod - 1)
    BY <1>8, <1>9, MemIs
  <2>4. refs \in [AllFrames -> 0..(RefMod - 1)]
    BY <2>2, <2>3 DEF refs
  <2> QED
    BY <2>1, <2>4, MemIs
<1>11. EntriesInjective'
  <2> SUFFICES ASSUME NEW u \in Tasks, NEW w \in DOMAIN pt'[u], NEW x \in DOMAIN pt'[u]
               PROVE  /\ pt'[u][w].frame \in Frames
                      /\ pt'[u][w].frame = pt'[u][x].frame => w = x
    BY DEF EntriesInjective
  <2>1. CASE u \in {t, c}
    <3>1. /\ w \in DOMAIN pt[t] /\ pt'[u][w].frame = pt[t][w].frame
          /\ x \in DOMAIN pt[t] /\ pt'[u][x].frame = pt[t][x].frame
      BY <1>2, <1>4, <2>1
    <3>2. /\ pt[t][w].frame \in Frames
          /\ pt[t][w].frame = pt[t][x].frame => w = x
      BY <3>1 DEF MemInv, EntriesInjective
    <3> QED
      BY <3>1, <3>2
  <2>2. CASE u \notin {t, c}
    BY <1>4, <2>2 DEF MemInv, EntriesInjective
  <2> QED
    BY <2>1, <2>2
<1>12. Protected'
  <2> SUFFICES ASSUME NEW u \in Tasks, NEW z \in Tasks, u # z,
                      NEW w \in DOMAIN pt'[u], NEW x \in DOMAIN pt'[z],
                      pt'[u][w].frame = pt'[z][x].frame
               PROVE  pt'[u][w].ap # "rw"
    BY ProtectedNext, Zenon
  <2>1. CASE u \in {t, c}
    BY <1>2, <1>4, <2>1
  <2>2. CASE u \notin {t, c}
    <3>1. w \in DOMAIN pt[u] /\ pt'[u][w] = pt[u][w]
      BY <1>4, <2>2
    <3>2. CASE z \in {t, c}
      <4>1. x \in DOMAIN pt[t] /\ pt'[z][x].frame = pt[t][x].frame
        BY <1>2, <1>4, <3>2
      <4>2. u # t /\ pt[u][w].frame = pt[t][x].frame
        BY <2>2, <3>1, <4>1
      <4>3. pt[u][w].ap # "rw"
        BY <3>1, <4>1, <4>2, Zenon DEF MemInv, Protected
      <4> QED
        BY <3>1, <4>3
    <3>3. CASE z \notin {t, c}
      <4>1. x \in DOMAIN pt[z] /\ pt'[z][x] = pt[z][x]
        BY <1>4, <3>3
      <4>2. pt[u][w].frame = pt[z][x].frame
        BY <3>1, <4>1
      <4>3. pt[u][w].ap # "rw"
        BY <3>1, <4>1, <4>2, Zenon DEF MemInv, Protected
      <4> QED
        BY <3>1, <4>3
    <3> QED
      BY <3>2, <3>3
  <2> QED
    BY <2>1, <2>2
<1>13. Counted'
  <2> SUFFICES ASSUME NEW f \in Frames
               PROVE  /\ mem'.refs[f] = Cardinality(Mappers(f)')
                      /\ f \in mem'.free <=> Mappers(f)' = {}
    BY DEF Counted
  <2>1. f \in AllFrames /\ mem.refs[f] = Cardinality(Mappers(f))
        /\ (f \in mem.free <=> Mappers(f) = {})
    BY DEF MemInv, Counted, AllFrames
  <2>2. CASE f \in S
    BY <1>6, <1>7, <1>8, <1>9, <2>2
  <2>3. CASE f \notin S
    BY <1>7, <1>8, <2>1, <2>3
  <2> QED
    BY <2>2, <2>3
<1>14. SingleBlocks' /\ data' \in [AllFrames -> Values \cup {Junk}]
  BY <1>8 DEF MemInv, SingleBlocks
<1> QED
  BY <1>4, <1>10, <1>11, <1>12, <1>13, <1>14 DEF MemInv

\* The entry of page v of task t, with what it leaves of the others.
LEMMA EntryChange ==
  ASSUME MemInv, NEW t \in Tasks, NEW v \in DOMAIN pt[t], NEW f \in Frames,
         \A w \in DOMAIN pt[t] \ {v} : pt[t][w].frame # f,
         pt' = [pt EXCEPT ![t][v] = [frame |-> f, ap |-> "rw"]]
  PROVE  /\ pt' \in [Tasks -> Tables]
         /\ DOMAIN pt'[t] = DOMAIN pt[t] /\ pt'[t][v] = [frame |-> f, ap |-> "rw"]
         /\ \A w \in DOMAIN pt[t] \ {v} : pt'[t][w] = pt[t][w]
         /\ \A u \in Tasks \ {t} : pt'[u] = pt[u]
         /\ EntriesInjective'
         /\ FramesOf(pt'[t]) = (FramesOf(pt[t]) \ {pt[t][v].frame}) \cup {f}
<1>1. pt[t] \in Tables
  BY DEF MemInv
<1>2. [frame |-> f, ap |-> "rw"] \in Entries
  BY DEF Entries, AllFrames
<1>3. /\ pt'[t] = [pt[t] EXCEPT ![v] = [frame |-> f, ap |-> "rw"]]
      /\ \A u \in Tasks \ {t} : pt'[u] = pt[u]
      /\ DOMAIN pt' = Tasks /\ pt' = [u \in Tasks |-> pt'[u]]
  BY DEF MemInv
<1>4. /\ DOMAIN pt'[t] = DOMAIN pt[t] /\ pt'[t][v] = [frame |-> f, ap |-> "rw"]
      /\ \A w \in DOMAIN pt[t] \ {v} : pt'[t][w] = pt[t][w]
      /\ pt'[t] = [w \in DOMAIN pt'[t] |-> pt'[t][w]]
  BY <1>3
<1>5. pt'[t] \in Tables
  BY <1>1, <1>2, <1>4, TableIs
<1>6. pt' \in [Tasks -> Tables]
  BY <1>3, <1>5 DEF MemInv
<1>7. pt'[t][v].frame = f
  BY <1>4
<1>8. EntriesInjective'
  <2> SUFFICES ASSUME NEW u \in Tasks, NEW w \in DOMAIN pt'[u], NEW x \in DOMAIN pt'[u]
               PROVE  /\ pt'[u][w].frame \in Frames
                      /\ pt'[u][w].frame = pt'[u][x].frame => w = x
    BY DEF EntriesInjective
  <2>1. CASE u = t
    <3>1. w \in DOMAIN pt[t] /\ x \in DOMAIN pt[t]
      BY <1>4, <2>1
    <3> QED
      BY <1>4, <1>7, <2>1, <3>1 DEF MemInv, EntriesInjective
  <2>2. CASE u # t
    BY <1>3, <2>2 DEF MemInv, EntriesInjective
  <2> QED
    BY <2>1, <2>2
<1>9. FramesOf(pt'[t]) = (FramesOf(pt[t]) \ {pt[t][v].frame}) \cup {f}
  <2>1. \A w \in DOMAIN pt[t] \ {v} : pt[t][w].frame # pt[t][v].frame
    BY DEF MemInv, EntriesInjective
  <2> QED
    BY <1>4, <1>7, <2>1 DEF FramesOf
<1> QED
  BY <1>3, <1>4, <1>6, <1>8, <1>9

\* A store to a shared frame gets a copy, and the frame loses the reference of the entry.
LEMMA CopyKeeps ==
  ASSUME MemInv, NEW t \in Tasks, NEW v \in DOMAIN pt[t],
         mem.refs[pt[t][v].frame] > 1, NEW f \in mem.free,
         mem' = Dropped(Taken(mem, f, {f}), {pt[t][v].frame}),
         pt' = [pt EXCEPT ![t][v] = [frame |-> f, ap |-> "rw"]],
         data' \in [AllFrames -> Values \cup {Junk}]
  PROVE  MemInv' /\ mem'.free = mem.free \ {f}
<1> DEFINE old == pt[t][v].frame
<1>1. /\ f \in Frames /\ f \in AllFrames /\ Mappers(f) = {}
      /\ \A u \in Tasks : \A w \in DOMAIN pt[u] : pt[u][w].frame # f
  BY FreeIsUnmapped, EntryFacts
<1>2. /\ old \in Frames /\ old \in AllFrames /\ old \notin mem.free
      /\ old \in FramesOf(pt[t]) /\ t \in Mappers(old) /\ old # f
  BY <1>1, EntryFacts DEF AllFrames
<1>3. PICK m : m = Taken(mem, f, {f})
  OBVIOUS
<1>4. /\ m \in [free : SUBSET Frames, refs : [AllFrames -> 0..(RefMod - 1)],
                block : [AllFrames -> SUBSET AllFrames]]
      /\ m.free = mem.free \ {f} /\ m.refs[f] = 1
      /\ \A g \in AllFrames \ {f} : m.refs[g] = mem.refs[g]
      /\ \A g \in AllFrames : m.block[g] = {g}
  BY <1>3, TakenIs
<1>5. m.refs[old] = mem.refs[old] /\ m.refs[old] > 1 /\ old \notin m.free /\ m.refs[old] \in Nat
  <2>1. m.refs[old] \in 0..(RefMod - 1)
    BY <1>2, <1>4
  <2> QED
    BY <1>2, <1>4, <2>1, VmAssumption
<1>6. /\ mem' \in [free : SUBSET Frames, refs : [AllFrames -> 0..(RefMod - 1)],
                   block : [AllFrames -> SUBSET AllFrames]]
      /\ mem'.free = m.free
      /\ mem'.refs[old] = m.refs[old] - 1
      /\ \A g \in AllFrames \ {old} : mem'.refs[g] = m.refs[g]
      /\ mem'.block = m.block
  <2>1. PICK S : S = {old}
    OBVIOUS
  <2>2. mem' = Dropped(m, S)
    BY <1>3, <2>1
  <2>3. /\ m \in [free : SUBSET Frames, refs : [AllFrames -> 0..(RefMod - 1)],
                  block : [AllFrames -> SUBSET AllFrames]]
        /\ \A g \in AllFrames : m.block[g] = {g}
    BY <1>4
  <2>4. S \in SUBSET Frames /\ S \cap m.free = {} /\ \A g \in S : m.refs[g] # 0
    BY <1>2, <1>5, <2>1
  <2>5. PICK d : d = Dropped(m, S)
    OBVIOUS
  <2>6. /\ d \in [free : SUBSET Frames, refs : [AllFrames -> 0..(RefMod - 1)],
                  block : [AllFrames -> SUBSET AllFrames]]
        /\ d.free = m.free \cup {g \in S : m.refs[g] = 1}
        /\ \A g \in AllFrames : d.refs[g] = IF g \in S THEN m.refs[g] - 1 ELSE m.refs[g]
        /\ d.block = m.block
    BY <2>3, <2>4, <2>5, DroppedIs
  <2>7. {g \in S : m.refs[g] = 1} = {}
    BY <1>5, <2>1
  <2>8. mem' = d
    BY <2>2, <2>5
  <2> QED
    BY <1>2, <2>1, <2>6, <2>7, <2>8
<1>7. /\ mem'.free = mem.free \ {f}
      /\ mem'.refs[f] = 1 /\ mem'.refs[old] = mem.refs[old] - 1
      /\ \A g \in AllFrames \ {f, old} : mem'.refs[g] = mem.refs[g]
  BY <1>1, <1>2, <1>4, <1>5, <1>6
<1>8. /\ pt' \in [Tasks -> Tables]
      /\ DOMAIN pt'[t] = DOMAIN pt[t] /\ pt'[t][v] = [frame |-> f, ap |-> "rw"]
      /\ \A w \in DOMAIN pt[t] \ {v} : pt'[t][w] = pt[t][w]
      /\ \A u \in Tasks \ {t} : pt'[u] = pt[u]
      /\ EntriesInjective'
      /\ FramesOf(pt'[t]) = (FramesOf(pt[t]) \ {old}) \cup {f}
  <2>1. f \in Frames /\ \A w \in DOMAIN pt[t] \ {v} : pt[t][w].frame # f
    BY <1>1
  <2>2. /\ pt' \in [Tasks -> Tables]
        /\ DOMAIN pt'[t] = DOMAIN pt[t] /\ pt'[t][v] = [frame |-> f, ap |-> "rw"]
        /\ \A w \in DOMAIN pt[t] \ {v} : pt'[t][w] = pt[t][w]
        /\ \A u \in Tasks \ {t} : pt'[u] = pt[u]
        /\ EntriesInjective'
        /\ FramesOf(pt'[t]) = (FramesOf(pt[t]) \ {pt[t][v].frame}) \cup {f}
    BY <2>1, EntryChange, Zenon
  <2> QED
    BY <2>2
<1>9. Protected'
  <2> SUFFICES ASSUME NEW u \in Tasks, NEW z \in Tasks, u # z,
                      NEW w \in DOMAIN pt'[u], NEW x \in DOMAIN pt'[z],
                      pt'[u][w].frame = pt'[z][x].frame
               PROVE  pt'[u][w].ap # "rw"
    BY DEF Protected
  <2>1. ~(u = t /\ w = v) /\ ~(z = t /\ x = v)
    BY <1>1, <1>8
  <2>2. w \in DOMAIN pt[u] /\ pt'[u][w] = pt[u][w]
    BY <1>8, <2>1
  <2>3. x \in DOMAIN pt[z] /\ pt'[z][x] = pt[z][x]
    BY <1>8, <2>1
  <2> QED
    BY <2>2, <2>3 DEF MemInv, Protected
<1>10. Counted'
  <2> SUFFICES ASSUME NEW g \in Frames
               PROVE  /\ mem'.refs[g] = Cardinality(Mappers(g)')
                      /\ g \in mem'.free <=> Mappers(g)' = {}
    BY DEF Counted
  <2>1. g \in AllFrames /\ mem.refs[g] = Cardinality(Mappers(g))
        /\ (g \in mem.free <=> Mappers(g) = {})
    BY DEF MemInv, Counted, AllFrames
  <2>2. Mappers(g)' = IF g \in (FramesOf(pt[t]) \ {old}) \cup {f} THEN Mappers(g) \cup {t}
                      ELSE Mappers(g) \ {t}
    BY <1>8, MappersOfChange
  <2>3. CASE g = f
    <3>1. Mappers(g)' = {t}
      BY <1>1, <2>2, <2>3
    <3>2. g \notin mem'.free /\ mem'.refs[g] = 1
      BY <1>7, <2>3
    <3>3. Cardinality({t}) = 1
      BY FS_Singleton
    <3> QED
      BY <3>1, <3>2, <3>3
  <2>4. CASE g = old
    <3>1. Mappers(g)' = Mappers(old) \ {t}
      BY <1>2, <2>2, <2>4
    <3>2. /\ IsFiniteSet(Mappers(old) \ {t})
          /\ Cardinality(Mappers(old) \ {t}) = Cardinality(Mappers(old)) - 1
      BY <1>2, MapperFacts, FS_RemoveElement
    <3>3. Cardinality(Mappers(g)') # 0
      BY <1>5, <2>1, <2>4, <3>1, <3>2
    <3>4. Mappers(g)' # {}
      BY <3>3, FS_EmptySet, Zenon
    <3>5. g \notin mem'.free
      BY <1>2, <1>7, <2>4
    <3>6. mem'.refs[g] = Cardinality(Mappers(g)')
      BY <1>7, <2>1, <2>4, <3>1, <3>2
    <3> QED
      BY <3>4, <3>5, <3>6
  <2>5. CASE g # f /\ g # old
    <3>1. Mappers(g)' = Mappers(g)
      BY <2>2, <2>5 DEF Mappers
    <3> QED
      BY <1>7, <2>1, <2>5, <3>1
  <2> QED
    BY <2>3, <2>4, <2>5
<1>11. SingleBlocks'
  BY <1>4, <1>6 DEF SingleBlocks
<1> QED
  BY <1>6, <1>7, <1>8, <1>9, <1>10, <1>11 DEF MemInv

\* A store to a frame nobody shares makes the entry writable.
LEMMA ClaimKeeps ==
  ASSUME MemInv, NEW t \in Tasks, NEW v \in DOMAIN pt[t],
         NEW old \in {pt[t][v].frame}, ~(mem.refs[old] > 1), mem' = mem, data' = data,
         pt' = [pt EXCEPT ![t][v] = [frame |-> old, ap |-> "rw"]]
  PROVE  MemInv'
<1>1. /\ old \in Frames /\ old \in FramesOf(pt[t]) /\ t \in Mappers(old)
      /\ \A w \in DOMAIN pt[t] \ {v} : pt[t][w].frame # old
  BY EntryFacts DEF MemInv, EntriesInjective
<1>2. /\ pt' \in [Tasks -> Tables]
      /\ DOMAIN pt'[t] = DOMAIN pt[t] /\ pt'[t][v] = [frame |-> old, ap |-> "rw"]
      /\ \A w \in DOMAIN pt[t] \ {v} : pt'[t][w] = pt[t][w]
      /\ \A u \in Tasks \ {t} : pt'[u] = pt[u]
      /\ EntriesInjective'
      /\ FramesOf(pt'[t]) = FramesOf(pt[t])
  <2>1. old \in Frames /\ \A w \in DOMAIN pt[t] \ {v} : pt[t][w].frame # old
    BY <1>1
  <2>2. /\ pt' \in [Tasks -> Tables]
        /\ DOMAIN pt'[t] = DOMAIN pt[t] /\ pt'[t][v] = [frame |-> old, ap |-> "rw"]
        /\ \A w \in DOMAIN pt[t] \ {v} : pt'[t][w] = pt[t][w]
        /\ \A u \in Tasks \ {t} : pt'[u] = pt[u]
        /\ EntriesInjective'
        /\ FramesOf(pt'[t]) = (FramesOf(pt[t]) \ {pt[t][v].frame}) \cup {old}
    BY <2>1, EntryChange, Zenon
  <2>3. FramesOf(pt'[t]) = FramesOf(pt[t])
    <3>1. FramesOf(pt'[t]) = (FramesOf(pt[t]) \ {old}) \cup {old}
      BY <2>2
    <3> QED
      BY <1>1, <3>1
  <2> QED
    BY <2>2, <2>3, Zenon
<1>3. \A u \in Tasks : FramesOf(pt'[u]) = FramesOf(pt[u])
  BY <1>2
<1>4. \A g : Mappers(g)' = Mappers(g)
  <2> TAKE g
  <2>1. Mappers(g)' = {u \in Tasks : g \in FramesOf(pt'[u])}
    BY DEF Mappers, FramesOf
  <2> QED
    BY <1>3, <2>1 DEF Mappers
<1>5. Counted' /\ SingleBlocks'
  BY <1>4 DEF MemInv, Counted, SingleBlocks
<1>6. \A u \in Tasks : u # t => \A w \in DOMAIN pt[u] : pt[u][w].frame # old
  <2> SUFFICES ASSUME NEW u \in Tasks, u # t, NEW w \in DOMAIN pt[u], pt[u][w].frame = old
               PROVE  FALSE
    OBVIOUS
  <2>1. u \in Mappers(old)
    BY EntryFacts
  <2>2. Cardinality(Mappers(old)) <= 1
    BY <1>1, MapperFacts DEF MemInv, Counted
  <2> QED
    BY <1>1, <2>1, <2>2, OnlyMapper
<1>7. Protected'
  <2> SUFFICES ASSUME NEW u \in Tasks, NEW z \in Tasks, u # z,
                      NEW w \in DOMAIN pt'[u], NEW x \in DOMAIN pt'[z],
                      pt'[u][w].frame = pt'[z][x].frame
               PROVE  pt'[u][w].ap # "rw"
    BY DEF Protected
  <2>1. w \in DOMAIN pt[u] /\ pt'[u][w].frame = pt[u][w].frame
    BY <1>2
  <2>2. x \in DOMAIN pt[z] /\ pt'[z][x].frame = pt[z][x].frame
    BY <1>2
  <2>3. ~(u = t /\ w = v)
    BY <1>6, <2>1, <2>2
  <2>4. pt'[u][w] = pt[u][w]
    BY <1>2, <2>1, <2>3
  <2> QED
    BY <2>1, <2>2, <2>4 DEF MemInv, Protected
<1> QED
  BY <1>2, <1>5, <1>7 DEF MemInv

(***************************************************************************)
(* Steps and areas.                                                        *)
(***************************************************************************)
\* The other half of the invariant.
AreaPart == /\ status \in [Tasks -> {"none", "running", "dead"}]
            /\ AreaInv /\ NoneHasNothing /\ HasStack /\ AreasDisjoint

\* The part about the TLB.
TlbPart == /\ stale \in [Tasks -> SUBSET VPages]
           /\ StaleIsMapped /\ StaleInPlace

LEMMA IInvParts == IInv <=> MemInv /\ AreaPart /\ TlbPart
  BY DEF IInv, TypeOK, MemInv, AreaPart, AreaInv, TlbPart

LEMMA FlushedKeeps ==
  ASSUME stale' = Flushed
  PROVE  TlbPart'
  BY DEF Flushed, TlbPart, StaleIsMapped, StaleInPlace

\* A step of t that leaves the pages alone it may write through the TLB.
LEMMA OnlyOfKeeps ==
  ASSUME TlbPart, NEW t \in Tasks, stale' = OnlyOf(t),
         \A u \in Tasks \ {t} : pt'[u] = pt[u],
         \A v \in stale[t] : v \in DOMAIN pt'[t] /\ pt'[t][v] = pt[t][v]
  PROVE  /\ TlbPart'
         /\ stale'[t] = stale[t] /\ \A u \in Tasks \ {t} : stale'[u] = {}
<1>1. /\ stale' \in [Tasks -> SUBSET VPages] /\ stale'[t] = stale[t]
      /\ \A u \in Tasks \ {t} : stale'[u] = {}
  BY DEF OnlyOf, Flushed, TlbPart
<1>2. StaleIsMapped'
  BY <1>1 DEF StaleIsMapped
<1>3. StaleInPlace'
  <2> SUFFICES ASSUME NEW r \in Tasks, NEW u \in Tasks, NEW v \in stale'[r],
                      NEW w \in DOMAIN pt'[u], r # u, pt'[u][w].frame = pt'[r][v].frame
               PROVE  w = v
    BY DEF StaleInPlace
  <2>1. r = t /\ v \in stale[t]
    BY <1>1
  <2>2. w \in DOMAIN pt[u] /\ pt[u][w].frame = pt[t][v].frame
    BY <2>1
  <2> QED
    BY <2>1, <2>2 DEF TlbPart, StaleInPlace
<1> QED
  BY <1>1, <1>2, <1>3 DEF TlbPart

\* The pages fork() takes the parent's write permission from were the parent's alone, and
\* are now the child's too, at the same place.
LEMMA ForkKeepsTlb ==
  ASSUME MemInv, TlbPart, NEW t \in Tasks, NEW c \in Tasks, t # c, NEW both,
         both = [v \in DOMAIN pt[t] |-> ReadOnly(pt[t][v])],
         pt' = [pt EXCEPT ![t] = both, ![c] = both],
         stale' = [OnlyOf(t) EXCEPT ![t] = @ \cup WritablePages(t)]
  PROVE  /\ TlbPart'
         /\ stale'[t] = stale[t] \cup WritablePages(t)
         /\ \A u \in Tasks \ {t} : stale'[u] = {}
<1>1. /\ DOMAIN both = DOMAIN pt[t]
      /\ \A v \in DOMAIN pt[t] : both[v].frame = pt[t][v].frame
      /\ pt'[t] = both /\ pt'[c] = both /\ \A u \in Tasks \ {t, c} : pt'[u] = pt[u]
  BY DEF ReadOnly, MemInv
<1>2. /\ stale'[t] = stale[t] \cup WritablePages(t)
      /\ \A u \in Tasks \ {t} : stale'[u] = {}
      /\ WritablePages(t) \subseteq DOMAIN pt[t] /\ stale[t] \subseteq DOMAIN pt[t]
  BY DEF OnlyOf, Flushed, WritablePages, TlbPart, StaleIsMapped
<1>3. stale' \in [Tasks -> SUBSET VPages]
  <2>1. DOMAIN pt[t] \subseteq VPages
    BY EntryFacts
  <2>2. stale[t] \cup WritablePages(t) \in SUBSET VPages
    BY <1>2, <2>1
  <2> QED
    BY <2>2 DEF OnlyOf, Flushed, TlbPart
<1>4. StaleIsMapped'
  BY <1>1, <1>2 DEF StaleIsMapped
<1>5. StaleInPlace'
  <2> SUFFICES ASSUME NEW r \in Tasks, NEW u \in Tasks, NEW v \in stale'[r],
                      NEW w \in DOMAIN pt'[u], r # u, pt'[u][w].frame = pt'[r][v].frame
               PROVE  w = v
    BY DEF StaleInPlace
  <2>1. /\ r = t /\ v \in DOMAIN pt[t] /\ v \in stale[t] \cup WritablePages(t)
        /\ pt'[r][v].frame = pt[t][v].frame
    <3>1. r = t
      BY <1>2
    <3>2. v \in stale[t] \cup WritablePages(t) /\ v \in DOMAIN pt[t]
      BY <1>2, <3>1
    <3> QED
      BY <1>1, <3>1, <3>2
  <2>2. CASE u = c
    BY <1>1, <2>1, <2>2 DEF MemInv, EntriesInjective
  <2>3. CASE u # c
    <3>1. w \in DOMAIN pt[u] /\ pt[u][w].frame = pt[t][v].frame /\ u # t
      BY <1>1, <2>1, <2>3
    <3>2. pt[t][v].ap # "rw"
      BY <2>1, <3>1, Zenon DEF MemInv, Protected
    <3>3. v \in stale[t]
      BY <2>1, <3>2 DEF WritablePages
    <3> QED
      BY <3>1, <3>3 DEF TlbPart, StaleInPlace
  <2> QED
    BY <2>2, <2>3
<1> QED
  BY <1>2, <1>3, <1>4, <1>5 DEF TlbPart

CoveredBy(table, areas) ==
  \A v \in DOMAIN table : \E i \in DOMAIN areas : v \in PagesIn(areas[i].start, areas[i].end)

LEMMA AreasDisjointIs ==
  AreasDisjoint <=> \A t \in Tasks : PagesDisjoint(vmas[t]) /\ CoveredBy(pt[t], vmas[t])
  BY DEF AreasDisjoint, PagesDisjoint, CoveredBy

\* A step that gives task t a legal address space and leaves those of the others alone.
Reshaped(t) ==
  /\ status' \in [Tasks -> {"none", "running", "dead"}]
  /\ size' \in [Tasks -> ProgSizes \cup {0}]
  /\ vmas' \in [Tasks -> Seq(Areas)]
  /\ \A u \in Tasks \ {t} : /\ status'[u] = status[u] /\ size'[u] = size[u] /\ vmas'[u] = vmas[u]
                            /\ DOMAIN pt'[u] = DOMAIN pt[u]
                            /\ status[u] = "none" => pt'[u] = pt[u]
  /\ status'[t] = "none" => pt'[t] = NoEntries /\ vmas'[t] = <<>>
  /\ status'[t] # "none" =>
       /\ size'[t] \in ProgSizes
       /\ \E i \in DOMAIN vmas'[t] : vmas'[t][i].start = StackBase /\ vmas'[t][i].end = Top
  /\ \A i \in DOMAIN vmas'[t] : vmas'[t][i].start % PageSize = 0
  /\ PagesDisjoint(vmas'[t])
  /\ CoveredBy(pt'[t], vmas'[t])

LEMMA ReshapedKeeps ==
  ASSUME AreaPart, NEW t \in Tasks, Reshaped(t)
  PROVE  AreaPart'
<1>1. AreaInv'
  <2>1. \A u \in Tasks : \A i \in DOMAIN vmas'[u] : vmas'[u][i].start % PageSize = 0
    <3> TAKE u \in Tasks
    <3>1. CASE u = t
      BY <3>1 DEF Reshaped
    <3>2. CASE u # t
      BY <3>2 DEF Reshaped, AreaPart, AreaInv, StartsAligned
    <3> QED
      BY <3>1, <3>2
  <2> QED
    BY <2>1 DEF Reshaped, AreaInv, StartsAligned
<1>2. NoneHasNothing'
  <2> SUFFICES ASSUME NEW u \in Tasks, status'[u] = "none"
               PROVE  pt'[u] = NoEntries /\ vmas'[u] = <<>>
    BY DEF NoneHasNothing, NoEntries
  <2>1. CASE u = t
    BY <2>1 DEF Reshaped
  <2>2. CASE u # t
    BY <2>2 DEF Reshaped, AreaPart, NoneHasNothing
  <2> QED
    BY <2>1, <2>2
<1>3. HasStack'
  <2> SUFFICES ASSUME NEW u \in Tasks, status'[u] # "none"
               PROVE  /\ size'[u] \in ProgSizes
                      /\ \E i \in DOMAIN vmas'[u] :
                           vmas'[u][i].start = StackBase /\ vmas'[u][i].end = Top
    BY DEF HasStack
  <2>1. CASE u = t
    BY <2>1 DEF Reshaped
  <2>2. CASE u # t
    <3>1. status'[u] = status[u] /\ size'[u] = size[u] /\ vmas'[u] = vmas[u]
      BY <2>2 DEF Reshaped
    <3>2. /\ size[u] \in ProgSizes
          /\ \E i \in DOMAIN vmas[u] :
               vmas[u][i].start = StackBase /\ vmas[u][i].end = Top
      BY <3>1 DEF Reshaped, AreaPart, HasStack
    <3> QED
      BY <3>1, <3>2
  <2> QED
    BY <2>1, <2>2
<1>4. AreasDisjoint'
  <2>1. \A u \in Tasks : PagesDisjoint(vmas'[u]) /\ CoveredBy(pt'[u], vmas'[u])
    <3> TAKE u \in Tasks
    <3>1. CASE u = t
      BY <3>1 DEF Reshaped
    <3>2. CASE u # t
      <4>1. vmas'[u] = vmas[u] /\ DOMAIN pt'[u] = DOMAIN pt[u]
        BY <3>2 DEF Reshaped
      <4>2. PagesDisjoint(vmas[u]) /\ CoveredBy(pt[u], vmas[u])
        BY AreasDisjointIs DEF AreaPart
      <4> QED
        BY <4>1, <4>2 DEF CoveredBy
    <3> QED
      BY <3>1, <3>2
  <2> QED
    BY <2>1 DEF AreasDisjoint, PagesDisjoint, CoveredBy
<1> QED
  BY <1>1, <1>2, <1>3, <1>4 DEF AreaPart, Reshaped

\* A step that leaves the areas of all tasks alone and adds no entry.
LEMMA SameAreas ==
  ASSUME AreaPart, NEW t \in Tasks, status[t] # "none",
         vmas' = vmas, size' = size,
         status' = status \/ status' = [status EXCEPT ![t] = "dead"],
         \A u \in Tasks \ {t} : pt'[u] = pt[u],
         CoveredBy(pt'[t], vmas[t])
  PROVE  AreaPart'
<1>1. /\ status' \in [Tasks -> {"none", "running", "dead"}] /\ status'[t] # "none"
      /\ \A u \in Tasks \ {t} : status'[u] = status[u]
  BY DEF AreaPart
<1>2. PagesDisjoint(vmas[t])
  BY AreasDisjointIs DEF AreaPart
<1>3. /\ size[t] \in ProgSizes
      /\ \E i \in DOMAIN vmas[t] : vmas[t][i].start = StackBase /\ vmas[t][i].end = Top
  BY DEF AreaPart, HasStack
<1>4. /\ \A i \in DOMAIN vmas[t] : vmas[t][i].start % PageSize = 0
      /\ size \in [Tasks -> ProgSizes \cup {0}] /\ vmas \in [Tasks -> Seq(Areas)]
  BY DEF AreaPart, AreaInv, StartsAligned
<1>5. Reshaped(t)
  BY <1>1, <1>2, <1>3, <1>4 DEF Reshaped
<1> QED
  BY <1>5, ReshapedKeeps

LEMMA Unchanged ==
  ASSUME MemInv, pt' = pt, mem' = mem, data' = data
  PROVE  MemInv'
<1>1. \A f : Mappers(f)' = Mappers(f)
  BY DEF Mappers, FramesOf
<1>2. Counted'
  BY <1>1 DEF MemInv, Counted
<1>3. EntriesInjective' /\ SingleBlocks' /\ Protected'
  BY DEF MemInv, EntriesInjective, SingleBlocks, Protected
<1> QED
  BY <1>2, <1>3 DEF MemInv

LEMMA Covered ==
  ASSUME AreaPart, NEW t \in Tasks
  PROVE  CoveredBy(pt[t], vmas[t]) /\ PagesDisjoint(vmas[t])
  BY AreasDisjointIs DEF AreaPart

\* proc_create and sys_exec give a task the areas of a program.
LEMMA ProgramKeeps ==
  ASSUME AreaPart, NEW t \in Tasks, NEW sz \in ProgSizes,
         status' = status \/ status' = [status EXCEPT ![t] = "running"], status'[t] # "none",
         size' = [size EXCEPT ![t] = sz],
         vmas' = [vmas EXCEPT ![t] = ProgAreas(sz)],
         \A u \in Tasks \ {t} : pt'[u] = pt[u], pt'[t] = NoEntries
  PROVE  AreaPart'
<1>1. /\ ProgAreas(sz) \in Seq(Areas)
      /\ \A i \in DOMAIN ProgAreas(sz) : ProgAreas(sz)[i].start % PageSize = 0
      /\ PagesDisjoint(ProgAreas(sz))
      /\ \E i \in DOMAIN ProgAreas(sz) :
           ProgAreas(sz)[i].start = StackBase /\ ProgAreas(sz)[i].end = Top
  BY ProgAreasAre
<1>2. /\ vmas \in [Tasks -> Seq(Areas)] /\ size \in [Tasks -> ProgSizes \cup {0}]
      /\ status \in [Tasks -> {"none", "running", "dead"}]
  BY DEF AreaPart, AreaInv
<1>3. /\ vmas' \in [Tasks -> Seq(Areas)] /\ vmas'[t] = ProgAreas(sz)
      /\ size' \in [Tasks -> ProgSizes \cup {0}] /\ size'[t] = sz
      /\ status' \in [Tasks -> {"none", "running", "dead"}]
      /\ \A u \in Tasks \ {t} :
           status'[u] = status[u] /\ size'[u] = size[u] /\ vmas'[u] = vmas[u]
  BY <1>1, <1>2
<1>4. CoveredBy(pt'[t], ProgAreas(sz))
  BY NoEntriesIs DEF CoveredBy
<1>5. Reshaped(t)
  BY <1>1, <1>3, <1>4 DEF Reshaped
<1> QED
  BY <1>5, ReshapedKeeps

(***************************************************************************)
(* Every action keeps the invariant.                                       *)
(***************************************************************************)
LEMMA FlagIs ==
  ASSUME NEW prot
  PROVE  Flag(prot) \in {"none", "ro", "rw"}
  BY DEF Flag

LEMMA CreateKeeps ==
  ASSUME IInv, NEW t \in Tasks, NEW sz \in ProgSizes, Create(t, sz)
  PROVE  IInv'
<1>1. MemInv /\ AreaPart /\ TlbPart
  BY IInvParts
<1>2. MemInv'
  BY <1>1, Unchanged DEF Create
<1>3. pt[t] = NoEntries
  BY <1>1 DEF Create, AreaPart, NoneHasNothing
<1>4. /\ status' = [status EXCEPT ![t] = "running"] /\ status'[t] # "none"
      /\ size' = [size EXCEPT ![t] = sz] /\ vmas' = [vmas EXCEPT ![t] = ProgAreas(sz)]
      /\ pt' = pt
  BY <1>1 DEF Create, AreaPart
<1>5. AreaPart'
  BY <1>1, <1>3, <1>4, ProgramKeeps
<1>6. TlbPart'
  BY FlushedKeeps DEF Create
<1> QED
  BY <1>2, <1>5, <1>6 DEF IInv, TypeOK, MemInv, AreaPart, AreaInv, TlbPart

LEMMA ExecKeeps ==
  ASSUME IInv, NEW t \in Tasks, NEW sz \in ProgSizes, Exec(t, sz)
  PROVE  IInv'
<1>1. MemInv /\ AreaPart /\ TlbPart
  BY IInvParts
<1>2. MemInv'
  BY <1>1, FreeTablesKeeps DEF Exec
<1>3. /\ pt'[t] = NoEntries /\ \A u \in Tasks \ {t} : pt'[u] = pt[u]
      /\ status' = status /\ status'[t] # "none"
      /\ size' = [size EXCEPT ![t] = sz] /\ vmas' = [vmas EXCEPT ![t] = ProgAreas(sz)]
  BY <1>1 DEF Exec, FreeTables, MemInv
<1>4. AreaPart'
  BY <1>1, <1>3, ProgramKeeps
<1>5. TlbPart'
  BY FlushedKeeps DEF Exec, FreeTables
<1> QED
  BY <1>2, <1>4, <1>5 DEF IInv, TypeOK, MemInv, AreaPart, AreaInv, TlbPart

LEMMA ForkKeepsIInv ==
  ASSUME IInv, NEW t \in Tasks, NEW c \in Tasks, Fork(t, c)
  PROVE  IInv'
<1>1. MemInv /\ AreaPart /\ TlbPart
  BY IInvParts
<1>2. /\ status[t] = "running" /\ status[c] = "none" /\ t # c
      /\ pt[c] = NoEntries
  BY <1>1 DEF Fork, AreaPart, NoneHasNothing
<1>3. PICK both : both = [v \in DOMAIN pt[t] |-> ReadOnly(pt[t][v])]
  OBVIOUS
<1>4. /\ pt' = [pt EXCEPT ![t] = both, ![c] = both]
      /\ mem' = Shared(mem, FramesOf(pt[t])) /\ data' = data
  BY <1>3 DEF Fork
<1>5. MemInv'
  BY <1>1, <1>2, <1>3, <1>4, ForkKeeps
<1>6. /\ DOMAIN pt'[t] = DOMAIN pt[t] /\ DOMAIN pt'[c] = DOMAIN pt[t]
      /\ \A u \in Tasks \ {t, c} : pt'[u] = pt[u]
  BY <1>1, <1>3, <1>4 DEF MemInv
<1>7. /\ status' = [status EXCEPT ![c] = "running"]
      /\ size' = [size EXCEPT ![c] = size[t]]
      /\ vmas' = [vmas EXCEPT ![c] = vmas[t]]
  BY DEF Fork
<1>8. /\ vmas \in [Tasks -> Seq(Areas)] /\ size \in [Tasks -> ProgSizes \cup {0}]
      /\ status \in [Tasks -> {"none", "running", "dead"}]
      /\ \A i \in DOMAIN vmas[t] : vmas[t][i].start % PageSize = 0
      /\ size[t] \in ProgSizes
      /\ \E i \in DOMAIN vmas[t] : vmas[t][i].start = StackBase /\ vmas[t][i].end = Top
  BY <1>1, <1>2 DEF AreaPart, AreaInv, StartsAligned, HasStack
<1>9. /\ status' \in [Tasks -> {"none", "running", "dead"}] /\ status'[c] # "none"
      /\ size' \in [Tasks -> ProgSizes \cup {0}] /\ size'[c] = size[t]
      /\ vmas' \in [Tasks -> Seq(Areas)] /\ vmas'[c] = vmas[t]
      /\ \A u \in Tasks \ {c} :
           /\ status'[u] = status[u] /\ size'[u] = size[u] /\ vmas'[u] = vmas[u]
           /\ DOMAIN pt'[u] = DOMAIN pt[u]
           /\ status[u] = "none" => pt'[u] = pt[u]
  BY <1>2, <1>6, <1>7, <1>8
<1>10. PagesDisjoint(vmas[t]) /\ CoveredBy(pt'[c], vmas[t])
  BY <1>1, <1>6, Covered DEF CoveredBy
<1>11. Reshaped(c)
  BY <1>8, <1>9, <1>10 DEF Reshaped
<1>12. AreaPart'
  BY <1>1, <1>11, ReshapedKeeps
<1>13. TlbPart'
  BY <1>1, <1>2, <1>3, <1>4, ForkKeepsTlb DEF Fork
<1> QED
  BY <1>5, <1>12, <1>13 DEF IInv, TypeOK, MemInv, AreaPart, AreaInv, TlbPart

LEMMA DieKeeps ==
  ASSUME IInv, NEW t \in Tasks, Die(t)
  PROVE  IInv'
<1>1. MemInv /\ AreaPart /\ TlbPart
  BY IInvParts
<1>2. MemInv'
  BY <1>1, Unchanged DEF Die
<1>3. AreaPart'
  BY <1>1, Covered, SameAreas DEF Die
<1>4. TlbPart'
  BY FlushedKeeps DEF Die
<1> QED
  BY <1>2, <1>3, <1>4 DEF IInv, TypeOK, MemInv, AreaPart, AreaInv, TlbPart

LEMMA ReleaseKeeps ==
  ASSUME IInv, NEW t \in Tasks, Release(t)
  PROVE  IInv'
<1>1. MemInv /\ AreaPart /\ TlbPart
  BY IInvParts
<1>2. MemInv'
  BY <1>1, FreeTablesKeeps DEF Release
<1>3. /\ pt'[t] = NoEntries /\ \A u \in Tasks \ {t} : pt'[u] = pt[u]
      /\ status' = [status EXCEPT ![t] = "none"] /\ size' = size
      /\ vmas' = [vmas EXCEPT ![t] = <<>>]
  BY <1>1 DEF Release, FreeTables, MemInv
<1>4. /\ vmas \in [Tasks -> Seq(Areas)] /\ size \in [Tasks -> ProgSizes \cup {0}]
      /\ status \in [Tasks -> {"none", "running", "dead"}]
  BY <1>1 DEF AreaPart, AreaInv
<1>5. << >> \in Seq(Areas) /\ DOMAIN << >> = {}
  OBVIOUS
<1>6. /\ vmas' \in [Tasks -> Seq(Areas)] /\ vmas'[t] = <<>>
      /\ status' \in [Tasks -> {"none", "running", "dead"}] /\ status'[t] = "none"
      /\ \A u \in Tasks \ {t} : status'[u] = status[u] /\ vmas'[u] = vmas[u]
  BY <1>3, <1>4, <1>5
<1>7. PagesDisjoint(vmas'[t]) /\ CoveredBy(pt'[t], vmas'[t])
      /\ \A i \in DOMAIN vmas'[t] : vmas'[t][i].start % PageSize = 0
  BY <1>3, <1>5, <1>6, NoEntriesIs DEF PagesDisjoint, CoveredBy
<1>8. Reshaped(t)
  BY <1>3, <1>4, <1>6, <1>7 DEF Reshaped
<1>9. AreaPart'
  BY <1>1, <1>8, ReshapedKeeps
<1>10. TlbPart'
  BY FlushedKeeps DEF Release, FreeTables
<1> QED
  BY <1>2, <1>9, <1>10 DEF IInv, TypeOK, MemInv, AreaPart, AreaInv, TlbPart

\* mmap adds an area in free room.
LEMMA AddAreaIs ==
  ASSUME AreaPart, NEW t \in Tasks, status[t] = "running", NEW hint \in Hints,
         NEW n \in Nat \ {0}, NEW prot \in Prots,
         NEW len \in {AlignUp(n)}, NEW va \in {FindFree(t, hint, len)}, va # 0,
         AddArea(t, va, len, prot), status' = status, size' = size
  PROVE  /\ Aligned(va) /\ va < Top /\ Aligned(len)
         /\ \A v \in DOMAIN pt[t] : v \notin PagesIn(va, va + len)
         /\ \A u \in Tasks \ {t} : vmas'[u] = vmas[u]
         /\ CoveredBy(pt[t], vmas'[t])
         /\ \E i \in DOMAIN vmas'[t] : vmas'[t][i].start = va /\ vmas'[t][i].end = va + len
         /\ (\A u \in Tasks \ {t} : pt'[u] = pt[u]) /\ CoveredBy(pt'[t], vmas'[t]) => AreaPart'
<1>1. /\ AreaInv /\ PagesDisjoint(vmas[t]) /\ CoveredBy(pt[t], vmas[t])
      /\ size[t] \in ProgSizes
      /\ \E i \in DOMAIN vmas[t] : vmas[t][i].start = StackBase /\ vmas[t][i].end = Top
  BY Covered DEF AreaPart, HasStack
<1>2. /\ Aligned(va) /\ Aligned(len) /\ len > 0 /\ va + len <= StackBase
      /\ IsFree(t, va, va + len)
  BY <1>1, FindFreeIsFree
<1>3. va \in Nat /\ len \in Nat /\ va + len <= Top /\ va < Top
  BY <1>2, Facts DEF Aligned
<1> DEFINE areas == Added(t, va, len, prot)
<1>5. prot \in SUBSET RW
  BY VmAssumption
<1>6. NewAreas(t, areas, va, va + len)
  BY <1>1, <1>2, <1>3, <1>5, NewAreaDisjoint
<1>7. /\ vmas' \in [Tasks -> Seq(Areas)] /\ vmas'[t] = areas
      /\ \A u \in Tasks \ {t} : vmas'[u] = vmas[u]
  <2>1. vmas' = [vmas EXCEPT ![t] = areas]
    BY DEF AddArea, Added
  <2>2. areas \in Seq(Areas)
    BY <1>6 DEF NewAreas
  <2> HIDE DEF areas
  <2> QED
    BY <1>1, <2>1, <2>2 DEF AreaInv
<1> HIDE DEF areas
<1>8. \A v \in DOMAIN pt[t] : v \notin PagesIn(va, va + len)
  BY <1>1, <1>6 DEF CoveredBy, NewAreas
<1>9. CoveredBy(pt[t], areas)
  BY <1>1, <1>6 DEF CoveredBy, NewAreas
<1>10. ASSUME \A u \in Tasks \ {t} : pt'[u] = pt[u], CoveredBy(pt'[t], vmas'[t])
       PROVE  AreaPart'
  <2>1. \E i \in DOMAIN areas : areas[i].start = StackBase /\ areas[i].end = Top
    BY <1>1, <1>6 DEF NewAreas
  <2>2. /\ status \in [Tasks -> {"none", "running", "dead"}] /\ status[t] # "none"
        /\ size \in [Tasks -> ProgSizes \cup {0}]
    BY DEF AreaPart, AreaInv
  <2>3. Reshaped(t)
    BY <1>1, <1>6, <1>7, <1>10, <2>1, <2>2 DEF Reshaped, NewAreas
  <2> QED
    BY <2>3, ReshapedKeeps
<1> QED
  BY <1>2, <1>3, <1>6, <1>7, <1>8, <1>9, <1>10 DEF NewAreas

LEMMA MmapKeeps ==
  ASSUME IInv, NEW t \in Tasks, NEW hint \in Hints, NEW n \in MmapLens, NEW prot \in Prots,
         Mmap(t, hint, n, prot)
  PROVE  IInv'
<1>1. MemInv /\ AreaPart /\ TlbPart /\ n \in Nat \ {0}
  BY IInvParts, VmAssumption
<1>2. PICK len : len = AlignUp(n)
  OBVIOUS
<1>3. PICK va : va = FindFree(t, hint, len)
  OBVIOUS
<1>4. /\ status[t] = "running" /\ va # 0 /\ AddArea(t, va, len, prot)
      /\ status' = status /\ size' = size /\ pt' = pt /\ mem' = mem /\ data' = data
  BY <1>2, <1>3 DEF Mmap
<1>5. MemInv'
  BY <1>1, <1>4, Unchanged
<1>6. /\ CoveredBy(pt[t], vmas'[t])
      /\ (\A u \in Tasks \ {t} : pt'[u] = pt[u]) /\ CoveredBy(pt'[t], vmas'[t]) => AreaPart'
  <2>1. len \in {AlignUp(n)} /\ va \in {FindFree(t, hint, len)}
    BY <1>2, <1>3
  <2> QED
    BY <1>1, <1>4, <2>1, AddAreaIs
<1>7. AreaPart'
  BY <1>4, <1>6
<1>8. TlbPart'
  BY <1>1, <1>4, OnlyOfKeeps DEF Mmap, TlbPart, StaleIsMapped
<1> QED
  BY <1>5, <1>7, <1>8 DEF IInv, TypeOK, MemInv, AreaPart, AreaInv, TlbPart

\* A length of at most a page is rounded up to one.
LEMMA OnePageLength ==
  ASSUME NEW n \in 1..PageSize
  PROVE  AlignUp(n) = PageSize /\ AlignUp(n) \div PageSize = 1
<1>1. n \in Nat /\ 1 <= n /\ n <= PageSize
  BY Facts
<1>2. Aligned(AlignUp(n)) /\ n <= AlignUp(n) /\ AlignUp(n) < n + PageSize
  BY <1>1, AlignUpIs
<1>3. PICK k \in Nat : AlignUp(n) = k * PageSize
  BY <1>2, AlignedIs
<1>4. k * PageSize \in Nat /\ 0 * PageSize = 0 /\ 1 * PageSize = PageSize
      /\ 2 * PageSize = PageSize + PageSize
  BY <1>3, Facts
<1>5. 0 * PageSize < k * PageSize /\ k * PageSize < 2 * PageSize
  BY <1>1, <1>2, <1>3, <1>4, Facts
<1>6. k = 1
  BY <1>5, TimesMonotone
<1>7. AlignUp(n) = PageSize
  BY <1>3, <1>4, <1>6
<1> QED
  BY <1>7, Facts

LEMMA OneFrameBlock == BlockLen(1) = 1
<1> DEFINE O == {o \in 0..1 : 2^o >= 1}
           S == {2^o : o \in O}
<1>1. 2^0 = 1 /\ 2^1 = 2
  OBVIOUS
<1>2. S = {1, 2}
  <2>1. \A o \in 0..1 : o = 0 \/ o = 1
    OBVIOUS
  <2>2. 0 \in O /\ 1 \in O
    BY <1>1
  <2>3. O \subseteq 0..1
    OBVIOUS
  <2> HIDE DEF O
  <2>4. O = {0, 1}
    BY <2>1, <2>2, <2>3
  <2> QED
    BY <1>1, <2>4
<1>3. BlockLen(1) = Min(S)
  BY DEF BlockLen
<1> HIDE DEF S
<1>4. \A x \in {1, 2} : (\A y \in {1, 2} : x <= y) <=> x = 1
  OBVIOUS
<1>5. Min(S) = 1
  BY <1>2, <1>4 DEF Min
<1> QED
  BY <1>3, <1>5

\* A step that gives task t a page, in a frame that was free.
EntryAdded(t) ==
  \E v \in VPages \ DOMAIN pt[t], f \in mem.free, ap \in {"none", "ro", "rw"}, x \in Values :
    /\ pt' = [pt EXCEPT ![t] = WithEntry(pt[t], v, f, ap)]
    /\ data'[f] = x
    /\ \A g \in AllFrames \ {f} : data'[g] = data[g]

\* MAP_POPULATE of one page: the new area is mapped as a first access would map it.
LEMMA MmapPopulateKeeps ==
  ASSUME IInv, NEW t \in Tasks, NEW hint \in Hints, NEW n \in 1..PageSize, NEW prot \in Prots,
         MmapPopulate(t, hint, n, prot)
  PROVE  IInv' /\ EntryAdded(t)
<1>1. MemInv /\ AreaPart /\ TlbPart /\ n \in Nat \ {0}
  BY IInvParts
<1>2. PICK len \in {AlignUp(n)} : TRUE
  OBVIOUS
<1>3. PICK va \in {FindFree(t, hint, len)} : TRUE
  OBVIOUS
<1>4. len = AlignUp(n) /\ va = FindFree(t, hint, len) /\ len = PageSize
      /\ len \div PageSize = 1
  BY <1>2, <1>3, OnePageLength
<1>5. /\ status[t] = "running" /\ va # 0 /\ AddArea(t, va, len, prot)
      /\ status' = status /\ size' = size
  BY <1>4 DEF MmapPopulate
<1>6. /\ Aligned(va) /\ va < Top
      /\ \A v \in DOMAIN pt[t] : v \notin PagesIn(va, va + len)
      /\ CoveredBy(pt[t], vmas'[t])
      /\ \E i \in DOMAIN vmas'[t] : vmas'[t][i].start = va /\ vmas'[t][i].end = va + len
      /\ (\A u \in Tasks \ {t} : pt'[u] = pt[u]) /\ CoveredBy(pt'[t], vmas'[t]) => AreaPart'
  BY <1>1, <1>5, AddAreaIs
<1> DEFINE v == VPageOf(va)
<1>7. PagesIn(va, va + len) = {v} /\ v \in VPages /\ v \notin DOMAIN pt[t]
  <2>1. PagesIn(va, va + PageSize) = {v}
    BY <1>6, OnePage
  <2> QED
    BY <1>4, <1>6, <2>1 DEF PagesIn
<1>8. PICK b \in FreeBlocks(1), x \in Values :
         /\ mem' = Taken(mem, b[1], {b[i] : i \in DOMAIN b})
         /\ data' = [f \in AllFrames |-> IF f \in {b[i] : i \in DOMAIN b} THEN x ELSE data[f]]
         /\ pt' = [pt EXCEPT ![t] =
              [w \in DOMAIN pt[t] \cup PagesIn(va, va + len) |->
                 IF w \in PagesIn(va, va + len)
                 THEN [frame |-> b[w - v + 1], ap |-> Flag(prot)] ELSE pt[t][w]]]
  <2> DEFINE P(l, u) ==
        \E b \in FreeBlocks(l \div PageSize), x \in Values :
           /\ mem' = Taken(mem, b[1], {b[i] : i \in DOMAIN b})
           /\ data' = [f \in AllFrames |-> IF f \in {b[i] : i \in DOMAIN b} THEN x ELSE data[f]]
           /\ pt' = [pt EXCEPT ![t] =
                [w \in DOMAIN pt[t] \cup PagesIn(u, u + l) |->
                   IF w \in PagesIn(u, u + l)
                   THEN [frame |-> b[w - VPageOf(u) + 1], ap |-> Flag(prot)] ELSE pt[t][w]]]
  <2>1. P(AlignUp(n), FindFree(t, hint, AlignUp(n)))
    BY DEF MmapPopulate
  <2>2. P(len, va)
    <3> HIDE DEF P
    <3> QED
      BY <1>4, <2>1
  <2> QED
    BY <1>4, <2>2, Zenon
<1> DEFINE f == b[1]
<1>9. f \in mem.free /\ {b[i] : i \in DOMAIN b} = {f}
  <2>1. b \in [1..1 -> mem.free]
    BY <1>8, OneFrameBlock DEF FreeBlocks
  <2>2. 1..1 = {1}
    OBVIOUS
  <2> QED
    BY <2>1, <2>2
<1>10. v - v + 1 = 1
  BY <1>7, Facts DEF VPages
<1>11. pt' = [pt EXCEPT ![t] = [w \in DOMAIN pt[t] \cup {v} |->
                IF w = v THEN [frame |-> f, ap |-> Flag(prot)] ELSE pt[t][w]]]
  <2> HIDE DEF v
  <2>1. \A w \in DOMAIN pt[t] \cup {v} : w \in {v} => b[w - v + 1] = f
    BY <1>10
  <2>2. [w \in DOMAIN pt[t] \cup {v} |->
           IF w \in {v} THEN [frame |-> b[w - v + 1], ap |-> Flag(prot)] ELSE pt[t][w]]
        = [w \in DOMAIN pt[t] \cup {v} |->
             IF w = v THEN [frame |-> f, ap |-> Flag(prot)] ELSE pt[t][w]]
    BY <2>1
  <2> QED
    BY <1>7, <1>8, <2>2
<1>12. mem' = Taken(mem, f, {f})
  BY <1>8, <1>9
<1>13. data' \in [AllFrames -> Values \cup {Junk}]
  BY <1>1, <1>8 DEF MemInv
<1>14. /\ f \in mem.free /\ f \in AllFrames /\ data'[f] = x
       /\ \A g \in AllFrames \ {f} : data'[g] = data[g]
  BY <1>1, <1>8, <1>9, FreeIsUnmapped
<1>15. PICK ap \in {"none", "ro", "rw"} : ap = Flag(prot)
  BY FlagIs
<1> HIDE DEF v, f
<1>16. pt' = [pt EXCEPT ![t] = WithEntry(pt[t], v, f, ap)]
  BY <1>11, <1>15 DEF WithEntry
<1>17. MemInv'
  BY <1>1, <1>7, <1>9, <1>12, <1>13, <1>16, NewEntryKeeps
<1>18. /\ DOMAIN pt'[t] = DOMAIN pt[t] \cup {v}
       /\ \A u \in Tasks \ {t} : pt'[u] = pt[u]
  BY <1>1, <1>11 DEF MemInv
<1>19. CoveredBy(pt'[t], vmas'[t])
  BY <1>6, <1>7, <1>18 DEF CoveredBy
<1>20. AreaPart'
  BY <1>6, <1>18, <1>19
<1>21. EntryAdded(t)
  BY <1>7, <1>14, <1>16 DEF EntryAdded
<1>22. TlbPart'
  <2>1. \A w \in stale[t] : w \in DOMAIN pt[t] /\ w # v
    BY <1>1, <1>7 DEF TlbPart, StaleIsMapped
  <2>2. \A w \in stale[t] : w \in DOMAIN pt'[t] /\ pt'[t][w] = pt[t][w]
    BY <1>1, <1>16, <2>1 DEF MemInv, WithEntry
  <2> QED
    BY <1>1, <1>18, <2>2, OnlyOfKeeps DEF MmapPopulate
<1> QED
  BY <1>17, <1>20, <1>21, <1>22 DEF IInv, TypeOK, MemInv, AreaPart, AreaInv, TlbPart

LEMMA TranslationFaultKeeps ==
  ASSUME Restricted, IInv, NEW t \in Tasks, NEW a \in 0..(Top - 1), TranslationFault(t, a)
  PROVE  IInv' /\ EntryAdded(t)
<1> DEFINE v == VPageOf(a)
<1>1. MemInv /\ AreaPart /\ TlbPart
  BY IInvParts
<1>2. /\ status[t] = "running" /\ v \notin DOMAIN pt[t] /\ AreasAt(t, a) # {}
      /\ status' = status /\ size' = size /\ vmas' = vmas
  BY DEF TranslationFault, IsMapped
<1>3. PICK f \in AllFrames, x \in Values :
        /\ AllocFrame(mem, f, mem')
        /\ data' = [data EXCEPT ![f] = x]
        /\ pt' = [pt EXCEPT ![t] =
             [w \in DOMAIN pt[t] \cup {v} |->
                IF w = v THEN [frame |-> f, ap |-> Flag(AreaAt(t, a).prot)] ELSE pt[t][w]]]
  BY DEF TranslationFault
<1>4. f \in mem.free /\ mem' = Taken(mem, f, {f})
  BY <1>3 DEF AllocFrame, Restricted
<1>5. data' \in [AllFrames -> Values \cup {Junk}]
  BY <1>1, <1>3 DEF MemInv
<1>6. PICK i \in DOMAIN vmas[t] : vmas[t][i].start <= a /\ a < vmas[t][i].end
  BY <1>2 DEF AreasAt
<1>7. v \in PagesIn(vmas[t][i].start, vmas[t][i].end)
  BY <1>1, <1>6, AreaFacts, PageOfAddress DEF AreaPart
<1>8. v \in VPages
  BY <1>7 DEF PagesIn
<1>9. PICK ap \in {"none", "ro", "rw"} : ap = Flag(AreaAt(t, a).prot)
  BY FlagIs
<1> HIDE DEF v
<1>10. pt' = [pt EXCEPT ![t] = WithEntry(pt[t], v, f, ap)]
  BY <1>3, <1>9 DEF WithEntry
<1>11. MemInv'
  BY <1>1, <1>2, <1>4, <1>5, <1>8, <1>10, NewEntryKeeps
<1>12. /\ DOMAIN pt'[t] = DOMAIN pt[t] \cup {v}
       /\ \A u \in Tasks \ {t} : pt'[u] = pt[u]
  BY <1>1, <1>10 DEF MemInv, WithEntry
<1>13. CoveredBy(pt'[t], vmas[t])
  <2>1. CoveredBy(pt[t], vmas[t])
    BY <1>1, Covered
  <2> QED
    BY <1>7, <1>12, <2>1 DEF CoveredBy
<1>14. AreaPart'
  BY <1>1, <1>2, <1>12, <1>13, SameAreas
<1>15. f \in mem.free /\ data'[f] = x /\ \A g \in AllFrames \ {f} : data'[g] = data[g]
  BY <1>1, <1>3, <1>4 DEF MemInv
<1>16. EntryAdded(t)
  BY <1>2, <1>8, <1>10, <1>15 DEF EntryAdded
<1>17. TlbPart'
  <2>1. \A w \in stale[t] : w \in DOMAIN pt[t] /\ w # v
    BY <1>1, <1>2 DEF TlbPart, StaleIsMapped
  <2>2. \A w \in stale[t] : w \in DOMAIN pt'[t] /\ pt'[t][w] = pt[t][w]
    BY <1>1, <1>10, <2>1 DEF MemInv, WithEntry
  <2> QED
    BY <1>1, <1>12, <2>2, OnlyOfKeeps DEF TranslationFault
<1> QED
  BY <1>11, <1>14, <1>16, <1>17 DEF IInv, TypeOK, MemInv, AreaPart, AreaInv, TlbPart

LEMMA PermissionFaultKeeps ==
  ASSUME Restricted, IInv, NEW t \in Tasks, NEW a \in 0..(Top - 1), PermissionFault(t, a)
  PROVE  IInv'
<1> DEFINE v == VPageOf(a)
<1>1. MemInv /\ AreaPart /\ TlbPart
  BY IInvParts
<1>2. /\ status[t] = "running" /\ v \in DOMAIN pt[t]
      /\ status' = status /\ size' = size /\ vmas' = vmas
  BY DEF PermissionFault, IsMapped
<1>3. pt[t][v].frame \in Frames /\ pt[t][v].frame \notin mem.free
  BY <1>1, <1>2, EntryFacts
<1>4. /\ MemInv'
      /\ \E f \in Frames : pt' = [pt EXCEPT ![t][v] = [frame |-> f, ap |-> "rw"]]
  <2>1. CASE IsShared(pt[t][v].frame)
    <3>1. PICK f \in AllFrames, m \in {Taken(mem, g, {g}) : g \in mem.free} \cup {mem} :
             /\ AllocFrame(mem, f, m)
             /\ mem' = Dropped(m, {pt[t][v].frame})
             /\ data' = Kept([data EXCEPT ![f] = data[pt[t][v].frame]], mem')
             /\ pt' = [pt EXCEPT ![t][v] = [frame |-> f, ap |-> "rw"]]
      BY <2>1 DEF PermissionFault
    <3>2. f \in mem.free /\ m = Taken(mem, f, {f})
      BY <3>1 DEF AllocFrame, Restricted
    <3>3. f \in Frames
      BY <1>1, <3>2, FreeIsUnmapped
    <3>4. mem' = Dropped(Taken(mem, f, {f}), {pt[t][v].frame})
      BY <3>1, <3>2
    <3>5. mem.refs[pt[t][v].frame] > 1
      BY <1>3, <2>1 DEF IsShared
    <3>6. data' \in [AllFrames -> Values \cup {Junk}]
      <4>1. pt[t][v].frame \in AllFrames
        BY <1>3 DEF AllFrames
      <4>2. [data EXCEPT ![f] = data[pt[t][v].frame]] \in [AllFrames -> Values \cup {Junk}]
        BY <1>1, <4>1 DEF MemInv
      <4> QED
        BY <3>1, <4>2, KeptIs
    <3> HIDE DEF v
    <3>7. MemInv'
      BY <1>1, <1>2, <3>1, <3>2, <3>4, <3>5, <3>6, CopyKeeps
    <3> QED
      BY <3>1, <3>3, <3>7
  <2>2. CASE ~IsShared(pt[t][v].frame)
    <3>1. /\ pt' = [pt EXCEPT ![t][v] = [frame |-> pt[t][v].frame, ap |-> "rw"]]
          /\ mem' = mem /\ data' = data
      BY <2>2 DEF PermissionFault
    <3>2. ~(mem.refs[pt[t][v].frame] > 1)
      BY <2>2 DEF IsShared
    <3>3. PICK old \in {pt[t][v].frame} : TRUE
      OBVIOUS
    <3> HIDE DEF v
    <3>4. pt' = [pt EXCEPT ![t][v] = [frame |-> old, ap |-> "rw"]] /\ ~(mem.refs[old] > 1)
      BY <3>1, <3>2, <3>3
    <3>5. MemInv'
      BY <1>1, <1>2, <3>1, <3>4, ClaimKeeps
    <3> QED
      BY <1>3, <3>1, <3>5
  <2> QED
    BY <2>1, <2>2
<1>5. /\ DOMAIN pt'[t] = DOMAIN pt[t]
      /\ \A u \in Tasks \ {t} : pt'[u] = pt[u]
  <2> HIDE DEF v
  <2> QED
    BY <1>1, <1>4 DEF MemInv
<1>6. CoveredBy(pt'[t], vmas[t])
  BY <1>1, <1>5, Covered DEF CoveredBy
<1>7. AreaPart'
  BY <1>1, <1>2, <1>5, <1>6, SameAreas
<1>8. TlbPart'
  BY FlushedKeeps DEF PermissionFault
<1> QED
  BY <1>4, <1>7, <1>8 DEF IInv, TypeOK, MemInv, AreaPart, AreaInv, TlbPart

LEMMA StoreKeeps ==
  ASSUME IInv, NEW t \in Tasks, NEW v \in VPages, NEW x \in Values, Store(t, v, x)
  PROVE  IInv'
<1>1. MemInv /\ AreaPart /\ TlbPart
  BY IInvParts
<1>2. /\ status[t] = "running" /\ status' = status /\ size' = size /\ vmas' = vmas
      /\ pt' = pt /\ mem' = mem
      /\ data' = [data EXCEPT ![pt[t][v].frame] = x]
  BY DEF Store
<1>3. data' \in [AllFrames -> Values \cup {Junk}]
  BY <1>1, <1>2 DEF MemInv
<1>4. MemInv'
  <2>1. \A f : Mappers(f)' = Mappers(f)
    BY <1>2 DEF Mappers, FramesOf
  <2>2. Counted'
    BY <1>1, <1>2, <2>1 DEF MemInv, Counted
  <2>3. EntriesInjective' /\ SingleBlocks' /\ Protected'
    BY <1>1, <1>2 DEF MemInv, EntriesInjective, SingleBlocks, Protected
  <2> QED
    BY <1>1, <1>2, <1>3, <2>2, <2>3 DEF MemInv
<1>5. AreaPart'
  BY <1>1, <1>2, Covered, SameAreas
<1>6. TlbPart'
  BY <1>1, <1>2, OnlyOfKeeps DEF Store, TlbPart, StaleIsMapped
<1> QED
  BY <1>4, <1>5, <1>6 DEF IInv, TypeOK, MemInv, AreaPart, AreaInv, TlbPart

(***************************************************************************)
(* The theorems about states.                                              *)
(***************************************************************************)
LEMMA IInvInit == Init => IInv
<1> SUFFICES ASSUME Init PROVE IInv
  OBVIOUS
<1>1. /\ status = [t \in Tasks |-> "none"] /\ size = [t \in Tasks |-> 0]
      /\ vmas = [t \in Tasks |-> <<>>] /\ pt = [t \in Tasks |-> NoEntries]
      /\ mem = [free |-> Frames, refs |-> [f \in AllFrames |-> 0],
                block |-> [f \in AllFrames |-> {f}]]
      /\ data = [f \in AllFrames |-> Junk]
  BY DEF Init
<1>2. << >> \in Seq(Areas) /\ DOMAIN << >> = {}
  OBVIOUS
<1>3. DOMAIN NoEntries = {} /\ NoEntries \in Tables /\ FramesOf(NoEntries) = {}
  BY NoEntriesIs
<1>4. /\ mem.free = Frames /\ mem.refs = [f \in AllFrames |-> 0]
      /\ mem.block = [f \in AllFrames |-> {f}]
  BY <1>1
<1>5. mem \in [free : SUBSET Frames, refs : [AllFrames -> 0..(RefMod - 1)],
               block : [AllFrames -> SUBSET AllFrames]]
  <2>1. 0 \in 0..(RefMod - 1)
    BY FS_CardinalityType, VmAssumption
  <2>2. [f \in AllFrames |-> 0] \in [AllFrames -> 0..(RefMod - 1)]
    BY <2>1
  <2>3. [f \in AllFrames |-> {f}] \in [AllFrames -> SUBSET AllFrames]
    OBVIOUS
  <2> QED
    BY <1>1, <2>2, <2>3
<1>6. \A f : Mappers(f) = {}
  BY <1>1, <1>3 DEF Mappers
<1>7. Counted
  BY <1>4, <1>6, FS_EmptySet DEF Counted, AllFrames
<1>8. EntriesInjective /\ SingleBlocks /\ Protected
  BY <1>1, <1>3, <1>4 DEF EntriesInjective, SingleBlocks, Protected
<1>9. MemInv
  BY <1>1, <1>3, <1>5, <1>7, <1>8 DEF MemInv
<1>10. AreaPart
  <2>1. AreaInv
    BY <1>1, <1>2 DEF AreaInv, StartsAligned
  <2>2. NoneHasNothing /\ HasStack
    BY <1>1 DEF NoneHasNothing, HasStack
  <2>3. AreasDisjoint
    BY <1>1, <1>2, <1>3 DEF AreasDisjoint
  <2> QED
    BY <1>1, <2>1, <2>2, <2>3 DEF AreaPart
<1>11. TlbPart
  BY DEF Init, Flushed, TlbPart, StaleIsMapped, StaleInPlace
<1> QED
  BY <1>9, <1>10, <1>11, IInvParts

LEMMA IInvInductive ==
  ASSUME Restricted
  PROVE  IInv /\ [Next]_vars => IInv'
<1> SUFFICES ASSUME IInv, [Next]_vars PROVE IInv'
  OBVIOUS
<1>1. CASE UNCHANGED vars
  <2>1. MemInv'
    BY <1>1, IInvParts, Unchanged DEF vars
  <2>2. AreaPart'
    BY <1>1, IInvParts DEF vars, AreaPart, AreaInv, StartsAligned, NoneHasNothing, HasStack,
      AreasDisjoint
  <2>3. TlbPart'
    BY <1>1, IInvParts DEF vars, TlbPart, StaleIsMapped, StaleInPlace
  <2> QED
    BY <2>1, <2>2, <2>3 DEF IInv, TypeOK, MemInv, AreaPart, AreaInv, TlbPart
<1>2. CASE Next
  <2> SUFFICES ASSUME NEW t \in Tasks,
        \/ \E sz \in ProgSizes : Create(t, sz) \/ Exec(t, sz)
        \/ \E c \in Tasks : Fork(t, c)
        \/ Die(t)
        \/ Release(t)
        \/ \E hint \in Hints, prot \in Prots :
             \/ \E n \in MmapLens : Mmap(t, hint, n, prot)
             \/ \E n \in PopulateLens : MmapPopulate(t, hint, n, prot)
        \/ \E a \in 0..(Top - 1) :
             \/ TranslationFault(t, a)
             \/ PermissionFault(t, a)
             \/ \E store \in BOOLEAN : SegmentationFault(t, a, store)
        \/ \E v \in VPages, x \in Values : Store(t, v, x)
      PROVE IInv'
    BY <1>2 DEF Next
  <2>1. ASSUME NEW sz \in ProgSizes, Create(t, sz) PROVE IInv'
    BY <2>1, CreateKeeps
  <2>2. ASSUME NEW sz \in ProgSizes, Exec(t, sz) PROVE IInv'
    BY <2>2, ExecKeeps
  <2>3. ASSUME NEW c \in Tasks, Fork(t, c) PROVE IInv'
    BY <2>3, ForkKeepsIInv
  <2>4. ASSUME Die(t) PROVE IInv'
    BY <2>4, DieKeeps
  <2>5. ASSUME Release(t) PROVE IInv'
    BY <2>5, ReleaseKeeps
  <2>6. ASSUME NEW hint \in Hints, NEW prot \in Prots, NEW n \in MmapLens, Mmap(t, hint, n, prot)
        PROVE  IInv'
    BY <2>6, MmapKeeps
  <2>7. ASSUME NEW hint \in Hints, NEW prot \in Prots, NEW n \in PopulateLens,
               MmapPopulate(t, hint, n, prot)
        PROVE  IInv'
    BY <2>7, MmapPopulateKeeps DEF Restricted
  <2>8. ASSUME NEW a \in 0..(Top - 1), TranslationFault(t, a) PROVE IInv'
    BY <2>8, TranslationFaultKeeps
  <2>9. ASSUME NEW a \in 0..(Top - 1), PermissionFault(t, a) PROVE IInv'
    BY <2>9, PermissionFaultKeeps
  <2>10. ASSUME NEW a \in 0..(Top - 1), NEW store \in BOOLEAN, SegmentationFault(t, a, store)
         PROVE  IInv'
    BY <2>10, DieKeeps DEF SegmentationFault
  <2>11. ASSUME NEW v \in VPages, NEW x \in Values, Store(t, v, x) PROVE IInv'
    BY <2>11, StoreKeeps
  <2> QED
    BY <2>1, <2>2, <2>3, <2>4, <2>5, <2>6, <2>7, <2>8, <2>9, <2>10, <2>11
<1> QED
  BY <1>1, <1>2

LEMMA IInvAlways ==
  ASSUME Restricted
  PROVE  Spec => []IInv
<1>1. IInv /\ [Next]_vars => IInv'
  BY IInvInductive
<1> QED
  BY <1>1, IInvInit, PTL DEF Spec

\* A task maps a frame once: counting entries is counting tasks.
LEMMA MappingsCount ==
  ASSUME IInv, NEW f
  PROVE  /\ Cardinality(Mappings(f)) = Cardinality(Mappers(f))
         /\ Mappings(f) = {} <=> Mappers(f) = {}
<1> DEFINE owner == [m \in Mappings(f) |-> m[1]]
<1>1. MemInv
  BY IInvParts
<1>2. \A t \in Mappers(f) : \E m \in Mappings(f) : m[1] = t
  <2> TAKE t \in Mappers(f)
  <2>1. t \in Tasks /\ \E v \in DOMAIN pt[t] : pt[t][v].frame = f
    BY DEF Mappers, FramesOf
  <2>2. PICK v \in DOMAIN pt[t] : pt[t][v].frame = f
    BY <2>1
  <2>3. v \in VPages
    BY <1>1, <2>1, EntryFacts
  <2>4. <<t, v>> \in Mappings(f)
    BY <2>1, <2>2, <2>3 DEF Mappings, IsMapped
  <2> QED
    BY <2>4
<1>3. \A m \in Mappings(f) : m[1] \in Mappers(f)
  BY DEF Mappings, IsMapped, Mappers, FramesOf
<1>4. \A m, n \in Mappings(f) : m[1] = n[1] => m = n
  BY <1>1 DEF Mappings, IsMapped, MemInv, EntriesInjective
<1>5. owner \in [Mappings(f) -> Mappers(f)]
  BY <1>3
<1>6. owner \in Injection(Mappings(f), Mappers(f))
  BY <1>4, <1>5 DEF Injection, IsInjective
<1>7. owner \in Surjection(Mappings(f), Mappers(f))
  BY <1>2, <1>5 DEF Surjection
<1> HIDE DEF owner
<1>8. Cardinality(Mappings(f)) = Cardinality(Mappers(f))
  BY <1>6, <1>7, MapperFacts, FS_Injection
<1> QED
  BY <1>2, <1>3, <1>8

LEMMA CountsAreRight == IInv => RefsCountMappings
<1> SUFFICES ASSUME IInv, NEW f \in Frames
             PROVE  /\ mem.refs[f] = Cardinality(Mappings(f))
                    /\ (f \in mem.free) = (Mappings(f) = {})
  BY DEF RefsCountMappings
<1>1. mem.refs[f] = Cardinality(Mappers(f)) /\ (f \in mem.free <=> Mappers(f) = {})
  BY DEF IInv, Counted
<1> QED
  BY <1>1, MappingsCount

LEMMA SharingIsReadOnly == IInv => SharedIsReadOnly
<1> SUFFICES ASSUME IInv, NEW f \in AllFrames, Cardinality(Mappings(f)) > 1,
                    NEW m \in Mappings(f), pt[m[1]][m[2]].ap = "rw"
             PROVE  FALSE
  BY DEF SharedIsReadOnly
<1>1. ASSUME NEW n \in Mappings(f) PROVE n = m
  <2>1. CASE n[1] = m[1]
    BY <2>1 DEF Mappings, IsMapped, IInv, EntriesInjective
  <2>2. CASE n[1] # m[1]
    BY <2>2 DEF Mappings, IsMapped, IInv, Protected
  <2> QED
    BY <2>1, <2>2
<1>2. Mappings(f) = {m}
  BY <1>1
<1>3. Cardinality(Mappings(f)) = 1
  BY <1>2, FS_Singleton
<1> QED
  BY <1>3

\* Every variable keeps its type.
THEOREM VmTypeCorrect ==
  ASSUME Restricted
  PROVE  Spec => []TypeOK
<1>1. IInv => TypeOK
  BY DEF IInv
<1> QED
  BY <1>1, IInvAlways, PTL

\* A frame's reference count is the number of entries that point to it, and a frame without
\* an entry is free: page_refcount_update is called as often as it must be.
THEOREM VmRefsCountMappings ==
  ASSUME Restricted
  PROVE  Spec => []RefsCountMappings
  BY CountsAreRight, IInvAlways, PTL

\* A frame two entries share is writable through neither (vm_copy, vm_fault_handle).
THEOREM VmSharedIsReadOnly ==
  ASSUME Restricted
  PROVE  Spec => []SharedIsReadOnly
  BY SharingIsReadOnly, IInvAlways, PTL

\* Areas never share a page and every mapped page is in one (vma_find_free, proc_setup_vma).
THEOREM VmAreasDisjoint ==
  ASSUME Restricted
  PROVE  Spec => []AreasDisjoint
<1>1. IInv => AreasDisjoint
  BY DEF IInv
<1> QED
  BY <1>1, IInvAlways, PTL

(***************************************************************************)
(* The refinement of AddressSpaces.                                        *)
(***************************************************************************)
\* what each task sees, and where its stores reach beyond
Space == [t \in Tasks |-> Memory(t)]

LatePages == [t \in Tasks |-> Late(t)]

\* After a flush, stores reach the storing task alone.
LEMMA FlushedIsSettled ==
  ASSUME stale' = Flushed
  PROVE  LatePages' = [u \in Tasks |-> {}]
  BY DEF LatePages, Late, Flushed

\* A step of t leaves its stores the reach they had.
LEMMA OnlyOfIsLate ==
  ASSUME NEW t \in Tasks, stale'[t] = stale[t], \A u \in Tasks \ {t} : stale'[u] = {},
         \A u \in Tasks \ {t} : pt'[u] = pt[u],
         \A v \in stale[t] : pt'[t][v] = pt[t][v]
  PROVE  LatePages' = [u \in Tasks |-> IF u = t THEN LatePages[t] ELSE {}]
<1>1. Late(t)' = Late(t)
  BY DEF Late, IsMapped
<1>2. \A u \in Tasks \ {t} : Late(u)' = {}
  BY DEF Late
<1> QED
  BY <1>1, <1>2 DEF LatePages

\* The same, in the words of AddressSpaces.
LEMMA OnlyOfIs ==
  ASSUME NEW t \in Tasks, LatePages' = [u \in Tasks |-> IF u = t THEN LatePages[t] ELSE {}]
  PROVE  /\ LatePages' = [[u \in Tasks |-> {}] EXCEPT ![t] = LatePages[t]]
         /\ LatePages' = [u \in Tasks |-> IF u \in Tasks \ {t} THEN {} ELSE LatePages[u]]
  OBVIOUS

\* A step of which no task sees anything, after which the tasks other than t have no reach.
LEMMA RunsOn ==
  ASSUME UNCHANGED Space, NEW t \in Tasks,
         LatePages' = [u \in Tasks |-> IF u = t THEN LatePages[t] ELSE {}]
  PROVE  Isolation!Next
<1>1. LatePages' = [u \in Tasks |-> IF u \in Tasks \ {t} THEN {} ELSE LatePages[u]]
  BY OnlyOfIs
<1>2. Isolation!Settle(Tasks \ {t})
  BY <1>1 DEF Isolation!Settle, Space, LatePages
<1> QED
  BY <1>2 DEF Isolation!Next

\* A step of which no task sees anything, with a flush.
LEMMA Settles ==
  ASSUME UNCHANGED Space, stale' = Flushed
  PROVE  Isolation!Next
<1>1. LatePages' = [u \in Tasks |-> IF u \in Tasks THEN {} ELSE LatePages[u]]
  BY FlushedIsSettled
<1>2. Isolation!Settle(Tasks)
  BY <1>1 DEF Isolation!Settle, Space, LatePages
<1> QED
  BY <1>2 DEF Isolation!Next

\* A step that leaves a task's entries and their frames alone is not seen by it.
LEMMA SameView ==
  ASSUME NEW u \in Tasks, DOMAIN pt'[u] = DOMAIN pt[u],
         \A v \in DOMAIN pt[u] : data'[pt'[u][v].frame] = data[pt[u][v].frame]
  PROVE  Space'[u] = Space[u]
  BY DEF Space, Memory

LEMMA SpaceIs ==
  /\ DOMAIN Space = Tasks /\ Space = [t \in Tasks |-> Space[t]]
  /\ DOMAIN Space' = Tasks /\ Space' = [t \in Tasks |-> Space'[t]]
  /\ \A t \in Tasks : /\ DOMAIN Space[t] = DOMAIN pt[t]
                      /\ \A v \in DOMAIN pt[t] : Space[t][v] = data[pt[t][v].frame]
                      /\ DOMAIN Space'[t] = DOMAIN pt'[t]
                      /\ \A v \in DOMAIN pt'[t] : Space'[t][v] = data'[pt'[t][v].frame]
  BY DEF Space, Memory

LEMMA SpaceUnchanged ==
  ASSUME \A u \in Tasks : Space'[u] = Space[u]
  PROVE  UNCHANGED Space
  BY SpaceIs

\* Where only task t sees a change, the memory as a whole changes at t.
LEMMA SpaceChange ==
  ASSUME NEW t \in Tasks, \A u \in Tasks \ {t} : Space'[u] = Space[u], NEW view,
         Space'[t] = view
  PROVE  Space' = [Space EXCEPT ![t] = view]
<1>1. \A u \in Tasks : Space'[u] = [Space EXCEPT ![t] = view][u]
  BY SpaceIs
<1> QED
  BY <1>1, SpaceIs

\* exec and release throw a task's memory away and touch nobody else's.
LEMMA FreeTablesDiscards ==
  ASSUME MemInv, NEW t \in Tasks, FreeTables(t)
  PROVE  Isolation!Discard(t)
<1>1. MemInv'
  BY FreeTablesKeeps
<1>2. /\ pt'[t] = NoEntries /\ \A u \in Tasks \ {t} : pt'[u] = pt[u]
      /\ data' = Kept(data, mem')
  BY DEF FreeTables, MemInv
<1>3. ASSUME NEW u \in Tasks \ {t}, NEW v \in DOMAIN pt[u]
      PROVE  data'[pt'[u][v].frame] = data[pt[u][v].frame]
  <2>1. PICK f \in Frames : f = pt[u][v].frame
    BY EntryFacts
  <2>2. u \in Mappers(f)'
    <3>1. pt'[u] = pt[u] /\ f \in FramesOf(pt[u])
      BY <1>2, <2>1 DEF FramesOf
    <3> QED
      BY <3>1 DEF Mappers, FramesOf
  <2>3. f \notin mem'.free
    BY <1>1, <2>2 DEF MemInv, Counted
  <2> QED
    BY <1>2, <2>1, <2>3 DEF Kept, AllFrames
<1>4. \A u \in Tasks \ {t} : Space'[u] = Space[u]
  BY <1>2, <1>3, SameView
<1>5. Space'[t] = Isolation!Empty
  <2>1. DOMAIN Space'[t] = {} /\ Space'[t] = [v \in DOMAIN Space'[t] |-> Space'[t][v]]
    BY <1>2, NoEntriesIs DEF Space, Memory
  <2> QED
    BY <2>1 DEF Isolation!Empty
<1>6. Space' = [Space EXCEPT ![t] = Isolation!Empty]
  BY <1>4, <1>5, SpaceChange
<1>7. LatePages' = [u \in Tasks |-> {}]
  BY FlushedIsSettled DEF FreeTables
<1> QED
  BY <1>6, <1>7 DEF Isolation!Discard, Isolation!Settled, Space, LatePages

\* A new entry makes a page appear.
LEMMA AppearIs ==
  ASSUME NEW t \in Tasks, NEW P \in SUBSET (VPages \ DOMAIN Space[t]), NEW f \in [P -> Values],
         Space' = [Space EXCEPT ![t] = [p \in DOMAIN Space[t] \cup P |->
                                          IF p \in P THEN f[p] ELSE Space[t][p]]],
         LatePages' = [u \in Tasks |-> IF u = t THEN LatePages[t] ELSE {}]
  PROVE  Isolation!Appear(t)
<1>1. Isolation!Mapped(t) = DOMAIN Space[t]
  BY DEF Isolation!Mapped, Space
<1>2. Space' = [Space EXCEPT ![t] = [p \in Isolation!Mapped(t) \cup P |->
                                       IF p \in P THEN f[p] ELSE @[p]]]
  BY <1>1, Zenon
<1>3. P \in SUBSET (VPages \ Isolation!Mapped(t))
  BY <1>1, Zenon
<1>4. \E Q \in SUBSET (VPages \ Isolation!Mapped(t)) : \E g \in [Q -> Values] :
        Space' = [Space EXCEPT ![t] = [p \in Isolation!Mapped(t) \cup Q |->
                                         IF p \in Q THEN g[p] ELSE @[p]]]
  BY <1>2, <1>3, Zenon
<1>5. LatePages' = [[u \in Tasks |-> {}] EXCEPT ![t] = LatePages[t]]
  BY OnlyOfIs
<1> QED
  BY <1>4, <1>5, Zenon DEF Isolation!Appear, Isolation!OnlyOf, Isolation!Settled, Space, LatePages

LEMMA NewEntryAppears ==
  ASSUME MemInv, NEW t \in Tasks, NEW v \in VPages, v \notin DOMAIN pt[t],
         NEW f \in mem.free, NEW ap, pt' = [pt EXCEPT ![t] = WithEntry(pt[t], v, f, ap)],
         NEW x \in Values, data'[f] = x, \A g \in AllFrames \ {f} : data'[g] = data[g],
         TlbPart, stale' = OnlyOf(t)
  PROVE  Isolation!Appear(t)
<1>1. /\ DOMAIN pt'[t] = DOMAIN pt[t] \cup {v} /\ pt'[t][v].frame = f
      /\ \A w \in DOMAIN pt[t] : pt'[t][w] = pt[t][w]
      /\ \A u \in Tasks \ {t} : pt'[u] = pt[u]
  BY DEF MemInv, WithEntry
<1>2. ASSUME NEW u \in Tasks, NEW w \in DOMAIN pt[u]
      PROVE  data'[pt[u][w].frame] = data[pt[u][w].frame]
  <2>1. pt[u][w].frame # f /\ pt[u][w].frame \in AllFrames
    BY EntryFacts DEF AllFrames
  <2> QED
    BY <2>1
<1>3. \A u \in Tasks \ {t} : Space'[u] = Space[u]
  BY <1>1, <1>2, SameView
<1> DEFINE one == [p \in {v} |-> x]
           view == [p \in DOMAIN Space[t] \cup {v} |->
                      IF p \in {v} THEN one[p] ELSE Space[t][p]]
<1>4. Space'[t] = view
  <2>1. DOMAIN Space'[t] = DOMAIN view
    BY <1>1, SpaceIs
  <2>2. ASSUME NEW p \in DOMAIN Space'[t]
        PROVE  Space'[t][p] = view[p]
    <3>1. p \in DOMAIN view
      BY <2>1
    <3>2. CASE p = v
      BY <1>1, <3>1, <3>2, SpaceIs
    <3>3. CASE p # v
      BY <1>1, <1>2, <3>1, <3>3, SpaceIs
    <3> QED
      BY <3>2, <3>3
  <2>3. Space'[t] = [p \in DOMAIN Space'[t] |-> Space'[t][p]]
    BY DEF Space, Memory
  <2> QED
    BY <2>1, <2>2, <2>3
<1>5. Space' = [Space EXCEPT ![t] = view]
  <2> HIDE DEF view
  <2> QED
    BY <1>3, <1>4, SpaceChange
<1>6. {v} \in SUBSET (VPages \ DOMAIN Space[t]) /\ one \in [{v} -> Values]
  BY SpaceIs
<1>7. LatePages' = [u \in Tasks |-> IF u = t THEN LatePages[t] ELSE {}]
  <2>1. \A w \in stale[t] : w \in DOMAIN pt'[t] /\ pt'[t][w] = pt[t][w]
    BY <1>1 DEF TlbPart, StaleIsMapped
  <2>2. stale'[t] = stale[t] /\ \A u \in Tasks \ {t} : stale'[u] = {}
    BY <1>1, <2>1, OnlyOfKeeps
  <2> QED
    BY <1>1, <2>1, <2>2, OnlyOfIsLate
<1> HIDE DEF one
<1> QED
  BY <1>5, <1>6, <1>7, AppearIs, Zenon

LEMMA ForkCopies ==
  ASSUME IInv, NEW t \in Tasks, NEW c \in Tasks, Fork(t, c)
  PROVE  c # t /\ Isolation!Fork(t, c)
<1>1. MemInv /\ AreaPart /\ TlbPart
  BY IInvParts
<1>2. /\ c # t /\ pt[c] = NoEntries /\ data' = data
  BY <1>1 DEF Fork, AreaPart, NoneHasNothing
<1>3. PICK both : both = [v \in DOMAIN pt[t] |-> ReadOnly(pt[t][v])]
  OBVIOUS
<1>4. pt' = [pt EXCEPT ![t] = both, ![c] = both]
  BY <1>3 DEF Fork
<1>5. /\ DOMAIN both = DOMAIN pt[t]
      /\ \A v \in DOMAIN pt[t] : both[v].frame = pt[t][v].frame
  BY <1>3 DEF ReadOnly
<1>6. /\ pt'[t] = both /\ pt'[c] = both /\ \A u \in Tasks \ {t, c} : pt'[u] = pt[u]
  BY <1>1, <1>4 DEF MemInv
<1>7. \A u \in Tasks \ {c} : Space'[u] = Space[u]
  <2> TAKE u \in Tasks \ {c}
  <2>1. /\ DOMAIN pt'[u] = DOMAIN pt[u]
        /\ \A v \in DOMAIN pt[u] : data'[pt'[u][v].frame] = data[pt[u][v].frame]
    BY <1>2, <1>5, <1>6
  <2> QED
    BY <2>1, SameView
<1>8. Space'[c] = Space[t]
  BY <1>2, <1>5, <1>6 DEF Space, Memory
<1>9. Space' = [Space EXCEPT ![c] = Space[t]]
  BY <1>7, <1>8, SpaceChange
<1>10. DOMAIN Space[c] = {} /\ DOMAIN Space[t] = DOMAIN pt[t]
  BY <1>2, NoEntriesIs, SpaceIs
<1> DEFINE P == stale[t] \cup WritablePages(t)
<1>11. /\ stale'[t] = P /\ \A u \in Tasks \ {t} : stale'[u] = {}
       /\ P \subseteq DOMAIN pt[t]
  <2>1. stale' = [OnlyOf(t) EXCEPT ![t] = @ \cup WritablePages(t)]
    BY DEF Fork
  <2> QED
    BY <1>1, <1>2, <1>3, <1>4, <2>1, ForkKeepsTlb DEF TlbPart, StaleIsMapped, WritablePages
<1>12. LatePages'[t] = LatePages[t] \cup ({c} \X P)
  <2>1. ASSUME NEW m \in (Tasks \ {t}) \X P
        PROVE  m \in Late(t)' <=> m \in Late(t) \cup ({c} \X P)
    <3>1. m = <<m[1], m[2]>> /\ m[1] \in Tasks \ {t} /\ m[2] \in P /\ m[2] \in DOMAIN pt[t]
      BY <1>11
    <3>2. m \in Late(t)' <=> m[2] \in DOMAIN pt'[m[1]] /\ pt'[m[1]][m[2]].frame = pt'[t][m[2]].frame
      BY <1>11, <3>1 DEF Late, IsMapped
    <3>3. m \in Late(t) <=> /\ m[2] \in stale[t] /\ m[2] \in DOMAIN pt[m[1]]
                           /\ pt[m[1]][m[2]].frame = pt[t][m[2]].frame
      BY <3>1 DEF Late, IsMapped
    <3>4. CASE m[1] = c
      BY <1>5, <1>6, <3>1, <3>2, <3>4
    <3>5. CASE m[1] # c
      <4>1. m \in Late(t)' <=> m[2] \in DOMAIN pt[m[1]] /\ pt[m[1]][m[2]].frame = pt[t][m[2]].frame
        BY <1>5, <1>6, <3>1, <3>2, <3>5
      <4>2. m[2] \in DOMAIN pt[m[1]] /\ pt[m[1]][m[2]].frame = pt[t][m[2]].frame => m[2] \in stale[t]
        <5>1. m[2] \in DOMAIN pt[m[1]] /\ pt[m[1]][m[2]].frame = pt[t][m[2]].frame
                => pt[t][m[2]].ap # "rw"
          BY <1>1, <3>1, Zenon DEF MemInv, Protected
        <5> QED
          BY <3>1, <5>1 DEF WritablePages
      <4>3. m \notin {c} \X P
        BY <3>1, <3>5
      <4> QED
        BY <3>3, <4>1, <4>2, <4>3
    <3> QED
      BY <3>4, <3>5
  <2>2. Late(t)' \subseteq (Tasks \ {t}) \X P /\ Late(t) \subseteq (Tasks \ {t}) \X P
    BY <1>11 DEF Late
  <2>3. {c} \X P \subseteq (Tasks \ {t}) \X P
    BY <1>2
  <2> HIDE DEF P
  <2>4. Late(t)' = Late(t) \cup ({c} \X P)
    BY <2>1, <2>2, <2>3
  <2> QED
    BY <2>4 DEF LatePages
<1>13. LatePages' = [[[u \in Tasks |-> {}] EXCEPT ![t] = LatePages[t]]
                        EXCEPT ![t] = @ \cup ({c} \X P)]
  <2>1. \A u \in Tasks \ {t} : LatePages'[u] = {}
    BY <1>11 DEF LatePages, Late
  <2>2. LatePages' = [u \in Tasks |-> LatePages'[u]]
    BY DEF LatePages
  <2> HIDE DEF P
  <2> QED
    BY <1>12, <2>1, <2>2
<1>14. P \in SUBSET DOMAIN Space[t]
  BY <1>10, <1>11
<1> HIDE DEF P
<1>15. \E Q \in SUBSET DOMAIN Space[t] :
         LatePages' = [[[u \in Tasks |-> {}] EXCEPT ![t] = LatePages[t]]
                         EXCEPT ![t] = @ \cup ({c} \X Q)]
  BY <1>13, <1>14
<1> QED
  BY <1>2, <1>9, <1>10, <1>15, Zenon
  DEF Isolation!Fork, Isolation!Mapped, Isolation!OnlyOf, Isolation!Settled, Space, LatePages

\* A store is seen by nobody else, for what is writable is not shared, except where the
\* TLB still lets it through.
LEMMA StoreIsOwn ==
  ASSUME IInv, NEW t \in Tasks, NEW v \in VPages, NEW x \in Values, Store(t, v, x)
  PROVE  Isolation!Store(t, v, x)
<1>1. MemInv /\ TlbPart
  BY IInvParts
<1>2. /\ v \in DOMAIN pt[t] /\ (pt[t][v].ap = "rw" \/ v \in stale[t]) /\ pt' = pt
      /\ data' = [data EXCEPT ![pt[t][v].frame] = x] /\ stale' = OnlyOf(t)
  BY DEF Store, IsMapped
<1>3. pt[t][v].frame \in AllFrames
  BY <1>1, <1>2, EntryFacts DEF AllFrames
<1>4. /\ data'[pt[t][v].frame] = x
      /\ \A g \in AllFrames : g # pt[t][v].frame => data'[g] = data[g]
  BY <1>1, <1>2, <1>3 DEF MemInv
<1>5. ASSUME NEW u \in Tasks, NEW w \in DOMAIN pt[u]
      PROVE  pt[u][w].frame = pt[t][v].frame <=> w = v /\ (u = t \/ <<u, v>> \in Late(t))
  <2>1. CASE u = t
    BY <1>1, <1>2, <2>1 DEF MemInv, EntriesInjective
  <2>2. CASE u # t
    <3>1. <<u, v>> \in Late(t) <=> /\ v \in stale[t] /\ v \in DOMAIN pt[u]
                                  /\ pt[u][v].frame = pt[t][v].frame
      BY <2>2 DEF Late, IsMapped
    <3>2. ASSUME pt[u][w].frame = pt[t][v].frame PROVE v \in stale[t] /\ w = v
      <4>1. pt[t][v].ap # "rw"
        BY <1>1, <1>2, <2>2, <3>2, Zenon DEF MemInv, Protected
      <4> QED
        BY <1>1, <1>2, <2>2, <3>2, <4>1 DEF TlbPart, StaleInPlace
    <3> QED
      BY <2>2, <3>1, <3>2
  <2> QED
    BY <2>1, <2>2
<1>6. ASSUME NEW u \in Tasks, NEW w \in DOMAIN pt[u]
      PROVE  Space'[u][w] = IF w = v /\ (u = t \/ <<u, v>> \in LatePages[t]) THEN x
                            ELSE Space[u][w]
  <2>1. pt[u][w].frame \in AllFrames
    BY <1>1, EntryFacts DEF AllFrames
  <2>2. Space'[u][w] = data'[pt[u][w].frame] /\ Space[u][w] = data[pt[u][w].frame]
    BY <1>2, SpaceIs
  <2> QED
    BY <1>4, <1>5, <2>1, <2>2 DEF LatePages
<1>7. Space' = [s \in Tasks |-> [q \in DOMAIN Space[s] |->
                  IF q = v /\ (s = t \/ <<s, v>> \in LatePages[t]) THEN x ELSE Space[s][q]]]
  <2>1. ASSUME NEW s \in Tasks
        PROVE  Space'[s] = [q \in DOMAIN Space[s] |->
                  IF q = v /\ (s = t \/ <<s, v>> \in LatePages[t]) THEN x ELSE Space[s][q]]
    <3>1. /\ DOMAIN Space'[s] = DOMAIN Space[s] /\ DOMAIN Space[s] = DOMAIN pt[s]
          /\ Space'[s] = [q \in DOMAIN Space'[s] |-> Space'[s][q]]
      BY <1>2 DEF Space, Memory
    <3> QED
      BY <1>6, <3>1
  <2> QED
    BY <2>1, SpaceIs
<1>8. LatePages' = [[u \in Tasks |-> {}] EXCEPT ![t] = LatePages[t]]
  <2>1. \A w \in stale[t] : w \in DOMAIN pt'[t] /\ pt'[t][w] = pt[t][w]
    BY <1>1, <1>2 DEF TlbPart, StaleIsMapped
  <2>2. stale'[t] = stale[t] /\ \A u \in Tasks \ {t} : stale'[u] = {}
    BY <1>1, <1>2, <2>1, OnlyOfKeeps
  <2> QED
    BY <1>2, <2>2, OnlyOfIsLate, OnlyOfIs
<1>9. v \in DOMAIN Space[t]
  BY <1>2, SpaceIs
<1> QED
  BY <1>7, <1>8, <1>9, Zenon
  DEF Isolation!Store, Isolation!Mapped, Isolation!OnlyOf, Isolation!Settled, Space, LatePages

\* A permission fault is seen by nobody: the copy has the contents of the original.
LEMMA PermissionFaultUnseen ==
  ASSUME Restricted, IInv, NEW t \in Tasks, NEW a \in 0..(Top - 1), PermissionFault(t, a)
  PROVE  UNCHANGED Space
<1> DEFINE v == VPageOf(a)
<1>1. MemInv
  BY IInvParts
<1>2. v \in DOMAIN pt[t]
  BY DEF PermissionFault, IsMapped
<1>3. PICK old \in Frames : old = pt[t][v].frame /\ old \notin mem.free
  BY <1>1, <1>2, EntryFacts
<1>4. PICK f \in Frames :
        /\ pt' = [pt EXCEPT ![t][v] = [frame |-> f, ap |-> "rw"]]
        /\ data'[f] = data[old]
        /\ \A g \in Frames : g \notin mem.free => data'[g] = data[g]
  <2>1. CASE IsShared(pt[t][v].frame)
    <3>1. PICK f \in AllFrames, m \in {Taken(mem, g, {g}) : g \in mem.free} \cup {mem} :
             /\ AllocFrame(mem, f, m)
             /\ mem' = Dropped(m, {pt[t][v].frame})
             /\ data' = Kept([data EXCEPT ![f] = data[pt[t][v].frame]], mem')
             /\ pt' = [pt EXCEPT ![t][v] = [frame |-> f, ap |-> "rw"]]
      BY <2>1 DEF PermissionFault
    <3>2. f \in mem.free /\ m = Taken(mem, f, {f})
      BY <3>1 DEF AllocFrame, Restricted
    <3>3. f \in Frames /\ \A g \in Frames : g \in AllFrames
      BY <1>1, <3>2, FreeIsUnmapped DEF AllFrames
    <3>4. mem' = Dropped(Taken(mem, f, {f}), {pt[t][v].frame})
      BY <3>1, <3>2
    <3>5. mem.refs[pt[t][v].frame] > 1
      BY <1>3, <2>1 DEF IsShared
    <3>6. data' \in [AllFrames -> Values \cup {Junk}]
      <4>1. [data EXCEPT ![f] = data[pt[t][v].frame]] \in [AllFrames -> Values \cup {Junk}]
        BY <1>1, <1>3, <3>3 DEF MemInv
      <4> QED
        BY <3>1, <4>1, KeptIs
    <3> HIDE DEF v
    <3>7. mem'.free = mem.free \ {f}
      BY <1>1, <1>2, <3>1, <3>2, <3>4, <3>5, <3>6, CopyKeeps
    <3>8. /\ data'[f] = data[old]
          /\ \A g \in Frames : g \notin mem.free => data'[g] = data[g]
      BY <1>1, <1>3, <3>1, <3>2, <3>3, <3>7 DEF Kept, MemInv
    <3> QED
      BY <3>1, <3>3, <3>8
  <2>2. CASE ~IsShared(pt[t][v].frame)
    BY <1>3, <2>2 DEF PermissionFault
  <2> QED
    BY <2>1, <2>2
<1> HIDE DEF v
<1>5. /\ DOMAIN pt'[t] = DOMAIN pt[t] /\ pt'[t][v].frame = f
      /\ \A w \in DOMAIN pt[t] : w # v => pt'[t][w] = pt[t][w]
      /\ \A u \in Tasks \ {t} : pt'[u] = pt[u]
  BY <1>1, <1>2, <1>4 DEF MemInv
<1>6. ASSUME NEW u \in Tasks
      PROVE  Space'[u] = Space[u]
  <2>1. DOMAIN pt'[u] = DOMAIN pt[u]
    BY <1>5
  <2>2. ASSUME NEW w \in DOMAIN pt[u]
        PROVE  data'[pt'[u][w].frame] = data[pt[u][w].frame]
    <3>1. pt[u][w].frame \in Frames /\ pt[u][w].frame \notin mem.free
      BY <1>1, EntryFacts
    <3>2. CASE u = t /\ w = v
      BY <1>3, <1>4, <1>5, <3>2
    <3>3. CASE ~(u = t /\ w = v)
      BY <1>4, <1>5, <3>1, <3>3
    <3> QED
      BY <3>2, <3>3
  <2> QED
    BY <2>1, <2>2, SameView
<1> QED
  BY <1>6, SpaceUnchanged

LEMMA EntryAddedAppears ==
  ASSUME IInv, NEW t \in Tasks, EntryAdded(t), stale' = OnlyOf(t)
  PROVE  Isolation!Appear(t)
<1>1. PICK v \in VPages \ DOMAIN pt[t], f \in mem.free, ap \in {"none", "ro", "rw"}, x \in Values :
         /\ pt' = [pt EXCEPT ![t] = WithEntry(pt[t], v, f, ap)]
         /\ data'[f] = x
         /\ \A g \in AllFrames \ {f} : data'[g] = data[g]
  BY DEF EntryAdded
<1>2. v \in VPages /\ v \notin DOMAIN pt[t]
  OBVIOUS
<1> QED
  BY <1>1, <1>2, NewEntryAppears, IInvParts

LEMMA InitIsolated == Init => Isolation!Init
<1> SUFFICES ASSUME Init PROVE Isolation!Init
  OBVIOUS
<1>1. pt = [t \in Tasks |-> NoEntries]
  BY DEF Init
<1>2. \A t \in Tasks : Space[t] = Isolation!Empty
  <2> TAKE t \in Tasks
  <2>1. DOMAIN Space[t] = {} /\ Space[t] = [v \in DOMAIN Space[t] |-> Space[t][v]]
    BY <1>1, NoEntriesIs DEF Space, Memory
  <2> QED
    BY <2>1 DEF Isolation!Empty
<1>3. Space = [t \in Tasks |-> Isolation!Empty]
  BY <1>2, SpaceIs
<1>4. LatePages = [t \in Tasks |-> {}]
  BY DEF Init, Flushed, LatePages, Late
<1> QED
  BY <1>3, <1>4 DEF Isolation!Init, Isolation!Settled, Space, LatePages

LEMMA StepIsolated ==
  ASSUME Restricted, IInv, [Next]_vars
  PROVE  Isolation!Next \/ UNCHANGED <<Space, LatePages>>
<1>1. CASE UNCHANGED vars
  BY <1>1 DEF vars, Space, Memory, LatePages, Late, IsMapped
<1>2. CASE Next
  <2> SUFFICES ASSUME NEW t \in Tasks,
        \/ \E sz \in ProgSizes : Create(t, sz) \/ Exec(t, sz)
        \/ \E c \in Tasks : Fork(t, c)
        \/ Die(t)
        \/ Release(t)
        \/ \E hint \in Hints, prot \in Prots :
             \/ \E n \in MmapLens : Mmap(t, hint, n, prot)
             \/ \E n \in PopulateLens : MmapPopulate(t, hint, n, prot)
        \/ \E a \in 0..(Top - 1) :
             \/ TranslationFault(t, a)
             \/ PermissionFault(t, a)
             \/ \E store \in BOOLEAN : SegmentationFault(t, a, store)
        \/ \E v \in VPages, x \in Values : Store(t, v, x)
      PROVE Isolation!Next
    BY <1>2 DEF Next
  <2>1. ASSUME NEW sz \in ProgSizes, Create(t, sz) PROVE Isolation!Next
    BY <2>1, Settles DEF Create, Space, Memory
  <2>2. ASSUME NEW sz \in ProgSizes, Exec(t, sz) PROVE Isolation!Next
    BY <2>2, FreeTablesDiscards, IInvParts DEF Exec, Isolation!Next
  <2>3. ASSUME NEW c \in Tasks, Fork(t, c) PROVE Isolation!Next
    BY <2>3, ForkCopies DEF Isolation!Next
  <2>4. ASSUME Die(t) PROVE Isolation!Next
    BY <2>4, Settles DEF Die, Space, Memory
  <2>5. ASSUME Release(t) PROVE Isolation!Next
    BY <2>5, FreeTablesDiscards, IInvParts DEF Release, Isolation!Next
  <2>6. ASSUME NEW hint \in Hints, NEW prot \in Prots, NEW n \in MmapLens, Mmap(t, hint, n, prot)
        PROVE  Isolation!Next
    <3>1. pt' = pt /\ data' = data /\ stale' = OnlyOf(t)
      BY <2>6 DEF Mmap
    <3>2. stale'[t] = stale[t] /\ \A u \in Tasks \ {t} : stale'[u] = {}
      BY <3>1, IInvParts, OnlyOfKeeps DEF TlbPart, StaleIsMapped
    <3>3. LatePages' = [u \in Tasks |-> IF u = t THEN LatePages[t] ELSE {}]
      BY <3>1, <3>2, OnlyOfIsLate
    <3> QED
      BY <3>1, <3>3, RunsOn DEF Space, Memory
  <2>7. ASSUME NEW hint \in Hints, NEW prot \in Prots, NEW n \in PopulateLens,
               MmapPopulate(t, hint, n, prot)
        PROVE  Isolation!Next
    BY <2>7, MmapPopulateKeeps, EntryAddedAppears DEF MmapPopulate, Restricted, Isolation!Next
  <2>8. ASSUME NEW a \in 0..(Top - 1), TranslationFault(t, a) PROVE Isolation!Next
    BY <2>8, TranslationFaultKeeps, EntryAddedAppears DEF TranslationFault, Isolation!Next
  <2>9. ASSUME NEW a \in 0..(Top - 1), PermissionFault(t, a) PROVE Isolation!Next
    BY <2>9, PermissionFaultUnseen, Settles DEF PermissionFault
  <2>10. ASSUME NEW a \in 0..(Top - 1), NEW store \in BOOLEAN, SegmentationFault(t, a, store)
         PROVE  Isolation!Next
    BY <2>10, Settles DEF SegmentationFault, Die, Space, Memory
  <2>11. ASSUME NEW v \in VPages, NEW x \in Values, Store(t, v, x) PROVE Isolation!Next
    BY <2>11, StoreIsOwn DEF Isolation!Next
  <2> QED
    BY <2>1, <2>2, <2>3, <2>4, <2>5, <2>6, <2>7, <2>8, <2>9, <2>10, <2>11
<1> QED
  BY <1>1, <1>2

\* Demand paging and copy-on-write implement AddressSpaces: a task sees a memory of its own,
\* whatever the other tasks, faults, forks, execs and exits do, and until its parent loses
\* the processor after the fork, what the parent stores.
THEOREM VmIsolatedSpaces ==
  ASSUME Restricted
  PROVE  Spec => IsolatedSpaces
<1>1. IInv /\ [Next]_vars => [Isolation!Next]_<<Space, LatePages>>
  BY StepIsolated
<1>2. [Isolation!Next]_<<Space, LatePages>> <=> [Isolation!Next]_Isolation!vars
  BY DEF Space, LatePages, Isolation!vars
<1> QED
  BY <1>1, <1>2, InitIsolated, IInvAlways, PTL DEF Spec, IsolatedSpaces, Isolation!Spec
===============================================================================
