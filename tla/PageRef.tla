-------------------------------- MODULE PageRef --------------------------------
(***************************************************************************)
(* Shared pages and the steps of page_refcount_update (mm/buddy.c).        *)
(*                                                                         *)
(* Tasks share single pages through fork and give their references up one  *)
(* by one (free_tables, and the copy of vm_fault_handle).  The kernel is   *)
(* preemptible there: the decrement is done with interrupts disabled, but  *)
(* its result is read back, and the page freed, after they are enabled     *)
(* again.  Windows names the points at which another task may run.         *)
(***************************************************************************)
EXTENDS BuddyOps, FiniteSets

CONSTANTS
  Tasks,
  Windows   \* subset of {"unlocked", "decided", "copy"}

\* There are fewer tasks than a count can count.
ASSUME PageRefAssumption ==
  /\ Windows \subseteq {"unlocked", "decided", "copy"}
  /\ IsFiniteSet(Tasks) /\ Cardinality(Tasks) < RefMod

VARIABLES
  holds,  \* the pages each task has mapped
  act     \* what each task is doing in the kernel: [pc, page]

refsVars == <<mem, holds, act>>

Nothing == [pc |-> "user", page |-> 0]

At(t, pc) == act[t].pc = pc

\* one core: t runs only if every other task is in user mode or was preempted in a window
MayRun(t) == \A u \in Tasks \ {t} : act[u].pc \in Windows \cup {"user"}

Goto(t, pc, p) == act' = [act EXCEPT ![t] = [pc |-> pc, page |-> p]]

Return(t) == act' = [act EXCEPT ![t] = Nothing]

RefsInit ==
  /\ mem = InitialMem({})
  /\ holds = [t \in Tasks |-> {}]
  /\ act = [t \in Tasks |-> Nothing]

\* the first access to a page
Alloc(t) ==
  /\ MayRun(t) /\ At(t, "user")
  /\ CanAlloc(mem, 0)
  /\ mem' = AfterAlloc(mem, 0)
  /\ holds' = [holds EXCEPT ![t] = @ \cup {AllocPfn(mem, 0)}]
  /\ UNCHANGED act

\* mutant: the child's references are not counted
ShareUncounted(t, c) ==
  /\ MayRun(t) /\ At(t, "user")
  /\ holds[t] # {} /\ holds[c] = {} /\ At(c, "user")
  /\ holds' = [holds EXCEPT ![c] = holds[t]]
  /\ UNCHANGED <<mem, act>>

\* fork, with interrupts disabled: a task without pages becomes the child of t
Share(t, c) ==
  /\ MayRun(t) /\ At(t, "user")
  /\ holds[t] # {} /\ holds[c] = {} /\ At(c, "user")
  /\ mem' = FoldLeft(AfterRefInc, mem, SetToSeq(holds[t]))
  /\ holds' = [holds EXCEPT ![c] = holds[t]]
  /\ UNCHANGED act

\* a call of page_refcount_update(p, -1): the order and the bitmap are looked up
Drop(t, p) ==
  /\ MayRun(t) /\ At(t, "user")
  /\ p \in holds[t]
  /\ IF RefusesFree(mem, p)
     THEN /\ holds' = [holds EXCEPT ![t] = @ \ {p}]
          /\ UNCHANGED <<mem, act>>
     ELSE /\ Goto(t, "dec", p)
          /\ UNCHANGED <<mem, holds>>

\* a store to a page mapped read-only asks for the count first ...
WriteFault(t, p) ==
  /\ MayRun(t) /\ At(t, "user")
  /\ p \in holds[t]
  /\ mem.refs[p] > 1 /\ ~RefusesFree(mem, p)
  /\ Goto(t, "copy", p)
  /\ UNCHANGED <<mem, holds>>

\* ... and if it is shared copies the page and gives up the old one
CopyPage(t) ==
  /\ MayRun(t) /\ At(t, "copy")
  /\ CanAlloc(mem, 0)
  /\ mem' = AfterAlloc(mem, 0)
  /\ holds' = [holds EXCEPT ![t] = @ \cup {AllocPfn(mem, 0)}]
  /\ Goto(t, "dec", act[t].page)

\* between irq_lock and irq_unlock
Decrement(t) ==
  /\ MayRun(t) /\ At(t, "dec")
  /\ mem' = [mem EXCEPT !.refs[act[t].page] = (@ - 1) % RefMod]
  /\ holds' = [holds EXCEPT ![t] = @ \ {act[t].page}]
  /\ Goto(t, "unlocked", act[t].page)

\* mutant: one reference is taken for none
TestOne(t) ==
  /\ MayRun(t) /\ At(t, "unlocked")
  /\ IF mem.refs[act[t].page] <= 1 THEN Goto(t, "decided", act[t].page) ELSE Return(t)
  /\ UNCHANGED <<mem, holds>>

\* if (page_refcounts[block_pfn] == 0)
TestZero(t) ==
  /\ MayRun(t) /\ At(t, "unlocked")
  /\ IF mem.refs[act[t].page] = 0 THEN Goto(t, "decided", act[t].page) ELSE Return(t)
  /\ UNCHANGED <<mem, holds>>

\* page_free(pa)
FreePage(t) ==
  /\ MayRun(t) /\ At(t, "decided")
  /\ mem' = AfterFree(mem, act[t].page)
  /\ Return(t)
  /\ UNCHANGED holds

RefsNext ==
  \E t \in Tasks :
    \/ Alloc(t)
    \/ \E c \in Tasks \ {t} : Share(t, c)
    \/ \E p \in Pages : Drop(t, p) \/ WriteFault(t, p)
    \/ CopyPage(t)
    \/ Decrement(t)
    \/ TestZero(t)
    \/ FreePage(t)

RefsSpec == RefsInit /\ [][RefsNext]_refsVars

(***************************************************************************)
(* Properties.                                                             *)
(***************************************************************************)
Holders(p) == {t \in Tasks : p \in holds[t]}

\* the pages whose last reference is gone and whose release is under way
Dying == {act[t].page : t \in {u \in Tasks : act[u].pc \in {"unlocked", "decided"}}}

\* Every variable keeps its type.
RefsTypeOK ==
  /\ mem.lists \in [Orders -> Seq(Pages)]
  /\ mem.refs \in [Pages -> 0..(RefMod - 1)]
  /\ holds \in [Tasks -> SUBSET Pages]
  /\ act \in [Tasks -> [pc : {"user", "copy", "dec", "unlocked", "decided"}, page : Pages]]

\* The count of a page is the number of its holders, also while a decrement is under way.
CountIsHolders == \A p \in Pages : mem.refs[p] = Cardinality(Holders(p))

\* "If decrementing the count results in a zero reference count, the associated page is
\* freed automatically" (buddy.h:48): once, and only then.  A page that somebody holds is in
\* no free block, no page is in two of them, and one nobody holds any more becomes free.
FreedExactlyAtZero ==
  /\ \A t \in Tasks : holds[t] \cap FreePagesOf(mem) = {}
  /\ \A o, k \in Orders : \A i \in DOMAIN mem.lists[o], j \in DOMAIN mem.lists[k] :
       <<o, i>> # <<k, j>> => Block(mem.lists[o][i], o) \cap Block(mem.lists[k][j], k) = {}
  /\ (UNION {holds[t] : t \in Tasks}) \cup FreePagesOf(mem) \cup Dying = Pages
===============================================================================
