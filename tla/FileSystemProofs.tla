-------------------------- MODULE FileSystemProofs ---------------------------
(***************************************************************************)
(* Open files with any number of processes, descriptors, struct files and  *)
(* calls of exec, as long as no task is killed inside a system call and    *)
(* nothing is mounted over /dev (FilesKilled.cfg and FilesUartHidden.cfg   *)
(* show what happens otherwise), and the tree of directories with any      *)
(* number of names, vnodes, mounts and tasks.                              *)
(***************************************************************************)
EXTENDS Files, Vfs, SequenceTheorems, FiniteSetTheorems, TLAPS

Undisturbed == ~KilledInside /\ ~UartHidden

(***************************************************************************)
(* The first free slot.                                                    *)
(***************************************************************************)
\* A set of natural numbers has a least element.
LEMMA LeastExists ==
  ASSUME NEW S \in SUBSET Nat, S # {}
  PROVE  \E x \in S : \A y \in S : x <= y
<1> DEFINE T == {0..x : x \in S}
           R == StrictSubsetOrdering(Nat)
<1>1. T \subseteq FiniteSubsetsOf(Nat) /\ T # {}
  <2>1. \A x \in S : 0..x \in SUBSET Nat /\ IsFiniteSet(0..x)
    BY FS_Interval
  <2> QED
    BY <2>1 DEF FiniteSubsetsOf
<1>2. PICK X \in T : \A Y \in T : <<Y, X>> \notin R
  <2> HIDE DEF T, R
  <2> QED
    BY <1>1, FS_StrictSubsetOrderingWellFounded, WFMin DEF R
<1>3. PICK x \in S : X = 0..x
  OBVIOUS
<1>4. ASSUME NEW y \in S, ~(x <= y) PROVE FALSE
  <2>1. 0..y \subseteq 0..x /\ 0..y # 0..x
    BY <1>4
  <2>2. <<0..y, 0..x>> \in R
    BY <2>1 DEF StrictSubsetOrdering
  <2> QED
    BY <2>2, <1>2, <1>3
<1> QED
  BY <1>4

LEMMA FirstFreeSlot ==
  ASSUME NEW p, FreeSlots(p) # {}
  PROVE  /\ Min(FreeSlots(p)) \in Slots
         /\ fdtable[p][Min(FreeSlots(p))] = None
<1>1. \E x \in FreeSlots(p) : \A y \in FreeSlots(p) : x <= y
  BY LeastExists, FilesAssumption DEF FreeSlots
<1>2. Min(FreeSlots(p)) \in FreeSlots(p)
  BY <1>1 DEF Min
<1> QED
  BY <1>2 DEF FreeSlots

(***************************************************************************)
(* The inductive invariant.  A struct file in use is held by a descriptor  *)
(* or by a sys_open that has not yet installed it; FdsOwnFiles says the    *)
(* former of descriptors only, which a sys_open in progress could break.   *)
(***************************************************************************)
Holds(p, fd) == fdtable[p][fd] # None /\ ~(Inside(p, "close") /\ call[p].fd = fd)
Opening(p, h) == Inside(p, "open") /\ call[p].file = h

HeldIsOpen == \A p \in Procs : \A fd \in Slots :
                Holds(p, fd) => files[fdtable[p][fd]] # None

HeldOnce == \A p, q \in Procs : \A fd, gd \in Slots :
              /\ Holds(p, fd) /\ Holds(q, gd) /\ fdtable[p][fd] = fdtable[q][gd]
              => p = q /\ fd = gd

OpeningIsOpen == \A p \in Procs : \A h \in Handles : Opening(p, h) => files[h] # None

\* The file of a sys_open in progress is not that of a descriptor or of another sys_open.
OpeningOwns == \A p, q \in Procs : \A h \in Handles :
                 Opening(p, h) =>
                   /\ \A fd \in Slots : Holds(q, fd) => fdtable[q][fd] # h
                   /\ Opening(q, h) => p = q

\* An open file that nobody holds any more is one that exec overwrote.
OpenIsHeld == \A h \in Handles : files[h] # None /\ h \notin lost =>
                \/ \E p \in Procs : \E fd \in Slots : Holds(p, fd) /\ fdtable[p][fd] = h
                \/ \E p \in Procs : Opening(p, h)

CallsAreOfTheLiving == \A p \in Procs : state[p] # "alive" => call[p] = None

NoTaskNoDescriptor == \A p \in Procs : state[p] \in {"unborn", "released"} =>
                        \A fd \in Slots : fdtable[p][fd] = None

IInv ==
  /\ TypeOK
  /\ HeldIsOpen /\ HeldOnce /\ OpeningIsOpen /\ OpeningOwns /\ OpenIsHeld
  /\ CallsAreOfTheLiving /\ NoTaskNoDescriptor

Ownership == HeldIsOpen /\ HeldOnce /\ OpeningIsOpen /\ OpeningOwns /\ OpenIsHeld

LEMMA IInvInit == Init => IInv
  BY FilesAssumption
  DEF Init, IInv, TypeOK, HeldIsOpen, HeldOnce, OpeningIsOpen, OpeningOwns, OpenIsHeld,
      CallsAreOfTheLiving, NoTaskNoDescriptor, Holds, Opening, Inside

\* A step that opens, closes and moves no file changes nobody's files.
LEMMA NobodyMoves ==
  ASSUME Ownership, fdtable' = fdtable, lost' = lost,
         \A h \in Handles : files'[h] = None <=> files[h] = None,
         \A p \in Procs : \A fd \in Slots : Holds(p, fd)' <=> Holds(p, fd),
         \A p \in Procs : \A h \in Handles : Opening(p, h)' <=> Opening(p, h),
         TypeOK
  PROVE  Ownership'
<1>1. HeldIsOpen'
  BY DEF Ownership, HeldIsOpen, Holds, TypeOK
<1>2. HeldOnce'
  BY DEF Ownership, HeldOnce
<1>3. OpeningIsOpen'
  BY DEF Ownership, OpeningIsOpen
<1>4. OpeningOwns'
  BY DEF Ownership, OpeningOwns
<1>5. OpenIsHeld'
  BY DEF Ownership, OpenIsHeld
<1> QED
  BY <1>1, <1>2, <1>3, <1>4, <1>5 DEF Ownership

(***************************************************************************)
(* proc_setup_fs and proc_release.                                         *)
(***************************************************************************)
\* What proc_setup_fs opens is held by the slots it fills; what these held is in `lost`.
LEMMA SetupFsOwns ==
  ASSUME ~UartHidden, TypeOK, Ownership, NEW p \in Procs, SetupFs(p),
         call[p] = None, call' = call, state' = [state EXCEPT ![p] = "alive"],
         lost' = lost \cup ({fdtable[p][fd] : fd \in StdSlots} \ {None})
  PROVE  /\ Ownership'
         /\ fdtable' \in [Procs -> [Slots -> Handles \cup {None}]]
         /\ files' \in [Handles -> OpenFiles \cup {None}]
         /\ \A q \in Procs \ {p} : fdtable'[q] = fdtable[q]
<1> USE FilesAssumption
<1>1. PICK new \in [StdSlots -> Handles \ InUse] :
        /\ IsInjective(new)
        /\ files' = [h \in Handles |-> IF h \in Range(new) THEN Opened(Uart) ELSE files[h]]
        /\ fdtable' = [fdtable EXCEPT ![p] = [fd \in Slots |->
                         IF fd \in StdSlots THEN new[fd] ELSE fdtable[p][fd]]]
  <2> DEFINE Set(found, new, left) ==
        /\ IsInjective(new)
        /\ files' = [h \in Handles |-> IF h \in Range(new) THEN Opened(Uart) ELSE files[h]]
        /\ fdtable' = [fdtable EXCEPT ![p] = [fd \in Slots |->
                         IF fd \in found THEN new[fd]
                         ELSE IF fd \in StdSlots THEN left[fd] ELSE fdtable[p][fd]]]
  <2>1. \E found \in {StdSlots} : \E new \in [found -> Handles \ InUse],
             left \in [StdSlots \ found -> Handles \cup {None}] : Set(found, new, left)
    BY DEF SetupFs
  <2>2. PICK new \in [StdSlots -> Handles \ InUse],
             left \in [StdSlots \ StdSlots -> Handles \cup {None}] : Set(StdSlots, new, left)
    <3> HIDE DEF Set
    <3> QED
      BY <2>1
  <2>3. [fd \in Slots |-> IF fd \in StdSlots THEN new[fd]
                          ELSE IF fd \in StdSlots THEN left[fd] ELSE fdtable[p][fd]]
        = [fd \in Slots |-> IF fd \in StdSlots THEN new[fd] ELSE fdtable[p][fd]]
    OBVIOUS
  <2> QED
    BY <2>2, <2>3
<1>2. Opened(Uart) \in OpenFiles
  BY DEF Opened, OpenFiles, AllNodes
<1>3. /\ \A q \in Procs \ {p} : fdtable'[q] = fdtable[q]
      /\ \A fd \in Slots :
           fdtable'[p][fd] = IF fd \in StdSlots THEN new[fd] ELSE fdtable[p][fd]
  BY <1>1 DEF TypeOK
<1>4. /\ \A fd \in StdSlots : /\ new[fd] \in Handles /\ files[new[fd]] = None
                               /\ files'[new[fd]] # None
      /\ \A h \in Handles : /\ files[h] # None => files'[h] # None
                            /\ files'[h] # None =>
                                 files[h] # None \/ \E fd \in StdSlots : h = new[fd]
      /\ \A fd, gd \in StdSlots : new[fd] = new[gd] => fd = gd
  BY <1>1, <1>2 DEF InUse, Range, IsInjective
<1>5. /\ \A q \in Procs \ {p} : \A fd \in Slots : Holds(q, fd)' <=> Holds(q, fd)
      /\ \A fd \in Slots : Holds(p, fd) <=> fdtable[p][fd] # None
      /\ \A fd \in Slots : Holds(p, fd)' <=> fdtable'[p][fd] # None
      /\ \A q \in Procs : \A h \in Handles : Opening(q, h)' <=> Opening(q, h)
  BY <1>3 DEF Holds, Opening, Inside, TypeOK
<1>6. \A q \in Procs : \A fd \in Slots :
        /\ Holds(q, fd)' => fdtable'[q][fd] \in Handles
        /\ Holds(q, fd)' => \/ q = p /\ fd \in StdSlots /\ fdtable'[q][fd] = new[fd]
                            \/ Holds(q, fd) /\ fdtable'[q][fd] = fdtable[q][fd]
  BY <1>3, <1>4, <1>5 DEF TypeOK, Holds
<1>7. HeldIsOpen'
  BY <1>4, <1>6 DEF Ownership, HeldIsOpen
<1>8. HeldOnce'
  BY <1>4, <1>6 DEF Ownership, HeldOnce, HeldIsOpen
<1>9. OpeningIsOpen' /\ OpeningOwns'
  BY <1>4, <1>5, <1>6 DEF Ownership, OpeningIsOpen, OpeningOwns
<1>10. OpenIsHeld'
  <2> SUFFICES ASSUME NEW h \in Handles, files'[h] # None, h \notin lost',
                      \A q \in Procs : ~Opening(q, h)'
               PROVE  \E q \in Procs : \E fd \in Slots : Holds(q, fd)' /\ fdtable'[q][fd] = h
    BY DEF OpenIsHeld
  <2>1. CASE files[h] = None
    <3>1. PICK fd \in StdSlots : h = new[fd]
      BY <2>1, <1>4
    <3>2. fd \in Slots /\ fdtable'[p][fd] = h /\ h # None
      BY <3>1, <1>3
    <3> QED
      BY <3>2, <1>5
  <2>2. CASE files[h] # None
    <3>1. PICK q \in Procs, fd \in Slots : Holds(q, fd) /\ fdtable[q][fd] = h
      BY <2>2, <1>5 DEF Ownership, OpenIsHeld
    <3>2. ~(q = p /\ fd \in StdSlots)
      BY <3>1
    <3>3. Holds(q, fd)' /\ fdtable'[q][fd] = h
      BY <3>1, <3>2, <1>3, <1>5 DEF Holds
    <3> QED
      BY <3>3
  <2> QED
    BY <2>1, <2>2
<1>11. fdtable' \in [Procs -> [Slots -> Handles \cup {None}]]
  <2>1. [fd \in Slots |-> IF fd \in StdSlots THEN new[fd] ELSE fdtable[p][fd]]
          \in [Slots -> Handles \cup {None}]
    BY <1>4 DEF TypeOK
  <2> QED
    BY <2>1, <1>1 DEF TypeOK
<1>12. files' \in [Handles -> OpenFiles \cup {None}]
  BY <1>1, <1>2 DEF TypeOK
<1> QED
  BY <1>3, <1>7, <1>8, <1>9, <1>10, <1>11, <1>12 DEF Ownership

LEMMA IInvStart ==
  ASSUME ~UartHidden, IInv, NEW p \in Procs, Start(p)
  PROVE  IInv'
<1>1. call[p] = None /\ \A fd \in Slots : fdtable[p][fd] = None
  BY DEF IInv, Start, CallsAreOfTheLiving, NoTaskNoDescriptor
<1>2. lost' = lost \cup ({fdtable[p][fd] : fd \in StdSlots} \ {None})
  BY <1>1, FilesAssumption DEF Start
<1>3. state' = [state EXCEPT ![p] = "alive"] /\ call' = call /\ SetupFs(p)
  BY DEF Start
<1>4. /\ Ownership'
      /\ fdtable' \in [Procs -> [Slots -> Handles \cup {None}]]
      /\ files' \in [Handles -> OpenFiles \cup {None}]
      /\ \A q \in Procs \ {p} : fdtable'[q] = fdtable[q]
  BY <1>1, <1>2, <1>3, SetupFsOwns DEF IInv, Ownership
<1>5. TypeOK'
  BY <1>3, <1>4 DEF Start, IInv, TypeOK
<1>6. CallsAreOfTheLiving' /\ NoTaskNoDescriptor'
  BY <1>3, <1>4 DEF IInv, TypeOK, CallsAreOfTheLiving, NoTaskNoDescriptor
<1> QED
  BY <1>4, <1>5, <1>6 DEF IInv, Ownership

LEMMA IInvExec ==
  ASSUME ~UartHidden, IInv, NEW p \in Procs, Exec(p)
  PROVE  IInv'
<1>1. /\ call[p] = None /\ state[p] = "alive"
      /\ UNCHANGED <<state, call, filesize, stored>>
      /\ SetupFs(p)
      /\ lost' = lost \cup ({fdtable[p][fd] : fd \in StdSlots} \ {None})
      /\ execs < MaxExecs /\ execs' = execs + 1
  BY DEF Exec, InUser
<1>2. state' = [state EXCEPT ![p] = "alive"]
  BY <1>1 DEF IInv, TypeOK
<1>3. /\ Ownership'
      /\ fdtable' \in [Procs -> [Slots -> Handles \cup {None}]]
      /\ files' \in [Handles -> OpenFiles \cup {None}]
      /\ \A q \in Procs \ {p} : fdtable'[q] = fdtable[q]
  BY <1>1, <1>2, SetupFsOwns DEF IInv, Ownership
<1>4. lost' \subseteq Handles
  BY <1>1, FilesAssumption DEF IInv, TypeOK
<1>5. TypeOK'
  BY <1>1, <1>3, <1>4, FilesAssumption DEF IInv, TypeOK
<1>6. CallsAreOfTheLiving' /\ NoTaskNoDescriptor'
  BY <1>1, <1>3 DEF IInv, TypeOK, CallsAreOfTheLiving, NoTaskNoDescriptor
<1> QED
  BY <1>3, <1>5, <1>6 DEF IInv, Ownership

LEMMA IInvDie ==
  ASSUME IInv, ~KilledInside, NEW p \in Procs, Die(p)
  PROVE  IInv'
<1>1. /\ call[p] = None /\ state' = [state EXCEPT ![p] = "dead"]
      /\ UNCHANGED <<fdtable, call, files, filesize, stored, execs, lost>>
  BY DEF Die
<1>2. TypeOK' /\ CallsAreOfTheLiving' /\ NoTaskNoDescriptor'
  BY <1>1 DEF IInv, TypeOK, CallsAreOfTheLiving, NoTaskNoDescriptor
<1>3. /\ \A q \in Procs : \A fd \in Slots : Holds(q, fd)' <=> Holds(q, fd)
      /\ \A q \in Procs : \A h \in Handles : Opening(q, h)' <=> Opening(q, h)
  BY <1>1 DEF IInv, TypeOK, Holds, Opening, Inside
<1>4. Ownership'
  BY <1>1, <1>3, NobodyMoves DEF IInv, Ownership
<1> QED
  BY <1>2, <1>4 DEF IInv, Ownership

\* proc_release closes the files of one task, and nobody else has them.
LEMMA IInvRelease ==
  ASSUME IInv, NEW p \in Procs, Release(p)
  PROVE  IInv'
<1> USE FilesAssumption
<1>1. call[p] = None /\ \A fd \in Slots : Holds(p, fd) <=> fdtable[p][fd] # None
  BY DEF IInv, Release, CallsAreOfTheLiving, Holds, Inside
<1>2. TypeOK'
  BY DEF Release, IInv, TypeOK
<1>3. /\ \A q \in Procs \ {p} : fdtable'[q] = fdtable[q] /\ state'[q] = state[q]
      /\ \A fd \in Slots : fdtable'[p][fd] = None
      /\ call' = call /\ lost' = lost /\ state'[p] = "released"
  BY <1>1 DEF Release, IInv, TypeOK
<1>4. /\ \A q \in Procs \ {p} : \A fd \in Slots : Holds(q, fd)' <=> Holds(q, fd)
      /\ \A fd \in Slots : ~Holds(p, fd)'
      /\ \A q \in Procs : \A h \in Handles : Opening(q, h)' <=> Opening(q, h)
  BY <1>1, <1>3 DEF Holds, Opening, Inside
<1>5. \A h \in Handles :
        /\ files'[h] # None => files[h] # None /\ \A fd \in Slots : fdtable[p][fd] # h
        /\ (\A fd \in Slots : fdtable[p][fd] # h) => files'[h] = files[h]
  BY DEF Release
<1>6. \A q \in Procs \ {p} : \A fd \in Slots :
        Holds(q, fd) => \A gd \in Slots : fdtable[p][gd] # fdtable[q][fd]
  BY <1>1 DEF IInv, HeldOnce, Holds
<1>7. \A q \in Procs : \A h \in Handles :
        Opening(q, h) => \A gd \in Slots : fdtable[p][gd] # h
  BY <1>1 DEF IInv, OpeningOwns
<1>8. HeldIsOpen' /\ HeldOnce'
  <2>1. \A q \in Procs : \A fd \in Slots : Holds(q, fd)' =>
          q # p /\ Holds(q, fd) /\ fdtable'[q][fd] = fdtable[q][fd] /\ fdtable[q][fd] \in Handles
    BY <1>3, <1>4 DEF Holds, IInv, TypeOK
  <2>2. ASSUME NEW q \in Procs, NEW fd \in Slots, Holds(q, fd)'
        PROVE  files'[fdtable'[q][fd]] # None
    <3>1. PICK h \in Handles : h = fdtable[q][fd] /\ fdtable'[q][fd] = h
      BY <2>1, <2>2
    <3>2. files[h] # None
      <4>1. Holds(q, fd) /\ HeldIsOpen
        BY <1>1, <2>1, <2>2 DEF IInv
      <4>2. files[fdtable[q][fd]] # None
        BY <4>1 DEF HeldIsOpen
      <4> QED
        BY <3>1, <4>2
    <3>3. \A gd \in Slots : fdtable[p][gd] # h
      BY <1>6, <2>1, <2>2, <3>1
    <3>4. files'[h] = files[h]
      BY <1>5, <3>3
    <3> QED
      BY <3>1, <3>2, <3>4
  <2>3. HeldOnce'
    BY <2>1 DEF IInv, HeldOnce
  <2>4. HeldIsOpen'
    BY <2>2 DEF HeldIsOpen
  <2> QED
    BY <2>3, <2>4
<1>9. OpeningIsOpen' /\ OpeningOwns'
  BY <1>3, <1>4, <1>5, <1>7 DEF IInv, OpeningIsOpen, OpeningOwns
<1>10. OpenIsHeld'
  BY <1>3, <1>4, <1>5 DEF IInv, OpenIsHeld
<1>11. CallsAreOfTheLiving' /\ NoTaskNoDescriptor'
  BY <1>1, <1>3 DEF IInv, CallsAreOfTheLiving, NoTaskNoDescriptor
<1> QED
  BY <1>2, <1>8, <1>9, <1>10, <1>11 DEF IInv

(***************************************************************************)
(* sys_open.                                                               *)
(***************************************************************************)
LEMMA IInvOpenFile ==
  ASSUME IInv, NEW p \in Procs, NEW node \in AllNodes, OpenFile(p, node)
  PROVE  IInv'
<1> USE FilesAssumption
<1>1. PICK h \in Handles \ InUse :
        /\ files' = [files EXCEPT ![h] = Opened(node)]
        /\ call' = [call EXCEPT ![p] = [name |-> "open", file |-> h]]
  BY DEF OpenFile
<1>2. /\ state[p] = "alive" /\ call[p] = None /\ files[h] = None
      /\ UNCHANGED <<state, fdtable, filesize, stored, execs, lost>>
  BY DEF OpenFile, InUser, InUse
<1>3. Opened(node) \in OpenFiles /\ [name |-> "open", file |-> h] \in Calls
  BY DEF Opened, OpenFiles, Calls
<1>4. TypeOK'
  BY <1>1, <1>2, <1>3 DEF IInv, TypeOK
<1>5. /\ files'[h] # None
      /\ \A g \in Handles \ {h} : files'[g] = files[g]
      /\ \A q \in Procs \ {p} : call'[q] = call[q]
      /\ call'[p] = [name |-> "open", file |-> h] /\ call'[p] # None
  BY <1>1, <1>3 DEF IInv, TypeOK
<1>6. /\ \A q \in Procs : \A fd \in Slots : Holds(q, fd)' <=> Holds(q, fd)
      /\ \A q \in Procs \ {p} : \A g \in Handles : Opening(q, g)' <=> Opening(q, g)
      /\ \A g \in Handles : Opening(p, g)' <=> g = h
      /\ \A g \in Handles : ~Opening(p, g)
  BY <1>2, <1>5 DEF Holds, Opening, Inside
<1>7. /\ \A q \in Procs : \A fd \in Slots : Holds(q, fd) => fdtable[q][fd] \in Handles \ {h}
      /\ \A q \in Procs : ~Opening(q, h)
  BY <1>2 DEF IInv, TypeOK, HeldIsOpen, OpeningIsOpen, Holds
<1>8. HeldIsOpen' /\ HeldOnce'
  BY <1>2, <1>5, <1>6, <1>7 DEF IInv, HeldIsOpen, HeldOnce
<1>9. OpeningIsOpen' /\ OpeningOwns' /\ OpenIsHeld'
  BY <1>2, <1>5, <1>6, <1>7 DEF IInv, OpeningIsOpen, OpeningOwns, OpenIsHeld
<1>10. CallsAreOfTheLiving' /\ NoTaskNoDescriptor'
  BY <1>2, <1>5 DEF IInv, CallsAreOfTheLiving, NoTaskNoDescriptor
<1> QED
  BY <1>4, <1>8, <1>9, <1>10 DEF IInv

\* What sys_open opened becomes the file of one free slot, or is closed.
LEMMA IInvEndOpen ==
  ASSUME IInv, NEW p \in Procs, EndOpen(p)
  PROVE  IInv'
<1> USE FilesAssumption
<1> DEFINE h == call[p].file
<1>1. /\ state[p] = "alive" /\ call[p] # None /\ call[p].name = "open"
      /\ InstallOrClose(p) /\ call' = [call EXCEPT ![p] = None]
      /\ UNCHANGED <<state, filesize, stored, execs, lost>>
  BY DEF EndOpen, Inside
<1>2. h \in Handles
  BY <1>1 DEF IInv, TypeOK, Calls
<1> HIDE DEF h
<1>3. /\ \A q \in Procs \ {p} : call'[q] = call[q]
      /\ call'[p] = None
  BY <1>1 DEF IInv, TypeOK
<1>4. /\ \A g \in Handles : Opening(p, g) <=> g = h
      /\ \A fd \in Slots : Holds(p, fd) <=> fdtable[p][fd] # None
      /\ files[h] # None
      /\ \A q \in Procs : \A fd \in Slots : Holds(q, fd) => fdtable[q][fd] # h
  BY <1>1, <1>2 DEF Opening, Holds, Inside, h, IInv, OpeningIsOpen, OpeningOwns
<1>5. /\ \A q \in Procs \ {p} : \A g \in Handles : Opening(q, g)' <=> Opening(q, g)
      /\ \A g \in Handles : ~Opening(p, g)'
  BY <1>1, <1>3 DEF Opening, Inside
<1>6. CallsAreOfTheLiving'
  BY <1>1, <1>3 DEF IInv, CallsAreOfTheLiving
<1>7. CASE FreeSlots(p) = {}
  <2>1. files' = [files EXCEPT ![h] = None] /\ fdtable' = fdtable
    BY <1>1, <1>7 DEF InstallOrClose, h
  <2>2. TypeOK'
    BY <1>1, <1>2, <2>1 DEF IInv, TypeOK
  <2>3. \A q \in Procs : \A fd \in Slots : Holds(q, fd)' <=> Holds(q, fd)
    BY <1>1, <1>3, <1>4, <2>1 DEF Holds, Inside
  <2>4. files'[h] = None /\ \A g \in Handles \ {h} : files'[g] = files[g]
    BY <1>2, <2>1 DEF IInv, TypeOK
  <2>5. HeldIsOpen' /\ HeldOnce'
    BY <1>4, <2>1, <2>3, <2>4 DEF IInv, TypeOK, HeldIsOpen, HeldOnce, Holds
  <2>6. OpeningIsOpen' /\ OpeningOwns' /\ OpenIsHeld' /\ NoTaskNoDescriptor'
    <3>1. OpeningIsOpen'
      BY <1>4, <1>5, <2>4 DEF IInv, OpeningIsOpen, OpeningOwns
    <3>2. OpeningOwns'
      BY <1>5, <2>1, <2>3 DEF IInv, OpeningOwns
    <3>3. OpenIsHeld'
      BY <1>1, <1>4, <1>5, <2>1, <2>3, <2>4 DEF IInv, OpenIsHeld
    <3>4. NoTaskNoDescriptor'
      BY <1>1, <2>1 DEF IInv, NoTaskNoDescriptor
    <3> QED
      BY <3>1, <3>2, <3>3, <3>4
  <2> QED
    BY <1>6, <2>2, <2>5, <2>6 DEF IInv
<1>8. CASE FreeSlots(p) # {}
  <2>1. PICK new \in Slots : new = Min(FreeSlots(p)) /\ fdtable[p][new] = None
    BY <1>8, FirstFreeSlot
  <2>2. fdtable' = [fdtable EXCEPT ![p][new] = h] /\ files' = files
    BY <1>1, <1>8, <2>1 DEF InstallOrClose, h
  <2>3. TypeOK'
    BY <1>1, <1>2, <2>1, <2>2 DEF IInv, TypeOK
  <2>4. /\ \A q \in Procs \ {p} : fdtable'[q] = fdtable[q]
        /\ \A fd \in Slots \ {new} : fdtable'[p][fd] = fdtable[p][fd]
        /\ fdtable'[p][new] = h /\ h # None
    BY <1>2, <2>1, <2>2 DEF IInv, TypeOK
  <2>5. /\ \A q \in Procs \ {p} : \A fd \in Slots : Holds(q, fd)' <=> Holds(q, fd)
        /\ \A fd \in Slots \ {new} : Holds(p, fd)' <=> Holds(p, fd)
        /\ Holds(p, new)' /\ ~Holds(p, new)
    <3>1. \A q \in Procs \ {p} : \A fd \in Slots : Holds(q, fd)' <=> Holds(q, fd)
      BY <1>1, <1>3, <2>4 DEF Holds, Inside
    <3>2. \A fd \in Slots : Holds(p, fd)' <=> fdtable'[p][fd] # None
      BY <1>3 DEF Holds, Inside
    <3> QED
      BY <1>4, <2>1, <2>4, <3>1, <3>2
  <2>6. HeldIsOpen' /\ HeldOnce'
    BY <1>4, <2>1, <2>2, <2>4, <2>5 DEF IInv, HeldIsOpen, HeldOnce
  <2>7. OpeningIsOpen' /\ OpeningOwns'
    BY <1>2, <1>4, <1>5, <2>2, <2>4, <2>5 DEF IInv, OpeningIsOpen, OpeningOwns
  <2>8. OpenIsHeld'
    <3> SUFFICES ASSUME NEW g \in Handles, files'[g] # None, g \notin lost',
                        \A q \in Procs : ~Opening(q, g)'
                 PROVE  \E q \in Procs : \E fd \in Slots : Holds(q, fd)' /\ fdtable'[q][fd] = g
      BY DEF OpenIsHeld
    <3>1. CASE g = h
      BY <3>1, <2>1, <2>4, <2>5
    <3>2. CASE g # h
      <4>1. \A q \in Procs : ~Opening(q, g)
        BY <3>2, <1>4, <1>5
      <4>2. PICK q \in Procs, fd \in Slots : Holds(q, fd) /\ fdtable[q][fd] = g
        BY <1>1, <2>2, <4>1 DEF IInv, OpenIsHeld
      <4>3. Holds(q, fd)' /\ fdtable'[q][fd] = g
        BY <2>4, <2>5, <4>2
      <4> QED
        BY <4>3
    <3> QED
      BY <3>1, <3>2
  <2>9. NoTaskNoDescriptor'
    BY <1>1, <2>4 DEF IInv, NoTaskNoDescriptor
  <2> QED
    BY <1>6, <2>3, <2>6, <2>7, <2>8, <2>9 DEF IInv
<1> QED
  BY <1>7, <1>8

(***************************************************************************)
(* sys_close.                                                              *)
(***************************************************************************)
\* Between the two steps the slot still has the pointer, but holds the file no longer.
LEMMA IInvCloseFile ==
  ASSUME IInv, NEW p \in Procs, NEW fd \in Slots, CloseFile(p, fd)
  PROVE  IInv'
<1> USE FilesAssumption
<1> DEFINE h == fdtable[p][fd]
<1>1. /\ state[p] = "alive" /\ call[p] = None /\ h # None
      /\ files' = [files EXCEPT ![h] = None]
      /\ call' = [call EXCEPT ![p] = [name |-> "close", fd |-> fd]]
      /\ UNCHANGED <<state, fdtable, filesize, stored, execs, lost>>
  BY DEF CloseFile, InUser
<1>2. h \in Handles
  BY <1>1 DEF IInv, TypeOK
<1>3. [name |-> "close", fd |-> fd] \in Calls
  BY DEF Calls
<1>4. TypeOK'
  BY <1>1, <1>2, <1>3 DEF IInv, TypeOK
<1>5. /\ files'[h] = None
      /\ \A g \in Handles \ {h} : files'[g] = files[g]
      /\ \A q \in Procs \ {p} : call'[q] = call[q]
      /\ call'[p] = [name |-> "close", fd |-> fd] /\ call'[p] # None
  BY <1>1, <1>2, <1>3 DEF IInv, TypeOK
<1>6. Holds(p, fd)
  BY <1>1 DEF Holds, Inside
<1>7. /\ \A q \in Procs \ {p} : \A gd \in Slots : Holds(q, gd)' <=> Holds(q, gd)
      /\ \A gd \in Slots \ {fd} : Holds(p, gd)' <=> Holds(p, gd)
      /\ ~Holds(p, fd)'
      /\ \A q \in Procs : \A g \in Handles : Opening(q, g)' <=> Opening(q, g)
      /\ \A q \in Procs : ~Opening(q, h)
  <2>1. \A q \in Procs : ~Opening(q, h)
    BY <1>2, <1>6 DEF IInv, OpeningOwns
  <2> QED
    BY <1>1, <1>5, <2>1 DEF Holds, Opening, Inside
<1> HIDE DEF h
<1>8. \A q \in Procs : \A gd \in Slots : Holds(q, gd)' =>
        Holds(q, gd) /\ fdtable[q][gd] \in Handles \ {h}
  BY <1>6, <1>7 DEF IInv, TypeOK, HeldOnce, Holds, h
<1>9. HeldIsOpen' /\ HeldOnce'
  <2>1. fdtable' = fdtable
    BY <1>1
  <2>2. HeldIsOpen'
    BY <1>5, <1>8, <2>1 DEF IInv, HeldIsOpen
  <2>3. HeldOnce'
    BY <1>8, <2>1 DEF IInv, HeldOnce
  <2> QED
    BY <2>2, <2>3
<1>10. OpeningIsOpen' /\ OpeningOwns'
  BY <1>1, <1>5, <1>7, <1>8 DEF IInv, OpeningIsOpen, OpeningOwns
<1>11. OpenIsHeld'
  <2> SUFFICES ASSUME NEW g \in Handles, files'[g] # None, g \notin lost',
                      \A q \in Procs : ~Opening(q, g)'
               PROVE  \E q \in Procs : \E gd \in Slots : Holds(q, gd)' /\ fdtable'[q][gd] = g
    BY DEF OpenIsHeld
  <2>1. g # h /\ files[g] # None
    BY <1>5
  <2>2. PICK q \in Procs, gd \in Slots : Holds(q, gd) /\ fdtable[q][gd] = g
    BY <1>1, <1>7, <2>1 DEF IInv, OpenIsHeld
  <2>3. Holds(q, gd)'
    BY <1>7, <2>1, <2>2 DEF h
  <2> QED
    BY <1>1, <2>2, <2>3
<1>12. CallsAreOfTheLiving' /\ NoTaskNoDescriptor'
  BY <1>1, <1>5 DEF IInv, CallsAreOfTheLiving, NoTaskNoDescriptor
<1> QED
  BY <1>4, <1>9, <1>10, <1>11, <1>12 DEF IInv

LEMMA IInvEndClose ==
  ASSUME IInv, NEW p \in Procs, EndClose(p)
  PROVE  IInv'
<1> USE FilesAssumption
<1>1. /\ state[p] = "alive" /\ call[p] # None /\ call[p].name = "close"
      /\ fdtable' = [fdtable EXCEPT ![p][call[p].fd] = None]
      /\ call' = [call EXCEPT ![p] = None]
      /\ UNCHANGED <<state, files, filesize, stored, execs, lost>>
  BY DEF EndClose, ClearSlot, Inside
<1>2. PICK slot \in Slots : slot = call[p].fd
  BY <1>1 DEF IInv, TypeOK, Calls
<1>3. ~Holds(p, slot)
  BY <1>1, <1>2 DEF Holds, Inside
<1>4. TypeOK'
  BY <1>1, <1>2 DEF IInv, TypeOK
<1>5. /\ \A q \in Procs \ {p} : fdtable'[q] = fdtable[q] /\ call'[q] = call[q]
      /\ \A fd \in Slots \ {slot} : fdtable'[p][fd] = fdtable[p][fd]
      /\ fdtable'[p][slot] = None /\ call'[p] = None
  BY <1>1, <1>2 DEF IInv, TypeOK
<1>6. /\ \A q \in Procs \ {p} : \A fd \in Slots : Holds(q, fd)' <=> Holds(q, fd)
      /\ \A fd \in Slots \ {slot} : Holds(p, fd)' <=> Holds(p, fd)
      /\ ~Holds(p, slot)'
      /\ \A q \in Procs : \A g \in Handles : Opening(q, g)' <=> Opening(q, g)
  <2>1. \A q \in Procs \ {p} : \A fd \in Slots : Holds(q, fd)' <=> Holds(q, fd)
    BY <1>1, <1>5 DEF Holds, Inside
  <2>2. \A fd \in Slots : Holds(p, fd) <=> fdtable[p][fd] # None /\ fd # slot
    BY <1>1, <1>2 DEF Holds, Inside
  <2>3. \A fd \in Slots : Holds(p, fd)' <=> fdtable'[p][fd] # None
    BY <1>5 DEF Holds, Inside
  <2>4. \A q \in Procs \ {p} : \A g \in Handles : Opening(q, g)' <=> Opening(q, g)
    BY <1>1, <1>5 DEF Opening, Inside
  <2>5. \A g \in Handles : ~Opening(p, g) /\ ~Opening(p, g)'
    BY <1>1, <1>5 DEF Opening, Inside
  <2> QED
    BY <1>2, <1>5, <2>1, <2>2, <2>3, <2>4, <2>5
<1>7. \A q \in Procs : \A fd \in Slots :
        /\ Holds(q, fd)' <=> Holds(q, fd)
        /\ Holds(q, fd) => fdtable'[q][fd] = fdtable[q][fd]
  <2>1. \A q \in Procs, fd \in Slots : q # p \/ fd # slot =>
          fdtable'[q][fd] = fdtable[q][fd] /\ (Holds(q, fd)' <=> Holds(q, fd))
    BY <1>5, <1>6
  <2> QED
    BY <1>3, <1>6, <2>1
<1>8. HeldIsOpen' /\ HeldOnce'
  BY <1>1, <1>7 DEF IInv, HeldIsOpen, HeldOnce
<1>9. OpeningIsOpen' /\ OpeningOwns' /\ OpenIsHeld'
  BY <1>1, <1>6, <1>7 DEF IInv, OpeningIsOpen, OpeningOwns, OpenIsHeld
<1>10. CallsAreOfTheLiving' /\ NoTaskNoDescriptor'
  BY <1>1, <1>5 DEF IInv, CallsAreOfTheLiving, NoTaskNoDescriptor
<1> QED
  BY <1>4, <1>8, <1>9, <1>10 DEF IInv

(***************************************************************************)
(* The operations of the file systems.                                     *)
(***************************************************************************)
LEMMA IInvRead ==
  ASSUME IInv, NEW p \in Procs, NEW fd \in Slots, NEW count \in 1..MaxFileSize, Read(p, fd, count)
  PROVE  IInv'
<1> USE FilesAssumption
<1>1. PICK h \in Handles : h = fdtable[p][fd] /\ files[h] \in OpenFiles
  <2>1. fdtable[p][fd] \in Handles /\ fdtable[p][fd] # None
    BY DEF Read, IsOn, IInv, TypeOK
  <2>2. Holds(p, fd)
    BY <2>1 DEF Read, InUser, Holds, Inside
  <2> QED
    BY <2>1, <2>2 DEF IInv, TypeOK, HeldIsOpen
<1> DEFINE len == Lesser(count, SizeOf(files[h].vnode) - files[h].f_pos)
<1>2. /\ files' = [files EXCEPT ![h] = MovedTo(files[h], files[h].f_pos + len)]
      /\ UNCHANGED <<state, fdtable, call, filesize, stored, execs, lost>>
      /\ files[h].vnode \in Nodes \cup RomNodes
  BY <1>1 DEF Read, IsOn
<1>3. len \in Int
  BY <1>1, <1>2 DEF Lesser, SizeOf, OpenFiles, IInv, TypeOK
<1> HIDE DEF len
<1>4. MovedTo(files[h], files[h].f_pos + len) \in OpenFiles
  BY <1>1, <1>3 DEF MovedTo, OpenFiles
<1>5. TypeOK'
  BY <1>2, <1>4 DEF IInv, TypeOK
<1>6. \A g \in Handles : files'[g] = None <=> files[g] = None
  BY <1>1, <1>2, <1>4 DEF IInv, TypeOK
<1>7. Ownership'
  BY <1>2, <1>6, NobodyMoves DEF IInv, Ownership, Holds, Opening, Inside
<1>8. CallsAreOfTheLiving' /\ NoTaskNoDescriptor'
  BY <1>2 DEF IInv, CallsAreOfTheLiving, NoTaskNoDescriptor
<1> QED
  BY <1>5, <1>7, <1>8 DEF IInv, Ownership

LEMMA IInvSeek ==
  ASSUME IInv, NEW p \in Procs, NEW fd \in Slots, NEW offset \in Offsets, Seek(p, fd, offset)
  PROVE  IInv'
<1> USE FilesAssumption
<1>1. PICK h \in Handles : h = fdtable[p][fd] /\ files[h] \in OpenFiles
  <2>1. fdtable[p][fd] \in Handles /\ fdtable[p][fd] # None
    BY DEF Seek, IsOn, IInv, TypeOK
  <2>2. Holds(p, fd)
    BY <2>1 DEF Seek, InUser, Holds, Inside
  <2> QED
    BY <2>1, <2>2 DEF IInv, TypeOK, HeldIsOpen
<1>2. /\ files' = [files EXCEPT ![h] = MovedTo(files[h], offset)]
      /\ UNCHANGED <<state, fdtable, call, filesize, stored, execs, lost>>
  BY <1>1 DEF Seek
<1>3. MovedTo(files[h], offset) \in OpenFiles
  BY <1>1 DEF MovedTo, OpenFiles
<1>4. TypeOK'
  BY <1>2, <1>3 DEF IInv, TypeOK
<1>5. \A g \in Handles : files'[g] = None <=> files[g] = None
  BY <1>1, <1>2, <1>3 DEF IInv, TypeOK
<1>6. Ownership'
  BY <1>2, <1>5, NobodyMoves DEF IInv, Ownership, Holds, Opening, Inside
<1>7. CallsAreOfTheLiving' /\ NoTaskNoDescriptor'
  BY <1>2 DEF IInv, CallsAreOfTheLiving, NoTaskNoDescriptor
<1> QED
  BY <1>4, <1>6, <1>7 DEF IInv, Ownership

LEMMA IInvWrite ==
  ASSUME IInv, NEW p \in Procs, NEW fd \in Slots, NEW count \in 1..MaxFileSize, Write(p, fd, count)
  PROVE  IInv'
<1> USE FilesAssumption
<1>1. PICK h \in Handles : h = fdtable[p][fd] /\ files[h] \in OpenFiles
  <2>1. fdtable[p][fd] \in Handles /\ fdtable[p][fd] # None
    BY DEF Write, IsOn, IInv, TypeOK
  <2>2. Holds(p, fd)
    BY <2>1 DEF Write, InUser, Holds, Inside
  <2> QED
    BY <2>1, <2>2 DEF IInv, TypeOK, HeldIsOpen
<1>2. PICK node \in Nodes : node = files[h].vnode
  BY <1>1 DEF Write, IsOn
<1> DEFINE len == Lesser(count, MaxFileSize - files[h].f_pos)
           local == [name |-> "write", node |-> node,
                     size |-> Greater(files[h].f_pos + len, filesize[node])]
<1>3. /\ state[p] = "alive" /\ call[p] = None /\ len > 0
      /\ stored' = [stored EXCEPT ![node] = Greater(stored[node], len)]
      /\ files' = [files EXCEPT ![h] = MovedTo(files[h], files[h].f_pos + len)]
      /\ call' = [call EXCEPT ![p] = local]
      /\ UNCHANGED <<state, fdtable, filesize, execs, lost>>
  BY <1>1, <1>2 DEF Write, InUser
<1>4. len \in Int
  BY <1>1 DEF Lesser, OpenFiles
<1>5. MovedTo(files[h], files[h].f_pos + len) \in OpenFiles
  BY <1>1, <1>4 DEF MovedTo, OpenFiles
<1>6. Greater(files[h].f_pos + len, filesize[node]) \in Nat /\ Greater(stored[node], len) \in Nat
  BY <1>1, <1>4 DEF Greater, OpenFiles, IInv, TypeOK
<1>7. local \in Calls
  BY <1>6 DEF Calls
<1>8. local # None /\ local.name = "write"
  BY <1>7
<1> HIDE DEF local, len
<1>9. TypeOK'
  BY <1>3, <1>5, <1>6, <1>7 DEF IInv, TypeOK
<1>10. \A g \in Handles : files'[g] = None <=> files[g] = None
  BY <1>1, <1>3, <1>5 DEF IInv, TypeOK
<1>11. call'[p] = local /\ \A q \in Procs \ {p} : call'[q] = call[q]
  BY <1>3 DEF IInv, TypeOK
<1>12. \A q \in Procs : /\ \A gd \in Slots : Holds(q, gd)' <=> Holds(q, gd)
                        /\ \A g \in Handles : Opening(q, g)' <=> Opening(q, g)
  BY <1>3, <1>8, <1>11 DEF Holds, Opening, Inside
<1>13. Ownership'
  BY <1>3, <1>10, <1>12, NobodyMoves DEF IInv, Ownership
<1>14. CallsAreOfTheLiving' /\ NoTaskNoDescriptor'
  BY <1>3, <1>11 DEF IInv, CallsAreOfTheLiving, NoTaskNoDescriptor
<1> QED
  BY <1>9, <1>13, <1>14 DEF IInv, Ownership

LEMMA IInvEndWrite ==
  ASSUME IInv, NEW p \in Procs, EndWrite(p)
  PROVE  IInv'
<1> USE FilesAssumption
<1>1. /\ call[p] # None /\ call[p].name = "write" /\ state[p] = "alive"
      /\ filesize' = [filesize EXCEPT ![call[p].node] = call[p].size]
      /\ call' = [call EXCEPT ![p] = None]
      /\ UNCHANGED <<state, fdtable, files, stored, execs, lost>>
  BY DEF EndWrite, Inside
<1>2. call[p].node \in Nodes /\ call[p].size \in Nat
  BY <1>1 DEF IInv, TypeOK, Calls
<1>3. TypeOK'
  BY <1>1, <1>2 DEF IInv, TypeOK
<1>4. call'[p] = None /\ \A q \in Procs \ {p} : call'[q] = call[q]
  BY <1>1 DEF IInv, TypeOK
<1>5. \A q \in Procs : /\ \A gd \in Slots : Holds(q, gd)' <=> Holds(q, gd)
                       /\ \A g \in Handles : Opening(q, g)' <=> Opening(q, g)
  BY <1>1, <1>4 DEF Holds, Opening, Inside
<1>6. Ownership'
  BY <1>1, <1>5, NobodyMoves DEF IInv, Ownership
<1>7. CallsAreOfTheLiving' /\ NoTaskNoDescriptor'
  BY <1>1, <1>4 DEF IInv, CallsAreOfTheLiving, NoTaskNoDescriptor
<1> QED
  BY <1>3, <1>6, <1>7 DEF IInv, Ownership

(***************************************************************************)
(* The invariant always holds, and implies the properties.                 *)
(***************************************************************************)
LEMMA IInvInductive == Undisturbed /\ IInv /\ [Next]_vars => IInv'
<1> SUFFICES ASSUME ~KilledInside, ~UartHidden, IInv, [Next]_vars PROVE IInv'
  BY DEF Undisturbed
<1>1. CASE Next
  <2>1. PICK p \in Procs :
          \/ Start(p) \/ Exec(p) \/ Die(p) \/ Release(p)
          \/ EndOpen(p) \/ EndClose(p) \/ EndWrite(p)
          \/ \E node \in AllNodes : OpenFile(p, node)
          \/ \E fd \in Slots :
               \/ CloseFile(p, fd)
               \/ \E count \in 1..MaxFileSize : Read(p, fd, count) \/ Write(p, fd, count)
               \/ \E offset \in Offsets : Seek(p, fd, offset)
    BY <1>1 DEF Next
  <2>2. CASE Start(p) \/ Exec(p) \/ Die(p) \/ Release(p)
    BY <2>2, IInvStart, IInvExec, IInvDie, IInvRelease
  <2>3. CASE EndOpen(p) \/ EndClose(p) \/ EndWrite(p)
    BY <2>3, IInvEndOpen, IInvEndClose, IInvEndWrite
  <2>4. CASE \E node \in AllNodes : OpenFile(p, node)
    BY <2>4, IInvOpenFile
  <2>5. CASE \E fd \in Slots :
               \/ CloseFile(p, fd)
               \/ \E count \in 1..MaxFileSize : Read(p, fd, count) \/ Write(p, fd, count)
               \/ \E offset \in Offsets : Seek(p, fd, offset)
    BY <2>5, IInvCloseFile, IInvRead, IInvWrite, IInvSeek
  <2> QED
    BY <2>1, <2>2, <2>3, <2>4, <2>5
<1>2. CASE UNCHANGED vars
  BY <1>2 DEF vars, IInv, TypeOK, HeldIsOpen, HeldOnce, OpeningIsOpen, OpeningOwns, OpenIsHeld,
              CallsAreOfTheLiving, NoTaskNoDescriptor, Holds, Opening, Inside
<1> QED
  BY <1>1, <1>2

LEMMA IInvAlways ==
  ASSUME Undisturbed
  PROVE  Spec => []IInv
<1>1. IInv /\ [Next]_vars => IInv'
  BY IInvInductive
<1> QED
  BY <1>1, IInvInit, PTL DEF Spec

LEMMA DescriptorsHold ==
  ASSUME NEW d
  PROVE  d \in Descriptors <=> d \in Procs \X Slots /\ Holds(d[1], d[2])
  BY DEF Descriptors, Holds

LEMMA IInvImplies == IInv => TypeOK /\ FdsOwnFiles /\ NoFileLost
<1> SUFFICES ASSUME IInv PROVE FdsOwnFiles /\ NoFileLost
  BY DEF IInv
<1>1. \A d \in Descriptors : /\ d[1] \in Procs /\ d[2] \in Slots /\ d = <<d[1], d[2]>>
                             /\ Holds(d[1], d[2])
  BY DescriptorsHold
<1>2. \A d \in Descriptors : files[FileOf(d)] # None
  BY <1>1 DEF IInv, HeldIsOpen, FileOf
<1>3. \A d, e \in Descriptors : FileOf(d) = FileOf(e) => d = e
  BY <1>1 DEF IInv, HeldOnce, FileOf
<1>4. NoFileLost
  <2> SUFFICES ASSUME NEW h \in InUse \ lost, ~\E p \in Procs : Opening(p, h)
               PROVE  \E d \in Descriptors : FileOf(d) = h
    BY DEF NoFileLost, Opening
  <2>1. PICK p \in Procs, fd \in Slots : Holds(p, fd) /\ fdtable[p][fd] = h
    BY DEF InUse, IInv, OpenIsHeld
  <2>2. <<p, fd>> \in Descriptors
    BY <2>1, DescriptorsHold
  <2> QED
    BY <2>1, <2>2 DEF FileOf
<1> QED
  BY <1>2, <1>3, <1>4 DEF FdsOwnFiles

\* The tables, files and positions are always well formed.
THEOREM FilesTypeCorrect ==
  ASSUME Undisturbed
  PROVE  Spec => []TypeOK
  BY IInvAlways, IInvImplies, PTL

\* However open, close, exec and exit of different processes interleave, every descriptor
\* refers to an open file of its own: nothing is used, or closed, after it was closed.
THEOREM FilesOwned ==
  ASSUME Undisturbed
  PROVE  Spec => []FdsOwnFiles
  BY IInvAlways, IInvImplies, PTL

\* A file is never left open without a descriptor, but by exec.
THEOREM FilesNotLost ==
  ASSUME Undisturbed
  PROVE  Spec => []NoFileLost
  BY IInvAlways, IInvImplies, PTL

(***************************************************************************)
(* Paths.  The operators of Vfs on any vnodes V and mounts M, so that what *)
(* is said of them holds before and after a step.                          *)
(***************************************************************************)
DirIn(V, x) == V[x].type = "directory"

RootIn(V, M, x) == V[x].mount # NoMount /\ M[V[x].mount].root = x

CoveredIn(V, M, x) == V[x].mount # NoMount /\ M[V[x].mount].root # x

\* one step of the loop that follows mounts upward
UpIn(V, M, f, x) == IF CoveredIn(V, M, x) THEN f[M[V[x].mount].root] ELSE x

UppermostIn(V, M, x) ==
  LET Up == CHOOSE f : f = [w \in 1..Len(V) |-> UpIn(V, M, f, w)]
  IN  Up[x]

NamedIn(V, x, tok) == {i \in DOMAIN V[x].subdirs : V[x].subdirs[i].name = tok}

VnptrIn(V, x) == IF V[x].type = "unfinished" THEN Garbage ELSE x

LookupIn(V, x, tok) ==
  IF tok = "." THEN x
  ELSE IF ~DirIn(V, x) THEN Garbage
  ELSE IF tok = ".." THEN VnptrIn(V, V[x].parent)
  ELSE IF NamedIn(V, x, tok) = {} THEN NoEntry
  ELSE VnptrIn(V, V[x].subdirs[Min(NamedIn(V, x, tok))].vnode)

\* what a lookup answers that is no vnode
Nowhere == {NoEntry, Garbage}

\* where the search for a component begins
FromIn(V, M, x, tok) ==
  IF tok = ".." /\ RootIn(V, M, x) THEN M[V[x].mount].covered ELSE x

StepIn(V, M, x, tok) ==
  IF LookupIn(V, FromIn(V, M, x, tok), tok) \in Nowhere THEN LookupIn(V, FromIn(V, M, x, tok), tok)
  ELSE UppermostIn(V, M, LookupIn(V, FromIn(V, M, x, tok), tok))

\* one component more
GoIn(V, M, x, tok) == IF x \in 1..Len(V) THEN StepIn(V, M, x, tok) ELSE x

WalkIn(V, M, start, path) ==
  IF Len(path) = 1 THEN GoIn(V, M, start, path[1])
  ELSE GoIn(V, M, GoIn(V, M, start, path[1]), path[2])

LEMMA OperatorsIn ==
  /\ \A x : IsDir(x) <=> DirIn(vnodes, x)
  /\ \A x : IsCovered(x) <=> CoveredIn(vnodes, mounts, x)
  /\ \A x : IsMountRoot(x) <=> RootIn(vnodes, mounts, x)
  /\ \A x : Uppermost(x) = UppermostIn(vnodes, mounts, x)
  /\ \A x, tok : Lookup(x, tok) = LookupIn(vnodes, x, tok)
  /\ \A x, tok : Step(x, tok) = StepIn(vnodes, mounts, x, tok)
<1>1. \A x : IsDir(x) <=> DirIn(vnodes, x)
  BY DEF IsDir, DirIn
<1>2. \A x : IsCovered(x) <=> CoveredIn(vnodes, mounts, x)
  BY DEF IsCovered, CoveredIn
<1>3. \A x : IsMountRoot(x) <=> RootIn(vnodes, mounts, x)
  BY DEF IsMountRoot, RootIn
<1>4. \A x : Uppermost(x) = UppermostIn(vnodes, mounts, x)
  BY DEF Uppermost, UppermostIn, UpIn, IsCovered, CoveredIn, Vnodes
<1>5. \A x, tok : Lookup(x, tok) = LookupIn(vnodes, x, tok)
  BY DEF Lookup, LookupIn, NamedIn, Vnptr, VnptrIn, IsDir, DirIn
<1>6. \A x, tok : Step(x, tok) = StepIn(vnodes, mounts, x, tok)
  BY <1>3, <1>4, <1>5 DEF Step, StepIn, FromIn, Nowhere
<1> QED
  BY <1>1, <1>2, <1>3, <1>4, <1>5, <1>6

\* Walk unrolled, for the paths of one and of two components.
LEMMA WalkIs ==
  ASSUME NEW start, NEW path \in Paths
  PROVE  Walk(start, path) = WalkIn(vnodes, mounts, start, path)
<1> DEFINE Go(x, tok) == GoIn(vnodes, mounts, x, tok)
           At(f, i) == IF i = 0 THEN start ELSE Go(f[i - 1], path[i])
           Curr == CHOOSE f : f = [i \in 0..Len(path) |-> At(f, i)]
           a == Go(start, path[1])
           b == Go(a, path[2])
           g == [i \in 0..Len(path) |-> IF i = 0 THEN start ELSE IF i = 1 THEN a ELSE b]
<1>1. Walk(start, path) = Curr[Len(path)]
  BY OperatorsIn DEF Walk, GoIn, Vnodes
<1>2. Len(path) \in {1, 2}
  BY DEF Paths
<1>3. g = [i \in 0..Len(path) |-> At(g, i)]
  <2>1. g[0] = start /\ g[1] = a /\ (Len(path) = 2 => g[2] = b)
    BY <1>2
  <2>2. ASSUME NEW i \in 0..Len(path) PROVE g[i] = At(g, i)
    <3> HIDE DEF g, Go, At
    <3>1. i = 0 \/ i = 1 \/ (i = 2 /\ Len(path) = 2)
      <4>1. PICK n \in {1, 2} : n = Len(path)
        BY <1>2
      <4>2. i \in 0..n
        BY <4>1
      <4> QED
        BY <4>1, <4>2
    <3> USE DEF At
    <3> QED
      BY <2>1, <3>1
  <2>3. g = [i \in 0..Len(path) |-> g[i]]
    OBVIOUS
  <2> HIDE DEF g, At
  <2> QED
    BY <2>2, <2>3
<1>4. Curr = [i \in 0..Len(path) |-> At(Curr, i)]
  <2> HIDE DEF g, At
  <2> QED
    BY <1>3
<1>5. PICK f : f = Curr /\ \A i \in 0..Len(path) : f[i] = At(f, i)
  <2> HIDE DEF Curr, At
  <2> QED
    BY <1>4
<1>6. f[0] = start /\ f[1] = a /\ (Len(path) = 2 => f[2] = b)
  <2> HIDE DEF Curr, Go
  <2> QED
    BY <1>2, <1>5
<1> QED
  BY <1>1, <1>2, <1>5, <1>6 DEF WalkIn

(***************************************************************************)
(* Mounts on mounts: the vnode that a pointer leads to is younger.         *)
(***************************************************************************)
Rising(V, M) ==
  /\ Len(V) \in Nat
  /\ \A x \in 1..Len(V) : CoveredIn(V, M, x) => M[V[x].mount].root \in (x + 1)..Len(V)

LEMMA UpExists ==
  ASSUME NEW V, NEW M, Rising(V, M)
  PROVE  \E f : f = [x \in 1..Len(V) |-> UpIn(V, M, f, x)]
<1>1. PICK m \in Nat : m = Len(V)
  BY DEF Rising
<1>2. \A x \in 1..m : CoveredIn(V, M, x) => M[V[x].mount].root \in (x + 1)..m
  BY <1>1 DEF Rising
<1> DEFINE Dom(n) == (m + 1 - n)..m
           G == {n \in 0..m : \E f : f = [x \in Dom(n) |-> UpIn(V, M, f, x)]}
           Missing == 0..m \ G
<1>3. 0 \in G
  <2>1. Dom(0) = {}
    OBVIOUS
  <2> DEFINE f == [x \in Dom(0) |-> x]
  <2>2. f = [x \in Dom(0) |-> UpIn(V, M, f, x)]
    BY <2>1
  <2>3. 0 \in 0..m
    OBVIOUS
  <2> HIDE DEF f, Dom
  <2> QED
    BY <2>2, <2>3
<1>4. ASSUME NEW n \in 0..(m - 1), n \in G PROVE n + 1 \in G
  <2>1. PICK f : f = [x \in Dom(n) |-> UpIn(V, M, f, x)]
    BY <1>4
  <2> DEFINE k == m - n
             g == [x \in Dom(n + 1) |-> IF x = k THEN UpIn(V, M, f, x) ELSE f[x]]
  <2>2. /\ k \in 1..m /\ n + 1 \in 0..m
        /\ \A x \in Dom(n + 1) : x = k \/ x \in Dom(n)
        /\ \A x \in Dom(n) : x # k /\ x \in Dom(n + 1)
        /\ \A x \in Dom(n + 1) : x \in 1..m
        /\ \A x \in Dom(n + 1) : \A y \in (x + 1)..m : y \in Dom(n)
    OBVIOUS
  <2>3. \A x \in Dom(n) : g[x] = f[x]
    BY <2>2
  <2>4. ASSUME NEW x \in Dom(n + 1) PROVE UpIn(V, M, g, x) = UpIn(V, M, f, x)
    <3> HIDE DEF g, Dom
    <3>1. CoveredIn(V, M, x) => M[V[x].mount].root \in Dom(n)
      BY <1>2, <2>2
    <3> QED
      BY <2>3, <3>1 DEF UpIn
  <2>5. \A x \in Dom(n + 1) : g[x] = UpIn(V, M, f, x)
    BY <2>1, <2>2
  <2>6. g = [x \in Dom(n + 1) |-> UpIn(V, M, g, x)]
    <3>1. g = [x \in Dom(n + 1) |-> g[x]]
      OBVIOUS
    <3> HIDE DEF g, Dom
    <3> QED
      BY <2>4, <2>5, <3>1
  <2> QED
    BY <2>2, <2>6
<1>5. Missing = {}
  <2>1. SUFFICES ASSUME Missing # {} PROVE FALSE
    OBVIOUS
  <2>2. Missing \in SUBSET Nat
    OBVIOUS
  <2> HIDE DEF G
  <2>3. PICK n \in Missing : \A j \in Missing : n <= j
    BY <2>1, <2>2, LeastExists
  <2>4. n # 0 /\ n - 1 \in 0..(m - 1) /\ n - 1 \notin Missing /\ n - 1 + 1 = n
    BY <1>3, <2>3
  <2> QED
    BY <1>4, <2>3, <2>4
<1>6. m \in G
  BY <1>5
<1>7. PICK f : f = [x \in Dom(m) |-> UpIn(V, M, f, x)]
  BY <1>6
<1>8. Dom(m) = 1..Len(V)
  BY <1>1
<1> HIDE DEF Dom
<1> QED
  BY <1>7, <1>8

LEMMA UppermostStep ==
  ASSUME NEW V, NEW M, Rising(V, M), NEW x \in 1..Len(V)
  PROVE  UppermostIn(V, M, x) =
           IF CoveredIn(V, M, x) THEN UppermostIn(V, M, M[V[x].mount].root) ELSE x
<1> DEFINE Up == CHOOSE f : f = [w \in 1..Len(V) |-> UpIn(V, M, f, w)]
<1>1. Up = [w \in 1..Len(V) |-> UpIn(V, M, Up, w)]
  BY UpExists
<1>2. \A w : UppermostIn(V, M, w) = Up[w]
  BY DEF UppermostIn
<1>3. Up[x] = UpIn(V, M, Up, x)
  <2> HIDE DEF Up
  <2> QED
    BY <1>1
<1> HIDE DEF Up
<1> QED
  BY <1>2, <1>3 DEF UpIn

\* The uppermost vnode is one, and is not covered.
LEMMA UppermostIs ==
  ASSUME NEW V, NEW M, Rising(V, M), NEW x \in 1..Len(V)
  PROVE  /\ UppermostIn(V, M, x) \in 1..Len(V)
         /\ ~CoveredIn(V, M, UppermostIn(V, M, x))
<1>1. PICK m \in Nat : m = Len(V)
  BY DEF Rising
<1> DEFINE Fine(y) == /\ UppermostIn(V, M, y) \in 1..m
                      /\ ~CoveredIn(V, M, UppermostIn(V, M, y))
           Bad == {n \in 0..m : \E y \in 1..m : n = m - y /\ ~Fine(y)}
<1>2. Bad = {}
  <2>1. SUFFICES ASSUME Bad # {} PROVE FALSE
    OBVIOUS
  <2>2. Bad \in SUBSET Nat
    OBVIOUS
  <2>3. PICK n \in Bad : \A j \in Bad : n <= j
    <3> HIDE DEF Bad
    <3> QED
      BY <2>1, <2>2, LeastExists
  <2>4. PICK y \in 1..m : n = m - y /\ ~Fine(y)
    OBVIOUS
  <2> DEFINE z == M[V[y].mount].root
  <2>5. CASE CoveredIn(V, M, y)
    <3>1. z \in (y + 1)..m
      BY <1>1, <2>5 DEF Rising
    <3>2. UppermostIn(V, M, y) = UppermostIn(V, M, z)
      BY <1>1, <2>5, UppermostStep
    <3>3. PICK u \in 1..m : u = z /\ u > y /\ m - u \in 0..m /\ m - u < n
      BY <2>4, <3>1
    <3>4. Fine(z)
      <4>1. m - u \notin Bad
        <5> HIDE DEF Bad
        <5> QED
          BY <2>3, <2>4, <3>3
      <4> QED
        BY <3>3, <4>1
    <3> HIDE DEF Bad
    <3> QED
      BY <2>4, <3>2, <3>4
  <2>6. CASE ~CoveredIn(V, M, y)
    <3>1. UppermostIn(V, M, y) = y
      BY <1>1, <2>6, UppermostStep
    <3> HIDE DEF Bad
    <3> QED
      BY <2>4, <2>6, <3>1
  <2> QED
    BY <2>5, <2>6
<1>3. m - x \in 0..m
  BY <1>1
<1>4. Fine(x)
  BY <1>1, <1>2, <1>3
<1> QED
  BY <1>1, <1>4

\* What follows mounts upward is not changed where the mount pointers stay.
LEMMA UppermostKept ==
  ASSUME NEW V, NEW W, NEW M, Rising(V, M), Rising(W, M), Len(V) <= Len(W),
         \A x \in 1..Len(V) : W[x].mount = V[x].mount
  PROVE  \A x \in 1..Len(V) : UppermostIn(W, M, x) = UppermostIn(V, M, x)
<1>1. PICK m \in Nat : m = Len(V)
  BY DEF Rising
<1>2. \A x \in 1..m : x \in 1..Len(W)
  BY <1>1 DEF Rising
<1> DEFINE Same(y) == UppermostIn(W, M, y) = UppermostIn(V, M, y)
           Bad == {n \in 0..m : \E y \in 1..m : n = m - y /\ ~Same(y)}
<1>3. Bad = {}
  <2>1. SUFFICES ASSUME Bad # {} PROVE FALSE
    OBVIOUS
  <2>2. Bad \in SUBSET Nat
    OBVIOUS
  <2>3. PICK n \in Bad : \A j \in Bad : n <= j
    <3> HIDE DEF Bad
    <3> QED
      BY <2>1, <2>2, LeastExists
  <2>4. PICK y \in 1..m : n = m - y /\ ~Same(y)
    OBVIOUS
  <2> DEFINE z == M[V[y].mount].root
  <2>5. /\ CoveredIn(W, M, y) <=> CoveredIn(V, M, y)
        /\ M[W[y].mount].root = z
    BY <1>1 DEF CoveredIn
  <2>6. CASE CoveredIn(V, M, y)
    <3>1. z \in (y + 1)..m
      BY <1>1, <2>6 DEF Rising
    <3>2. UppermostIn(V, M, y) = UppermostIn(V, M, z) /\ UppermostIn(W, M, y) = UppermostIn(W, M, z)
      <4> HIDE DEF z
      <4> QED
        BY <1>1, <1>2, <2>5, <2>6, UppermostStep DEF z
    <3>3. PICK u \in 1..m : u = z /\ u > y /\ m - u \in 0..m /\ m - u < n
      BY SMTT(30), <2>4, <3>1
    <3>4. Same(z)
      <4>1. m - u \notin Bad
        <5> HIDE DEF Bad
        <5> QED
          BY SMTT(30), <2>3, <2>4, <3>3
      <4> QED
        BY <3>3, <4>1
    <3> HIDE DEF Bad
    <3> QED
      BY <2>4, <3>2, <3>4
  <2>7. CASE ~CoveredIn(V, M, y)
    <3>1. UppermostIn(V, M, y) = y /\ UppermostIn(W, M, y) = y
      BY <1>1, <1>2, <2>5, <2>7, UppermostStep
    <3> HIDE DEF Bad
    <3> QED
      BY <2>4, <3>1
  <2> QED
    BY <2>6, <2>7
<1>4. \A x \in 1..m : m - x \in 0..m
  OBVIOUS
<1>5. \A x \in 1..m : Same(x)
  BY <1>3, <1>4
<1> QED
  BY <1>1, <1>5

(***************************************************************************)
(* Vnodes and mounts that refer to each other.                             *)
(***************************************************************************)
Kinds == {"file", "directory", "unfinished"}

Labels == Names \cup {InitramfsName}

VnodeTypes(n, k) ==
  [type : Kinds, fs : {"tmpfs", "initramfs"}, parent : 1..n, mount : 0..k,
   subdirs : Seq([name : Labels, vnode : 1..n])]

\* Parents, entries and mounts are vnodes there are; a mount pointer leads to the same or to
\* a younger vnode, the root of a file system that was mounted later.
Tree(V, M) ==
  /\ V \in Seq(VnodeTypes(Len(V), Len(M))) /\ Len(V) >= 4
  /\ M \in Seq([root : 1..Len(V), covered : 1..Len(V)])
  /\ \A x \in 1..Len(V) : V[x].mount # NoMount => M[V[x].mount].root >= x

LEMMA TreeFacts ==
  ASSUME NEW V, NEW M, Tree(V, M)
  PROVE  /\ Rising(V, M) /\ Len(M) \in Nat
         /\ \A x \in 1..Len(V) : V[x] \in VnodeTypes(Len(V), Len(M))
         /\ \A i \in 1..Len(M) : M[i] \in [root : 1..Len(V), covered : 1..Len(V)]
<1>1. PICK n \in Nat, k \in Nat : n = Len(V) /\ k = Len(M)
  <2>1. PICK S, T : V \in Seq(S) /\ M \in Seq(T)
    BY DEF Tree
  <2> QED
    BY <2>1, LenProperties
<1>2. \A x \in 1..n : V[x] \in VnodeTypes(n, k)
  <2>1. V \in Seq(VnodeTypes(n, k))
    BY <1>1 DEF Tree
  <2> QED
    BY <1>1, <2>1, ElementOfSeq
<1>3. \A i \in 1..k : M[i] \in [root : 1..n, covered : 1..n]
  <2>1. M \in Seq([root : 1..n, covered : 1..n])
    BY <1>1 DEF Tree
  <2> QED
    BY <1>1, <2>1, ElementOfSeq
<1>4. Rising(V, M)
  <2>1. ASSUME NEW x \in 1..n, CoveredIn(V, M, x) PROVE M[V[x].mount].root \in (x + 1)..n
    <3>1. PICK i \in 1..k : i = V[x].mount
      BY <1>2, <2>1 DEF CoveredIn, VnodeTypes, NoMount
    <3>2. PICK y \in 1..n : y = M[i].root /\ y # x /\ y >= x
      BY <1>1, <1>3, <2>1, <3>1 DEF CoveredIn, Tree
    <3> QED
      BY <3>1, <3>2
  <2> QED
    BY <1>1, <2>1 DEF Rising
<1> QED
  BY <1>1, <1>2, <1>3, <1>4

LEMMA EntriesAre ==
  ASSUME NEW V, NEW M, Tree(V, M), NEW x \in 1..Len(V), NEW i \in DOMAIN V[x].subdirs
  PROVE  V[x].subdirs[i].vnode \in 1..Len(V) /\ V[x].subdirs[i].name \in Labels
<1>1. V[x].subdirs \in Seq([name : Labels, vnode : 1..Len(V)])
  <2>1. V[x] \in VnodeTypes(Len(V), Len(M))
    BY TreeFacts
  <2> QED
    BY <2>1 DEF VnodeTypes
<1>2. V[x].subdirs[i] \in [name : Labels, vnode : 1..Len(V)]
  <2>1. PICK s, R : s = V[x].subdirs /\ R = [name : Labels, vnode : 1..Len(V)] /\ s \in Seq(R)
    BY <1>1
  <2>2. i \in 1..Len(s)
    BY <2>1, LenProperties
  <2>3. s[i] \in R
    BY <2>1, <2>2, ElementOfSeq
  <2> QED
    BY <2>1, <2>3
<1> QED
  BY <1>2

LEMMA LookupIs ==
  ASSUME NEW V, NEW M, Tree(V, M), NEW x \in 1..Len(V), NEW tok
  PROVE  /\ LookupIn(V, x, tok) \in (1..Len(V)) \cup Nowhere
         /\ \A tok2 : FromIn(V, M, x, tok2) \in 1..Len(V)
         /\ tok \notin {".", ".."} /\ DirIn(V, x) /\ NamedIn(V, x, tok) # {} =>
              \E i \in DOMAIN V[x].subdirs :
                /\ V[x].subdirs[i].name = tok
                /\ \A j \in NamedIn(V, x, tok) : i <= j
                /\ LookupIn(V, x, tok) = VnptrIn(V, V[x].subdirs[i].vnode)
<1>1. PICK n \in Nat, k \in Nat : n = Len(V) /\ k = Len(M)
  BY TreeFacts DEF Rising
<1>2. V[x] \in VnodeTypes(n, k) /\ x \in 1..n
  BY <1>1, TreeFacts
<1>3. PICK s \in Seq([name : Labels, vnode : 1..n]) : s = V[x].subdirs
  BY <1>2 DEF VnodeTypes
<1>4. NamedIn(V, x, tok) \in SUBSET Nat /\ NamedIn(V, x, tok) \subseteq DOMAIN V[x].subdirs
  BY <1>3 DEF NamedIn
<1>5. ASSUME NamedIn(V, x, tok) # {}
      PROVE  /\ Min(NamedIn(V, x, tok)) \in NamedIn(V, x, tok)
             /\ \A j \in NamedIn(V, x, tok) : Min(NamedIn(V, x, tok)) <= j
  <2>1. \E y \in NamedIn(V, x, tok) : \A z \in NamedIn(V, x, tok) : y <= z
    BY <1>4, <1>5, LeastExists
  <2> QED
    BY <2>1 DEF Min
<1>6. LookupIn(V, x, tok) \in (1..n) \cup Nowhere
  <2>1. \A y \in 1..n : VnptrIn(V, y) \in (1..n) \cup Nowhere
    BY DEF VnptrIn, Nowhere
  <2>2. ASSUME NamedIn(V, x, tok) # {}
        PROVE  V[x].subdirs[Min(NamedIn(V, x, tok))].vnode \in 1..n
    <3>1. PICK i \in DOMAIN V[x].subdirs : i = Min(NamedIn(V, x, tok))
      BY <1>4, <1>5, <2>2
    <3> QED
      BY <1>1, <3>1, EntriesAre
  <2>3. V[x].parent \in 1..n /\ NoEntry \in Nowhere /\ Garbage \in Nowhere
    BY <1>2 DEF VnodeTypes, Nowhere
  <2> QED
    BY <1>2, <2>1, <2>2, <2>3 DEF LookupIn
<1>7. ASSUME NEW tok2 PROVE FromIn(V, M, x, tok2) \in 1..n
  <2>1. CASE RootIn(V, M, x)
    <3>1. V[x].mount \in 1..k
      BY <1>2, <2>1 DEF RootIn, VnodeTypes, NoMount
    <3>2. M[V[x].mount].covered \in 1..n
      BY <1>1, <3>1, TreeFacts
    <3> QED
      BY <1>2, <3>2 DEF FromIn
  <2> QED
    BY <1>2, <2>1 DEF FromIn
<1>8. ASSUME tok \notin {".", ".."}, DirIn(V, x), NamedIn(V, x, tok) # {}
      PROVE  \E i \in DOMAIN V[x].subdirs :
                /\ V[x].subdirs[i].name = tok
                /\ \A j \in NamedIn(V, x, tok) : i <= j
                /\ LookupIn(V, x, tok) = VnptrIn(V, V[x].subdirs[i].vnode)
  <2>1. LookupIn(V, x, tok) = VnptrIn(V, V[x].subdirs[Min(NamedIn(V, x, tok))].vnode)
    BY <1>8 DEF LookupIn
  <2>2. PICK i \in NamedIn(V, x, tok) : i = Min(NamedIn(V, x, tok)) /\ \A j \in NamedIn(V, x, tok) : i <= j
    BY <1>5, <1>8
  <2>3. i \in DOMAIN V[x].subdirs /\ V[x].subdirs[i].name = tok
    BY <2>2 DEF NamedIn
  <2> QED
    BY <2>1, <2>2, <2>3
<1> QED
  BY <1>1, <1>6, <1>7, <1>8

\* A lookup leads to a vnode, or nowhere.
LEMMA GoInside ==
  ASSUME NEW V, NEW M, Tree(V, M), NEW x \in (1..Len(V)) \cup Nowhere, NEW tok
  PROVE  GoIn(V, M, x, tok) \in (1..Len(V)) \cup Nowhere
<1>1. CASE x \notin 1..Len(V)
  BY <1>1 DEF GoIn
<1>2. CASE x \in 1..Len(V)
  <2>1. PICK y \in 1..Len(V) : y = FromIn(V, M, x, tok)
    BY <1>2, LookupIs
  <2>2. PICK z \in (1..Len(V)) \cup Nowhere : z = LookupIn(V, y, tok)
    BY <2>1, LookupIs
  <2>3. z \notin Nowhere => UppermostIn(V, M, z) \in 1..Len(V)
    BY TreeFacts, UppermostIs
  <2>4. StepIn(V, M, x, tok) \in (1..Len(V)) \cup Nowhere
    BY <2>1, <2>2, <2>3 DEF StepIn
  <2> QED
    BY <1>2, <2>4 DEF GoIn
<1> QED
  BY <1>1, <1>2

LEMMA WalkInside ==
  ASSUME NEW V, NEW M, Tree(V, M), NEW x \in 1..Len(V), NEW path
  PROVE  WalkIn(V, M, x, path) \in (1..Len(V)) \cup Nowhere
<1>1. GoIn(V, M, x, path[1]) \in (1..Len(V)) \cup Nowhere
  BY GoInside
<1>2. GoIn(V, M, GoIn(V, M, x, path[1]), path[2]) \in (1..Len(V)) \cup Nowhere
  BY <1>1, GoInside
<1> QED
  BY <1>1, <1>2 DEF WalkIn

(***************************************************************************)
(* Creating a name and mounting.                                           *)
(***************************************************************************)
\* V with a vnode of the kind ty, named a in d
Created(V, d, a, ty) ==
  Append([V EXCEPT ![d].subdirs = Append(@, [name |-> a, vnode |-> Len(V) + 1])],
         NewVnode(ty, "tmpfs", d, NoMount))

\* V with the mount m on top of the vnode u; its root does not say so yet
MountedAt(V, u, m) ==
  Append([V EXCEPT ![u].mount = m], NewVnode("directory", "tmpfs", Len(V) + 1, NoMount))

\* One vnode is written.
LEMMA WrittenIs ==
  ASSUME NEW V, NEW M, Tree(V, M), NEW z \in 1..Len(V), NEW e \in VnodeTypes(Len(V), Len(M)),
         e.mount # NoMount => M[e.mount].root >= z
  PROVE  LET W == [V EXCEPT ![z] = e]
         IN  /\ Len(W) = Len(V) /\ Tree(W, M)
             /\ W[z] = e /\ \A x \in 1..Len(V) : x # z => W[x] = V[x]
<1> DEFINE W == [V EXCEPT ![z] = e]
<1>1. PICK n \in Nat, k \in Nat : n = Len(V) /\ k = Len(M) /\ n >= 4
  BY TreeFacts DEF Rising, Tree
<1>2. PICK T : T = VnodeTypes(n, k)
  OBVIOUS
<1>3. V \in Seq(T) /\ e \in T /\ z \in 1..n
  BY <1>1, <1>2 DEF Tree
<1>4. W \in Seq(T) /\ Len(W) = n /\ W[z] = e /\ \A x \in 1..n : x # z => W[x] = V[x]
  BY <1>1, <1>3
<1> HIDE DEF W
<1>5. \A x \in 1..n : W[x].mount # NoMount => M[W[x].mount].root >= x
  <2>1. \A x \in 1..n : V[x].mount # NoMount => M[V[x].mount].root >= x
    BY <1>1 DEF Tree
  <2> QED
    BY <1>4, <2>1
<1>6. Tree(W, M)
  BY <1>1, <1>2, <1>4, <1>5 DEF Tree
<1> QED
  BY <1>1, <1>4, <1>6 DEF W

\* V with the vnode z, of the kind ty, written
Completed(V, z, ty) == [V EXCEPT ![z].type = ty]

\* V with the root r pointing to its mount m
Marked(V, r, m) == [V EXCEPT ![r].mount = m]

LEMMA CompletedIs ==
  ASSUME NEW V, NEW M, Tree(V, M), NEW z \in 1..Len(V), NEW ty \in Kinds
  PROVE  LET W == Completed(V, z, ty)
         IN  /\ Len(W) = Len(V) /\ Tree(W, M)
             /\ \A x \in 1..Len(V) : /\ W[x].parent = V[x].parent /\ W[x].mount = V[x].mount
                                     /\ W[x].subdirs = V[x].subdirs
                                     /\ x # z => W[x].type = V[x].type
<1> DEFINE e == [V[z] EXCEPT !.type = ty]
           W == [V EXCEPT ![z] = e]
<1>1. Completed(V, z, ty) = W
  BY DEF Completed
<1>2. V[z] \in VnodeTypes(Len(V), Len(M))
  BY TreeFacts
<1>3. /\ e \in VnodeTypes(Len(V), Len(M)) /\ e.mount = V[z].mount
      /\ e.parent = V[z].parent /\ e.subdirs = V[z].subdirs
  BY <1>2 DEF VnodeTypes
<1>4. V[z].mount # NoMount => M[V[z].mount].root >= z
  BY DEF Tree
<1> HIDE DEF e
<1>5. /\ Len(W) = Len(V) /\ Tree(W, M)
      /\ W[z] = e /\ \A x \in 1..Len(V) : x # z => W[x] = V[x]
  BY <1>3, <1>4, WrittenIs
<1> HIDE DEF W
<1> QED
  BY <1>1, <1>3, <1>5

LEMMA MarkedIs ==
  ASSUME NEW V, NEW M, Tree(V, M), NEW m \in 1..Len(M)
  PROVE  LET r == M[m].root
             W == Marked(V, r, m)
         IN  /\ r \in 1..Len(V) /\ Len(W) = Len(V) /\ Tree(W, M)
             /\ \A x \in 1..Len(V) : /\ W[x].type = V[x].type /\ W[x].parent = V[x].parent
                                     /\ W[x].mount = IF x = r THEN m ELSE V[x].mount
                                     /\ W[x].subdirs = V[x].subdirs
<1> DEFINE r == M[m].root
           e == [V[r] EXCEPT !.mount = m]
           W == [V EXCEPT ![r] = e]
<1>1. Marked(V, r, m) = W
  BY DEF Marked
<1>2. r \in 1..Len(V)
  BY TreeFacts
<1>3. V[r] \in VnodeTypes(Len(V), Len(M)) /\ m \in 0..Len(M)
  BY <1>2, TreeFacts
<1>4. /\ e \in VnodeTypes(Len(V), Len(M)) /\ e.mount = m
      /\ e.type = V[r].type /\ e.parent = V[r].parent /\ e.subdirs = V[r].subdirs
  BY <1>3 DEF VnodeTypes
<1>5. M[m].root >= r
  <2>1. Len(V) \in Nat
    BY TreeFacts DEF Rising
  <2> QED
    BY <1>2, <2>1
<1> HIDE DEF e
<1>6. /\ Len(W) = Len(V) /\ Tree(W, M)
      /\ W[r] = e /\ \A x \in 1..Len(V) : x # r => W[x] = V[x]
  BY <1>2, <1>4, <1>5, WrittenIs
<1> HIDE DEF W
<1> QED
  BY <1>1, <1>2, <1>4, <1>6

LEMMA CreatedIs ==
  ASSUME NEW V, NEW M, Tree(V, M), NEW d \in 1..Len(V), NEW a \in Labels, NEW ty \in Kinds
  PROVE  LET W == Created(V, d, a, ty)
         IN  /\ Len(W) = Len(V) + 1 /\ Tree(W, M)
             /\ \A x \in 1..Len(V) : /\ W[x].type = V[x].type /\ W[x].parent = V[x].parent
                                     /\ W[x].mount = V[x].mount
                                     /\ x # d => W[x].subdirs = V[x].subdirs
             /\ W[d].subdirs = Append(V[d].subdirs, [name |-> a, vnode |-> Len(V) + 1])
             /\ W[Len(V) + 1] = NewVnode(ty, "tmpfs", d, NoMount)
<1>1. PICK n \in Nat, k \in Nat : n = Len(V) /\ k = Len(M) /\ n >= 4
  BY TreeFacts DEF Rising, Tree
<1>2. /\ V \in Seq(VnodeTypes(n, k))
      /\ \A x \in 1..n : V[x] \in VnodeTypes(n, k) /\ V[x].subdirs \in Seq([name : Labels, vnode : 1..n])
      /\ M \in Seq([root : 1..n, covered : 1..n]) /\ d \in 1..n
  BY <1>1, TreeFacts DEF Tree, VnodeTypes
<1> DEFINE e == [name |-> a, vnode |-> n + 1]
           s == Append(V[d].subdirs, e)
           U == [V EXCEPT ![d].subdirs = s]
           new == NewVnode(ty, "tmpfs", d, NoMount)
           W == Append(U, new)
           T == VnodeTypes(n + 1, k)
<1>3. Created(V, d, a, ty) = W
  BY <1>1 DEF Created
<1>4. s \in Seq([name : Labels, vnode : 1..(n + 1)])
  <2>1. V[d].subdirs \in Seq([name : Labels, vnode : 1..(n + 1)])
    <3>1. [name : Labels, vnode : 1..n] \subseteq [name : Labels, vnode : 1..(n + 1)]
      OBVIOUS
    <3>2. V[d].subdirs \in Seq([name : Labels, vnode : 1..n])
      BY <1>2
    <3> HIDE DEF s, e
    <3> QED
      BY <3>1, <3>2, SeqMonotonic
  <2>2. e \in [name : Labels, vnode : 1..(n + 1)]
    OBVIOUS
  <2> HIDE DEF e
  <2> QED
    BY <2>1, <2>2
<1>5. \A x \in 1..n : V[x] \in T
  <2>1. [name : Labels, vnode : 1..n] \subseteq [name : Labels, vnode : 1..(n + 1)]
    OBVIOUS
  <2>2. Seq([name : Labels, vnode : 1..n]) \subseteq Seq([name : Labels, vnode : 1..(n + 1)])
    BY <2>1, SeqMonotonic
  <2>3. 1..n \subseteq 1..(n + 1)
    OBVIOUS
  <2>4. VnodeTypes(n, k) \subseteq T
    BY <2>2, <2>3 DEF VnodeTypes
  <2> QED
    BY <1>2, <2>4
<1>6. new \in T
  <2>1. <<>> \in Seq([name : Labels, vnode : 1..(n + 1)]) /\ d \in 1..(n + 1) /\ NoMount \in 0..k
    BY <1>2 DEF NoMount
  <2> QED
    BY <2>1 DEF NewVnode, VnodeTypes
<1>7. /\ \A x \in 1..n : x # d => U[x] = V[x]
      /\ U[d] = [V[d] EXCEPT !.subdirs = s]
      /\ U \in [1..n -> T]
  <2> HIDE DEF s
  <2>1. DOMAIN V = 1..n
    BY <1>1, <1>2
  <2>2. U = [x \in 1..n |-> IF x = d THEN [V[d] EXCEPT !.subdirs = s] ELSE V[x]]
    BY <2>1
  <2>3. [V[d] EXCEPT !.subdirs = s] \in T
    <3>1. V[d] \in T
      BY <1>2, <1>5
    <3> QED
      BY <1>4, <3>1 DEF VnodeTypes
  <2> HIDE DEF U, T
  <2> QED
    BY <1>2, <1>5, <2>2, <2>3
<1>8. U \in Seq(T) /\ Len(U) = n
  <2> HIDE DEF U, T
  <2> QED
    BY <1>7
<1>9. /\ W \in Seq(T) /\ Len(W) = n + 1
      /\ \A x \in 1..n : W[x] = U[x]
      /\ W[n + 1] = new
  <2> HIDE DEF U, T, new
  <2> QED
    BY <1>6, <1>8
<1>10. \A x \in 1..n : /\ W[x].type = V[x].type /\ W[x].parent = V[x].parent
                       /\ W[x].mount = V[x].mount
                       /\ x # d => W[x].subdirs = V[x].subdirs
                       /\ x = d => W[x].subdirs = s
  <2> HIDE DEF s, U, W
  <2>1. ASSUME NEW x \in 1..n, x # d PROVE W[x] = V[x]
    BY <1>7, <1>9, <2>1
  <2>2. W[d] = [V[d] EXCEPT !.subdirs = s]
    BY <1>2, <1>7, <1>9
  <2>3. V[d] \in VnodeTypes(n, k)
    BY <1>2
  <2>4. /\ W[d].type = V[d].type /\ W[d].parent = V[d].parent
        /\ W[d].mount = V[d].mount /\ W[d].subdirs = s
    BY <2>2, <2>3 DEF VnodeTypes
  <2> QED
    BY <2>1, <2>4
<1>11. Tree(W, M)
  <2> HIDE DEF s, U, W, new
  <2>1. M \in Seq([root : 1..(n + 1), covered : 1..(n + 1)])
    <3>1. [root : 1..n, covered : 1..n] \subseteq [root : 1..(n + 1), covered : 1..(n + 1)]
      OBVIOUS
    <3> QED
      BY <1>2, <3>1, SeqMonotonic
  <2>2. \A x \in 1..(n + 1) : W[x].mount # NoMount => M[W[x].mount].root >= x
    <3>1. W[n + 1].mount = NoMount
      BY <1>9 DEF new, NewVnode
    <3>2. \A x \in 1..n : V[x].mount # NoMount => M[V[x].mount].root >= x
      BY <1>1 DEF Tree
    <3>3. \A x \in 1..(n + 1) : x = n + 1 \/ x \in 1..n
      OBVIOUS
    <3> QED
      BY <1>10, <3>1, <3>2, <3>3
  <2> QED
    BY <1>1, <1>9, <2>1, <2>2 DEF Tree
<1> HIDE DEF s, U, W, new
<1> QED
  BY <1>1, <1>2, <1>3, <1>9, <1>10, <1>11 DEF new, s, e

LEMMA MountedIs ==
  ASSUME NEW V, NEW M, Tree(V, M), NEW t \in 1..Len(V), NEW u \in 1..Len(V), ~CoveredIn(V, M, u)
  PROVE  LET W == MountedAt(V, u, Len(M) + 1)
             N == Append(M, [root |-> Len(V) + 1, covered |-> t])
         IN  /\ Len(W) = Len(V) + 1 /\ Tree(W, N)
             /\ \A x \in 1..Len(V) : /\ W[x].type = V[x].type /\ W[x].parent = V[x].parent
                                     /\ W[x].mount = IF x = u THEN Len(M) + 1 ELSE V[x].mount
                                     /\ W[x].subdirs = V[x].subdirs
             /\ W[Len(V) + 1] = NewVnode("directory", "tmpfs", Len(V) + 1, NoMount)
             /\ Len(N) = Len(M) + 1
             /\ \A i \in 1..Len(M) : N[i] = M[i]
             /\ N[Len(M) + 1] = [root |-> Len(V) + 1, covered |-> t]
<1>1. PICK n \in Nat, k \in Nat : n = Len(V) /\ k = Len(M) /\ n >= 4
  BY TreeFacts DEF Rising, Tree
<1>2. /\ V \in Seq(VnodeTypes(n, k))
      /\ \A x \in 1..n : V[x] \in VnodeTypes(n, k)
      /\ M \in Seq([root : 1..n, covered : 1..n]) /\ u \in 1..n /\ t \in 1..n
  BY <1>1, TreeFacts DEF Tree
<1> DEFINE m == k + 1
           U == [V EXCEPT ![u].mount = m]
           new == NewVnode("directory", "tmpfs", n + 1, NoMount)
           W == Append(U, new)
           T == VnodeTypes(n + 1, m)
           R == [root : 1..(n + 1), covered : 1..(n + 1)]
           r == [root |-> n + 1, covered |-> t]
           N == Append(M, r)
<1>3. MountedAt(V, u, Len(M) + 1) = W /\ Append(M, [root |-> Len(V) + 1, covered |-> t]) = N
  BY <1>1 DEF MountedAt
<1>4. \A x \in 1..n : V[x] \in T
  <2>1. [name : Labels, vnode : 1..n] \subseteq [name : Labels, vnode : 1..(n + 1)]
    OBVIOUS
  <2>2. Seq([name : Labels, vnode : 1..n]) \subseteq Seq([name : Labels, vnode : 1..(n + 1)])
    BY <2>1, SeqMonotonic
  <2>3. 1..n \subseteq 1..(n + 1) /\ 0..k \subseteq 0..m
    OBVIOUS
  <2>4. VnodeTypes(n, k) \subseteq T
    BY <2>2, <2>3 DEF VnodeTypes
  <2> QED
    BY <1>2, <2>4
<1>5. new \in T
  <2>1. <<>> \in Seq([name : Labels, vnode : 1..(n + 1)]) /\ n + 1 \in 1..(n + 1) /\ NoMount \in 0..m
    BY DEF NoMount
  <2> HIDE DEF m
  <2> QED
    BY <2>1 DEF NewVnode, VnodeTypes, Kinds
<1>6. /\ \A x \in 1..n : x # u => U[x] = V[x]
      /\ U[u] = [V[u] EXCEPT !.mount = m]
      /\ U \in [1..n -> T]
  <2>1. m \in 0..m
    OBVIOUS
  <2> HIDE DEF m
  <2>2. DOMAIN V = 1..n
    BY <1>1, <1>2
  <2>3. U = [x \in 1..n |-> IF x = u THEN [V[u] EXCEPT !.mount = m] ELSE V[x]]
    BY <2>2
  <2>4. [V[u] EXCEPT !.mount = m] \in T
    <3>1. V[u] \in T
      BY <1>2, <1>4
    <3> QED
      BY <2>1, <3>1 DEF VnodeTypes
  <2> HIDE DEF U, T
  <2> QED
    BY <1>2, <1>4, <2>3, <2>4
<1>7. U \in Seq(T) /\ Len(U) = n
  <2> HIDE DEF U, T
  <2> QED
    BY <1>6
<1>8. /\ W \in Seq(T) /\ Len(W) = n + 1
      /\ \A x \in 1..n : W[x] = U[x]
      /\ W[n + 1] = new
  <2> HIDE DEF U, T, new
  <2> QED
    BY <1>5, <1>7
<1>9. \A x \in 1..n : /\ W[x].type = V[x].type /\ W[x].parent = V[x].parent
                      /\ W[x].subdirs = V[x].subdirs
                      /\ W[x].mount = IF x = u THEN m ELSE V[x].mount
  <2> HIDE DEF U, W, m
  <2>1. ASSUME NEW x \in 1..n, x # u PROVE W[x] = V[x]
    BY <1>6, <1>8, <2>1
  <2>2. W[u] = [V[u] EXCEPT !.mount = m]
    BY <1>2, <1>6, <1>8
  <2>3. V[u] \in VnodeTypes(n, k)
    BY <1>2
  <2>4. /\ W[u].type = V[u].type /\ W[u].parent = V[u].parent
        /\ W[u].subdirs = V[u].subdirs /\ W[u].mount = m
    BY <2>2, <2>3 DEF VnodeTypes
  <2> QED
    BY <2>1, <2>4
<1>10. /\ N \in Seq(R) /\ Len(N) = k + 1
       /\ \A i \in 1..k : N[i] = M[i]
       /\ N[k + 1] = r
  <2>1. [root : 1..n, covered : 1..n] \subseteq R
    OBVIOUS
  <2>2. r \in R
    BY <1>2
  <2> HIDE DEF R, r
  <2>3. M \in Seq(R)
    BY <1>2, <2>1, SeqMonotonic
  <2> QED
    BY <1>1, <2>2, <2>3
<1>11. Tree(W, N)
  <2> HIDE DEF U, W, N, new, r
  <2>1. ASSUME NEW x \in 1..(n + 1), W[x].mount # NoMount PROVE N[W[x].mount].root >= x
    <3>1. CASE x = n + 1
      <4>1. W[x].mount = NoMount
        BY <1>8, <3>1 DEF new, NewVnode
      <4> QED
        BY <2>1, <4>1
    <3>2. CASE x = u
      <4>1. W[x].mount = m
        BY <1>2, <1>9, <3>2
      <4> QED
        BY <1>2, <1>10, <3>2, <4>1 DEF r
    <3>3. CASE x \in 1..n /\ x # u
      <4>1. W[x].mount = V[x].mount
        BY <1>9, <3>3
      <4>2. V[x].mount \in 0..k
        BY <1>2, <3>3 DEF VnodeTypes
      <4>3. V[x].mount \in 1..k /\ M[V[x].mount].root >= x
        BY <1>1, <2>1, <3>3, <4>1, <4>2 DEF Tree, NoMount
      <4> QED
        BY <1>10, <4>1, <4>3
    <3> QED
      BY <3>1, <3>2, <3>3
  <2> HIDE DEF m
  <2>2. n + 1 >= 4
    BY <1>1
  <2> QED
    BY <1>8, <1>10, <2>1, <2>2 DEF Tree, m
<1> HIDE DEF U, W, N, new, r
<1> QED
  BY <1>1, <1>2, <1>3, <1>8, <1>9, <1>10, <1>11 DEF new, r

LEMMA MountedKeepsTypes ==
  ASSUME NEW V, NEW M, Tree(V, M), NEW u \in 1..Len(V), ~CoveredIn(V, M, u)
  PROVE  \A x \in 1..Len(V) : MountedAt(V, u, Len(M) + 1)[x].type = V[x].type
<1> DEFINE W == MountedAt(V, u, Len(M) + 1)
           N == Append(M, [root |-> Len(V) + 1, covered |-> u])
<1>1. /\ Len(W) = Len(V) + 1 /\ Tree(W, N)
      /\ \A x \in 1..Len(V) : /\ W[x].type = V[x].type /\ W[x].parent = V[x].parent
                              /\ W[x].mount = IF x = u THEN Len(M) + 1 ELSE V[x].mount
                              /\ W[x].subdirs = V[x].subdirs
  BY MountedIs
<1> QED
  BY <1>1

(***************************************************************************)
(* Every step keeps the tree.                                              *)
(***************************************************************************)
Creations(n) == [dir : 1..n, name : Names, type : Kinds, made : 0..n]

\* Tasks are in, create in, and mount, what there is.
VfsInv ==
  /\ Tree(vnodes, mounts)
  /\ cwd \in [Tasks -> 1..Len(vnodes)]
  /\ mounting \in [Tasks -> 0..Len(mounts)]
  /\ DOMAIN creating = Tasks
  /\ \A p \in Tasks : creating[p] # Nothing => creating[p] \in Creations(Len(vnodes))

LEMMA ReachedInside ==
  ASSUME VfsInv, NEW p \in Tasks
  PROVE  Reached(p) \subseteq 1..Len(vnodes)
<1>1. PICK n \in Nat : n = Len(vnodes) /\ Root \in 1..n /\ cwd[p] \in 1..n
  <2>1. Len(vnodes) \in Nat /\ Len(vnodes) >= 4
    BY TreeFacts DEF VfsInv, Rising, Tree
  <2> QED
    BY <2>1 DEF VfsInv, Root
<1>2. \A start \in 1..n, path \in Paths : Walk(start, path) \in (1..n) \cup Nowhere
  BY <1>1, WalkIs, WalkInside DEF VfsInv
<1> QED
  BY <1>1, <1>2 DEF Reached, Nowhere

\* What the steps of a creation and of a mount make of the tree.
LEMMA LinkIs ==
  ASSUME VfsInv, NEW p \in Tasks, Link(p)
  PROVE  \E d \in 1..Len(vnodes), a \in Names :
           vnodes' = Created(vnodes, d, a, "unfinished") /\ mounts' = mounts
<1>1. creating[p] \in Creations(Len(vnodes))
  BY DEF VfsInv, Link
<1>2. PICK c : c = creating[p]
  OBVIOUS
<1>3. vnodes' = Created(vnodes, c.dir, c.name, "unfinished") /\ mounts' = mounts
  BY <1>2 DEF Link, InsertLast, Created
<1> QED
  BY <1>1, <1>2, <1>3 DEF Creations

LEMMA CompleteIs ==
  ASSUME VfsInv, NEW p \in Tasks, Complete(p)
  PROVE  /\ creating[p].made \in 1..Len(vnodes) /\ creating[p].type \in Kinds
         /\ vnodes' = Completed(vnodes, creating[p].made, creating[p].type)
         /\ mounts' = mounts
<1>1. creating[p] \in Creations(Len(vnodes)) /\ creating[p].made # 0
  BY DEF VfsInv, Complete, NoEntry
<1>2. creating[p].made \in 1..Len(vnodes) /\ creating[p].type \in Kinds
  <2>1. Len(vnodes) \in Nat
    BY TreeFacts DEF VfsInv, Rising
  <2> QED
    BY <1>1, <2>1 DEF Creations
<1> QED
  BY <1>2 DEF Complete, Completed

LEMMA MountIs ==
  ASSUME VfsInv, NEW p \in Tasks, NEW t \in Reached(p), Mount(p, t)
  PROVE  /\ t \in 1..Len(vnodes) /\ Uppermost(t) \in 1..Len(vnodes)
         /\ ~CoveredIn(vnodes, mounts, Uppermost(t))
         /\ vnodes' = MountedAt(vnodes, Uppermost(t), Len(mounts) + 1)
         /\ mounts' = Append(mounts, [root |-> Len(vnodes) + 1, covered |-> t])
<1>1. t \in 1..Len(vnodes)
  BY ReachedInside
<1>2. Uppermost(t) \in 1..Len(vnodes) /\ ~CoveredIn(vnodes, mounts, Uppermost(t))
  BY <1>1, OperatorsIn, TreeFacts, UppermostIs DEF VfsInv
<1>3. /\ vnodes' = MountedAt(vnodes, Uppermost(t), Len(mounts) + 1)
      /\ mounts' = Append(mounts, [root |-> Len(vnodes) + 1, covered |-> t])
  BY DEF Mount, MountOn, MountedAt
<1> QED
  BY <1>1, <1>2, <1>3

LEMMA FinishMountIs ==
  ASSUME VfsInv, NEW p \in Tasks, FinishMount(p)
  PROVE  /\ mounting[p] \in 1..Len(mounts)
         /\ vnodes' = Marked(vnodes, mounts[mounting[p]].root, mounting[p])
         /\ mounts' = mounts
<1>1. mounting[p] \in 0..Len(mounts) /\ mounting[p] # 0
  BY DEF VfsInv, FinishMount, NoMount
<1>2. Len(mounts) \in Nat
  BY TreeFacts DEF VfsInv
<1> QED
  BY <1>1, <1>2 DEF FinishMount, MarkRoot, Marked

LEMMA VfsStart == VfsInit => VfsInv
<1> SUFFICES ASSUME VfsInit PROVE VfsInv
  OBVIOUS
<1> DEFINE a == CHOOSE n \in Names : TRUE
           s1 == <<[name |-> InitramfsName, vnode |-> 2]>>
           s3 == <<[name |-> a, vnode |-> 4]>>
           v1 == [type |-> "directory", fs |-> "tmpfs", parent |-> 1, mount |-> 0, subdirs |-> s1]
           v2 == [type |-> "directory", fs |-> "tmpfs", parent |-> 1, mount |-> 1, subdirs |-> <<>>]
           v3 == [type |-> "directory", fs |-> "initramfs", parent |-> 3, mount |-> 1, subdirs |-> s3]
           v4 == [type |-> "directory", fs |-> "initramfs", parent |-> 3, mount |-> 0, subdirs |-> <<>>]
<1>1. a \in Names
  BY VfsAssumption
<1>2. /\ vnodes = <<v1, v2, v3, v4>> /\ mounts = <<[root |-> 3, covered |-> 2]>>
      /\ cwd = [p \in Tasks |-> 1] /\ creating = [p \in Tasks |-> Nothing]
      /\ mounting = [p \in Tasks |-> 0]
  <2> HIDE DEF s1, s3
  <2>1. v1 = [NewVnode("directory", "tmpfs", Root, NoMount) EXCEPT !.subdirs = s1]
    BY DEF NewVnode, Root, NoMount
  <2>2. v2 = NewVnode("directory", "tmpfs", Root, 1)
    BY DEF NewVnode, Root
  <2>3. v3 = [NewVnode("directory", "initramfs", 3, 1) EXCEPT !.subdirs = s3]
    BY DEF NewVnode
  <2>4. v4 = NewVnode("directory", "initramfs", 3, NoMount)
    BY DEF NewVnode, NoMount
  <2>5. cwd = [p \in Tasks |-> 1] /\ creating = [p \in Tasks |-> Nothing]
        /\ mounts = <<[root |-> 3, covered |-> 2]>> /\ mounting = [p \in Tasks |-> 0]
    BY DEF VfsInit, Root, NoMount
  <2>6. vnodes = <<[NewVnode("directory", "tmpfs", Root, NoMount) EXCEPT !.subdirs = s1],
                   NewVnode("directory", "tmpfs", Root, 1),
                   [NewVnode("directory", "initramfs", 3, 1) EXCEPT !.subdirs = s3],
                   NewVnode("directory", "initramfs", 3, NoMount)>>
    BY DEF VfsInit, s1, s3, a
  <2> HIDE DEF v1, v2, v3, v4
  <2> QED
    BY <2>1, <2>2, <2>3, <2>4, <2>5, <2>6
<1> HIDE DEF a
<1>3. {v1, v2, v3, v4} \subseteq VnodeTypes(4, 1)
  <2> DEFINE E == [name : Labels, vnode : 1..4]
  <2>1. [name |-> InitramfsName, vnode |-> 2] \in E /\ [name |-> a, vnode |-> 4] \in E
    BY <1>1 DEF Labels
  <2> HIDE DEF E
  <2>2. s1 \in Seq(E) /\ s3 \in Seq(E) /\ <<>> \in Seq(E)
    BY <2>1
  <2> USE DEF E
  <2> HIDE DEF s1, s3
  <2> QED
    BY <2>2 DEF VnodeTypes, Kinds
<1>4. Len(vnodes) = 4 /\ Len(mounts) = 1 /\ mounts[1] = [root |-> 3, covered |-> 2]
  BY <1>2
<1>5. vnodes \in Seq(VnodeTypes(4, 1))
  <2>1. PICK T : T = VnodeTypes(4, 1)
    OBVIOUS
  <2>2. v1 \in T /\ v2 \in T /\ v3 \in T /\ v4 \in T
    BY <1>3, <2>1
  <2> HIDE DEF v1, v2, v3, v4
  <2>3. <<v1, v2, v3, v4>> \in Seq(T)
    BY <2>2
  <2> QED
    BY <1>2, <2>1, <2>3
<1>6. mounts \in Seq([root : 1..4, covered : 1..4])
  <2>1. [root |-> 3, covered |-> 2] \in [root : 1..4, covered : 1..4]
    OBVIOUS
  <2> QED
    BY <1>2, <2>1
<1>7. \A x \in 1..4 : vnodes[x].mount # NoMount => mounts[vnodes[x].mount].root >= x
  <2>1. vnodes[1].mount = 0 /\ vnodes[2].mount = 1 /\ vnodes[3].mount = 1 /\ vnodes[4].mount = 0
    BY <1>2
  <2>2. \A x \in 1..4 : x \in {1, 2, 3, 4}
    OBVIOUS
  <2> QED
    BY <1>4, <2>1, <2>2 DEF NoMount
<1>8. Tree(vnodes, mounts)
  BY <1>4, <1>5, <1>6, <1>7 DEF Tree
<1>9. /\ cwd \in [Tasks -> 1..4] /\ mounting \in [Tasks -> 0..1] /\ DOMAIN creating = Tasks
      /\ \A p \in Tasks : creating[p] = Nothing
  BY <1>2
<1> QED
  BY <1>4, <1>8, <1>9 DEF VfsInv

\* Tasks keep pointing into a tree that grows.
LEMMA InvGrows ==
  ASSUME VfsInv, Tree(vnodes', mounts'),
         Len(vnodes') \in {Len(vnodes), Len(vnodes) + 1}, Len(mounts') \in {Len(mounts), Len(mounts) + 1},
         cwd' = cwd, DOMAIN creating' = Tasks,
         mounting' = mounting \/ mounting' \in [Tasks -> 0..Len(mounts')],
         \A p \in Tasks : \/ creating'[p] = creating[p] \/ creating'[p] = Nothing
                          \/ creating'[p] \in Creations(Len(vnodes'))
  PROVE  VfsInv'
<1>1. PICK n \in Nat, m \in Nat : n = Len(vnodes) /\ m = Len(vnodes') /\ n <= m
  BY TreeFacts DEF VfsInv, Rising
<1>2. PICK k \in Nat, l \in Nat : k = Len(mounts) /\ l = Len(mounts') /\ k <= l
  BY TreeFacts DEF VfsInv
<1>3. Creations(n) \subseteq Creations(m)
  BY <1>1 DEF Creations
<1>4. \A p \in Tasks : creating'[p] # Nothing => creating'[p] \in Creations(m)
  BY <1>1, <1>3 DEF VfsInv
<1>5. cwd' \in [Tasks -> 1..m]
  <2>1. 1..n \subseteq 1..m
    BY <1>1
  <2> QED
    BY <1>1, <2>1 DEF VfsInv
<1>6. mounting' \in [Tasks -> 0..l]
  <2>1. 0..k \subseteq 0..l
    BY <1>2
  <2> QED
    BY <1>2, <2>1 DEF VfsInv
<1> QED
  BY <1>1, <1>2, <1>4, <1>5, <1>6 DEF VfsInv

LEMMA VfsStep == VfsInv /\ [VfsNext]_vfsVars => VfsInv'
<1> SUFFICES ASSUME VfsInv, [VfsNext]_vfsVars PROVE VfsInv'
  OBVIOUS
<1>0. /\ Tree(vnodes, mounts) /\ Len(vnodes) \in Nat /\ Len(mounts) \in Nat
      /\ DOMAIN creating = Tasks /\ mounting \in [Tasks -> 0..Len(mounts)]
  BY TreeFacts DEF VfsInv, Rising
<1>1. CASE UNCHANGED vfsVars
  BY <1>1 DEF vfsVars, VfsInv
<1>2. ASSUME NEW p \in Tasks, Link(p) PROVE VfsInv'
  <2>1. PICK d \in 1..Len(vnodes), a \in Names :
          vnodes' = Created(vnodes, d, a, "unfinished") /\ mounts' = mounts
    BY <1>2, LinkIs
  <2>2. Len(vnodes') = Len(vnodes) + 1 /\ Tree(vnodes', mounts')
    BY <1>0, <2>1, CreatedIs DEF Labels, Kinds
  <2>3. [creating[p] EXCEPT !.made = Len(vnodes) + 1] \in Creations(Len(vnodes'))
    <3>1. creating[p] \in Creations(Len(vnodes))
      BY <1>2 DEF Link, VfsInv
    <3>2. PICK n \in Nat : n = Len(vnodes) /\ Len(vnodes') = n + 1
      BY <1>0, <2>2
    <3> QED
      BY <3>1, <3>2 DEF Creations
  <2>4. /\ UNCHANGED <<mounts, cwd, mounting>> /\ DOMAIN creating' = Tasks
        /\ \A q \in Tasks : \/ creating'[q] = creating[q]
                            \/ creating'[q] = [creating[p] EXCEPT !.made = Len(vnodes) + 1]
    BY <1>0, <1>2 DEF Link
  <2> QED
    BY <2>2, <2>3, <2>4, InvGrows
<1>3. ASSUME NEW p \in Tasks, Complete(p) PROVE VfsInv'
  <2>1. Len(vnodes') = Len(vnodes) /\ Tree(vnodes', mounts')
    BY <1>0, <1>3, CompleteIs, CompletedIs
  <2>2. /\ UNCHANGED <<mounts, cwd, mounting>> /\ DOMAIN creating' = Tasks
        /\ \A q \in Tasks : creating'[q] = creating[q] \/ creating'[q] = Nothing
    BY <1>0, <1>3 DEF Complete
  <2> QED
    BY <2>1, <2>2, InvGrows
<1>4. ASSUME NEW p \in Tasks, FinishMount(p) PROVE VfsInv'
  <2>1. Len(vnodes') = Len(vnodes) /\ Tree(vnodes', mounts')
    <3>1. PICK m \in 1..Len(mounts) :
            vnodes' = Marked(vnodes, mounts[m].root, m) /\ mounts' = mounts
      BY <1>4, FinishMountIs
    <3>2. Len(Marked(vnodes, mounts[m].root, m)) = Len(vnodes)
          /\ Tree(Marked(vnodes, mounts[m].root, m), mounts)
      BY <1>0, MarkedIs
    <3> QED
      BY <3>1, <3>2
  <2>2. UNCHANGED <<mounts, cwd, creating>> /\ mounting' \in [Tasks -> 0..Len(mounts')]
    <3>1. NoMount \in 0..Len(mounts)
      BY <1>0 DEF NoMount
    <3> QED
      BY <1>0, <1>4, <3>1 DEF FinishMount
  <2> QED
    BY <1>0, <2>1, <2>2, InvGrows
<1>5. ASSUME NEW p \in Tasks, NEW t \in Reached(p), Chdir(p, t) PROVE VfsInv'
  <2>1. t \in 1..Len(vnodes)
    BY ReachedInside
  <2>2. cwd' \in [Tasks -> 1..Len(vnodes)] /\ UNCHANGED <<vnodes, mounts, creating, mounting>>
    BY <1>5, <2>1 DEF Chdir, VfsInv
  <2> QED
    BY <2>2 DEF VfsInv
<1>6. ASSUME NEW p \in Tasks, NEW t \in Reached(p), Mount(p, t) PROVE VfsInv'
  <2>1. /\ t \in 1..Len(vnodes) /\ Uppermost(t) \in 1..Len(vnodes)
        /\ ~CoveredIn(vnodes, mounts, Uppermost(t))
        /\ vnodes' = MountedAt(vnodes, Uppermost(t), Len(mounts) + 1)
        /\ mounts' = Append(mounts, [root |-> Len(vnodes) + 1, covered |-> t])
    BY <1>6, MountIs
  <2>2. /\ Len(vnodes') = Len(vnodes) + 1 /\ Tree(vnodes', mounts')
        /\ Len(mounts') = Len(mounts) + 1
    BY <1>0, <2>1, MountedIs
  <2>3. cwd' = cwd /\ creating' = creating /\ mounting' \in [Tasks -> 0..Len(mounts')]
    <3>1. PICK k \in Nat : k = Len(mounts)
      BY <1>0
    <3>2. mounting' = [mounting EXCEPT ![p] = k + 1] /\ mounting \in [Tasks -> 0..k]
      BY <1>0, <1>6, <3>1 DEF Mount
    <3>3. mounting' \in [Tasks -> 0..(k + 1)]
      BY <3>2
    <3> QED
      BY <1>6, <2>2, <3>1, <3>3 DEF Mount
  <2> QED
    BY <1>0, <2>2, <2>3, InvGrows
<1>7. ASSUME NEW p \in Tasks, NEW d \in ReachedDirs(p), NEW a \in Names, NEW ty \in Kinds,
             BeginCreate(p, d, a, ty)
      PROVE  VfsInv'
  <2> DEFINE c == [dir |-> d, name |-> a, type |-> ty, made |-> NoEntry]
  <2>1. d \in 1..Len(vnodes)
    BY ReachedInside DEF ReachedDirs
  <2>2. c \in Creations(Len(vnodes))
    BY <1>0, <2>1 DEF Creations, NoEntry
  <2>3. /\ UNCHANGED <<vnodes, mounts, cwd, mounting>> /\ DOMAIN creating' = Tasks
        /\ \A q \in Tasks : creating'[q] = creating[q] \/ creating'[q] = c
    BY <1>0, <1>7 DEF BeginCreate
  <2> HIDE DEF c
  <2> QED
    BY <2>2, <2>3 DEF VfsInv
<1> QED
  BY <1>1, <1>2, <1>3, <1>4, <1>5, <1>6, <1>7 DEF VfsNext, Kinds

LEMMA VfsInvariance == VfsSpec => []VfsInv
  BY VfsStart, VfsStep, PTL DEF VfsSpec

(***************************************************************************)
(* Paths while names are created.                                          *)
(***************************************************************************)
\* What creating leaves: parents, mounts, what is written already, and the order of the
\* entries, which a new one follows.
Grown(V, W) ==
  /\ Len(W) \in {Len(V), Len(V) + 1}
  /\ \A x \in 1..Len(V) :
       /\ W[x].parent = V[x].parent /\ W[x].mount = V[x].mount
       /\ V[x].type # "unfinished" => W[x].type = V[x].type
       /\ W[x].subdirs = V[x].subdirs \/ \E e : W[x].subdirs = Append(V[x].subdirs, e)

LEMMA CreatedTypes ==
  ASSUME NEW V, NEW M, Tree(V, M), NEW d \in 1..Len(V), NEW a \in Labels, NEW ty \in Kinds
  PROVE  /\ \A x \in 1..Len(V) : Created(V, d, a, ty)[x].type = V[x].type
         /\ Created(V, d, a, ty)[Len(V) + 1] = NewVnode(ty, "tmpfs", d, NoMount)
<1> DEFINE W == Created(V, d, a, ty)
<1>1. /\ Len(W) = Len(V) + 1 /\ Tree(W, M)
      /\ \A x \in 1..Len(V) : /\ W[x].type = V[x].type /\ W[x].parent = V[x].parent
                              /\ W[x].mount = V[x].mount
                              /\ x # d => W[x].subdirs = V[x].subdirs
      /\ W[d].subdirs = Append(V[d].subdirs, [name |-> a, vnode |-> Len(V) + 1])
      /\ W[Len(V) + 1] = NewVnode(ty, "tmpfs", d, NoMount)
  BY CreatedIs
<1> QED
  BY <1>1

LEMMA CreatedGrows ==
  ASSUME NEW V, NEW M, Tree(V, M), NEW d \in 1..Len(V), NEW a \in Labels, NEW ty \in Kinds
  PROVE  Grown(V, Created(V, d, a, ty)) /\ Tree(Created(V, d, a, ty), M)
<1> DEFINE W == Created(V, d, a, ty)
<1>1. /\ Len(W) = Len(V) + 1 /\ Tree(W, M)
      /\ \A x \in 1..Len(V) : /\ W[x].type = V[x].type /\ W[x].parent = V[x].parent
                              /\ W[x].mount = V[x].mount
                              /\ x # d => W[x].subdirs = V[x].subdirs
      /\ W[d].subdirs = Append(V[d].subdirs, [name |-> a, vnode |-> Len(V) + 1])
  BY CreatedIs
<1> HIDE DEF W
<1>2. \A x \in 1..Len(V) :
        W[x].subdirs = V[x].subdirs \/ \E e : W[x].subdirs = Append(V[x].subdirs, e)
  BY <1>1
<1>3. Grown(V, W)
  BY <1>1, <1>2 DEF Grown
<1> QED
  BY <1>1, <1>3 DEF W

LEMMA CompletedGrows ==
  ASSUME NEW V, NEW M, Tree(V, M), NEW z \in 1..Len(V), V[z].type = "unfinished", NEW ty \in Kinds
  PROVE  Grown(V, Completed(V, z, ty)) /\ Tree(Completed(V, z, ty), M)
<1> DEFINE W == Completed(V, z, ty)
<1>1. /\ Len(W) = Len(V) /\ Tree(W, M)
      /\ \A x \in 1..Len(V) : /\ W[x].parent = V[x].parent /\ W[x].mount = V[x].mount
                              /\ W[x].subdirs = V[x].subdirs
                              /\ x # z => W[x].type = V[x].type
  BY CompletedIs
<1> HIDE DEF W
<1>2. Grown(V, W)
  BY <1>1 DEF Grown
<1> QED
  BY <1>1, <1>2 DEF W

\* A vnode that is found stays found.
LEMMA LookupKept ==
  ASSUME NEW V, NEW W, NEW M, Tree(V, M), Tree(W, M), Grown(V, W),
         NEW x \in 1..Len(V), NEW tok, LookupIn(V, x, tok) \notin Nowhere
  PROVE  LookupIn(W, x, tok) = LookupIn(V, x, tok)
<1>1. PICK n \in Nat, k \in Nat : n = Len(V) /\ k = Len(M) /\ x \in 1..n /\ x \in 1..Len(W)
  <2>1. Len(V) \in Nat /\ Len(M) \in Nat
    BY TreeFacts DEF Rising
  <2>2. x \in 1..Len(W)
    BY <2>1 DEF Grown
  <2> QED
    BY <2>1, <2>2
<1>2. \A y \in 1..n : V[y].type # "unfinished" => W[y].type = V[y].type
  BY <1>1 DEF Grown
<1>found. \A y \in 1..n : VnptrIn(V, y) \notin Nowhere => VnptrIn(W, y) = VnptrIn(V, y)
  BY <1>2 DEF VnptrIn, Nowhere
<1>3. CASE tok = "."
  BY <1>3 DEF LookupIn
<1>4. ASSUME tok # "." PROVE DirIn(V, x) /\ DirIn(W, x)
  <2>1. V[x].type = "directory"
    BY <1>4 DEF LookupIn, DirIn, Nowhere
  <2>2. W[x].type = V[x].type
    <3>1. V[x].type # "unfinished"
      BY <2>1
    <3> QED
      BY <1>1, <1>2, <3>1
  <2> QED
    BY <2>1, <2>2 DEF DirIn
<1>5. CASE tok = ".."
  <2>1. V[x].parent \in 1..n
    BY <1>1, TreeFacts DEF VnodeTypes
  <2>2. W[x].parent = V[x].parent
    BY <1>1 DEF Grown
  <2>3. LookupIn(V, x, tok) = VnptrIn(V, V[x].parent) /\ LookupIn(W, x, tok) = VnptrIn(W, W[x].parent)
    <3>1. ".." # "."
      OBVIOUS
    <3> QED
      BY <1>4, <1>5, <3>1 DEF LookupIn
  <2>4. VnptrIn(W, V[x].parent) = VnptrIn(V, V[x].parent)
    BY <1>found, <2>1, <2>3
  <2> QED
    BY <2>2, <2>3, <2>4
<1>6. CASE tok \notin {".", ".."}
  <2>1. NamedIn(V, x, tok) # {}
    BY <1>4, <1>6 DEF LookupIn, Nowhere
  <2>2. PICK s \in Seq([name : Labels, vnode : 1..n]) : s = V[x].subdirs
    <3>1. V[x] \in VnodeTypes(n, k)
      BY <1>1, TreeFacts
    <3> QED
      BY <3>1 DEF VnodeTypes
  <2>3. PICK l \in Nat : l = Len(s) /\ DOMAIN s = 1..l
    BY <2>2
  <2>4. PICK i \in 1..l : /\ s[i].name = tok /\ s[i].vnode \in 1..n
                          /\ \A j \in NamedIn(V, x, tok) : i <= j
                          /\ LookupIn(V, x, tok) = VnptrIn(V, s[i].vnode)
    BY <1>1, <1>4, <1>6, <2>1, <2>2, <2>3, LookupIs, EntriesAre
  <2>5. PICK r : /\ r = W[x].subdirs
                 /\ \/ r = s
                    \/ DOMAIN r = 1..(l + 1) /\ \A j \in 1..l : r[j] = s[j]
    <3>1. CASE W[x].subdirs = s
      BY <3>1
    <3>2. ASSUME NEW e, W[x].subdirs = Append(s, e)
          PROVE  DOMAIN W[x].subdirs = 1..(l + 1) /\ \A j \in 1..l : W[x].subdirs[j] = s[j]
      <4>1. PICK T : s \in Seq(T) /\ e \in T
        <5>1. s \in Seq([name : Labels, vnode : 1..n] \cup {e})
          BY SeqMonotonic
        <5> QED
          BY <5>1
      <4> QED
        BY <2>3, <3>2, <4>1
    <3>3. W[x].subdirs = s \/ \E e : W[x].subdirs = Append(s, e)
      BY <1>1, <2>2 DEF Grown
    <3> QED
      BY <3>1, <3>2, <3>3
  <2>6. i \in NamedIn(W, x, tok) /\ \A j \in NamedIn(W, x, tok) : i <= j
    <3>1. i \in NamedIn(W, x, tok)
      BY <2>3, <2>4, <2>5 DEF NamedIn
    <3>2. ASSUME NEW j \in NamedIn(W, x, tok) PROVE i <= j
      <4>1. r[j].name = tok /\ (j \in 1..l \/ j = l + 1)
        <5>1. j \in DOMAIN r /\ r[j].name = tok
          BY <2>5 DEF NamedIn
        <5>2. DOMAIN r = 1..l \/ DOMAIN r = 1..(l + 1)
          BY <2>3, <2>5
        <5>3. j \in 1..l \/ j \in 1..(l + 1)
          BY <5>1, <5>2
        <5>4. \A m \in 1..(l + 1) : m \in 1..l \/ m = l + 1
          OBVIOUS
        <5> QED
          BY <5>1, <5>3, <5>4
      <4>2. CASE j \in 1..l
        <5>1. j \in NamedIn(V, x, tok)
          BY <2>2, <2>3, <2>5, <4>1, <4>2 DEF NamedIn
        <5> QED
          BY <2>4, <5>1
      <4> QED
        BY <4>1, <4>2
    <3> QED
      BY <3>1, <3>2
  <2>7. PICK y \in NamedIn(W, x, tok) : /\ \A j \in NamedIn(W, x, tok) : y <= j
                                       /\ LookupIn(W, x, tok) = VnptrIn(W, r[y].vnode)
    <3>1. PICK y \in DOMAIN W[x].subdirs :
            /\ W[x].subdirs[y].name = tok
            /\ \A j \in NamedIn(W, x, tok) : y <= j
            /\ LookupIn(W, x, tok) = VnptrIn(W, W[x].subdirs[y].vnode)
      BY <1>1, <1>4, <1>6, <2>6, LookupIs
    <3> QED
      BY <2>5, <3>1 DEF NamedIn
  <2>8. y = i
    <3>1. y \in Nat
      BY <2>3, <2>5 DEF NamedIn
    <3> QED
      BY <2>6, <2>7, <3>1
  <2>9. r[i] = s[i]
    BY <2>5
  <2> QED
    <3>1. VnptrIn(V, s[i].vnode) \notin Nowhere /\ r[y].vnode = s[i].vnode
      BY <2>4, <2>8, <2>9
    <3>2. VnptrIn(W, s[i].vnode) = VnptrIn(V, s[i].vnode)
      BY <1>found, <2>4, <3>1
    <3> QED
      BY <2>4, <2>7, <3>1, <3>2
<1> QED
  BY <1>3, <1>5, <1>6

LEMMA GoKept ==
  ASSUME NEW V, NEW W, NEW M, Tree(V, M), Tree(W, M), Grown(V, W),
         NEW x \in (1..Len(V)) \cup Nowhere, NEW tok, GoIn(V, M, x, tok) \notin Nowhere
  PROVE  GoIn(W, M, x, tok) = GoIn(V, M, x, tok)
<1>1. PICK n \in Nat : n = Len(V) /\ \A y \in 1..n : y \in 1..Len(W)
  <2>1. Len(V) \in Nat
    BY TreeFacts DEF Rising
  <2>2. \A y \in 1..Len(V) : y \in 1..Len(W)
    BY <2>1 DEF Grown
  <2> QED
    BY <2>1, <2>2
<1>2. \A y \in 1..n : W[y].mount = V[y].mount
  BY <1>1 DEF Grown
<1>3. /\ GoIn(V, M, x, tok) = StepIn(V, M, x, tok) /\ x \in 1..n
      /\ GoIn(W, M, x, tok) = StepIn(W, M, x, tok)
  BY <1>1 DEF GoIn
<1>4. FromIn(W, M, x, tok) = FromIn(V, M, x, tok)
  BY <1>2, <1>3 DEF FromIn, RootIn
<1>5. PICK y \in 1..Len(V) : y = FromIn(V, M, x, tok)
  BY <1>1, <1>3, LookupIs
<1>6. LookupIn(V, y, tok) \notin Nowhere
  BY <1>3, <1>5 DEF StepIn
<1>7. LookupIn(W, y, tok) = LookupIn(V, y, tok) /\ LookupIn(V, y, tok) \in 1..n
  BY <1>1, <1>6, LookupIs, LookupKept
<1>8. \A z \in 1..n : UppermostIn(W, M, z) = UppermostIn(V, M, z)
  <2>1. Rising(V, M) /\ Rising(W, M)
    BY TreeFacts
  <2>2. Len(V) <= Len(W)
    BY <1>1 DEF Grown
  <2> QED
    BY <1>1, <1>2, <2>1, <2>2, UppermostKept
<1>9. StepIn(W, M, x, tok) = StepIn(V, M, x, tok)
  BY <1>4, <1>5, <1>7, <1>8 DEF StepIn
<1> QED
  BY <1>3, <1>9

LEMMA WalkKept ==
  ASSUME NEW V, NEW W, NEW M, Tree(V, M), Tree(W, M), Grown(V, W),
         NEW x \in 1..Len(V), NEW path, WalkIn(V, M, x, path) \notin Nowhere
  PROVE  WalkIn(W, M, x, path) = WalkIn(V, M, x, path)
<1>1. PICK y \in (1..Len(V)) \cup Nowhere : y = GoIn(V, M, x, path[1])
  BY GoInside
<1>2. Len(V) \in Nat /\ 0 \notin 1..Len(V) /\ -1 \notin 1..Len(V)
  BY TreeFacts DEF Rising
<1>3. y \notin Nowhere /\ (Len(path) # 1 => GoIn(V, M, y, path[2]) \notin Nowhere)
  BY <1>1, <1>2 DEF WalkIn, GoIn, Nowhere, NoEntry, Garbage
<1>4. GoIn(W, M, x, path[1]) = y
  BY <1>1, <1>3, GoKept
<1>5. Len(path) # 1 => GoIn(W, M, y, path[2]) = GoIn(V, M, y, path[2])
  BY <1>3, GoKept
<1> QED
  BY <1>1, <1>4, <1>5 DEF WalkIn

LEMMA WalksAre == \A path \in Paths : Walk(Root, path) = WalkIn(vnodes, mounts, Root, path)
  BY WalkIs

LEMMA WalksAreLater ==
  \A path \in Paths : Walk(Root, path)' = WalkIn(vnodes', mounts', Root, path)
<1>1. (\A path \in Paths : Walk(Root, path) = WalkIn(vnodes, mounts, Root, path))'
  BY WalksAre, PTL
<1> QED
  BY <1>1

\* Every task writes a vnode of its own, which nobody has written yet.
Linked(p) == creating[p] # Nothing /\ creating[p].made # NoEntry

MadeInv ==
  /\ VfsInv
  /\ \A p \in Tasks : Linked(p) => vnodes[creating[p].made].type = "unfinished"
  /\ \A p, q \in Tasks : Linked(p) /\ Linked(q) /\ creating[p].made = creating[q].made => p = q

LEMMA MadeStart == VfsInit => MadeInv
  BY VfsStart DEF VfsInit, MadeInv, Linked

LEMMA MadeStep == MadeInv /\ [VfsNext]_vfsVars => MadeInv'
<1> SUFFICES ASSUME MadeInv, [VfsNext]_vfsVars
             PROVE  /\ \A p \in Tasks : Linked(p)' => vnodes'[creating'[p].made].type = "unfinished"
                    /\ \A p, q \in Tasks :
                         Linked(p)' /\ Linked(q)' /\ creating'[p].made = creating'[q].made => p = q
  BY VfsStep DEF MadeInv
<1>1. /\ Tree(vnodes, mounts) /\ Len(vnodes) \in Nat /\ DOMAIN creating = Tasks
      /\ \A p \in Tasks : Linked(p) => creating[p].made \in 1..Len(vnodes)
  <2>1. VfsInv /\ Tree(vnodes, mounts) /\ Len(vnodes) \in Nat /\ DOMAIN creating = Tasks
    BY TreeFacts DEF MadeInv, VfsInv, Rising
  <2>2. ASSUME NEW p \in Tasks, Linked(p) PROVE creating[p].made \in 1..Len(vnodes)
    <3>1. creating[p].made \in 0..Len(vnodes) /\ creating[p].made # 0
      BY <2>1, <2>2 DEF Linked, VfsInv, Creations, NoEntry
    <3> QED
      BY <2>1, <3>1
  <2> QED
    BY <2>1, <2>2
<1>2. ASSUME \A x \in 1..Len(vnodes) : vnodes'[x].type = vnodes[x].type,
             \A p \in Tasks : creating'[p] = creating[p] \/ ~Linked(p)'
      PROVE  /\ \A p \in Tasks : Linked(p)' => vnodes'[creating'[p].made].type = "unfinished"
             /\ \A p, q \in Tasks :
                  Linked(p)' /\ Linked(q)' /\ creating'[p].made = creating'[q].made => p = q
  BY <1>1, <1>2 DEF MadeInv, Linked
<1>3. CASE UNCHANGED vfsVars
  BY <1>2, <1>3 DEF vfsVars
<1>4. ASSUME NEW p \in Tasks, Link(p)
      PROVE  /\ \A q \in Tasks : Linked(q)' => vnodes'[creating'[q].made].type = "unfinished"
             /\ \A q, r \in Tasks :
                  Linked(q)' /\ Linked(r)' /\ creating'[q].made = creating'[r].made => q = r
  <2>1. PICK d \in 1..Len(vnodes), a \in Names :
          vnodes' = Created(vnodes, d, a, "unfinished") /\ mounts' = mounts
    BY <1>4, LinkIs DEF MadeInv
  <2>2. /\ \A x \in 1..Len(vnodes) : vnodes'[x].type = vnodes[x].type
        /\ vnodes'[Len(vnodes) + 1].type = "unfinished"
    <3>1. /\ \A x \in 1..Len(vnodes) : vnodes'[x].type = vnodes[x].type
          /\ vnodes'[Len(vnodes) + 1] = NewVnode("unfinished", "tmpfs", d, NoMount)
      <4>1. a \in Labels /\ "unfinished" \in Kinds
        BY DEF Labels, Kinds
      <4>2. /\ \A x \in 1..Len(vnodes) : Created(vnodes, d, a, "unfinished")[x].type = vnodes[x].type
            /\ Created(vnodes, d, a, "unfinished")[Len(vnodes) + 1]
                 = NewVnode("unfinished", "tmpfs", d, NoMount)
        BY <1>1, <4>1, CreatedTypes
      <4> QED
        BY <2>1, <4>2
    <3> QED
      BY <3>1 DEF NewVnode
  <2>3. creating[p] \in Creations(Len(vnodes))
    BY <1>4 DEF Link, MadeInv, VfsInv
  <2>4. /\ creating'[p].made = Len(vnodes) + 1
        /\ \A q \in Tasks : q # p => creating'[q] = creating[q]
    BY <1>1, <1>4, <2>3 DEF Link, Creations
  <2>5. \A q \in Tasks : q # p => (Linked(q)' <=> Linked(q))
    BY <2>4 DEF Linked
  <2>6. Len(vnodes) + 1 \notin 1..Len(vnodes)
    BY <1>1
  <2> QED
    BY <1>1, <2>2, <2>4, <2>5, <2>6 DEF MadeInv
<1>5. ASSUME NEW p \in Tasks, Complete(p)
      PROVE  /\ \A q \in Tasks : Linked(q)' => vnodes'[creating'[q].made].type = "unfinished"
             /\ \A q, r \in Tasks :
                  Linked(q)' /\ Linked(r)' /\ creating'[q].made = creating'[r].made => q = r
  <2>1. /\ creating[p].made \in 1..Len(vnodes) /\ creating[p].type \in Kinds
        /\ vnodes' = Completed(vnodes, creating[p].made, creating[p].type)
    BY <1>5, CompleteIs DEF MadeInv
  <2>2. \A x \in 1..Len(vnodes) : x # creating[p].made => vnodes'[x].type = vnodes[x].type
    BY <1>1, <2>1, CompletedIs
  <2>3. /\ Linked(p) /\ ~Linked(p)'
        /\ \A q \in Tasks : q # p => creating'[q] = creating[q] /\ (Linked(q)' <=> Linked(q))
    BY <1>1, <1>5 DEF Complete, Linked
  <2> QED
    BY <1>1, <2>2, <2>3 DEF MadeInv
<1>6. ASSUME NEW p \in Tasks, FinishMount(p)
      PROVE  /\ \A q \in Tasks : Linked(q)' => vnodes'[creating'[q].made].type = "unfinished"
             /\ \A q, r \in Tasks :
                  Linked(q)' /\ Linked(r)' /\ creating'[q].made = creating'[r].made => q = r
  <2>1. \A x \in 1..Len(vnodes) : vnodes'[x].type = vnodes[x].type
    <3>1. PICK m \in 1..Len(mounts) : vnodes' = Marked(vnodes, mounts[m].root, m)
      BY <1>6, FinishMountIs DEF MadeInv
    <3>2. \A x \in 1..Len(vnodes) : Marked(vnodes, mounts[m].root, m)[x].type = vnodes[x].type
      BY <1>1, MarkedIs
    <3> QED
      BY <3>1, <3>2
  <2>2. creating' = creating
    BY <1>6 DEF FinishMount
  <2> QED
    BY <1>2, <2>1, <2>2
<1>7. ASSUME NEW p \in Tasks, NEW t \in Reached(p), Mount(p, t)
      PROVE  /\ \A q \in Tasks : Linked(q)' => vnodes'[creating'[q].made].type = "unfinished"
             /\ \A q, r \in Tasks :
                  Linked(q)' /\ Linked(r)' /\ creating'[q].made = creating'[r].made => q = r
  <2>1. /\ t \in 1..Len(vnodes) /\ Uppermost(t) \in 1..Len(vnodes)
        /\ ~CoveredIn(vnodes, mounts, Uppermost(t))
        /\ vnodes' = MountedAt(vnodes, Uppermost(t), Len(mounts) + 1)
    BY <1>7, MountIs DEF MadeInv
  <2>2. \A x \in 1..Len(vnodes) : vnodes'[x].type = vnodes[x].type
    <3>1. PICK u \in 1..Len(vnodes) : u = Uppermost(t) /\ ~CoveredIn(vnodes, mounts, u)
      BY <2>1
    <3>2. \A x \in 1..Len(vnodes) : MountedAt(vnodes, u, Len(mounts) + 1)[x].type = vnodes[x].type
      BY <1>1, <3>1, MountedKeepsTypes
    <3> QED
      BY <2>1, <3>1, <3>2
  <2>3. creating' = creating
    BY <1>7 DEF Mount
  <2> QED
    BY <1>2, <2>2, <2>3
<1>8. ASSUME NEW p \in Tasks, NEW t, Chdir(p, t)
      PROVE  /\ \A q \in Tasks : Linked(q)' => vnodes'[creating'[q].made].type = "unfinished"
             /\ \A q, r \in Tasks :
                  Linked(q)' /\ Linked(r)' /\ creating'[q].made = creating'[r].made => q = r
  BY <1>2, <1>8 DEF Chdir
<1>9. ASSUME NEW p \in Tasks, NEW d, NEW a, NEW ty, BeginCreate(p, d, a, ty)
      PROVE  /\ \A q \in Tasks : Linked(q)' => vnodes'[creating'[q].made].type = "unfinished"
             /\ \A q, r \in Tasks :
                  Linked(q)' /\ Linked(r)' /\ creating'[q].made = creating'[r].made => q = r
  <2>1. vnodes' = vnodes /\ \A q \in Tasks : creating'[q] = creating[q] \/ creating'[q].made = NoEntry
    BY <1>1, <1>9 DEF BeginCreate
  <2> QED
    BY <1>2, <2>1 DEF Linked
<1> QED
  BY <1>3, <1>4, <1>5, <1>6, <1>7, <1>8, <1>9 DEF VfsNext

LEMMA MadeInvariance == VfsSpec => []MadeInv
  BY MadeStart, MadeStep, PTL DEF VfsSpec

\* A path that has led to a vnode keeps naming it whatever is linked and written by tasks that
\* create names, also the same name, and however file systems are stacked.
THEOREM VfsPathsAreStable == VfsSpec => PathsAreStable
<1> DEFINE Stable == UNCHANGED <<mounts, mounting>> =>
             \A path \in Paths : Walk(Root, path) \notin {NoEntry, Garbage} =>
               Walk(Root, path)' = Walk(Root, path)
<1>1. MadeInv /\ [VfsNext]_vfsVars => [Stable]_vfsVars
  <2> SUFFICES ASSUME MadeInv, VfsNext, UNCHANGED <<mounts, mounting>>, NEW path \in Paths,
                      Walk(Root, path) \notin Nowhere
               PROVE  Walk(Root, path)' = Walk(Root, path)
    BY DEF vfsVars, Nowhere
  <2>1. Walk(Root, path) = WalkIn(vnodes, mounts, Root, path)
    BY WalksAre
  <2>2. Walk(Root, path)' = WalkIn(vnodes', mounts', Root, path)
    BY WalksAreLater
  <2>3. VfsInv /\ Tree(vnodes, mounts) /\ Root \in 1..Len(vnodes)
    <3>1. Len(vnodes) \in Nat /\ Len(vnodes) >= 4
      BY TreeFacts DEF MadeInv, VfsInv, Tree, Rising
    <3> QED
      BY <3>1 DEF MadeInv, VfsInv, Root
  <2>4. CASE vnodes' = vnodes
    BY <2>1, <2>2, <2>4
  <2>5. ASSUME Grown(vnodes, vnodes'), Tree(vnodes', mounts)
        PROVE  Walk(Root, path)' = Walk(Root, path)
    BY <2>1, <2>2, <2>3, <2>5, WalkKept
  <2>6. ASSUME NEW p \in Tasks, Link(p) PROVE Walk(Root, path)' = Walk(Root, path)
    <3>1. PICK d \in 1..Len(vnodes), a \in Names : vnodes' = Created(vnodes, d, a, "unfinished")
      BY <2>3, <2>6, LinkIs
    <3> QED
      BY <2>3, <2>5, <3>1, CreatedGrows DEF Labels, Kinds
  <2>7. ASSUME NEW p \in Tasks, Complete(p) PROVE Walk(Root, path)' = Walk(Root, path)
    <3>1. /\ creating[p].made \in 1..Len(vnodes) /\ creating[p].type \in Kinds
          /\ vnodes' = Completed(vnodes, creating[p].made, creating[p].type)
      BY <2>3, <2>7, CompleteIs
    <3>2. vnodes[creating[p].made].type = "unfinished"
      BY <2>7 DEF Complete, MadeInv, Linked
    <3> QED
      BY <2>3, <2>5, <3>1, <3>2, CompletedGrows
  <2>8. ASSUME NEW p \in Tasks, NEW t \in Reached(p), Mount(p, t) PROVE FALSE
    <3>1. Len(mounts') = Len(mounts) + 1 /\ Len(mounts) \in Nat
      <4>1. /\ t \in 1..Len(vnodes) /\ Uppermost(t) \in 1..Len(vnodes)
            /\ ~CoveredIn(vnodes, mounts, Uppermost(t))
            /\ mounts' = Append(mounts, [root |-> Len(vnodes) + 1, covered |-> t])
        BY <2>3, <2>8, MountIs
      <4> QED
        BY <2>3, <4>1, TreeFacts, MountedIs
    <3> QED
      BY <3>1
  <2>9. ASSUME NEW p \in Tasks, FinishMount(p) PROVE FALSE
    <3>1. mounting \in [Tasks -> 0..Len(mounts)]
      BY <2>3 DEF VfsInv
    <3> QED
      BY <2>9, <3>1 DEF FinishMount
  <2>10. \A p \in Tasks : /\ \A t : Chdir(p, t) => vnodes' = vnodes
                          /\ \A d, a, ty : BeginCreate(p, d, a, ty) => vnodes' = vnodes
    BY DEF Chdir, BeginCreate
  <2> QED
    BY <2>4, <2>6, <2>7, <2>8, <2>9, <2>10 DEF VfsNext
<1> QED
  BY MadeInvariance, <1>1, PTL DEF VfsSpec, PathsAreStable

(***************************************************************************)
(* ".." while file systems are not stacked.                                *)
(***************************************************************************)
\* the mounts whose root vfs_mount has not yet marked
Pending == {mounting[p] : p \in Tasks}

\* A mount has two vnodes, its own root and what it covers, which point to it; only a root
\* that is still to be marked, one of the mounts in P, does not.
OneLevel(V, M, P) ==
  /\ \A i \in 1..Len(M) :
       /\ V[M[i].root].mount = i \/ (i \in P /\ V[M[i].root].mount = NoMount)
       /\ V[M[i].covered].mount = i
       /\ M[i].root # M[i].covered
  /\ \A x \in 1..Len(V) : V[x].mount # NoMount => x \in {M[V[x].mount].root, M[V[x].mount].covered}
  /\ \A i, j \in 1..Len(M) : M[i].root = M[j].root => i = j

\* What has a name in a directory is its child, and not the root of a file system.
Entries(V, M) ==
  \A x \in 1..Len(V) : \A i \in DOMAIN V[x].subdirs :
    /\ V[V[x].subdirs[i].vnode].parent = x
    /\ \A j \in 1..Len(M) : M[j].root # V[x].subdirs[i].vnode

LevelInv == VfsInv /\ OneLevel(vnodes, mounts, Pending) /\ Entries(vnodes, mounts)

\* Mounts, and what is pending, matter only so far.
LEMMA LevelKept ==
  ASSUME NEW V, NEW W, NEW M, NEW P, NEW Q, Tree(V, M), Len(W) = Len(V), P \subseteq Q,
         \A x \in 1..Len(V) : /\ W[x].parent = V[x].parent /\ W[x].mount = V[x].mount
                              /\ W[x].subdirs = V[x].subdirs
  PROVE  /\ OneLevel(V, M, P) => OneLevel(W, M, Q)
         /\ Entries(V, M) => Entries(W, M)
<1>1. \A i \in 1..Len(M) : M[i].root \in 1..Len(V) /\ M[i].covered \in 1..Len(V)
  BY TreeFacts
<1>2. \A x \in 1..Len(V) : \A i \in DOMAIN V[x].subdirs : V[x].subdirs[i].vnode \in 1..Len(V)
  BY EntriesAre
<1>3. OneLevel(V, M, P) => OneLevel(W, M, Q)
  BY <1>1 DEF OneLevel
<1>4. Entries(V, M) => Entries(W, M)
  BY <1>2 DEF Entries
<1> QED
  BY <1>3, <1>4

LEMMA LevelCreated ==
  ASSUME NEW V, NEW M, NEW P, Tree(V, M), OneLevel(V, M, P), Entries(V, M),
         NEW d \in 1..Len(V), NEW a \in Labels, NEW ty \in Kinds
  PROVE  OneLevel(Created(V, d, a, ty), M, P) /\ Entries(Created(V, d, a, ty), M)
<1>1. PICK n \in Nat, k \in Nat : n = Len(V) /\ k = Len(M)
  BY TreeFacts DEF Rising
<1>2. PICK W : /\ W = Created(V, d, a, ty) /\ Tree(W, M) /\ Len(W) = n + 1
               /\ \A x \in 1..n : /\ W[x].parent = V[x].parent /\ W[x].mount = V[x].mount
                                  /\ x # d => W[x].subdirs = V[x].subdirs
               /\ W[d].subdirs = Append(V[d].subdirs, [name |-> a, vnode |-> n + 1])
               /\ W[n + 1] = NewVnode(ty, "tmpfs", d, NoMount)
  <2> DEFINE W == Created(V, d, a, ty)
  <2>1. /\ Len(W) = Len(V) + 1 /\ Tree(W, M)
        /\ \A x \in 1..Len(V) : /\ W[x].type = V[x].type /\ W[x].parent = V[x].parent
                                /\ W[x].mount = V[x].mount
                                /\ x # d => W[x].subdirs = V[x].subdirs
        /\ W[d].subdirs = Append(V[d].subdirs, [name |-> a, vnode |-> Len(V) + 1])
        /\ W[Len(V) + 1] = NewVnode(ty, "tmpfs", d, NoMount)
    BY CreatedIs
  <2> HIDE DEF W
  <2>2. W = Created(V, d, a, ty)
    BY DEF W
  <2> QED
    BY <1>1, <2>1, <2>2
<1>3. /\ W[n + 1].parent = d /\ W[n + 1].mount = NoMount /\ W[n + 1].subdirs = <<>>
      /\ \A x \in 1..(n + 1) : x = n + 1 \/ x \in 1..n
      /\ d \in 1..n /\ d # n + 1
  <2>1. \A x \in 1..(n + 1) : x = n + 1 \/ x \in 1..n
    OBVIOUS
  <2>2. d \in 1..n /\ d # n + 1
    BY <1>1
  <2>3. W[n + 1].parent = d /\ W[n + 1].mount = NoMount /\ W[n + 1].subdirs = <<>>
    BY <1>2 DEF NewVnode
  <2> QED
    BY <2>1, <2>2, <2>3
<1>4. OneLevel(W, M, P)
  <2>1. ASSUME NEW i \in 1..k
        PROVE  /\ W[M[i].root].mount = i \/ (i \in P /\ W[M[i].root].mount = NoMount)
               /\ W[M[i].covered].mount = i
               /\ M[i].root # M[i].covered
    <3>1. M[i].root \in 1..n /\ M[i].covered \in 1..n
      BY <1>1, TreeFacts
    <3> QED
      BY <1>1, <1>2, <3>1 DEF OneLevel
  <2>2. ASSUME NEW x \in 1..(n + 1), W[x].mount # NoMount
        PROVE  x \in {M[W[x].mount].root, M[W[x].mount].covered}
    BY <1>1, <1>2, <1>3, <2>2 DEF OneLevel
  <2> QED
    BY <1>1, <1>2, <2>1, <2>2 DEF OneLevel
<1>5. ASSUME NEW x \in 1..(n + 1), NEW i \in DOMAIN W[x].subdirs
      PROVE  /\ W[W[x].subdirs[i].vnode].parent = x
             /\ \A j \in 1..k : M[j].root # W[x].subdirs[i].vnode
  <2>1. x \in 1..n
    BY <1>3
  <2>2. PICK s \in Seq([name : Labels, vnode : 1..n]) : s = V[x].subdirs
    <3>1. V[x] \in VnodeTypes(n, k)
      BY <1>1, <2>1, TreeFacts
    <3> QED
      BY <3>1 DEF VnodeTypes
  <2>3. PICK l \in Nat : l = Len(s) /\ DOMAIN s = 1..l
    BY Zenon, <2>2, LenProperties
  <2>4. CASE i \in DOMAIN s /\ W[x].subdirs[i] = s[i]
    <3>1. /\ s[i].vnode \in 1..n /\ V[s[i].vnode].parent = x
          /\ \A j \in 1..k : M[j].root # s[i].vnode
      BY <1>1, <2>1, <2>2, <2>4, EntriesAre DEF Entries
    <3> QED
      BY <1>2, <2>4, <3>1
  <2>5. CASE x # d
    BY <1>2, <2>1, <2>2, <2>4, <2>5
  <2>6. CASE x = d
    <3> DEFINE e == [name |-> a, vnode |-> n + 1]
    <3>1. W[x].subdirs = Append(s, e)
      BY <1>2, <2>2, <2>6
    <3>2. DOMAIN Append(s, e) = 1..(l + 1) /\ Append(s, e)[l + 1] = e
          /\ \A j \in 1..l : Append(s, e)[j] = s[j]
      <4>1. PICK T : s \in Seq(T) /\ e \in T
        <5>1. s \in Seq([name : Labels, vnode : 1..n] \cup {e})
          BY SeqMonotonic
        <5> QED
          BY <5>1
      <4> HIDE DEF e
      <4> QED
        BY <2>3, <4>1
    <3>3. CASE i = l + 1
      <4>1. W[x].subdirs[i].vnode = n + 1
        BY <3>1, <3>2, <3>3
      <4>2. \A j \in 1..k : M[j].root # n + 1
        BY <1>1, TreeFacts
      <4> QED
        BY <1>3, <2>6, <4>1, <4>2
    <3>4. CASE i \in 1..l
      BY <2>3, <2>4, <3>1, <3>2, <3>4
    <3> HIDE DEF e
    <3>5. i = l + 1 \/ i \in 1..l
      BY <3>1, <3>2
    <3> QED
      BY <3>3, <3>4, <3>5
  <2> QED
    BY <2>5, <2>6
<1> QED
  BY <1>1, <1>2, <1>4, <1>5 DEF Entries

LEMMA LevelMounted ==
  ASSUME NEW V, NEW M, NEW P, Tree(V, M), OneLevel(V, M, P), Entries(V, M),
         NEW t \in 1..Len(V), ~CoveredIn(V, M, t), \A i \in 1..Len(M) : M[i].root # t,
         NEW Q, P \ {NoMount} \subseteq Q, Len(M) + 1 \in Q
  PROVE  LET W == MountedAt(V, t, Len(M) + 1)
             N == Append(M, [root |-> Len(V) + 1, covered |-> t])
         IN  OneLevel(W, N, Q) /\ Entries(W, N)
<1>1. PICK n \in Nat, k \in Nat : n = Len(V) /\ k = Len(M)
  BY TreeFacts DEF Rising
<1> DEFINE W == MountedAt(V, t, Len(M) + 1)
           N == Append(M, [root |-> Len(V) + 1, covered |-> t])
<1>2. V[t].mount = NoMount
  <2>1. SUFFICES ASSUME V[t].mount # NoMount PROVE FALSE
    OBVIOUS
  <2>2. V[t].mount \in 1..k
    <3>1. V[t] \in VnodeTypes(n, k)
      BY <1>1, TreeFacts
    <3>2. V[t].mount \in 0..k /\ V[t].mount # 0
      BY <2>1, <3>1 DEF VnodeTypes, NoMount
    <3> QED
      BY <3>2
  <2>3. M[V[t].mount].root # t
    BY <1>1, <2>2
  <2> QED
    BY <2>1, <2>3 DEF CoveredIn
<1>3. /\ Len(W) = Len(V) + 1 /\ Tree(W, N)
      /\ \A x \in 1..Len(V) : /\ W[x].type = V[x].type /\ W[x].parent = V[x].parent
                              /\ W[x].mount = IF x = t THEN Len(M) + 1 ELSE V[x].mount
                              /\ W[x].subdirs = V[x].subdirs
      /\ W[Len(V) + 1] = NewVnode("directory", "tmpfs", Len(V) + 1, NoMount)
      /\ Len(N) = Len(M) + 1
      /\ \A i \in 1..Len(M) : N[i] = M[i]
      /\ N[Len(M) + 1] = [root |-> Len(V) + 1, covered |-> t]
  BY MountedIs
<1> HIDE DEF W, N
<1> DEFINE m == k + 1
           r == n + 1
<1>4. /\ Len(W) = r /\ Len(N) = m
      /\ \A x \in 1..n : /\ W[x].parent = V[x].parent /\ W[x].subdirs = V[x].subdirs
                         /\ W[x].mount = IF x = t THEN m ELSE V[x].mount
      /\ W[r].mount = NoMount /\ W[r].subdirs = <<>>
      /\ \A i \in 1..k : N[i] = M[i]
      /\ N[m].root = r /\ N[m].covered = t
  <2>1. NewVnode("directory", "tmpfs", r, NoMount).mount = NoMount
        /\ NewVnode("directory", "tmpfs", r, NoMount).subdirs = <<>>
    BY DEF NewVnode
  <2> QED
    BY <1>1, <1>3, <2>1
<1>5. /\ \A x \in 1..r : x = r \/ x \in 1..n
      /\ \A i \in 1..m : i = m \/ i \in 1..k
      /\ t \in 1..n /\ r \notin 1..n /\ m \notin 0..k /\ m # NoMount /\ m \in Q
      /\ \A x \in 1..n : V[x].mount \in 0..k
      /\ \A i \in 1..k : M[i].root \in 1..n /\ M[i].covered \in 1..n /\ i # NoMount
  <2>1. \A x \in 1..n : V[x].mount \in 0..k
    BY <1>1, TreeFacts DEF VnodeTypes
  <2>2. \A x \in 1..r : x = r \/ x \in 1..n
    OBVIOUS
  <2>3. \A i \in 1..m : i = m \/ i \in 1..k
    OBVIOUS
  <2>4. t \in 1..n /\ r \notin 1..n /\ m \notin 0..k /\ m # NoMount /\ m \in Q
    BY <1>1 DEF NoMount
  <2>5. \A i \in 1..k : M[i].root \in 1..n /\ M[i].covered \in 1..n /\ i # NoMount
    BY <1>1, TreeFacts DEF NoMount
  <2> HIDE DEF m, r
  <2> QED
    BY <2>1, <2>2, <2>3, <2>4, <2>5
<1> HIDE DEF m, r
<1>6. ASSUME NEW i \in 1..m
      PROVE  /\ W[N[i].root].mount = i \/ (i \in Q /\ W[N[i].root].mount = NoMount)
             /\ W[N[i].covered].mount = i
             /\ N[i].root # N[i].covered
  <2>1. CASE i = m
    BY <1>4, <1>5, <2>1
  <2>2. CASE i \in 1..k
    <3>1. M[i].root \in 1..n /\ M[i].covered \in 1..n /\ i # NoMount
      BY <1>5, <2>2
    <3>2. /\ V[M[i].root].mount = i \/ (i \in P /\ V[M[i].root].mount = NoMount)
          /\ V[M[i].covered].mount = i
          /\ M[i].root # M[i].covered
      BY <1>1, <2>2 DEF OneLevel
    <3>3. M[i].root # t /\ M[i].covered # t
      BY <1>1, <1>2, <2>2, <3>1, <3>2
    <3>4. i \in P => i \in Q
      BY <3>1
    <3>5. N[i] = M[i] /\ W[M[i].root].mount = V[M[i].root].mount
          /\ W[M[i].covered].mount = V[M[i].covered].mount
      BY <1>4, <2>2, <3>1, <3>3
    <3> QED
      BY <3>2, <3>4, <3>5
  <2> QED
    BY <1>5, <2>1, <2>2
<1>7. ASSUME NEW x \in 1..r, W[x].mount # NoMount
      PROVE  x \in {N[W[x].mount].root, N[W[x].mount].covered}
  <2>1. CASE x = t
    BY <1>4, <1>5, <2>1
  <2>2. CASE x \in 1..n /\ x # t
    <3>1. W[x].mount = V[x].mount /\ V[x].mount \in 1..k
      <4>1. W[x].mount = V[x].mount /\ V[x].mount \in 0..k /\ V[x].mount # 0
        BY <1>4, <1>5, <1>7, <2>2 DEF NoMount
      <4> QED
        BY <1>1, <4>1
    <3>2. x \in {M[V[x].mount].root, M[V[x].mount].covered}
      BY <1>1, <1>7, <2>2, <3>1 DEF OneLevel
    <3> QED
      BY <1>4, <3>1, <3>2
  <2>3. x # r
    BY <1>4, <1>7
  <2> QED
    BY <1>5, <2>1, <2>2, <2>3
<1>8. ASSUME NEW i \in 1..m, NEW j \in 1..m, N[i].root = N[j].root PROVE i = j
  <2>1. \A h \in 1..k : N[h].root = M[h].root /\ M[h].root # r
    BY <1>4, <1>5
  <2>2. \A g, h \in 1..k : M[g].root = M[h].root => g = h
    BY <1>1 DEF OneLevel
  <2> QED
    BY <1>4, <1>5, <1>8, <2>1, <2>2
<1>9. ASSUME NEW x \in 1..r, NEW i \in DOMAIN W[x].subdirs
      PROVE  /\ W[W[x].subdirs[i].vnode].parent = x
             /\ \A j \in 1..m : N[j].root # W[x].subdirs[i].vnode
  <2>1. x \in 1..n
    BY <1>4, <1>5
  <2>2. PICK c : c = V[x].subdirs[i].vnode
    OBVIOUS
  <2>3. i \in DOMAIN V[x].subdirs /\ W[x].subdirs[i].vnode = c
    BY <1>4, <2>1, <2>2
  <2>4. c \in 1..n /\ V[c].parent = x /\ \A j \in 1..k : M[j].root # c
    BY <1>1, <2>1, <2>2, <2>3, EntriesAre DEF Entries
  <2>5. \A j \in 1..m : N[j].root # c
    BY <1>4, <1>5, <2>4
  <2>6. W[c].parent = x
    BY <1>4, <2>4
  <2> QED
    BY <2>3, <2>5, <2>6
<1>10. OneLevel(W, N, Q) /\ Entries(W, N)
  <2>1. OneLevel(W, N, Q)
    BY <1>4, <1>6, <1>7, <1>8 DEF OneLevel
  <2>2. Entries(W, N)
    BY <1>4, <1>9 DEF Entries
  <2> QED
    BY <2>1, <2>2
<1> QED
  BY <1>10 DEF W, N

LEMMA LevelMarked ==
  ASSUME NEW V, NEW M, NEW P, NEW Q, Tree(V, M), OneLevel(V, M, P), Entries(V, M),
         NEW m \in 1..Len(M), P \ {m} \subseteq Q
  PROVE  OneLevel(Marked(V, M[m].root, m), M, Q) /\ Entries(Marked(V, M[m].root, m), M)
<1>1. PICK n \in Nat, k \in Nat : n = Len(V) /\ k = Len(M)
  BY TreeFacts DEF Rising
<1>2. PICK r, W : /\ r = M[m].root /\ W = Marked(V, r, m) /\ Len(W) = n
                  /\ \A x \in 1..n : /\ W[x].parent = V[x].parent /\ W[x].subdirs = V[x].subdirs
                                     /\ W[x].mount = IF x = r THEN m ELSE V[x].mount
  <2> DEFINE r == M[m].root
             W == Marked(V, r, m)
  <2>1. /\ Len(W) = Len(V)
        /\ \A x \in 1..Len(V) : /\ W[x].parent = V[x].parent /\ W[x].subdirs = V[x].subdirs
                                /\ W[x].mount = IF x = r THEN m ELSE V[x].mount
    BY MarkedIs
  <2> HIDE DEF r, W
  <2>2. r = M[m].root /\ W = Marked(V, r, m)
    BY DEF r, W
  <2> QED
    BY <1>1, <2>1, <2>2
<1>3. \A i \in 1..k : M[i].root \in 1..n /\ M[i].covered \in 1..n /\ i # NoMount
  BY <1>1, TreeFacts DEF NoMount
<1>4. ASSUME NEW i \in 1..k
      PROVE  /\ W[M[i].root].mount = i \/ (i \in Q /\ W[M[i].root].mount = NoMount)
             /\ W[M[i].covered].mount = i
             /\ M[i].root # M[i].covered
  <2>1. /\ V[M[i].root].mount = i \/ (i \in P /\ V[M[i].root].mount = NoMount)
        /\ V[M[i].covered].mount = i
        /\ M[i].root # M[i].covered
        /\ M[i].root = r => i = m
        /\ V[r].mount = m \/ V[r].mount = NoMount
    BY <1>1, <1>2 DEF OneLevel
  <2>2. M[i].covered # r
    BY <1>2, <1>3, <2>1
  <2>3. W[M[i].covered].mount = i
    BY <1>2, <1>3, <2>1, <2>2
  <2>4. CASE i = m
    BY <1>2, <1>3, <2>1, <2>3, <2>4
  <2>5. CASE i # m
    BY <1>2, <1>3, <2>1, <2>3, <2>5
  <2> QED
    BY <2>4, <2>5
<1>5. ASSUME NEW x \in 1..n, W[x].mount # NoMount
      PROVE  x \in {M[W[x].mount].root, M[W[x].mount].covered}
  BY <1>1, <1>2, <1>5 DEF OneLevel
<1>6. OneLevel(W, M, Q)
  BY <1>1, <1>2, <1>4, <1>5 DEF OneLevel
<1>7. Entries(W, M)
  <2>1. \A x \in 1..n : \A i \in DOMAIN V[x].subdirs : V[x].subdirs[i].vnode \in 1..n
    BY <1>1, EntriesAre
  <2> QED
    BY <1>1, <1>2, <2>1 DEF Entries
<1> QED
  BY <1>2, <1>6, <1>7

LEMMA LevelStart == VfsInit => LevelInv
<1> SUFFICES ASSUME VfsInit PROVE LevelInv
  OBVIOUS
<1>1. VfsInv
  BY VfsStart
<1>2. /\ Len(vnodes) = 4 /\ Len(mounts) = 1 /\ mounts[1] = [root |-> 3, covered |-> 2]
      /\ vnodes[1].mount = 0 /\ vnodes[2].mount = 1 /\ vnodes[3].mount = 1 /\ vnodes[4].mount = 0
      /\ vnodes[1].subdirs = <<[name |-> InitramfsName, vnode |-> 2]>>
      /\ vnodes[2].subdirs = <<>> /\ vnodes[4].subdirs = <<>>
      /\ \E a : vnodes[3].subdirs = <<[name |-> a, vnode |-> 4]>>
      /\ vnodes[2].parent = 1 /\ vnodes[4].parent = 3
  BY DEF VfsInit, NewVnode, Root, NoMount
<1>3. \A x \in 1..4 : x \in {1, 2, 3, 4}
  OBVIOUS
<1>4. OneLevel(vnodes, mounts, Pending)
  <2>1. \A i \in 1..1 : i = 1
    OBVIOUS
  <2> QED
    BY <1>2, <1>3, <2>1 DEF OneLevel, NoMount
<1>5. ASSUME NEW x \in 1..4, NEW i \in DOMAIN vnodes[x].subdirs
      PROVE  /\ vnodes[vnodes[x].subdirs[i].vnode].parent = x
             /\ \A j \in 1..1 : mounts[j].root # vnodes[x].subdirs[i].vnode
  <2>1. \A j \in 1..1 : mounts[j].root = 3
    <3>1. \A j \in 1..1 : j = 1
      OBVIOUS
    <3> QED
      BY <1>2, <3>1
  <2>2. CASE x = 1
    <3>1. i = 1 /\ vnodes[x].subdirs[1].vnode = 2
      BY <1>2, <2>2
    <3> QED
      BY <1>2, <2>1, <2>2, <3>1
  <2>3. CASE x = 3
    <3>1. i = 1 /\ vnodes[x].subdirs[1].vnode = 4
      BY <1>2, <2>3
    <3> QED
      BY <1>2, <2>1, <2>3, <3>1
  <2>4. CASE x \in {2, 4}
    BY <1>2, <2>4
  <2> QED
    BY <1>3, <2>2, <2>3, <2>4
<1> QED
  BY <1>1, <1>2, <1>4, <1>5 DEF LevelInv, Entries

LEMMA LevelStep ==
  ASSUME ~Stacked
  PROVE  LevelInv /\ [VfsNext]_vfsVars => LevelInv'
<1> SUFFICES ASSUME LevelInv, [VfsNext]_vfsVars
             PROVE  OneLevel(vnodes', mounts', Pending') /\ Entries(vnodes', mounts')
  BY VfsStep DEF LevelInv
<1>1. /\ VfsInv /\ Tree(vnodes, mounts) /\ OneLevel(vnodes, mounts, Pending)
      /\ Entries(vnodes, mounts) /\ mounting \in [Tasks -> 0..Len(mounts)]
  BY DEF LevelInv, VfsInv
<1>2. CASE UNCHANGED <<vnodes, mounts, mounting>>
  BY <1>1, <1>2 DEF Pending
<1>3. ASSUME NEW p \in Tasks, Link(p)
      PROVE  OneLevel(vnodes', mounts', Pending') /\ Entries(vnodes', mounts')
  <2>1. PICK d \in 1..Len(vnodes), a \in Labels :
          vnodes' = Created(vnodes, d, a, "unfinished") /\ mounts' = mounts
    BY <1>1, <1>3, LinkIs DEF Labels
  <2>2. Pending' = Pending
    BY <1>3 DEF Link, Pending
  <2> QED
    BY <1>1, <2>1, <2>2, LevelCreated DEF Kinds
<1>4. ASSUME NEW p \in Tasks, Complete(p)
      PROVE  OneLevel(vnodes', mounts', Pending') /\ Entries(vnodes', mounts')
  <2>1. /\ Len(vnodes') = Len(vnodes) /\ mounts' = mounts
        /\ \A x \in 1..Len(vnodes) : /\ vnodes'[x].parent = vnodes[x].parent
                                    /\ vnodes'[x].mount = vnodes[x].mount
                                    /\ vnodes'[x].subdirs = vnodes[x].subdirs
    BY <1>1, <1>4, CompleteIs, CompletedIs
  <2>2. Pending' = Pending
    BY <1>4 DEF Complete, Pending
  <2> QED
    BY <1>1, <2>1, <2>2, LevelKept
<1>5. ASSUME NEW p \in Tasks, FinishMount(p)
      PROVE  OneLevel(vnodes', mounts', Pending') /\ Entries(vnodes', mounts')
  <2>1. /\ mounting[p] \in 1..Len(mounts)
        /\ vnodes' = Marked(vnodes, mounts[mounting[p]].root, mounting[p])
        /\ mounts' = mounts
    BY <1>1, <1>5, FinishMountIs
  <2>2. Pending \ {mounting[p]} \subseteq Pending'
    BY <1>1, <1>5 DEF FinishMount, Pending
  <2> QED
    BY <1>1, <2>1, <2>2, LevelMarked
<1>6. ASSUME NEW p \in Tasks, NEW t \in Reached(p), Mount(p, t)
      PROVE  OneLevel(vnodes', mounts', Pending') /\ Entries(vnodes', mounts')
  <2>1. /\ t \in 1..Len(vnodes)
        /\ vnodes' = MountedAt(vnodes, Uppermost(t), Len(mounts) + 1)
        /\ mounts' = Append(mounts, [root |-> Len(vnodes) + 1, covered |-> t])
    BY <1>1, <1>6, MountIs
  <2>2. ~CoveredIn(vnodes, mounts, t) /\ \A i \in 1..Len(mounts) : mounts[i].root # t
    <3>1. ~IsMounted(t) /\ ~IsCovered(t)
      BY <1>6 DEF Mount
    <3>2. DOMAIN mounts = 1..Len(mounts)
      <4>1. PICK S : mounts \in Seq(S)
        BY <1>1 DEF Tree
      <4> QED
        BY <4>1, LenProperties
    <3> QED
      BY <3>1, <3>2, OperatorsIn DEF IsMounted
  <2>3. Uppermost(t) = t
    BY <1>1, <2>1, <2>2, OperatorsIn, TreeFacts, UppermostStep
  <2>4. Len(mounts) + 1 \in Pending' /\ Pending \ {NoMount} \subseteq Pending'
    <3>1. mounting' = [mounting EXCEPT ![p] = Len(mounts) + 1] /\ mounting[p] = NoMount
      BY <1>6 DEF Mount, Idle
    <3> QED
      BY <1>1, <3>1 DEF Pending
  <2> QED
    BY <1>1, <2>1, <2>2, <2>3, <2>4, LevelMounted
<1>7. \A p \in Tasks :
        /\ \A t : Chdir(p, t) => UNCHANGED <<vnodes, mounts, mounting>>
        /\ \A d, a, ty : BeginCreate(p, d, a, ty) => UNCHANGED <<vnodes, mounts, mounting>>
  BY DEF Chdir, BeginCreate
<1> QED
  BY <1>2, <1>3, <1>4, <1>5, <1>6, <1>7 DEF VfsNext, vfsVars

\* Down into an entry, over whatever is mounted there, and up again.
LEMMA DownAndUp ==
  ASSUME LevelInv, NEW v \in 1..Len(vnodes), IsDir(v), ~IsCovered(v),
         NEW i \in DOMAIN vnodes[v].subdirs,
         Lookup(v, vnodes[v].subdirs[i].name) # Garbage, IsDir(Lookup(v, vnodes[v].subdirs[i].name)),
         ~BeingMounted(Step(v, vnodes[v].subdirs[i].name))
  PROVE  Step(Step(v, vnodes[v].subdirs[i].name), "..") = v
<1> DEFINE V == vnodes
           M == mounts
           a == V[v].subdirs[i].name
<1>1. Tree(V, M) /\ OneLevel(V, M, Pending) /\ Entries(V, M) /\ Rising(V, M)
  BY TreeFacts DEF LevelInv, VfsInv
<1>2. PICK n \in Nat, k \in Nat : n = Len(vnodes) /\ k = Len(mounts)
  BY <1>1, TreeFacts DEF Rising
<1> HIDE DEF V, M
<1>3. V = vnodes /\ M = mounts
  BY DEF V, M
<1>4. a \notin {".", ".."} /\ i \in NamedIn(V, v, a)
  <2>1. a \in Labels
    BY <1>1, <1>3, EntriesAre
  <2>2. a \notin {".", ".."}
    BY <2>1, VfsAssumption DEF Labels, InitramfsName
  <2> QED
    BY <1>3, <2>2 DEF NamedIn
<1>5. /\ LookupIn(V, v, a) # Garbage /\ DirIn(V, LookupIn(V, v, a)) /\ DirIn(V, v)
      /\ ~BeingMounted(StepIn(V, M, v, a))
  BY <1>3, OperatorsIn
<1> HIDE DEF a
<1>6. PICK j \in DOMAIN V[v].subdirs : LookupIn(V, v, a) = VnptrIn(V, V[v].subdirs[j].vnode)
  BY <1>1, <1>3, <1>4, <1>5, LookupIs
<1>7. PICK c \in 1..n : /\ c = LookupIn(V, v, a) /\ V[c].parent = v
                        /\ \A h \in 1..k : M[h].root # c
  <2>1. LookupIn(V, v, a) = V[v].subdirs[j].vnode
    BY <1>5, <1>6 DEF VnptrIn
  <2> QED
    BY <1>1, <1>2, <1>3, <1>6, <2>1, EntriesAre DEF Entries
<1>8. DirIn(V, c) /\ c \notin Nowhere /\ v \notin Nowhere
  BY <1>2, <1>5, <1>7 DEF Nowhere, NoEntry, Garbage
<1>9. FromIn(V, M, v, a) = v
  BY <1>4 DEF FromIn
<1>10. StepIn(V, M, v, a) = UppermostIn(V, M, c)
  BY <1>7, <1>8, <1>9 DEF StepIn
<1>11. UppermostIn(V, M, v) = v
  BY <1>1, <1>3, OperatorsIn, UppermostStep
<1>12. \A y : FromIn(V, M, y, "..") = c => StepIn(V, M, y, "..") = v
  <2>1. LookupIn(V, c, "..") = v
    BY Zenon, <1>5, <1>7, <1>8 DEF LookupIn, VnptrIn, DirIn
  <2> QED
    BY <1>8, <1>11, <2>1 DEF StepIn
<1>13. V[c].mount # NoMount => V[c].mount \in 1..k
  <2>1. V[c].mount \in 0..k
    BY <1>1, <1>2, <1>3, <1>7, TreeFacts DEF VnodeTypes
  <2> QED
    BY <2>1 DEF NoMount
<1>14. FromIn(V, M, UppermostIn(V, M, c), "..") = c
  <2>1. CASE CoveredIn(V, M, c)
    <3>1. PICK h \in 1..k : h = V[c].mount /\ h # NoMount
      BY <1>13, <2>1 DEF CoveredIn
    <3>2. PICK r \in 1..n : r = M[h].root
      BY <1>1, <1>2, <1>3, TreeFacts
    <3>3. c = M[h].covered /\ (V[r].mount = h \/ (h \in Pending /\ V[r].mount = NoMount))
      BY <1>1, <1>2, <1>3, <1>7, <3>1, <3>2 DEF OneLevel
    <3>4. ~CoveredIn(V, M, r)
      BY <3>2, <3>3 DEF CoveredIn
    <3>5. UppermostIn(V, M, r) = r
      BY <1>1, <1>2, <1>3, <3>2, <3>4, UppermostStep
    <3>6. UppermostIn(V, M, c) = r
      BY <1>1, <1>2, <1>3, <2>1, <3>1, <3>2, <3>5, UppermostStep
    <3>7. h \notin Pending
      BY <1>3, <1>5, <1>10, <3>1, <3>2, <3>6 DEF BeingMounted, Pending
    <3>8. RootIn(V, M, r)
      BY Zenon, <3>1, <3>2, <3>3, <3>7 DEF RootIn
    <3> QED
      BY <3>3, <3>6, <3>7, <3>8 DEF FromIn
  <2>2. CASE ~CoveredIn(V, M, c)
    <3>1. UppermostIn(V, M, c) = c
      BY <1>1, <1>2, <1>3, <2>2, UppermostStep
    <3>2. ~RootIn(V, M, c)
      BY <1>7, <1>13 DEF RootIn
    <3> QED
      BY <3>1, <3>2 DEF FromIn
  <2> QED
    BY <2>1, <2>2
<1>15. StepIn(V, M, StepIn(V, M, v, a), "..") = v
  BY <1>10, <1>12, <1>14
<1> QED
  BY <1>3, <1>15, OperatorsIn DEF a

\* Unless file systems are mounted on one another, ".." leads back from a directory to where
\* one came from, over any number of mounts (fs/vfs.c:24), also while others are in progress.
THEOREM VfsDotDotReturns ==
  ASSUME ~Stacked
  PROVE  VfsSpec => []DotDotReturns
<1>1. VfsInit => LevelInv
  BY LevelStart
<1>2. LevelInv /\ [VfsNext]_vfsVars => LevelInv'
  BY LevelStep
<1>3. LevelInv => DotDotReturns
  BY DownAndUp DEF DotDotReturns, Vnodes
<1> QED
  BY <1>1, <1>2, <1>3, PTL DEF VfsSpec
=============================================================================
