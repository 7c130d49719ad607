--------------------------------- MODULE Files ---------------------------------
(***************************************************************************)
(* Open files and file descriptors: sys_open, sys_close, sys_read,         *)
(* sys_write and sys_exec (kernel/syscall.c), proc_setup_fs and            *)
(* proc_release (kernel/proc.c), the file operations of fs/tmpfs.c.        *)
(*                                                                         *)
(* System calls run with interrupts enabled: a task may be preempted, or   *)
(* be killed and released by the scheduler (Sched), inside one.  kmalloc() *)
(* hands out any struct file that is not in use.                           *)
(***************************************************************************)
EXTENDS Integers, FiniteSetsExt, Functions

CONSTANTS
  Procs,        \* the processes
  Slots,        \* the indices of fdtable, 0..PROC_NUM_FDTABLE - 1
  StdSlots,     \* those that proc_setup_fs fills
  Nodes,        \* regular files in a tmpfs
  RomNodes,     \* regular files in an initramfs
  RomSize,      \* their size
  Offsets,      \* what programs pass to lseek with SEEK_SET
  Uart,         \* the vnode of /dev/uart, whose operations keep no state
  Handles,      \* the struct files that fit in memory
  MaxFileSize,  \* FS_MAX_FILE_SIZE
  MaxExecs,     \* bound: calls of exec, each of which leaves files open
  KilledInside, \* are tasks killed inside sys_open and sys_close?
  UartHidden,   \* may something mounted over /dev hide /dev/uart from proc_setup_fs?
  None          \* a null pointer; no system call

AllNodes == Nodes \cup RomNodes \cup {Uart}

\* struct file, and the system calls with a local variable that lives while others run
OpenFiles == [vnode : AllNodes, f_pos : Int]
Calls == [name : {"open"}, file : Handles]
         \cup [name : {"close"}, fd : Slots]
         \cup [name : {"write"}, node : Nodes, size : Nat]

ASSUME FilesAssumption ==
  /\ Slots \subseteq Nat /\ StdSlots \subseteq Slots
  /\ None \notin Handles \cup OpenFiles \cup Calls
  /\ RomSize \in Nat /\ Offsets \subseteq Int
  /\ MaxFileSize \in Nat \ {0} /\ MaxExecs \in Nat
  /\ KilledInside \in BOOLEAN /\ UartHidden \in BOOLEAN

VARIABLES
  state,     \* of each process: "unborn", "alive", "dead" (to be released) or "released"
  fdtable,   \* of each process
  call,      \* of each process: the system call it is inside, with its local variables
  files,     \* of each struct file in use its vnode and f_pos, else None
  filesize,  \* of each regular file
  stored,    \* of each regular file: how many bytes of its data have been written
  execs,     \* the number of exec calls
  lost       \* history: the files whose descriptor exec overwrote

vars == <<state, fdtable, call, files, filesize, stored, execs, lost>>

InUser(p) == state[p] = "alive" /\ call[p] = None
Inside(p, name) == state[p] = "alive" /\ call[p] # None /\ call[p].name = name

InUse == {h \in Handles : files[h] # None}

Opened(node) == [vnode |-> node, f_pos |-> 0]
MovedTo(file, pos) == [vnode |-> file.vnode, f_pos |-> pos]

(***************************************************************************)
(* proc_setup_fs and proc_release                                          *)
(***************************************************************************)
\* A new file for each of the StdSlots, whatever they held.  (The file of the program
\* itself belongs to an area, Vm, and is never closed: it is not among the Handles.)  What
\* vfs_open returns is not looked at: a slot for which it found no /dev/uart gets what is
\* left on the stack, which may be null, some struct file or, not modelled, anything else.
SetupFs(p) ==
  \E found \in IF UartHidden THEN SUBSET StdSlots ELSE {StdSlots} :
  \E new \in [found -> Handles \ InUse], left \in [StdSlots \ found -> Handles \cup {None}] :
    /\ IsInjective(new)
    /\ files' = [h \in Handles |-> IF h \in Range(new) THEN Opened(Uart) ELSE files[h]]
    /\ fdtable' = [fdtable EXCEPT ![p] = [fd \in Slots |->
                     IF fd \in found THEN new[fd]
                     ELSE IF fd \in StdSlots THEN left[fd] ELSE fdtable[p][fd]]]

\* proc_create, or sys_fork: nothing is inherited
Start(p) ==
  /\ state[p] \in {"unborn", "released"}
  /\ SetupFs(p)
  /\ state' = [state EXCEPT ![p] = "alive"]
  /\ UNCHANGED <<call, filesize, stored, execs, lost>>

Exec(p) ==
  /\ InUser(p)
  /\ execs < MaxExecs
  /\ SetupFs(p)
  /\ execs' = execs + 1
  /\ lost' = lost \cup ({fdtable[p][fd] : fd \in StdSlots} \ {None})
  /\ UNCHANGED <<state, call, filesize, stored>>

\* sys_exit, sys_kill or a signal
Die(p) ==
  /\ state[p] = "alive"
  /\ KilledInside \/ call[p] = None
  /\ state' = [state EXCEPT ![p] = "dead"]
  /\ UNCHANGED <<fdtable, call, files, filesize, stored, execs, lost>>

\* proc_release: every descriptor is closed, then the task is freed
Release(p) ==
  /\ state[p] = "dead"
  /\ files' = [h \in Handles |-> IF \E fd \in Slots : fdtable[p][fd] = h THEN None ELSE files[h]]
  /\ fdtable' = [fdtable EXCEPT ![p] = [fd \in Slots |-> None]]
  /\ call' = [call EXCEPT ![p] = None]
  /\ state' = [state EXCEPT ![p] = "released"]
  /\ UNCHANGED <<filesize, stored, execs, lost>>

(***************************************************************************)
(* sys_open: vfs_open, then the first free slot, or vfs_close and -EMFILE  *)
(***************************************************************************)
OpenFile(p, node) ==
  /\ InUser(p)
  /\ \E h \in Handles \ InUse :
       /\ files' = [files EXCEPT ![h] = Opened(node)]
       /\ call' = [call EXCEPT ![p] = [name |-> "open", file |-> h]]
  /\ UNCHANGED <<state, fdtable, filesize, stored, execs, lost>>

FreeSlots(p) == {fd \in Slots : fdtable[p][fd] = None}

\* mutant: the file is not closed when there is no slot for it
InstallOrForget(p) ==
  IF FreeSlots(p) = {} THEN UNCHANGED <<files, fdtable>>
  ELSE fdtable' = [fdtable EXCEPT ![p][Min(FreeSlots(p))] = call[p].file] /\ UNCHANGED files

InstallOrClose(p) ==
  IF FreeSlots(p) = {} THEN files' = [files EXCEPT ![call[p].file] = None] /\ UNCHANGED fdtable
  ELSE fdtable' = [fdtable EXCEPT ![p][Min(FreeSlots(p))] = call[p].file] /\ UNCHANGED files

EndOpen(p) ==
  /\ Inside(p, "open")
  /\ InstallOrClose(p)
  /\ call' = [call EXCEPT ![p] = None]
  /\ UNCHANGED <<state, filesize, stored, execs, lost>>

(***************************************************************************)
(* sys_close: vfs_close, then the slot                                     *)
(***************************************************************************)
CloseFile(p, fd) ==
  /\ InUser(p)
  /\ fdtable[p][fd] # None
  /\ files' = [files EXCEPT ![fdtable[p][fd]] = None]
  /\ call' = [call EXCEPT ![p] = [name |-> "close", fd |-> fd]]
  /\ UNCHANGED <<state, fdtable, filesize, stored, execs, lost>>

\* mutant: the slot keeps the pointer
ClearNothing(p) == UNCHANGED fdtable

ClearSlot(p) == fdtable' = [fdtable EXCEPT ![p][call[p].fd] = None]

EndClose(p) ==
  /\ Inside(p, "close")
  /\ ClearSlot(p)
  /\ call' = [call EXCEPT ![p] = None]
  /\ UNCHANGED <<state, files, filesize, stored, execs, lost>>

(***************************************************************************)
(* tmpfs_read, initramfs_read, tmpfs_write and initramfs_lseek64; the      *)
(* other lseek64 and write operations of the two only return an error      *)
(***************************************************************************)
Lesser(a, b) == IF a < b THEN a ELSE b
Greater(a, b) == IF a > b THEN a ELSE b

IsOn(p, fd, nodes) == fdtable[p][fd] # None /\ files[fdtable[p][fd]].vnode \in nodes

SizeOf(node) == IF node \in Nodes THEN filesize[node] ELSE RomSize

\* A negative difference reads nothing.  (Positions are unsigned: one before 0 is the largest,
\* but pointers and differences computed from it are the same.)
Read(p, fd, count) ==
  /\ InUser(p) /\ IsOn(p, fd, Nodes \cup RomNodes)
  /\ LET h == fdtable[p][fd]
         len == Lesser(count, SizeOf(files[h].vnode) - files[h].f_pos)
     IN  len > 0 /\ files' = [files EXCEPT ![h] = MovedTo(@, @.f_pos + len)]
  /\ UNCHANGED <<state, fdtable, call, filesize, stored, execs, lost>>

Seek(p, fd, offset) ==
  /\ InUser(p) /\ IsOn(p, fd, RomNodes)
  /\ files' = [files EXCEPT ![fdtable[p][fd]] = MovedTo(@, offset)]
  /\ UNCHANGED <<state, fdtable, call, filesize, stored, execs, lost>>

\* The bytes go to the start of the data; MAX has compared, but not yet stored.
Write(p, fd, count) ==
  /\ InUser(p) /\ IsOn(p, fd, Nodes)
  /\ LET h == fdtable[p][fd]
         node == files[h].vnode
         len == Lesser(count, MaxFileSize - files[h].f_pos)
     IN  /\ len > 0
         /\ stored' = [stored EXCEPT ![node] = Greater(@, len)]
         /\ files' = [files EXCEPT ![h] = MovedTo(@, @.f_pos + len)]
         /\ call' = [call EXCEPT ![p] = [name |-> "write", node |-> node,
                       size |-> Greater(files[h].f_pos + len, filesize[node])]]
  /\ UNCHANGED <<state, fdtable, filesize, execs, lost>>

EndWrite(p) ==
  /\ Inside(p, "write")
  /\ filesize' = [filesize EXCEPT ![call[p].node] = call[p].size]
  /\ call' = [call EXCEPT ![p] = None]
  /\ UNCHANGED <<state, fdtable, files, stored, execs, lost>>

Init ==
  /\ state = [p \in Procs |-> "unborn"]
  /\ fdtable = [p \in Procs |-> [fd \in Slots |-> None]]
  /\ call = [p \in Procs |-> None]
  /\ files = [h \in Handles |-> None]
  /\ filesize = [n \in Nodes |-> 0]
  /\ stored = [n \in Nodes |-> 0]
  /\ execs = 0
  /\ lost = {}

Next ==
  \E p \in Procs :
    \/ Start(p) \/ Exec(p) \/ Die(p) \/ Release(p)
    \/ EndOpen(p) \/ EndClose(p) \/ EndWrite(p)
    \/ \E node \in AllNodes : OpenFile(p, node)
    \/ \E fd \in Slots :
         \/ CloseFile(p, fd)
         \/ \E count \in 1..MaxFileSize : Read(p, fd, count) \/ Write(p, fd, count)
         \/ \E offset \in Offsets : Seek(p, fd, offset)

Spec == Init /\ [][Next]_vars

(***************************************************************************)
(* Properties                                                              *)
(***************************************************************************)
TypeOK ==
  /\ state \in [Procs -> {"unborn", "alive", "dead", "released"}]
  /\ fdtable \in [Procs -> [Slots -> Handles \cup {None}]]
  /\ call \in [Procs -> Calls \cup {None}]
  /\ files \in [Handles -> OpenFiles \cup {None}]
  /\ filesize \in [Nodes -> Nat] /\ stored \in [Nodes -> Nat]
  /\ execs \in 0..MaxExecs /\ lost \subseteq Handles

\* the descriptors that are going to be used or closed again
Descriptors ==
  {d \in Procs \X Slots :
     /\ fdtable[d[1]][d[2]] # None
     /\ ~(Inside(d[1], "close") /\ call[d[1]].fd = d[2])}

FileOf(d) == fdtable[d[1]][d[2]]

\* Every descriptor refers to an open file, and no two descriptors of any processes to the
\* same one: no file is used or closed after it was closed (unless a task is killed inside
\* sys_close, whose file proc_release then closes again).
FdsOwnFiles ==
  /\ \A d \in Descriptors : files[FileOf(d)] # None
  /\ \A d, e \in Descriptors : FileOf(d) = FileOf(e) => d = e

\* An open file can be closed again: some descriptor or a sys_open in progress has it, but
\* for the files exec overwrote.
NoFileLost ==
  \A h \in InUse \ lost :
    \/ \E d \in Descriptors : FileOf(d) = h
    \/ \E p \in Procs : Inside(p, "open") /\ call[p].file = h

\* A read returns only bytes that were written (tmpfs.c:204 writes to the start of the file
\* and then counts from the position).
ReadsWritten == \A n \in Nodes : filesize[n] <= stored[n]

\* A file never gets shorter (tmpfs.c:206, "MAX(file->f_pos, ...filesize)").
SizeNeverShrinks == [][\A n \in Nodes : filesize'[n] >= filesize[n]]_vars

\* A position is never before the start of the file (initramfs.c:125 takes any offset, and
\* initramfs_read then copies from before the data).
PositionsInside == \A h \in InUse : files[h].f_pos >= 0
===============================================================================
