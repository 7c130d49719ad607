# A TLA+ model of the lab 7 kernel

The repository holds eight successive states (lab0 to lab7) of one teaching
kernel for the Raspberry Pi 3.  This directory models the last one,
`src/lab7/kernel`, which contains what the earlier ones built.  Paths below are
relative to that directory.

The kernel runs on one core.  What makes it hard is that it is *preemptible*:
a system call or page fault runs with interrupts enabled
(`exception/exception.c:42`), so the timer may call `schedule()` on top of
almost any kernel code; critical sections are explicit pairs of `irq_lock` and
`irq_unlock`, and the question everywhere is what was left outside them.

## 1. Inventory

| Component | State | Operations | Interacts with |
|---|---|---|---|
| Scheduler (`kernel/sched.c`, `kthread.c`) | `sched_queue`, the `state` and context of each `sched_task`, `tpidr_el1` | `schedule`, `idle`, `periodic_schedule`, `sched_start`, enqueue, lookup by pid, `kthread_exit` | timer (calls it), system calls and shell (change thread states), process release |
| Process life cycle (`kernel/proc.c`) | program, areas, page table, files of a task | `proc_create`, `proc_load_prog`, `proc_setup_vma`, `proc_release` | virtual memory, file system, slab |
| System calls (`kernel/syscall.c`) | none of its own | fork, exec, exit, kill, mmap, signal, files, mailbox | everything |
| Signals (`kernel/signal.c`) | pending bits, handlers, one saved context per task | send, `signal_handle`, `sys_sigreturn` | exception exit, virtual memory |
| Page allocator (`mm/buddy.c`) | free list and bitmap of each order, order and reference count of each page | `buddy_init`, `page_alloc`, `page_free`, `page_refcount_update` | slab, virtual memory |
| Slab (`mm/slab.c`) | partial/full pools of chunks | `kmalloc`, `kfree` | page allocator; used by all |
| Virtual memory (`mm/vm.c`) | areas and page table of a task | `vma_add`, `vm_mmap`, `vm_fault_handle`, `vm_copy`, `vm_release` | page allocator, processes |
| Interrupt tasks (`exception/irq.c`, `priority_queue.c`) | sorted queue of deferred tasks, `irq_handling_task` | add a task, run those of higher priority | timer, UART |
| Timer (`drivers/timer.c`) | sorted list of events, compare register, enable bit | add an event, handle the first | interrupt tasks, scheduler |
| Mini UART (`drivers/mini_uart.c`, `ringbuffer.c`) | two ring buffers, interrupt-enable bits | asynchronous read and write, the interrupt handler | interrupt tasks, shell, device file |
| VFS, tmpfs, initramfs (`fs/`) | mounts, vnodes, file handles | open, read, write, lookup, mkdir, mount | slab, system calls |
| Device files, frame buffer, mailbox (`dev/`, `drivers/mailbox.c`) | driver table, frame buffer geometry | reads and writes of devices | VFS, hardware |
| Shell (`shell/shell.c`) | line buffer | commands; `exec` creates a process and starts the scheduler | scheduler, VFS, timer |
| Boot (`asm/startup.S`, `mm/mmu.c`, `fdt/`, `src/main.c`), bootloader | translation tables, device tree | run once | - |

The hard behaviours, and what has to be true of each component:

* **Scheduler.** Ticks land between the list operations of `schedule()`, inside
  the walk of the idle thread and inside `sys_kill`.  No thread may be lost,
  queued twice, freed too early or never; every runnable thread must run; the
  shell must get the processor back after the last program, and not before.
* **Page allocator.** Splits and merges of any length must keep lists, bitmaps
  and orders consistent, lose no page and hand none out twice, and leave free
  memory merged.  Reference counts are changed partly outside critical
  sections: a page must be freed once, when its last reference goes.
* **Virtual memory.** Forks, write faults, exec and exits in any order: counts
  equal mappings, shared frames are write-protected, areas do not overlap and
  tasks see memories of their own, also when memory runs out.
* **UART.**  Overwriting moves both indexes of a ring buffer; a full buffer must
  not look empty.  The interrupt-enable register is changed outside critical
  sections and by an interrupt that masks both directions to serve one: input
  must stay whole, and whoever waits must be served.
* **Slab.**  Chunks of several sizes and whole blocks share pages that change
  their use; a page must go back exactly when its last chunk does, and no two
  allocations may overlap.
* **Interrupt tasks and timer.**  Calls of `irq_handle()` nest, share one global
  `irq_handling_task`, and are suspended half-way for as long as other threads
  run, since the timer's task calls `schedule()`.  No task may be left in the
  queue, and the timer must be armed whenever ordinary code runs, or preemption
  ends.
* **Signals.**  Signals arrive in any number while a handler runs, before exec,
  before fork.  The interrupted code must be resumed, no code of a program that
  was replaced may run, and an unhandled fault must end the process.
* **File systems.**  Lookups cross mounts in both directions; two tasks create
  one name; a name must keep its meaning.  Descriptors must own their files
  although `open` and `close` are preempted between the file and the slot.

PROJECT.json lists every component with its status and every such hazard at its
line.

## 2. Modules

| Module | Models | Notes |
|---|---|---|
| `Sched` | scheduler, idle thread, ticks, yield, exit, kill, fork, the shell's exec | kernel code as steps with frames |
| `BuddyOps` | the functions of `mm/buddy.c` as operators on one record | shared by `Buddy`, `PageRef` and `Slab` |
| `Buddy` | the allocator and its callers' blocks | implements `PagePool` |
| `PagePool` | abstract: a set of free pages, handed out in aligned blocks | |
| `PageRef` | several tasks inside `page_refcount_update` and the copy of a write fault | steps split at each preemption point |
| `Vm` | areas, page tables, faults, fork, exec, mmap, exit, reaping | one action per handler; implements `AddressSpaces` |
| `AddressSpaces` | abstract: a memory of its own for each task | |
| `RingBuffer` | `src/ringbuffer.c` | implements `BoundedFifo` |
| `BoundedFifo` | abstract: a queue that keeps its last `Capacity` items | |
| `Interrupts` | `irq_handle` and its task queue, timer events, under preemption | contexts with stacks of handler calls |
| `Uart` | the interrupt-driven UART driver | over two instances of `BoundedFifo` |
| `Signals` | sending, catching, delivering and returning from signals | |
| `Slab` | `kmalloc`, `kfree` | over `BuddyOps`; implements `Heap` |
| `Heap` | abstract: allocations that do not overlap | |
| `Vfs` | directories, mounts, path lookup, creation | |
| `Files` | open files and descriptors, through open, close, exec and death | |

Each module but `BuddyOps` and the abstract ones has an instance for TLC,
`MC`*name*.  Theorems about `Sched`, `Vm`, `RingBuffer`, `Interrupts`, `Uart` and
`Signals` are in modules of their own, *name*`Proofs`; those about `Buddy`,
`PageRef` and `Slab` are together in `MemoryProofs`, as they rest on the same
lemmas about `BuddyOps`, and those about `Files` and `Vfs` in
`FileSystemProofs`.  So that one module can extend several, `mem` is declared in
`BuddyOps`, and `PageRef`, `Slab` and `Vfs` name their formulas apart
(`RefsSpec`, `SlabSpec`, `VfsSpec`).

How they fit together: `Sched` says when another thread may run; the modules
about preemptible code (`PageRef`, `Interrupts`, `Uart`, `Vfs`, `Files`) take
from it that this may be at any step that is not in a critical section, and that
every thread runs again.  `Interrupts` justifies the ticks that `Sched` assumes,
and that an interrupt of the UART is served before anything else happens, which
`Uart` assumes.  `Uart` uses the queue that `RingBuffer` is proved to implement,
`Slab`, `PageRef` and `Buddy` share `BuddyOps`, `Vm` relies on the promise of `PagePool`.

**Sched.**  `queue` is `sched_queue`, `state[t]` and `alloc[t]` the state field
and the allocation of a task structure, `curr` is `sched_get_current()`,
`walk[i]` holds the two cursors of `list_for_each_entry_safe` in idle thread i.
`stack[t]` holds the kernel frames of t that have not returned, which is what
its saved context resumes: a frame says at which step of `schedule()` or
`sys_kill` it is and which thread its local pointer names.  The steps of
`schedule()` are the actions `TakeHead`, `DelNext`, `SkipDead`,
`FoundRunnable`, `Requeue`, `AllExited` and `ContextSwitch`; there is one action
for each step of the idle loop.  `Tick` pushes a call of `schedule()` on
whatever runs, if the constant `Windows` admits that place ("open" code always:
user programs, the idle walk, the shell).  `sys_fork` and `command_exec` run
with interrupts disabled (`kernel/syscall.c:66`, `shell/shell.c:148`), so they
are single actions; so is a list operation, in the middle of which no tick is
placed, and so is the search of `sched_get_task` (`kernel/sched.c:95`), although
its walk may be preempted: what can happen to it is what the idle walk shows,
and that the thread it finds may be freed before `sys_kill` writes to it.
The second thread an `exec` creates is a new idle thread, as `sched_start`
does it, and `AllExited` frees whatever thread it finds alone, as the code does
without looking whether it is the idle thread.

**BuddyOps, Buddy.**  `mem` has the free lists (sequences), the bitmaps (sets of
indexes), the order and the count of each page; the intrusive list nodes and the
words of a bitmap are abstracted.  The loops of `page_alloc` and `page_free`
are given by their result: the order they stop at, and the lists and bitmaps on
the way.  `buddy_init` is the scan `InitialLists`, from every set of reserved pages.
`held` is what callers remember of their blocks.

**PageRef.**  A task's `act` says at which step it is; other tasks run only when
each is in user mode or at a point that `Windows` names: "copy" (a write fault
has seen the page shared), "unlocked" (`irq_unlock` done, the count not yet
read again), "decided" (zero seen, `page_free` not yet called).

**Vm.**  `status`, `size`, `vmas` and `pt` are a task's life, program size,
areas and page table (four levels folded into one function), `mem` the
allocator as `PagePool` promises it, with the block a frame's count stands for,
`data` what the frames contain, and `stale` what the TLB holds beyond the page
tables.  `copy_tables` takes the write permission away without a flush
(`mm/vm.c:183`), so `Fork` adds the parent's writable pages to `stale`, where
`Store` may use them.  Other translations in the TLB are left out: they are as
the tables are, or less, and a missing permission only leads to a fault.  A switch to another task
flushes (`mmu_switch_to`, `mm/mmu.h:59`; `OnlyOf`: in every step of a task that
ran after another), and so do exec and a write fault (`Flushed`).  `vma_find_free` is modelled with its
stepping by the length; a populated mapping is one `kmalloc` block with one
count, as in the code.  Page table frames and the program's file are left out;
loading a page from the file gives it any contents.

**RingBuffer.**  The memory, both indexes, and the answer of the last read.

**Interrupts.**  `queue` is `irq_task_queue` as the sources of its tasks,
`handling` the global `irq_handling_task`, `events` the timer queue with times
relative to now, `compare` and `timerOn` the compare register and the enable
bit.  `stack[c]` holds the calls of `irq_handle()` that context c has not
returned from, each with its program counter, the task it picked and `ripe`, the
number of events due at the tick its `timer_irq_handle` read.  Interrupts may
come between any two actions.  The loop looks at the first task (`PickTask`),
takes it in the critical section (`TakeTask`), and calls what the global holds by
then (`CallTask`): an interrupt of the UART in between runs its task and leaves
null there, and the call through null ends what is modelled (`wild`).  Critical
sections (`Enter`, `TakeTask`) are single
actions, and so is each call of the timer queue: a nested interrupt *inside*
`pq_push` is not modelled.  `CallSchedule` switches to any thread.  The UART is
reduced to "has a reason to interrupt" and "is enabled".  `AllExited` drops the
stacks of threads: they are dead, and their contexts are not resumed.

**Uart.**  `rx`, `tx` are the two ring buffers, `ier` the enable register, `fifo`
what the device holds.  Characters are numbered in the order they are typed, so
that order and loss show.  `uart_async_putc` is three steps, the critical
section, the load and the store of the register; a poll of `uart_async_getc` is
one (its store to the register is inside the critical section); an interrupt is
one, as `Interrupts` shows that the UART's task runs first and with both
directions masked.  The device sends at once; what is typed into a full FIFO was
never received.

**Signals.**  `pending` is the set of bits of `sigpending`, where bits are taken
modulo 32 as the shift of an `int` does on this processor; `tf` and `saved` are
the trap frame and `sigcontext`, reduced to which code of which program runs.
A handler's address is the program it is a function of.  A process is in user
code or at the end of an exception; the actions `Interrupt`, `Fault`, `Signal`,
`Kill`, `Fork`, `Exec` and `Sigreturn` are whole exceptions and `Deliver` is
`signal_check` with `signal_handle`.  `frame[p]` is whose trap frame the
exception handler of p has the address of: a forked child leaves through a copy
of its parent's kernel stack, in which it is the parent's
(`kernel/syscall.c:101`), until it has returned to user code.  `Sigreturn` may
be called by any code, as `sys_sigreturn` does not ask who calls it.  `strayed`
remembers the processes to which one of the two has happened, the first with a
handler entered, the second with a left-over context restored.  Registers are
not part of a context.  Exceptions that end inside the kernel
(`exception/exception.c:36`) and lost updates of `sigpending` are not modelled.

**Slab.**  `mem` is the record of `BuddyOps`, `slabs[p]` the header at the start
of page p, `pools` the lists of slabs with free chunks, `owned` what callers
have.  Addresses are bytes, with scaled-down sizes.  Both functions are single
actions, as they are single critical sections; the large request leaves its own
before `page_alloc`, which has another.  When no block is left it changes nothing
(the code then answers `PA_TO_VA(NULL)`, which no caller tests, `mm/slab.c:56`).

**Vfs.**  A vnode is an index into `vnodes` and carries its inode: type, parent,
entries in the order of the list, and the mount pointer.  `Step` is the body of
the loop of `vfs_lookup`, `Walk` the loop; a lookup is one step.  Creation is
three steps: the search of the name (`BeginCreate`), the linking of an entry
(`Link`, up to `fs/tmpfs.c:87`), and the writing of its inode and vnode
(`Complete`), before which a lookup that meets the entry finds `Garbage`, as
does one below a file.  What a call does with such a pointer is not followed.
`vfs_mount` is two steps, one for each vnode it stores to (`Mount`,
`FinishMount`).  `sys_open` of
a directory or a second time of the same file changes nothing here.

**Files.**  `fdtable` and `files` are the descriptor tables and the struct files
in use, which `kmalloc` chooses freely among the unused; `call` holds the local
variables of a preempted `sys_open`, `sys_close` or `tmpfs_write`.  `sys_exec`
is one step.  With `UartHidden` the `vfs_open` calls of `proc_setup_fs` may
fail, and their slots get whatever pointer was on the stack.  File data is abstracted to how many bytes were ever stored.

## 3. Runs

| Run | Question | Result |
|---|---|---|
| `sched` | with ticks in open code and inside `sys_kill`: queue, reaping, switches, liveness | holds |
| `buddy` | all sequences of calls from all reservations | holds |
| `slab` | chunks of two sizes and blocks in any order; implements `Heap` | holds |
| `page_ref` | three tasks preempted before a copy or before `page_free` | holds |
| `page_ref_unlocked` | preempted between `irq_unlock` and the zero test | `FreedExactlyAtZero` violated |
| `vm` | two tasks, while memory lasts | holds |
| `ring_buffer` | all operations, and the answers of reads | holds |
| `interrupts` | nested and suspended interrupt tasks, timer events, liveness of ticks, until a call through null | holds |
| `uart` | two threads print and read against the interrupt, liveness | holds |
| `signals` | two processes, all signal operations with fork and exec, until a frame strays | holds |
| `vfs` | two processes create, mount and change directory | holds |
| `files` | two processes open, close, read, write, exec and die | holds |

The passing runs close some windows by their constants, and the configurations
in the next table open them one at a time.  So the passing runs read: *with that
window closed, everything else is right.*

### Further configurations

They stand beside the runs of PROJECT.json and are started by hand, with
`tlc -config <file> <module>`; all but the first find the violation named.

| Configuration | Module | What is open in it | Shows |
|---|---|---|---|
| `MCVmAreas` | `MCVm` | many lengths, hints and program sizes, one task | `AreasDisjoint` holds |
| `SchedNested` | `MCSched` | ticks inside `schedule()` | `FreedOnlyWhenDone` violated |
| `SchedReapPreempted` | `MCSched` | ticks inside `proc_release` | `ShellAfterAll` violated |
| `SchedTypeAhead` | `MCSched` | a second `exec` before the first tick | `ShellReturns` violated |
| `VmPopulateFork` | `MCVm` | populated mappings of several pages | `IsolatedSpaces` violated |
| `VmOutOfMemory` | `MCVm` | faults when no frame is free | `IsolatedSpaces` violated |
| `TimerEchoOverlap` | `MCInterrupts` | `echoat` events while programs run | `TimerArmed` violated |
| `VfsStacked` | `MCVfs` | mounts on `/` and on mounted directories | `DotDotReturns` violated |
| `FilesKilled` | `MCFiles` | kills inside `sys_open` and `sys_close` | `FdsOwnFiles` violated |
| `FilesUartHidden` | `MCFiles` | a mount over `/dev` hides `/dev/uart` from new processes | `FdsOwnFiles` violated |
| `FilesSeek` | `MCFiles` | seeks to before the start | `PositionsInside` violated |

Nine more properties are stated in the modules although the code does not keep
them.  TLC finds each violated as soon as it is added to the configuration of
its run, nothing else changed:

| Property | Add it to | As | Finding |
|---|---|---|---|
| `OutputLeaves` | `MCUart.cfg` | `PROPERTY` | 8 |
| `ContextSavedFirst` | `MCSignals.cfg` | `PROPERTY` | 9 |
| `NamesUnique` | `MCVfs.cfg` | `INVARIANT` | 10 |
| `CwdIsDirectory` | `MCVfs.cfg` | `INVARIANT` | 11 |
| `ReadsWritten` | `MCFiles.cfg` | `INVARIANT` | 14 |
| `SizeNeverShrinks` | `MCFiles.cfg` | `PROPERTY` | 14 |
| `TakenIsCalled` | `MCInterrupts.cfg` | `INVARIANT` | 16 |
| `EntriesHaveVnodes` | `MCVfs.cfg` | `INVARIANT` | 17 |
| `StoreIsPrivate` | `MCVm.cfg` | `PROPERTY` | 18 |

### Bounds, and why they are enough

* `sched`: two user threads and two idle threads.  Two users are the least
  with a fork, a kill of another thread, and a dead thread in front of a live
  one in the queue; with two idle threads the shell can run a second program
  after the first.  A thread that was freed does not come back, as
  32-bit pids do not; that its memory may hold a later thread is left out, and
  `NoDangling` forbids the pointers through which it would matter.  Frames nest at most three deep because a
  tick does not interrupt a tick (the timer is armed a period ahead first).
* `buddy`: eight pages and three orders: two top blocks, so that merging is
  stopped both by the last order and by the end of memory, and splits and
  merges go over two levels.  All 256 reservations are initial states.
  `MaxRefs` = 2 bounds the counts of callers.
* `page_ref`: four pages and three tasks, two that race and one that allocates
  the page freed between them.
* `vm`: pages of two addresses, so that a program of size 1 ends inside a page;
  four pages (program, one mapping, the gap that `vma_find_free` leaves below
  the stack, stack), so that its search succeeds for the first mapping and fails
  for the next, and a length that fits nowhere; four frames, two fewer than two tasks could map, so that frames
  are reused.  `MCVmAreas` trades the second task for six pages, two program
  sizes, three lengths and five hints, so that the search goes several steps.
* `ring_buffer`: four slots with two values cover a wrap of each index;
  the theorems lift the size.
* 32-bit counts wrap at `RefMod`; none gets near it.
* `interrupts`: two threads, one of which is suspended inside the handler while
  the other takes the next tick, besides the shell; two nested calls
  (`MaxNest`), which is the depth at which one loop works on the queue of
  another; a period of two and delays before and after it, so that a tick and
  an `echoat` come in either order; two `echoat` events at a time.  A call
  through null needs no more than that.
* `uart`: a buffer of two and a FIFO of one, so that both fill; four numbers are
  one more than both hold, so that loss and repetition show.
* `signals`: a sender and a receiver (either may be both, and the child of the
  other); one signal that may be sent, caught and ignored, besides the bits that
  a fault sets; one exec, so that there is an old program.
* `slab`: four pages, one reserved: blocks of one and two pages and two slabs at
  once; two chunk sizes, of which one slab holds four and two chunks; sizes
  that round up, and the first that does not fit a chunk.
* `vfs`: seven vnodes, three above those at boot; two mounts above the one at
  boot; one name is enough for two creations to collide.  The processes are
  symmetric (both properties are safety properties and name no process).
* `files`: two slots of which one is filled at the start, so that a table may be
  full, and four struct files, so that one may be reused; `MaxFileSize` = 2.
  Processes and struct files are symmetric (the properties of this run are
  invariants).

CHECK_DEADLOCK is off where the system may stop: all threads of `sched` used
up, all memory reserved in `buddy`, a copy waiting for a frame in `page_ref`
(its failure is the subject of `VmOutOfMemory`), no hint left in `vm`, all
processes dead in `signals`, a task called through null in `interrupts`, no page left in `slab`, no room left in `vfs` and
no struct file left in `files`.

### Fairness

`Sched`, `Interrupts`, `Uart` and `Signals` state liveness.

In `Sched`, kernel code that has started goes on
(weak fairness of the steps of `schedule()` and of the store of `sys_kill`, the
processor executes them); the timer interrupt stays pending until taken and is
armed again at each tick, so a tick that is possible again and again happens
(strong fairness); and an idle thread that is switched to again and again gets
to execute its next step (strong fairness), since a new deadline is set before
each switch and the slice is much longer than a step.  User programs are not
assumed to do anything.

In `Interrupts`, a handler that is under way goes on and time passes (weak
fairness); an interrupt whose line is raised and enabled again and again is
taken (strong fairness: the UART's comes first when both are raised).  Nothing
is assumed of programs, the shell and the serial line, nor that a context which
was switched away is resumed.

In `Uart`, each thread that is inside a driver function takes its next step
(weak fairness, from `Sched`), and an interrupt that is possible again and again
is taken (strong fairness, as other steps may disable it).  Nobody has to print,
read or type.

In `Signals`, an exception that has begun ends (weak fairness of `Check`).

### Findings

Each is shown by the run or configuration named, or, where a property is named,
by adding that property to its run.

1. The zero test of `page_refcount_update` is outside its critical section
   (`mm/buddy.c:226`): two tasks may both free a page (`page_ref_unlocked`).
   `mm/buddy.h:48` says that the page is freed when its count becomes zero.
2. `schedule()` takes a thread off the queue with interrupts enabled; a tick
   there may take the one remaining *user* thread for the idle thread and free
   it (`kernel/sched.c:33`; `SchedNested`).
3. A tick inside `proc_release` sends the processor back to the shell with a
   thread unlinked and never released (`kernel/sched.c:70`;
   `SchedReapPreempted`).  The comment at `kernel/sched.c:40` says "All threads
   have exited".
4. Each `exec` creates an idle thread; two of them never let the queue become
   empty, and the shell does not come back (`shell/shell.c:159`;
   `SchedTypeAhead`).
5. A block mapped by `MAP_POPULATE` has one count for all its pages
   (`mm/vm.c:113`): after a fork, tasks write each other's memory
   (`VmPopulateFork`).
6. `vm_fault_handle` maps physical page 0 when memory is exhausted
   (`mm/vm.c:130`), into several tasks (`VmOutOfMemory`).
7. If an `echoat` event is due before the tick, `periodic_schedule` adds itself
   behind it, does not arm the timer and switches away: the thread that runs
   next is not preempted (`drivers/timer.c:122`; `TimerEchoOverlap`).
8. Output queued while a character is received stays in the buffer until
   somebody prints again (`drivers/mini_uart.c:193`; `OutputLeaves`).
9. A forked child with a pending signal redirects its *parent* into the handler
   and saves the parent's context in its own `sigcontext`
   (`kernel/syscall.c:101`; `ContextSavedFirst`).  `kernel/sched.h:46` calls
   that field "Saved context before signal handler execution".
10. Two tasks may create the same name (`fs/tmpfs.c:141`; `NamesUnique`); the
    first entry keeps the name, the other is unreachable.
11. `sys_chdir` accepts a file (`kernel/syscall.c:274`; `CwdIsDirectory`).
12. With file systems mounted on one another, `..` crosses only one of them
    (`fs/vfs.c:24`; `VfsStacked`).
13. A task killed between `vfs_close` and the clearing of the slot closes the
    file again when it is released, by then perhaps another task's
    (`kernel/syscall.c:215`; `FilesKilled`).
14. `tmpfs_write` writes to the start of the file and counts from the position
    (`fs/tmpfs.c:204`; `ReadsWritten`), and two writers may make a file shorter
    (`fs/tmpfs.c:206`; `SizeNeverShrinks`).
15. `lseek` accepts positions before the start (`fs/initramfs.c:125`;
    `FilesSeek`).
16. An interrupt of the UART just before `irq_handle_pending_tasks` calls the
    task it took clears the global through which it does: the task is lost and
    the call goes through null (`exception/irq.c:95`; `TakenIsCalled`).
17. A new directory entry can be found before its inode points to a vnode
    (`fs/tmpfs.c:86`; `EntriesHaveVnodes`).
18. fork write-protects the parent's pages and does not flush the TLB: until the
    next switch or fault the parent may write frames it shares with the child
    (`mm/vm.c:183`; `StoreIsPrivate`).
19. `proc_setup_fs` does not look at what `vfs_open` returns: after a mount over
    `/dev`, new processes have uninitialised pointers for descriptors
    (`kernel/proc.c:54`; `FilesUartHidden`).

### Mutants

Each property of a passing run has a mutant: an operator, marked `mutant:` and
placed before the definition it would replace, that changes the code the way a
plausible mistake would, and under which TLC finds the property violated.

## 4. Theorems

All proofs are checked by TLAPS for every value of the constants.  They rest on
the named assumption of the module about its constants (`SchedAssumption`,
`BuddyAssumption`, `BuddyRefsAssumption`, `VmAssumption`, `RingAssumption`,
`InterruptsAssumption`, `UartAssumption`, `SignalsAssumption`,
`FilesAssumption`, `PageRefAssumption`, `SlabAssumption`, `VfsAssumption`),
which only says what kind of thing each constant is, and on the hypothesis in
the second column of the table below.  A
hypothesis closes a window the code leaves open; the configuration beside it
opens that window alone and shows the property fail, so that none can be
dropped.  The passing runs satisfy every hypothesis.  Five assumptions say a
little more:

* in `BuddyAssumption` the largest block divides the memory, as 2^10 pages
  divide `MAX_PAGES` (`mm/buddy.h:10`), without which `page_free` would merge
  with buddies beyond the memory, which count as free (`mm/buddy.c:61`);
* `BuddyRefsAssumption` bounds the references to a page below the 2^32 that its
  counter holds, and `PageRefAssumption` the number of tasks;
* in `SlabAssumption` each chunk size is half the next one exactly, every slab
  has a header and at least two chunks behind it, and requests fit the largest
  block - with one chunk to a slab, `kfree` would link a slab again that it
  ought to release (`mm/slab.c:124`);
* in `VfsAssumption` programs create neither "." nor "..".

| Theorem | Hypothesis | Without it |
|---|---|---|
| `SchedTypeCorrect` | - | |
| `SchedQueueComplete` | "schedule" not in `Windows` | `SchedNested` |
| `SchedNoDangling`, `SchedOnlyRunnableResumes`, `SchedFreedOnlyWhenDone`, `SchedShellAfterAll` | `Calm`: no tick inside `schedule()` or `proc_release`, only user threads are killed, no second `exec` before the first tick | `SchedNested`, `SchedReapPreempted`, `SchedTypeAhead` |
| `BuddyTypeCorrect`, `BuddyPartition`, `BuddyMasksMatchLists`, `BuddyFullyMerged`, `BuddyCountsFollowHolders`, `BuddyImplementsPagePool` | - | |
| `PageRefTypeCorrect`, `PageRefCounts`, `PageRefFreedExactlyAtZero` | `ReadAtOnce`: no task is preempted between the decrement of a count and the zero test | `PageRefUnlocked` |
| `SlabNothingKept`, `SlabIsHeap` | - | |
| `VmTypeCorrect`, `VmRefsCountMappings`, `VmSharedIsReadOnly`, `VmAreasDisjoint`, `VmIsolatedSpaces` | `Restricted`: memory lasts, populated mappings have one page | `VmOutOfMemory`, `VmPopulateFork` |
| `InterruptsTypeCorrect`, `InterruptsNoTaskLeft` | - | |
| `InterruptsTimerArmed` | `~EchoOverlaps`: no program runs while an `echoat` is pending | `TimerEchoOverlap` |
| `UartTypeCorrect`, `UartInputIntact` | - | |
| `SignalsTypeCorrect`, `SignalsOwnProgram`, `SignalsMainIsKept` | - | |
| `VfsDotDotReturns` | `~Stacked`: nothing is mounted on `/` or on what is mounted already | `VfsStacked` |
| `VfsPathsAreStable` | - | |
| `FilesTypeCorrect`, `FilesOwned`, `FilesNotLost` | `Undisturbed`: no process dies inside `sys_open` or `sys_close`, nothing is mounted over `/dev` | `FilesKilled`, `FilesUartHidden` |
| `RingTypeCorrect`, `RingIsBoundedFifo` | - | |

Each proof has an inductive invariant, one lemma per action or group of actions
that it is kept, and one lemma that it implies the property.  Why the properties
are not inductive, and what is added:

* **Sched.** The set `Frames` ties the thread a frame holds to its step, which
  makes the type invariant inductive: that `schedule()` only ever switches to a
  thread or the shell is part of it.  `QueueComplete` does not say who holds a
  thread outside the queue.  `IInv` adds `Marks` (all frames but the innermost
  of the running thread belong to preempted `sys_kill` calls, so only one
  `schedule()` is under way) and `QInv` (queue, thread in hand, and threads
  being released by idle threads are disjoint, pairwise different, and together
  the allocated threads).  The proof also covers windows that the run `sched`
  leaves out ("release"), where the queue is right but the shell resumes too
  early.  The other four follow from `JInv`, which says of each pointer a step
  keeps why it is still valid: the `next` of `schedule()` (`TopOK`), the
  current thread (`CurrOK`), the target of a `sys_kill` (`Targets`) and both
  cursors of the idle walk (`Cursors`).  The argument for the latter needs
  `Guarded` - where a user thread lives, one idle thread does, and one only -
  because two walks would free each other's saved `next`.
* **Buddy.** The loops of `page_alloc` and `page_free` climb the orders; what
  they do is said of two orders at a time.  Aligned blocks of two orders are
  nested or disjoint (`BlocksNested`), and the block of order m around a page is
  made of the block of order o around it and of the buddies at the orders in
  between (`PartsOfWhole`): a split takes these parts apart and a merge puts
  them together (`AllocEffect`, `FreeEffect`), so each exchanges blocks for
  others that are disjoint and cover the same pages (`Exchange`).  The invariant
  `Sound` adds to the properties that of two buddies below the largest order one
  is not free (`Merged`).  `FullyMerged` follows from it upwards through the
  orders: if all of an aligned block is free and its halves are in free blocks,
  those blocks are not the halves, so one is larger (`MergedCovers`).
  `InitialLists` is a recursive function; that it exists is proved
  (`ScanExists`), and that its blocks are the unreserved pages without two free
  buddies, because it takes the largest block that fits (`InitialListsScanned`).
  Where a proof goes up the orders or down the pages it takes the first
  counterexample (`LeastExists`, `UpTo`), as the induction theorems of the
  library cannot be used.  `BuddyImplementsPagePool` maps the free pages to
  those that are neither reserved nor held (`FreeAreTheRest`).
* **PageRef.** In this module every block is one page, so the lemmas about
  `BuddyOps` become `Books`: the free blocks and a set of pages are the memory.
  That set is `Kept`, the pages somebody holds or has seen at zero and is about
  to give to `page_free` (`Gone`), and no two tasks have seen the same page at
  zero.  `CountIsHolders` needs that one page at a time is in a critical
  section, which the guards of the windows say (`MayRun`, lemma `RunsAlone`).
  `sys_fork` counts all its parent's pages through a fold; what the fold does
  to them in whatever order is `SharedCounts`, by way of the first of its
  subsets for which it would do something else.
* **Slab.** `NothingKept` and `HeapSpec` speak of addresses; the invariant
  `SlabInv` speaks of slabs.  Every slab is cut into chunks of one size (`Cut`),
  a pool links exactly the slabs of its size with a free chunk (`Linked`), what
  callers own is the large blocks and the chunks that no list has
  (`ChunksOut`), and slabs and large blocks are what the page allocator has
  handed out (`Backed`, over the same `Sound` as `Buddy`).  That no slab is
  unused is part of it, as `kfree` finds that out by the length of the list: a
  list of different chunks is complete when it is as long as there are chunks
  (`ChunksCount`, `CompleteList`).  Chunk sizes differ (`ChunkSizesDiffer`), so
  the pool `kfree` looks up is the one that `kmalloc` chose; no chunk starts a
  page, so `kfree` tells chunks from blocks.  For `SlabIsHeap`, what lies in one
  slab or block does not reach into the next (`BytesUnder`), and the chunks of a
  slab do not overlap (`BytesApart`).
* **Vm.** The count of a frame is per page-table entry, so `IInv` says that no
  task maps a frame twice (`EntriesInjective`), that the count is the number of
  tasks that do and is zero for the free frames only (`Counted`), that every
  block is one frame (`SingleBlocks`), and that of two tasks with a frame in
  common neither may write it (`Protected`).  For the areas it says where the
  stack is (`HasStack`) and that areas start at pages (`StartsAligned`):
  `vma_find_free` tests only for overlap, and what it finds is between them.
  `VmIsolatedSpaces` is the refinement of `AddressSpaces`: a fork, a fault, a
  store, an exec and a release each map to a step of the abstract memories or to
  a stutter.  For the stores through stale translations `TlbPart` adds that a
  stale page is mapped (`StaleIsMapped`) and that whoever else has its frame has
  it at the same page (`StaleInPlace`): then the pages that such a store reaches
  are those `Late` names, which the abstract memories admit until the storer
  loses the processor.
* **Interrupts.** The queue of tasks may be non-empty when a loop ends, because
  the loop compares with the global `irq_handling_task`, which may be the task
  of another call or of another thread.  `Order` says why somebody still looks
  at it.  A source with a queued task is masked, so the queue is one of four
  (`QueueOK`, `Masked`).  While the UART's task counts as handled, the call that
  runs it, or has taken it and is about to call it, is the innermost of the
  *running* context that has got anywhere (`UartRuns`) - calls above it have not run a task - and so it will return to
  its loop; a call above it that has picked a task picked the UART's
  (`PickedUart`).  With the timer's task nothing like that can be said, as its
  context may have been preempted, but nothing waits for it either: the timer's
  priority is the lowest, and the queue is empty whenever the timer's task runs
  or is about to be called (`Emptied`).  For `TimerArmed`, `JInv` adds that while programs run the
  periodic event is the only one, and `ArmedLater`: the timer is armed, or its
  task is queued, or a call of `timer_irq_handle` is still on the stack of the
  running context; and if that context is about to call `schedule()`, this holds
  without the call itself, so that it is armed when the context goes away.
* **Uart.** `InputIntact` speaks of device, buffer and reader together.  The
  invariant is the same statement one queue at a time (`RxIntact`, `FifoIntact`,
  `TypedIntact`), over numbers that wrap around; that a buffer which is not full
  is not overwritten is `PutIntoQueue`.
* **Signals.** Whatever exec leaves behind is harmless: pending bits are
  delivered to handlers of the present program only (`OwnHandlers`), and a saved
  context of the old program is overwritten before anything restores it
  (`OwnSaved`) - as long as only handlers call sigreturn, and each process works
  on its own trap frame, which is what `~strayed` in the properties says.
* **Files.** A struct file in use is held by a descriptor or by a `sys_open`
  that has not yet installed it, by one of them only (`HeldOnce`,
  `OpeningOwns`), and is in use (`HeldIsOpen`, `OpeningIsOpen`); one that nobody
  holds was overwritten by exec (`OpenIsHeld`).  `sys_close` holds nothing any
  more once it has closed the file, although its slot still names it.
* **Vfs.** The lookup is written once more as operators on any vnodes and mounts
  (`StepIn`, `WalkIn`), so that lemmas about it hold before and after a step.
  A mount pointer leads to a younger vnode (`Tree`), so that following mounts
  upward ends, also when they are stacked (`UpExists`, `UppermostIs`), and leads
  to the same place as long as the pointers stay (`UppermostKept`).
  `VfsPathsAreStable`: a new entry is the last of its directory, so whatever is
  found by name stays found (`LookupKept`), component by component; and an entry
  whose vnode is not written yet leads to none, so writing it changes no path
  that led to one.
  `VfsDotDotReturns` adds that each mount has exactly two vnodes, which point to
  it (`OneLevel`; a third would be the root that is covered in turn), and that
  an entry's vnode has the directory as its parent and is not the root of a file
  system (`Entries`): down through a mount and up is then the way back
  (`DownAndUp`).
* **RingBuffer.** For every power of two the indexes stay in the memory, and
  under `Contents` each operation is one of the abstract queue.

Only model-checked, and why:

* All liveness: `EveryRunnableRuns`, `DeadAreReaped`, `ShellReturns`,
  `TicksKeepComing`, `ReaderServed`, `OutputLeavesAlone`, `FaultKills`.  Fairness
  and `ENABLED` are out of this prover's reach.

Every safety property of a passing run is a theorem.  `Paths` has the paths of
one and of two components, in the run and in `VfsPathsAreStable`; a longer one
is walked from where those lead, and `GoKept` says of a step from any vnode that
what it finds is kept.

## 5. Not modelled

* **The earlier labs** (`src/lab0` to `src/lab6`).  They are earlier states of
  the same kernel, kept as copies: every file of `lab7/kernel` that is modelled
  has up to six older versions, which nothing links to it.  Modelling them would
  say of superseded code what is said here of the code in use.  They are most of
  the repository's lines.
* **Code that runs once at boot**, on one core, before interrupts are enabled:
  MMU set-up, device tree, cpio parser, registration of devices and file
  systems, `vfs_mknod`.  No order of events can disturb it.
* **Register save and restore** (`asm/entry.S`) and register contents, also the
  result of `sys_sigreturn`, which is stored over the restored `x0`
  (`kernel/syscall.c:336`), as is the 0 that a forked child gets - which it also
  stores in its parent's trap frame.
* **Strings, formatting, the boot-time bump allocator** (`src/utils.c`), the
  polling UART functions and the shell's commands that only print.
* **The other side of the hardware**: mailbox, power, frame buffer.  What a
  second mailbox call does to the first depends on the video core.
* **The bootloader and the host tool.**  One side sends, the other counts; there
  is neither acknowledgement nor retry.
* **Windows inside list operations and read-modify-writes**: ticks come between
  list operations, not inside one.  `timer_add_event` calls `pq_push` outside a
  critical section (`drivers/timer.c:118`), `sigpending` is changed by a load
  and a store (`kernel/syscall.c:164`), a lookup of a path or of a pid
  (`fs/vfs.c:22`, `kernel/sched.c:95`) walks lists that others change.
* **Operations a file system lacks** (`lseek64` of the UART, `ioctl` of tmpfs):
  the code calls a null pointer, which no state of these models describes.

The share of the repository's lines that the map of PROJECT.json names is small
for the first of these reasons: it names about a quarter of all lines of
`lab7/kernel`, headers, comments and tables of constants included, and none of
its predecessors.

## 6. Plan

1. `Signals` with two steps for each change of `sigpending`, and with exceptions
   that end inside the kernel.
2. A mailbox with a request and an answer in flight, for `sys_mboxcall`.
