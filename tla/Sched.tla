-------------------------------- MODULE Sched --------------------------------
(***************************************************************************)
(* The run queue of the kernel: schedule(), the idle thread that reaps,    *)
(* the periodic timer that preempts, and the system calls that change a    *)
(* thread's state (kernel/sched.c, kthread.c, the scheduling part of       *)
(* syscall.c and shell.c).                                                 *)
(*                                                                         *)
(* There is one core.  `curr` is the thread that executes; the steps of    *)
(* its kernel code are separate actions, so that a timer interrupt, which  *)
(* calls schedule() on top of whatever it interrupts, can be placed        *)
(* between any two of them.  `stack[t]` holds the kernel frames of t that  *)
(* have not returned; it is what the saved context of t resumes.           *)
(***************************************************************************)
EXTENDS Integers, Sequences

CONSTANTS
  Users,      \* user threads that may ever be created
  Idles,      \* idle threads: one is created by each run of sched_start()
  Shell,      \* the placeholder task `init`, whose context runs the shell
  Nobody,     \* no thread: a null pointer, or the head of the list in a walk
  Windows,    \* the kernel windows in which a timer interrupt may land
  Killable,   \* the threads whose pid a program passes to kill()
  TypeAhead   \* may the shell run a second `exec` before the first tick?

Threads == Users \cup Idles

WindowNames == {"schedule", "release", "kill"}

ASSUME SchedAssumption ==
  /\ Users \cap Idles = {}
  /\ Shell \notin Threads /\ Nobody \notin Threads /\ Shell # Nobody
  /\ Windows \subseteq WindowNames
  /\ Killable \subseteq Threads
  /\ TypeAhead \in BOOLEAN

VARIABLES
  queue,   \* sched_queue, head first
  state,   \* the `state` field of each thread
  alloc,   \* whether the structure of a thread is allocated: "unborn", "live", "freed"
  curr,    \* sched_get_current()
  stack,   \* the kernel frames of each thread, innermost last
  walk     \* where each idle thread is in its walk over the queue

vars == <<queue, state, alloc, curr, stack, walk>>

Contexts == Threads \cup {Shell}

\* A frame of schedule() (up to "switch") or of sys_kill() ("mark"), with its local thread
\* pointer; irq tells the schedule() called by the timer from that of a system call.
Frames ==
  [pc : {"head"}, thr : {Nobody}, irq : BOOLEAN]
    \cup [pc : {"del", "test", "check", "mark"}, thr : Threads, irq : BOOLEAN]
    \cup [pc : {"switch"}, thr : Contexts, irq : BOOLEAN]

(***************************************************************************)
(* Lists.                                                                  *)
(***************************************************************************)
InQueue(q, t) == \E i \in 1..Len(q) : q[i] = t

Place(q, t) == CHOOSE i \in 1..Len(q) : q[i] = t

\* list_del(&t->list)
Unlink(q, t) ==
  LET k == Place(q, t)
  IN  [i \in 1..(Len(q) - 1) |-> IF i < k THEN q[i] ELSE q[i + 1]]

\* the entry after t, or Nobody when the walk is back at the head of the list
After(q, t) ==
  IF InQueue(q, t) /\ Place(q, t) < Len(q) THEN q[Place(q, t) + 1] ELSE Nobody

First(q) == IF q = <<>> THEN Nobody ELSE Head(q)

(***************************************************************************)
(* Frames of the running thread.                                           *)
(***************************************************************************)
Depth == Len(stack[curr])
Top   == stack[curr][Depth]

AtPc(pc) == Depth > 0 /\ Top.pc = pc

Goto(pc, t) ==
  stack' = [stack EXCEPT ![curr] = [@ EXCEPT ![Depth] = [pc |-> pc, thr |-> t, irq |-> Top.irq]]]

Push(pc, t, irq) ==
  stack' = [stack EXCEPT ![curr] = Append(@, [pc |-> pc, thr |-> t, irq |-> irq])]

Pop == stack' = [stack EXCEPT ![curr] = SubSeq(@, 1, Depth - 1)]

\* a call of schedule(): it returns at once when the queue is empty
EnterSchedule(irq) ==
  IF queue = <<>> THEN UNCHANGED stack ELSE Push("head", Nobody, irq)

InUserMode(u) == u \in Users /\ curr = u /\ Depth = 0

(***************************************************************************)
(* schedule().                                                             *)
(***************************************************************************)
\* next = list_entry(sched_queue.next)
TakeHead ==
  /\ AtPc("head")
  /\ queue # <<>>
  /\ Goto("del", Head(queue))
  /\ UNCHANGED <<queue, state, alloc, curr, walk>>

\* mutant: next is read but stays in the queue
DelNextKeeps ==
  /\ AtPc("del")
  /\ InQueue(queue, Top.thr)
  /\ Goto("test", Top.thr)
  /\ UNCHANGED <<queue, state, alloc, curr, walk>>

\* list_del(&next->list)
DelNext ==
  /\ AtPc("del")
  /\ InQueue(queue, Top.thr)
  /\ queue' = Unlink(queue, Top.thr)
  /\ Goto("test", Top.thr)
  /\ UNCHANGED <<state, alloc, curr, walk>>

\* the body of the while loop: a dead thread goes to the tail, the next head is read
SkipDead ==
  /\ AtPc("test")
  /\ state[Top.thr] = "dead"
  /\ queue' = Append(queue, Top.thr)
  /\ Goto("del", Head(queue'))
  /\ UNCHANGED <<state, alloc, curr, walk>>

\* mutant: the state of the next thread is not tested
FoundAny ==
  /\ AtPc("test")
  /\ Goto("check", Top.thr)
  /\ UNCHANGED <<queue, state, alloc, curr, walk>>

FoundRunnable ==
  /\ AtPc("test")
  /\ state[Top.thr] # "dead"
  /\ Goto("check", Top.thr)
  /\ UNCHANGED <<queue, state, alloc, curr, walk>>

\* mutant: list_add instead of list_add_tail
RequeueAtHead ==
  /\ AtPc("check")
  /\ queue # <<>>
  /\ queue' = <<Top.thr>> \o queue
  /\ Goto("switch", Top.thr)
  /\ UNCHANGED <<state, alloc, curr, walk>>

\* mutant: the last entry goes back to the queue like any other
RequeueAlways ==
  /\ AtPc("check")
  /\ queue' = Append(queue, Top.thr)
  /\ Goto("switch", Top.thr)
  /\ UNCHANGED <<state, alloc, curr, walk>>

\* more threads remain: next stays in the queue, at the tail
Requeue ==
  /\ AtPc("check")
  /\ queue # <<>>
  /\ queue' = Append(queue, Top.thr)
  /\ Goto("switch", Top.thr)
  /\ UNCHANGED <<state, alloc, curr, walk>>

\* mutant: next is cleared, not set to the shell
AllExitedNowhere ==
  /\ AtPc("check")
  /\ queue = <<>>
  /\ alloc' = [alloc EXCEPT ![Top.thr] = "freed"]
  /\ Goto("switch", Nobody)
  /\ UNCHANGED <<queue, state, curr, walk>>

\* mutant: the idle thread is left behind
AllExitedLeaks ==
  /\ AtPc("check")
  /\ queue = <<>>
  /\ Goto("switch", Shell)
  /\ UNCHANGED <<queue, state, alloc, curr, walk>>

\* next was the only entry: it is taken for the idle thread and freed
AllExited ==
  /\ AtPc("check")
  /\ queue = <<>>
  /\ alloc' = [alloc EXCEPT ![Top.thr] = "freed"]
  /\ Goto("switch", Shell)
  /\ UNCHANGED <<queue, state, curr, walk>>

\* context_switch(curr, next)
ContextSwitch ==
  /\ AtPc("switch")
  /\ curr' = Top.thr
  /\ Pop
  /\ UNCHANGED <<queue, state, alloc, walk>>

ScheduleStep ==
  TakeHead \/ DelNext \/ SkipDead \/ FoundRunnable \/ Requeue \/ AllExited \/ ContextSwitch

(***************************************************************************)
(* The timer interrupt: periodic_schedule() calls schedule() on top of the *)
(* interrupted code.  Window names the code it interrupts.  The schedule() *)
(* of a tick is not interrupted by the next one: periodic_schedule() arms  *)
(* the timer a full period ahead before it calls schedule().               *)
(***************************************************************************)
Window ==
  IF Depth > 0 THEN (IF Top.irq THEN "tick" ELSE IF Top.pc = "mark" THEN "kill" ELSE "schedule")
  ELSE IF curr \in Idles /\ walk[curr].pc = "release" THEN "release"
  ELSE "open"

Tick ==
  /\ Window \in Windows \cup {"open"}
  /\ queue # <<>>
  /\ EnterSchedule(TRUE)
  /\ UNCHANGED <<queue, state, alloc, curr, walk>>

(***************************************************************************)
(* The idle thread: an endless walk over the queue with                    *)
(* list_for_each_entry_safe(thrd, tmp, ...), which releases the dead.      *)
(***************************************************************************)
IdleRuns(i) == i \in Idles /\ curr = i /\ Depth = 0

Walking(i) == IdleRuns(i) /\ walk[i].pc = "walk"

\* pos = tmp, tmp = the entry after tmp
Advance(i, q) ==
  walk' = [walk EXCEPT ![i] =
             [pc |-> "walk", pos |-> walk[i].tmp, tmp |-> After(q, walk[i].tmp)]]

IdleStart(i) ==
  /\ Walking(i)
  /\ walk[i].pos = Nobody
  /\ walk' = [walk EXCEPT ![i] =
                [pc |-> "walk", pos |-> First(queue), tmp |-> After(queue, First(queue))]]
  /\ UNCHANGED <<queue, state, alloc, curr, stack>>

IdlePass(i) ==
  /\ Walking(i)
  /\ walk[i].pos # Nobody
  /\ state[walk[i].pos] # "dead"
  /\ Advance(i, queue)
  /\ UNCHANGED <<queue, state, alloc, curr, stack>>

\* mutant: the state is not tested
IdleUnlinkAny(i) ==
  /\ Walking(i)
  /\ walk[i].pos # Nobody
  /\ InQueue(queue, walk[i].pos)
  /\ queue' = Unlink(queue, walk[i].pos)
  /\ walk' = [walk EXCEPT ![i].pc = "release"]
  /\ UNCHANGED <<state, alloc, curr, stack>>

\* list_del(&thrd->list) of a dead thread
IdleUnlink(i) ==
  /\ Walking(i)
  /\ walk[i].pos # Nobody
  /\ state[walk[i].pos] = "dead"
  /\ InQueue(queue, walk[i].pos)
  /\ queue' = Unlink(queue, walk[i].pos)
  /\ walk' = [walk EXCEPT ![i].pc = "release"]
  /\ UNCHANGED <<state, alloc, curr, stack>>

\* mutant: the cursor stays on the released thread
IdleReleaseStays(i) ==
  /\ IdleRuns(i)
  /\ walk[i].pc = "release"
  /\ alloc' = [alloc EXCEPT ![walk[i].pos] = "freed"]
  /\ walk' = [walk EXCEPT ![i].pc = "walk"]
  /\ UNCHANGED <<queue, state, curr, stack>>

\* mutant: the thread is unlinked but never released
IdleReleaseLeaks(i) ==
  /\ IdleRuns(i)
  /\ walk[i].pc = "release"
  /\ Advance(i, queue)
  /\ UNCHANGED <<queue, state, alloc, curr, stack>>

\* proc_release(thrd)
IdleRelease(i) ==
  /\ IdleRuns(i)
  /\ walk[i].pc = "release"
  /\ alloc' = [alloc EXCEPT ![walk[i].pos] = "freed"]
  /\ Advance(i, queue)
  /\ UNCHANGED <<queue, state, curr, stack>>

IdleStep(i) == IdleStart(i) \/ IdlePass(i) \/ IdleUnlink(i) \/ IdleRelease(i)

(***************************************************************************)
(* What user threads ask for.                                              *)
(***************************************************************************)
Yield(u) ==
  /\ InUserMode(u)
  /\ EnterSchedule(FALSE)
  /\ UNCHANGED <<queue, state, alloc, curr, walk>>

\* kthread_exit(), and the default action of a signal
Exit(u) ==
  /\ InUserMode(u)
  /\ state' = [state EXCEPT ![u] = "dead"]
  /\ EnterSchedule(FALSE)
  /\ UNCHANGED <<queue, alloc, curr, walk>>

\* sys_kill: sched_get_task() finds the thread in the queue ...
KillFind(u, t) ==
  /\ InUserMode(u)
  /\ t \in Killable
  /\ InQueue(queue, t)
  /\ Push("mark", t, FALSE)
  /\ UNCHANGED <<queue, state, alloc, curr, walk>>

\* ... and its state is overwritten
KillMark ==
  /\ AtPc("mark")
  /\ state' = [state EXCEPT ![Top.thr] = "dead"]
  /\ Pop
  /\ UNCHANGED <<queue, alloc, curr, walk>>

\* kthread_create + sched_enqueue_task, with interrupts disabled by sys_fork
Fork(u, c) ==
  /\ InUserMode(u)
  /\ c \in Users /\ alloc[c] = "unborn"
  /\ alloc' = [alloc EXCEPT ![c] = "live"]
  /\ state' = [state EXCEPT ![c] = "runnable"]
  /\ queue' = Append(queue, c)
  /\ UNCHANGED <<curr, stack, walk>>

\* command_exec + sched_start: the program and then an idle thread are queued
ShellExec(u, i) ==
  /\ curr = Shell /\ Depth = 0
  /\ TypeAhead \/ queue = <<>>
  /\ u \in Users /\ alloc[u] = "unborn"
  /\ i \in Idles /\ alloc[i] = "unborn"
  /\ alloc' = [alloc EXCEPT ![u] = "live", ![i] = "live"]
  /\ state' = [state EXCEPT ![u] = "runnable", ![i] = "runnable"]
  /\ queue' = Append(Append(queue, u), i)
  /\ UNCHANGED <<curr, stack, walk>>

(***************************************************************************)
(* The specification.                                                      *)
(***************************************************************************)
Init ==
  /\ queue = <<>>
  /\ state = [t \in Threads |-> "runnable"]
  /\ alloc = [t \in Threads |-> "unborn"]
  /\ curr = Shell
  /\ stack = [c \in Contexts |-> <<>>]
  /\ walk = [i \in Idles |-> [pc |-> "walk", pos |-> Nobody, tmp |-> Nobody]]

Next ==
  \/ ScheduleStep
  \/ Tick
  \/ \E i \in Idles : IdleStep(i)
  \/ KillMark
  \/ \E u \in Users :
        \/ Yield(u)
        \/ Exit(u)
        \/ \E t \in Threads : KillFind(u, t)
        \/ \E c \in Users : Fork(u, c)
        \/ \E i \in Idles : ShellExec(u, i)

Spec == Init /\ [][Next]_vars

\* Kernel code that has started goes on; the timer line stays raised until the
\* interrupt is taken; a thread that is switched to has a time slice in which
\* its next instruction executes (timer_add_event sets the new deadline before
\* schedule() is called).  User programs owe nothing.
Fairness ==
  /\ WF_vars(ScheduleStep)
  /\ WF_vars(KillMark)
  /\ SF_vars(Tick)
  /\ \A i \in Idles : SF_vars(IdleStep(i))

FairSpec == Spec /\ Fairness

(***************************************************************************)
(* Properties.                                                             *)
(***************************************************************************)
\* Every variable keeps its type.
TypeOK ==
  /\ queue \in Seq(Threads)
  /\ state \in [Threads -> {"runnable", "dead"}]
  /\ alloc \in [Threads -> {"unborn", "live", "freed"}]
  /\ curr \in Contexts
  /\ stack \in [Contexts -> Seq(Frames)]
  /\ walk \in [Idles -> [pc : {"walk", "release"},
                         pos : Threads \cup {Nobody}, tmp : Threads \cup {Nobody}]]

Live == {t \in Threads : alloc[t] = "live"}

\* the thread schedule() has taken out of the queue and not yet put back
Held(c) == IF stack[c] # <<>> /\ stack[c][Len(stack[c])].pc \in {"test", "check"}
           THEN {stack[c][Len(stack[c])].thr} ELSE {}

\* the thread an idle thread has taken out of the queue and not yet freed
BeingReleased(i) == IF walk[i].pc = "release" THEN {walk[i].pos} ELSE {}

OutOfQueue == (UNION {Held(c) : c \in Contexts}) \cup (UNION {BeingReleased(i) : i \in Idles})

\* No thread is lost or queued twice: the allocated threads are those of the queue, each
\* there once, and those that schedule() or the idle thread is holding at this moment.
QueueComplete ==
  /\ \A i, j \in 1..Len(queue) : queue[i] = queue[j] => i = j
  /\ {queue[i] : i \in 1..Len(queue)} \cup OutOfQueue = Live
  /\ \A t \in OutOfQueue : ~InQueue(queue, t)

\* No thread pointer the kernel holds across steps (the current thread, the `next` of
\* schedule(), the target of kill(), both cursors of the idle walk) refers to a freed
\* structure.  There are two exceptions: the idle thread, which schedule() frees while it
\* is the current thread, one step before it leaves it for the shell; and the target of a
\* sys_kill that a tick preempts between its lookup and its store.
NoDangling ==
  /\ curr \in Live \cup {Shell}
     \/ (curr \in Idles /\ AtPc("switch") /\ Top.thr = Shell)
  /\ \A c \in Contexts : \A k \in 1..Len(stack[c]) :
       stack[c][k].thr \notin Live \cup {Shell, Nobody} =>
         stack[c][k].pc = "mark" /\ "kill" \in Windows
  /\ \A i \in Idles : alloc[i] = "live" =>
        /\ walk[i].pos \in Live \cup {Nobody}
        /\ walk[i].tmp \in Live \cup {Nobody}

\* A switch never resumes a thread that is dead or whose structure is gone.
OnlyRunnableResumes ==
  [][curr' # curr => curr' = Shell \/ (state[curr'] = "runnable" /\ alloc[curr'] = "live")]_vars

\* The structure of a thread is freed only when the thread is dead and another thread
\* executes; the idle thread goes last, when no user thread is left.
FreedOnlyWhenDone ==
  [][\A t \in Threads : alloc[t] = "live" /\ alloc'[t] = "freed" =>
       IF t \in Idles THEN \A u \in Users : alloc[u] # "live"
       ELSE state[t] = "dead" /\ curr # t]_vars

\* The shell gets the processor back only after every program it started has been
\* released (sched.c:40: "All threads have exited (except `idle()`), return to shell").
ShellAfterAll ==
  [][curr' = Shell /\ curr # Shell => \A t \in Threads : alloc[t] # "live"]_vars

\* Round robin starves nobody: a runnable thread runs, or is killed before its turn.
EveryRunnableRuns ==
  \A t \in Threads : (alloc[t] = "live" /\ state[t] = "runnable") ~> (curr = t \/ state[t] = "dead" \/ alloc[t] = "freed")

\* A thread that exited or was killed is eventually reaped by the idle thread.
DeadAreReaped ==
  \A t \in Threads : (alloc[t] = "live" /\ state[t] = "dead") ~> alloc[t] = "freed"

\* When no user thread is runnable any more, the shell gets the processor back
\* (sched.c:40).  A thread that killed itself runs on to the end of its time slice, and
\* may fork a runnable child before it goes.
ShellReturns ==
  (\A u \in Users : alloc[u] = "live" => state[u] = "dead")
    ~> (curr = Shell \/ \E u \in Users : alloc[u] = "live" /\ state[u] = "runnable")
===============================================================================
