----------------------------- MODULE Interrupts -----------------------------
(***************************************************************************)
(* Interrupt tasks and timer events (exception/irq.c, drivers/timer.c,     *)
(* src/priority_queue.c) under a preemptive scheduler.                     *)
(*                                                                         *)
(* irq_handle() masks the source, queues a task and runs what the queue    *)
(* holds, with interrupts enabled again: it nests, and since a task of the *)
(* timer calls schedule(), a thread may be left in the middle of it for as *)
(* long as others run.  `stack[c]` holds the calls of irq_handle() that    *)
(* have not returned in context c; what the context does outside them is   *)
(* "open" code.  Times are relative to now; 0 means due.                   *)
(*                                                                         *)
(* Between taking a task and calling it interrupts are enabled, and the    *)
(* task is called through the global, which a nested call may have         *)
(* cleared.  A call through the null pointer leads to whatever the word at *)
(* virtual address 0 says: the call stays at "wild", and nothing is        *)
(* claimed from there on.                                                  *)
(***************************************************************************)
EXTENDS Integers, Sequences, FiniteSets, SequencesExt

CONSTANTS
  Threads,      \* user and idle threads, once programs run
  Shell,        \* the context of the shell
  None,         \* a null pointer
  Period,       \* the period of periodic_schedule, in units of time
  EchoDelays,   \* the delays `echoat` is called with
  EchoOverlaps, \* may programs run while an `echoat` event is pending?
  MaxEchoes,    \* bound: `echoat` events pending at a time
  MaxNest       \* bound: calls of irq_handle() nested in one context

Contexts == Threads \cup {Shell}
Sources  == {"uart", "timer"}
Priority == [uart |-> 0, timer |-> 1]

ASSUME InterruptsAssumption ==
  /\ Threads # {} /\ Shell \notin Threads /\ None \notin Sources
  /\ Period \in Nat \ {0} /\ EchoDelays \subseteq Nat \ {0}
  /\ EchoOverlaps \in BOOLEAN
  /\ MaxEchoes \in Nat /\ MaxNest \in Nat \ {0}

VARIABLES
  queue,     \* irq_task_queue: the sources of the tasks
  handling,  \* irq_handling_task, the global, not a local of a call
  events,    \* timer_event_queue
  compare,   \* cntp_cval: when the timer raises its line
  timerOn,   \* the timer interrupt is enabled
  uartOn,    \* a UART interrupt is enabled
  uartLine,  \* the UART has a reason to interrupt
  started,   \* sched_queue is not empty: schedule() does switch
  curr,      \* the context that executes
  stack

vars == <<queue, handling, events, compare, timerOn, uartOn, uartLine, started, curr, stack>>
timerVars == <<events, compare, timerOn>>
uartVars  == <<uartOn, uartLine>>

Codes    == {"loop", "picked", "taken", "uart", "timer", "events", "called", "done", "wild"}
Frames   == [pc : Codes, task : Sources \cup {None}, ripe : Nat]
Events   == [kind : {"periodic", "echo"}, left : Nat]

\* pq_push: before the first of the entries that comp puts behind the new one
Insert(q, new, behind) ==
  IF behind = {} THEN Append(q, new)
  ELSE InsertAt(q, CHOOSE i \in behind : \A j \in behind : i <= j, new)

\* mutant: only a strictly higher priority goes first
StrictlyHigher(new, n) == Priority[new] < Priority[n]

\* irq_task_comp
TaskComp(new, n) == Priority[new] <= Priority[n]

\* timer_event_comp
EventComp(new, n) == new.left < n.left

Open    == stack[curr] = <<>>
Top     == Last(stack[curr])
AtPc(p) == ~Open /\ Top.pc = p

Return   == stack' = [stack EXCEPT ![curr] = Front(@)]
GotoTop(frame) == [stack EXCEPT ![curr] = Append(Front(@), frame)]
Goto(pc) == stack' = GotoTop([Top EXCEPT !.pc = pc])

(***************************************************************************)
(* irq_handle                                                              *)
(***************************************************************************)
\* The source is masked, a task queued, and irq_handle_pending_tasks called.
Enter(source) ==
  /\ Len(stack[curr]) < MaxNest
  /\ queue' = Insert(queue, source, {i \in DOMAIN queue : TaskComp(source, queue[i])})
  /\ stack' = [stack EXCEPT ![curr] = Append(@, [pc |-> "loop", task |-> None, ripe |-> 0])]
  /\ UNCHANGED <<handling, events, compare, uartLine, started, curr>>

UartInterrupt ==
  /\ uartOn /\ uartLine
  /\ uartOn' = FALSE
  /\ Enter("uart")
  /\ UNCHANGED timerOn

TimerInterrupt ==
  /\ timerOn /\ compare = 0
  /\ ~(uartOn /\ uartLine)
  /\ timerOn' = FALSE
  /\ Enter("timer")
  /\ UNCHANGED uartOn

(***************************************************************************)
(* irq_handle_pending_tasks                                                *)
(***************************************************************************)
MayRun(task) == handling # None => TaskComp(task, handling)

LeaveLoop ==
  /\ AtPc("loop")
  /\ queue # <<>> => ~MayRun(Head(queue))
  /\ Return
  /\ UNCHANGED <<queue, handling, timerVars, uartVars, started, curr>>

\* task = pq_top, still with interrupts enabled
PickTask ==
  /\ AtPc("loop")
  /\ queue # <<>> /\ MayRun(Head(queue))
  /\ stack' = GotoTop([Top EXCEPT !.pc = "picked", !.task = Head(queue)])
  /\ UNCHANGED <<queue, handling, timerVars, uartVars, started, curr>>

\* pq_pop drops whatever is first by now; the task picked becomes the one handled
TakeTask ==
  /\ AtPc("picked")
  /\ queue' = IF queue = <<>> THEN <<>> ELSE Tail(queue)
  /\ handling' = Top.task
  /\ Goto("taken")
  /\ UNCHANGED <<timerVars, uartVars, started, curr>>

\* The global is read again, with interrupts enabled.
CallTask ==
  /\ AtPc("taken")
  /\ Goto(IF handling = None THEN "wild" ELSE handling)
  /\ UNCHANGED <<queue, handling, timerVars, uartVars, started, curr>>

\* mutant: the handled task is not cleared
FinishTaskKept ==
  /\ AtPc("done")
  /\ Goto("loop")
  /\ UNCHANGED <<queue, handling, timerVars, uartVars, started, curr>>

\* irq_task_destruct of whatever the global holds by now, also of a null pointer, changes
\* nothing: free() has no effect.
FinishTask ==
  /\ AtPc("done")
  /\ handling' = None
  /\ Goto("loop")
  /\ UNCHANGED <<queue, timerVars, uartVars, started, curr>>

\* uart_irq_handle; with nothing to do it prints a message, which enables the interrupt
UartTask ==
  /\ AtPc("uart")
  /\ uartLine' = FALSE
  /\ uartOn' = (uartOn \/ ~uartLine)
  /\ Goto("done")
  /\ UNCHANGED <<queue, handling, timerVars, started, curr>>

(***************************************************************************)
(* Timer events                                                            *)
(***************************************************************************)
\* timer_add_event: the timer is armed if the new event has become the first
AddEvent(q, event) ==
  /\ events' = Insert(q, event, {i \in DOMAIN q : EventComp(event, q[i])})
  /\ IF Head(events') = event
     THEN compare' = event.left /\ timerOn' = TRUE
     ELSE UNCHANGED <<compare, timerOn>>

\* timer_irq_handle reads the current tick once: `ripe` counts the events due by then,
\* which are the first of the queue until they are popped, by whichever call
TimerTask ==
  /\ AtPc("timer")
  /\ timerOn' = FALSE
  /\ stack' = GotoTop([Top EXCEPT !.pc = "events",
                                  !.ripe = Cardinality({i \in DOMAIN events : events[i].left = 0})])
  /\ UNCHANGED <<queue, handling, events, compare, uartVars, started, curr>>

Popped(pc) ==
  [c \in Contexts |->
    [i \in DOMAIN stack[c] |->
      [stack[c][i] EXCEPT !.ripe = IF @ = 0 THEN 0 ELSE @ - 1,
                          !.pc = IF c = curr /\ i = Len(stack[c]) THEN pc ELSE @]]]

\* echoat_timer_event prints
FireEcho ==
  /\ AtPc("events") /\ Top.ripe > 0
  /\ Head(events).kind = "echo"
  /\ events' = Tail(events)
  /\ uartOn' = TRUE
  /\ stack' = Popped("events")
  /\ UNCHANGED <<queue, handling, compare, timerOn, uartLine, started, curr>>

\* periodic_schedule adds itself again ...
FirePeriodic ==
  /\ AtPc("events") /\ Top.ripe > 0
  /\ Head(events).kind = "periodic"
  /\ AddEvent(Tail(events), [kind |-> "periodic", left |-> Period])
  /\ stack' = Popped("called")
  /\ UNCHANGED <<queue, handling, uartVars, started, curr>>

\* ... and calls schedule(): the handler goes on when this context is resumed
CallSchedule ==
  /\ AtPc("called")
  /\ Goto("events")
  /\ IF started THEN curr' \in Threads ELSE UNCHANGED curr
  /\ UNCHANGED <<queue, handling, timerVars, uartVars, started>>

\* mutant: the next event is not armed
RearmNothing ==
  /\ AtPc("events") /\ Top.ripe = 0
  /\ Goto("done")
  /\ UNCHANGED <<queue, handling, timerVars, uartVars, started, curr>>

\* the end of timer_irq_handle
Rearm ==
  /\ AtPc("events") /\ Top.ripe = 0
  /\ IF events = <<>> THEN UNCHANGED timerVars
     ELSE compare' = Head(events).left /\ timerOn' = TRUE /\ UNCHANGED events
  /\ Goto("done")
  /\ UNCHANGED <<queue, handling, uartVars, started, curr>>

Handler ==
  \/ LeaveLoop \/ PickTask \/ TakeTask \/ CallTask \/ FinishTask \/ UartTask
  \/ TimerTask \/ FireEcho \/ FirePeriodic \/ CallSchedule \/ Rearm

(***************************************************************************)
(* Open code, the UART and time                                            *)
(***************************************************************************)
Echoes == {i \in DOMAIN events : events[i].kind = "echo"}

\* the shell's `echoat`
EchoAt(delay) ==
  /\ curr = Shell /\ Open
  /\ Cardinality(Echoes) < MaxEchoes
  /\ EchoOverlaps \/ ~started
  /\ AddEvent(events, [kind |-> "echo", left |-> delay])
  /\ UNCHANGED <<queue, handling, uartVars, started, curr, stack>>

\* the shell's `exec`: from the next tick on schedule() switches to threads
Exec ==
  /\ curr = Shell /\ Open /\ ~started
  /\ EchoOverlaps \/ Echoes = {}
  /\ started' = TRUE
  /\ UNCHANGED <<queue, handling, timerVars, uartVars, curr, stack>>

\* a system call that calls schedule()
Yield ==
  /\ curr \in Threads /\ Open
  /\ curr' \in Threads
  /\ UNCHANGED <<queue, handling, timerVars, uartVars, started, stack>>

\* the last program has gone: the shell is resumed where a tick took it from
AllExited ==
  /\ curr \in Threads /\ Open
  /\ started' = FALSE
  /\ curr' = Shell
  /\ stack' = [c \in Contexts |-> IF c = Shell THEN stack[c] ELSE <<>>]
  /\ UNCHANGED <<queue, handling, timerVars, uartVars>>

\* uart_async_putc or uart_async_getc
UseUart ==
  /\ Open /\ ~uartOn
  /\ uartOn' = TRUE
  /\ UNCHANGED <<queue, handling, timerVars, uartLine, started, curr, stack>>

UartEvent ==
  /\ ~uartLine
  /\ uartLine' = TRUE
  /\ UNCHANGED <<queue, handling, timerVars, uartOn, started, curr, stack>>

\* A unit of time passes.  The timer's own work takes less than one.
InTimer == \E i \in DOMAIN stack[curr] : stack[curr][i].pc \in {"timer", "events", "called"}
Less(n) == IF n = 0 THEN 0 ELSE n - 1

Elapse ==
  /\ ~InTimer
  /\ compare > 0
  /\ compare' = Less(compare)
  /\ events' = [i \in DOMAIN events |-> [events[i] EXCEPT !.left = Less(@)]]
  /\ UNCHANGED <<queue, handling, timerOn, uartVars, started, curr, stack>>

Init ==   \* after irq_init and sched_init
  /\ queue = <<>> /\ handling = None
  /\ events = <<[kind |-> "periodic", left |-> 1]>> /\ compare = 1 /\ timerOn = TRUE
  /\ uartOn = FALSE /\ uartLine = FALSE
  /\ started = FALSE /\ curr = Shell
  /\ stack = [c \in Contexts |-> <<>>]

Next ==
  \/ UartInterrupt \/ TimerInterrupt \/ Handler
  \/ \E delay \in EchoDelays : EchoAt(delay)
  \/ Exec \/ Yield \/ AllExited \/ UseUart \/ UartEvent \/ Elapse

\* Handlers go on, time passes, and a line that stays raised, or is raised again and again
\* while nothing precedes it, interrupts; programs, the shell and the UART owe nothing.
Fairness ==
  /\ WF_vars(Handler) /\ WF_vars(Elapse)
  /\ SF_vars(UartInterrupt) /\ SF_vars(TimerInterrupt)

Spec == Init /\ [][Next]_vars /\ Fairness

(***************************************************************************)
(* Properties                                                              *)
(***************************************************************************)
TypeOK ==
  /\ queue \in Seq(Sources) /\ handling \in Sources \cup {None}
  /\ events \in Seq(Events) /\ compare \in Nat
  /\ {timerOn, uartOn, uartLine, started} \subseteq BOOLEAN
  /\ curr \in Contexts
  /\ stack \in [Contexts -> Seq(Frames)]

Wild == \E c \in Contexts : \E i \in DOMAIN stack[c] : stack[c][i].pc = "wild"

\* No interrupt task is left behind: whenever irq_handle() has returned to what it
\* interrupted, the queue of tasks is empty, although the loop may have stopped because of
\* the priority of a task that another call, possibly of another thread, was handling.
NoTaskLeft == Open /\ ~Wild => queue = <<>>

\* Whenever no interrupt is being handled on top of the running context, the timer is
\* armed for the first event, also if contexts are suspended in the middle of
\* timer_irq_handle, which would have armed it at its end.
TimerArmed ==
  Open /\ ~Wild => events # <<>> /\ timerOn /\ compare <= Head(events).left

\* Preemption goes on for ever, as long as no task is called through a null pointer:
\* periodic_schedule is called again and again.
TicksKeepComing == <>Wild \/ []<>AtPc("called")

\* exception/irq.c:88 and 93, "Critical section start" and "end", protect the choice of the
\* task: what is called then is the task that was taken from the queue.
TakenIsCalled == AtPc("taken") => handling = Top.task
=============================================================================
