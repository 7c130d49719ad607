------------------------------ MODULE SchedProofs ------------------------------
(***************************************************************************)
(* The run queue with any number of threads.                               *)
(***************************************************************************)
EXTENDS Sched, SequenceTheorems, TLAPS

(***************************************************************************)
(* Lists.                                                                  *)
(***************************************************************************)
Elems(q) == {q[i] : i \in 1..Len(q)}

Distinct(q) == \A i, j \in 1..Len(q) : q[i] = q[j] => i = j

LEMMA PlaceIs ==
  ASSUME NEW q, NEW t, InQueue(q, t)
  PROVE  Place(q, t) \in 1..Len(q) /\ q[Place(q, t)] = t
  BY DEF InQueue, Place

\* list_del takes one entry out of a list of threads and leaves a list of threads.
LEMMA UnlinkSeq ==
  ASSUME NEW S, NEW q \in Seq(S), NEW t, InQueue(q, t)
  PROVE  /\ Unlink(q, t) \in Seq(S)
         /\ Len(Unlink(q, t)) = Len(q) - 1
         /\ \A i \in 1..(Len(q) - 1) :
              Unlink(q, t)[i] = IF i < Place(q, t) THEN q[i] ELSE q[i + 1]
<1>1. Place(q, t) \in 1..Len(q) /\ Len(q) \in Nat
  BY PlaceIs, LenProperties
<1>2. Len(q) - 1 \in Nat
  BY <1>1
<1>3. \A i \in 1..(Len(q) - 1) : (IF i < Place(q, t) THEN q[i] ELSE q[i + 1]) \in S
  BY <1>1, ElementOfSeq
<1> QED
  BY <1>1, <1>2, <1>3 DEF Unlink

LEMMA UnlinkElems ==
  ASSUME NEW S, NEW q \in Seq(S), NEW t, InQueue(q, t), Distinct(q)
  PROVE  /\ Distinct(Unlink(q, t))
         /\ Elems(Unlink(q, t)) = Elems(q) \ {t}
<1> DEFINE k == Place(q, t)
           n == Len(q)
           u == Unlink(q, t)
<1>1. k \in 1..n /\ q[k] = t /\ n \in Nat
  BY PlaceIs, LenProperties
<1>2. Len(u) = n - 1 /\ \A i \in 1..(n - 1) : u[i] = IF i < k THEN q[i] ELSE q[i + 1]
  BY UnlinkSeq
<1> HIDE DEF k, n, u
<1>3. Distinct(q) /\ n = Len(q)
  BY DEF n
<1>4. Distinct(u)
  BY <1>1, <1>2, <1>3 DEF Distinct
<1>5. ASSUME NEW x \in Elems(u) PROVE x \in Elems(q) \ {t}
  <2>1. PICK i \in 1..(n - 1) : x = u[i]
    BY <1>2 DEF Elems
  <2>2. PICK j \in 1..n : j # k /\ x = q[j]
    BY <2>1, <1>1, <1>2
  <2> QED
    BY <2>2, <1>1, <1>3 DEF Elems, Distinct
<1>6. ASSUME NEW x \in Elems(q) \ {t} PROVE x \in Elems(u)
  <2>1. PICK j \in 1..n : j # k /\ x = q[j]
    BY <1>1, <1>3 DEF Elems
  <2>2. CASE j < k
    <3>1. j \in 1..(n - 1) /\ u[j] = x
      BY <2>1, <2>2, <1>1, <1>2
    <3> QED
      BY <3>1, <1>2 DEF Elems
  <2>3. CASE j > k
    <3>1. j - 1 \in 1..(n - 1) /\ u[j - 1] = x
      BY <2>1, <2>3, <1>1, <1>2
    <3> QED
      BY <3>1, <1>2 DEF Elems
  <2> QED
    BY <2>1, <2>2, <2>3, <1>1
<1> QED
  BY <1>4, <1>5, <1>6 DEF u

LEMMA AppendElems ==
  ASSUME NEW S, NEW q \in Seq(S), NEW t \in S
  PROVE  /\ Elems(Append(q, t)) = Elems(q) \cup {t}
         /\ Distinct(q) /\ t \notin Elems(q) => Distinct(Append(q, t))
<1> DEFINE a == Append(q, t)
<1>1. /\ Len(q) \in Nat /\ Len(a) = Len(q) + 1 /\ a[Len(q) + 1] = t
      /\ \A i \in 1..Len(q) : a[i] = q[i]
  BY AppendProperties, LenProperties
<1> HIDE DEF a
<1>2. Elems(a) = Elems(q) \cup {t}
  <2>1. ASSUME NEW x \in Elems(a) PROVE x \in Elems(q) \cup {t}
    BY <1>1 DEF Elems
  <2>2. ASSUME NEW x \in Elems(q) PROVE x \in Elems(a)
    BY <1>1 DEF Elems
  <2>3. t \in Elems(a)
    BY <1>1 DEF Elems
  <2> QED
    BY <2>1, <2>2, <2>3
<1>3. ASSUME Distinct(q), t \notin Elems(q) PROVE Distinct(a)
  BY <1>1, <1>3 DEF Distinct, Elems
<1> QED
  BY <1>2, <1>3 DEF a

LEMMA InQueueElems == ASSUME NEW q, NEW t PROVE InQueue(q, t) <=> t \in Elems(q)
  BY DEF InQueue, Elems

(***************************************************************************)
(* Frames.                                                                 *)
(***************************************************************************)
LEMMA TopIs ==
  ASSUME TypeOK
  PROVE  /\ stack[curr] \in Seq(Frames) /\ Depth \in Nat
         /\ Depth > 0 => Top \in Frames
         /\ \A pc : AtPc(pc) => Depth > 0 /\ Top.pc = pc
  BY LenProperties, ElementOfSeq DEF TypeOK, Depth, Top, AtPc

\* What a frame holds at each of its steps.
LEMMA FrameThread ==
  ASSUME NEW f \in Frames
  PROVE  /\ f.irq \in BOOLEAN
         /\ f.pc \in {"del", "test", "check", "mark"} => f.thr \in Threads
         /\ f.pc = "switch" => f.thr \in Contexts
  BY DEF Frames

LEMMA TopThread ==
  ASSUME TypeOK
  PROVE  /\ \A pc \in {"del", "test", "check", "mark"} : AtPc(pc) => Top.thr \in Threads
         /\ AtPc("switch") => Top.thr \in Contexts
  BY TopIs, FrameThread

\* Goto replaces the innermost frame of the running thread.
LEMMA GotoIs ==
  ASSUME TypeOK, Depth > 0, NEW pc, NEW t, Goto(pc, t),
         [pc |-> pc, thr |-> t, irq |-> Top.irq] \in Frames
  PROVE  /\ stack' \in [Contexts -> Seq(Frames)]
         /\ Len(stack'[curr]) = Depth
         /\ stack'[curr][Depth] = [pc |-> pc, thr |-> t, irq |-> Top.irq]
         /\ \A k \in 1..(Depth - 1) : stack'[curr][k] = stack[curr][k]
         /\ \A c \in Contexts \ {curr} : stack'[c] = stack[c]
<1> DEFINE f == [pc |-> pc, thr |-> t, irq |-> Top.irq]
           s == [stack[curr] EXCEPT ![Depth] = f]
<1>1. stack[curr] \in Seq(Frames) /\ Depth \in 1..Len(stack[curr]) /\ f \in Frames
  BY TopIs DEF Depth
<1>2. /\ s \in Seq(Frames) /\ Len(s) = Len(stack[curr]) /\ s[Depth] = f
      /\ \A k \in 1..Len(stack[curr]) : k # Depth => s[k] = stack[curr][k]
  <2> HIDE DEF f
  <2> QED
    BY <1>1, ExceptSeq
<1>3. stack' = [stack EXCEPT ![curr] = s]
  BY DEF Goto
<1> HIDE DEF s, f
<1>4. curr \in Contexts /\ stack \in [Contexts -> Seq(Frames)] /\ Len(stack[curr]) = Depth
  BY DEF TypeOK, Depth
<1>5. stack'[curr] = s
  BY <1>3, <1>4
<1>6. \A k \in 1..(Depth - 1) : stack'[curr][k] = stack[curr][k]
  BY <1>2, <1>4, <1>5, TopIs
<1> QED
  BY <1>2, <1>3, <1>4, <1>5, <1>6 DEF f

\* Push adds one.
LEMMA PushIs ==
  ASSUME TypeOK, NEW pc, NEW t, NEW irq, Push(pc, t, irq),
         [pc |-> pc, thr |-> t, irq |-> irq] \in Frames
  PROVE  /\ stack' \in [Contexts -> Seq(Frames)]
         /\ Len(stack'[curr]) = Depth + 1
         /\ stack'[curr][Depth + 1] = [pc |-> pc, thr |-> t, irq |-> irq]
         /\ \A k \in 1..Depth : stack'[curr][k] = stack[curr][k]
         /\ \A c \in Contexts \ {curr} : stack'[c] = stack[c]
<1> DEFINE f == [pc |-> pc, thr |-> t, irq |-> irq]
           s == Append(stack[curr], f)
<1>1. stack[curr] \in Seq(Frames) /\ f \in Frames /\ Len(stack[curr]) = Depth
  BY TopIs DEF Depth
<1>2. /\ s \in Seq(Frames) /\ Len(s) = Depth + 1 /\ s[Depth + 1] = f
      /\ \A k \in 1..Depth : s[k] = stack[curr][k]
  <2> HIDE DEF f
  <2> QED
    BY <1>1, AppendProperties
<1>3. stack' = [stack EXCEPT ![curr] = s]
  BY DEF Push
<1> HIDE DEF s, f
<1>4. curr \in Contexts /\ stack \in [Contexts -> Seq(Frames)]
  BY DEF TypeOK
<1> QED
  BY <1>2, <1>3, <1>4 DEF f

\* Pop drops it.
LEMMA PopIs ==
  ASSUME TypeOK, Depth > 0, Pop
  PROVE  /\ stack' \in [Contexts -> Seq(Frames)]
         /\ Len(stack'[curr]) = Depth - 1
         /\ \A k \in 1..(Depth - 1) : stack'[curr][k] = stack[curr][k]
         /\ \A c \in Contexts \ {curr} : stack'[c] = stack[c]
<1> DEFINE s == SubSeq(stack[curr], 1, Depth - 1)
<1>1. stack[curr] \in Seq(Frames) /\ Len(stack[curr]) = Depth /\ Depth \in Nat
  BY TopIs DEF Depth
<1>2. /\ s \in Seq(Frames) /\ Len(s) = Depth - 1
      /\ \A k \in 1..(Depth - 1) : s[k] = stack[curr][k]
  BY <1>1, SubSeqProperties
<1>3. stack' = [stack EXCEPT ![curr] = s]
  BY DEF Pop
<1> HIDE DEF s
<1>4. curr \in Contexts /\ stack \in [Contexts -> Seq(Frames)]
  BY DEF TypeOK
<1> QED
  BY <1>2, <1>3, <1>4

(***************************************************************************)
(* Types.                                                                  *)
(***************************************************************************)
LEMMA CursorType ==
  ASSUME NEW q \in Seq(Threads), NEW t
  PROVE  After(q, t) \in Threads \cup {Nobody} /\ First(q) \in Threads \cup {Nobody}
<1>1. After(q, t) \in Threads \cup {Nobody}
  <2>1. CASE InQueue(q, t) /\ Place(q, t) < Len(q)
    <3>1. Place(q, t) + 1 \in 1..Len(q)
      BY <2>1, PlaceIs, LenProperties
    <3> QED
      BY <2>1, <3>1, ElementOfSeq DEF After
  <2> QED
    BY <2>1 DEF After
<1>2. First(q) \in Threads \cup {Nobody}
  BY HeadTailProperties DEF First
<1> QED
  BY <1>1, <1>2

LEMMA AppendType ==
  ASSUME NEW q \in Seq(Threads), NEW t \in Threads
  PROVE  /\ Append(q, t) \in Seq(Threads) /\ Append(q, t) # << >>
         /\ Head(Append(q, t)) \in Threads
<1>1. Append(q, t) \in Seq(Threads) /\ Append(q, t) # << >>
  BY AppendProperties
<1> QED
  BY <1>1, HeadTailProperties

LEMMA NewFrames ==
  /\ \A irq \in BOOLEAN : [pc |-> "head", thr |-> Nobody, irq |-> irq] \in Frames
  /\ \A irq \in BOOLEAN, t \in Threads, pc \in {"del", "test", "check", "mark"} :
       [pc |-> pc, thr |-> t, irq |-> irq] \in Frames
  /\ \A irq \in BOOLEAN, t \in Contexts : [pc |-> "switch", thr |-> t, irq |-> irq] \in Frames
  BY DEF Frames

\* A call of schedule() adds a frame or nothing.
LEMMA EnterType ==
  ASSUME TypeOK, NEW irq \in BOOLEAN, EnterSchedule(irq)
  PROVE  stack' \in [Contexts -> Seq(Frames)]
  BY NewFrames, PushIs DEF EnterSchedule, TypeOK

LEMMA WalkType ==
  ASSUME TypeOK, NEW i \in Idles, NEW q \in Seq(Threads), Advance(i, q)
  PROVE  walk' \in [Idles -> [pc : {"walk", "release"},
                              pos : Threads \cup {Nobody}, tmp : Threads \cup {Nobody}]]
  BY CursorType DEF Advance, TypeOK

LEMMA ScheduleType ==
  ASSUME TypeOK, ScheduleStep
  PROVE  TypeOK'
<1>0. /\ queue \in Seq(Threads) /\ curr \in Contexts
      /\ alloc \in [Threads -> {"unborn", "live", "freed"}]
  BY DEF TypeOK
<1>1. CASE TakeHead
  <2>1. Depth > 0 /\ Top.irq \in BOOLEAN /\ Head(queue) \in Threads
    BY <1>0, <1>1, TopIs, FrameThread, HeadTailProperties DEF TakeHead
  <2>2. stack' \in [Contexts -> Seq(Frames)]
    BY <1>1, <2>1, NewFrames, GotoIs DEF TakeHead
  <2> QED
    BY <1>1, <2>2 DEF TakeHead, TypeOK
<1>2. CASE DelNext
  <2>1. Depth > 0 /\ Top.irq \in BOOLEAN /\ Top.thr \in Threads
    BY <1>2, TopIs, FrameThread, TopThread DEF DelNext
  <2>2. stack' \in [Contexts -> Seq(Frames)]
    BY <1>2, <2>1, NewFrames, GotoIs DEF DelNext
  <2>3. queue' \in Seq(Threads)
    BY <1>0, <1>2, UnlinkSeq DEF DelNext
  <2> QED
    BY <1>2, <2>2, <2>3 DEF DelNext, TypeOK
<1>3. CASE SkipDead
  <2>1. Depth > 0 /\ Top.irq \in BOOLEAN /\ Top.thr \in Threads
    BY <1>3, TopIs, FrameThread, TopThread DEF SkipDead
  <2>2. queue' \in Seq(Threads) /\ Head(queue') \in Threads
    BY <1>0, <1>3, <2>1, AppendType DEF SkipDead
  <2>3. stack' \in [Contexts -> Seq(Frames)]
    BY <1>3, <2>1, <2>2, NewFrames, GotoIs DEF SkipDead
  <2> QED
    BY <1>3, <2>2, <2>3 DEF SkipDead, TypeOK
<1>4. CASE FoundRunnable
  <2>1. Depth > 0 /\ Top.irq \in BOOLEAN /\ Top.thr \in Threads
    BY <1>4, TopIs, FrameThread, TopThread DEF FoundRunnable
  <2>2. stack' \in [Contexts -> Seq(Frames)]
    BY <1>4, <2>1, NewFrames, GotoIs DEF FoundRunnable
  <2> QED
    BY <1>4, <2>2 DEF FoundRunnable, TypeOK
<1>5. CASE Requeue
  <2>1. Depth > 0 /\ Top.irq \in BOOLEAN /\ Top.thr \in Threads /\ Top.thr \in Contexts
    BY <1>5, TopIs, FrameThread, TopThread DEF Requeue, Contexts
  <2>2. stack' \in [Contexts -> Seq(Frames)]
    BY <1>5, <2>1, NewFrames, GotoIs DEF Requeue
  <2>3. queue' \in Seq(Threads)
    BY <1>0, <1>5, <2>1, AppendType DEF Requeue
  <2> QED
    BY <1>5, <2>2, <2>3 DEF Requeue, TypeOK
<1>6. CASE AllExited
  <2>1. Depth > 0 /\ Top.irq \in BOOLEAN /\ Top.thr \in Threads /\ Shell \in Contexts
    BY <1>6, TopIs, FrameThread, TopThread DEF AllExited, Contexts
  <2>2. stack' \in [Contexts -> Seq(Frames)]
    BY <1>6, <2>1, NewFrames, GotoIs DEF AllExited
  <2>3. alloc' \in [Threads -> {"unborn", "live", "freed"}]
    BY <1>0, <1>6, <2>1 DEF AllExited
  <2> QED
    BY <1>6, <2>2, <2>3 DEF AllExited, TypeOK
<1>7. CASE ContextSwitch
  <2>1. Depth > 0 /\ Top.thr \in Contexts
    BY <1>7, TopIs, TopThread DEF ContextSwitch
  <2>2. stack' \in [Contexts -> Seq(Frames)]
    BY <1>7, <2>1, PopIs DEF ContextSwitch
  <2> QED
    BY <1>7, <2>1, <2>2 DEF ContextSwitch, TypeOK
<1> QED
  BY <1>1, <1>2, <1>3, <1>4, <1>5, <1>6, <1>7 DEF ScheduleStep

LEMMA IdleType ==
  ASSUME TypeOK, NEW i \in Idles, IdleStep(i)
  PROVE  TypeOK'
<1> DEFINE Walks == [Idles -> [pc : {"walk", "release"},
                               pos : Threads \cup {Nobody}, tmp : Threads \cup {Nobody}]]
<1>0. /\ queue \in Seq(Threads) /\ walk \in Walks
      /\ alloc \in [Threads -> {"unborn", "live", "freed"}]
  BY DEF TypeOK
<1>1. CASE IdleStart(i)
  <2>1. walk' \in Walks
    BY <1>0, <1>1, CursorType DEF IdleStart
  <2> QED
    BY <1>1, <2>1 DEF IdleStart, TypeOK
<1>2. CASE IdlePass(i)
  <2>1. walk' \in Walks
    BY <1>0, <1>2, WalkType DEF IdlePass
  <2> QED
    BY <1>2, <2>1 DEF IdlePass, TypeOK
<1>3. CASE IdleUnlink(i)
  <2>1. queue' \in Seq(Threads)
    BY <1>0, <1>3, UnlinkSeq DEF IdleUnlink
  <2>2. walk' \in Walks
    BY <1>0, <1>3 DEF IdleUnlink
  <2> QED
    BY <1>3, <2>1, <2>2 DEF IdleUnlink, TypeOK
<1>4. CASE IdleRelease(i)
  <2>1. walk' \in Walks
    BY <1>0, <1>4, WalkType DEF IdleRelease
  <2>2. alloc' \in [Threads -> {"unborn", "live", "freed"}]
    BY <1>0, <1>4 DEF IdleRelease
  <2> QED
    BY <1>4, <2>1, <2>2 DEF IdleRelease, TypeOK
<1> QED
  BY <1>1, <1>2, <1>3, <1>4 DEF IdleStep

LEMMA UserType ==
  ASSUME TypeOK, NEW u \in Users,
         \/ Yield(u)
         \/ Exit(u)
         \/ \E t \in Threads : KillFind(u, t)
         \/ \E c \in Users : Fork(u, c)
         \/ \E i \in Idles : ShellExec(u, i)
  PROVE  TypeOK'
<1>0. /\ queue \in Seq(Threads) /\ u \in Threads
      /\ state \in [Threads -> {"runnable", "dead"}]
      /\ alloc \in [Threads -> {"unborn", "live", "freed"}]
  BY DEF TypeOK, Threads
<1>1. CASE Yield(u)
  BY <1>1, EnterType DEF Yield, TypeOK
<1>2. CASE Exit(u)
  <2>1. state' \in [Threads -> {"runnable", "dead"}]
    BY <1>0, <1>2 DEF Exit
  <2> QED
    BY <1>2, <2>1, EnterType DEF Exit, TypeOK
<1>3. ASSUME NEW t \in Threads, KillFind(u, t) PROVE TypeOK'
  <2>1. stack' \in [Contexts -> Seq(Frames)]
    BY <1>3, NewFrames, PushIs DEF KillFind
  <2> QED
    BY <1>3, <2>1 DEF KillFind, TypeOK
<1>4. ASSUME NEW c \in Users, Fork(u, c) PROVE TypeOK'
  <2>1. queue' \in Seq(Threads)
    BY <1>0, <1>4, AppendType DEF Fork, Threads
  <2>2. state' \in [Threads -> {"runnable", "dead"}] /\ alloc' \in [Threads -> {"unborn", "live", "freed"}]
    BY <1>0, <1>4 DEF Fork
  <2> QED
    BY <1>4, <2>1, <2>2 DEF Fork, TypeOK
<1>5. ASSUME NEW i \in Idles, ShellExec(u, i) PROVE TypeOK'
  <2>1. Append(queue, u) \in Seq(Threads) /\ i \in Threads
    BY <1>0, AppendType DEF Threads
  <2>2. queue' \in Seq(Threads)
    BY <1>5, <2>1, AppendType DEF ShellExec
  <2>3. state' \in [Threads -> {"runnable", "dead"}] /\ alloc' \in [Threads -> {"unborn", "live", "freed"}]
    BY <1>0, <1>5 DEF ShellExec
  <2> QED
    BY <1>5, <2>2, <2>3 DEF ShellExec, TypeOK
<1> QED
  BY <1>1, <1>2, <1>3, <1>4, <1>5

\* Every step of every window keeps the types: no schedule() resumes anything but a
\* thread or the shell.
LEMMA TypeStep == TypeOK /\ [Next]_vars => TypeOK'
<1> SUFFICES ASSUME TypeOK, [Next]_vars PROVE TypeOK'
  OBVIOUS
<1>1. CASE ScheduleStep
  BY <1>1, ScheduleType
<1>2. CASE Tick
  BY <1>2, EnterType DEF Tick, TypeOK
<1>3. ASSUME NEW i \in Idles, IdleStep(i) PROVE TypeOK'
  BY <1>3, IdleType
<1>4. CASE KillMark
  <2>1. Depth > 0
    BY <1>4, TopIs DEF KillMark
  <2>2. stack' \in [Contexts -> Seq(Frames)]
    BY <1>4, <2>1, PopIs DEF KillMark
  <2>3. state' \in [Threads -> {"runnable", "dead"}]
    BY <1>4 DEF KillMark, TypeOK
  <2> QED
    BY <1>4, <2>2, <2>3 DEF KillMark, TypeOK
<1>5. ASSUME NEW u \in Users,
             \/ Yield(u)
             \/ Exit(u)
             \/ \E t \in Threads : KillFind(u, t)
             \/ \E c \in Users : Fork(u, c)
             \/ \E i \in Idles : ShellExec(u, i)
      PROVE  TypeOK'
  BY <1>5, UserType
<1>6. CASE UNCHANGED vars
  BY <1>6 DEF vars, TypeOK
<1> QED
  BY <1>1, <1>2, <1>3, <1>4, <1>5, <1>6 DEF Next

LEMMA TypeInit == Init => TypeOK
<1> SUFFICES ASSUME Init PROVE TypeOK
  OBVIOUS
<1>1. \A S : << >> \in Seq(S)
  BY EmptySeq
<1> QED
  BY <1>1 DEF Init, TypeOK, Contexts

\* However many threads there are and wherever the timer interrupts, every variable keeps
\* its type; in particular only a thread or the shell ever gets the processor.
THEOREM SchedTypeCorrect == Spec => []TypeOK
  BY TypeInit, TypeStep, PTL DEF Spec

(***************************************************************************)
(* No thread is lost or queued twice, unless a tick may interrupt          *)
(* schedule() itself.  The frames below the innermost one of the running   *)
(* thread are then all those of preempted sys_kill() calls, so that one    *)
(* thread at most is out of the queue in the hands of schedule(): QInv     *)
(* says where each allocated thread is, and is inductive with it.          *)
(***************************************************************************)
HeldNow == IF AtPc("test") \/ AtPc("check") THEN {Top.thr} ELSE {}

Releasing == {i \in Idles : walk[i].pc = "release"}

Reaping == {walk[i].pos : i \in Releasing}

Marks ==
  \A c \in Contexts : \A k \in 1..Len(stack[c]) :
    stack[c][k].pc = "mark" \/ (c = curr /\ k = Len(stack[c]))

QInv ==
  /\ Distinct(queue)
  /\ Elems(queue) \cup HeldNow \cup Reaping = Live
  /\ Elems(queue) \cap HeldNow = {}
  /\ Elems(queue) \cap Reaping = {}
  /\ HeldNow \cap Reaping = {}
  /\ \A i, j \in Releasing : walk[i].pos = walk[j].pos => i = j

IInv == TypeOK /\ Marks /\ QInv

LEMMA GotoHeld ==
  ASSUME TypeOK, Marks, Depth > 0, NEW pc, NEW t, Goto(pc, t), curr' = curr,
         [pc |-> pc, thr |-> t, irq |-> Top.irq] \in Frames
  PROVE  /\ Marks'
         /\ pc \in {"test", "check"} => HeldNow' = {t}
         /\ pc \notin {"test", "check"} => HeldNow' = {}
<1>1. /\ Len(stack'[curr]) = Depth /\ Depth \in Nat
      /\ stack'[curr][Depth] = [pc |-> pc, thr |-> t, irq |-> Top.irq]
      /\ \A k \in 1..(Depth - 1) : stack'[curr][k] = stack[curr][k]
      /\ \A c \in Contexts \ {curr} : stack'[c] = stack[c]
  BY GotoIs, TopIs
<1>2. Depth' = Depth /\ Top' = [pc |-> pc, thr |-> t, irq |-> Top.irq]
  BY <1>1 DEF Depth, Top
<1>3. Marks'
  BY <1>1 DEF Marks, Depth
<1>4. /\ pc \in {"test", "check"} => HeldNow' = {t}
      /\ pc \notin {"test", "check"} => HeldNow' = {}
  BY <1>2 DEF HeldNow, AtPc
<1> QED
  BY <1>3, <1>4

LEMMA PushHeld ==
  ASSUME TypeOK, Marks, NEW pc, NEW t, NEW irq, Push(pc, t, irq), curr' = curr,
         [pc |-> pc, thr |-> t, irq |-> irq] \in Frames,
         Depth = 0 \/ Top.pc = "mark", pc \notin {"test", "check"}
  PROVE  Marks' /\ HeldNow' = {} /\ HeldNow = {}
<1>1. /\ Len(stack'[curr]) = Depth + 1 /\ Depth \in Nat
      /\ stack'[curr][Depth + 1] = [pc |-> pc, thr |-> t, irq |-> irq]
      /\ \A k \in 1..Depth : stack'[curr][k] = stack[curr][k]
      /\ \A c \in Contexts \ {curr} : stack'[c] = stack[c]
  BY PushIs, TopIs
<1>2. Depth' = Depth + 1 /\ Top' = [pc |-> pc, thr |-> t, irq |-> irq]
  BY <1>1 DEF Depth, Top
<1>3. \A k \in 1..Depth : stack[curr][k].pc = "mark"
  BY <1>1 DEF Marks, Depth, Top, TypeOK
<1>4. Marks'
  BY <1>1, <1>3 DEF Marks, Depth
<1>5. HeldNow' = {} /\ HeldNow = {}
  BY <1>1, <1>2 DEF HeldNow, AtPc
<1> QED
  BY <1>4, <1>5

\* Whoever runs after a frame has returned is in user mode, in the idle loop, in the
\* shell, or in a preempted sys_kill.
LEMMA PopHeld ==
  ASSUME TypeOK, Marks, Depth > 0, Pop, curr' \in Contexts
  PROVE  Marks' /\ HeldNow' = {}
<1>1. /\ stack' \in [Contexts -> Seq(Frames)]
      /\ Len(stack'[curr]) = Depth - 1 /\ Depth \in Nat /\ curr \in Contexts
      /\ \A k \in 1..(Depth - 1) : stack'[curr][k] = stack[curr][k]
      /\ \A c \in Contexts \ {curr} : stack'[c] = stack[c]
  BY PopIs, TopIs DEF TypeOK
<1>2. \A k \in 1..(Depth - 1) : stack[curr][k].pc = "mark"
  BY <1>1 DEF Marks, Depth
<1>3. \A c \in Contexts \ {curr} : \A k \in 1..Len(stack[c]) : stack[c][k].pc = "mark"
  BY DEF Marks
<1>4. \A c \in Contexts : \A k \in 1..Len(stack'[c]) : stack'[c][k].pc = "mark"
  BY <1>1, <1>2, <1>3
<1>5. Marks'
  BY <1>4 DEF Marks
<1>6. Depth' \in Nat /\ (Depth' > 0 => Top'.pc = "mark")
  <2>1. Depth' = Len(stack'[curr']) /\ Depth' \in Nat
    BY <1>1, LenProperties DEF Depth
  <2> QED
    BY <2>1, <1>4 DEF Top
<1>7. HeldNow' = {}
  BY <1>6 DEF HeldNow, AtPc
<1> QED
  BY <1>5, <1>7

LEMMA EnterHeld ==
  ASSUME TypeOK, Marks, NEW irq \in BOOLEAN, EnterSchedule(irq), curr' = curr,
         Depth = 0 \/ Top.pc = "mark"
  PROVE  Marks' /\ HeldNow' = {} /\ HeldNow = {}
<1>1. CASE queue = << >>
  <2>1. stack' = stack
    BY <1>1 DEF EnterSchedule
  <2>2. HeldNow = {}
    BY TopIs DEF HeldNow, AtPc
  <2> QED
    BY <2>1, <2>2 DEF Marks, HeldNow, AtPc, Top, Depth
<1>2. CASE queue # << >>
  BY <1>2, NewFrames, PushHeld DEF EnterSchedule
<1> QED
  BY <1>1, <1>2
\* The parts of QInv that a change of stack or queue leaves alone.
LEMMA WalkKept ==
  ASSUME walk' = walk
  PROVE  Releasing' = Releasing /\ Reaping' = Reaping
  BY DEF Releasing, Reaping

LEMMA LiveKept ==
  ASSUME alloc' = alloc
  PROVE  Live' = Live
  BY DEF Live

\* Nothing moves: neither a thread between queue and holders, nor a holder.
LEMMA QInvKept ==
  ASSUME QInv, queue' = queue, alloc' = alloc, walk' = walk, HeldNow' = HeldNow
  PROVE  QInv'
  BY WalkKept, LiveKept DEF QInv, Elems, Distinct

LEMMA ScheduleKeeps ==
  ASSUME IInv, ScheduleStep
  PROVE  (Marks /\ QInv)'
<1>0. /\ TypeOK /\ Marks /\ QInv
      /\ queue \in Seq(Threads) /\ curr \in Contexts
      /\ alloc \in [Threads -> {"unborn", "live", "freed"}]
  BY DEF IInv, TypeOK
<1>1. CASE TakeHead
  <2>1. Depth > 0 /\ Top.irq \in BOOLEAN /\ Head(queue) \in Threads /\ HeldNow = {}
    BY <1>0, <1>1, TopIs, FrameThread, HeadTailProperties DEF TakeHead, HeldNow, AtPc
  <2>2. Marks' /\ HeldNow' = {}
    <3>1. [pc |-> "del", thr |-> Head(queue), irq |-> Top.irq] \in Frames
      BY <2>1, NewFrames
    <3>2. Goto("del", Head(queue)) /\ curr' = curr
      BY <1>1 DEF TakeHead
    <3> QED
      BY <1>0, <2>1, <3>1, <3>2, GotoHeld
  <2> QED
    BY <1>0, <1>1, <2>1, <2>2, QInvKept DEF TakeHead
<1>2. CASE DelNext
  <2>1. Depth > 0 /\ Top.irq \in BOOLEAN /\ Top.thr \in Threads /\ HeldNow = {}
    BY <1>0, <1>2, TopIs, FrameThread, TopThread DEF DelNext, HeldNow, AtPc
  <2>2. Marks' /\ HeldNow' = {Top.thr}
    <3>1. [pc |-> "test", thr |-> Top.thr, irq |-> Top.irq] \in Frames
      BY <2>1, NewFrames
    <3>2. Goto("test", Top.thr) /\ curr' = curr
      BY <1>2 DEF DelNext
    <3> QED
      BY <1>0, <2>1, <3>1, <3>2, GotoHeld
  <2>3. Distinct(queue') /\ Elems(queue') = Elems(queue) \ {Top.thr} /\ Top.thr \in Elems(queue)
    BY <1>0, <1>2, UnlinkElems, InQueueElems DEF DelNext, QInv
  <2>4. Live' = Live /\ Reaping' = Reaping /\ Releasing' = Releasing /\ walk' = walk
    BY <1>2, WalkKept, LiveKept DEF DelNext
  <2>5. Elems(queue)' = Elems(queue')
    BY DEF Elems
  <2> QED
    BY <1>0, <2>1, <2>2, <2>3, <2>4, <2>5 DEF QInv, Distinct
<1>3. CASE SkipDead
  <2>1. Depth > 0 /\ Top.irq \in BOOLEAN /\ Top.thr \in Threads /\ HeldNow = {Top.thr}
    BY <1>0, <1>3, TopIs, FrameThread, TopThread DEF SkipDead, HeldNow
  <2>2. Head(queue') \in Threads
    BY <1>0, <1>3, <2>1, AppendType DEF SkipDead
  <2>3. Marks' /\ HeldNow' = {}
    <3>1. [pc |-> "del", thr |-> Head(queue'), irq |-> Top.irq] \in Frames
      BY <2>1, <2>2, NewFrames
    <3>2. Goto("del", Head(queue')) /\ curr' = curr
      BY <1>3 DEF SkipDead
    <3> QED
      BY <1>0, <2>1, <3>1, <3>2, GotoHeld
  <2>4. Distinct(queue') /\ Elems(queue') = Elems(queue) \cup {Top.thr}
    BY <1>0, <1>3, <2>1, AppendElems DEF SkipDead, QInv
  <2>5. Live' = Live /\ Reaping' = Reaping /\ Releasing' = Releasing /\ walk' = walk
    BY <1>3, WalkKept, LiveKept DEF SkipDead
  <2>6. Elems(queue)' = Elems(queue')
    BY DEF Elems
  <2> QED
    BY <1>0, <2>1, <2>3, <2>4, <2>5, <2>6 DEF QInv, Distinct
<1>4. CASE FoundRunnable
  <2>1. Depth > 0 /\ Top.irq \in BOOLEAN /\ Top.thr \in Threads /\ HeldNow = {Top.thr}
    BY <1>0, <1>4, TopIs, FrameThread, TopThread DEF FoundRunnable, HeldNow
  <2>2. Marks' /\ HeldNow' = {Top.thr}
    <3>1. [pc |-> "check", thr |-> Top.thr, irq |-> Top.irq] \in Frames
      BY <2>1, NewFrames
    <3>2. Goto("check", Top.thr) /\ curr' = curr
      BY <1>4 DEF FoundRunnable
    <3> QED
      BY <1>0, <2>1, <3>1, <3>2, GotoHeld
  <2> QED
    BY <1>0, <1>4, <2>1, <2>2, QInvKept DEF FoundRunnable
<1>5. CASE Requeue
  <2>1. Depth > 0 /\ Top.irq \in BOOLEAN /\ Top.thr \in Threads /\ HeldNow = {Top.thr}
    BY <1>0, <1>5, TopIs, FrameThread, TopThread DEF Requeue, HeldNow
  <2>2. Marks' /\ HeldNow' = {}
    <3>1. [pc |-> "switch", thr |-> Top.thr, irq |-> Top.irq] \in Frames
      BY <2>1, NewFrames DEF Contexts
    <3>2. Goto("switch", Top.thr) /\ curr' = curr
      BY <1>5 DEF Requeue
    <3> QED
      BY <1>0, <2>1, <3>1, <3>2, GotoHeld
  <2>3. Distinct(queue') /\ Elems(queue') = Elems(queue) \cup {Top.thr}
    BY <1>0, <1>5, <2>1, AppendElems DEF Requeue, QInv
  <2>4. Live' = Live /\ Reaping' = Reaping /\ Releasing' = Releasing /\ walk' = walk
    BY <1>5, WalkKept, LiveKept DEF Requeue
  <2>5. Elems(queue)' = Elems(queue')
    BY DEF Elems
  <2> QED
    BY <1>0, <2>1, <2>2, <2>3, <2>4, <2>5 DEF QInv, Distinct
<1>6. CASE AllExited
  <2>1. Depth > 0 /\ Top.irq \in BOOLEAN /\ Top.thr \in Threads /\ HeldNow = {Top.thr}
    BY <1>0, <1>6, TopIs, FrameThread, TopThread DEF AllExited, HeldNow
  <2>2. Marks' /\ HeldNow' = {}
    <3>1. [pc |-> "switch", thr |-> Shell, irq |-> Top.irq] \in Frames
      BY <2>1, NewFrames DEF Contexts
    <3>2. Goto("switch", Shell) /\ curr' = curr
      BY <1>6 DEF AllExited
    <3> QED
      BY <1>0, <2>1, <3>1, <3>2, GotoHeld
  <2>3. Live' = Live \ {Top.thr}
    BY <1>0, <1>6, <2>1 DEF AllExited, Live
  <2>4. Elems(queue) = {} /\ Elems(queue)' = {}
    BY <1>0, <1>6 DEF AllExited, Elems
  <2>5. Reaping' = Reaping /\ Releasing' = Releasing /\ walk' = walk /\ queue' = queue
    BY <1>6, WalkKept DEF AllExited
  <2> QED
    BY <1>0, <2>1, <2>2, <2>3, <2>4, <2>5 DEF QInv, Distinct
<1>7. CASE ContextSwitch
  <2>1. Depth > 0 /\ Top.thr \in Contexts /\ HeldNow = {}
    BY <1>0, <1>7, TopIs, TopThread DEF ContextSwitch, HeldNow, AtPc
  <2>2. Marks' /\ HeldNow' = {}
    BY <1>0, <1>7, <2>1, PopHeld DEF ContextSwitch
  <2> QED
    BY <1>0, <1>7, <2>1, <2>2, QInvKept DEF ContextSwitch
<1> QED
  BY <1>1, <1>2, <1>3, <1>4, <1>5, <1>6, <1>7 DEF ScheduleStep

LEMMA StackKept ==
  ASSUME Marks, stack' = stack, curr' = curr
  PROVE  Marks' /\ HeldNow' = HeldNow
  BY DEF Marks, HeldNow, AtPc, Top, Depth

LEMMA NothingHeld == ASSUME Depth = 0 PROVE HeldNow = {}
  BY DEF HeldNow, AtPc

LEMMA IdleKeeps ==
  ASSUME IInv, NEW n \in Idles, IdleStep(n)
  PROVE  (Marks /\ QInv)'
<1> DEFINE Walks == [Idles -> [pc : {"walk", "release"},
                               pos : Threads \cup {Nobody}, tmp : Threads \cup {Nobody}]]
<1>0. /\ TypeOK /\ Marks /\ QInv
      /\ queue \in Seq(Threads) /\ walk \in Walks
      /\ alloc \in [Threads -> {"unborn", "live", "freed"}]
  BY DEF IInv, TypeOK
<1>1. Marks' /\ HeldNow' = {} /\ HeldNow = {}
  BY <1>0, StackKept, NothingHeld
     DEF IdleStep, IdleStart, IdlePass, IdleUnlink, IdleRelease, IdleRuns, Walking
<1>2. CASE IdleStart(n) \/ IdlePass(n)
  <2>1. /\ queue' = queue /\ Live' = Live /\ n \notin Releasing
        /\ \A i \in Idles \ {n} : walk'[i] = walk[i]
        /\ walk'[n].pc = "walk"
    BY <1>0, <1>2, LiveKept DEF IdleStart, IdlePass, Advance, Walking, Releasing
  <2>2. Releasing' = Releasing /\ \A i \in Releasing : walk'[i].pos = walk[i].pos
    BY <2>1 DEF Releasing
  <2>3. Reaping' = Reaping
    BY <2>2 DEF Reaping
  <2> QED
    BY <1>0, <1>1, <2>1, <2>2, <2>3 DEF QInv, Elems, Distinct
<1>3. CASE IdleUnlink(n)
  <2>1. /\ n \notin Releasing /\ Live' = Live
        /\ \A i \in Idles \ {n} : walk'[i] = walk[i]
        /\ walk'[n].pc = "release" /\ walk'[n].pos = walk[n].pos
    BY <1>0, <1>3, LiveKept DEF IdleUnlink, Walking, Releasing
  <2>2. Releasing' = Releasing \cup {n} /\ \A i \in Releasing' : walk'[i].pos = walk[i].pos
    BY <2>1 DEF Releasing
  <2>3. Reaping' = Reaping \cup {walk[n].pos}
    BY <2>2 DEF Reaping
  <2>4. /\ Distinct(queue') /\ Elems(queue') = Elems(queue) \ {walk[n].pos}
        /\ walk[n].pos \in Elems(queue)
    BY <1>0, <1>3, UnlinkElems, InQueueElems DEF IdleUnlink, QInv
  <2>5. Elems(queue)' = Elems(queue') /\ Distinct(queue)' = Distinct(queue')
    BY DEF Elems, Distinct
  <2>6. walk[n].pos \notin Reaping
    BY <1>0, <2>4 DEF QInv
  <2>7. \A i, j \in Releasing' : walk'[i].pos = walk'[j].pos => i = j
    BY <1>0, <2>2, <2>6 DEF QInv, Reaping
  <2> QED
    BY <1>0, <1>1, <2>1, <2>3, <2>4, <2>5, <2>7 DEF QInv
<1>4. CASE IdleRelease(n)
  <2>1. /\ n \in Releasing /\ queue' = queue
        /\ \A i \in Idles \ {n} : walk'[i] = walk[i]
        /\ walk'[n].pc = "walk"
    BY <1>0, <1>4 DEF IdleRelease, Advance, Releasing
  <2>2. Releasing' = Releasing \ {n} /\ \A i \in Releasing' : walk'[i].pos = walk[i].pos
    BY <2>1 DEF Releasing
  <2>3. Reaping' = Reaping \ {walk[n].pos} /\ walk[n].pos \in Reaping
    BY <1>0, <2>1, <2>2 DEF Reaping, QInv
  <2>4. walk[n].pos \in Threads
    BY <1>0, <2>3 DEF QInv, Live
  <2>5. Live' = Live \ {walk[n].pos}
    BY <1>0, <1>4, <2>4 DEF IdleRelease, Live
  <2>6. \A i, j \in Releasing' : walk'[i].pos = walk'[j].pos => i = j
    BY <1>0, <2>2 DEF QInv
  <2>7. Elems(queue)' = Elems(queue) /\ Distinct(queue)'
    BY <1>0, <2>1 DEF QInv, Elems, Distinct
  <2> QED
    BY <1>0, <1>1, <2>3, <2>5, <2>6, <2>7 DEF QInv
<1> QED
  BY <1>2, <1>3, <1>4, <1>1 DEF IdleStep
\* A thread that joins the queue was not allocated before.
LEMMA JoinsQueue ==
  ASSUME TypeOK, QInv, NEW t \in Threads, alloc[t] = "unborn"
  PROVE  t \notin Elems(queue) /\ t \notin HeldNow /\ t \notin Reaping
  BY DEF QInv, Live

LEMMA UserKeeps ==
  ASSUME IInv, NEW u \in Users,
         \/ Yield(u)
         \/ Exit(u)
         \/ \E t \in Threads : KillFind(u, t)
         \/ \E c \in Users : Fork(u, c)
         \/ \E i \in Idles : ShellExec(u, i)
  PROVE  (Marks /\ QInv)'
<1>0. /\ TypeOK /\ Marks /\ QInv
      /\ queue \in Seq(Threads)
      /\ alloc \in [Threads -> {"unborn", "live", "freed"}]
  BY DEF IInv, TypeOK
<1>1. CASE Yield(u) \/ Exit(u)
  <2>1. /\ Depth = 0 /\ EnterSchedule(FALSE)
        /\ queue' = queue /\ alloc' = alloc /\ walk' = walk /\ curr' = curr
    BY <1>1 DEF Yield, Exit, InUserMode
  <2>2. Marks' /\ HeldNow' = HeldNow
    BY <1>0, <2>1, EnterHeld
  <2> QED
    BY <1>0, <2>1, <2>2, QInvKept
<1>2. ASSUME NEW t \in Threads, KillFind(u, t) PROVE (Marks /\ QInv)'
  <2>1. /\ Depth = 0 /\ Push("mark", t, FALSE)
        /\ queue' = queue /\ alloc' = alloc /\ walk' = walk /\ curr' = curr
    BY <1>2 DEF KillFind, InUserMode
  <2>2. [pc |-> "mark", thr |-> t, irq |-> FALSE] \in Frames
    BY NewFrames
  <2>3. Marks' /\ HeldNow' = HeldNow
    BY <1>0, <2>1, <2>2, PushHeld
  <2> QED
    BY <1>0, <2>1, <2>3, QInvKept
<1>3. ASSUME NEW c \in Users, Fork(u, c) PROVE (Marks /\ QInv)'
  <2>1. /\ Depth = 0 /\ c \in Threads /\ alloc[c] = "unborn" /\ queue' = Append(queue, c)
        /\ walk' = walk /\ curr' = curr /\ stack' = stack
    BY <1>3 DEF Fork, InUserMode, Threads
  <2>2. Marks' /\ HeldNow' = {} /\ HeldNow = {}
    BY <1>0, <2>1, StackKept, NothingHeld
  <2>3. Live' = Live \cup {c}
    BY <1>0, <1>3, <2>1 DEF Fork, Live
  <2>4. c \notin Elems(queue) /\ c \notin Reaping
    BY <1>0, <2>1, JoinsQueue
  <2>5. Distinct(queue') /\ Elems(queue') = Elems(queue) \cup {c}
    BY <1>0, <2>1, <2>4, AppendElems DEF QInv
  <2>6. Elems(queue)' = Elems(queue') /\ Distinct(queue)' = Distinct(queue')
    BY DEF Elems, Distinct
  <2>7. Releasing' = Releasing /\ Reaping' = Reaping
    BY <2>1, WalkKept
  <2> QED
    BY <1>0, <2>1, <2>2, <2>3, <2>4, <2>5, <2>6, <2>7 DEF QInv
<1>4. ASSUME NEW i \in Idles, ShellExec(u, i) PROVE (Marks /\ QInv)'
  <2>1. /\ Depth = 0 /\ u \in Threads /\ i \in Threads /\ u # i
        /\ alloc[u] = "unborn" /\ alloc[i] = "unborn"
        /\ walk' = walk /\ curr' = curr /\ stack' = stack
    BY <1>4, SchedAssumption DEF ShellExec, Threads
  <2>2. Marks' /\ HeldNow' = {} /\ HeldNow = {}
    BY <1>0, <2>1, StackKept, NothingHeld
  <2>3. Live' = Live \cup {u, i}
    BY <1>0, <1>4, <2>1 DEF ShellExec, Live
  <2>4. u \notin Elems(queue) /\ u \notin Reaping /\ i \notin Elems(queue) /\ i \notin Reaping
    BY <1>0, <2>1, JoinsQueue
  <2> DEFINE q == Append(queue, u)
  <2>5. q \in Seq(Threads) /\ Distinct(q) /\ Elems(q) = Elems(queue) \cup {u}
    BY <1>0, <2>1, <2>4, AppendElems, AppendType DEF QInv
  <2>6. queue' = Append(q, i)
    BY <1>4 DEF ShellExec
  <2> HIDE DEF q
  <2>7. Distinct(queue') /\ Elems(queue') = Elems(queue) \cup {u, i}
    BY <2>1, <2>4, <2>5, <2>6, AppendElems
  <2>8. Elems(queue)' = Elems(queue') /\ Distinct(queue)' = Distinct(queue')
    BY DEF Elems, Distinct
  <2>9. Releasing' = Releasing /\ Reaping' = Reaping
    BY <2>1, WalkKept
  <2> QED
    BY <1>0, <2>1, <2>2, <2>3, <2>4, <2>7, <2>8, <2>9 DEF QInv
<1> QED
  BY <1>1, <1>2, <1>3, <1>4

LEMMA InvStep ==
  ASSUME "schedule" \notin Windows, IInv, [Next]_vars
  PROVE  IInv'
<1>0. TypeOK /\ Marks /\ QInv /\ TypeOK'
  BY TypeStep DEF IInv
<1>1. CASE ScheduleStep
  BY <1>0, <1>1, ScheduleKeeps DEF IInv
<1>2. CASE Tick
  <2>1. Window # "tick" /\ Window # "schedule"
    BY <1>2, SchedAssumption DEF Tick, WindowNames
  <2>2. Depth = 0 \/ Top.pc = "mark"
    BY <1>0, <2>1, TopIs DEF Window
  <2>3. EnterSchedule(TRUE) /\ queue' = queue /\ alloc' = alloc /\ walk' = walk /\ curr' = curr
    BY <1>2 DEF Tick
  <2>4. Marks' /\ HeldNow' = HeldNow
    BY <1>0, <2>2, <2>3, EnterHeld
  <2> QED
    BY <1>0, <2>3, <2>4, QInvKept DEF IInv
<1>3. ASSUME NEW i \in Idles, IdleStep(i) PROVE IInv'
  BY <1>0, <1>3, IdleKeeps DEF IInv
<1>4. CASE KillMark
  <2>1. /\ Depth > 0 /\ Pop /\ HeldNow = {} /\ curr' \in Contexts
        /\ queue' = queue /\ alloc' = alloc /\ walk' = walk
    BY <1>0, <1>4, TopIs DEF KillMark, HeldNow, AtPc, TypeOK
  <2>2. Marks' /\ HeldNow' = HeldNow
    BY <1>0, <2>1, PopHeld
  <2> QED
    BY <1>0, <2>1, <2>2, QInvKept DEF IInv
<1>5. ASSUME NEW u \in Users,
             \/ Yield(u)
             \/ Exit(u)
             \/ \E t \in Threads : KillFind(u, t)
             \/ \E c \in Users : Fork(u, c)
             \/ \E i \in Idles : ShellExec(u, i)
      PROVE  IInv'
  BY <1>0, <1>5, UserKeeps DEF IInv
<1>6. CASE UNCHANGED vars
  <2>1. /\ queue' = queue /\ alloc' = alloc /\ walk' = walk
        /\ stack' = stack /\ curr' = curr
    BY <1>6 DEF vars
  <2> QED
    BY <1>0, <2>1, StackKept, QInvKept DEF IInv
<1> QED
  BY <1>1, <1>2, <1>3, <1>4, <1>5, <1>6 DEF Next

LEMMA InvInit == Init => IInv
<1> SUFFICES ASSUME Init PROVE IInv
  OBVIOUS
<1>1. TypeOK /\ queue = << >> /\ Len(queue) = 0
  BY TypeInit, EmptySeq DEF Init
<1>2. Marks
  BY EmptySeq DEF Init, Marks
<1>3. HeldNow = {}
  BY EmptySeq, NothingHeld DEF Init, Depth, Contexts
<1>4. Releasing = {} /\ Reaping = {}
  BY DEF Init, Releasing, Reaping
<1>5. Elems(queue) = {} /\ Distinct(queue)
  BY <1>1 DEF Elems, Distinct
<1>6. Live = {}
  BY DEF Init, Live
<1> QED
  BY <1>1, <1>2, <1>3, <1>4, <1>5, <1>6 DEF IInv, QInv

LEMMA OutIsHeld ==
  ASSUME TypeOK, Marks
  PROVE  OutOfQueue = HeldNow \cup Reaping
<1>1. \A c \in Contexts : stack[c] \in Seq(Frames) /\ (stack[c] # << >> <=> Len(stack[c]) > 0)
  BY EmptySeq, LenProperties DEF TypeOK
<1>2. \A c \in Contexts \ {curr} : Held(c) = {}
  BY <1>1, LenProperties DEF Held, Marks
<1>3. Held(curr) = HeldNow /\ curr \in Contexts
  BY <1>1 DEF Held, HeldNow, AtPc, Top, Depth, TypeOK
<1>4. UNION {Held(c) : c \in Contexts} = HeldNow
  BY <1>2, <1>3
<1>5. UNION {BeingReleased(i) : i \in Idles} = Reaping
  BY DEF BeingReleased, Reaping, Releasing
<1> QED
  BY <1>4, <1>5 DEF OutOfQueue

LEMMA InvImplies == IInv => QueueComplete
<1> SUFFICES ASSUME IInv PROVE QueueComplete
  OBVIOUS
<1>1. OutOfQueue = HeldNow \cup Reaping
  BY OutIsHeld DEF IInv
<1>2. \A t \in OutOfQueue : ~InQueue(queue, t)
  BY <1>1, InQueueElems DEF IInv, QInv
<1> QED
  BY <1>1, <1>2 DEF IInv, QInv, QueueComplete, Elems, Distinct

\* As long as no tick lands inside schedule(), the run queue of any number of threads
\* holds each allocated thread once, but for the one schedule() has in hand and those that
\* idle threads are releasing.
THEOREM SchedQueueComplete ==
  ASSUME "schedule" \notin Windows
  PROVE  Spec => []QueueComplete
<1>1. IInv /\ [Next]_vars => IInv'
  BY InvStep
<1> QED
  BY <1>1, InvInit, InvImplies, PTL DEF Spec

(***************************************************************************)
(* What the pointers refer to, when threads are freed and what a switch    *)
(* resumes.  These hold where no tick lands in the release of a thread     *)
(* either, programs kill user threads only, and the shell does not run a   *)
(* second program before the first tick; SchedReapPreempted.cfg and        *)
(* SchedTypeAhead.cfg show what happens otherwise.                         *)
(***************************************************************************)
Calm == /\ "schedule" \notin Windows /\ "release" \notin Windows
        /\ Killable \subseteq Users
        /\ ~TypeAhead

\* the `next` of schedule(), at each of its steps
TopOK ==
  /\ AtPc("del") => Top.thr \in Elems(queue)
  /\ AtPc("check") => state[Top.thr] = "runnable"
  /\ AtPc("switch") => IF Top.thr = Shell THEN Live = {}
                       ELSE Top.thr \in Live /\ state[Top.thr] = "runnable"

CurrOK == curr \in Live \cup {Shell} \/ (curr \in Idles /\ AtPc("switch") /\ Top.thr = Shell)

\* the target of a sys_kill
Targets ==
  \A c \in Contexts : \A k \in 1..Len(stack[c]) : stack[c][k].pc = "mark" =>
    /\ stack[c][k].thr \in Killable
    /\ "kill" \notin Windows => c = curr /\ k = Len(stack[c]) /\ stack[c][k].thr \in Live

IdlesRunnable == \A i \in Idles : state[i] = "runnable"

\* Where a user thread lives there is an idle thread to reap it, and only one.
Guarded ==
  /\ (\E u \in Users : u \in Live) => (\E i \in Idles : i \in Live)
  /\ \A i, j \in Idles : i \in Live /\ j \in Live => i = j

ReleaseNow ==
  \A i \in Idles : walk[i].pc = "release" =>
    curr = i /\ Depth = 0 /\ state[walk[i].pos] = "dead"

\* the cursors of the idle walk
Cursors ==
  \A i \in Idles :
    /\ alloc[i] = "live" => walk[i].pos \in Live \cup {Nobody} /\ walk[i].tmp \in Live \cup {Nobody}
    /\ alloc[i] = "unborn" => walk[i].pos = Nobody /\ walk[i].tmp = Nobody
    /\ walk[i].pos = walk[i].tmp => walk[i].pos = Nobody

JInv == /\ IInv
        /\ TopOK /\ CurrOK /\ Targets /\ IdlesRunnable /\ Guarded /\ ReleaseNow /\ Cursors

LEMMA GotoTop ==
  ASSUME TypeOK, Depth > 0, NEW pc, NEW t, Goto(pc, t), curr' = curr,
         [pc |-> pc, thr |-> t, irq |-> Top.irq] \in Frames
  PROVE  Depth' = Depth /\ Top'.pc = pc /\ Top'.thr = t
  BY GotoIs, TopIs DEF Depth, Top

LEMMA GotoTargets ==
  ASSUME TypeOK, Targets, Depth > 0, NEW pc, NEW t, Goto(pc, t), curr' = curr, pc # "mark",
         [pc |-> pc, thr |-> t, irq |-> Top.irq] \in Frames
  PROVE  Targets'
<1>1. /\ Len(stack'[curr]) = Depth /\ Depth \in Nat /\ Depth = Len(stack[curr])
      /\ stack'[curr][Depth] = [pc |-> pc, thr |-> t, irq |-> Top.irq]
      /\ \A k \in 1..(Depth - 1) : stack'[curr][k] = stack[curr][k]
      /\ \A c \in Contexts \ {curr} : stack'[c] = stack[c]
  BY GotoIs, TopIs DEF Depth
<1>2. stack'[curr][Depth].pc # "mark"
  BY <1>1
<1> SUFFICES ASSUME NEW c \in Contexts, NEW k \in 1..Len(stack'[c]), stack'[c][k].pc = "mark"
             PROVE  /\ stack'[c][k].thr \in Killable
                    /\ "kill" \in Windows
  BY DEF Targets
<1>3. /\ stack'[c][k] = stack[c][k] /\ k \in 1..Len(stack[c])
      /\ ~(c = curr /\ k = Len(stack[c]))
  BY <1>1, <1>2
<1> QED
  BY <1>3 DEF Targets

LEMMA PopTargets ==
  ASSUME TypeOK, Targets, Depth > 0, Pop
  PROVE  Targets'
<1>1. /\ Len(stack'[curr]) = Depth - 1 /\ Depth \in Nat /\ Depth = Len(stack[curr])
      /\ \A k \in 1..(Depth - 1) : stack'[curr][k] = stack[curr][k]
      /\ \A c \in Contexts \ {curr} : stack'[c] = stack[c]
  BY PopIs, TopIs DEF Depth
<1> SUFFICES ASSUME NEW c \in Contexts, NEW k \in 1..Len(stack'[c]), stack'[c][k].pc = "mark"
             PROVE  /\ stack'[c][k].thr \in Killable
                    /\ "kill" \in Windows
  BY DEF Targets
<1>2. /\ stack'[c][k] = stack[c][k] /\ k \in 1..Len(stack[c])
      /\ ~(c = curr /\ k = Len(stack[c]))
  BY <1>1
<1> QED
  BY <1>2 DEF Targets

LEMMA PushTargets ==
  ASSUME TypeOK, Targets, NEW pc, NEW t, NEW irq, Push(pc, t, irq), curr' = curr,
         [pc |-> pc, thr |-> t, irq |-> irq] \in Frames,
         pc = "mark" => t \in Killable /\ t \in Live',
         Depth = 0 \/ "kill" \in Windows
  PROVE  Targets'
<1>1. /\ Len(stack'[curr]) = Depth + 1 /\ Depth \in Nat /\ Depth = Len(stack[curr])
      /\ stack'[curr][Depth + 1] = [pc |-> pc, thr |-> t, irq |-> irq]
      /\ \A k \in 1..Depth : stack'[curr][k] = stack[curr][k]
      /\ \A c \in Contexts \ {curr} : stack'[c] = stack[c]
  BY PushIs, TopIs DEF Depth
<1>2. stack'[curr][Depth + 1].pc = pc /\ stack'[curr][Depth + 1].thr = t
  BY <1>1
<1> SUFFICES ASSUME NEW c \in Contexts, NEW k \in 1..Len(stack'[c]), stack'[c][k].pc = "mark"
             PROVE  /\ stack'[c][k].thr \in Killable
                    /\ "kill" \notin Windows =>
                         c = curr /\ k = Len(stack'[c]) /\ stack'[c][k].thr \in Live'
  BY DEF Targets
<1>3. CASE c = curr /\ k = Depth + 1
  BY <1>1, <1>2, <1>3
<1>4. CASE ~(c = curr /\ k = Depth + 1)
  <2>1. stack'[c][k] = stack[c][k] /\ k \in 1..Len(stack[c]) /\ (c = curr => Depth # 0)
    BY <1>1, <1>4
  <2> QED
    BY <2>1 DEF Targets
<1> QED
  BY <1>3, <1>4

\* outside the kernel's functions nobody is in sys_kill, unless it was preempted there
LEMMA IdleTargets ==
  ASSUME TypeOK, Targets, stack' = stack, curr' = curr, Depth = 0
  PROVE  Targets'
<1> SUFFICES ASSUME NEW c \in Contexts, NEW k \in 1..Len(stack[c]), stack[c][k].pc = "mark"
             PROVE  /\ stack[c][k].thr \in Killable
                    /\ "kill" \in Windows
  BY DEF Targets
<1> QED
  BY DEF Targets, Depth

LEMMA NoPc ==
  ASSUME Depth = 0, NEW pc
  PROVE  ~AtPc(pc)
  BY DEF AtPc

\* A tick or a call of schedule() starts at its head.
LEMMA EnterTop ==
  ASSUME TypeOK, Targets, NEW irq \in BOOLEAN, EnterSchedule(irq), curr' = curr,
         Depth = 0 \/ (Top.pc = "mark" /\ "kill" \in Windows), alloc' = alloc
  PROVE  Targets' /\ \A pc \in {"del", "test", "check", "switch"} : ~AtPc(pc)'
<1>1. CASE queue = << >>
  <2>1. stack' = stack
    BY <1>1 DEF EnterSchedule
  <2>2. Depth' = Depth /\ Top' = Top
    BY <2>1 DEF Depth, Top
  <2>3. Live' = Live
    BY LiveKept
  <2>4. Targets'
    BY <2>1, <2>3 DEF Targets
  <2> QED
    BY <2>2, <2>4, TopIs DEF AtPc
<1>2. CASE queue # << >>
  <2>1. Push("head", Nobody, irq) /\ [pc |-> "head", thr |-> Nobody, irq |-> irq] \in Frames
    BY <1>2, NewFrames DEF EnterSchedule
  <2>2. Targets'
    BY <2>1, PushTargets
  <2>3. /\ Len(stack'[curr]) = Depth + 1 /\ Depth \in Nat
        /\ stack'[curr][Depth + 1] = [pc |-> "head", thr |-> Nobody, irq |-> irq]
    BY <2>1, PushIs, TopIs
  <2>4. Top'.pc = "head"
    BY <2>3 DEF Depth, Top
  <2> QED
    BY <2>2, <2>4 DEF AtPc
<1> QED
  BY <1>1, <1>2

LEMMA PopTop ==
  ASSUME TypeOK, Marks, Depth > 0, Pop, curr' \in Contexts
  PROVE  \A pc \in {"del", "test", "check", "switch"} : ~AtPc(pc)'
<1>1. /\ stack' \in [Contexts -> Seq(Frames)]
      /\ Len(stack'[curr]) = Depth - 1 /\ Depth \in Nat /\ curr \in Contexts
      /\ \A k \in 1..(Depth - 1) : stack'[curr][k] = stack[curr][k]
      /\ \A c \in Contexts \ {curr} : stack'[c] = stack[c]
  BY PopIs, TopIs DEF TypeOK
<1>2. \A c \in Contexts : \A k \in 1..Len(stack'[c]) : stack'[c][k].pc = "mark"
  BY <1>1 DEF Marks, Depth
<1>3. Depth' = Len(stack'[curr']) /\ Depth' \in Nat
  BY <1>1, LenProperties DEF Depth
<1>4. Depth' > 0 => Top'.pc = "mark"
  BY <1>2, <1>3 DEF Top
<1> QED
  BY <1>4 DEF AtPc

\* What an idle thread reads of the queue is in it, and comes after what it has.
LEMMA CursorIs ==
  ASSUME NEW q \in Seq(Threads), Distinct(q), NEW t
  PROVE  /\ After(q, t) \in Elems(q) \cup {Nobody}
         /\ First(q) \in Elems(q) \cup {Nobody}
         /\ After(q, t) = t => t = Nobody
<1>3. First(q) \in Elems(q) \cup {Nobody}
  <2>1. q # << >> => Head(q) = q[1] /\ Len(q) >= 1 /\ Len(q) \in Nat
    BY HeadTailProperties, EmptySeq, LenProperties
  <2> QED
    BY <2>1 DEF First, Elems
<1>1. CASE InQueue(q, t) /\ Place(q, t) < Len(q)
  <2>1. Place(q, t) \in 1..Len(q) /\ q[Place(q, t)] = t /\ Len(q) \in Nat
    BY <1>1, PlaceIs, LenProperties
  <2>2. Place(q, t) + 1 \in 1..Len(q) /\ Place(q, t) + 1 # Place(q, t)
    BY <1>1, <2>1
  <2>3. After(q, t) = q[Place(q, t) + 1]
    BY <1>1 DEF After
  <2>4. After(q, t) \in Elems(q) /\ After(q, t) # t
    BY <2>1, <2>2, <2>3 DEF Elems, Distinct
  <2> QED
    BY <2>4, <1>3
<1>2. CASE ~(InQueue(q, t) /\ Place(q, t) < Len(q))
  BY <1>2, <1>3 DEF After
<1> QED
  BY <1>1, <1>2

\* Nobody is in the middle of a release while a kernel frame is on the running stack.
LEMMA NoRelease ==
  ASSUME ReleaseNow, Depth > 0
  PROVE  Reaping = {} /\ \A i \in Idles : walk[i].pc # "release"
  BY DEF ReleaseNow, Reaping, Releasing

\* The parts of JInv that a step leaves alone when it moves no thread.
LEMMA RestKept ==
  ASSUME JInv, alloc' = alloc, walk' = walk,
         \A i \in Idles : state'[i] = state[i],
         \A i \in Idles : walk[i].pc # "release"
  PROVE  (IdlesRunnable /\ Guarded /\ ReleaseNow /\ Cursors)'
  BY LiveKept DEF JInv, IdlesRunnable, Guarded, ReleaseNow, Cursors

LEMMA TopHead ==
  ASSUME NEW q \in Seq(Threads), q # << >>
  PROVE  Head(q) \in Elems(q)
<1>1. Head(q) = q[1] /\ Len(q) >= 1 /\ Len(q) \in Nat
  BY HeadTailProperties, EmptySeq, LenProperties
<1> QED
  BY <1>1 DEF Elems

LEMMA ScheduleCalm ==
  ASSUME JInv, IInv', ScheduleStep
  PROVE  (TopOK /\ CurrOK /\ Targets /\ IdlesRunnable /\ Guarded /\ ReleaseNow /\ Cursors)'
<1>0. /\ TypeOK /\ Marks /\ QInv /\ QInv' /\ TopOK /\ CurrOK /\ Targets /\ ReleaseNow
      /\ queue \in Seq(Threads) /\ curr \in Contexts
      /\ alloc \in [Threads -> {"unborn", "live", "freed"}]
      /\ state \in [Threads -> {"runnable", "dead"}]
  BY DEF JInv, IInv, TypeOK
<1>a. Depth > 0 /\ Top.irq \in BOOLEAN
  BY <1>0, TopIs, FrameThread
     DEF ScheduleStep, TakeHead, DelNext, SkipDead, FoundRunnable, Requeue, AllExited, ContextSwitch
<1>b. Reaping = {} /\ \A i \in Idles : walk[i].pc # "release"
  BY <1>0, <1>a, NoRelease
<1>c. ASSUME ~AtPc("switch"), curr' = curr, alloc' = alloc PROVE CurrOK'
  <2>1. curr \in Live \cup {Shell}
    BY <1>0, <1>c DEF CurrOK
  <2> QED
    BY <2>1, <1>c, LiveKept DEF CurrOK
<1>1. CASE TakeHead
  <2>1. /\ Head(queue) \in Threads /\ Head(queue) \in Elems(queue) /\ ~AtPc("switch")
        /\ queue' = queue /\ alloc' = alloc /\ walk' = walk /\ curr' = curr /\ state' = state
        /\ Goto("del", Head(queue))
    BY <1>0, <1>1, TopHead, HeadTailProperties DEF TakeHead, AtPc
  <2>2. [pc |-> "del", thr |-> Head(queue), irq |-> Top.irq] \in Frames
    BY <2>1, <1>a, NewFrames
  <2>3. Depth' = Depth /\ Top'.pc = "del" /\ Top'.thr = Head(queue)
    BY <1>0, <1>a, <2>1, <2>2, GotoTop
  <2>4. Targets'
    BY <1>0, <1>a, <2>1, <2>2, GotoTargets
  <2>5. TopOK'
    BY <2>1, <2>3 DEF TopOK, AtPc, Elems
  <2> QED
    BY <2>1, <2>4, <2>5, <1>b, <1>c, RestKept
<1>2. CASE DelNext
  <2>1. /\ Top.thr \in Threads /\ ~AtPc("switch")
        /\ alloc' = alloc /\ walk' = walk /\ curr' = curr /\ state' = state
        /\ Goto("test", Top.thr)
    BY <1>0, <1>2, TopThread DEF DelNext, AtPc
  <2>2. [pc |-> "test", thr |-> Top.thr, irq |-> Top.irq] \in Frames
    BY <2>1, <1>a, NewFrames
  <2>3. Depth' = Depth /\ Top'.pc = "test"
    BY <1>0, <1>a, <2>1, <2>2, GotoTop
  <2>4. Targets'
    BY <1>0, <1>a, <2>1, <2>2, GotoTargets
  <2>5. TopOK'
    BY <2>3 DEF TopOK, AtPc
  <2> QED
    BY <2>1, <2>4, <2>5, <1>b, <1>c, RestKept
<1>3. CASE SkipDead
  <2>1. /\ Top.thr \in Threads /\ ~AtPc("switch")
        /\ alloc' = alloc /\ walk' = walk /\ curr' = curr /\ state' = state
        /\ Goto("del", Head(queue')) /\ queue' = Append(queue, Top.thr)
    BY <1>0, <1>3, TopThread DEF SkipDead, AtPc
  <2>2. queue' \in Seq(Threads) /\ Head(queue') \in Threads /\ Head(queue') \in Elems(queue')
    BY <1>0, <2>1, AppendType, TopHead
  <2>3. [pc |-> "del", thr |-> Head(queue'), irq |-> Top.irq] \in Frames
    BY <2>2, <1>a, NewFrames
  <2>4. Depth' = Depth /\ Top'.pc = "del" /\ Top'.thr = Head(queue')
    BY <1>0, <1>a, <2>1, <2>3, GotoTop
  <2>5. Targets'
    BY <1>0, <1>a, <2>1, <2>3, GotoTargets
  <2>6. TopOK'
    BY <2>2, <2>4 DEF TopOK, AtPc, Elems
  <2> QED
    BY <2>1, <2>5, <2>6, <1>b, <1>c, RestKept
<1>4. CASE FoundRunnable
  <2>1. /\ Top.thr \in Threads /\ ~AtPc("switch") /\ state[Top.thr] = "runnable"
        /\ alloc' = alloc /\ walk' = walk /\ curr' = curr /\ state' = state
        /\ Goto("check", Top.thr)
    BY <1>0, <1>4, TopThread DEF FoundRunnable, AtPc
  <2>2. [pc |-> "check", thr |-> Top.thr, irq |-> Top.irq] \in Frames
    BY <2>1, <1>a, NewFrames
  <2>3. Depth' = Depth /\ Top'.pc = "check" /\ Top'.thr = Top.thr
    BY <1>0, <1>a, <2>1, <2>2, GotoTop
  <2>4. Targets'
    BY <1>0, <1>a, <2>1, <2>2, GotoTargets
  <2>5. TopOK'
    BY <2>1, <2>3 DEF TopOK, AtPc
  <2> QED
    BY <2>1, <2>4, <2>5, <1>b, <1>c, RestKept
<1>5. CASE Requeue
  <2>1. /\ Top.thr \in Threads /\ ~AtPc("switch") /\ state[Top.thr] = "runnable"
        /\ alloc' = alloc /\ walk' = walk /\ curr' = curr /\ state' = state
        /\ Goto("switch", Top.thr) /\ HeldNow = {Top.thr}
    BY <1>0, <1>5, TopThread DEF Requeue, AtPc, TopOK, HeldNow
  <2>2. [pc |-> "switch", thr |-> Top.thr, irq |-> Top.irq] \in Frames
    BY <2>1, <1>a, NewFrames DEF Contexts
  <2>3. Depth' = Depth /\ Top'.pc = "switch" /\ Top'.thr = Top.thr
    BY <1>0, <1>a, <2>1, <2>2, GotoTop
  <2>4. Targets'
    BY <1>0, <1>a, <2>1, <2>2, GotoTargets
  <2>5. Top.thr \in Live /\ Live' = Live /\ Top.thr # Shell
    BY <1>0, <2>1, LiveKept, SchedAssumption DEF QInv
  <2>6. TopOK'
    BY <2>1, <2>3, <2>5 DEF TopOK, AtPc
  <2> QED
    BY <2>1, <2>4, <2>6, <1>b, <1>c, RestKept
<1>6. CASE AllExited
  <2>1. /\ Top.thr \in Threads /\ ~AtPc("switch") /\ queue = << >>
        /\ walk' = walk /\ curr' = curr /\ state' = state
        /\ Goto("switch", Shell) /\ HeldNow = {Top.thr}
        /\ alloc' = [alloc EXCEPT ![Top.thr] = "freed"]
    BY <1>0, <1>6, TopThread DEF AllExited, AtPc, HeldNow
  <2>2. [pc |-> "switch", thr |-> Shell, irq |-> Top.irq] \in Frames
    BY <2>1, <1>a, NewFrames DEF Contexts
  <2>3. Depth' = Depth /\ Top'.pc = "switch" /\ Top'.thr = Shell
    BY <1>0, <1>a, <2>1, <2>2, GotoTop
  <2>4. Targets'
    BY <1>0, <1>a, <2>1, <2>2, GotoTargets
  <2>5. Live = {Top.thr} /\ Live' = {}
    <3>1. Elems(queue) = {}
      BY <2>1 DEF Elems
    <3>2. Live = {Top.thr}
      BY <1>0, <1>b, <2>1, <3>1 DEF QInv
    <3> QED
      BY <1>0, <2>1, <3>2 DEF Live
  <2>6. Top.thr \in Idles
    <3>1. Top.thr \in Users => \E i \in Idles : i = Top.thr
      BY <2>5 DEF JInv, Guarded
    <3> QED
      BY <2>1, <3>1 DEF Threads
  <2>7. TopOK'
    BY <2>3, <2>5 DEF TopOK, AtPc
  <2>8. CurrOK'
    BY <1>0, <1>a, <2>1, <2>3, <2>5, <2>6 DEF CurrOK, AtPc
  <2>9. IdlesRunnable' /\ ReleaseNow' /\ Guarded'
    BY <1>b, <2>1, <2>5 DEF JInv, IdlesRunnable, Guarded, ReleaseNow
  <2>10. Cursors'
    <3>1. \A i \in Idles : i \in Threads
      BY DEF Threads
    <3>2. \A i \in Idles : alloc'[i] # "live" /\ (alloc'[i] = "unborn" => alloc[i] = "unborn")
      BY <1>0, <2>1, <2>5, <3>1 DEF Live
    <3> QED
      BY <2>1, <3>2 DEF JInv, Cursors
  <2> QED
    BY <2>4, <2>7, <2>8, <2>9, <2>10
<1>7. CASE ContextSwitch
  <2>1. /\ Top.thr \in Contexts /\ AtPc("switch") /\ Pop /\ curr' = Top.thr
        /\ queue' = queue /\ alloc' = alloc /\ walk' = walk /\ state' = state
    BY <1>0, <1>7, TopThread DEF ContextSwitch
  <2>2. Targets'
    BY <1>0, <1>a, <2>1, PopTargets
  <2>3. TopOK'
    <3>1. \A pc \in {"del", "test", "check", "switch"} : ~AtPc(pc)'
      BY <1>0, <1>a, <2>1, PopTop
    <3> QED
      BY <3>1 DEF TopOK
  <2>4. CurrOK'
    BY <1>0, <2>1, LiveKept DEF CurrOK, TopOK
  <2> QED
    BY <2>1, <2>2, <2>3, <2>4, <1>b, RestKept
<1> QED
  BY <1>1, <1>2, <1>3, <1>4, <1>5, <1>6, <1>7 DEF ScheduleStep

\* Outside every kernel function TopOK says nothing.
LEMMA IdleTop ==
  ASSUME stack' = stack, curr' = curr, Depth = 0
  PROVE  TopOK'
<1>1. Depth' = 0
  BY DEF Depth
<1>2. \A pc \in {"del", "check", "switch"} : ~AtPc(pc)'
  BY <1>1 DEF AtPc
<1> QED
  BY <1>2 DEF TopOK

LEMMA IdleCalm ==
  ASSUME JInv, IInv', NEW n \in Idles, IdleStep(n)
  PROVE  (TopOK /\ CurrOK /\ Targets /\ IdlesRunnable /\ Guarded /\ ReleaseNow /\ Cursors)'
<1> DEFINE Walks == [Idles -> [pc : {"walk", "release"},
                               pos : Threads \cup {Nobody}, tmp : Threads \cup {Nobody}]]
<1>0. /\ TypeOK /\ QInv /\ QInv' /\ TopOK /\ CurrOK /\ Targets /\ ReleaseNow /\ Guarded /\ Cursors
      /\ IdlesRunnable /\ queue \in Seq(Threads) /\ walk \in Walks /\ Distinct(queue)
      /\ alloc \in [Threads -> {"unborn", "live", "freed"}]
  BY DEF JInv, IInv, QInv, TypeOK
<1>1. /\ curr = n /\ Depth = 0 /\ stack' = stack /\ curr' = curr /\ state' = state
      /\ n \in Threads /\ n # Shell
  BY SchedAssumption DEF IdleStep, IdleStart, IdlePass, IdleUnlink, IdleRelease, IdleRuns, Walking, Threads
<1>2. TopOK' /\ Targets' /\ IdlesRunnable' /\ Depth' = 0
  BY <1>0, <1>1, IdleTop, IdleTargets DEF IdlesRunnable, Depth
<1>3. n \in Live /\ alloc[n] = "live" /\ \A i \in Idles : alloc[i] = "live" => i = n
  <2>1. n \in Live
    BY <1>0, <1>1 DEF CurrOK, AtPc
  <2> QED
    BY <2>1, <1>0 DEF Live, Guarded, Threads
<1>4. \A i \in Idles : walk[i].pc = "release" => i = n
  BY <1>0, <1>1 DEF ReleaseNow
<1>5. Elems(queue) \subseteq Live
  BY <1>0 DEF QInv
<1>6. walk[n].pos \in Live \cup {Nobody} /\ walk[n].tmp \in Live \cup {Nobody}
  BY <1>0, <1>3 DEF Cursors
<1>7. CASE IdleStart(n) \/ IdlePass(n)
  <2>1. /\ alloc' = alloc /\ Live' = Live
        /\ \A i \in Idles \ {n} : walk'[i] = walk[i]
        /\ walk'[n].pc = "walk"
    BY <1>0, <1>7, LiveKept DEF IdleStart, IdlePass, Advance
  <2>2. /\ walk'[n].pos \in Live \cup {Nobody}
        /\ walk'[n].tmp \in Live \cup {Nobody}
        /\ walk'[n].pos = walk'[n].tmp => walk'[n].pos = Nobody
    <3>1. CASE IdleStart(n)
      <4>1. walk'[n].pos = First(queue) /\ walk'[n].tmp = After(queue, First(queue))
        BY <1>0, <3>1 DEF IdleStart
      <4>2. First(queue) \in Live \cup {Nobody}
        BY <1>0, <1>5, CursorIs
      <4>3. After(queue, First(queue)) \in Live \cup {Nobody}
        BY <1>0, <1>5, CursorIs
      <4>4. After(queue, First(queue)) = First(queue) => First(queue) = Nobody
        BY <1>0, CursorIs
      <4> QED
        BY <4>1, <4>2, <4>3, <4>4
    <3>2. CASE IdlePass(n)
      <4>1. walk'[n].pos = walk[n].tmp /\ walk'[n].tmp = After(queue, walk[n].tmp)
        BY <1>0, <3>2 DEF IdlePass, Advance
      <4>2. After(queue, walk[n].tmp) \in Live \cup {Nobody}
        BY <1>0, <1>5, CursorIs
      <4>3. After(queue, walk[n].tmp) = walk[n].tmp => walk[n].tmp = Nobody
        BY <1>0, CursorIs
      <4> QED
        BY <4>1, <4>2, <4>3, <1>6
    <3> QED
      BY <3>1, <3>2, <1>7
  <2>3. Cursors'
    BY <1>0, <1>3, <2>1, <2>2 DEF Cursors
  <2>4. Guarded' /\ CurrOK'
    BY <1>0, <1>1, <1>3, <2>1 DEF Guarded, CurrOK
  <2>5. ReleaseNow'
    BY <1>0, <1>1, <1>4, <2>1 DEF ReleaseNow
  <2> QED
    BY <1>2, <2>3, <2>4, <2>5
<1>8. CASE IdleUnlink(n)
  <2>1. /\ alloc' = alloc /\ Live' = Live
        /\ \A i \in Idles \ {n} : walk'[i] = walk[i]
        /\ walk'[n].pos = walk[n].pos /\ walk'[n].tmp = walk[n].tmp
        /\ state[walk[n].pos] = "dead"
    BY <1>0, <1>8, LiveKept DEF IdleUnlink
  <2>2. Cursors'
    BY <1>0, <1>3, <1>6, <2>1 DEF Cursors
  <2>3. Guarded' /\ CurrOK'
    BY <1>0, <1>1, <1>3, <2>1 DEF Guarded, CurrOK
  <2>4. ReleaseNow'
    BY <1>1, <1>2, <1>4, <2>1 DEF ReleaseNow
  <2> QED
    BY <1>2, <2>2, <2>3, <2>4
<1>9. CASE IdleRelease(n)
  <2> DEFINE p == walk[n].pos
             t == walk[n].tmp
  <2>1. /\ walk[n].pc = "release" /\ queue' = queue
        /\ alloc' = [alloc EXCEPT ![p] = "freed"]
        /\ \A i \in Idles \ {n} : walk'[i] = walk[i]
        /\ walk'[n].pc = "walk" /\ walk'[n].pos = t /\ walk'[n].tmp = After(queue, t)
    BY <1>0, <1>9 DEF IdleRelease, Advance
  <2>2. p \in Reaping /\ state[p] = "dead"
    BY <1>0, <2>1 DEF Reaping, Releasing, ReleaseNow
  <2>3. p \in Live /\ p \notin Elems(queue) /\ p \in Threads /\ p # Nobody
    BY <1>0, <2>2, SchedAssumption DEF QInv, Live
  <2>4. p \notin Idles
    BY <1>0, <2>2 DEF IdlesRunnable
  <2>5. Live' = Live \ {p}
    BY <1>0, <2>1, <2>3 DEF Live
  <2>6. t # p /\ t \in Live' \cup {Nobody}
    BY <1>0, <1>6, <2>3, <2>5 DEF Cursors
  <2>7. After(queue, t) \in Live' \cup {Nobody}
    BY <1>0, <1>5, <2>3, <2>5, CursorIs
  <2>8. After(queue, t) = t => t = Nobody
    BY <1>0, CursorIs
  <2>9. \A i \in Idles : i \in Threads /\ alloc'[i] = alloc[i]
    BY <1>0, <2>1, <2>4 DEF Threads
  <2> HIDE DEF p, t
  <2>10. Cursors'
    BY <1>0, <1>3, <2>1, <2>6, <2>7, <2>8, <2>9 DEF Cursors
  <2>11. Guarded' /\ CurrOK'
    <3>1. n \in Live' /\ \A i \in Idles : i \in Live' => i \in Live
      BY <1>3, <2>4, <2>5
    <3> QED
      BY <1>0, <1>1, <3>1 DEF Guarded, CurrOK
  <2>12. ReleaseNow'
    BY <1>1, <1>4, <2>1 DEF ReleaseNow
  <2> QED
    BY <1>2, <2>10, <2>11, <2>12
<1> QED
  BY <1>7, <1>8, <1>9 DEF IdleStep

LEMMA PushTop ==
  ASSUME TypeOK, NEW pc, NEW t, NEW irq, Push(pc, t, irq), curr' = curr,
         [pc |-> pc, thr |-> t, irq |-> irq] \in Frames
  PROVE  Depth' = Depth + 1 /\ Top'.pc = pc
<1>1. /\ Len(stack'[curr]) = Depth + 1
      /\ stack'[curr][Depth + 1] = [pc |-> pc, thr |-> t, irq |-> irq]
  BY PushIs
<1> QED
  BY <1>1 DEF Depth, Top

\* What user threads and the shell ask for.
LEMMA UserCalm ==
  ASSUME Calm, JInv, IInv', NEW u \in Users,
         \/ Yield(u)
         \/ Exit(u)
         \/ \E t \in Threads : KillFind(u, t)
         \/ \E c \in Users : Fork(u, c)
         \/ \E i \in Idles : ShellExec(u, i)
  PROVE  (TopOK /\ CurrOK /\ Targets /\ IdlesRunnable /\ Guarded /\ ReleaseNow /\ Cursors)'
<1>0. /\ TypeOK /\ QInv /\ QInv' /\ TopOK /\ CurrOK /\ Targets /\ ReleaseNow /\ Guarded /\ Cursors
      /\ IdlesRunnable /\ queue \in Seq(Threads) /\ u \in Threads /\ u \notin Idles /\ u # Shell
      /\ state \in [Threads -> {"runnable", "dead"}]
      /\ alloc \in [Threads -> {"unborn", "live", "freed"}]
      /\ \A i \in Idles : i \in Threads /\ i \notin Users
  BY SchedAssumption DEF JInv, IInv, TypeOK, Threads
<1>1. /\ Depth = 0 /\ curr' = curr /\ walk' = walk
      /\ \A pc : ~AtPc(pc)
      /\ curr \in Live \cup {Shell}
  <2>1. Depth = 0 /\ curr' = curr /\ walk' = walk
    BY DEF Yield, Exit, KillFind, Fork, ShellExec, InUserMode
  <2> QED
    BY <1>0, <2>1, NoPc DEF CurrOK
<1>2. \A i \in Idles : walk[i].pc # "release"
  <2>1. curr \notin Idles
    BY <1>0, SchedAssumption DEF Yield, Exit, KillFind, Fork, ShellExec, InUserMode, Threads
  <2> QED
    BY <1>0, <2>1 DEF ReleaseNow
<1>3. CASE Yield(u) \/ Exit(u)
  <2>1. /\ EnterSchedule(FALSE) /\ alloc' = alloc
        /\ \A i \in Idles : state'[i] = state[i]
    BY <1>0, <1>3 DEF Yield, Exit
  <2>2. Targets' /\ \A pc \in {"del", "test", "check", "switch"} : ~AtPc(pc)'
    BY <1>0, <1>1, <2>1, EnterTop
  <2>3. TopOK' /\ CurrOK'
    BY <1>1, <2>1, <2>2, LiveKept DEF TopOK, CurrOK
  <2> QED
    BY <1>1, <1>2, <2>1, <2>2, <2>3, RestKept
<1>4. ASSUME NEW t \in Threads, KillFind(u, t)
      PROVE  (TopOK /\ CurrOK /\ Targets /\ IdlesRunnable /\ Guarded /\ ReleaseNow /\ Cursors)'
  <2>1. /\ Push("mark", t, FALSE) /\ alloc' = alloc /\ state' = state /\ Live' = Live
        /\ t \in Killable /\ InQueue(queue, t)
    BY <1>4, LiveKept DEF KillFind
  <2>2. [pc |-> "mark", thr |-> t, irq |-> FALSE] \in Frames
    BY NewFrames
  <2>3. t \in Live'
    BY <1>0, <2>1, InQueueElems DEF QInv
  <2>4. Targets'
    BY <1>0, <1>1, <2>1, <2>2, <2>3, PushTargets
  <2>5. Top'.pc = "mark"
    BY <1>0, <1>1, <2>1, <2>2, PushTop
  <2>6. TopOK' /\ CurrOK'
    BY <1>1, <2>1, <2>5 DEF TopOK, CurrOK, AtPc
  <2> QED
    BY <1>1, <1>2, <2>1, <2>4, <2>6, RestKept
<1>5. ASSUME NEW c \in Users, Fork(u, c)
      PROVE  (TopOK /\ CurrOK /\ Targets /\ IdlesRunnable /\ Guarded /\ ReleaseNow /\ Cursors)'
  <2>1. /\ stack' = stack /\ curr = u /\ c \in Threads /\ c \notin Idles
        /\ alloc' = [alloc EXCEPT ![c] = "live"] /\ state' = [state EXCEPT ![c] = "runnable"]
    BY <1>0, <1>5 DEF Fork, InUserMode, Threads
  <2>2. Live' = Live \cup {c} /\ u \in Live
    BY <1>0, <1>1, <2>1 DEF Live
  <2>3. TopOK' /\ Targets'
    BY <1>0, <1>1, <2>1, IdleTop, IdleTargets
  <2>4. CurrOK' /\ Guarded'
    BY <1>0, <1>1, <2>1, <2>2 DEF CurrOK, Guarded
  <2>5. IdlesRunnable' /\ ReleaseNow'
    BY <1>0, <1>1, <1>2, <2>1 DEF IdlesRunnable, ReleaseNow
  <2>6. \A i \in Idles : alloc'[i] = alloc[i]
    BY <1>0, <2>1
  <2>7. Cursors'
    BY <1>0, <1>1, <2>2, <2>6 DEF Cursors
  <2> QED
    BY <2>3, <2>4, <2>5, <2>7
<1>6. ASSUME NEW i \in Idles, ShellExec(u, i)
      PROVE  (TopOK /\ CurrOK /\ Targets /\ IdlesRunnable /\ Guarded /\ ReleaseNow /\ Cursors)'
  <2>1. /\ stack' = stack /\ curr = Shell /\ queue = << >> /\ alloc[i] = "unborn"
        /\ alloc' = [alloc EXCEPT ![u] = "live", ![i] = "live"]
        /\ state' = [state EXCEPT ![u] = "runnable", ![i] = "runnable"]
    BY <1>6 DEF ShellExec, Calm
  <2>2. Live = {}
    <3>1. Elems(queue) = {}
      BY <2>1 DEF Elems
    <3>2. HeldNow = {} /\ Reaping = {}
      BY <1>1, <1>2 DEF HeldNow, Reaping, Releasing
    <3> QED
      BY <1>0, <3>1, <3>2 DEF QInv
  <2>3. Live' = {u, i}
    BY <1>0, <2>1, <2>2 DEF Live
  <2>4. TopOK' /\ Targets'
    BY <1>0, <1>1, <2>1, IdleTop, IdleTargets
  <2>5. CurrOK' /\ Guarded'
    BY <1>0, <1>1, <2>1, <2>3 DEF CurrOK, Guarded
  <2>6. IdlesRunnable' /\ ReleaseNow'
    BY <1>0, <1>1, <1>2, <2>1 DEF IdlesRunnable, ReleaseNow
  <2>7. walk'[i].pos = Nobody /\ walk'[i].tmp = Nobody
    BY <1>0, <1>1, <2>1 DEF Cursors
  <2>8. \A j \in Idles \ {i} : alloc'[j] = alloc[j] /\ alloc[j] # "live"
    BY <1>0, <2>1, <2>2 DEF Live
  <2>9. Cursors'
    BY <1>0, <1>1, <2>7, <2>8 DEF Cursors
  <2> QED
    BY <2>4, <2>5, <2>6, <2>9
<1> QED
  BY <1>3, <1>4, <1>5, <1>6

LEMMA CalmStep ==
  ASSUME Calm, JInv, [Next]_vars
  PROVE  JInv'
<1>0. /\ IInv /\ IInv' /\ TypeOK /\ Marks /\ TopOK /\ CurrOK /\ Targets /\ ReleaseNow /\ IdlesRunnable
      /\ curr \in Contexts /\ state \in [Threads -> {"runnable", "dead"}]
  BY InvStep DEF Calm, JInv, IInv, TypeOK
<1>1. CASE ScheduleStep
  BY <1>0, <1>1, ScheduleCalm DEF JInv
<1>2. CASE Tick
  <2>1. Window # "tick" /\ Window # "schedule" /\ Window # "release"
    BY <1>2, SchedAssumption DEF Tick, WindowNames, Calm
  <2>2. Depth = 0 \/ (Top.pc = "mark" /\ "kill" \in Windows)
    BY <1>0, <1>2, <2>1, TopIs DEF Window, Tick
  <2>3. \A i \in Idles : walk[i].pc # "release"
    BY <1>0, <2>1 DEF Window, ReleaseNow
  <2>4. EnterSchedule(TRUE) /\ alloc' = alloc /\ walk' = walk /\ curr' = curr /\ state' = state
    BY <1>2 DEF Tick
  <2>5. Targets' /\ \A pc \in {"del", "test", "check", "switch"} : ~AtPc(pc)'
    BY <1>0, <2>2, <2>4, EnterTop
  <2>6. curr \in Live \cup {Shell}
    BY <1>0, <2>2, TopIs DEF CurrOK, AtPc
  <2>7. TopOK' /\ CurrOK'
    BY <2>4, <2>5, <2>6, LiveKept DEF TopOK, CurrOK
  <2>8. (IdlesRunnable /\ Guarded /\ ReleaseNow /\ Cursors)'
    BY <2>3, <2>4, RestKept
  <2> QED
    BY <1>0, <2>5, <2>7, <2>8 DEF JInv
<1>3. ASSUME NEW i \in Idles, IdleStep(i) PROVE JInv'
  BY <1>0, <1>3, IdleCalm DEF JInv
<1>4. CASE KillMark
  <2>1. /\ Depth > 0 /\ Pop /\ AtPc("mark") /\ Depth \in Nat /\ Depth = Len(stack[curr])
        /\ alloc' = alloc /\ walk' = walk /\ curr' = curr
        /\ state' = [state EXCEPT ![Top.thr] = "dead"]
    BY <1>0, <1>4, TopIs DEF KillMark, Depth
  <2>2. Targets' /\ \A pc \in {"del", "test", "check", "switch"} : ~AtPc(pc)'
    BY <1>0, <2>1, PopTargets, PopTop
  <2>3. Top.thr \notin Idles
    <3>1. stack[curr][Depth].pc = "mark" /\ Depth \in 1..Len(stack[curr])
      BY <2>1 DEF AtPc, Top
    <3>2. Top.thr \in Killable
      BY <1>0, <3>1 DEF Targets, Top
    <3> QED
      BY <3>2, SchedAssumption DEF Calm
  <2>4. \A i \in Idles : state'[i] = state[i]
    BY <1>0, <2>1, <2>3
  <2>5. \A i \in Idles : walk[i].pc # "release"
    BY <1>0, <2>1, NoRelease
  <2>6. TopOK' /\ CurrOK'
    BY <1>0, <2>1, <2>2, LiveKept DEF TopOK, CurrOK, AtPc
  <2>7. (IdlesRunnable /\ Guarded /\ ReleaseNow /\ Cursors)'
    BY <2>1, <2>4, <2>5, RestKept
  <2> QED
    BY <1>0, <2>2, <2>6, <2>7 DEF JInv
<1>5. ASSUME NEW u \in Users,
             \/ Yield(u)
             \/ Exit(u)
             \/ \E t \in Threads : KillFind(u, t)
             \/ \E c \in Users : Fork(u, c)
             \/ \E i \in Idles : ShellExec(u, i)
      PROVE  JInv'
  BY <1>0, <1>5, UserCalm DEF JInv
<1>6. CASE UNCHANGED vars
  <2>1. /\ queue' = queue /\ alloc' = alloc /\ walk' = walk /\ state' = state
        /\ stack' = stack /\ curr' = curr
    BY <1>6 DEF vars
  <2>2. Depth' = Depth /\ Top' = Top /\ Live' = Live /\ Elems(queue)' = Elems(queue)
    BY <2>1 DEF Depth, Top, Live, Elems
  <2>3. TopOK' /\ CurrOK'
    BY <1>0, <2>1, <2>2 DEF TopOK, CurrOK, AtPc
  <2>4. Targets' /\ ReleaseNow'
    BY <1>0, <2>1, <2>2 DEF Targets, ReleaseNow
  <2>5. (IdlesRunnable /\ Guarded /\ Cursors)'
    BY <1>0, <2>1, <2>2 DEF JInv, IdlesRunnable, Guarded, Cursors
  <2> QED
    BY <1>0, <2>3, <2>4, <2>5 DEF JInv
<1> QED
  BY <1>1, <1>2, <1>3, <1>4, <1>5, <1>6 DEF Next

LEMMA CalmInit == Init => JInv
<1> SUFFICES ASSUME Init PROVE JInv
  OBVIOUS
<1>1. IInv /\ curr = Shell /\ Live = {}
  BY InvInit DEF Init, Live
<1>2. \A c \in Contexts : stack[c] = << >> /\ Len(stack[c]) = 0
  BY EmptySeq DEF Init
<1>3. Depth = 0
  BY <1>1, <1>2 DEF Depth, Contexts
<1>4. TopOK /\ CurrOK /\ Targets
  BY <1>1, <1>2, <1>3 DEF TopOK, CurrOK, Targets, AtPc
<1>5. \A i \in Idles : i \in Threads
  BY DEF Threads
<1> QED
  BY <1>1, <1>4, <1>5 DEF JInv, Init, IdlesRunnable, Guarded, ReleaseNow, Cursors

LEMMA CalmNoDangling ==
  ASSUME JInv
  PROVE  NoDangling
<1>0. /\ TypeOK /\ Marks /\ QInv /\ TopOK /\ CurrOK /\ Targets /\ Cursors /\ curr \in Contexts
      /\ stack \in [Contexts -> Seq(Frames)]
  BY DEF JInv, IInv, TypeOK
<1>1. ASSUME NEW c \in Contexts, NEW k \in 1..Len(stack[c]),
             stack[c][k].thr \notin Live \cup {Shell, Nobody}
      PROVE  stack[c][k].pc = "mark" /\ "kill" \in Windows
  <2>1. CASE stack[c][k].pc = "mark"
    BY <1>0, <1>1, <2>1 DEF Targets
  <2>2. CASE stack[c][k].pc # "mark"
    <3>1. Depth > 0 /\ Top = stack[c][k] /\ Top \in Frames
      BY <1>0, <2>2, TopIs DEF Marks, Depth, Top
    <3>2. CASE Top.pc = "head"
      BY <1>1, <3>1, <3>2 DEF Frames
    <3>3. CASE Top.pc = "del"
      BY <1>0, <1>1, <3>1, <3>3 DEF TopOK, QInv, AtPc
    <3>4. CASE Top.pc \in {"test", "check"}
      BY <1>0, <1>1, <3>1, <3>4 DEF HeldNow, QInv, AtPc
    <3>5. CASE Top.pc = "switch"
      BY <1>0, <1>1, <3>1, <3>5 DEF TopOK, AtPc
    <3>6. Top.pc \in {"head", "del", "test", "check", "mark", "switch"}
      BY <3>1 DEF Frames
    <3> QED
      BY <2>2, <3>1, <3>2, <3>3, <3>4, <3>5, <3>6
  <2> QED
    BY <2>1, <2>2
<1> QED
  BY <1>0, <1>1 DEF NoDangling, CurrOK, Cursors

\* No pointer the kernel holds across steps refers to a freed thread: neither the current
\* thread nor the `next` of schedule() nor a cursor of the idle walk (kernel/sched.c:26-58,
\* kthread.c), whatever the number of threads.
THEOREM SchedNoDangling ==
  ASSUME Calm
  PROVE  Spec => []NoDangling
<1>1. JInv /\ [Next]_vars => JInv'
  BY CalmStep
<1> QED
  BY <1>1, CalmInit, CalmNoDangling, PTL DEF Spec

\* Only context_switch changes the current thread.
LEMMA OnlySwitches ==
  ASSUME [Next]_vars, curr' # curr
  PROVE  ContextSwitch
  BY DEF Next, ScheduleStep, TakeHead, DelNext, SkipDead, FoundRunnable, Requeue, AllExited, Tick,
         IdleStep, IdleStart, IdlePass, IdleUnlink, IdleRelease, KillMark,
         Yield, Exit, KillFind, Fork, ShellExec, vars

\* Only the last schedule() and the idle thread free a thread.
LEMMA OnlyFrees ==
  ASSUME [Next]_vars, TypeOK, NEW t \in Threads, alloc[t] = "live", alloc'[t] = "freed"
  PROVE  AllExited \/ \E i \in Idles : IdleRelease(i)
<1>1. alloc \in [Threads -> {"unborn", "live", "freed"}]
  BY DEF TypeOK
<1>2. ~\E u \in Users : (\E c \in Users : Fork(u, c)) \/ (\E i \in Idles : ShellExec(u, i))
  BY <1>1 DEF Fork, ShellExec
<1> QED
  BY <1>2 DEF Next, ScheduleStep, TakeHead, DelNext, SkipDead, FoundRunnable, Requeue, ContextSwitch,
         Tick, IdleStep, IdleStart, IdlePass, IdleUnlink, KillMark, Yield, Exit, KillFind, vars

LEMMA SwitchCalm ==
  ASSUME JInv, [Next]_vars, curr' # curr
  PROVE  /\ curr' = Shell \/ (state[curr'] = "runnable" /\ alloc[curr'] = "live")
         /\ curr' = Shell => \A t \in Threads : alloc[t] # "live"
<1>1. AtPc("switch") /\ curr' = Top.thr
  BY OnlySwitches DEF ContextSwitch
<1> QED
  BY <1>1 DEF JInv, TopOK, Live

LEMMA FreeCalm ==
  ASSUME JInv, [Next]_vars, NEW t \in Threads, alloc[t] = "live", alloc'[t] = "freed"
  PROVE  IF t \in Idles THEN \A u \in Users : alloc[u] # "live" ELSE state[t] = "dead" /\ curr # t
<1>0. /\ TypeOK /\ QInv /\ Guarded /\ ReleaseNow /\ IdlesRunnable
      /\ alloc \in [Threads -> {"unborn", "live", "freed"}]
  BY DEF JInv, IInv, TypeOK
<1>1. CASE AllExited
  <2>1. /\ Depth > 0 /\ HeldNow = {Top.thr} /\ queue = << >> /\ Top.thr \in Threads
        /\ alloc' = [alloc EXCEPT ![Top.thr] = "freed"]
    BY <1>0, <1>1, TopIs, TopThread DEF AllExited, HeldNow
  <2>2. t = Top.thr
    BY <1>0, <2>1
  <2>3. Live = {t}
    <3>1. Elems(queue) = {} /\ Reaping = {}
      BY <1>0, <2>1, NoRelease DEF Elems
    <3> QED
      BY <1>0, <2>1, <2>2, <3>1 DEF QInv
  <2>4. t \in Idles /\ \A u \in Users : u # t
    BY <1>0, <2>3, SchedAssumption DEF Guarded, Threads
  <2> QED
    BY <2>3, <2>4 DEF Live, Threads
<1>2. ASSUME NEW i \in Idles, IdleRelease(i)
      PROVE  IF t \in Idles THEN \A u \in Users : alloc[u] # "live" ELSE state[t] = "dead" /\ curr # t
  <2>1. /\ walk[i].pc = "release" /\ curr = i
        /\ alloc' = [alloc EXCEPT ![walk[i].pos] = "freed"]
    BY <1>2 DEF IdleRelease, IdleRuns
  <2>2. t = walk[i].pos
    BY <1>0, <2>1
  <2>3. state[t] = "dead"
    BY <1>0, <2>1, <2>2 DEF ReleaseNow
  <2> QED
    BY <1>0, <2>1, <2>3 DEF IdlesRunnable
<1> QED
  BY <1>0, <1>1, <1>2, OnlyFrees

\* A switch resumes a live and runnable thread, or the shell (kernel/sched.c:31-58).
THEOREM SchedOnlyRunnableResumes ==
  ASSUME Calm
  PROVE  Spec => OnlyRunnableResumes
<1>1. JInv /\ [Next]_vars => JInv'
  BY CalmStep
<1>2. JInv /\ [Next]_vars => [curr' # curr => curr' = Shell \/ (state[curr'] = "runnable" /\ alloc[curr'] = "live")]_vars
  BY SwitchCalm
<1> QED
  BY <1>1, <1>2, CalmInit, PTL DEF Spec, OnlyRunnableResumes

\* The shell gets the processor back only when every thread has been freed
\* (kernel/sched.c:40).
THEOREM SchedShellAfterAll ==
  ASSUME Calm
  PROVE  Spec => ShellAfterAll
<1>1. JInv /\ [Next]_vars => JInv'
  BY CalmStep
<1>2. JInv /\ [Next]_vars => [curr' = Shell /\ curr # Shell => \A t \in Threads : alloc[t] # "live"]_vars
  BY SwitchCalm
<1> QED
  BY <1>1, <1>2, CalmInit, PTL DEF Spec, ShellAfterAll

\* proc_release gets only dead threads, never the running one; the idle thread is freed
\* when no user thread is left (kernel/sched.c:40-46, kthread.c).
THEOREM SchedFreedOnlyWhenDone ==
  ASSUME Calm
  PROVE  Spec => FreedOnlyWhenDone
<1>1. JInv /\ [Next]_vars => JInv'
  BY CalmStep
<1>2. JInv /\ [Next]_vars =>
        [\A t \in Threads : alloc[t] = "live" /\ alloc'[t] = "freed" =>
           IF t \in Idles THEN \A u \in Users : alloc[u] # "live"
           ELSE state[t] = "dead" /\ curr # t]_vars
  BY FreeCalm
<1> QED
  BY <1>1, <1>2, CalmInit, PTL DEF Spec, FreedOnlyWhenDone
===============================================================================
