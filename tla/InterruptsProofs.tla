--------------------------- MODULE InterruptsProofs ---------------------------
(***************************************************************************)
(* Interrupt tasks and timer events with any number of threads, any depth  *)
(* of nesting, any delays and any number of pending `echoat` events.       *)
(***************************************************************************)
EXTENDS Interrupts, SequenceTheorems, FiniteSetTheorems, TLAPS

(***************************************************************************)
(* Sequences: the last element, and insertion at a place.                  *)
(***************************************************************************)
LEMMA FrontLast ==
  ASSUME NEW S, NEW s \in Seq(S), s # <<>>
  PROVE  /\ Front(s) \in Seq(S) /\ Len(Front(s)) = Len(s) - 1 /\ Len(s) \in Nat \ {0}
         /\ \A i \in 1..(Len(s) - 1) : Front(s)[i] = s[i]
         /\ Last(s) = s[Len(s)] /\ Last(s) \in S
<1>1. Len(s) \in Nat \ {0} /\ \A i \in 1..Len(s) : s[i] \in S
  BY LenProperties, EmptySeq
<1>2. \A i \in 1..(Len(s) - 1) : s[i] \in S
  BY <1>1
<1>3. /\ SubSeq(s, 1, Len(s) - 1) \in Seq(S)
      /\ Len(SubSeq(s, 1, Len(s) - 1)) =
           IF 1 <= Len(s) - 1 THEN (Len(s) - 1) - 1 + 1 ELSE 0
      /\ \A i \in 1..((Len(s) - 1) - 1 + 1) : SubSeq(s, 1, Len(s) - 1)[i] = s[1 + i - 1]
  BY <1>1, <1>2, SubSeqProperties
<1>4. /\ Front(s) \in Seq(S)
      /\ Len(Front(s)) = IF 1 <= Len(s) - 1 THEN (Len(s) - 1) - 1 + 1 ELSE 0
      /\ \A i \in 1..((Len(s) - 1) - 1 + 1) : Front(s)[i] = s[1 + i - 1]
  BY <1>3, Zenon DEF Front
<1>5. Len(Front(s)) = Len(s) - 1 /\ \A i \in 1..(Len(s) - 1) : Front(s)[i] = s[i]
  <2>1. Len(Front(s)) = Len(s) - 1
    <3>1. \A n \in Nat \ {0} : (IF 1 <= n - 1 THEN (n - 1) - 1 + 1 ELSE 0) = n - 1
      OBVIOUS
    <3> QED
      BY <1>1, <1>4, <3>1, Zenon
  <2>2. ASSUME NEW i \in 1..(Len(s) - 1) PROVE Front(s)[i] = s[i]
    <3>1. i \in 1..((Len(s) - 1) - 1 + 1) /\ 1 + i - 1 = i
      BY <1>1
    <3> QED
      BY <1>4, <3>1, Zenon
  <2> QED
    BY <2>1, <2>2
<1>6. Last(s) = s[Len(s)] /\ Last(s) \in S
  BY <1>1 DEF Last
<1> QED
  BY <1>1, <1>4, <1>5, <1>6, Zenon

LEMMA PushIs ==
  ASSUME NEW S, NEW s \in Seq(S), NEW x \in S
  PROVE  /\ Append(s, x) \in Seq(S) /\ Len(Append(s, x)) = Len(s) + 1 /\ Len(s) \in Nat
         /\ Append(s, x)[Len(s) + 1] = x
         /\ \A i \in 1..Len(s) : Append(s, x)[i] = s[i]
  BY AppendProperties, LenProperties

LEMMA ReplaceTopIs ==
  ASSUME NEW S, NEW s \in Seq(S), s # <<>>, NEW x \in S
  PROVE  /\ Append(Front(s), x) \in Seq(S) /\ Len(Append(Front(s), x)) = Len(s)
         /\ Append(Front(s), x)[Len(s)] = x
         /\ \A i \in 1..(Len(s) - 1) : Append(Front(s), x)[i] = s[i]
<1>1. /\ Front(s) \in Seq(S) /\ Len(Front(s)) = Len(s) - 1 /\ Len(s) \in Nat \ {0}
      /\ \A i \in 1..(Len(s) - 1) : Front(s)[i] = s[i]
  BY FrontLast
<1>2. /\ Append(Front(s), x) \in Seq(S) /\ Len(Append(Front(s), x)) = Len(Front(s)) + 1
      /\ Append(Front(s), x)[Len(Front(s)) + 1] = x
      /\ \A i \in 1..Len(Front(s)) : Append(Front(s), x)[i] = Front(s)[i]
  BY <1>1, PushIs
<1> QED
  BY <1>1, <1>2

LEMMA PairIs ==
  ASSUME NEW S, NEW s \in Seq(S), Len(s) = 2
  PROVE  s = <<s[1], s[2]>>
<1>1. s = [i \in 1..2 |-> s[i]] /\ <<s[1], s[2]>> = [i \in 1..2 |-> <<s[1], s[2]>>[i]]
  BY LenProperties
<1>2. ASSUME NEW i \in 1..2 PROVE s[i] = <<s[1], s[2]>>[i]
  <2>1. i = 1 \/ i = 2
    OBVIOUS
  <2> QED
    BY <2>1
<1> QED
  BY <1>1, <1>2

\* A set of natural numbers has a least element.
LEMMA LeastExists ==
  ASSUME NEW S \in SUBSET Nat, S # {}
  PROVE  \E x \in S : \A y \in S : x <= y
<1> DEFINE T == {0..x : x \in S}
           R == StrictSubsetOrdering(Nat)
<1>1. T \subseteq FiniteSubsetsOf(Nat) /\ T # {}
  <2>1. \A x \in S : 0..x \in SUBSET Nat /\ IsFiniteSet(0..x)
    BY FS_Interval
  <2> QED
    BY <2>1 DEF FiniteSubsetsOf
<1>2. PICK X \in T : \A Y \in T : <<Y, X>> \notin R
  <2> HIDE DEF T, R
  <2> QED
    BY <1>1, FS_StrictSubsetOrderingWellFounded, WFMin DEF R
<1>3. PICK x \in S : X = 0..x
  OBVIOUS
<1>4. ASSUME NEW y \in S, ~(x <= y) PROVE FALSE
  <2>1. 0..y \subseteq 0..x /\ 0..y # 0..x
    BY <1>4
  <2>2. <<0..y, 0..x>> \in R
    BY <2>1 DEF StrictSubsetOrdering
  <2> QED
    BY <2>2, <1>2, <1>3
<1> QED
  BY <1>4

LEMMA InsertAtIs ==
  ASSUME NEW S, NEW s \in Seq(S), NEW x \in S, NEW p \in 1..Len(s)
  PROVE  /\ InsertAt(s, p, x) \in Seq(S) /\ Len(InsertAt(s, p, x)) = Len(s) + 1
         /\ InsertAt(s, p, x)[p] = x
         /\ \A i \in 1..(p - 1) : InsertAt(s, p, x)[i] = s[i]
         /\ \A i \in p..Len(s) : InsertAt(s, p, x)[i + 1] = s[i]
<1> DEFINE a == SubSeq(s, 1, p - 1)
           b == SubSeq(s, p, Len(s))
<1>1. Len(s) \in Nat /\ p \in Int /\ \A i \in 1..Len(s) : s[i] \in S
  BY LenProperties
<1>2. /\ a \in Seq(S) /\ Len(a) = p - 1
      /\ \A i \in 1..(p - 1) : a[i] = s[i]
  <2>1. \A i \in 1..(p - 1) : s[i] \in S
    BY <1>1
  <2>2. /\ SubSeq(s, 1, p - 1) \in Seq(S)
        /\ Len(SubSeq(s, 1, p - 1)) = IF 1 <= p - 1 THEN (p - 1) - 1 + 1 ELSE 0
        /\ \A i \in 1..((p - 1) - 1 + 1) : SubSeq(s, 1, p - 1)[i] = s[1 + i - 1]
    BY <1>1, <2>1, SubSeqProperties
  <2> QED
    BY <1>1, <2>2
<1>3. /\ b \in Seq(S) /\ Len(b) = Len(s) - p + 1
      /\ \A i \in 1..(Len(s) - p + 1) : b[i] = s[p + i - 1]
  <2>1. \A i \in p..Len(s) : s[i] \in S
    BY <1>1
  <2>2. /\ SubSeq(s, p, Len(s)) \in Seq(S)
        /\ Len(SubSeq(s, p, Len(s))) = IF p <= Len(s) THEN Len(s) - p + 1 ELSE 0
        /\ \A i \in 1..(Len(s) - p + 1) : SubSeq(s, p, Len(s))[i] = s[p + i - 1]
    BY <1>1, <2>1, SubSeqProperties
  <2> QED
    BY <1>1, <2>2
<1>4. <<x>> \in Seq(S) /\ Len(<<x>>) = 1 /\ <<x>>[1] = x
  OBVIOUS
<1> HIDE DEF a, b
<1>5. /\ a \o <<x>> \in Seq(S) /\ Len(a \o <<x>>) = p
      /\ (a \o <<x>>)[p] = x /\ \A i \in 1..(p - 1) : (a \o <<x>>)[i] = s[i]
  <2>1. /\ a \o <<x>> \in Seq(S) /\ Len(a \o <<x>>) = Len(a) + Len(<<x>>)
        /\ \A i \in 1..(Len(a) + Len(<<x>>)) :
             (a \o <<x>>)[i] = IF i <= Len(a) THEN a[i] ELSE <<x>>[i - Len(a)]
    BY <1>2, <1>4, ConcatProperties
  <2> QED
    BY <1>1, <1>2, <1>4, <2>1
<1> DEFINE c == a \o <<x>>
<1>6. InsertAt(s, p, x) = c \o b
  BY DEF InsertAt, a, b
<1>7. /\ c \in Seq(S) /\ Len(c) = p
      /\ c[p] = x /\ \A i \in 1..(p - 1) : c[i] = s[i]
  BY <1>5
<1> HIDE DEF c
<1>8. /\ c \o b \in Seq(S) /\ Len(c \o b) = Len(c) + Len(b)
      /\ \A i \in 1..(Len(c) + Len(b)) : (c \o b)[i] = IF i <= Len(c) THEN c[i] ELSE b[i - Len(c)]
  BY <1>3, <1>7, ConcatProperties
<1>9. Len(c \o b) = Len(s) + 1 /\ (c \o b)[p] = x /\ \A i \in 1..(p - 1) : (c \o b)[i] = s[i]
  BY <1>1, <1>3, <1>7, <1>8
<1>10. ASSUME NEW i \in p..Len(s) PROVE (c \o b)[i + 1] = s[i]
  <2>1. (c \o b)[i + 1] = b[i + 1 - p]
    BY <1>1, <1>3, <1>7, <1>8
  <2>2. i + 1 - p \in 1..(Len(s) - p + 1) /\ p + (i + 1 - p) - 1 = i
    BY <1>1
  <2> QED
    BY <1>3, <2>1, <2>2
<1> QED
  BY <1>6, <1>8, <1>9, <1>10

\* pq_push puts the new entry before one of those it goes in front of, or at the end.
LEMMA InsertIs ==
  ASSUME NEW S, NEW s \in Seq(S), NEW x \in S, NEW behind \in SUBSET (1..Len(s))
  PROVE  \E p \in 1..(Len(s) + 1) :
           /\ Insert(s, x, behind) \in Seq(S) /\ Len(Insert(s, x, behind)) = Len(s) + 1
           /\ Insert(s, x, behind)[p] = x
           /\ \A i \in 1..(p - 1) : Insert(s, x, behind)[i] = s[i]
           /\ \A i \in p..Len(s) : Insert(s, x, behind)[i + 1] = s[i]
<1>1. Len(s) \in Nat
  BY LenProperties
<1>2. CASE behind = {}
  <2>1. Insert(s, x, behind) = Append(s, x)
    BY <1>2 DEF Insert
  <2>2. /\ Append(s, x) \in Seq(S) /\ Len(Append(s, x)) = Len(s) + 1
        /\ Append(s, x)[Len(s) + 1] = x /\ \A i \in 1..Len(s) : Append(s, x)[i] = s[i]
    BY PushIs
  <2> QED
    BY <1>1, <2>1, <2>2
<1>3. CASE behind # {}
  <2> DEFINE p == CHOOSE i \in behind : \A j \in behind : i <= j
  <2>1. p \in behind
    <3>1. behind \in SUBSET Nat
      BY <1>1
    <3>2. \E i \in behind : \A j \in behind : i <= j
      BY <1>3, <3>1, LeastExists
    <3> QED
      BY <3>2
  <2>2. Insert(s, x, behind) = InsertAt(s, p, x)
    BY <1>3 DEF Insert
  <2> HIDE DEF p
  <2>3. p \in 1..Len(s) /\ p \in 1..(Len(s) + 1)
    BY <1>1, <2>1
  <2>4. /\ InsertAt(s, p, x) \in Seq(S) /\ Len(InsertAt(s, p, x)) = Len(s) + 1
        /\ InsertAt(s, p, x)[p] = x
        /\ \A i \in 1..(p - 1) : InsertAt(s, p, x)[i] = s[i]
        /\ \A i \in p..Len(s) : InsertAt(s, p, x)[i + 1] = s[i]
    BY <2>3, InsertAtIs
  <2>5. /\ Insert(s, x, behind) \in Seq(S) /\ Len(Insert(s, x, behind)) = Len(s) + 1
        /\ Insert(s, x, behind)[p] = x
        /\ \A i \in 1..(p - 1) : Insert(s, x, behind)[i] = s[i]
        /\ \A i \in p..Len(s) : Insert(s, x, behind)[i + 1] = s[i]
    BY <2>2, <2>4, Zenon
  <2> QED
    BY <2>3, <2>5, Zenon
<1> QED
  BY <1>2, <1>3

(***************************************************************************)
(* The queue of interrupt tasks.  A source whose task is queued is masked, *)
(* so that each is in it once at most, the UART's task first.              *)
(***************************************************************************)
Has(source) == \E i \in 1..Len(queue) : queue[i] = source

QueueOK == queue \in {<<>>, <<"uart">>, <<"timer">>, <<"uart", "timer">>}

LEMMA QueueFacts ==
  ASSUME QueueOK
  PROVE  /\ queue \in Seq(Sources)
         /\ queue = <<>> => ~Has("uart") /\ ~Has("timer")
         /\ queue # <<>> => /\ Head(queue) \in Sources /\ Has(Head(queue))
                            /\ Head(queue) = "timer" => ~Has("uart")
<1>1. CASE queue = <<>>
  BY <1>1 DEF Has, Sources
<1>2. CASE queue = <<"uart">>
  BY <1>2 DEF Has, Sources
<1>3. CASE queue = <<"timer">>
  BY <1>3 DEF Has, Sources
<1>4. CASE queue = <<"uart", "timer">>
  BY <1>4 DEF Has, Sources
<1> QED
  BY <1>1, <1>2, <1>3, <1>4 DEF QueueOK

\* pq_pop
LEMMA TakenFromQueue ==
  ASSUME QueueOK, queue' = IF queue = <<>> THEN <<>> ELSE Tail(queue)
  PROVE  /\ QueueOK'
         /\ \A source : Has(source)' => Has(source)
         /\ queue = <<>> \/ Head(queue) = "timer" => queue' = <<>>
         /\ queue = <<>> \/ Head(queue) = "uart" =>
              ~Has("uart")' /\ (Has("timer") => Has("timer")')
<1>1. CASE queue = <<>>
  BY <1>1 DEF QueueOK, Has
<1>2. CASE queue = <<"uart">>
  <2>1. queue' = <<>>
    BY <1>2
  <2> QED
    BY <1>2, <2>1 DEF QueueOK, Has
<1>3. CASE queue = <<"timer">>
  <2>1. queue' = <<>>
    BY <1>3
  <2> QED
    BY <1>3, <2>1 DEF QueueOK, Has
<1>4. CASE queue = <<"uart", "timer">>
  <2>1. queue' = <<"timer">>
    BY <1>4
  <2> QED
    BY <1>4, <2>1 DEF QueueOK, Has
<1> QED
  BY <1>1, <1>2, <1>3, <1>4 DEF QueueOK

Queues(source) == queue' = Insert(queue, source, {i \in DOMAIN queue : TaskComp(source, queue[i])})

\* pq_push with irq_task_comp
LEMMA PutIntoTasks ==
  ASSUME QueueOK, NEW source \in Sources, ~Has(source), Queues(source)
  PROVE  /\ QueueOK'
         /\ Has(source)'
         /\ \A other \in Sources \ {source} : Has(other)' <=> Has(other)
<1>1. CASE queue = <<>>
  <2>1. queue' = <<source>>
    BY <1>1 DEF Queues, Insert
  <2> QED
    BY <1>1, <2>1 DEF QueueOK, Has, Sources
<1>2. CASE queue = <<"uart">>
  <2>1. source = "timer"
    BY <1>2 DEF Has, Sources
  <2>2. {i \in DOMAIN queue : TaskComp(source, queue[i])} = {}
    BY <1>2, <2>1 DEF TaskComp, Priority
  <2>3. queue' = <<"uart", "timer">>
    <3>1. queue' = Append(queue, "timer")
      BY <2>1, <2>2 DEF Queues, Insert
    <3>2. queue \in Seq(Sources) /\ "timer" \in Sources
      BY <1>2 DEF Sources
    <3>3. Len(queue) = 1 /\ queue[1] = "uart"
      BY <1>2
    <3> DEFINE q == Append(queue, "timer")
    <3>4. /\ q \in Seq(Sources) /\ Len(q) = Len(queue) + 1
          /\ q[Len(queue) + 1] = "timer" /\ \A i \in 1..Len(queue) : q[i] = queue[i]
      BY <3>2, PushIs
    <3> HIDE DEF q
    <3>5. q = <<q[1], q[2]>> /\ q[1] = "uart" /\ q[2] = "timer"
      BY <3>3, <3>4, PairIs
    <3> QED
      BY <3>1, <3>5 DEF q
  <2> QED
    BY <1>2, <2>1, <2>3 DEF QueueOK, Has, Sources
<1>3. CASE queue = <<"timer">>
  <2>1. source = "uart"
    BY <1>3 DEF Has, Sources
  <2>2. {i \in DOMAIN queue : TaskComp(source, queue[i])} = {1}
    BY <1>3, <2>1 DEF TaskComp, Priority
  <2>3. queue' = InsertAt(queue, 1, "uart")
    <3>1. (CHOOSE i \in {1} : \A j \in {1} : i <= j) = 1
      OBVIOUS
    <3> QED
      BY <2>1, <2>2, <3>1 DEF Queues, Insert
  <2>4. queue' = <<"uart", "timer">>
    <3>1. queue \in Seq(Sources) /\ "uart" \in Sources /\ 1 \in 1..Len(queue)
      BY <1>3 DEF Sources
    <3>2. Len(queue) = 1 /\ queue[1] = "timer"
      BY <1>3
    <3> DEFINE q == InsertAt(queue, 1, "uart")
    <3>3. /\ q \in Seq(Sources) /\ Len(q) = Len(queue) + 1
          /\ q[1] = "uart" /\ \A i \in 1..Len(queue) : q[i + 1] = queue[i]
      BY <3>1, InsertAtIs
    <3> HIDE DEF q
    <3>4. q = <<q[1], q[2]>> /\ q[2] = queue[1]
      BY <3>2, <3>3, PairIs
    <3> QED
      BY <2>3, <3>2, <3>3, <3>4 DEF q
  <2> QED
    BY <1>3, <2>1, <2>4 DEF QueueOK, Has, Sources
<1>4. CASE queue = <<"uart", "timer">>
  BY <1>4 DEF Has, Sources
<1> QED
  BY <1>1, <1>2, <1>3, <1>4 DEF QueueOK

(***************************************************************************)
(* The calls of irq_handle that have not returned.                         *)
(***************************************************************************)
Calls == stack[curr]
Depth == Len(Calls)

\* A call that has picked a task knows which.
TasksOK ==
  \A c \in Contexts : \A i \in 1..Len(stack[c]) :
    stack[c][i].pc = "picked" => stack[c][i].task \in Sources

LEMMA StackFacts ==
  ASSUME TypeOK
  PROVE  /\ curr \in Contexts /\ Calls \in Seq(Frames) /\ Depth \in Nat
         /\ Open <=> Depth = 0
         /\ \A i \in 1..Depth : /\ Calls[i] \in Frames /\ Calls[i].pc \in Codes
                                /\ Calls[i].task \in Sources \cup {None} /\ Calls[i].ripe \in Nat
         /\ \A pc : AtPc(pc) <=> Depth # 0 /\ Calls[Depth].pc = pc
         /\ Depth # 0 => Top = Calls[Depth] /\ Top \in Frames /\ Depth \in 1..Depth
<1>1. curr \in Contexts /\ Calls \in Seq(Frames)
  BY DEF TypeOK, Calls
<1>2. Depth \in Nat /\ \A i \in 1..Depth : Calls[i] \in Frames
  BY <1>1, LenProperties DEF Depth
<1>3. Open <=> Depth = 0
  BY <1>1, EmptySeq DEF Open, Calls, Depth
<1>4. Top = Calls[Depth]
  BY DEF Top, Last, Calls, Depth
<1>5. \A i \in 1..Depth : /\ Calls[i].pc \in Codes /\ Calls[i].task \in Sources \cup {None}
                          /\ Calls[i].ripe \in Nat
  BY <1>2 DEF Frames
<1>6. Depth # 0 => Depth \in 1..Depth
  BY <1>2
<1>7. \A pc : AtPc(pc) <=> Depth # 0 /\ Calls[Depth].pc = pc
  BY <1>3, <1>4 DEF AtPc
<1> QED
  BY <1>1, <1>2, <1>3, <1>4, <1>5, <1>6, <1>7

\* The call on top has a new frame.
Goes(frame) == stack' = GotoTop(frame)

\* The call on top goes on at another place, and the others stay where they are.
Changed(pc) ==
  /\ curr' = curr /\ Depth' = Depth /\ Depth # 0 /\ Calls'[Depth].pc = pc
  /\ \A i \in 1..Depth : i # Depth =>
       Calls'[i].pc = Calls[i].pc /\ Calls'[i].task = Calls[i].task

LEMMA GoesTo ==
  ASSUME TypeOK, TasksOK, ~Open, NEW frame \in Frames, Goes(frame),
         frame.pc = "picked" => frame.task \in Sources
  PROVE  /\ stack' \in [Contexts -> Seq(Frames)] /\ TasksOK'
         /\ curr' = curr => Changed(frame.pc) /\ Calls'[Depth] = frame
<1>1. /\ curr \in Contexts /\ Calls \in Seq(Frames) /\ Calls # <<>> /\ Depth \in Nat \ {0}
  BY StackFacts DEF Open, Calls
<1> DEFINE new == Append(Front(Calls), frame)
<1>2. /\ new \in Seq(Frames) /\ Len(new) = Depth /\ new[Depth] = frame
      /\ \A i \in 1..(Depth - 1) : new[i] = Calls[i]
  BY <1>1, ReplaceTopIs DEF Depth
<1>3. stack' = [stack EXCEPT ![curr] = new]
  BY DEF Goes, GotoTop, Calls
<1> HIDE DEF new
<1>4. /\ stack' \in [Contexts -> Seq(Frames)] /\ stack'[curr] = new
      /\ \A c \in Contexts \ {curr} : stack'[c] = stack[c]
  BY <1>1, <1>2, <1>3 DEF TypeOK
<1>5. ASSUME NEW i \in 1..Depth, i # Depth PROVE new[i] = Calls[i]
  BY <1>1, <1>2, <1>5
<1>6. TasksOK'
  <2> SUFFICES ASSUME NEW c \in Contexts, NEW i \in 1..Len(stack'[c]), stack'[c][i].pc = "picked"
               PROVE  stack'[c][i].task \in Sources
    BY DEF TasksOK
  <2>1. CASE c = curr
    <3>1. stack'[c] = new /\ i \in 1..Depth
      BY <1>2, <1>4, <2>1
    <3>2. CASE i = Depth
      BY <1>2, <3>1, <3>2
    <3>3. CASE i # Depth
      BY <1>1, <1>5, <3>1, <3>3 DEF TasksOK, Calls, Depth
    <3> QED
      BY <3>2, <3>3
  <2>2. CASE c # curr
    BY <1>4, <2>2 DEF TasksOK
  <2> QED
    BY <2>1, <2>2
<1>7. ASSUME curr' = curr PROVE Changed(frame.pc) /\ Calls'[Depth] = frame
  <2>1. Calls' = new
    BY <1>4, <1>7 DEF Calls
  <2>2. Depth' = Depth
    BY <1>2, <2>1 DEF Depth
  <2> QED
    BY <1>1, <1>2, <1>5, <1>7, <2>1, <2>2 DEF Changed
<1> QED
  BY <1>4, <1>6, <1>7

\* irq_handle is called: a new call, which looks at the queue.
Calling == stack' = [stack EXCEPT ![curr] = Append(@, [pc |-> "loop", task |-> None, ripe |-> 0])]

LEMMA CallingPushes ==
  ASSUME TypeOK, TasksOK, Calling, curr' = curr
  PROVE  /\ stack' \in [Contexts -> Seq(Frames)] /\ TasksOK'
         /\ Depth' = Depth + 1 /\ Calls'[Depth + 1].pc = "loop"
         /\ \A i \in 1..Depth : Calls'[i] = Calls[i]
<1>1. PICK frame : frame = [pc |-> "loop", task |-> None, ripe |-> 0]
  OBVIOUS
<1>2. frame \in Frames /\ frame.pc = "loop"
  BY <1>1 DEF Frames, Codes
<1>3. curr \in Contexts /\ Calls \in Seq(Frames) /\ Depth \in Nat
  BY StackFacts
<1> DEFINE new == Append(Calls, frame)
<1>4. /\ new \in Seq(Frames) /\ Len(new) = Depth + 1 /\ new[Depth + 1] = frame
      /\ \A i \in 1..Depth : new[i] = Calls[i]
  BY <1>2, <1>3, PushIs DEF Depth
<1>5. stack' = [stack EXCEPT ![curr] = new]
  BY <1>1 DEF Calling, Calls
<1> HIDE DEF new
<1>6. /\ stack' \in [Contexts -> Seq(Frames)] /\ stack'[curr] = new
      /\ \A c \in Contexts \ {curr} : stack'[c] = stack[c]
  BY <1>3, <1>4, <1>5 DEF TypeOK
<1>7. TasksOK'
  <2> SUFFICES ASSUME NEW c \in Contexts, NEW i \in 1..Len(stack'[c]), stack'[c][i].pc = "picked"
               PROVE  stack'[c][i].task \in Sources
    BY DEF TasksOK
  <2>1. CASE c = curr
    <3>1. stack'[c] = new /\ i \in 1..(Depth + 1)
      BY <1>4, <1>6, <2>1
    <3>2. i \in 1..Depth
      BY <1>2, <1>3, <1>4, <3>1
    <3> QED
      BY <1>3, <1>4, <3>1, <3>2 DEF TasksOK, Calls, Depth
  <2>2. CASE c # curr
    BY <1>6, <2>2 DEF TasksOK
  <2> QED
    BY <2>1, <2>2
<1>8. Calls' = new /\ Depth' = Depth + 1
  BY <1>4, <1>6 DEF Calls, Depth
<1> QED
  BY <1>2, <1>4, <1>6, <1>7, <1>8

\* irq_handle returns.
LEMMA ReturnPops ==
  ASSUME TypeOK, TasksOK, ~Open, Return, curr' = curr
  PROVE  /\ stack' \in [Contexts -> Seq(Frames)] /\ TasksOK'
         /\ Depth \in Nat \ {0} /\ Depth' = Depth - 1
         /\ \A i \in 1..(Depth - 1) : Calls'[i] = Calls[i]
<1>1. /\ curr \in Contexts /\ Calls \in Seq(Frames) /\ Calls # <<>> /\ Depth \in Nat \ {0}
  BY StackFacts DEF Open, Calls
<1> DEFINE new == Front(Calls)
<1>2. new \in Seq(Frames) /\ Len(new) = Depth - 1 /\ \A i \in 1..(Depth - 1) : new[i] = Calls[i]
  BY <1>1, FrontLast DEF Depth
<1>3. stack' = [stack EXCEPT ![curr] = new]
  BY DEF Return, Calls
<1> HIDE DEF new
<1>4. /\ stack' \in [Contexts -> Seq(Frames)] /\ stack'[curr] = new
      /\ \A c \in Contexts \ {curr} : stack'[c] = stack[c]
  BY <1>1, <1>2, <1>3 DEF TypeOK
<1>5. TasksOK'
  <2> SUFFICES ASSUME NEW c \in Contexts, NEW i \in 1..Len(stack'[c]), stack'[c][i].pc = "picked"
               PROVE  stack'[c][i].task \in Sources
    BY DEF TasksOK
  <2>1. CASE c = curr
    <3>1. stack'[c] = new /\ i \in 1..(Depth - 1) /\ i \in 1..Depth
      BY <1>1, <1>2, <1>4, <2>1
    <3> QED
      BY <1>1, <1>2, <3>1 DEF TasksOK, Calls, Depth
  <2>2. CASE c # curr
    BY <1>4, <2>2 DEF TasksOK
  <2> QED
    BY <2>1, <2>2
<1>6. Calls' = new /\ Depth' = Depth - 1
  BY <1>2, <1>4 DEF Calls, Depth
<1> QED
  BY <1>1, <1>2, <1>4, <1>5, <1>6

TimerCodes == {"timer", "events", "called"}

\* A timer event is popped: calls of timer_irq_handle that have not got to it lose it.
PoppedFrame(c, i, pc) ==
  [stack[c][i] EXCEPT !.ripe = IF @ = 0 THEN 0 ELSE @ - 1,
                      !.pc = IF c = curr /\ i = Len(stack[c]) THEN pc ELSE @]

Pops(pc) == stack' = Popped(pc)

LEMMA FrameExcept ==
  ASSUME NEW f \in Frames, NEW ripe \in Nat, NEW pc \in Codes
  PROVE  [[f EXCEPT !.ripe = ripe] EXCEPT !.pc = pc] = [pc |-> pc, task |-> f.task, ripe |-> ripe]
<1>1. PICK p, t, r : f = [pc |-> p, task |-> t, ripe |-> r]
  BY DEF Frames
<1>2. [f EXCEPT !.ripe = ripe] = [pc |-> p, task |-> t, ripe |-> ripe]
  BY <1>1
<1>3. [[pc |-> p, task |-> t, ripe |-> ripe] EXCEPT !.pc = pc]
        = [pc |-> pc, task |-> t, ripe |-> ripe]
  OBVIOUS
<1> QED
  BY <1>1, <1>2, <1>3

LEMMA PoppedFrameIs ==
  ASSUME TypeOK, NEW pc \in TimerCodes, NEW c \in Contexts, NEW i \in 1..Len(stack[c])
  PROVE  /\ PoppedFrame(c, i, pc) \in Frames
         /\ PoppedFrame(c, i, pc).task = stack[c][i].task
         /\ PoppedFrame(c, i, pc).pc = IF c = curr /\ i = Len(stack[c]) THEN pc ELSE stack[c][i].pc
<1>1. PICK f \in Frames : f = stack[c][i]
  BY LenProperties DEF TypeOK
<1>2. f.pc \in Codes /\ f.task \in Sources \cup {None} /\ f.ripe \in Nat
  BY DEF Frames
<1>3. PICK ripe \in Nat : ripe = IF f.ripe = 0 THEN 0 ELSE f.ripe - 1
  BY <1>2
<1>4. PICK code \in Codes : code = IF c = curr /\ i = Len(stack[c]) THEN pc ELSE f.pc
  BY <1>2 DEF TimerCodes, Codes
<1>5. [f EXCEPT !.ripe = ripe].pc = f.pc
  BY <1>2 DEF Frames
<1>6. [[f EXCEPT !.ripe = ripe] EXCEPT !.pc = code] = [pc |-> code, task |-> f.task, ripe |-> ripe]
  BY FrameExcept
<1>7. [pc |-> code, task |-> f.task, ripe |-> ripe] \in Frames
  BY <1>2 DEF Frames
<1>8. PoppedFrame(c, i, pc) = [[f EXCEPT !.ripe = ripe] EXCEPT !.pc = code]
  BY <1>1, <1>3, <1>4, <1>5 DEF PoppedFrame
<1> QED
  BY <1>1, <1>4, <1>6, <1>7, <1>8

LEMMA PopsTo ==
  ASSUME TypeOK, NEW pc \in TimerCodes, Pops(pc), NEW c \in Contexts
  PROVE  /\ stack' = [b \in Contexts |-> stack'[b]]
         /\ stack'[c] \in Seq(Frames) /\ Len(stack'[c]) = Len(stack[c])
         /\ \A i \in 1..Len(stack[c]) : stack'[c][i] = PoppedFrame(c, i, pc)
<1>1. DOMAIN stack[c] = 1..Len(stack[c]) /\ Len(stack[c]) \in Nat
  BY LenProperties DEF TypeOK
<1>2. stack' = [b \in Contexts |-> [i \in DOMAIN stack[b] |-> PoppedFrame(b, i, pc)]]
  BY DEF Pops, Popped, PoppedFrame
<1>3. stack' = [b \in Contexts |-> stack'[b]]
  BY <1>2
<1>4. stack'[c] = [i \in 1..Len(stack[c]) |-> PoppedFrame(c, i, pc)]
  BY <1>1, <1>2
<1>5. \A i \in 1..Len(stack[c]) : PoppedFrame(c, i, pc) \in Frames
  BY PoppedFrameIs
<1>6. stack'[c] \in Seq(Frames) /\ Len(stack'[c]) = Len(stack[c])
  BY <1>1, <1>4, <1>5
<1> QED
  BY <1>3, <1>4, <1>6

LEMMA PoppedChanges ==
  ASSUME TypeOK, TasksOK, ~Open, AtPc("events"), NEW pc \in TimerCodes, Pops(pc), curr' = curr
  PROVE  stack' \in [Contexts -> Seq(Frames)] /\ TasksOK' /\ Changed(pc)
<1>1. curr \in Contexts /\ Depth \in Nat \ {0}
  BY StackFacts
<1>2. stack' \in [Contexts -> Seq(Frames)]
  BY <1>1, PopsTo
<1>3. TasksOK'
  <2> SUFFICES ASSUME NEW c \in Contexts, NEW i \in 1..Len(stack'[c]), stack'[c][i].pc = "picked"
               PROVE  stack'[c][i].task \in Sources
    BY DEF TasksOK
  <2>1. i \in 1..Len(stack[c]) /\ stack'[c][i] = PoppedFrame(c, i, pc)
    BY PopsTo
  <2>2. /\ PoppedFrame(c, i, pc).task = stack[c][i].task
        /\ PoppedFrame(c, i, pc).pc = IF c = curr /\ i = Len(stack[c]) THEN pc ELSE stack[c][i].pc
    BY <2>1, PoppedFrameIs
  <2>3. stack[c][i].pc = "picked" /\ stack'[c][i].task = stack[c][i].task
    BY <2>1, <2>2 DEF TimerCodes
  <2> QED
    BY <2>1, <2>3 DEF TasksOK
<1>4. Len(stack'[curr]) = Len(stack[curr])
  BY <1>1, PopsTo
<1>5. Depth' = Depth
  BY <1>4 DEF Calls, Depth
<1>6. ASSUME NEW i \in 1..Depth
      PROVE  Calls'[i].task = Calls[i].task /\ Calls'[i].pc = IF i = Depth THEN pc ELSE Calls[i].pc
  <2>1. stack'[curr][i] = PoppedFrame(curr, i, pc)
    BY <1>1, PopsTo DEF Depth, Calls
  <2>2. /\ PoppedFrame(curr, i, pc).task = stack[curr][i].task
        /\ PoppedFrame(curr, i, pc).pc = IF i = Len(stack[curr]) THEN pc ELSE stack[curr][i].pc
    BY <1>1, PoppedFrameIs DEF Depth, Calls
  <2> QED
    BY <2>1, <2>2 DEF Depth, Calls
<1>7. Depth \in 1..Depth
  BY <1>1
<1> QED
  BY <1>1, <1>2, <1>3, <1>5, <1>6, <1>7 DEF Changed

(***************************************************************************)
(* The order of interrupt tasks.                                           *)
(***************************************************************************)
\* A call that waits for the calls above it, or looks at the queue itself.
Waits == {"loop", "picked"}

\* The call at k runs, but for calls above it that have only interrupted it so far.
Idle(k) == \A i \in 1..Depth : i > k => Calls[i].pc \in Waits

\* The interrupt of a source whose task is queued is masked.
Masked == (timerOn => ~Has("timer")) /\ (uartOn => ~Has("uart"))

\* The call at k has taken the UART's task and not finished it.
RunsUart(k) ==
  Calls[k].pc \in {"uart", "done"} \/ (Calls[k].pc = "taken" /\ Calls[k].task = "uart")

\* While the UART's task counts as handled, the call that runs it is the innermost of the
\* running context that has got anywhere; with the timer's task one cannot say so, since the
\* context that handles it may have been preempted.
UartRuns ==
  handling = "uart" => \E k \in 1..Depth : RunsUart(k) /\ Idle(k)

\* A call that picked a task before such a call began picked one that goes first.
PickedUart ==
  handling = "uart" =>
    \A k \in 1..Depth : Calls[k].pc = "picked" /\ Idle(k) => Calls[k].task = "uart" /\ Has("uart")

\* The task that is picked is the first of the queue, or the queue has been emptied meanwhile.
TopPicked ==
  Depth # 0 /\ Calls[Depth].pc = "picked" => queue = <<>> \/ Head(queue) = Calls[Depth].task

\* No task is queued where irq_handle has returned, and while the timer's task runs or is
\* about to be called.
Emptied ==
  \/ Depth = 0
  \/ Calls[Depth].pc \in TimerCodes
  \/ Calls[Depth].pc = "taken" /\ handling = "timer"
  => queue = <<>>

\* The UART's task is not queued again while it runs with its interrupt masked.
Served == Depth # 0 /\ Calls[Depth].pc \in {"uart", "taken"} => ~Has("uart")

Order == QueueOK /\ Masked /\ UartRuns /\ PickedUart /\ TopPicked /\ Emptied /\ Served

\* There is one periodic event.
OnePeriodic ==
  \E p \in 1..Len(events) :
    events[p].kind = "periodic" /\ \A i \in 1..Len(events) : i # p => events[i].kind = "echo"

IInv == TypeOK /\ TasksOK /\ OnePeriodic /\ Order

\* Where nothing is handled, or the timer's task is, the queue is empty and the UART's task
\* does not count as handled.
LEMMA QuietPoint ==
  ASSUME TypeOK, Order, Depth = 0 \/ Calls[Depth].pc \in TimerCodes
  PROVE  queue = <<>> /\ handling # "uart" /\ ~Has("uart") /\ ~Has("timer")
<1>1. queue = <<>>
  BY DEF Order, Emptied
<1>2. ASSUME handling = "uart" PROVE FALSE
  <2>1. PICK k \in 1..Depth : RunsUart(k) /\ Idle(k)
    BY <1>2 DEF Order, UartRuns
  <2>2. Depth \in Nat \ {0} /\ Depth \in 1..Depth /\ Calls[Depth].pc \in TimerCodes
    BY StackFacts, <2>1
  <2>3. k # Depth
    BY <2>1, <2>2 DEF TimerCodes, RunsUart
  <2>4. Depth > k
    BY <2>2, <2>3
  <2>5. Calls[Depth].pc \in Waits
    BY <2>1, <2>2, <2>4 DEF Idle
  <2> QED
    BY <2>2, <2>5 DEF TimerCodes, Waits
<1> QED
  BY <1>1, <1>2, QueueFacts DEF Order

\* From such a point on whatever happens to the stacks and the masks is in order.
LEMMA OrderAfterQuiet ==
  ASSUME TypeOK, Order, Depth = 0 \/ Calls[Depth].pc \in TimerCodes,
         queue' = queue, handling' = handling
  PROVE  Order'
<1>1. queue' = <<>> /\ handling' # "uart"
  BY QuietPoint
<1>2. \A source : ~Has(source)'
  BY <1>1 DEF Has
<1> QED
  BY <1>1, <1>2 DEF Order, QueueOK, Masked, UartRuns, RunsUart, PickedUart, TopPicked, Emptied, Served

LEMMA OrderSame ==
  ASSUME Order, UNCHANGED <<queue, handling, timerOn, uartOn, curr, stack>>
  PROVE  Order'
BY DEF Order, QueueOK, Masked, UartRuns, RunsUart, PickedUart, TopPicked, Emptied, Served, Idle, Has, Calls,
       Depth

\* Above a call that has got somewhere no other is idle.
LEMMA IdleAtTop ==
  ASSUME TypeOK, NEW pc, Changed(pc), pc \notin Waits, NEW k \in 1..Depth, Idle(k)'
  PROVE  k = Depth
<1>1. Depth \in Nat /\ Depth \in 1..Depth /\ Depth' = Depth /\ Calls'[Depth].pc = pc
  BY StackFacts DEF Changed
<1>2. ASSUME Depth > k PROVE FALSE
  <2>1. Calls'[Depth].pc \in Waits
    BY <1>1, <1>2 DEF Idle
  <2> QED
    BY <1>1, <2>1
<1> QED
  BY <1>1, <1>2

LEMMA OrderEnter ==
  ASSUME TypeOK, TasksOK, Order, NEW source \in Sources, ~Has(source), Queues(source), Calling,
         curr' = curr, handling' = handling,
         IF source = "uart" THEN uartOn' = FALSE /\ timerOn' = timerOn
                            ELSE timerOn' = FALSE /\ uartOn' = uartOn
  PROVE  Order'
<1>1. /\ QueueOK' /\ Has(source)' /\ \A other \in Sources \ {source} : Has(other)' <=> Has(other)
  BY PutIntoTasks DEF Order
<1>2. /\ Depth' = Depth + 1 /\ Calls'[Depth + 1].pc = "loop" /\ Depth \in Nat
      /\ \A i \in 1..Depth : Calls'[i] = Calls[i]
  BY CallingPushes, StackFacts
<1>3. Masked'
  BY <1>1 DEF Order, Masked, Sources
<1>4. ASSUME NEW k \in 1..Depth PROVE Idle(k)' <=> Idle(k)
  <2>1. ASSUME Idle(k), NEW i \in 1..(Depth + 1), i > k PROVE Calls'[i].pc \in Waits
    <3>1. CASE i = Depth + 1
      BY <1>2, <3>1 DEF Waits
    <3>2. CASE i # Depth + 1
      <4>1. i \in 1..Depth
        BY <1>2, <3>2
      <4> QED
        BY <1>2, <2>1, <4>1 DEF Idle
    <3> QED
      BY <3>1, <3>2
  <2>2. ASSUME Idle(k)', NEW i \in 1..Depth, i > k PROVE Calls[i].pc \in Waits
    <3>1. i \in 1..Depth' /\ Calls'[i] = Calls[i]
      BY <1>2
    <3> QED
      BY <2>2, <3>1 DEF Idle
  <2> QED
    BY <1>2, <2>1, <2>2 DEF Idle
<1>5. UartRuns'
  <2> SUFFICES ASSUME handling = "uart"
               PROVE  \E k \in 1..(Depth + 1) : RunsUart(k)' /\ Idle(k)'
    BY <1>2 DEF UartRuns
  <2>1. PICK k \in 1..Depth : RunsUart(k) /\ Idle(k)
    BY DEF Order, UartRuns
  <2>2. RunsUart(k)' /\ Idle(k)'
    BY <1>2, <1>4, <2>1 DEF RunsUart
  <2> QED
    BY <1>2, <2>2
<1>6. PickedUart'
  <2> SUFFICES ASSUME handling = "uart", NEW k \in 1..(Depth + 1), Calls'[k].pc = "picked", Idle(k)'
               PROVE  Calls'[k].task = "uart" /\ Has("uart")'
    BY <1>2 DEF PickedUart
  <2>1. k \in 1..Depth
    BY <1>2
  <2>2. Calls[k].task = "uart" /\ Has("uart") /\ Calls'[k] = Calls[k]
    BY <1>2, <1>4, <2>1 DEF Order, PickedUart
  <2>3. Has("uart")'
    BY <1>1, <2>2 DEF Sources
  <2> QED
    BY <2>2, <2>3
<1>7. TopPicked' /\ Emptied' /\ Served'
  BY <1>2 DEF TopPicked, Emptied, Served, TimerCodes
<1> QED
  BY <1>1, <1>3, <1>5, <1>6, <1>7 DEF Order

\* The loop ends although a task is queued only if a call below is handling the UART's task.
LEMMA OrderLeaveLoop ==
  ASSUME TypeOK, TasksOK, Order, LeaveLoop
  PROVE  Order'
<1>1. ~Open /\ Return /\ UNCHANGED <<queue, handling, timerOn, uartOn, curr>>
  BY DEF LeaveLoop, AtPc, timerVars, uartVars
<1>2. /\ Depth \in Nat \ {0} /\ Depth' = Depth - 1 /\ Calls[Depth].pc = "loop"
      /\ \A i \in 1..(Depth - 1) : Calls'[i] = Calls[i]
  BY <1>1, ReturnPops, StackFacts DEF LeaveLoop
<1>3. queue # <<>> => handling = "uart" /\ Head(queue) = "timer" /\ ~Has("uart")
  <2>1. ASSUME queue # <<>> PROVE handling = "uart" /\ Head(queue) = "timer"
    <3>1. Head(queue) \in Sources /\ handling \in Sources \cup {None}
      BY <2>1, QueueFacts DEF Order, TypeOK
    <3>2. handling # None /\ ~TaskComp(Head(queue), handling)
      BY <2>1 DEF LeaveLoop, MayRun
    <3> QED
      BY <3>1, <3>2 DEF TaskComp, Priority, Sources
  <2> QED
    BY <2>1, QueueFacts DEF Order
<1>4. ASSUME NEW k \in 1..(Depth - 1) PROVE Idle(k)' <=> Idle(k)
  <2>1. ASSUME Idle(k), NEW i \in 1..(Depth - 1), i > k PROVE Calls'[i].pc \in Waits
    <3>1. i \in 1..Depth /\ Calls'[i] = Calls[i]
      BY <1>2
    <3> QED
      BY <2>1, <3>1 DEF Idle
  <2>2. ASSUME Idle(k)', NEW i \in 1..Depth, i > k PROVE Calls[i].pc \in Waits
    <3>1. CASE i = Depth
      BY <1>2, <3>1 DEF Waits
    <3>2. CASE i # Depth
      <4>1. i \in 1..(Depth - 1) /\ Calls'[i] = Calls[i]
        BY <1>2, <3>2
      <4> QED
        BY <1>2, <2>2, <4>1 DEF Idle
    <3> QED
      BY <3>1, <3>2
  <2> QED
    BY <1>2, <2>1, <2>2 DEF Idle
<1>5. handling = "uart" =>
        \E k \in 1..(Depth - 1) : RunsUart(k)' /\ Idle(k) /\ Idle(k)'
  <2> SUFFICES ASSUME handling = "uart"
               PROVE  \E k \in 1..(Depth - 1) :
                        RunsUart(k)' /\ Idle(k) /\ Idle(k)'
    OBVIOUS
  <2>1. PICK k \in 1..Depth : RunsUart(k) /\ Idle(k)
    BY DEF Order, UartRuns
  <2>2. k \in 1..(Depth - 1)
    BY <1>2, <2>1 DEF RunsUart
  <2>3. RunsUart(k)'
    BY <1>2, <2>1, <2>2 DEF RunsUart
  <2> QED
    BY <1>4, <2>1, <2>2, <2>3
<1>6. UartRuns'
  BY <1>1, <1>2, <1>5 DEF UartRuns
<1>7. PickedUart'
  <2> SUFFICES ASSUME handling = "uart", NEW k \in 1..(Depth - 1), Calls'[k].pc = "picked", Idle(k)'
               PROVE  Calls'[k].task = "uart" /\ Has("uart")'
    BY <1>1, <1>2 DEF PickedUart
  <2>1. k \in 1..Depth /\ Calls'[k] = Calls[k] /\ Idle(k)
    BY <1>2, <1>4
  <2>2. Calls[k].task = "uart" /\ Has("uart")
    BY <2>1 DEF Order, PickedUart
  <2> QED
    BY <1>1, <2>1, <2>2 DEF Has
<1>8. CASE queue = <<>>
  <2>1. queue' = <<>> /\ \A source : ~Has(source)'
    BY <1>1, <1>8 DEF Has
  <2> QED
    BY <1>6, <1>7, <2>1 DEF Order, QueueOK, Masked, TopPicked, Emptied, Served
<1>9. CASE queue # <<>>
  <2>1. /\ handling = "uart" /\ ~Has("uart")
    BY <1>3, <1>9
  <2>2. PICK k \in 1..(Depth - 1) : RunsUart(k)' /\ Idle(k) /\ Idle(k)'
    BY <1>5, <2>1
  <2>3. Depth - 1 \in 1..(Depth - 1) /\ Depth' # 0 /\ Depth - 1 = Depth'
    BY <1>2
  <2>4. ASSUME k # Depth - 1 PROVE Calls'[Depth - 1].pc \in Waits
    <3>1. Depth - 1 > k
      BY <1>2, <2>4
    <3> QED
      BY <2>2, <2>3, <3>1 DEF Idle
  <2>5. Calls'[Depth'].pc \in {"uart", "done", "taken", "loop", "picked"}
    BY <2>2, <2>3, <2>4 DEF Waits, RunsUart
  <2>6. Calls'[Depth'].pc # "picked"
    <3> SUFFICES ASSUME Calls'[Depth - 1].pc = "picked" PROVE FALSE
      BY <2>3
    <3>1. PICK n \in 1..Depth' : n = Depth - 1
      BY <2>3
    <3>2. \A i \in 1..Depth' : ~(i > n)
      BY <1>2, <3>1
    <3>3. Idle(n)' /\ Calls'[n].pc = "picked"
      BY <3>1, <3>2 DEF Idle
    <3>4. Has("uart")'
      BY <1>1, <1>7, <2>1, <3>3 DEF PickedUart
    <3> QED
      BY <1>1, <2>1, <3>4 DEF Has
  <2>7. TopPicked' /\ Emptied' /\ Served'
    BY <1>1, <2>1, <2>3, <2>5, <2>6 DEF TopPicked, Emptied, Served, TimerCodes, Has
  <2>8. QueueOK' /\ Masked'
    BY <1>1 DEF Order, QueueOK, Masked, Has
  <2> QED
    BY <1>6, <1>7, <2>7, <2>8 DEF Order
<1> QED
  BY <1>8, <1>9

\* The frame on top, at another place and with another task.
LEMMA TopMoved ==
  ASSUME TypeOK, ~Open, NEW pc \in Codes
  PROVE  /\ [Top EXCEPT !.pc = pc] \in Frames /\ [Top EXCEPT !.pc = pc].pc = pc
         /\ [Top EXCEPT !.pc = pc].task = Top.task
<1>1. PICK f \in Frames : f = Top
  BY StackFacts
<1>2. /\ [f EXCEPT !.pc = pc] \in Frames /\ [f EXCEPT !.pc = pc].pc = pc
      /\ [f EXCEPT !.pc = pc].task = f.task
  BY DEF Frames
<1> QED
  BY <1>1, <1>2

LEMMA TopWithTask ==
  ASSUME TypeOK, ~Open, NEW pc \in Codes, NEW task \in Sources
  PROVE  /\ [Top EXCEPT !.pc = pc, !.task = task] \in Frames
         /\ [Top EXCEPT !.pc = pc, !.task = task].pc = pc
         /\ [Top EXCEPT !.pc = pc, !.task = task].task = task
<1>1. PICK f \in Frames : f = [Top EXCEPT !.pc = pc] /\ f.pc = pc
  BY TopMoved
<1>2. /\ [f EXCEPT !.task = task] \in Frames /\ [f EXCEPT !.task = task].pc = f.pc
      /\ [f EXCEPT !.task = task].task = task
  BY DEF Frames
<1> QED
  BY <1>1, <1>2

LEMMA TopWithRipe ==
  ASSUME TypeOK, ~Open, NEW pc \in Codes, NEW ripe \in Nat
  PROVE  /\ [Top EXCEPT !.pc = pc, !.ripe = ripe] \in Frames
         /\ [Top EXCEPT !.pc = pc, !.ripe = ripe].pc = pc
<1>1. PICK f \in Frames : f = [Top EXCEPT !.pc = pc] /\ f.pc = pc
  BY TopMoved
<1>2. [f EXCEPT !.ripe = ripe] \in Frames /\ [f EXCEPT !.ripe = ripe].pc = f.pc
  BY DEF Frames
<1> QED
  BY <1>1, <1>2

\* The call on top only moves within the loop: who is idle stays the same.
LEMMA IdleInLoop ==
  ASSUME TypeOK, Changed("picked"), Calls[Depth].pc = "loop", NEW k \in 1..Depth
  PROVE  Idle(k)' <=> Idle(k)
<1>1. ASSUME NEW i \in 1..Depth PROVE Calls'[i].pc \in Waits <=> Calls[i].pc \in Waits
  BY DEF Changed, Waits
<1> QED
  BY <1>1 DEF Changed, Idle

LEMMA PickTaskMoves ==
  ASSUME TypeOK, TasksOK, Order, PickTask
  PROVE  /\ stack' \in [Contexts -> Seq(Frames)] /\ TasksOK'
         /\ Changed("picked") /\ Calls'[Depth].task = Head(queue) /\ Calls[Depth].pc = "loop"
         /\ queue # <<>> /\ Head(queue) \in Sources
         /\ UNCHANGED <<queue, handling, timerOn, uartOn>>
<1>1. /\ ~Open /\ Calls[Depth].pc = "loop" /\ queue # <<>> /\ Head(queue) \in Sources
      /\ UNCHANGED <<queue, handling, timerOn, uartOn, curr>>
  BY StackFacts, QueueFacts DEF PickTask, AtPc, timerVars, uartVars, Order
<1>2. PICK task \in Sources : task = Head(queue)
  BY <1>1
<1> DEFINE f == [Top EXCEPT !.pc = "picked", !.task = task]
<1>3. "picked" \in Codes
  BY DEF Codes
<1>4. f \in Frames /\ f.pc = "picked" /\ f.task = task
  BY <1>1, <1>3, TopWithTask
<1>5. Goes(f)
  BY <1>2 DEF PickTask, Goes
<1> HIDE DEF f
<1>6. /\ stack' \in [Contexts -> Seq(Frames)] /\ TasksOK'
      /\ Changed("picked") /\ Calls'[Depth] = f
  BY <1>1, <1>4, <1>5, GoesTo
<1> QED
  BY <1>1, <1>2, <1>4, <1>6

LEMMA OrderPickTask ==
  ASSUME TypeOK, TasksOK, Order, PickTask
  PROVE  Order'
<1>1. /\ Changed("picked") /\ Calls'[Depth].task = Head(queue) /\ Calls[Depth].pc = "loop"
      /\ queue # <<>> /\ Head(queue) \in Sources
      /\ UNCHANGED <<queue, handling, timerOn, uartOn>>
  BY PickTaskMoves
<1>2. /\ Depth' = Depth /\ Depth # 0 /\ Calls'[Depth].pc = "picked"
      /\ \A i \in 1..Depth : i # Depth =>
           Calls'[i].pc = Calls[i].pc /\ Calls'[i].task = Calls[i].task
  BY <1>1 DEF Changed
<1>3. \A k \in 1..Depth : Idle(k)' <=> Idle(k)
  BY <1>1, IdleInLoop
<1>4. UartRuns'
  <2> SUFFICES ASSUME handling = "uart"
               PROVE  \E k \in 1..Depth : RunsUart(k)' /\ Idle(k)'
    BY <1>1, <1>2 DEF UartRuns
  <2>1. PICK k \in 1..Depth : RunsUart(k) /\ Idle(k)
    BY DEF Order, UartRuns
  <2>2. k # Depth
    BY <1>1, <2>1 DEF RunsUart
  <2>3. RunsUart(k)'
    BY <1>2, <2>1, <2>2 DEF RunsUart
  <2> QED
    BY <1>3, <2>1, <2>3
<1>5. PickedUart'
  <2> SUFFICES ASSUME handling = "uart", NEW k \in 1..Depth, Calls'[k].pc = "picked", Idle(k)'
               PROVE  Calls'[k].task = "uart" /\ Has("uart")
    BY <1>1, <1>2 DEF PickedUart, Has
  <2>1. CASE k = Depth
    <3>1. handling # None
      BY InterruptsAssumption DEF Sources
    <3>2. TaskComp(Head(queue), "uart")
      BY <3>1 DEF PickTask, MayRun
    <3>3. Head(queue) = "uart"
      BY <1>1, <3>2 DEF TaskComp, Priority, Sources
    <3> QED
      BY <1>1, <2>1, <3>3, QueueFacts DEF Order
  <2>2. CASE k # Depth
    BY <1>2, <1>3, <2>2 DEF Order, PickedUart
  <2> QED
    BY <2>1, <2>2
<1>6. TopPicked' /\ Emptied' /\ Served'
  BY <1>1, <1>2 DEF TopPicked, Emptied, Served, TimerCodes
<1>7. QueueOK' /\ Masked'
  BY <1>1 DEF Order, QueueOK, Masked, Has
<1> QED
  BY <1>4, <1>5, <1>6, <1>7 DEF Order

LEMMA GotoMoves ==
  ASSUME TypeOK, TasksOK, ~Open, curr' = curr, NEW pc \in Codes, pc # "picked", Goto(pc)
  PROVE  /\ stack' \in [Contexts -> Seq(Frames)] /\ TasksOK' /\ Changed(pc)
         /\ Calls'[Depth].task = Calls[Depth].task
<1> DEFINE f == [Top EXCEPT !.pc = pc]
<1>1. f \in Frames /\ f.pc = pc /\ f.task = Top.task
  BY TopMoved
<1>2. Goes(f)
  BY DEF Goto, Goes
<1>3. Top = Calls[Depth]
  BY StackFacts
<1> HIDE DEF f
<1> QED
  BY <1>1, <1>2, <1>3, GoesTo

LEMMA TakeTaskMoves ==
  ASSUME TypeOK, TasksOK, TakeTask
  PROVE  /\ stack' \in [Contexts -> Seq(Frames)] /\ TasksOK'
         /\ Changed("taken") /\ Calls[Depth].pc = "picked"
         /\ Calls[Depth].task \in Sources /\ Calls'[Depth].task = Calls[Depth].task
         /\ handling' = Calls[Depth].task
         /\ queue' = IF queue = <<>> THEN <<>> ELSE Tail(queue)
         /\ UNCHANGED <<timerOn, uartOn>>
<1>1. /\ ~Open /\ Depth # 0 /\ Calls[Depth].pc = "picked" /\ Top = Calls[Depth]
      /\ UNCHANGED <<timerOn, uartOn, curr>> /\ Goto("taken") /\ "taken" \in Codes
  BY StackFacts DEF TakeTask, AtPc, timerVars, uartVars, Codes
<1>2. Calls[Depth].task \in Sources
  BY <1>1, StackFacts DEF TasksOK, Calls, Depth
<1>3. /\ stack' \in [Contexts -> Seq(Frames)] /\ TasksOK' /\ Changed("taken")
      /\ Calls'[Depth].task = Calls[Depth].task
  BY <1>1, GotoMoves
<1> QED
  BY <1>1, <1>2, <1>3 DEF TakeTask

LEMMA OrderTakeTask ==
  ASSUME TypeOK, TasksOK, Order, TakeTask
  PROVE  Order'
<1>1. PICK task \in Sources : task = Calls[Depth].task
  BY TakeTaskMoves
<1>2. /\ Changed("taken") /\ Calls[Depth].pc = "picked" /\ handling' = task
      /\ Calls'[Depth].task = task
      /\ queue' = IF queue = <<>> THEN <<>> ELSE Tail(queue)
      /\ UNCHANGED <<timerOn, uartOn>>
  BY <1>1, TakeTaskMoves
<1>3. /\ Depth' = Depth /\ Depth # 0 /\ Calls'[Depth].pc = "taken" /\ Depth \in 1..Depth
      /\ \A i \in 1..Depth : ~(i > Depth)
  BY <1>2, StackFacts DEF Changed
<1>4. /\ QueueOK' /\ \A source : Has(source)' => Has(source)
      /\ queue = <<>> \/ Head(queue) = "timer" => queue' = <<>>
      /\ queue = <<>> \/ Head(queue) = "uart" => ~Has("uart")'
  BY <1>2, TakenFromQueue DEF Order
<1>5. queue = <<>> \/ Head(queue) = task
  BY <1>1, <1>2, <1>3 DEF Order, TopPicked
<1>6. Masked'
  BY <1>2, <1>4 DEF Order, Masked
<1>7. UartRuns'
  <2>1. Idle(Depth)'
    BY <1>3 DEF Idle
  <2> QED
    BY <1>2, <1>3, <2>1 DEF UartRuns, RunsUart
<1>8. PickedUart'
  <2> SUFFICES ASSUME task = "uart", NEW k \in 1..Depth, Calls'[k].pc = "picked", Idle(k)'
               PROVE  FALSE
    BY <1>2, <1>3 DEF PickedUart
  <2>1. k = Depth
    BY <1>2, IdleAtTop DEF Waits
  <2> QED
    BY <1>3, <2>1
<1>9. TopPicked'
  BY <1>3 DEF TopPicked
<1>10. Emptied'
  BY <1>2, <1>3, <1>4, <1>5 DEF Emptied, TimerCodes
<1>11. Served'
  <2>1. ~Has("uart")'
    BY <1>4, <1>5 DEF Has, Sources
  <2> QED
    BY <2>1 DEF Served
<1> QED
  BY <1>4, <1>6, <1>7, <1>8, <1>9, <1>10, <1>11 DEF Order

\* What is called is the task handled, or nothing that is known.
LEMMA CallTaskMoves ==
  ASSUME TypeOK, TasksOK, CallTask
  PROVE  \E pc \in Sources \cup {"wild"} :
           /\ (pc = "wild" /\ handling = None) \/ (pc = handling /\ handling # None)
           /\ stack' \in [Contexts -> Seq(Frames)] /\ TasksOK'
           /\ Changed(pc) /\ Calls[Depth].pc = "taken" /\ Depth # 0
           /\ Calls'[Depth].task = Calls[Depth].task
           /\ UNCHANGED <<queue, handling, timerOn, uartOn>>
<1>1. /\ ~Open /\ Depth # 0 /\ Calls[Depth].pc = "taken"
      /\ UNCHANGED <<queue, handling, timerOn, uartOn, curr>>
      /\ Goto(IF handling = None THEN "wild" ELSE handling)
  BY StackFacts DEF CallTask, AtPc, timerVars, uartVars
<1>2. PICK pc \in Sources \cup {"wild"} :
        /\ pc = IF handling = None THEN "wild" ELSE handling
        /\ (pc = "wild" /\ handling = None) \/ (pc = handling /\ handling # None)
  <2>1. CASE handling = None
    BY <2>1
  <2>2. CASE handling # None
    BY <2>2 DEF TypeOK
  <2> QED
    BY <2>1, <2>2
<1>3. pc \in Codes /\ pc # "picked"
  BY DEF Codes, Sources
<1>4. /\ stack' \in [Contexts -> Seq(Frames)] /\ TasksOK' /\ Changed(pc)
      /\ Calls'[Depth].task = Calls[Depth].task
  BY <1>1, <1>2, <1>3, GotoMoves
<1> WITNESS pc \in Sources \cup {"wild"}
<1> QED
  BY <1>1, <1>2, <1>4

LEMMA OrderCallTask ==
  ASSUME TypeOK, TasksOK, Order, CallTask
  PROVE  Order'
<1>1. PICK pc \in Sources \cup {"wild"} :
        /\ (pc = "wild" /\ handling = None) \/ (pc = handling /\ handling # None)
        /\ Changed(pc) /\ Calls[Depth].pc = "taken" /\ Depth # 0
        /\ UNCHANGED <<queue, handling, timerOn, uartOn>>
  BY CallTaskMoves
<1>2. /\ Depth' = Depth /\ Calls'[Depth].pc = pc /\ Depth \in 1..Depth
      /\ \A i \in 1..Depth : ~(i > Depth)
  BY <1>1, StackFacts DEF Changed
<1>3. UartRuns'
  <2>1. Idle(Depth)'
    BY <1>2 DEF Idle
  <2>2. handling = "uart" => pc = "uart"
    BY <1>1, InterruptsAssumption DEF Sources
  <2> QED
    BY <1>1, <1>2, <2>1, <2>2 DEF UartRuns, RunsUart
<1>4. PickedUart'
  <2> SUFFICES ASSUME NEW k \in 1..Depth, Calls'[k].pc = "picked", Idle(k)' PROVE FALSE
    BY <1>2 DEF PickedUart
  <2>1. k = Depth
    BY <1>1, IdleAtTop DEF Waits, Sources
  <2> QED
    BY <1>2, <2>1 DEF Sources
<1>5. TopPicked' /\ Served'
  BY <1>1, <1>2 DEF Order, TopPicked, Served, Has, Sources
<1>6. Emptied'
  <2>1. pc \in TimerCodes => handling = "timer"
    BY <1>1 DEF TimerCodes, Sources
  <2>2. pc # "taken" /\ Depth' # 0
    BY <1>1, <1>2 DEF Sources
  <2> QED
    BY <1>1, <1>2, <2>1, <2>2 DEF Order, Emptied
<1>7. QueueOK' /\ Masked'
  BY <1>1 DEF Order, QueueOK, Masked, Has
<1> QED
  BY <1>3, <1>4, <1>5, <1>6, <1>7 DEF Order

LEMMA OrderFinishTask ==
  ASSUME TypeOK, TasksOK, Order, FinishTask
  PROVE  Order' /\ stack' \in [Contexts -> Seq(Frames)] /\ TasksOK'
<1>1. /\ ~Open /\ curr' = curr /\ Goto("loop") /\ handling' = None /\ queue' = queue
      /\ UNCHANGED <<timerOn, uartOn>> /\ "loop" \in Codes
  BY DEF FinishTask, AtPc, timerVars, uartVars, Codes
<1>2. stack' \in [Contexts -> Seq(Frames)] /\ TasksOK' /\ Changed("loop")
  BY <1>1, GotoMoves
<1>3. Depth' # 0 /\ Calls'[Depth'].pc = "loop"
  BY <1>2 DEF Changed
<1>4. TopPicked' /\ Emptied' /\ Served'
  BY <1>3 DEF TopPicked, Emptied, Served, TimerCodes
<1>5. handling' # "uart"
  BY <1>1, InterruptsAssumption DEF Sources
<1>6. UartRuns' /\ PickedUart'
  BY <1>5 DEF UartRuns, PickedUart
<1>7. QueueOK' /\ Masked'
  BY <1>1 DEF Order, QueueOK, Masked, Has
<1> QED
  BY <1>2, <1>4, <1>6, <1>7 DEF Order

LEMMA OrderUartTask ==
  ASSUME TypeOK, TasksOK, Order, UartTask
  PROVE  Order' /\ stack' \in [Contexts -> Seq(Frames)] /\ TasksOK'
<1>1. /\ ~Open /\ curr' = curr /\ Goto("done") /\ UNCHANGED <<queue, handling, timerOn>>
      /\ "done" \in Codes /\ Depth # 0 /\ Calls[Depth].pc = "uart"
  BY StackFacts DEF UartTask, AtPc, timerVars, Codes
<1>2. stack' \in [Contexts -> Seq(Frames)] /\ TasksOK' /\ Changed("done")
  BY <1>1, GotoMoves
<1>3. /\ Depth' = Depth /\ Calls'[Depth].pc = "done" /\ Depth \in 1..Depth
      /\ \A i \in 1..Depth : ~(i > Depth)
  BY <1>1, <1>2, StackFacts DEF Changed
<1>4. TopPicked' /\ Emptied' /\ Served'
  BY <1>1, <1>3 DEF TopPicked, Emptied, Served, TimerCodes
<1>5. UartRuns'
  <2>1. Idle(Depth)'
    BY <1>3 DEF Idle
  <2> QED
    BY <1>3, <2>1 DEF UartRuns, RunsUart
<1>6. PickedUart'
  <2> SUFFICES ASSUME NEW k \in 1..Depth, Calls'[k].pc = "picked", Idle(k)' PROVE FALSE
    BY <1>3 DEF PickedUart
  <2>1. k = Depth
    BY <1>2, IdleAtTop DEF Waits
  <2> QED
    BY <1>3, <2>1
<1>7. ~Has("uart")
  BY <1>1 DEF Order, Served
<1>8. QueueOK' /\ Masked'
  BY <1>1, <1>7 DEF Order, QueueOK, Masked, Has
<1> QED
  BY <1>2, <1>4, <1>5, <1>6, <1>8 DEF Order

(***************************************************************************)
(* Timer events.                                                           *)
(***************************************************************************)
EventTypes == events \in Seq(Events) /\ compare \in Nat /\ timerOn \in BOOLEAN

LEMMA EventAdded ==
  ASSUME NEW q \in Seq(Events), NEW event \in Events, AddEvent(q, event), EventTypes
  PROVE  /\ EventTypes' /\ Len(events') = Len(q) + 1
         /\ \E p \in 1..(Len(q) + 1) :
              /\ events'[p] = event
              /\ \A i \in 1..(p - 1) : events'[i] = q[i]
              /\ \A i \in p..Len(q) : events'[i + 1] = q[i]
         /\ events'[1] = event => compare' = event.left /\ timerOn' = TRUE
         /\ events'[1] # event => compare' = compare /\ timerOn' = timerOn
<1>1. Len(q) \in Nat /\ DOMAIN q = 1..Len(q)
  BY LenProperties
<1>2. PICK behind \in SUBSET (1..Len(q)) : events' = Insert(q, event, behind)
  BY <1>1 DEF AddEvent
<1> DEFINE new == Insert(q, event, behind)
<1>3. PICK p \in 1..(Len(q) + 1) :
        /\ new \in Seq(Events) /\ Len(new) = Len(q) + 1 /\ new[p] = event
        /\ \A i \in 1..(p - 1) : new[i] = q[i]
        /\ \A i \in p..Len(q) : new[i + 1] = q[i]
  BY InsertIs
<1> HIDE DEF new
<1>4. events' = new
  BY <1>2 DEF new
<1>5. Head(events') = events'[1]
  BY <1>1, <1>3, <1>4
<1>6. event.left \in Nat
  BY DEF Events
<1>7. /\ events'[1] = event => compare' = event.left /\ timerOn' = TRUE
      /\ events'[1] # event => compare' = compare /\ timerOn' = timerOn
  BY <1>5 DEF AddEvent
<1>8. compare' \in Nat /\ timerOn' \in BOOLEAN
  BY <1>6, <1>7 DEF EventTypes
<1> QED
  BY <1>3, <1>4, <1>7, <1>8 DEF EventTypes

\* The queue of events is never empty.
LEMMA EventsThere ==
  ASSUME EventTypes, OnePeriodic
  PROVE  /\ events # <<>> /\ Len(events) \in Nat \ {0} /\ Head(events) = events[1]
         /\ events[1] \in Events
<1>1. Len(events) \in Nat /\ \A i \in 1..Len(events) : events[i] \in Events
  BY LenProperties DEF EventTypes
<1>2. Len(events) # 0
  BY <1>1 DEF OnePeriodic
<1> QED
  BY <1>1, <1>2, EmptySeq

LEMMA EchoAdded ==
  ASSUME EventTypes, OnePeriodic, NEW event \in Events, event.kind = "echo",
         AddEvent(events, event)
  PROVE  OnePeriodic'
<1>1. PICK p \in 1..(Len(events) + 1) :
        /\ Len(events') = Len(events) + 1 /\ events'[p] = event
        /\ \A i \in 1..(p - 1) : events'[i] = events[i]
        /\ \A i \in p..Len(events) : events'[i + 1] = events[i]
  <2>1. PICK q \in Seq(Events) : q = events
    BY DEF EventTypes
  <2>2. AddEvent(q, event)
    BY <2>1
  <2>3. /\ Len(events') = Len(q) + 1
        /\ \E p \in 1..(Len(q) + 1) :
             /\ events'[p] = event
             /\ \A i \in 1..(p - 1) : events'[i] = q[i]
             /\ \A i \in p..Len(q) : events'[i + 1] = q[i]
    BY <2>2, EventAdded
  <2> QED
    BY <2>1, <2>3
<1>2. PICK o \in 1..Len(events) :
        events[o].kind = "periodic" /\ \A i \in 1..Len(events) : i # o => events[i].kind = "echo"
  BY DEF OnePeriodic
<1>3. Len(events) \in Nat
  BY EventsThere
<1>4. PICK n \in 1..(Len(events) + 1) : n = IF o < p THEN o ELSE o + 1
  BY <1>3
<1>5. events'[n].kind = "periodic"
  <2>1. CASE o < p
    <3>1. n \in 1..(p - 1) /\ n = o
      BY <1>3, <1>4, <2>1
    <3> QED
      BY <1>1, <1>2, <3>1
  <2>2. CASE ~(o < p)
    <3>1. o \in p..Len(events) /\ n = o + 1
      BY <1>3, <1>4, <2>2
    <3> QED
      BY <1>1, <1>2, <3>1
  <2> QED
    BY <2>1, <2>2
<1>6. ASSUME NEW i \in 1..(Len(events) + 1), i # n PROVE events'[i].kind = "echo"
  <2>1. CASE i < p
    <3>1. i \in 1..(p - 1) /\ i \in 1..Len(events) /\ i # o
      BY <1>3, <1>4, <1>6, <2>1
    <3> QED
      BY <1>1, <1>2, <3>1
  <2>2. CASE i = p
    BY <1>1, <2>2
  <2>3. CASE i > p
    <3>1. PICK j \in p..Len(events) : i = j + 1
      BY <1>3, <2>3
    <3>2. j \in 1..Len(events) /\ j # o
      BY <1>3, <1>4, <1>6, <3>1
    <3> QED
      BY <1>1, <1>2, <3>1, <3>2
  <2> QED
    BY <2>1, <2>2, <2>3
<1> QED
  BY <1>1, <1>4, <1>5, <1>6 DEF OnePeriodic

LEMMA EchoGone ==
  ASSUME EventTypes, OnePeriodic, Head(events).kind = "echo", events' = Tail(events)
  PROVE  OnePeriodic' /\ events' \in Seq(Events)
<1>1. Len(events) \in Nat \ {0} /\ events # <<>> /\ Head(events) = events[1]
  BY EventsThere
<1>2. /\ events' \in Seq(Events) /\ Len(events') = Len(events) - 1
      /\ \A i \in 1..(Len(events) - 1) : events'[i] = events[i + 1]
  BY <1>1, HeadTailProperties DEF EventTypes
<1>3. PICK o \in 1..Len(events) :
        events[o].kind = "periodic" /\ \A i \in 1..Len(events) : i # o => events[i].kind = "echo"
  BY DEF OnePeriodic
<1>4. o # 1
  BY <1>1, <1>3
<1>5. PICK n \in 1..(Len(events) - 1) : o = n + 1
  BY <1>1, <1>4
<1>6. ASSUME NEW i \in 1..(Len(events) - 1), i # n PROVE events'[i].kind = "echo"
  <2>1. i + 1 \in 1..Len(events) /\ i + 1 # o
    BY <1>1, <1>5, <1>6
  <2> QED
    BY <1>2, <1>3, <2>1
<1> QED
  BY <1>2, <1>3, <1>5, <1>6 DEF OnePeriodic

\* periodic_schedule puts back the event that was popped.
LEMMA PeriodicBack ==
  ASSUME EventTypes, OnePeriodic, Head(events).kind = "periodic",
         AddEvent(Tail(events), [kind |-> "periodic", left |-> Period])
  PROVE  /\ OnePeriodic' /\ EventTypes' /\ Len(events') = Len(events)
         /\ Len(events) = 1 => events'[1].left = Period /\ compare' = Period /\ timerOn' = TRUE
<1>1. Len(events) \in Nat \ {0} /\ events # <<>> /\ Head(events) = events[1]
  BY EventsThere
<1>2. PICK q : q = Tail(events)
  OBVIOUS
<1>3. /\ q \in Seq(Events) /\ Len(q) = Len(events) - 1
      /\ \A i \in 1..(Len(events) - 1) : q[i] = events[i + 1]
  BY <1>1, <1>2, HeadTailProperties DEF EventTypes
<1>4. PICK event \in Events : event = [kind |-> "periodic", left |-> Period]
  BY InterruptsAssumption DEF Events
<1>5. event.kind = "periodic" /\ event.left = Period
  BY <1>4
<1>6. AddEvent(q, event)
  BY <1>2, <1>4
<1>7. /\ EventTypes' /\ Len(events') = Len(q) + 1
      /\ events'[1] = event => compare' = event.left /\ timerOn' = TRUE
  BY <1>3, <1>6, EventAdded
<1>8. PICK p \in 1..(Len(q) + 1) :
        /\ events'[p] = event
        /\ \A i \in 1..(p - 1) : events'[i] = q[i]
        /\ \A i \in p..Len(q) : events'[i + 1] = q[i]
  BY <1>3, <1>6, EventAdded
<1>9. \A i \in 2..Len(events) : events[i].kind = "echo"
  <2>1. PICK o \in 1..Len(events) :
          events[o].kind = "periodic" /\ \A i \in 1..Len(events) : i # o => events[i].kind = "echo"
    BY DEF OnePeriodic
  <2>2. o = 1
    BY <1>1, <2>1
  <2> QED
    BY <1>1, <2>1, <2>2
<1>10. \A i \in 1..Len(q) : q[i].kind = "echo"
  <2> TAKE i \in 1..Len(q)
  <2>1. i + 1 \in 2..Len(events) /\ q[i] = events[i + 1]
    BY <1>1, <1>3
  <2> QED
    BY <1>9, <2>1
<1>11. ASSUME NEW i \in 1..(Len(q) + 1), i # p PROVE events'[i].kind = "echo"
  <2>1. CASE i < p
    <3>1. i \in 1..(p - 1) /\ i \in 1..Len(q)
      BY <1>1, <1>3, <2>1
    <3> QED
      BY <1>8, <1>10, <3>1
  <2>2. CASE i > p
    <3>1. PICK j \in p..Len(q) : i = j + 1
      BY <1>1, <1>3, <2>2
    <3>2. j \in 1..Len(q)
      BY <1>1, <1>3, <3>1
    <3> QED
      BY <1>8, <1>10, <3>1, <3>2
  <2> QED
    BY <1>1, <1>3, <1>11, <2>1, <2>2
<1>12. OnePeriodic'
  BY <1>5, <1>7, <1>8, <1>11 DEF OnePeriodic
<1>13. Len(events') = Len(events)
  BY <1>1, <1>3, <1>7
<1>14. Len(events) = 1 => events'[1] = event
  BY <1>1, <1>3, <1>8
<1> QED
  BY <1>5, <1>7, <1>12, <1>13, <1>14

(***************************************************************************)
(* The invariant is inductive.                                             *)
(***************************************************************************)
LEMMA QueueTyped == ASSUME QueueOK' PROVE queue' \in Seq(Sources)
<1>1. PICK q : q = queue'
  OBVIOUS
<1>2. CASE q = <<>>
  BY <1>1, <1>2
<1>3. CASE q = <<"uart">>
  BY <1>1, <1>3 DEF Sources
<1>4. CASE q = <<"timer">>
  BY <1>1, <1>4 DEF Sources
<1>5. CASE q = <<"uart", "timer">>
  BY <1>1, <1>5 DEF Sources
<1> QED
  BY <1>1, <1>2, <1>3, <1>4, <1>5 DEF QueueOK

LEMMA IInvInit == Init => IInv
<1> SUFFICES ASSUME Init PROVE IInv
  OBVIOUS
<1>1. stack = [c \in Contexts |-> <<>>] /\ curr \in Contexts /\ curr = Shell
  BY DEF Init, Contexts
<1>2. stack \in [Contexts -> Seq(Frames)] /\ \A c \in Contexts : Len(stack[c]) = 0
  BY <1>1, EmptySeq
<1>3. /\ events \in Seq(Events) /\ Len(events) = 1 /\ events[1].kind = "periodic"
  BY DEF Init, Events
<1>4. TypeOK
  BY <1>1, <1>2, <1>3, EmptySeq DEF Init, TypeOK
<1>5. TasksOK /\ OnePeriodic
  BY <1>2, <1>3 DEF TasksOK, OnePeriodic
<1>6. Depth = 0
  BY <1>1, <1>2 DEF Depth, Calls
<1>7. \A source : ~Has(source)
  BY DEF Init, Has
<1>8. handling # "uart" /\ queue = <<>>
  BY InterruptsAssumption DEF Init, Sources
<1>9. Order
  BY <1>6, <1>7, <1>8
     DEF Order, QueueOK, Masked, UartRuns, RunsUart, PickedUart, TopPicked, Emptied, Served
<1> QED
  BY <1>4, <1>5, <1>9 DEF IInv

LEMMA IInvEnter ==
  ASSUME IInv, UartInterrupt \/ TimerInterrupt
  PROVE  IInv'
<1>1. TypeOK /\ TasksOK /\ Order /\ OnePeriodic
  BY DEF IInv
<1>2. PICK source \in Sources :
        /\ Enter(source) /\ ~Has(source)
        /\ IF source = "uart" THEN uartOn' = FALSE /\ timerOn' = timerOn
                              ELSE timerOn' = FALSE /\ uartOn' = uartOn
  <2>1. CASE UartInterrupt
    BY <1>1, <2>1 DEF UartInterrupt, Sources, Order, Masked
  <2>2. CASE TimerInterrupt
    BY <1>1, <2>2 DEF TimerInterrupt, Sources, Order, Masked
  <2> QED
    BY <2>1, <2>2
<1>3. /\ Queues(source) /\ Calling
      /\ UNCHANGED <<handling, events, compare, uartLine, started, curr>>
  BY <1>2 DEF Enter, Queues, Calling
<1>4. Order'
  BY <1>1, <1>2, <1>3, OrderEnter
<1>5. stack' \in [Contexts -> Seq(Frames)] /\ TasksOK'
  BY <1>1, <1>3, CallingPushes
<1>6. queue' \in Seq(Sources)
  BY <1>4, QueueTyped DEF Order
<1>7. {timerOn', uartOn', uartLine', started'} \subseteq BOOLEAN
  BY <1>1, <1>2, <1>3 DEF TypeOK
<1>8. TypeOK'
  BY <1>1, <1>3, <1>5, <1>6, <1>7 DEF TypeOK
<1>9. OnePeriodic'
  BY <1>1, <1>3 DEF OnePeriodic
<1> QED
  BY <1>4, <1>5, <1>8, <1>9 DEF IInv

LEMMA IInvLoop ==
  ASSUME IInv, LeaveLoop \/ PickTask \/ TakeTask \/ CallTask \/ FinishTask \/ UartTask
  PROVE  IInv'
<1>1. TypeOK /\ TasksOK /\ Order /\ OnePeriodic
  BY DEF IInv
<1>2. UNCHANGED <<events, compare, timerOn, started, curr>>
  BY DEF LeaveLoop, PickTask, TakeTask, CallTask, FinishTask, UartTask, timerVars
<1>3. Order' /\ stack' \in [Contexts -> Seq(Frames)] /\ TasksOK'
  <2>1. CASE LeaveLoop
    <3>1. ~Open /\ Return
      BY <2>1 DEF LeaveLoop, AtPc
    <3> QED
      BY <1>1, <1>2, <2>1, <3>1, OrderLeaveLoop, ReturnPops
  <2>2. CASE PickTask
    BY <1>1, <2>2, OrderPickTask, PickTaskMoves
  <2>3. CASE TakeTask
    BY <1>1, <2>3, OrderTakeTask, TakeTaskMoves
  <2>6. CASE CallTask
    BY <1>1, <2>6, OrderCallTask, CallTaskMoves
  <2>4. CASE FinishTask
    BY <1>1, <2>4, OrderFinishTask
  <2>5. CASE UartTask
    BY <1>1, <2>5, OrderUartTask
  <2> QED
    BY <2>1, <2>2, <2>3, <2>4, <2>5, <2>6
<1>4. queue' \in Seq(Sources)
  BY <1>3, QueueTyped DEF Order
<1>5. handling' \in Sources \cup {None}
  <2>1. CASE TakeTask
    BY <1>1, <2>1, TakeTaskMoves
  <2>2. CASE ~TakeTask
    BY <1>1, <2>2 DEF TypeOK, LeaveLoop, PickTask, CallTask, FinishTask, UartTask
  <2> QED
    BY <2>1, <2>2
<1>6. {timerOn', uartOn', uartLine', started'} \subseteq BOOLEAN
  BY <1>1, <1>2 DEF TypeOK, LeaveLoop, PickTask, TakeTask, CallTask, FinishTask, UartTask, uartVars
<1>7. TypeOK'
  BY <1>1, <1>2, <1>3, <1>4, <1>5, <1>6 DEF TypeOK
<1>8. OnePeriodic'
  BY <1>1, <1>2 DEF OnePeriodic
<1> QED
  BY <1>3, <1>7, <1>8 DEF IInv

LEMMA RipeIsNat ==
  ASSUME TypeOK
  PROVE  Cardinality({i \in DOMAIN events : events[i].left = 0}) \in Nat
<1>1. Len(events) \in Nat /\ DOMAIN events = 1..Len(events)
  BY LenProperties DEF TypeOK
<1>2. IsFiniteSet(1..Len(events))
  BY <1>1, FS_Interval
<1> QED
  BY <1>1, <1>2, FS_Subset, FS_CardinalityType

\* What timer_irq_handle does to the calls.
LEMMA TimerMoves ==
  ASSUME TypeOK, TasksOK,
         TimerTask \/ FireEcho \/ FirePeriodic \/ CallSchedule \/ Rearm
  PROVE  /\ Depth # 0 /\ Calls[Depth].pc \in TimerCodes
         /\ queue' = queue /\ handling' = handling /\ uartLine' = uartLine /\ started' = started
         /\ curr' \in Contexts /\ uartOn' \in BOOLEAN
         /\ stack' \in [Contexts -> Seq(Frames)] /\ TasksOK'
         /\ TimerTask \/ FireEcho => Changed("events")
         /\ FirePeriodic => Changed("called")
         /\ CallSchedule /\ curr' = curr => Changed("events")
         /\ Rearm => Changed("done")
<1>1. /\ queue' = queue /\ handling' = handling /\ uartLine' = uartLine /\ started' = started
      /\ uartOn' \in BOOLEAN
  BY DEF TypeOK, TimerTask, FireEcho, FirePeriodic, CallSchedule, Rearm, uartVars
<1>2. \A pc \in {"events", "called", "done"} : pc \in Codes /\ pc # "picked"
  BY DEF Codes
<1>3. CASE TimerTask
  <2>1. AtPc("timer") /\ ~Open /\ curr' = curr
    BY <1>3 DEF TimerTask, AtPc
  <2>2. PICK ripe \in Nat : ripe = Cardinality({i \in DOMAIN events : events[i].left = 0})
    BY RipeIsNat
  <2> DEFINE f == [Top EXCEPT !.pc = "events", !.ripe = ripe]
  <2>3. f \in Frames /\ f.pc = "events"
    BY <1>2, <2>1, TopWithRipe
  <2>4. Goes(f)
    BY <1>3, <2>2 DEF TimerTask, Goes
  <2> HIDE DEF f
  <2>5. stack' \in [Contexts -> Seq(Frames)] /\ TasksOK' /\ Changed("events")
    BY <2>1, <2>3, <2>4, GoesTo
  <2> QED
    BY <1>1, <1>3, <2>1, <2>5, StackFacts
    DEF TimerCodes, FireEcho, FirePeriodic, CallSchedule, Rearm, AtPc
<1>4. CASE FireEcho
  <2>1. AtPc("events") /\ ~Open /\ curr' = curr /\ Pops("events")
    BY <1>4 DEF FireEcho, AtPc, Pops
  <2>2. stack' \in [Contexts -> Seq(Frames)] /\ TasksOK' /\ Changed("events")
    BY <2>1, PoppedChanges DEF TimerCodes
  <2> QED
    BY <1>1, <1>4, <2>1, <2>2, StackFacts
    DEF TimerCodes, FireEcho, FirePeriodic, CallSchedule, Rearm, AtPc
<1>5. CASE FirePeriodic
  <2>1. AtPc("events") /\ ~Open /\ curr' = curr /\ Pops("called")
    BY <1>5 DEF FirePeriodic, AtPc, Pops
  <2>2. stack' \in [Contexts -> Seq(Frames)] /\ TasksOK' /\ Changed("called")
    BY <2>1, PoppedChanges DEF TimerCodes
  <2> QED
    BY <1>1, <1>5, <2>1, <2>2, StackFacts
    DEF TimerCodes, TimerTask, FireEcho, FirePeriodic, CallSchedule, Rearm, AtPc
<1>6. CASE CallSchedule
  <2>1. AtPc("called") /\ ~Open /\ curr' \in Contexts
    BY <1>6 DEF CallSchedule, AtPc, Contexts, TypeOK
  <2> DEFINE f == [Top EXCEPT !.pc = "events"]
  <2>2. f \in Frames /\ f.pc = "events"
    BY <1>2, <2>1, TopMoved
  <2>3. Goes(f)
    BY <1>6 DEF CallSchedule, Goto, Goes
  <2> HIDE DEF f
  <2>4. /\ stack' \in [Contexts -> Seq(Frames)] /\ TasksOK'
        /\ curr' = curr => Changed("events")
    BY <2>1, <2>2, <2>3, GoesTo
  <2> QED
    BY <1>1, <1>6, <2>1, <2>4, StackFacts
    DEF TimerCodes, TimerTask, FireEcho, FirePeriodic, CallSchedule, Rearm, AtPc
<1>7. CASE Rearm
  <2>1. AtPc("events") /\ ~Open /\ curr' = curr /\ Goto("done")
    BY <1>7 DEF Rearm, AtPc
  <2>2. stack' \in [Contexts -> Seq(Frames)] /\ TasksOK' /\ Changed("done")
    BY <1>2, <2>1, GotoMoves
  <2> QED
    BY <1>1, <1>7, <2>1, <2>2, StackFacts
    DEF TimerCodes, TimerTask, FireEcho, FirePeriodic, CallSchedule, Rearm, AtPc
<1> QED
  BY <1>3, <1>4, <1>5, <1>6, <1>7

LEMMA IInvTimer ==
  ASSUME IInv, TimerTask \/ FireEcho \/ FirePeriodic \/ CallSchedule \/ Rearm
  PROVE  IInv'
<1>1. TypeOK /\ TasksOK /\ Order /\ OnePeriodic
  BY DEF IInv
<1>2. /\ Depth # 0 /\ Calls[Depth].pc \in TimerCodes
      /\ queue' = queue /\ handling' = handling /\ uartLine' = uartLine /\ started' = started
      /\ curr' \in Contexts /\ uartOn' \in BOOLEAN
      /\ stack' \in [Contexts -> Seq(Frames)] /\ TasksOK'
  BY <1>1, TimerMoves
<1>3. Order'
  BY <1>1, <1>2, OrderAfterQuiet
<1>4. EventTypes
  BY <1>1 DEF TypeOK, EventTypes
<1>5. EventTypes' /\ OnePeriodic'
  <2>1. CASE TimerTask
    BY <1>1, <1>4, <2>1 DEF TimerTask, EventTypes, OnePeriodic
  <2>2. CASE FireEcho
    BY <1>1, <1>4, <2>2, EchoGone DEF FireEcho, EventTypes
  <2>3. CASE FirePeriodic
    BY <1>1, <1>4, <2>3, PeriodicBack DEF FirePeriodic
  <2>4. CASE CallSchedule
    BY <1>1, <1>4, <2>4 DEF CallSchedule, timerVars, EventTypes, OnePeriodic
  <2>5. CASE Rearm
    <3>1. Head(events).left \in Nat /\ events # <<>>
      BY <1>1, <1>4, EventsThere DEF Events
    <3>2. compare' = Head(events).left /\ timerOn' = TRUE /\ events' = events
      BY <2>5, <3>1 DEF Rearm
    <3> QED
      BY <1>1, <1>4, <3>1, <3>2 DEF EventTypes, OnePeriodic
  <2> QED
    BY <2>1, <2>2, <2>3, <2>4, <2>5
<1>6. TypeOK'
  BY <1>1, <1>2, <1>5 DEF TypeOK, EventTypes
<1> QED
  BY <1>2, <1>3, <1>5, <1>6 DEF IInv

\* Time: no event is added, removed or reordered.
LEMMA TimePasses ==
  ASSUME EventTypes, Elapse
  PROVE  /\ EventTypes' /\ Len(events') = Len(events)
         /\ \A i \in 1..Len(events) :
              events'[i].kind = events[i].kind /\ events'[i].left = Less(events[i].left)
<1>1. Len(events) \in Nat /\ DOMAIN events = 1..Len(events)
  BY LenProperties DEF EventTypes
<1>2. ASSUME NEW n \in Nat PROVE Less(n) \in Nat
  BY DEF Less
<1>3. ASSUME NEW i \in 1..Len(events)
      PROVE  /\ [events[i] EXCEPT !.left = Less(@)] \in Events
             /\ [events[i] EXCEPT !.left = Less(@)].kind = events[i].kind
             /\ [events[i] EXCEPT !.left = Less(@)].left = Less(events[i].left)
  <2>1. PICK event \in Events : event = events[i]
    BY <1>3, LenProperties DEF EventTypes
  <2>2. PICK left \in Nat : left = Less(event.left)
    BY <1>2 DEF Events
  <2>3. /\ [event EXCEPT !.left = left] \in Events
        /\ [event EXCEPT !.left = left].kind = event.kind
        /\ [event EXCEPT !.left = left].left = left
    BY DEF Events
  <2> QED
    BY <2>1, <2>2, <2>3
<1>4. events' = [i \in 1..Len(events) |-> [events[i] EXCEPT !.left = Less(@)]]
  BY <1>1 DEF Elapse
<1>5. events' \in Seq(Events) /\ Len(events') = Len(events)
  BY <1>1, <1>3, <1>4
<1>6. compare' \in Nat /\ timerOn' \in BOOLEAN
  BY <1>2 DEF Elapse, EventTypes
<1> QED
  BY <1>3, <1>4, <1>5, <1>6 DEF EventTypes

\* Open code, the UART and time.
LEMMA IInvOpen ==
  ASSUME IInv,
         \/ \E delay \in EchoDelays : EchoAt(delay)
         \/ Exec \/ Yield \/ AllExited \/ UseUart \/ UartEvent \/ Elapse
  PROVE  IInv'
<1>1. TypeOK /\ TasksOK /\ Order /\ OnePeriodic
  BY DEF IInv
<1>2. EventTypes
  BY <1>1 DEF TypeOK, EventTypes
<1>3. queue' = queue /\ handling' = handling
  BY DEF EchoAt, Exec, Yield, AllExited, UseUart, UartEvent, Elapse
<1>4. Order'
  <2>1. CASE Open
    <3>1. Depth = 0
      BY <1>1, <2>1, StackFacts
    <3> QED
      BY <1>1, <1>3, <3>1, OrderAfterQuiet
  <2>2. CASE ~Open
    <3>1. UartEvent \/ Elapse
      BY <2>2 DEF EchoAt, Exec, Yield, AllExited, UseUart
    <3>2. UNCHANGED <<queue, handling, timerOn, uartOn, curr, stack>>
      BY <3>1 DEF UartEvent, Elapse, timerVars, uartVars
    <3> QED
      BY <1>1, <3>2, OrderSame
  <2> QED
    BY <2>1, <2>2
<1>5. EventTypes' /\ OnePeriodic'
  <2>1. CASE \E delay \in EchoDelays : EchoAt(delay)
    <3>1. PICK delay \in EchoDelays : EchoAt(delay)
      BY <2>1
    <3>2. PICK event \in Events : event = [kind |-> "echo", left |-> delay]
      BY InterruptsAssumption DEF Events
    <3>3. event.kind = "echo" /\ AddEvent(events, event)
      BY <3>1, <3>2 DEF EchoAt
    <3>4. OnePeriodic'
      BY <1>1, <1>2, <3>3, EchoAdded
    <3>5. EventTypes'
      BY <1>2, <3>3, EventAdded DEF EventTypes
    <3> QED
      BY <3>4, <3>5
  <2>2. CASE Elapse
    BY <1>1, <1>2, <2>2, TimePasses DEF OnePeriodic
  <2>3. CASE Exec \/ Yield \/ AllExited \/ UseUart \/ UartEvent
    BY <1>1, <1>2, <2>3
       DEF Exec, Yield, AllExited, UseUart, UartEvent, timerVars, EventTypes, OnePeriodic
  <2> QED
    BY <2>1, <2>2, <2>3
<1>6. stack' \in [Contexts -> Seq(Frames)] /\ TasksOK'
  <2>1. CASE AllExited
    <3>1. stack' = [c \in Contexts |-> IF c = Shell THEN stack[c] ELSE <<>>]
      BY <2>1 DEF AllExited
    <3>2. \A c \in Contexts : stack'[c] = stack[c] \/ stack'[c] = <<>>
      BY <3>1
    <3>3. \A c \in Contexts : <<>> \in Seq(Frames) /\ Len(<<>>) = 0
      OBVIOUS
    <3>4. stack' \in [Contexts -> Seq(Frames)]
      BY <1>1, <3>1, <3>3 DEF TypeOK
    <3>5. TasksOK'
      <4> SUFFICES ASSUME NEW c \in Contexts, NEW i \in 1..Len(stack'[c]),
                          stack'[c][i].pc = "picked"
                   PROVE  stack'[c][i].task \in Sources
        BY DEF TasksOK
      <4>1. stack'[c] = stack[c]
        BY <3>2, <3>3
      <4> QED
        BY <1>1, <4>1 DEF TasksOK
    <3> QED
      BY <3>4, <3>5
  <2>2. CASE ~AllExited
    <3>1. stack' = stack
      BY <2>2 DEF EchoAt, Exec, Yield, UseUart, UartEvent, Elapse
    <3> QED
      BY <1>1, <3>1 DEF TypeOK, TasksOK
  <2> QED
    BY <2>1, <2>2
<1>7. curr' \in Contexts
  BY <1>1 DEF TypeOK, Contexts, EchoAt, Exec, Yield, AllExited, UseUart, UartEvent, Elapse
<1>8. uartOn' \in BOOLEAN /\ uartLine' \in BOOLEAN /\ started' \in BOOLEAN
  BY <1>1 DEF TypeOK, uartVars, EchoAt, Exec, Yield, AllExited, UseUart, UartEvent, Elapse
<1>9. TypeOK'
  BY <1>1, <1>3, <1>5, <1>6, <1>7, <1>8 DEF TypeOK, EventTypes
<1> QED
  BY <1>4, <1>5, <1>6, <1>9 DEF IInv

LEMMA IInvStep == ASSUME IInv, [Next]_vars PROVE IInv'
<1>1. CASE UartInterrupt \/ TimerInterrupt
  BY <1>1, IInvEnter
<1>2. CASE LeaveLoop \/ PickTask \/ TakeTask \/ CallTask \/ FinishTask \/ UartTask
  BY <1>2, IInvLoop
<1>3. CASE TimerTask \/ FireEcho \/ FirePeriodic \/ CallSchedule \/ Rearm
  BY <1>3, IInvTimer
<1>4. CASE \/ \E delay \in EchoDelays : EchoAt(delay)
           \/ Exec \/ Yield \/ AllExited \/ UseUart \/ UartEvent \/ Elapse
  BY <1>4, IInvOpen
<1>5. CASE UNCHANGED vars
  <2>1. Order'
    BY <1>5, OrderSame DEF vars, IInv
  <2> QED
    BY <1>5, <2>1 DEF vars, IInv, TypeOK, TasksOK, OnePeriodic
<1> QED
  BY <1>1, <1>2, <1>3, <1>4, <1>5 DEF Next, Handler

LEMMA IInvInvariant == Spec => []IInv
BY IInvInit, IInvStep, PTL DEF Spec

\* Every variable keeps its type, however deep irq_handle nests: in particular irq_handling_task
\* is a task or null at every call through it.
THEOREM InterruptsTypeCorrect == Spec => []TypeOK
<1>1. IInv => TypeOK
  BY DEF IInv
<1> QED
  BY <1>1, IInvInvariant, PTL

\* No interrupt task is left behind when irq_handle returns to what it interrupted: a loop
\* that ended for the priority of the UART's task did so above the call that handles it in
\* the same context, and that call goes on with the queue.  (After a call through a null
\* pointer nothing is claimed.)
THEOREM InterruptsNoTaskLeft == Spec => []NoTaskLeft
<1>1. IInv => NoTaskLeft
  BY StackFacts DEF IInv, Order, Emptied, NoTaskLeft
<1> QED
  BY <1>1, IInvInvariant, PTL

(***************************************************************************)
(* The timer stays armed if no program runs while an `echoat` event is     *)
(* pending.                                                                *)
(***************************************************************************)
Armed == timerOn /\ compare <= events[1].left

\* A call that arms the timer before it returns, or does not return.
Arms(call) ==
  call.pc \in TimerCodes \cup {"wild"} \/ (call.pc = "taken" /\ call.task = "timer")

\* The timer is armed, or above the call at k of the running context something will arm it.
WillArm(k) ==
  \/ Armed
  \/ Has("timer")
  \/ \E i \in 1..Depth : i > k /\ Arms(Calls[i])

\* The timer is armed, or will be before irq_handle returns, and also before a call of
\* schedule() returns that takes the context away.
ArmedLater ==
  /\ WillArm(0)
  /\ started => \A k \in 1..Depth : Calls[k].pc = "called" => WillArm(k)

Alone == Len(events) = 1

JInv == IInv /\ (started => Alone) /\ ArmedLater

LEMMA ArmedNow == ASSUME Armed' PROVE ArmedLater'
BY DEF ArmedLater, WillArm

\* The call on top is one of timer_irq_handle, which ends with the timer armed, or is to be.
LEMMA ArmedByTop ==
  ASSUME TypeOK, NEW pc, Changed(pc), Arms(Calls'[Depth]), pc = "called" /\ started' => Armed'
  PROVE  ArmedLater'
<1>1. /\ Depth' = Depth /\ Depth \in Nat \ {0} /\ Depth \in 1..Depth /\ Calls'[Depth].pc = pc
  BY StackFacts DEF Changed
<1>2. ASSUME NEW k \in 0..(Depth - 1) PROVE WillArm(k)'
  <2>1. Depth > k
    BY <1>1
  <2> QED
    BY <1>1, <2>1 DEF WillArm
<1>3. ASSUME started', NEW k \in 1..Depth, Calls'[k].pc = "called" PROVE WillArm(k)'
  <2>1. CASE k = Depth
    BY <1>1, <1>3, <2>1 DEF WillArm
  <2>2. CASE k # Depth
    BY <1>1, <1>2, <2>2
  <2> QED
    BY <2>1, <2>2
<1> QED
  BY <1>1, <1>2, <1>3 DEF ArmedLater

\* The call on top moves outside timer_irq_handle.
LEMMA ArmedElsewhere ==
  ASSUME TypeOK, NEW pc, Changed(pc), pc # "called", ~Arms(Calls[Depth]),
         Armed => Armed', Has("timer") => Has("timer")', started' = started, ArmedLater
  PROVE  ArmedLater'
<1>1. /\ Depth' = Depth /\ Depth \in Nat \ {0} /\ Calls'[Depth].pc = pc
      /\ \A i \in 1..Depth :
           i # Depth => Calls'[i].pc = Calls[i].pc /\ Calls'[i].task = Calls[i].task
  BY StackFacts DEF Changed
<1>2. ASSUME NEW k \in Nat, WillArm(k) PROVE WillArm(k)'
  <2>1. ASSUME NEW i \in 1..Depth, Arms(Calls[i]) PROVE Arms(Calls'[i])
    BY <1>1, <2>1 DEF Arms
  <2> QED
    BY <1>1, <1>2, <2>1 DEF WillArm
<1>3. ASSUME started', NEW k \in 1..Depth, Calls'[k].pc = "called" PROVE WillArm(k)'
  <2>1. k # Depth /\ k \in Nat
    BY <1>1, <1>3
  <2>2. Calls[k].pc = "called"
    BY <1>1, <1>3, <2>1
  <2>3. WillArm(k)
    BY <1>3, <2>2 DEF ArmedLater
  <2> QED
    BY <1>2, <2>1, <2>3
<1> QED
  BY <1>1, <1>2, <1>3 DEF ArmedLater

LEMMA ArmedSame ==
  ASSUME UNCHANGED <<queue, timerOn, compare, events, started, curr, stack>>, ArmedLater
  PROVE  ArmedLater'
BY DEF ArmedLater, WillArm, Armed, Has, Calls, Depth

\* Where nothing is handled, or schedule() is about to be called, the timer is armed.
LEMMA ArmedAtRest ==
  ASSUME TypeOK, Order, ArmedLater,
         Depth = 0 \/ (started /\ Calls[Depth].pc = "called")
  PROVE  Armed
<1>1. Depth \in Nat
  BY StackFacts
<1>2. ~Has("timer")
  BY QuietPoint DEF TimerCodes
<1>3. CASE Depth = 0
  BY <1>1, <1>2, <1>3 DEF ArmedLater, WillArm
<1>4. CASE Depth # 0
  <2>1. Depth \in 1..Depth /\ \A i \in 1..Depth : ~(i > Depth)
    BY <1>1, <1>4
  <2>2. WillArm(Depth)
    BY <1>4, <2>1 DEF ArmedLater
  <2> QED
    BY <1>2, <2>1, <2>2 DEF WillArm
<1> QED
  BY <1>3, <1>4

LEMMA ArmedEnter ==
  ASSUME IInv, ArmedLater, UartInterrupt \/ TimerInterrupt
  PROVE  ArmedLater'
<1>1. TypeOK /\ TasksOK /\ Order
  BY DEF IInv
<1>2. PICK source \in Sources :
        /\ Enter(source) /\ ~Has(source)
        /\ source = "uart" => timerOn' = timerOn
  <2>1. CASE UartInterrupt
    BY <1>1, <2>1 DEF UartInterrupt, Sources, Order, Masked
  <2>2. CASE TimerInterrupt
    BY <1>1, <2>2 DEF TimerInterrupt, Sources, Order, Masked
  <2> QED
    BY <2>1, <2>2
<1>3. Queues(source) /\ Calling /\ UNCHANGED <<events, compare, started, curr>>
  BY <1>2 DEF Enter, Queues, Calling
<1>4. Has(source)' /\ \A other \in Sources \ {source} : Has(other)' <=> Has(other)
  BY <1>1, <1>2, <1>3, PutIntoTasks DEF Order
<1>5. /\ Depth' = Depth + 1 /\ Calls'[Depth + 1].pc = "loop" /\ Depth \in Nat
      /\ \A i \in 1..Depth : Calls'[i] = Calls[i]
  BY <1>1, <1>3, CallingPushes, StackFacts
<1>6. ASSUME NEW k \in Nat, WillArm(k) PROVE WillArm(k)'
  <2>1. CASE source = "timer"
    BY <1>4, <2>1 DEF WillArm
  <2>2. CASE source = "uart"
    <3>1. Armed => Armed'
      BY <1>2, <1>3, <2>2 DEF Armed
    <3>2. Has("timer") => Has("timer")'
      BY <1>4, <2>2 DEF Sources
    <3>3. ASSUME NEW i \in 1..Depth, i > k, Arms(Calls[i])
          PROVE  \E j \in 1..Depth' : j > k /\ Arms(Calls'[j])
      BY <1>5, <3>3
    <3> QED
      BY <1>6, <3>1, <3>2, <3>3 DEF WillArm
  <2> QED
    BY <2>1, <2>2 DEF Sources
<1>7. ASSUME started', NEW k \in 1..Depth', Calls'[k].pc = "called" PROVE WillArm(k)'
  <2>1. k \in 1..Depth /\ k \in Nat /\ Calls[k].pc = "called"
    BY <1>5, <1>7
  <2>2. WillArm(k)
    BY <1>3, <1>7, <2>1 DEF ArmedLater
  <2> QED
    BY <1>6, <2>1, <2>2
<1> QED
  BY <1>6, <1>7 DEF ArmedLater

LEMMA ArmedLoop ==
  ASSUME IInv, ArmedLater, LeaveLoop \/ PickTask \/ TakeTask \/ CallTask \/ FinishTask \/ UartTask
  PROVE  ArmedLater'
<1>1. TypeOK /\ TasksOK /\ Order
  BY DEF IInv
<1>2. /\ UNCHANGED <<events, compare, timerOn, started, curr>> /\ ~Open
      /\ Armed => Armed'
  BY DEF LeaveLoop, PickTask, TakeTask, CallTask, FinishTask, UartTask, timerVars, Armed, AtPc
<1>3. CASE LeaveLoop
  <2>1. Return /\ queue' = queue
    BY <1>3 DEF LeaveLoop
  <2>2. /\ Depth \in Nat \ {0} /\ Depth' = Depth - 1 /\ Calls[Depth].pc = "loop"
        /\ \A i \in 1..(Depth - 1) : Calls'[i] = Calls[i]
    BY <1>1, <1>2, <1>3, <2>1, ReturnPops, StackFacts DEF LeaveLoop
  <2>3. ASSUME NEW k \in Nat, WillArm(k) PROVE WillArm(k)'
    <3>1. Has("timer") => Has("timer")'
      BY <2>1 DEF Has
    <3>2. ASSUME NEW i \in 1..Depth, i > k, Arms(Calls[i])
          PROVE  \E j \in 1..Depth' : j > k /\ Arms(Calls'[j])
      <4>1. i # Depth
        BY <2>2, <3>2 DEF TimerCodes, Arms
      <4>2. i \in 1..(Depth - 1) /\ i \in 1..Depth'
        BY <2>2, <4>1
      <4> QED
        BY <2>2, <3>2, <4>2
    <3> QED
      BY <1>2, <2>3, <3>1, <3>2 DEF WillArm
  <2>4. ASSUME started', NEW k \in 1..Depth', Calls'[k].pc = "called" PROVE WillArm(k)'
    <3>1. k \in 1..Depth /\ k \in Nat /\ Calls[k].pc = "called"
      BY <2>2, <2>4
    <3>2. WillArm(k)
      BY <1>2, <2>4, <3>1 DEF ArmedLater
    <3> QED
      BY <2>3, <3>1, <3>2
  <2> QED
    BY <2>3, <2>4 DEF ArmedLater
<1>4. CASE PickTask
  <2>1. Changed("picked") /\ Calls[Depth].pc = "loop" /\ queue' = queue
    BY <1>1, <1>4, PickTaskMoves
  <2> QED
    BY <1>1, <1>2, <2>1, ArmedElsewhere DEF TimerCodes, Arms, Has
<1>5. CASE TakeTask
  <2>1. PICK task \in Sources : task = Calls[Depth].task
    BY <1>1, <1>5, TakeTaskMoves
  <2>2. /\ Changed("taken") /\ Calls[Depth].pc = "picked" /\ Depth # 0
        /\ Calls'[Depth].pc = "taken" /\ Calls'[Depth].task = task
        /\ queue' = IF queue = <<>> THEN <<>> ELSE Tail(queue)
    BY <1>1, <1>5, <2>1, TakeTaskMoves DEF Changed
  <2>3. CASE task = "timer"
    BY <1>1, <2>2, <2>3, ArmedByTop DEF Arms
  <2>4. CASE task = "uart"
    <3>1. queue = <<>> \/ Head(queue) = "uart"
      BY <1>1, <2>1, <2>2, <2>4 DEF Order, TopPicked
    <3>2. Has("timer") => Has("timer")'
      BY <1>1, <2>2, <3>1, TakenFromQueue DEF Order
    <3> QED
      BY <1>1, <1>2, <2>2, <3>2, ArmedElsewhere DEF TimerCodes, Arms
  <2> QED
    BY <2>3, <2>4 DEF Sources
<1>8. CASE CallTask
  <2>1. PICK pc \in Sources \cup {"wild"} :
          /\ (pc = "wild" /\ handling = None) \/ (pc = handling /\ handling # None)
          /\ Changed(pc) /\ Calls[Depth].pc = "taken" /\ Depth # 0
          /\ UNCHANGED <<queue, handling, timerOn, uartOn>>
    BY <1>1, <1>8, CallTaskMoves
  <2>2. Calls'[Depth].pc = pc
    BY <2>1 DEF Changed
  <2>3. CASE pc # "uart"
    <3>1. Arms(Calls'[Depth]) /\ pc # "called"
      BY <2>1, <2>2, <2>3 DEF Arms, TimerCodes, Sources
    <3> QED
      BY <1>1, <2>1, <3>1, ArmedByTop
  <2>4. CASE pc = "uart"
    <3>1. PICK k \in 1..Depth : RunsUart(k) /\ Idle(k)
      BY <1>1, <2>1, <2>4 DEF Order, UartRuns
    <3>2. k = Depth
      <4>1. Depth \in Nat /\ Depth \in 1..Depth
        BY <1>1, <2>1, StackFacts
      <4>2. ~(Depth > k)
        BY <2>1, <3>1, <4>1 DEF Idle, Waits
      <4> QED
        BY <4>1, <4>2
    <3>3. ~Arms(Calls[Depth])
      BY <2>1, <3>1, <3>2 DEF RunsUart, Arms, TimerCodes
    <3> QED
      BY <1>1, <1>2, <2>1, <2>4, <3>3, ArmedElsewhere DEF Has
  <2> QED
    BY <2>3, <2>4
<1>6. CASE FinishTask
  <2>1. Goto("loop") /\ queue' = queue /\ "loop" \in Codes /\ Calls[Depth].pc = "done"
    BY <1>1, <1>6, StackFacts DEF FinishTask, Codes
  <2>2. Changed("loop")
    BY <1>1, <1>2, <2>1, GotoMoves
  <2> QED
    BY <1>1, <1>2, <2>1, <2>2, ArmedElsewhere DEF TimerCodes, Arms, Has
<1>7. CASE UartTask
  <2>1. Goto("done") /\ queue' = queue /\ "done" \in Codes /\ Calls[Depth].pc = "uart"
    BY <1>1, <1>7, StackFacts DEF UartTask, Codes
  <2>2. Changed("done")
    BY <1>1, <1>2, <2>1, GotoMoves
  <2> QED
    BY <1>1, <1>2, <2>1, <2>2, ArmedElsewhere DEF TimerCodes, Arms, Has
<1> QED
  BY <1>3, <1>4, <1>5, <1>6, <1>7, <1>8

\* With one event, the event is the periodic one.
LEMMA AloneIsPeriodic ==
  ASSUME EventTypes, OnePeriodic, Alone
  PROVE  Head(events).kind = "periodic"
<1>1. Len(events) \in Nat \ {0} /\ Head(events) = events[1]
  BY EventsThere
<1>2. PICK p \in 1..Len(events) : events[p].kind = "periodic"
  BY DEF OnePeriodic
<1>3. p = 1
  BY <1>2 DEF Alone
<1> QED
  BY <1>1, <1>2, <1>3

LEMMA ArmedTimer ==
  ASSUME IInv, started => Alone, ArmedLater,
         TimerTask \/ FireEcho \/ FirePeriodic \/ CallSchedule \/ Rearm
  PROVE  ArmedLater' /\ (started' => Alone')
<1>1. TypeOK /\ TasksOK /\ Order /\ OnePeriodic /\ EventTypes
  BY DEF IInv, TypeOK, EventTypes
<1>2. /\ started' = started
      /\ TimerTask \/ FireEcho => Changed("events")
      /\ FirePeriodic => Changed("called")
      /\ CallSchedule /\ curr' = curr => Changed("events")
  BY <1>1, TimerMoves
<1>8. ASSUME NEW pc \in {"events", "called"}, Changed(pc) PROVE Arms(Calls'[Depth])
  BY <1>8 DEF Changed, Arms, TimerCodes
<1>3. CASE TimerTask
  <2>1. events' = events
    BY <1>3 DEF TimerTask
  <2>2. ArmedLater'
    BY <1>1, <1>2, <1>3, <1>8, ArmedByTop
  <2> QED
    BY <1>2, <2>1, <2>2 DEF Alone
<1>4. CASE FireEcho
  <2>1. ~started
    BY <1>1, <1>4, AloneIsPeriodic DEF FireEcho
  <2>2. ArmedLater'
    BY <1>1, <1>2, <1>4, <1>8, ArmedByTop
  <2> QED
    BY <1>2, <2>1, <2>2
<1>5. CASE FirePeriodic
  <2>1. /\ Len(events') = Len(events)
        /\ Len(events) = 1 => events'[1].left = Period /\ compare' = Period /\ timerOn' = TRUE
    BY <1>1, <1>5, PeriodicBack DEF FirePeriodic
  <2>2. Alone => Armed' /\ Alone'
    <3>1. Period \in Nat
      BY InterruptsAssumption
    <3> QED
      BY <2>1, <3>1 DEF Alone, Armed
  <2>3. ArmedLater'
    BY <1>1, <1>2, <1>5, <2>2, <1>8, ArmedByTop
  <2> QED
    BY <1>2, <2>2, <2>3
<1>6. CASE CallSchedule
  <2>1. /\ events' = events /\ compare' = compare /\ timerOn' = timerOn
        /\ ~started => curr' = curr
    BY <1>6 DEF CallSchedule, timerVars
  <2>2. ArmedLater'
    <3>1. CASE started
      <4>1. Depth # 0 /\ Calls[Depth].pc = "called"
        BY <1>1, <1>6, StackFacts DEF CallSchedule
      <4>2. Armed
        BY <1>1, <3>1, <4>1, ArmedAtRest
      <4>3. Armed'
        BY <2>1, <4>2 DEF Armed
      <4> QED
        BY <4>3, ArmedNow
    <3>2. CASE ~started
      BY <1>1, <1>2, <1>6, <2>1, <3>2, <1>8, ArmedByTop
    <3> QED
      BY <3>1, <3>2
  <2> QED
    BY <1>2, <2>1, <2>2 DEF Alone
<1>7. CASE Rearm
  <2>1. events # <<>> /\ Head(events) = events[1] /\ events[1].left \in Nat
    BY <1>1, EventsThere DEF Events
  <2>2. events' = events /\ compare' = events[1].left /\ timerOn' = TRUE
    BY <1>7, <2>1 DEF Rearm
  <2>3. Armed'
    BY <2>1, <2>2 DEF Armed
  <2> QED
    BY <1>2, <2>2, <2>3, ArmedNow DEF Alone
<1> QED
  BY <1>3, <1>4, <1>5, <1>6, <1>7

\* `echoat` arms the timer if its event comes first.
LEMMA ArmedEcho ==
  ASSUME EventTypes, OnePeriodic, Armed, NEW event \in Events, AddEvent(events, event)
  PROVE  Armed'
<1>1. PICK p \in 1..(Len(events) + 1) :
        events'[p] = event /\ \A i \in 1..(p - 1) : events'[i] = events[i]
  BY EventAdded DEF EventTypes
<1>2. /\ events'[1] = event => compare' = event.left /\ timerOn' = TRUE
      /\ events'[1] # event => compare' = compare /\ timerOn' = timerOn
  BY EventAdded DEF EventTypes
<1>3. CASE events'[1] = event
  <2>1. event.left \in Nat
    BY DEF Events
  <2> QED
    BY <1>2, <1>3, <2>1 DEF Armed
<1>4. CASE events'[1] # event
  <2>1. p # 1 /\ Len(events) \in Nat
    BY <1>1, <1>4, EventsThere
  <2>2. events'[1] = events[1]
    BY <1>1, <2>1
  <2> QED
    BY <1>2, <1>4, <2>2 DEF Armed
<1> QED
  BY <1>3, <1>4

LEMMA ArmedOpen ==
  ASSUME ~EchoOverlaps, IInv, started => Alone, ArmedLater,
         \/ \E delay \in EchoDelays : EchoAt(delay)
         \/ Exec \/ Yield \/ AllExited \/ UseUart \/ UartEvent \/ Elapse
  PROVE  ArmedLater' /\ (started' => Alone')
<1>1. TypeOK /\ Order /\ OnePeriodic /\ EventTypes
  BY DEF IInv, TypeOK, EventTypes
<1>2. Open => Depth = 0 /\ Armed
  <2>1. Open => Depth = 0
    BY <1>1, StackFacts
  <2> QED
    BY <1>1, <2>1, ArmedAtRest
<1>3. CASE \E delay \in EchoDelays : EchoAt(delay)
  <2>1. PICK delay \in EchoDelays : EchoAt(delay)
    BY <1>3
  <2>2. PICK event \in Events : event = [kind |-> "echo", left |-> delay]
    BY InterruptsAssumption DEF Events
  <2>3. AddEvent(events, event) /\ ~started' /\ Armed
    BY <1>2, <2>1, <2>2 DEF EchoAt
  <2> QED
    BY <1>1, <2>3, ArmedEcho, ArmedNow
<1>4. CASE Exec
  <2>1. Armed /\ UNCHANGED <<events, compare, timerOn>> /\ Echoes = {}
    BY <1>2, <1>4 DEF Exec, timerVars
  <2>2. Armed'
    BY <2>1 DEF Armed
  <2>3. Alone'
    <3>1. Len(events) \in Nat \ {0} /\ DOMAIN events = 1..Len(events)
      BY <1>1, EventsThere, LenProperties DEF EventTypes
    <3>2. PICK p \in 1..Len(events) : \A i \in 1..Len(events) : i # p => events[i].kind = "echo"
      BY <1>1 DEF OnePeriodic
    <3>3. \A i \in 1..Len(events) : i = p
      BY <2>1, <3>1, <3>2 DEF Echoes
    <3>4. 1 \in 1..Len(events) /\ Len(events) \in 1..Len(events)
      BY <3>1
    <3>5. Len(events) = 1
      BY <3>3, <3>4
    <3> QED
      BY <2>1, <3>5 DEF Alone
  <2> QED
    BY <2>2, <2>3, ArmedNow
<1>5. CASE Yield \/ AllExited
  <2>1. /\ Armed /\ UNCHANGED <<events, compare, timerOn>> /\ (started' => started)
    BY <1>2, <1>5 DEF Yield, AllExited, timerVars
  <2>2. Armed' /\ (started' => Alone')
    BY <2>1 DEF Armed, Alone
  <2> QED
    BY <2>2, ArmedNow
<1>6. CASE UseUart \/ UartEvent
  <2>1. UNCHANGED <<queue, timerOn, compare, events, started, curr, stack>>
    BY <1>6 DEF UseUart, UartEvent, timerVars
  <2> QED
    BY <2>1, ArmedSame DEF Alone
<1>7. CASE Elapse
  <2>1. /\ Len(events') = Len(events) /\ events'[1].left = Less(events[1].left)
        /\ UNCHANGED <<queue, timerOn, started, curr, stack>>
        /\ compare > 0 /\ compare' = Less(compare)
    BY <1>1, <1>7, TimePasses, EventsThere DEF Elapse, uartVars
  <2>2. compare \in Nat /\ events[1].left \in Nat
    BY <1>1, EventsThere DEF EventTypes, Events
  <2>3. Armed => Armed'
    BY <2>1, <2>2 DEF Armed, Less
  <2>4. ArmedLater'
    BY <2>1, <2>3 DEF ArmedLater, WillArm, Has, Calls, Depth
  <2> QED
    BY <2>1, <2>4 DEF Alone
<1> QED
  BY <1>3, <1>4, <1>5, <1>6, <1>7

LEMMA JInvStep == ASSUME ~EchoOverlaps, JInv, [Next]_vars PROVE JInv'
<1>1. IInv /\ (started => Alone) /\ ArmedLater /\ IInv'
  BY IInvStep DEF JInv
<1>2. CASE UartInterrupt \/ TimerInterrupt
  <2>1. started' = started /\ events' = events
    BY <1>2 DEF UartInterrupt, TimerInterrupt, Enter
  <2> QED
    BY <1>1, <1>2, <2>1, ArmedEnter DEF JInv, Alone
<1>3. CASE LeaveLoop \/ PickTask \/ TakeTask \/ CallTask \/ FinishTask \/ UartTask
  <2>1. started' = started /\ events' = events
    BY <1>3 DEF LeaveLoop, PickTask, TakeTask, CallTask, FinishTask, UartTask, timerVars
  <2> QED
    BY <1>1, <1>3, <2>1, ArmedLoop DEF JInv, Alone
<1>4. CASE TimerTask \/ FireEcho \/ FirePeriodic \/ CallSchedule \/ Rearm
  BY <1>1, <1>4, ArmedTimer DEF JInv
<1>5. CASE \/ \E delay \in EchoDelays : EchoAt(delay)
           \/ Exec \/ Yield \/ AllExited \/ UseUart \/ UartEvent \/ Elapse
  BY <1>1, <1>5, ArmedOpen DEF JInv
<1>6. CASE UNCHANGED vars
  <2>1. ArmedLater' /\ started' = started /\ events' = events
    BY <1>1, <1>6, ArmedSame DEF vars
  <2> QED
    BY <1>1, <2>1 DEF JInv, Alone
<1> QED
  BY <1>2, <1>3, <1>4, <1>5, <1>6 DEF Next, Handler

LEMMA JInvInit == Init => JInv
<1> SUFFICES ASSUME Init PROVE JInv
  OBVIOUS
<1>1. IInv
  BY IInvInit
<1>2. timerOn /\ compare = 1 /\ events[1].left = 1 /\ ~started
  BY DEF Init
<1>3. Armed
  BY <1>2 DEF Armed
<1> QED
  BY <1>1, <1>2, <1>3 DEF JInv, ArmedLater, WillArm

\* Whenever no interrupt is being handled in the running context, the timer is armed for the
\* first event, although contexts may be suspended before the line of timer_irq_handle that
\* arms it.  This holds as long as no program runs while an `echoat` event is pending, which
\* the shell and the programs do not prevent, and until a task is called through a null
\* pointer.
THEOREM InterruptsTimerArmed == ASSUME ~EchoOverlaps PROVE Spec => []TimerArmed
<1>1. ASSUME JInv, [Next]_vars PROVE JInv'
  BY <1>1, JInvStep
<1>2. JInv => TimerArmed
  <2> SUFFICES ASSUME JInv, Open, ~Wild
               PROVE  events # <<>> /\ timerOn /\ compare <= Head(events).left
    BY DEF TimerArmed
  <2>1. TypeOK /\ Order /\ ArmedLater /\ EventTypes /\ OnePeriodic
    BY DEF JInv, IInv, TypeOK, EventTypes
  <2>2. Depth = 0
    BY <2>1, StackFacts
  <2>3. Armed
    BY <2>1, <2>2, ArmedAtRest
  <2> QED
    BY <2>1, <2>3, EventsThere DEF Armed
<1> QED
  BY JInvInit, <1>1, <1>2, PTL DEF Spec
=============================================================================
