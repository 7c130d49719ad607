------------------------------ MODULE UartProofs ------------------------------
(***************************************************************************)
(* The mini UART with any number of threads, any sizes of the buffers and  *)
(* any numbering of the characters that tells those in them apart.         *)
(***************************************************************************)
EXTENDS Uart, SequenceTheorems, TLAPS

(***************************************************************************)
(* Numbering.                                                              *)
(***************************************************************************)
LEMMA RemainderInside ==
  ASSUME NEW n \in Nat, NEW a \in Nat, a < n
  PROVE  a % n = a
  OBVIOUS

LEMMA RemainderAbove ==
  ASSUME NEW n \in Nat, NEW a \in Nat, n <= a, a - n < n
  PROVE  a % n = a - n
  OBVIOUS

\* the number of the k-th character after r
After(r, k) == (r + k) % Numbers

LEMMA NumbersFacts == Numbers \in Nat /\ Numbers > 2
  BY UartAssumption

LEMMA AfterIs ==
  ASSUME NEW r \in Chars, NEW k \in 0..(Numbers - 1)
  PROVE  After(r, k) = IF r + k < Numbers THEN r + k ELSE r + k - Numbers
<1>1. r \in Nat /\ r < Numbers /\ k \in Nat /\ k < Numbers
  BY NumbersFacts DEF Chars
<1>2. CASE r + k < Numbers
  BY <1>1, <1>2, RemainderInside, NumbersFacts DEF After
<1>3. CASE ~(r + k < Numbers)
  <2>1. r + k \in Nat /\ Numbers <= r + k /\ (r + k) - Numbers < Numbers
    BY <1>1, <1>3, NumbersFacts
  <2>2. After(r, k) = (r + k) - Numbers
    BY <2>1, RemainderAbove, NumbersFacts, Zenon DEF After
  <2> QED
    BY <1>1, <1>3, <2>2, NumbersFacts
<1> QED
  BY <1>2, <1>3

LEMMA AfterAfter ==
  ASSUME NEW r \in Chars, NEW j \in 0..(Numbers - 1), NEW k \in 0..(Numbers - 1),
         j + k < Numbers
  PROVE  /\ After(r, j) \in Chars
         /\ After(After(r, j), k) = After(r, j + k)
<1>1. After(r, j) \in Chars
  <2>1. r \in Nat /\ r < Numbers /\ j \in Nat /\ j < Numbers
    BY NumbersFacts DEF Chars
  <2>2. After(r, j) = IF r + j < Numbers THEN r + j ELSE r + j - Numbers
    BY AfterIs
  <2> QED
    BY <2>1, <2>2, NumbersFacts DEF Chars
<1>2. /\ After(After(r, j), k) = IF After(r, j) + k < Numbers THEN After(r, j) + k
                                 ELSE After(r, j) + k - Numbers
      /\ After(r, j + k) = IF r + (j + k) < Numbers THEN r + (j + k) ELSE r + (j + k) - Numbers
  BY <1>1, AfterIs, NumbersFacts
<1>3. After(r, j) = IF r + j < Numbers THEN r + j ELSE r + j - Numbers
  BY AfterIs
<1>4. r \in Nat /\ r < Numbers /\ j \in Nat /\ j < Numbers /\ k \in Nat /\ k < Numbers
  BY NumbersFacts DEF Chars
<1> QED
  BY <1>1, <1>2, <1>3, <1>4, NumbersFacts

LEMMA SuccIsAfter == ASSUME NEW n \in Chars PROVE Succ(n) = After(n, 1) /\ Succ(n) \in Chars
<1>1. Succ(n) = After(n, 1)
  BY DEF Succ, After
<1> QED
  BY <1>1, AfterIs, NumbersFacts DEF Chars

(***************************************************************************)
(* Queues.                                                                 *)
(***************************************************************************)
LEMMA PutIntoQueue ==
  ASSUME NEW q \in Seq(Chars), Len(q) <= BufferSize, NEW c \in Chars,
         NEW r, r = Append(IF Len(q) = BufferSize THEN Tail(q) ELSE q, c)
  PROVE  /\ r \in Seq(Chars) /\ Len(r) <= BufferSize
         /\ Len(q) # BufferSize => /\ Len(r) = Len(q) + 1 /\ r[Len(q) + 1] = c
                                   /\ \A i \in 1..Len(q) : r[i] = q[i]
<1>1. CASE Len(q) = BufferSize
  <2>1. q # <<>>
    BY <1>1, UartAssumption, EmptySeq
  <2>2. Tail(q) \in Seq(Chars) /\ Len(Tail(q)) = Len(q) - 1
    BY <2>1, HeadTailProperties
  <2> QED
    BY <1>1, <2>2, AppendProperties, LenProperties
<1>2. CASE Len(q) # BufferSize
  BY <1>2, AppendProperties, LenProperties, UartAssumption
<1> QED
  BY <1>1, <1>2

LEMMA TakeFromQueue ==
  ASSUME NEW q \in Seq(Chars), q # <<>>
  PROVE  /\ Head(q) \in Chars /\ Head(q) = q[1] /\ Tail(q) \in Seq(Chars)
         /\ Len(q) \in Nat \ {0} /\ Len(Tail(q)) = Len(q) - 1
         /\ \A i \in 1..(Len(q) - 1) : Tail(q)[i] = q[i + 1]
<1>1. Head(q) \in Chars /\ Tail(q) \in Seq(Chars) /\ Len(Tail(q)) = Len(q) - 1
      /\ \A i \in 1..Len(Tail(q)) : Tail(q)[i] = q[i + 1]
  BY HeadTailProperties
<1>2. Len(q) \in Nat \ {0} /\ Head(q) = q[1]
  BY LenProperties, EmptySeq
<1> QED
  BY <1>1, <1>2

(***************************************************************************)
(* The inductive invariant: InputIntact, one queue at a time.              *)
(***************************************************************************)
RxIntact == \A i \in 1..Len(rx) : rx[i] = After(read, i)
FifoIntact == \A i \in 1..Len(fifo) : fifo[i] = After(read, Len(rx) + i)
TypedIntact == typed = After(read, Len(rx) + Len(fifo))

IInv == TypeOK /\ RxIntact /\ FifoIntact /\ TypedIntact

LEMMA IInvInit == Init => IInv
<1> SUFFICES ASSUME Init PROVE IInv
  OBVIOUS
<1>1. 0 \in Chars /\ <<>> \in Seq(Chars) /\ Len(<<>>) = 0
  BY NumbersFacts, EmptySeq DEF Chars
<1>2. TypeOK
  BY <1>1, UartAssumption DEF Init, TypeOK
<1>3. RxIntact /\ FifoIntact
  BY <1>1 DEF Init, RxIntact, FifoIntact
<1>4. TypedIntact
  BY <1>1, AfterIs, NumbersFacts DEF Init, TypedIntact
<1> QED
  BY <1>2, <1>3, <1>4 DEF IInv

\* What is in the buffer and the device are fewer characters than there are numbers.
LEMMA Lengths ==
  ASSUME IInv
  PROVE  /\ rx \in Seq(Chars) /\ tx \in Seq(Chars) /\ fifo \in Seq(Chars)
         /\ Len(rx) \in Nat /\ Len(fifo) \in Nat
         /\ Len(rx) <= BufferSize /\ Len(tx) <= BufferSize /\ Len(fifo) <= FifoSize
         /\ Len(rx) + Len(fifo) < Numbers
<1>1. rx \in Seq(Chars) /\ tx \in Seq(Chars) /\ fifo \in Seq(Chars)
  BY DEF IInv, TypeOK
<1>2. Len(rx) \in Nat /\ Len(fifo) \in Nat
  BY <1>1, LenProperties
<1> QED
  BY <1>1, <1>2, UartAssumption DEF IInv, TypeOK

\* Output has no part in the input.
LEMMA OutputKeepsInput ==
  ASSUME IInv, UNCHANGED <<rx, fifo, typed, read>>, TypeOK'
  PROVE  IInv'
  BY DEF IInv, RxIntact, FifoIntact, TypedIntact

LEMMA IInvPutc ==
  ASSUME IInv, NEW t \in Threads, Putc(t)
  PROVE  IInv'
<1> USE DEF IInv
<1>1. CASE Queue(t, "user", "load")
  <2>1. printed' \in Chars
    BY <1>1, SuccIsAfter DEF Queue, TypeOK
  <2>2. tx' = Append(IF Len(tx) = BufferSize THEN Tail(tx) ELSE tx, printed') /\ got' = got
    BY <1>1 DEF Queue, Tx!Put
  <2>3. tx' \in Seq(Chars) /\ Len(tx') <= BufferSize
    BY <2>1, <2>2, PutIntoQueue, Lengths
  <2>4. pc' \in [Threads -> {"user", "load", "store", "wait"}]
    BY <1>1 DEF Queue, GoTo, TypeOK
  <2>5. TypeOK'
    BY <1>1, <2>1, <2>2, <2>3, <2>4 DEF Queue, TypeOK
  <2> QED
    BY <1>1, <2>5, OutputKeepsInput DEF Queue
<1>2. CASE Load(t, "load", "store")
  <2>1. TypeOK'
    BY <1>2 DEF Load, GoTo, TypeOK
  <2> QED
    BY <1>2, <2>1, OutputKeepsInput DEF Load
<1>3. CASE Store(t, "store", "user")
  <2>1. TypeOK'
    BY <1>3 DEF Store, GoTo, TypeOK
  <2> QED
    BY <1>3, <2>1, OutputKeepsInput DEF Store
<1> QED
  BY <1>1, <1>2, <1>3 DEF Putc

LEMMA IInvGetc ==
  ASSUME IInv, NEW t \in Threads, Getc(t)
  PROVE  IInv'
<1>1. TypeOK'
  BY DEF IInv, Getc, GoTo, TypeOK
<1> QED
  BY <1>1, OutputKeepsInput DEF Getc

\* The reader takes the first of the characters, and the rest follow it.
LEMMA IInvPoll ==
  ASSUME IInv, NEW t \in Threads, Poll(t)
  PROVE  IInv'
<1>1. UNCHANGED <<tx, fifo, loaded, typed, printed>>
  BY DEF Poll
<1>2. CASE rx = <<>>
  <2>1. got' = Nothing /\ rx' = rx
    BY <1>2 DEF Poll, Rx!Get
  <2>2. ier' = ier \cup {"rx"} /\ UNCHANGED <<pc, read>>
    BY <2>1 DEF Poll
  <2>3. TypeOK'
    BY <1>1, <2>1, <2>2 DEF IInv, TypeOK
  <2> QED
    BY <1>1, <2>1, <2>2, <2>3, OutputKeepsInput
<1>3. CASE rx # <<>>
  <2>1. got' = Head(rx) /\ rx' = Tail(rx)
    BY <1>3 DEF Poll, Rx!Get
  <2>2. /\ Head(rx) \in Chars /\ Head(rx) = rx[1] /\ Tail(rx) \in Seq(Chars)
        /\ Len(rx) \in Nat \ {0} /\ Len(rx') = Len(rx) - 1
        /\ \A i \in 1..(Len(rx) - 1) : rx'[i] = rx[i + 1]
    BY <1>3, <2>1, TakeFromQueue, Lengths
  <2>3. got' # Nothing
    BY <2>1, <2>2, UartAssumption DEF Chars
  <2>4. read' = got' /\ ier' = ier /\ pc' = [pc EXCEPT ![t] = "user"]
    BY <2>3 DEF Poll, GoTo
  <2>5. TypeOK'
    <3>1. Len(rx') <= BufferSize
      BY <2>2, Lengths, UartAssumption
    <3>2. pc' \in [Threads -> {"user", "load", "store", "wait"}]
      BY <2>4 DEF IInv, TypeOK
    <3> QED
      BY <1>1, <2>1, <2>2, <2>4, <3>1, <3>2 DEF IInv, TypeOK
  <2>6. read \in Chars /\ read' = After(read, 1)
    BY <2>1, <2>2, <2>4 DEF IInv, TypeOK, RxIntact
  <2>7. \A k \in 0..(Len(rx) + Len(fifo) - 1) : After(read', k) = After(read, k + 1)
    BY <2>2, <2>6, AfterAfter, Lengths, NumbersFacts
  <2>8. RxIntact'
    <3> SUFFICES ASSUME NEW i \in 1..(Len(rx) - 1) PROVE rx'[i] = After(read', i)
      BY <2>2 DEF RxIntact
    <3>1. rx'[i] = rx[i + 1] /\ i + 1 \in 1..Len(rx)
      BY <2>2
    <3>2. rx[i + 1] = After(read, i + 1)
      BY <3>1 DEF IInv, RxIntact
    <3>3. i \in 0..(Len(rx) + Len(fifo) - 1)
      BY <2>2, Lengths
    <3> QED
      BY <3>1, <3>2, <3>3, <2>7
  <2>9. FifoIntact'
    <3> SUFFICES ASSUME NEW i \in 1..Len(fifo) PROVE fifo[i] = After(read', (Len(rx) - 1) + i)
      BY <1>1, <2>2 DEF FifoIntact
    <3>1. /\ (Len(rx) - 1) + i \in 0..(Len(rx) + Len(fifo) - 1)
          /\ (Len(rx) - 1) + i + 1 = Len(rx) + i
      BY <2>2, Lengths
    <3> QED
      BY <3>1, <2>7 DEF IInv, FifoIntact
  <2>10. TypedIntact'
    <3>1. /\ (Len(rx) - 1) + Len(fifo) \in 0..(Len(rx) + Len(fifo) - 1)
          /\ (Len(rx) - 1) + Len(fifo) + 1 = Len(rx) + Len(fifo)
      BY <2>2, Lengths
    <3> QED
      BY <1>1, <2>2, <2>7, <3>1 DEF IInv, TypedIntact
  <2> QED
    BY <2>5, <2>8, <2>9, <2>10 DEF IInv
<1> QED
  BY <1>2, <1>3

LEMMA IInvSendInterrupt == ASSUME IInv, SendInterrupt PROVE IInv'
<1>1. <<>> \in Seq(Chars) /\ Len(<<>>) = 0
  BY EmptySeq
<1>2. TypeOK'
  BY <1>1, UartAssumption DEF IInv, SendInterrupt, TypeOK
<1> QED
  BY <1>2, OutputKeepsInput DEF SendInterrupt

\* A character moves from the device to the end of the buffer, or stays where it is.
LEMMA IInvReceiveInterrupt == ASSUME IInv, ReceiveInterrupt PROVE IInv'
<1>1. fifo # <<>> /\ ier' = {} /\ UNCHANGED <<tx, pc, loaded, typed, printed, read>>
  BY DEF ReceiveInterrupt
<1>2. CASE Len(rx) = BufferSize
  <2>1. UNCHANGED <<rx, fifo, got>>
    BY <1>2 DEF ReceiveInterrupt
  <2>2. TypeOK'
    BY <1>1, <2>1 DEF IInv, TypeOK
  <2> QED
    BY <1>1, <2>1, <2>2, OutputKeepsInput
<1>3. CASE Len(rx) # BufferSize
  <2>1. /\ rx' = Append(IF Len(rx) = BufferSize THEN Tail(rx) ELSE rx, Head(fifo))
        /\ got' = got /\ fifo' = Tail(fifo)
    BY <1>3 DEF ReceiveInterrupt, Rx!Put
  <2>2. /\ Head(fifo) \in Chars /\ Head(fifo) = fifo[1] /\ fifo' \in Seq(Chars)
        /\ Len(fifo) \in Nat \ {0} /\ Len(fifo') = Len(fifo) - 1
        /\ \A i \in 1..(Len(fifo) - 1) : fifo'[i] = fifo[i + 1]
    BY <1>1, <2>1, TakeFromQueue, Lengths
  <2>3. /\ rx' \in Seq(Chars) /\ Len(rx') <= BufferSize
        /\ Len(rx') = Len(rx) + 1 /\ rx'[Len(rx) + 1] = fifo[1]
        /\ \A i \in 1..Len(rx) : rx'[i] = rx[i]
    <3>1. rx \in Seq(Chars) /\ Len(rx) <= BufferSize
      BY Lengths
    <3>2. Head(fifo) \in Chars
      BY <2>2
    <3> QED
      BY <1>3, <2>2, <2>1, <3>1, <3>2, PutIntoQueue
  <2>4. TypeOK'
    <3>1. Len(fifo') <= FifoSize
      BY <2>2, Lengths, UartAssumption
    <3>2. /\ got' = got /\ ier' \subseteq {"tx", "rx"}
          /\ UNCHANGED <<tx, pc, loaded, typed, printed, read>>
      BY <1>1, <2>1
    <3> QED
      BY <2>2, <2>3, <3>1, <3>2 DEF IInv, TypeOK
  <2>5. RxIntact'
    <3> SUFFICES ASSUME NEW i \in 1..(Len(rx) + 1) PROVE rx'[i] = After(read, i)
      BY <1>1, <2>3 DEF RxIntact
    <3>1. CASE i \in 1..Len(rx)
      BY <2>3, <3>1 DEF IInv, RxIntact
    <3>2. CASE i = Len(rx) + 1
      BY <2>2, <2>3, <3>2 DEF IInv, FifoIntact
    <3> QED
      BY <3>1, <3>2, Lengths
  <2>6. FifoIntact'
    <3> SUFFICES ASSUME NEW i \in 1..(Len(fifo) - 1)
                 PROVE  fifo'[i] = After(read, (Len(rx) + 1) + i)
      BY <1>1, <2>2, <2>3 DEF FifoIntact
    <3>1. fifo'[i] = fifo[i + 1] /\ i + 1 \in 1..Len(fifo) /\ (Len(rx) + 1) + i = Len(rx) + (i + 1)
      BY <2>2, Lengths
    <3> QED
      BY <3>1 DEF IInv, FifoIntact
  <2>7. TypedIntact'
    <3>1. Len(rx') + Len(fifo') = Len(rx) + Len(fifo)
      BY <2>2, <2>3, Lengths
    <3> QED
      BY <1>1, <3>1 DEF IInv, TypedIntact
  <2> QED
    BY <2>4, <2>5, <2>6, <2>7 DEF IInv
<1> QED
  BY <1>2, <1>3

LEMMA IInvReceive == ASSUME IInv, Receive PROVE IInv'
<1>1. /\ Len(fifo) < FifoSize /\ typed' = Succ(typed) /\ fifo' = Append(fifo, typed')
      /\ UNCHANGED <<rx, tx, ier, pc, loaded, got, printed, read>>
  BY DEF Receive
<1>2. typed' = After(typed, 1) /\ typed' \in Chars
  BY <1>1, SuccIsAfter DEF IInv, TypeOK
<1>3. /\ fifo' \in Seq(Chars) /\ Len(fifo') = Len(fifo) + 1 /\ fifo'[Len(fifo) + 1] = typed'
      /\ \A i \in 1..Len(fifo) : fifo'[i] = fifo[i]
  BY <1>1, <1>2, AppendProperties, Lengths
<1>4. Len(rx) + Len(fifo) + 1 < Numbers /\ Len(fifo') <= FifoSize
  BY <1>1, <1>3, Lengths, UartAssumption
<1>5. TypeOK'
  BY <1>1, <1>2, <1>3, <1>4 DEF IInv, TypeOK
<1>6. typed' = After(read, Len(rx) + Len(fifo) + 1)
  <2>1. read \in Chars /\ typed = After(read, Len(rx) + Len(fifo))
    BY DEF IInv, TypeOK, TypedIntact
  <2>2. Len(rx) + Len(fifo) \in 0..(Numbers - 1) /\ 1 \in 0..(Numbers - 1)
    BY Lengths, NumbersFacts
  <2> QED
    BY <1>2, <1>4, <2>1, <2>2, AfterAfter
<1>7. RxIntact'
  BY <1>1 DEF IInv, RxIntact
<1>8. FifoIntact'
  <2> SUFFICES ASSUME NEW i \in 1..(Len(fifo) + 1) PROVE fifo'[i] = After(read, Len(rx) + i)
    BY <1>1, <1>3 DEF FifoIntact
  <2>1. CASE i \in 1..Len(fifo)
    BY <1>3, <2>1 DEF IInv, FifoIntact
  <2>2. CASE i = Len(fifo) + 1
    <3>1. Len(rx) + i = Len(rx) + Len(fifo) + 1
      BY <2>2, Lengths
    <3> QED
      BY <1>3, <1>6, <2>2, <3>1
  <2> QED
    BY <2>1, <2>2, Lengths
<1>9. TypedIntact'
  <2>1. Len(rx') + Len(fifo') = Len(rx) + Len(fifo) + 1
    BY <1>1, <1>3, Lengths
  <2> QED
    BY <1>1, <1>6, <2>1 DEF TypedIntact
<1> QED
  BY <1>5, <1>7, <1>8, <1>9 DEF IInv

LEMMA IInvInductive == IInv /\ [Next]_vars => IInv'
<1> SUFFICES ASSUME IInv, [Next]_vars PROVE IInv'
  OBVIOUS
<1>1. CASE Next
  BY <1>1, IInvPutc, IInvGetc, IInvPoll, IInvSendInterrupt, IInvReceiveInterrupt, IInvReceive
  DEF Next
<1>2. CASE UNCHANGED vars
  <2>1. TypeOK'
    BY <1>2 DEF vars, IInv, TypeOK
  <2> QED
    BY <1>2, <2>1, OutputKeepsInput DEF vars
<1> QED
  BY <1>1, <1>2

LEMMA IInvAlways == Spec => []IInv
  BY IInvInit, IInvInductive, PTL DEF Spec

LEMMA IInvImplies == IInv => InputIntact
<1> SUFFICES ASSUME IInv PROVE InputIntact
  OBVIOUS
<1> DEFINE all == rx \o fifo
<1>1. /\ Len(all) = Len(rx) + Len(fifo) /\ DOMAIN all = 1..Len(all)
      /\ \A i \in 1..Len(all) : all[i] = IF i <= Len(rx) THEN rx[i] ELSE fifo[i - Len(rx)]
  BY ConcatProperties, LenProperties, Lengths
<1>2. ASSUME NEW i \in 1..Len(all) PROVE all[i] = After(read, i)
  <2>1. CASE i <= Len(rx)
    BY <1>1, <2>1, Lengths DEF IInv, RxIntact
  <2>2. CASE ~(i <= Len(rx))
    <3>1. i - Len(rx) \in 1..Len(fifo) /\ Len(rx) + (i - Len(rx)) = i
      BY <1>1, <2>2, Lengths
    <3> QED
      BY <1>1, <2>2, <3>1 DEF IInv, FifoIntact
  <2> QED
    BY <2>1, <2>2
<1>3. typed = After(read, Len(all))
  BY <1>1 DEF IInv, TypedIntact
<1> QED
  BY <1>1, <1>2, <1>3 DEF InputIntact, After

(***************************************************************************)
(* The properties.                                                         *)
(***************************************************************************)
\* The queues stay within their buffers and hold characters, the IER its two bits.
THEOREM UartTypeCorrect == Spec => []TypeOK
<1>1. IInv => TypeOK
  BY DEF IInv
<1> QED
  BY <1>1, IInvAlways, PTL

\* No input is lost, repeated or reordered between the device and its readers, however many
\* they are and wherever they are preempted.
THEOREM UartInputIntact == Spec => []InputIntact
  BY IInvAlways, IInvImplies, PTL
===============================================================================
