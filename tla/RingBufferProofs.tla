--------------------------- MODULE RingBufferProofs ---------------------------
(***************************************************************************)
(* The ring buffer of every size is the bounded queue of BoundedFifo.      *)
(***************************************************************************)
EXTENDS RingBuffer, SequenceTheorems, TLAPS

LEMMA SizeFacts == Size \in Nat /\ Size > 1
  BY RingAssumption

\* A number in the range of the memory is its own remainder.
LEMMA WrapInside == ASSUME NEW i \in 0..(Size - 1) PROVE Wrap(i) = i
  BY SizeFacts DEF Wrap

\* One turn beyond the end of the memory.
LEMMA WrapAbove == ASSUME NEW i \in Size..(2 * Size - 1) PROVE Wrap(i) = i - Size
  BY SizeFacts DEF Wrap

\* One turn before the start of the memory.
LEMMA WrapBelow == ASSUME NEW i \in (-Size)..(-1) PROVE Wrap(i) = i + Size
  BY SizeFacts DEF Wrap

LEMMA WrapInSlots == ASSUME NEW i \in Int PROVE Wrap(i) \in Slots
  BY SizeFacts DEF Wrap, Slots

\* Every index stays inside the memory and every slot holds a byte.
THEOREM RingTypeCorrect == Spec => []TypeOK
<1>1. Init => TypeOK
  BY SizeFacts DEF Init, TypeOK, Slots
<1>2. TypeOK /\ [Next]_vars => TypeOK'
  <2> SUFFICES ASSUME TypeOK, [Next]_vars PROVE TypeOK'
    OBVIOUS
  <2>0. head \in Int /\ tail \in Int
    BY SizeFacts DEF TypeOK, Slots
  <2>1. ASSUME NEW c \in Chars, Enqueue(c) PROVE TypeOK'
    <3>1. tail' \in Slots
      BY <2>0, <2>1, WrapInSlots DEF Enqueue, TypeOK
    <3>2. head' \in Slots
      BY <2>0, <2>1, WrapInSlots DEF Enqueue
    <3> QED
      BY <2>1, <3>1, <3>2 DEF Enqueue, TypeOK
  <2>2. CASE Dequeue
    <3>1. tail' \in Slots
      BY <2>0, <2>2, WrapInSlots DEF Dequeue, TypeOK
    <3> QED
      BY <2>2, <3>1 DEF Dequeue, TypeOK
  <2>3. ASSUME NEW index \in Indexes, Get(index) PROVE TypeOK'
    <3>1. Wrap(tail + index) \in Slots
      BY <2>0, WrapInSlots, RingAssumption
    <3> QED
      BY <2>3, <3>1 DEF Get, TypeOK
  <2>4. CASE UNCHANGED vars
    BY <2>4 DEF vars, TypeOK
  <2> QED
    BY <2>1, <2>2, <2>3, <2>4 DEF Next
<1> QED
  BY <1>1, <1>2, PTL DEF Spec

-------------------------------------------------------------------------------
(* The number of bytes, and where they are. *)

LEMMA CountIs ==
  ASSUME NEW h \in Slots, NEW t \in Slots
  PROVE  Wrap(h - t) = IF h >= t THEN h - t ELSE h - t + Size
<1>1. CASE h >= t
  BY <1>1, SizeFacts, WrapInside DEF Slots
<1>2. CASE h < t
  BY <1>2, SizeFacts, WrapBelow DEF Slots
<1> QED
  BY <1>1, <1>2, SizeFacts DEF Slots

LEMMA SlotIs ==
  ASSUME NEW t \in Slots, NEW k \in 0..(Size - 1)
  PROVE  Wrap(t + k) = IF t + k < Size THEN t + k ELSE t + k - Size
<1>1. CASE t + k < Size
  BY <1>1, SizeFacts, WrapInside DEF Slots
<1>2. CASE t + k >= Size
  BY <1>2, SizeFacts, WrapAbove DEF Slots
<1> QED
  BY <1>1, <1>2, SizeFacts DEF Slots

\* The contents are a sequence of bytes of length Count.
LEMMA ContentsSeq ==
  ASSUME TypeOK
  PROVE  /\ Count \in 0..(Size - 1)
         /\ Contents \in Seq(Chars)
         /\ Len(Contents) = Count
         /\ \A i \in 1..Count : Contents[i] = buffer[Wrap(tail + i - 1)]
<1>1. Count \in 0..(Size - 1)
  BY SizeFacts, WrapInSlots DEF Count, TypeOK, Slots
<1>2. \A i \in 1..Count : buffer[Wrap(tail + i - 1)] \in Chars
  <2> TAKE i \in 1..Count
  <2>1. tail + i - 1 \in Int
    BY <1>1, SizeFacts DEF TypeOK, Slots
  <2> QED
    BY <2>1, WrapInSlots DEF TypeOK
<1> QED
  BY <1>1, <1>2 DEF Contents

\* A write at head touches no byte of the contents.
LEMMA HeadIsOutside ==
  ASSUME TypeOK, NEW i \in 1..Count
  PROVE  Wrap(tail + i - 1) # head
<1>1. Count = IF head >= tail THEN head - tail ELSE head - tail + Size
  BY CountIs DEF Count, TypeOK
<1>2. i - 1 \in 0..(Size - 1) /\ tail + (i - 1) = tail + i - 1
  BY <1>1, SizeFacts DEF TypeOK, Slots
<1>3. Wrap(tail + i - 1) = IF tail + (i - 1) < Size THEN tail + (i - 1) ELSE tail + (i - 1) - Size
  BY <1>2, SlotIs DEF TypeOK
<1> QED
  BY <1>1, <1>3, SizeFacts DEF TypeOK, Slots

-------------------------------------------------------------------------------
(* Each operation is the operation of the queue. *)

LEMMA WrapNext ==
  ASSUME NEW t \in Slots, NEW k \in 0..(Size - 2)
  PROVE  Wrap(Wrap(t + 1) + k) = Wrap(t + (k + 1))
<1>1. 1 \in 0..(Size - 1) /\ k \in 0..(Size - 1) /\ k + 1 \in 0..(Size - 1)
  BY SizeFacts
<1>2. Wrap(t + 1) \in Slots
  BY SizeFacts, WrapInSlots DEF Slots
<1>3. Wrap(t + 1) = IF t + 1 < Size THEN t + 1 ELSE t + 1 - Size
  BY <1>1, SlotIs
<1>4. Wrap(Wrap(t + 1) + k) =
        IF Wrap(t + 1) + k < Size THEN Wrap(t + 1) + k ELSE Wrap(t + 1) + k - Size
  BY <1>1, <1>2, SlotIs
<1>5. Wrap(t + (k + 1)) = IF t + (k + 1) < Size THEN t + (k + 1) ELSE t + (k + 1) - Size
  BY <1>1, SlotIs
<1> QED
  BY <1>3, <1>4, <1>5, SizeFacts DEF Slots

\* The slot behind the last byte is the one at head.
LEMMA EndIsHead ==
  ASSUME TypeOK
  PROVE  Wrap(tail + Count) = head
<1>1. Count = IF head >= tail THEN head - tail ELSE head - tail + Size
  BY CountIs DEF Count, TypeOK
<1>2. Count \in 0..(Size - 1)
  BY ContentsSeq
<1>3. Wrap(tail + Count) = IF tail + Count < Size THEN tail + Count ELSE tail + Count - Size
  BY <1>2, SlotIs DEF TypeOK
<1> QED
  BY <1>1, <1>3, SizeFacts DEF TypeOK, Slots

\* What Append gives, position by position.
LEMMA AppendIs ==
  ASSUME NEW s \in Seq(Chars), NEW c \in Chars, NEW n \in Nat, n = Len(s) + 1
  PROVE  Append(s, c) = [i \in 1..n |-> IF i < n THEN s[i] ELSE c]
<1>1. /\ Append(s, c) \in Seq(Chars) /\ Len(Append(s, c)) = n
      /\ \A i \in 1..Len(s) : Append(s, c)[i] = s[i]
      /\ Append(s, c)[n] = c
  BY AppendProperties
<1>2. Append(s, c) = [i \in 1..n |-> Append(s, c)[i]]
  BY <1>1, LenProperties
<1>3. ASSUME NEW i \in 1..n PROVE Append(s, c)[i] = IF i < n THEN s[i] ELSE c
  BY <1>1, LenProperties
<1> QED
  BY <1>2, <1>3

\* What Tail gives, position by position.
LEMMA TailIs ==
  ASSUME NEW s \in Seq(Chars), s # << >>
  PROVE  Tail(s) = [i \in 1..(Len(s) - 1) |-> s[i + 1]]
<1>1. /\ Tail(s) \in Seq(Chars) /\ Len(Tail(s)) = Len(s) - 1
      /\ \A i \in 1..Len(Tail(s)) : Tail(s)[i] = s[i + 1]
  BY HeadTailProperties
<1>2. Tail(s) = [i \in 1..(Len(s) - 1) |-> Tail(s)[i]]
  BY <1>1, LenProperties
<1> QED
  BY <1>1, <1>2

LEMMA EnqueuePuts ==
  ASSUME TypeOK, TypeOK', NEW c \in Chars, Enqueue(c)
  PROVE  Fifo!Put(c)
<1>1. /\ Count = IF head >= tail THEN head - tail ELSE head - tail + Size
      /\ Count' = IF head' >= tail' THEN head' - tail' ELSE head' - tail' + Size
      /\ head' = IF head + 1 < Size THEN head + 1 ELSE head + 1 - Size
  <2>1. 1 \in 0..(Size - 1)
    BY SizeFacts
  <2> QED
    BY <2>1, CountIs, SlotIs DEF Count, TypeOK, Enqueue
<1>2. /\ Count \in 0..(Size - 1) /\ Count' \in 0..(Size - 1)
      /\ Len(Contents) = Count /\ Contents \in Seq(Chars)
  <2>1. Count' \in 0..(Size - 1)
    <3>1. head' \in 0..(Size - 1) /\ tail' \in 0..(Size - 1)
      BY DEF TypeOK, Slots
    <3> QED
      BY <1>1, <3>1, SizeFacts
  <2> QED
    BY <2>1, ContentsSeq
<1>3. Contents' = [i \in 1..Count' |-> buffer'[Wrap(tail' + i - 1)]]
  BY DEF Contents
<1>4. CASE ~IsFull
  <2>1. tail' = tail /\ Count' = Count + 1
    BY <1>1, <1>4, SizeFacts DEF Enqueue, IsFull, TypeOK, Slots
  <2>2. ASSUME NEW i \in 1..(Count + 1)
        PROVE  buffer'[Wrap(tail + i - 1)] = IF i <= Count THEN Contents[i] ELSE c
    <3>1. CASE i <= Count
      <4>1. i \in 1..Count
        BY <3>1, <1>2
      <4>2. Wrap(tail + i - 1) # head
        BY <4>1, HeadIsOutside
      <4>3. tail + i - 1 \in Int
        BY <1>2 DEF TypeOK, Slots
      <4>4. Contents[i] = buffer[Wrap(tail + i - 1)]
        BY <4>1 DEF Contents
      <4> QED
        BY <3>1, <4>2, <4>3, <4>4, WrapInSlots DEF Enqueue, TypeOK
    <3>2. CASE i = Count + 1
      <4>1. tail + i - 1 = tail + Count
        BY <3>2, <1>2 DEF TypeOK, Slots
      <4>2. Wrap(tail + i - 1) = head
        BY <4>1, EndIsHead
      <4> QED
        BY <3>2, <4>2, <1>2 DEF Enqueue, TypeOK
    <3> QED
      BY <3>1, <3>2, <1>2
  <2>3. Contents' = [i \in 1..(Count + 1) |-> IF i <= Count THEN Contents[i] ELSE c]
    BY <1>3, <2>1, <2>2
  <2>4. Contents' = Append(Contents, c)
    <3>1. Append(Contents, c) =
            [i \in 1..(Count + 1) |-> IF i < Count + 1 THEN Contents[i] ELSE c]
      BY <1>2, AppendIs
    <3>2. \A i \in 1..(Count + 1) : (i < Count + 1) <=> (i <= Count)
      BY <1>2
    <3> QED
      BY <2>3, <3>1, <3>2
  <2>5. Len(Contents) # Size - 1
    BY <1>2, <1>4 DEF IsFull
  <2> QED
    BY <2>4, <2>5 DEF Fifo!Put, Enqueue
<1>5. CASE IsFull
  <2>1. tail' = Wrap(tail + 1) /\ Count = Size - 1
    BY <1>5 DEF Enqueue, IsFull
  <2>2. tail' = IF tail + 1 < Size THEN tail + 1 ELSE tail + 1 - Size
    <3>1. 1 \in 0..(Size - 1)
      BY SizeFacts
    <3> QED
      BY <2>1, <3>1, SlotIs DEF TypeOK
  <2>3. Count' = Count
    BY <1>1, <2>1, <2>2, SizeFacts DEF TypeOK, Slots
  <2>4. ASSUME NEW i \in 1..Count
        PROVE  buffer'[Wrap(tail' + i - 1)] = IF i < Count THEN Contents[i + 1] ELSE c
    <3>1. /\ i - 1 \in 0..(Size - 2) /\ tail' + (i - 1) = tail' + i - 1
          /\ tail + ((i - 1) + 1) = tail + i /\ tail + i = tail + (i + 1) - 1
      BY <2>1, <1>2, SizeFacts DEF TypeOK, Slots
    <3>2. Wrap(tail' + i - 1) = Wrap(tail + i)
      BY <2>1, <3>1, WrapNext DEF TypeOK
    <3>3. CASE i < Count
      <4>1. i + 1 \in 1..Count
        BY <3>3, <1>2
      <4>2. Wrap(tail + i) # head
        BY <4>1, <3>1, HeadIsOutside
      <4>3. Contents[i + 1] = buffer[Wrap(tail + i)]
        BY <4>1, <3>1 DEF Contents
      <4>4. tail + i \in Int
        BY <1>2 DEF TypeOK, Slots
      <4> QED
        BY <3>2, <3>3, <4>2, <4>3, <4>4, WrapInSlots DEF Enqueue, TypeOK
    <3>4. CASE i = Count
      <4>1. Wrap(tail + i) = head
        BY <3>4, EndIsHead
      <4> QED
        BY <3>2, <3>4, <4>1, <1>2 DEF Enqueue, TypeOK
    <3> QED
      BY <3>3, <3>4, <1>2
  <2>5. Contents' = [i \in 1..Count |-> IF i < Count THEN Contents[i + 1] ELSE c]
    BY <1>3, <2>3, <2>4
  <2>6. /\ Tail(Contents) \in Seq(Chars) /\ Len(Tail(Contents)) = Count - 1
        /\ \A i \in 1..(Count - 1) : Tail(Contents)[i] = Contents[i + 1]
    <3>1. Contents # << >>
      BY <1>2, <2>1, SizeFacts
    <3> QED
      BY <3>1, <1>2, HeadTailProperties
  <2>7. Append(Tail(Contents), c) =
          [i \in 1..Count |-> IF i < Count THEN Contents[i + 1] ELSE c]
    <3>1. Append(Tail(Contents), c) =
            [i \in 1..Count |-> IF i < Count THEN Tail(Contents)[i] ELSE c]
      <4>1. Count \in Nat /\ Count = Len(Tail(Contents)) + 1
        BY <2>6, <1>2, <2>1, SizeFacts
      <4> QED
        BY <4>1, <2>6, AppendIs
    <3>2. \A i \in 1..Count : i < Count => Tail(Contents)[i] = Contents[i + 1]
      BY <2>6, <1>2
    <3> QED
      BY <3>1, <3>2
  <2> QED
    BY <2>5, <2>7, <2>1, <1>2 DEF Fifo!Put, Enqueue
<1> QED
  BY <1>4, <1>5

LEMMA DequeueGets ==
  ASSUME TypeOK, TypeOK', Dequeue
  PROVE  Fifo!Get
<1>1. /\ Count = IF head >= tail THEN head - tail ELSE head - tail + Size
      /\ Count' = IF head' >= tail' THEN head' - tail' ELSE head' - tail' + Size
  BY CountIs DEF Count, TypeOK
<1>2. /\ Count \in 0..(Size - 1) /\ Len(Contents) = Count /\ Contents \in Seq(Chars)
  BY ContentsSeq
<1>3. CASE IsEmpty
  <2>1. Count = 0
    BY <1>1, <1>3, SizeFacts DEF IsEmpty, TypeOK, Slots
  <2>2. Contents = << >>
    BY <1>2, <2>1
  <2>3. Contents' = Contents
    BY <1>3 DEF Dequeue, Contents, Count
  <2> QED
    BY <1>3, <2>2, <2>3 DEF Dequeue, Fifo!Get
<1>4. CASE ~IsEmpty
  <2>1. Count \in 1..(Size - 1)
    BY <1>1, <1>2, <1>4, SizeFacts DEF IsEmpty, TypeOK, Slots
  <2>2. Contents # << >>
    BY <1>2, <2>1
  <2>3. /\ tail' = Wrap(tail + 1) /\ head' = head /\ buffer' = buffer
        /\ out' = buffer[tail]
    BY <1>4 DEF Dequeue
  <2>4. tail' = IF tail + 1 < Size THEN tail + 1 ELSE tail + 1 - Size
    <3>1. 1 \in 0..(Size - 1)
      BY SizeFacts
    <3> QED
      BY <2>3, <3>1, SlotIs DEF TypeOK
  <2>5. Count' = Count - 1
    <3>1. /\ head \in 0..(Size - 1) /\ tail \in 0..(Size - 1)
          /\ head' = head /\ head # tail
      BY <1>4, <2>3 DEF IsEmpty, TypeOK, Slots
    <3> QED
      BY <1>1, <2>4, <3>1, SizeFacts
  <2>6. Head(Contents) = buffer[tail]
    <3>1. Wrap(tail + 1 - 1) = tail
      BY SizeFacts, WrapInside DEF TypeOK, Slots
    <3> QED
      BY <2>1, <2>2, <1>2, <3>1, HeadTailProperties DEF Contents
  <2>7. ASSUME NEW i \in 1..(Count - 1)
        PROVE  buffer[Wrap(tail' + i - 1)] = Contents[i + 1]
    <3>1. /\ i - 1 \in 0..(Size - 2) /\ tail' + (i - 1) = tail' + i - 1
          /\ tail + ((i - 1) + 1) = tail + (i + 1) - 1 /\ i + 1 \in 1..Count
      BY <2>1, SizeFacts DEF TypeOK, Slots
    <3>2. Wrap(tail' + i - 1) = Wrap(tail + (i + 1) - 1)
      BY <2>3, <3>1, WrapNext DEF TypeOK
    <3> QED
      BY <3>1, <3>2 DEF Contents
  <2>8. Contents' = [i \in 1..(Count - 1) |-> Contents[i + 1]]
    <3>1. Contents' = [i \in 1..Count' |-> buffer'[Wrap(tail' + i - 1)]]
      BY DEF Contents
    <3> QED
      BY <3>1, <2>3, <2>5, <2>7
  <2>9. Tail(Contents) = [i \in 1..(Count - 1) |-> Contents[i + 1]]
    BY <1>2, <2>2, TailIs
  <2> QED
    BY <2>2, <2>3, <2>6, <2>8, <2>9 DEF Fifo!Get
<1> QED
  BY <1>3, <1>4

LEMMA GetPeeks ==
  ASSUME TypeOK, NEW index \in Indexes, Get(index)
  PROVE  Fifo!Peek(index)
<1>1. Count \in 0..(Size - 1) /\ Len(Contents) = Count
  BY ContentsSeq
<1>2. index \in Nat
  BY RingAssumption
<1>3. Contents' = Contents
  BY DEF Get, Contents, Count
<1>4. out' = IF index < Len(Contents) THEN Contents[index + 1] ELSE Nothing
  <2>1. CASE index >= Count
    BY <2>1, <1>1, <1>2 DEF Get
  <2>2. CASE index < Count
    <3>1. index + 1 \in 1..Count /\ tail + (index + 1) - 1 = tail + index
      BY <2>2, <1>1, <1>2, SizeFacts DEF TypeOK, Slots
    <3>2. Contents[index + 1] = buffer[Wrap(tail + index)]
      BY <3>1 DEF Contents
    <3> QED
      BY <2>2, <1>1, <1>2, <3>2 DEF Get
  <2> QED
    BY <2>1, <2>2, <1>1, <1>2
<1> QED
  BY <1>3, <1>4 DEF Fifo!Peek

\* The ring buffer of every size is the queue of size - 1 bytes that drops the oldest.
THEOREM RingIsBoundedFifo == Spec => IsBoundedFifo
<1>1. Init => Fifo!Init
  <2> SUFFICES ASSUME Init PROVE Fifo!Init
    OBVIOUS
  <2>1. TypeOK /\ head = 0 /\ tail = 0
    BY SizeFacts DEF Init, TypeOK, Slots
  <2>2. Count = 0
    BY <2>1, CountIs DEF Count, TypeOK
  <2>3. Len(Contents) = 0 /\ Contents \in Seq(Chars)
    BY <2>1, <2>2, ContentsSeq
  <2> QED
    BY <2>3 DEF Init, Fifo!Init
<1>2. TypeOK /\ TypeOK' /\ [Next]_vars => [Fifo!Next]_<<Contents, out>>
  <2> SUFFICES ASSUME TypeOK, TypeOK', [Next]_vars
               PROVE  [Fifo!Next]_<<Contents, out>>
    OBVIOUS
  <2>1. ASSUME NEW c \in Chars, Enqueue(c) PROVE Fifo!Next
    BY <2>1, EnqueuePuts DEF Fifo!Next
  <2>2. CASE Dequeue
    BY <2>2, DequeueGets DEF Fifo!Next
  <2>3. ASSUME NEW index \in Indexes, Get(index) PROVE Fifo!Next
    BY <2>3, GetPeeks DEF Fifo!Next
  <2>4. CASE UNCHANGED vars
    BY <2>4 DEF vars, Contents, Count
  <2> QED
    BY <2>1, <2>2, <2>3, <2>4 DEF Next
<1> QED
  BY <1>1, <1>2, RingTypeCorrect, PTL DEF Spec, IsBoundedFifo, Fifo!Spec
===============================================================================
