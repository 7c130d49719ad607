------------------------------ MODULE RingBuffer ------------------------------
(***************************************************************************)
(* The byte ring buffer of the UART driver (src/ringbuffer.c,              *)
(* include/ringbuffer.h).  One slot always stays empty; a byte put into a  *)
(* full buffer overwrites the oldest one.                                  *)
(***************************************************************************)
EXTENDS Integers, Sequences

CONSTANTS
  Size,      \* buf_size, a power of two
  Chars,     \* what is stored
  Nothing,   \* no answer
  Indexes    \* indexes ring_buffer_get is called with

ASSUME RingAssumption ==
  /\ Size \in Nat /\ Size > 1
  /\ \E k \in 1..Size : Size = 2^k
  /\ Nothing \notin Chars
  /\ Indexes \subseteq Nat

VARIABLES
  buffer,   \* the memory
  head,     \* head_index: where the next byte goes
  tail,     \* tail_index: the oldest byte
  out       \* what the last ring_buffer_dequeue or ring_buffer_get delivered

vars == <<buffer, head, tail, out>>

Slots == 0..(Size - 1)

\* `& buffer_mask`
Wrap(i) == i % Size

Count == Wrap(head - tail)

\* mutant: the buffer is taken to hold Size bytes
IsFullLate == Count = Size

IsFull == Count = Size - 1

IsEmpty == head = tail

Init ==
  /\ buffer \in [Slots -> Chars]
  /\ head = 0 /\ tail = 0
  /\ out = Nothing

\* mutant: head is not wrapped
EnqueueUnwrapped(c) ==
  /\ tail' = IF IsFull THEN Wrap(tail + 1) ELSE tail
  /\ buffer' = [buffer EXCEPT ![head] = c]
  /\ head' = head + 1
  /\ UNCHANGED out

Enqueue(c) ==
  /\ tail' = IF IsFull THEN Wrap(tail + 1) ELSE tail
  /\ buffer' = [buffer EXCEPT ![head] = c]
  /\ head' = Wrap(head + 1)
  /\ UNCHANGED out

Dequeue ==
  /\ IF IsEmpty
     THEN out' = Nothing /\ UNCHANGED tail
     ELSE out' = buffer[tail] /\ tail' = Wrap(tail + 1)
  /\ UNCHANGED <<buffer, head>>

Get(index) ==
  /\ out' = IF index >= Count THEN Nothing ELSE buffer[Wrap(tail + index)]
  /\ UNCHANGED <<buffer, head, tail>>

Next ==
  \/ \E c \in Chars : Enqueue(c)
  \/ Dequeue
  \/ \E index \in Indexes : Get(index)

Spec == Init /\ [][Next]_vars

(***************************************************************************)
(* Properties.                                                             *)
(***************************************************************************)
\* Every variable keeps its type; the indexes stay inside the memory.
TypeOK ==
  /\ buffer \in [Slots -> Chars]
  /\ head \in Slots /\ tail \in Slots
  /\ out \in Chars \cup {Nothing}

\* the bytes between tail and head, across the end of the memory
Contents == [i \in 1..Count |-> buffer[Wrap(tail + i - 1)]]

\* The buffer is a queue of Size - 1 bytes that drops the oldest when it is full
\* (ringbuffer.h:35: "The resulting buffer can contain buf_size-1 bytes").
Fifo == INSTANCE BoundedFifo
  WITH Capacity <- Size - 1, Items <- Chars, queue <- Contents

IsBoundedFifo == Fifo!Spec
===============================================================================
