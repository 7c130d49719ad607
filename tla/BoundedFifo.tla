----------------------------- MODULE BoundedFifo -----------------------------
(***************************************************************************)
(* What a ring buffer promises: a queue that keeps the last Capacity items *)
(* put into it, and gives them back in order.                              *)
(***************************************************************************)
EXTENDS Integers, Sequences

CONSTANTS Capacity, Items, Nothing, Indexes

VARIABLES
  queue,   \* the items, oldest first
  out      \* the answer to the last Get or Peek; Nothing if there was none

Init == queue = <<>> /\ out = Nothing

Put(c) ==
  /\ queue' = Append(IF Len(queue) = Capacity THEN Tail(queue) ELSE queue, c)
  /\ UNCHANGED out

Get ==
  \/ queue = <<>> /\ out' = Nothing /\ UNCHANGED queue
  \/ queue # <<>> /\ out' = Head(queue) /\ queue' = Tail(queue)

Peek(index) ==
  /\ out' = IF index < Len(queue) THEN queue[index + 1] ELSE Nothing
  /\ UNCHANGED queue

Next ==
  \/ \E c \in Items : Put(c)
  \/ Get
  \/ \E index \in Indexes : Peek(index)

Spec == Init /\ [][Next]_<<queue, out>>
===============================================================================
