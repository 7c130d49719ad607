-------------------------------- MODULE Uart --------------------------------
(***************************************************************************)
(* The interrupt-driven mini UART (drivers/mini_uart.c): threads that read *)
(* and write characters, the interrupt-enable register (IER), and the      *)
(* interrupt that moves characters between two ring buffers and the        *)
(* device.  The ring buffers are the queues BoundedFifo describes, which   *)
(* RingBuffer is proved to implement.                                      *)
(*                                                                         *)
(* Any thread may be preempted between two of its steps.  irq_handle()     *)
(* masks both directions and runs uart_irq_handle() before anything else   *)
(* (Interrupts), so an interrupt is one step.  Characters are numbered in  *)
(* the order they are typed or printed, modulo Numbers.                    *)
(***************************************************************************)
EXTENDS Integers, Sequences

CONSTANTS
  Threads,
  Nothing,
  BufferSize,   \* what a ring buffer holds: UART_BUFFER_SIZE - 1
  FifoSize,     \* the receive FIFO of the device
  Numbers       \* more than a buffer and the FIFO hold together

ASSUME UartAssumption ==
  /\ BufferSize \in Nat \ {0} /\ FifoSize \in Nat \ {0}
  /\ Numbers \in Nat /\ Numbers > BufferSize + FifoSize
  /\ Nothing \notin 0..(Numbers - 1)

VARIABLES
  rx,       \* uart_rx_buffer
  tx,       \* uart_tx_buffer
  ier,      \* the interrupts that are enabled
  fifo,     \* characters the device has received
  pc,       \* where each thread is
  loaded,   \* what it has loaded from the IER
  got,      \* what the last ring_buffer_dequeue gave
  typed, printed, read   \* the numbers of the last characters

vars == <<rx, tx, ier, fifo, pc, loaded, got, typed, printed, read>>

Chars == 0..(Numbers - 1)
Succ(n) == (n + 1) % Numbers

Rx == INSTANCE BoundedFifo
  WITH Capacity <- BufferSize, Items <- Chars, Indexes <- {}, queue <- rx, out <- got
Tx == INSTANCE BoundedFifo
  WITH Capacity <- BufferSize, Items <- Chars, Indexes <- {}, queue <- tx, out <- got

GoTo(t, from, to) == pc[t] = from /\ pc' = [pc EXCEPT ![t] = to]

(***************************************************************************)
(* uart_async_putc: the character is queued in a critical section, the IER *)
(* is read and written after it.                                           *)
(***************************************************************************)
Queue(t, from, to) ==
  /\ GoTo(t, from, to)
  /\ printed' = Succ(printed)
  /\ Tx!Put(printed')
  /\ UNCHANGED <<rx, ier, fifo, loaded, typed, read>>

Load(t, from, to) ==
  /\ GoTo(t, from, to)
  /\ loaded' = [loaded EXCEPT ![t] = ier]
  /\ UNCHANGED <<rx, tx, ier, fifo, got, typed, printed, read>>

Store(t, from, to) ==
  /\ GoTo(t, from, to)
  /\ ier' = loaded[t] \cup {"tx"}
  /\ UNCHANGED <<rx, tx, fifo, loaded, got, typed, printed, read>>

\* mutant: the interrupt is enabled first
PutcEnableFirst(t) ==
  \/ Load(t, "user", "store")
  \/ Store(t, "store", "load")
  \/ Queue(t, "load", "user")

Putc(t) ==
  \/ Queue(t, "user", "load")
  \/ Load(t, "load", "store")
  \/ Store(t, "store", "user")

(***************************************************************************)
(* uart_async_getc polls: an empty buffer enables the interrupt again.     *)
(***************************************************************************)
Getc(t) ==
  /\ GoTo(t, "user", "wait")
  /\ UNCHANGED <<rx, tx, ier, fifo, loaded, got, typed, printed, read>>

\* mutant: an empty buffer enables nothing
PollBlind(t) ==
  /\ pc[t] = "wait"
  /\ Rx!Get
  /\ IF got' = Nothing
     THEN UNCHANGED <<pc, ier, read>>
     ELSE GoTo(t, "wait", "user") /\ read' = got' /\ UNCHANGED ier
  /\ UNCHANGED <<tx, fifo, loaded, typed, printed>>

Poll(t) ==
  /\ pc[t] = "wait"
  /\ Rx!Get
  /\ IF got' = Nothing
     THEN ier' = ier \cup {"rx"} /\ UNCHANGED <<pc, read>>
     ELSE GoTo(t, "wait", "user") /\ read' = got' /\ UNCHANGED ier
  /\ UNCHANGED <<tx, fifo, loaded, typed, printed>>

(***************************************************************************)
(* The interrupt: irq_handle() masks both directions, uart_irq_handle()    *)
(* serves one and enables nothing.                                         *)
(***************************************************************************)
SendInterrupt ==
  /\ "tx" \in ier
  /\ ier' = {}
  /\ tx' = <<>>
  /\ UNCHANGED <<rx, fifo, pc, loaded, got, typed, printed, read>>

\* mutant: a full buffer is not noticed
ReceiveOverwriting ==
  /\ "rx" \in ier /\ fifo # <<>>
  /\ ier' = {}
  /\ Rx!Put(Head(fifo)) /\ fifo' = Tail(fifo)
  /\ UNCHANGED <<tx, pc, loaded, typed, printed, read>>

\* a full buffer leaves the character where it is
ReceiveInterrupt ==
  /\ "rx" \in ier /\ fifo # <<>>
  /\ ier' = {}
  /\ IF Len(rx) = BufferSize
     THEN UNCHANGED <<rx, fifo, got>>
     ELSE Rx!Put(Head(fifo)) /\ fifo' = Tail(fifo)
  /\ UNCHANGED <<tx, pc, loaded, typed, printed, read>>

\* The device; what is typed while its FIFO is full was never received.
Receive ==
  /\ Len(fifo) < FifoSize
  /\ typed' = Succ(typed)
  /\ fifo' = Append(fifo, typed')
  /\ UNCHANGED <<rx, tx, ier, pc, loaded, got, printed, read>>

Init ==
  /\ rx = <<>> /\ tx = <<>> /\ ier = {} /\ fifo = <<>>
  /\ pc = [t \in Threads |-> "user"]
  /\ loaded = [t \in Threads |-> {}]
  /\ got = Nothing
  /\ typed = 0 /\ printed = 0 /\ read = 0

Next ==
  \/ \E t \in Threads : Putc(t) \/ Getc(t) \/ Poll(t)
  \/ SendInterrupt \/ ReceiveInterrupt \/ Receive

\* Threads run again and again (Sched), and an interrupt that is possible again and again
\* is taken.  Nobody has to read, print or type.
Fairness ==
  /\ \A t \in Threads : WF_vars(Poll(t)) /\ WF_vars(pc[t] # "user" /\ Putc(t))
  /\ SF_vars(SendInterrupt) /\ SF_vars(ReceiveInterrupt)

Spec == Init /\ [][Next]_vars /\ Fairness

(***************************************************************************)
(* Properties                                                              *)
(***************************************************************************)
TypeOK ==
  /\ {rx, tx, fifo} \subseteq Seq(Chars)
  /\ Len(rx) <= BufferSize /\ Len(tx) <= BufferSize /\ Len(fifo) <= FifoSize
  /\ ier \subseteq {"rx", "tx"}
  /\ pc \in [Threads -> {"user", "load", "store", "wait"}]
  /\ loaded \in [Threads -> SUBSET {"rx", "tx"}]
  /\ got \in Chars \cup {Nothing}
  /\ {typed, printed, read} \subseteq Chars

\* The kernel loses, repeats and reorders no character the device has received, although
\* a ring buffer overwrites when it is full: between the last character read and the last
\* one typed, all are in the buffer or still in the device.
InputIntact ==
  LET all == rx \o fifo
  IN  /\ \A i \in DOMAIN all : all[i] = (read + i) % Numbers
      /\ typed = (read + Len(all)) % Numbers

\* When somebody waits for a character and there is one, one is delivered, although output
\* masks the receive interrupt and a writer that was preempted between reading and writing
\* the IER may take it away again.
ReaderServed ==
  \A n \in Chars :
    (read = n /\ rx \o fifo # <<>> /\ \E t \in Threads : pc[t] = "wait") ~> read # n

\* As long as nothing is typed, output leaves (with input it may not, see OutputLeaves).
OutputLeavesAlone == [](fifo = <<>>) => (tx # <<>> ~> tx = <<>>)

\* Output leaves.
OutputLeaves == tx # <<>> ~> tx = <<>>
=============================================================================
