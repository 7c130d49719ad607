------------------------------ MODULE Signals -------------------------------
(***************************************************************************)
(* POSIX signals (kernel/signal.c; sys_signal, sys_sigkill, sys_sigreturn, *)
(* sys_fork and sys_exec in kernel/syscall.c; the end of every exception   *)
(* in exception/exception.c).                                              *)
(*                                                                         *)
(* Each process alternates between user code and the end of an exception,  *)
(* where signal_check() delivers at most one signal; between the two other *)
(* processes run.  `tf` is the trap frame on the process's kernel stack:   *)
(* it says what the user code of the process is doing.  A process is       *)
(* switched out inside an exception only, so its trap frame holds its user *)
(* context whenever another process runs.                                  *)
(*                                                                         *)
(* fork copies the parent's kernel stack, and with it the pointer to the   *)
(* parent's trap frame that the exception handler was called with: until   *)
(* the child has left the exception, its signal_check() works on the       *)
(* parent's frame (`frame`).  Registers are not part of a context here.    *)
(***************************************************************************)
EXTENDS Integers, FiniteSets

CONSTANTS
  Procs, First,   \* processes that may ever exist, the one that exists at boot
  Sent,           \* signals passed to kill()
  Caught,         \* signals passed to signal()
  Nothing,        \* a null pointer
  MaxExecs        \* bound: calls of exec in one process

NSIG == 33
SIGKILL == 9

SIG_DFL == 0
SIG_IGN == 1

\* Programs are numbers, which stand for the addresses of their code too.
Programs == 2..(2 + MaxExecs)

\* A user context: the code it is in and of which program.
Main(n) == [at |-> "main", prog |-> n]
Context == [at : {"main", "handler", "astray"}, prog : Programs]

ASSUME SignalsAssumption ==
  /\ First \in Procs
  /\ Sent \subseteq 0..(NSIG - 1) /\ Caught \subseteq 0..(NSIG - 1)
  /\ Nothing \notin Context
  /\ MaxExecs \in Nat

VARIABLES
  state,     \* of each process: "unborn", "runnable" or "dead"
  pc,        \* "user", or "check" at the end of an exception
  prog,      \* the program it runs; exec starts the next one
  handlers,  \* sighandlers: SIG_DFL, SIG_IGN, or the program whose function it is
  pending,   \* the bits of sigpending
  tf,        \* the trap frame
  frame,     \* whose trap frame the exception handler has the address of
  saved,     \* sigcontext
  faulted,   \* history: a fault could not be handled
  overlap,   \* history: a handler began while a context was saved or was forked
  strayed    \* history: a signal_check worked on the wrong frame, or left-overs were restored

vars == <<state, pc, prog, handlers, pending, tf, frame, saved, faulted, overlap, strayed>>

User(p) == state[p] = "runnable" /\ pc[p] = "user"

\* An exception from user code ends in signal_check().
Trap(p) == User(p) /\ pc' = [pc EXCEPT ![p] = "check"]

\* `1 << sig` of a 32-bit int (for 31 its sign extension sets and clears more, all together)
Bit(sig) == sig % 32

\* the bits set in the number n
BitsOf(n) == {b \in 0..5 : (n \div 2^b) % 2 = 1}

\* mutant: the bit of SIGKILL, which signal() lets a program catch
FaultBitsOfNumber == {SIGKILL}

\* sigpending |= SIGKILL
FaultBits == BitsOf(SIGKILL)

(***************************************************************************)
(* Exceptions                                                              *)
(***************************************************************************)
\* any interrupt, or a system call that has nothing to do with signals
Interrupt(p) ==
  /\ Trap(p)
  /\ UNCHANGED <<state, prog, handlers, pending, tf, frame, saved, faulted, overlap, strayed>>

\* a page fault without an area, or an unknown system call
Fault(p) ==
  /\ Trap(p)
  /\ pending' = [pending EXCEPT ![p] = @ \cup FaultBits]
  /\ faulted' = [faulted EXCEPT ![p] = TRUE]
  /\ UNCHANGED <<state, prog, handlers, tf, frame, saved, overlap, strayed>>

Signal(p, sig, handler) ==
  /\ Trap(p)
  /\ handlers' = [handlers EXCEPT ![p][sig] = handler]
  /\ UNCHANGED <<state, prog, pending, tf, frame, saved, faulted, overlap, strayed>>

\* a dead process is still found while it is in the queue
Kill(p, q, sig) ==
  /\ Trap(p)
  /\ state[q] # "unborn"
  /\ pending' = [pending EXCEPT ![q] = @ \cup {Bit(sig)}]
  /\ UNCHANGED <<state, prog, handlers, tf, frame, saved, faulted, overlap, strayed>>

\* The child gets the handlers and the pending signals, but no sigcontext.  Its own trap
\* frame is a copy; the handler it returns through has the address of the parent's.
Fork(p, child) ==
  /\ User(p)
  /\ state[child] = "unborn"
  /\ state' = [state EXCEPT ![child] = "runnable"]
  /\ pc' = [pc EXCEPT ![p] = "check", ![child] = "check"]
  /\ prog' = [prog EXCEPT ![child] = prog[p]]
  /\ handlers' = [handlers EXCEPT ![child] = handlers[p]]
  /\ pending' = [pending EXCEPT ![child] = pending[p]]
  /\ tf' = [tf EXCEPT ![child] = tf[p]]
  /\ frame' = [frame EXCEPT ![child] = p]
  /\ overlap' = [overlap EXCEPT ![child] = overlap[p] \/ tf[p].at # "main"]
  /\ strayed' = [strayed EXCEPT ![child] = strayed[p]]
  /\ UNCHANGED <<saved, faulted>>

\* mutant: the handlers of the old program stay
ExecKeepsHandlers(p) ==
  /\ Trap(p)
  /\ prog[p] + 1 \in Programs
  /\ prog' = [prog EXCEPT ![p] = @ + 1]
  /\ tf' = [tf EXCEPT ![p] = Main(prog'[p])]
  /\ UNCHANGED <<state, handlers, pending, frame, saved, faulted, overlap, strayed>>

\* The handlers are reset; what is pending and the saved context stay.
Exec(p) ==
  /\ Trap(p)
  /\ prog[p] + 1 \in Programs
  /\ prog' = [prog EXCEPT ![p] = @ + 1]
  /\ handlers' = [handlers EXCEPT ![p] = [sig \in DOMAIN @ |-> SIG_DFL]]
  /\ tf' = [tf EXCEPT ![p] = Main(prog'[p])]
  /\ UNCHANGED <<state, pending, frame, saved, faulted, overlap, strayed>>

\* Called by signal_handle_wrapper when a handler has returned, or by any other user code.  A
\* handler without a saved context goes on behind the system call.
Sigreturn(p) ==
  /\ Trap(p)
  /\ tf' = [tf EXCEPT ![p] = IF saved[p] # Nothing THEN saved[p]
                             ELSE IF @.at = "handler" THEN [at |-> "astray", prog |-> @.prog]
                             ELSE @]
  /\ saved' = [saved EXCEPT ![p] = Nothing]
  /\ strayed' = [strayed EXCEPT ![p] = @ \/ (saved[p] # Nothing /\ tf[p].at # "handler")]
  /\ UNCHANGED <<state, prog, handlers, pending, frame, faulted, overlap>>

(***************************************************************************)
(* signal_check and signal_handle                                          *)
(***************************************************************************)
Lowest(p) == CHOOSE b \in pending[p] : \A c \in pending[p] : b <= c

\* From the exception to user code: the next exception has its own frame.
Return(p) ==
  /\ pc' = [pc EXCEPT ![p] = "user"]
  /\ frame' = [frame EXCEPT ![p] = p]

NothingPending(p) ==
  /\ state[p] = "runnable" /\ pc[p] = "check" /\ pending[p] = {}
  /\ Return(p)
  /\ UNCHANGED <<state, prog, handlers, pending, tf, saved, faulted, overlap, strayed>>

\* mutant: the handler is entered without saving the context
HandleUnsaved(p, handler) ==
  /\ tf' = [tf EXCEPT ![frame[p]] = [at |-> "handler", prog |-> handler]]
  /\ UNCHANGED <<saved, overlap, strayed>>

\* signal_handle: the only copy of an earlier context is overwritten.  The frame that is
\* saved and redirected is the parent's while a child has not yet left fork.
Handle(p, handler) ==
  /\ saved' = [saved EXCEPT ![p] = tf[frame[p]]]
  /\ tf' = [tf EXCEPT ![frame[p]] = [at |-> "handler", prog |-> handler]]
  /\ overlap' = [overlap EXCEPT ![p] = @ \/ tf[frame[p]].at # "main"]
  /\ strayed' = [q \in Procs |-> strayed[q] \/ (frame[p] # p /\ q \in {p, frame[p]})]

Deliver(p) ==
  /\ state[p] = "runnable" /\ pc[p] = "check" /\ pending[p] # {}
  /\ pending' = [pending EXCEPT ![p] = @ \ {Lowest(p)}]
  /\ LET handler == handlers[p][Lowest(p)]
     IN  CASE handler = SIG_DFL ->
                state' = [state EXCEPT ![p] = "dead"]
                /\ UNCHANGED <<pc, tf, frame, saved, overlap, strayed>>
           [] handler = SIG_IGN -> Return(p) /\ UNCHANGED <<state, tf, saved, overlap, strayed>>
           [] OTHER -> Return(p) /\ Handle(p, handler) /\ UNCHANGED state
  /\ UNCHANGED <<prog, handlers, faulted>>

Check(p) == NothingPending(p) \/ Deliver(p)

Init ==
  /\ state = [p \in Procs |-> IF p = First THEN "runnable" ELSE "unborn"]
  /\ pc = [p \in Procs |-> "user"]
  /\ prog = [p \in Procs |-> 2]
  /\ handlers = [p \in Procs |-> [sig \in 0..(NSIG - 1) |-> SIG_DFL]]
  /\ pending = [p \in Procs |-> {}]
  /\ tf = [p \in Procs |-> Main(2)]
  /\ frame = [p \in Procs |-> p]
  /\ saved = [p \in Procs |-> Nothing]
  /\ faulted = [p \in Procs |-> FALSE]
  /\ overlap = [p \in Procs |-> FALSE]
  /\ strayed = [p \in Procs |-> FALSE]

Next ==
  \E p \in Procs :
    \/ Interrupt(p) \/ Fault(p) \/ Exec(p) \/ Sigreturn(p) \/ Check(p)
    \/ \E sig \in Caught : \E handler \in {SIG_DFL, SIG_IGN, prog[p]} : Signal(p, sig, handler)
    \/ \E q \in Procs, sig \in Sent : Kill(p, q, sig)
    \/ \E child \in Procs : Fork(p, child)

\* An exception that was entered ends.
Spec == Init /\ [][Next]_vars /\ \A p \in Procs : WF_vars(Check(p))

(***************************************************************************)
(* Properties                                                              *)
(***************************************************************************)
TypeOK ==
  /\ state \in [Procs -> {"unborn", "runnable", "dead"}]
  /\ pc \in [Procs -> {"user", "check"}]
  /\ prog \in [Procs -> Programs]
  /\ handlers \in [Procs -> [0..(NSIG - 1) -> {SIG_DFL, SIG_IGN} \cup Programs]]
  /\ pending \in [Procs -> SUBSET (0..31)]
  /\ tf \in [Procs -> Context] /\ frame \in [Procs -> Procs]
  /\ saved \in [Procs -> Context \cup {Nothing}]
  /\ faulted \in [Procs -> BOOLEAN] /\ overlap \in [Procs -> BOOLEAN]
  /\ strayed \in [Procs -> BOOLEAN]

\* A process never executes code of a program it has replaced: neither a handler that was
\* installed before exec, nor a context saved before it, which sys_exec leaves in place.  Two
\* things undo it, and are left out: a child's signal_check that works on its parent's frame,
\* and sigreturn called outside a handler while a context is left over.
OwnProgram == \A p \in Procs : ~strayed[p] => tf[p].prog = prog[p]

\* Unless handlers overlap or fork, and with the same two exceptions, the code a signal
\* interrupted is never lost: either it runs, or it is what sigreturn will restore.
MainIsKept ==
  \A p \in Procs : ~overlap[p] /\ ~strayed[p] =>
    \/ tf[p].at = "main"
    \/ saved[p] # Nothing /\ saved[p].at = "main" /\ saved[p].prog = prog[p]

\* A fault the kernel cannot handle ends the process, whatever signals it catches (if it
\* does not catch signal 0, whose bit the kernel sets) and whatever else is pending.
FaultKills == \A p \in Procs : faulted[p] ~> state[p] = "dead"

\* kernel/sched.h:46, "Saved context before signal handler execution": whenever user code is
\* redirected into a handler, the context it leaves is in the process's sigcontext.
ContextSavedFirst ==
  [][\A p \in Procs : tf[p].at # "handler" /\ tf'[p].at = "handler" => saved'[p] = tf[p]]_vars
=============================================================================
