---------------------------- MODULE SignalsProofs -----------------------------
(***************************************************************************)
(* Signals with any number of processes, calls of exec and signals.        *)
(***************************************************************************)
EXTENDS Signals, FiniteSetTheorems, TLAPS

(***************************************************************************)
(* signal_check: the lowest pending bit.                                   *)
(***************************************************************************)
\* A set of natural numbers has a least element.
LEMMA LeastExists ==
  ASSUME NEW S \in SUBSET Nat, S # {}
  PROVE  \E x \in S : \A y \in S : x <= y
<1> DEFINE T == {0..x : x \in S}
           R == StrictSubsetOrdering(Nat)
<1>1. T \subseteq FiniteSubsetsOf(Nat) /\ T # {}
  <2>1. \A x \in S : 0..x \in SUBSET Nat /\ IsFiniteSet(0..x)
    BY FS_Interval
  <2> QED
    BY <2>1 DEF FiniteSubsetsOf
<1>2. PICK X \in T : \A Y \in T : <<Y, X>> \notin R
  <2> HIDE DEF T, R
  <2> QED
    BY <1>1, FS_StrictSubsetOrderingWellFounded, WFMin DEF R
<1>3. PICK x \in S : X = 0..x
  OBVIOUS
<1>4. ASSUME NEW y \in S, ~(x <= y) PROVE FALSE
  <2>1. 0..y \subseteq 0..x /\ 0..y # 0..x
    BY <1>4
  <2>2. <<0..y, 0..x>> \in R
    BY <2>1 DEF StrictSubsetOrdering
  <2> QED
    BY <2>2, <1>2, <1>3
<1> QED
  BY <1>4

\* The signal that signal_check delivers is one that is pending.
LEMMA LowestIsPending ==
  ASSUME NEW p, pending[p] \in SUBSET (0..31), pending[p] # {}
  PROVE  Lowest(p) \in pending[p]
<1>1. \E b \in pending[p] : \A c \in pending[p] : b <= c
  BY LeastExists, pending[p] \in SUBSET Nat
<1> QED
  BY <1>1 DEF Lowest

(***************************************************************************)
(* The inductive invariant.                                                *)
(***************************************************************************)
\* Whatever exec leaves behind, a process catches signals with functions of its program only.
OwnHandlers == \A p \in Procs : \A sig \in 0..(NSIG - 1) :
                 handlers[p][sig] \in {SIG_DFL, SIG_IGN, prog[p]}

\* A context saved by a program that exec has replaced is not one that a handler's sigreturn
\* restores: the first handler of the new program overwrites it.
OwnSaved == \A p \in Procs :
              ~strayed[p] /\ tf[p].at = "handler" /\ saved[p] # Nothing
                => saved[p].prog = prog[p]

UnbornHasNoContext == \A p \in Procs : state[p] = "unborn" => saved[p] = Nothing

IInv == TypeOK /\ OwnProgram /\ OwnHandlers /\ OwnSaved /\ UnbornHasNoContext /\ MainIsKept

LEMMA IInvInit == Init => IInv
  BY SignalsAssumption
  DEF Init, IInv, TypeOK, OwnProgram, OwnHandlers, OwnSaved, UnbornHasNoContext, MainIsKept,
      Main, Context, Programs, NSIG, SIG_DFL

\* What the system calls and the exceptions do to the invariant.
LEMMA IInvCalls ==
  ASSUME IInv, NEW p \in Procs,
         \/ Interrupt(p) \/ Fault(p) \/ Exec(p) \/ Sigreturn(p)
         \/ \E sig \in Caught : \E handler \in {SIG_DFL, SIG_IGN, prog[p]} :
              Signal(p, sig, handler)
         \/ \E q \in Procs, sig \in Sent : Kill(p, q, sig)
         \/ \E child \in Procs : Fork(p, child)
  PROVE  IInv'
<1> USE SignalsAssumption DEF IInv, User, Trap
<1>1. CASE Interrupt(p)
  BY <1>1 DEF Interrupt, TypeOK, OwnProgram, OwnHandlers, OwnSaved, UnbornHasNoContext, MainIsKept
<1>2. CASE Fault(p)
  <2>1. FaultBits \subseteq 0..31
    BY DEF FaultBits, BitsOf
  <2>2. TypeOK'
    BY <1>2, <2>1 DEF Fault, TypeOK
  <2> QED
    BY <1>2, <2>2
    DEF Fault, TypeOK, OwnProgram, OwnHandlers, OwnSaved, UnbornHasNoContext, MainIsKept
<1>3. CASE Exec(p)
  <2>1. tf' = [tf EXCEPT ![p] = Main(prog[p] + 1)] /\ Main(prog[p] + 1) \in Context
    BY <1>3 DEF Exec, Main, Context, TypeOK
  <2>2. TypeOK'
    <3>1. handlers' \in [Procs -> [0..(NSIG - 1) -> {SIG_DFL, SIG_IGN} \cup Programs]]
      BY <1>3 DEF Exec, TypeOK
    <3>2. prog' \in [Procs -> Programs] /\ tf' \in [Procs -> Context]
      BY <1>3, <2>1 DEF Exec, TypeOK
    <3>3. pc' \in [Procs -> {"user", "check"}]
      BY <1>3 DEF Exec, TypeOK
    <3> QED
      BY <1>3, <3>1, <3>2, <3>3 DEF Exec, TypeOK
  <2>3. tf'[p].prog = prog'[p] /\ tf'[p].at = "main"
    BY <1>3, <2>1 DEF Exec, TypeOK, Main
  <2>4. \A q \in Procs \ {p} : tf'[q] = tf[q] /\ prog'[q] = prog[q]
    BY <1>3, <2>1 DEF Exec, TypeOK
  <2>5. saved' = saved /\ overlap' = overlap /\ state' = state
    BY <1>3 DEF Exec
  <2>6. OwnProgram' /\ OwnSaved' /\ MainIsKept'
    BY <1>3, <2>3, <2>4, <2>5 DEF Exec, OwnProgram, OwnSaved, MainIsKept
  <2>7. OwnHandlers' /\ UnbornHasNoContext'
    BY <1>3 DEF Exec, TypeOK, OwnHandlers, UnbornHasNoContext
  <2> QED
    BY <2>2, <2>6, <2>7
<1>4. CASE Sigreturn(p)
  <2>1. /\ tf'[p] \in Context
        /\ ~strayed'[p] => tf'[p].prog = prog[p] /\ (~overlap[p] => tf'[p].at = "main")
    <3>1. strayed'[p] = (strayed[p] \/ (saved[p] # Nothing /\ tf[p].at # "handler"))
      BY <1>4 DEF Sigreturn, TypeOK
    <3>2. CASE saved[p] = Nothing
      <4>1. tf'[p] = IF tf[p].at = "handler" THEN [at |-> "astray", prog |-> tf[p].prog]
                                             ELSE tf[p]
        BY <1>4, <3>2 DEF Sigreturn, TypeOK
      <4> QED
        BY <3>1, <3>2, <4>1 DEF TypeOK, OwnProgram, MainIsKept, Context
    <3>3. CASE saved[p] # Nothing
      BY <1>4, <3>1, <3>3 DEF Sigreturn, TypeOK, OwnSaved, MainIsKept, Context
    <3> QED
      BY <3>2, <3>3
  <2>2. tf' = [tf EXCEPT ![p] = tf'[p]] /\ saved' = [saved EXCEPT ![p] = Nothing]
    BY <1>4 DEF Sigreturn, TypeOK
  <2>3. TypeOK'
    BY <1>4, <2>1, <2>2 DEF Sigreturn, TypeOK
  <2>4. \A q \in Procs \ {p} :
          tf'[q] = tf[q] /\ saved'[q] = saved[q] /\ strayed'[q] = strayed[q]
    BY <1>4, <2>2 DEF Sigreturn, TypeOK
  <2>5. saved'[p] = Nothing
    BY <2>2 DEF TypeOK
  <2>6. UNCHANGED <<state, prog, handlers, overlap>>
    BY <1>4 DEF Sigreturn
  <2>7. OwnProgram' /\ OwnHandlers' /\ MainIsKept'
    BY <2>1, <2>4, <2>6 DEF OwnProgram, OwnHandlers, MainIsKept
  <2>8. OwnSaved' /\ UnbornHasNoContext'
    BY <2>4, <2>5, <2>6 DEF OwnSaved, UnbornHasNoContext
  <2> QED
    BY <2>3, <2>7, <2>8
<1>5. ASSUME NEW sig \in Caught, NEW handler \in {SIG_DFL, SIG_IGN, prog[p]},
             Signal(p, sig, handler)
      PROVE  IInv'
  <2>1. OwnHandlers' /\ TypeOK'
    BY <1>5 DEF Signal, TypeOK, OwnHandlers
  <2> QED
    BY <1>5, <2>1 DEF Signal, TypeOK, OwnProgram, OwnSaved, UnbornHasNoContext, MainIsKept
<1>6. ASSUME NEW q \in Procs, NEW sig \in Sent, Kill(p, q, sig)
      PROVE  IInv'
  <2>1. Bit(sig) \in 0..31
    BY DEF Bit, NSIG
  <2>2. TypeOK'
    BY <1>6, <2>1 DEF Kill, TypeOK
  <2> QED
    BY <1>6, <2>2
    DEF Kill, TypeOK, OwnProgram, OwnHandlers, OwnSaved, UnbornHasNoContext, MainIsKept
<1>7. ASSUME NEW child \in Procs, Fork(p, child)
      PROVE  IInv'
  <2>1. child # p
    BY <1>7 DEF Fork
  <2>2. TypeOK'
    BY <1>7, <2>1 DEF Fork, TypeOK
  <2>3. OwnProgram' /\ OwnHandlers'
    BY <1>7, <2>1 DEF Fork, TypeOK, OwnProgram, OwnHandlers
  <2>4. /\ tf'[child] = tf[p] /\ prog'[child] = prog[p] /\ saved' = saved
        /\ strayed'[child] = strayed[p]
        /\ overlap'[child] = (overlap[p] \/ tf[p].at # "main") /\ saved[child] = Nothing
    BY <1>7, <2>1 DEF Fork, TypeOK, UnbornHasNoContext
  <2>5. \A q \in Procs \ {child} :
          /\ tf'[q] = tf[q] /\ prog'[q] = prog[q] /\ overlap'[q] = overlap[q]
          /\ strayed'[q] = strayed[q] /\ state'[q] = state[q]
    BY <1>7, <2>1 DEF Fork, TypeOK
  <2>6. OwnSaved' /\ MainIsKept'
    <3>1. ~overlap'[child] => tf'[child].at = "main"
      BY <2>4 DEF TypeOK
    <3>2. saved'[child] = Nothing
      BY <2>4
    <3> QED
      BY <2>4, <2>5, <3>1, <3>2 DEF OwnSaved, MainIsKept
  <2>7. UnbornHasNoContext'
    BY <2>4, <2>5 DEF UnbornHasNoContext
  <2> QED
    BY <2>2, <2>3, <2>6, <2>7
<1> QED
  BY <1>1, <1>2, <1>3, <1>4, <1>5, <1>6, <1>7

\* The end of an exception: signal_check and signal_handle.
LEMMA IInvCheck ==
  ASSUME IInv, NEW p \in Procs, Check(p)
  PROVE  IInv'
<1> USE SignalsAssumption DEF IInv
<1>1. CASE NothingPending(p)
  BY <1>1 DEF NothingPending, Return, TypeOK, OwnProgram, OwnHandlers, OwnSaved,
              UnbornHasNoContext, MainIsKept
<1>2. CASE Deliver(p)
  <2> DEFINE handler == handlers[p][Lowest(p)]
  <2>1. Lowest(p) \in 0..31
    BY <1>2, LowestIsPending DEF Deliver, TypeOK
  <2>2. handler \in {SIG_DFL, SIG_IGN, prog[p]}
    BY <2>1 DEF OwnHandlers, NSIG
  <2>3. CASE handler = SIG_DFL
    <3>0. handler # SIG_IGN
      BY <2>3 DEF SIG_DFL, SIG_IGN
    <3>1. /\ pending' = [pending EXCEPT ![p] = @ \ {Lowest(p)}]
          /\ state' = [state EXCEPT ![p] = "dead"]
          /\ UNCHANGED <<pc, prog, handlers, tf, frame, saved, faulted, overlap, strayed>>
      BY <1>2, <2>3, <3>0 DEF Deliver
    <3> QED
      BY <3>1 DEF TypeOK, OwnProgram, OwnHandlers, OwnSaved, UnbornHasNoContext, MainIsKept
  <2>4. CASE handler # SIG_DFL /\ handler = SIG_IGN
    <3>1. /\ pending' = [pending EXCEPT ![p] = @ \ {Lowest(p)}]
          /\ pc' = [pc EXCEPT ![p] = "user"] /\ frame' = [frame EXCEPT ![p] = p]
          /\ UNCHANGED <<state, prog, handlers, tf, saved, faulted, overlap, strayed>>
      BY <1>2, <2>4 DEF Deliver, Return
    <3> QED
      BY <3>1 DEF TypeOK, OwnProgram, OwnHandlers, OwnSaved, UnbornHasNoContext, MainIsKept
  <2>5. CASE handler # SIG_DFL /\ handler # SIG_IGN
    <3>1. /\ handler = prog[p] /\ Return(p) /\ Handle(p, handler)
          /\ UNCHANGED <<state, prog, handlers, faulted>>
          /\ state[p] # "unborn"
      BY <1>2, <2>2, <2>5 DEF Deliver
    <3> HIDE DEF handler
    <3>2. TypeOK'
      BY <1>2, <3>1 DEF Deliver, Handle, Return, TypeOK, Context
    <3>3. OwnHandlers' /\ UnbornHasNoContext'
      BY <3>1 DEF Handle, TypeOK, OwnHandlers, UnbornHasNoContext
    <3>4. ASSUME NEW q \in Procs, ~strayed'[q]
          PROVE  /\ tf'[q].prog = prog[q]
                 /\ tf'[q].at = "handler" /\ saved'[q] # Nothing => saved'[q].prog = prog[q]
                 /\ ~overlap'[q] => \/ tf'[q].at = "main"
                                   \/ /\ saved'[q] # Nothing /\ saved'[q].at = "main"
                                      /\ saved'[q].prog = prog[q]
      <4>1. ~strayed[q] /\ ~(frame[p] # p /\ q \in {p, frame[p]})
        BY <3>1, <3>4 DEF Handle
      <4>2. CASE q = p
        <5>1. frame[p] = p
          BY <4>1, <4>2
        <5>2. /\ saved'[p] = tf[p] /\ tf'[p] = [at |-> "handler", prog |-> handler]
              /\ overlap'[p] = (overlap[p] \/ tf[p].at # "main")
          BY <3>1, <5>1 DEF Handle, TypeOK
        <5>3. tf[p].prog = prog[p] /\ tf[p] # Nothing
          BY <4>1, <4>2 DEF OwnProgram, TypeOK
        <5>4. ~overlap'[p] => saved'[p] # Nothing /\ saved'[p].at = "main"
          <6>1. ~overlap'[p] => tf[p].at = "main"
            BY <3>1, <5>1 DEF Handle, TypeOK
          <6> QED
            BY <5>2, <5>3, <6>1
        <5>5. tf'[p].prog = prog[p] /\ saved'[p].prog = prog[p]
          BY <3>1, <5>2, <5>3
        <5> QED
          BY <4>2, <5>4, <5>5
      <4>3. CASE q # p
        <5>1. q # frame[p]
          BY <4>1, <4>3
        <5>2. tf'[q] = tf[q] /\ saved'[q] = saved[q] /\ overlap'[q] = overlap[q]
          BY <3>1, <4>3, <5>1 DEF Handle, TypeOK
        <5> QED
          BY <4>1, <5>2 DEF OwnProgram, OwnSaved, MainIsKept
      <4> QED
        BY <4>2, <4>3
    <3>5. OwnProgram' /\ OwnSaved' /\ MainIsKept'
      BY <3>1, <3>4 DEF OwnProgram, OwnSaved, MainIsKept
    <3> QED
      BY <3>2, <3>3, <3>5
  <2> QED
    BY <2>3, <2>4, <2>5
<1> QED
  BY <1>1, <1>2 DEF Check

LEMMA IInvInductive == IInv /\ [Next]_vars => IInv'
<1> SUFFICES ASSUME IInv, [Next]_vars PROVE IInv'
  OBVIOUS
<1>1. CASE Next
  <2>1. PICK p \in Procs :
          \/ Interrupt(p) \/ Fault(p) \/ Exec(p) \/ Sigreturn(p) \/ Check(p)
          \/ \E sig \in Caught : \E handler \in {SIG_DFL, SIG_IGN, prog[p]} :
               Signal(p, sig, handler)
          \/ \E q \in Procs, sig \in Sent : Kill(p, q, sig)
          \/ \E child \in Procs : Fork(p, child)
    BY <1>1 DEF Next
  <2> QED
    BY <2>1, IInvCalls, IInvCheck
<1>2. CASE UNCHANGED vars
  BY <1>2 DEF vars, IInv, TypeOK, OwnProgram, OwnHandlers, OwnSaved, UnbornHasNoContext, MainIsKept
<1> QED
  BY <1>1, <1>2

LEMMA IInvAlways == Spec => []IInv
  BY IInvInit, IInvInductive, PTL DEF Spec

(***************************************************************************)
(* The properties.                                                         *)
(***************************************************************************)
\* The state of signals is always well formed; in particular signal_check never looks a
\* handler up outside the table.
THEOREM SignalsTypeCorrect == Spec => []TypeOK
<1>1. IInv => TypeOK
  BY DEF IInv
<1> QED
  BY <1>1, IInvAlways, PTL

\* However signals, handlers, fork and exec interleave, no process ever runs a handler or
\* restores a context of a program that exec has replaced, unless the first signal_check of
\* a child has worked on its trap frame or it has called sigreturn outside a handler.
THEOREM SignalsOwnProgram == Spec => []OwnProgram
<1>1. IInv => OwnProgram
  BY DEF IInv
<1> QED
  BY <1>1, IInvAlways, PTL

\* Unless handlers overlap or fork, or its frame was another's to redirect, the context that
\* a signal interrupted is never lost.
THEOREM SignalsMainIsKept == Spec => []MainIsKept
<1>1. IInv => MainIsKept
  BY DEF IInv
<1> QED
  BY <1>1, IInvAlways, PTL
===============================================================================
