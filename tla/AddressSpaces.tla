---------------------------- MODULE AddressSpaces ----------------------------
(***************************************************************************)
(* What virtual memory promises the tasks: each task has a memory of its   *)
(* own.  fork() gives the child the parent's contents, as a copy; after    *)
(* that a store of one task is seen by no other, with one exception: until *)
(* the parent loses the processor, its stores may reach the children it    *)
(* forked meanwhile.                                                       *)
(***************************************************************************)
CONSTANTS Tasks, VPages, Values

VARIABLES
  space,   \* the memory of each task, a function on its mapped pages
  late     \* the pages of other tasks, <<task, page>>, that stores of a task reach

vars == <<space, late>>

Empty == [p \in {} |-> CHOOSE v \in Values : TRUE]

Mapped(t) == DOMAIN space[t]

Settled == [s \in Tasks |-> {}]

\* t runs: whatever else ran before has lost the processor
OnlyOf(t) == [Settled EXCEPT ![t] = late[t]]

Init ==
  /\ space = [t \in Tasks |-> Empty]
  /\ late = Settled

\* pages come into being, with contents nobody promises
Appear(t) ==
  /\ \E P \in SUBSET (VPages \ Mapped(t)) : \E f \in [P -> Values] :
       space' = [space EXCEPT ![t] = [p \in Mapped(t) \cup P |-> IF p \in P THEN f[p] ELSE @[p]]]
  /\ late' = OnlyOf(t)

Store(t, p, v) ==
  /\ p \in Mapped(t)
  /\ space' = [s \in Tasks |->
       [q \in Mapped(s) |->
          IF q = p /\ (s = t \/ <<s, p>> \in late[t]) THEN v ELSE space[s][q]]]
  /\ late' = OnlyOf(t)

Fork(t, c) ==
  /\ Mapped(c) = {}
  /\ space' = [space EXCEPT ![c] = space[t]]
  /\ \E P \in SUBSET Mapped(t) : late' = [OnlyOf(t) EXCEPT ![t] = @ \cup ({c} \X P)]

Discard(t) ==
  /\ space' = [space EXCEPT ![t] = Empty]
  /\ late' = Settled

\* the tasks of S have lost the processor
Settle(S) ==
  /\ late' = [s \in Tasks |-> IF s \in S THEN {} ELSE late[s]]
  /\ UNCHANGED space

Next ==
  \/ \E t \in Tasks :
       \/ Appear(t)
       \/ \E p \in VPages, v \in Values : Store(t, p, v)
       \/ \E c \in Tasks \ {t} : Fork(t, c)
       \/ Discard(t)
  \/ \E S \in SUBSET Tasks : Settle(S)

Spec == Init /\ [][Next]_vars
===============================================================================
