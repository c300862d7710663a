----------------------------- MODULE PhantomSet -----------------------------
(***************************************************************************)
(* What phantom accounting promises, without saying how: the set of        *)
(* phantom vCPUs of one VM and their number.  A vCPU joins the set while   *)
(* it is being switched out and leaves it while it is being switched in,   *)
(* and the number changes in the same instant; a vCPU that is off its CPU  *)
(* although it is runnable and runs an OpenMP thread is in the set, unless *)
(* it was preempted in favour of another vCPU; one that executes, or was   *)
(* so preempted, is not in the set.                                        *)
(*                                                                         *)
(* PhantomRefinement shows that PhantomSwitch keeps the promise, and       *)
(* EndToEnd puts it together with the guest programs.                      *)
(***************************************************************************)
EXTENDS Integers

CONSTANTS
  Vcpus,    \* vCPUs of the VM
  NbVcpus,  \* their number
  Foreign   \* those whose slot another VM's guest writes

VARIABLES
  on,        \* vCPUs that execute
  leaving,   \* vCPUs being switched out
  coming,    \* vCPUs being switched in; the others are off
  runnable,  \* vCPUs that execute, or were last switched out runnable
  swapped,   \* of these, the ones last preempted in favour of a vCPU
  slot,      \* slot[v]: 1 while v's guest CPU runs an OpenMP thread
  phantom,   \* the phantom vCPUs
  count,     \* their number
  lost       \* 1 once an update of the number was given up

vars == <<on, leaving, coming, runnable, swapped, slot, phantom, count, lost>>

Off == Vcpus \ (on \cup leaving \cup coming)

Init ==
  /\ on \in SUBSET Vcpus
  /\ leaving = {} /\ coming = {}
  /\ runnable = on
  /\ swapped = {}
  /\ slot \in [Vcpus -> {0, 1}]
  /\ phantom = {} /\ count = 0 /\ lost = 0

\* The scheduler begins to replace the vCPUs out by the vCPUs in.  Of those
\* that go out, stay are still runnable, and swap are preempted in favour of a
\* vCPU (of this or of another VM).
Switch(out, stay, swap, in) ==
  /\ on' = on \ out
  /\ leaving' = leaving \cup out
  /\ coming' = coming \cup in
  /\ runnable' = (runnable \ out) \cup stay
  /\ swapped' = (swapped \ out) \cup swap
  /\ UNCHANGED <<slot, phantom, count, lost>>

\* v joins the set, and is counted unless the update is given up.
Mark(v) ==
  /\ v \notin phantom \cup swapped
  /\ slot[v] = 1 \/ v \in Foreign
  /\ phantom' = phantom \cup {v}
  /\ \/ count' = count + 1 /\ lost' = lost
     \/ count' = count /\ lost' = 1
  /\ count' <= NbVcpus
  /\ UNCHANGED <<on, leaving, coming, runnable, swapped, slot>>

Unmark(v) ==
  /\ v \in phantom
  /\ phantom' = phantom \ {v}
  /\ \/ count' = count - 1 /\ lost' = lost
     \/ count' = count /\ lost' = 1
  /\ count' >= 0
  /\ UNCHANGED <<on, leaving, coming, runnable, swapped, slot>>

\* The switch is complete.  A vCPU that goes off runnable and with a 1 in its
\* slot has been marked, unless it was preempted in favour of a vCPU, and one
\* that comes on is not marked.
Complete(out, in) ==
  /\ \A v \in out \ Foreign :
       v \in runnable \ swapped /\ slot[v] = 1 => v \in phantom
  /\ \A v \in in \ Foreign : v \notin phantom
  /\ leaving' = leaving \ out
  /\ coming' = coming \ in
  /\ on' = on \cup in
  /\ runnable' = runnable \cup in
  /\ swapped' = swapped \ in
  /\ UNCHANGED <<slot, phantom, count, lost>>

\* The guest writes its slot while it executes; another VM's at any time.
Write(v, m) ==
  /\ slot' = [slot EXCEPT ![v] = m]
  /\ UNCHANGED <<on, leaving, coming, runnable, swapped, phantom, count, lost>>

Next ==
  \/ \E out \in SUBSET on :
       \E stay \in SUBSET out, in \in SUBSET Off : \E swap \in SUBSET stay :
         Switch(out, stay, swap, in)
  \/ \E v \in leaving : Mark(v)
  \/ \E v \in coming : Unmark(v)
  \/ \E out \in SUBSET leaving, in \in SUBSET coming : Complete(out, in)
  \/ \E v \in on \cup Foreign, m \in {0, 1} : Write(v, m)

Spec == Init /\ [][Next]_vars

=============================================================================
