------------------------- MODULE PhantomRefinement -------------------------
(***************************************************************************)
(* PhantomSwitch implements PhantomSet.  The handler changes flag and      *)
(* counter in separate steps; the promised set and number change together, *)
(* at the step that settles the counter.                                   *)
(***************************************************************************)
EXTENDS PhantomSwitch

Executing    == {v \in Vcpus : \E p \in Pcpus : cur[p] = v /\ pc[p] = "task"}
SwitchingOut == {v \in Vcpus : \E p \in Pcpus : cur[p] = v /\ pc[p] # "task"}
SwitchingIn  == {v \in Vcpus : \E p \in Pcpus : nxt[p] = v}
Runnable     == {v \in Vcpus : offState[v] # "SLEEPING"}

Promise == INSTANCE PhantomSet WITH
  on <- Executing, leaving <- SwitchingOut, coming <- SwitchingIn,
  runnable <- Runnable, phantom <- Counted

\* The handlers of all pCPUs together, with their split updates, failing
\* exchanges and a second attached copy, do to the set of phantom vCPUs and to
\* phantom_count only what PhantomSet allows: a vCPU that is switched out while it
\* is runnable and has a 1 in its slot is counted before its switch is over,
\* exactly once, and an executing one is not (phantom_switch_handler as a
\* whole).  The exception is part of the promise: a vCPU that the kernel
\* preempts in favour of another vCPU is reported as TASK_REPORT_MAX, which the
\* test at create_maps.bpf.c:222 does not accept, and is never counted.
ImplementsPromise == Promise!Spec

=============================================================================
