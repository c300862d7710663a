--------------------------- MODULE PhantomSwitch ---------------------------
(***************************************************************************)
(* phantom_switch_handler (pvsched-ebpf/host/ebpf/create_maps): the eBPF   *)
(* program that runs on every host context switch and keeps, for one VM,   *)
(* the per-vCPU flag is_phantom and the counter vm->phantom_count.         *)
(*                                                                         *)
(* Every pCPU runs its own instance of the handler.  The handler is split  *)
(* at its accesses to memory that another pCPU can change: the flag CAS,   *)
(* the load and the CAS of each attempt of the counter's retry loops, and  *)
(* the hand-over of the new count to the sample buffers (whose own steps   *)
(* are in SampleBuffers).  The host scheduler, the guest's writes to its   *)
(* G2H slots and the reload of the program are the environment.            *)
(*                                                                         *)
(* vCPUs are named by their vcpu_index.                                    *)
(***************************************************************************)
EXTENDS Integers, FiniteSets

CONSTANTS
  NbVcpus,      \* vm->nb_vcpus, and the number of vCPU threads registered
  NrMsgs,       \* NR_GUEST_IVSHMEM_MSGS: G2H slots the kfuncs accept (64)
  MaxAttempts,  \* attempts of the two CAS loops (24)
  Pcpus,        \* host CPUs
  Foreign,      \* vCPUs whose slot belongs to another VM's guest: the kfunc
                \* always reads registry.devices[1]
  Other         \* any host task that is not a registered vCPU thread

Vcpus == 0 .. NbVcpus - 1

ASSUME ConstAssumption ==
  /\ NbVcpus \in Nat \ {0}
  /\ NrMsgs \in Nat
  /\ MaxAttempts \in Nat \ {0}
  /\ Foreign \subseteq Vcpus
  /\ Other \notin Vcpus

\* How a vCPU thread leaves its pCPU: still runnable, in a call to schedule()
\* (before it enters the guest, or in sched_yield()); still runnable, preempted
\* by the kernel; or asleep.
TaskStates == {"RUNNING", "PREEMPTED", "SLEEPING"}

\* The values of prev_state that the handler accepts.
TASK_RUNNING == 0
TASK_WAKING  == 512

\* prev_state as the sched_switch event reports it: a preempted task is not
\* TASK_RUNNING but TASK_REPORT_MAX (0x100).  TASK_WAKING is not a state of a
\* task that is on a CPU and is never reported.
Reported(s) == CASE s = "RUNNING"   -> TASK_RUNNING
                 [] s = "PREEMPTED" -> 256
                 [] s = "SLEEPING"  -> 1

\* Steps of one handler instance; "task" is the time between two switches.
Steps == {"task", "in", "dec", "dec_cas", "in_sample",
          "out", "inc", "inc_cas", "out_sample"}

VARIABLES
  cur,        \* task on each pCPU (prev while a handler runs)
  nxt,        \* task being switched in (Other when no handler runs)
  offState,   \* how each vCPU thread left its pCPU (RUNNING once it is back)
  swapped,    \* history: vCPUs preempted in favour of another vCPU
  slot,       \* msg word of each vCPU's G2H slot
  isPhantom,  \* vcpu->is_phantom
  count,      \* vm->phantom_count
  pc, old, attempt, newCount,  \* one handler instance per pCPU
  attached,   \* programs attached to sched_switch
  left,       \* programs the current event still has to run, per pCPU
  lost        \* history: 1 once a retry loop has given up

sched   == <<cur, nxt, offState, swapped>>
locals  == <<old, attempt, newCount>>
vars    == <<cur, nxt, offState, swapped, slot, isPhantom, count,
             pc, old, attempt, newCount, attached, left, lost>>

TypeOK ==
  /\ cur \in [Pcpus -> Vcpus \cup {Other}]
  /\ nxt \in [Pcpus -> Vcpus \cup {Other}]
  /\ offState \in [Vcpus -> TaskStates]
  /\ swapped \subseteq Vcpus
  /\ slot \in [Vcpus -> {0, 1}]
  /\ isPhantom \in [Vcpus -> {0, 1}]
  /\ count \in 0 .. NbVcpus
  /\ pc \in [Pcpus -> Steps]
  /\ old \in [Pcpus -> 0 .. NbVcpus]
  /\ attempt \in [Pcpus -> 0 .. MaxAttempts]
  /\ newCount \in [Pcpus -> 0 .. NbVcpus]
  /\ attached \in {1, 2}
  /\ left \in [Pcpus -> 0 .. 2]
  /\ lost \in {0, 1}

\* register_vm has just put the VM and its vCPUs in the maps: count 0, no
\* flag set, whichever vCPUs are running and whatever their slots hold.
Init ==
  /\ cur \in [Pcpus -> Vcpus \cup {Other}]
  /\ \A p, q \in Pcpus : p # q => cur[p] = Other \/ cur[p] # cur[q]
  /\ nxt = [p \in Pcpus |-> Other]
  /\ offState = [v \in Vcpus |-> IF \E p \in Pcpus : cur[p] = v
                                 THEN "RUNNING" ELSE "SLEEPING"]
  /\ swapped = {}
  /\ slot \in [Vcpus -> {0, 1}]
  /\ \A v \in Vcpus : v >= NrMsgs => slot[v] = 0
  /\ isPhantom = [v \in Vcpus |-> 0]
  /\ count = 0
  /\ pc = [p \in Pcpus |-> "task"]
  /\ old = [p \in Pcpus |-> 0]
  /\ attempt = [p \in Pcpus |-> 0]
  /\ newCount = [p \in Pcpus |-> 0]
  /\ attached = 1
  /\ left = [p \in Pcpus |-> 0]
  /\ lost = 0

----------------------------------------------------------------------------
(* Environment: scheduler, guest, loader. *)

OffCpu(v) == \A p \in Pcpus : cur[p] # v /\ nxt[p] # v

\* __schedule() on p picks task n and fires the tracepoint.  A vCPU thread
\* can only be picked where it is not current, and not before the switch
\* that took it off a CPU is complete.  s is how cur[p] leaves.
SchedSwitch(p, n, s) ==
  /\ pc[p] = "task"
  /\ n = Other \/ OffCpu(n)
  /\ n = Other => cur[p] # Other
  /\ nxt' = [nxt EXCEPT ![p] = n]
  /\ offState' = IF cur[p] \in Vcpus
                 THEN [offState EXCEPT ![cur[p]] = s] ELSE offState
  /\ swapped' = IF s = "PREEMPTED" /\ n \in Vcpus
                THEN swapped \cup ({cur[p]} \cap Vcpus) ELSE swapped \ {cur[p]}
  /\ left' = [left EXCEPT ![p] = attached]
  /\ pc' = [pc EXCEPT ![p] = "in"]
  /\ UNCHANGED <<cur, slot, isPhantom, count, locals, attached, lost>>

\* The guest kernel on vCPU v publishes whether an OpenMP thread runs there.
\* It executes only while v's thread runs on a pCPU; the slot of a foreign
\* vCPU is written by another VM, at any time.
GuestWrite(v, m) ==
  /\ v < NrMsgs
  /\ v \in Foreign \/ \E p \in Pcpus : cur[p] = v /\ pc[p] = "task"
  /\ slot' = [slot EXCEPT ![v] = m]
  /\ UNCHANGED <<sched, isPhantom, count, pc, locals, attached, left, lost>>

\* A second run of the loader attaches another copy of the program on the
\* same maps, then fails to pin its link and detaches it.
LoaderAttach ==
  /\ attached = 1
  /\ attached' = 2
  /\ UNCHANGED <<sched, slot, isPhantom, count, pc, locals, left, lost>>

LoaderDetach ==
  /\ attached = 2
  /\ attached' = 1
  /\ UNCHANGED <<sched, slot, isPhantom, count, pc, locals, left, lost>>

----------------------------------------------------------------------------
(* The handler. *)

\* bpf_host_ivshmem_g2h_read into a zeroed message, return value ignored.
G2hRead(v) == IF v < NrMsgs THEN slot[v] ELSE 0

\* Mutation of PrevState: loaded from the event whichever task comes in.
PrevState_Always(p) ==
  IF cur[p] \in Vcpus THEN Reported(offState[cur[p]]) ELSE TASK_RUNNING

\* The handler's prev_state: initialised to 0 (TASK_RUNNING) and loaded from
\* the event only in the branch for an incoming vCPU.
PrevState(p) ==
  IF nxt[p] \in Vcpus THEN Reported(offState[cur[p]]) ELSE TASK_RUNNING

Goto(p, step) == pc' = [pc EXCEPT ![p] = step]

\* Mutation of InFlag: a switch between two vCPUs is treated as outgoing only.
InFlag_OutgoingFirst(p) ==
  /\ pc[p] = "in"
  /\ IF /\ nxt[p] \in Vcpus /\ cur[p] \notin Vcpus
        /\ G2hRead(nxt[p]) = 1 /\ isPhantom[nxt[p]] = 1
     THEN /\ isPhantom' = [isPhantom EXCEPT ![nxt[p]] = 0]
          /\ Goto(p, "dec")
     ELSE Goto(p, "out") /\ UNCHANGED isPhantom
  /\ UNCHANGED <<sched, slot, count, locals, attached, left, lost>>

\* Incoming part: test the slot and clear the flag.
InFlag(p) ==
  /\ pc[p] = "in"
  /\ IF nxt[p] \in Vcpus /\ G2hRead(nxt[p]) = 1 /\ isPhantom[nxt[p]] = 1
     THEN /\ isPhantom' = [isPhantom EXCEPT ![nxt[p]] = 0]
          /\ Goto(p, "dec")
     ELSE /\ Goto(p, "out")
          /\ UNCHANGED isPhantom
  /\ UNCHANGED <<sched, slot, count, locals, attached, left, lost>>

\* One load of a retry loop: limit holds when the loop returns without an
\* exchange, cas is the step that tries one.  After MaxAttempts failed
\* exchanges the loop returns whatever the counter holds.
LoadCount(p, step, limit, cas, done) ==
  /\ pc[p] = step
  /\ IF attempt[p] = MaxAttempts \/ limit
     THEN /\ newCount' = [newCount EXCEPT ![p] = count]
          /\ attempt' = [attempt EXCEPT ![p] = 0]
          /\ lost' = IF attempt[p] = MaxAttempts THEN 1 ELSE lost
          /\ Goto(p, done)
          /\ UNCHANGED old
     ELSE /\ old' = [old EXCEPT ![p] = count]
          /\ Goto(p, cas)
          /\ UNCHANGED <<newCount, attempt, lost>>
  /\ UNCHANGED <<sched, slot, isPhantom, count, attached, left>>

\* Mutation of CasCount: a plain store instead of the exchange.
CasCount_Store(p, step, new, retry, done) ==
  /\ pc[p] = step
  /\ old' = [old EXCEPT ![p] = 0]
  /\ count' = new
  /\ newCount' = [newCount EXCEPT ![p] = new]
  /\ attempt' = [attempt EXCEPT ![p] = 0]
  /\ Goto(p, done)
  /\ UNCHANGED <<sched, slot, isPhantom, attached, left, lost>>

\* Mutation of CasCount: failed attempts are not counted.
CasCount_Unbounded(p, step, new, retry, done) ==
  /\ pc[p] = step
  /\ old' = [old EXCEPT ![p] = 0]
  /\ attempt' = [attempt EXCEPT ![p] = 0]
  /\ IF count = old[p]
     THEN /\ count' = new
          /\ newCount' = [newCount EXCEPT ![p] = new]
          /\ Goto(p, done)
     ELSE Goto(p, retry) /\ UNCHANGED <<count, newCount>>
  /\ UNCHANGED <<sched, slot, isPhantom, attached, left, lost>>

\* One exchange: on failure the loop goes round again.
CasCount(p, step, new, retry, done) ==
  /\ pc[p] = step
  /\ old' = [old EXCEPT ![p] = 0]
  /\ IF count = old[p]
     THEN /\ count' = new
          /\ newCount' = [newCount EXCEPT ![p] = new]
          /\ attempt' = [attempt EXCEPT ![p] = 0]
          /\ Goto(p, done)
     ELSE /\ attempt' = [attempt EXCEPT ![p] = @ + 1]
          /\ Goto(p, retry)
          /\ UNCHANGED <<count, newCount>>
  /\ UNCHANGED <<sched, slot, isPhantom, attached, left, lost>>

\* atomic_dec_if_pos(&vm->phantom_count)
DecLoad(p) == LoadCount(p, "dec", count <= 0, "dec_cas", "in_sample")
DecCas(p)  == CasCount(p, "dec_cas", old[p] - 1, "dec", "in_sample")

\* Mutation of IncLoad: no ceiling.
IncLoad_NoCeiling(p) == LoadCount(p, "inc", FALSE, "inc_cas", "out_sample")

\* atomic_inc_if_lt_ceil(&vm->phantom_count, &vm->nb_vcpus)
IncLoad(p) == LoadCount(p, "inc", count >= NbVcpus, "inc_cas", "out_sample")
IncCas(p)  == CasCount(p, "inc_cas", old[p] + 1, "inc", "out_sample")

\* The new count goes to the sample buffers; the incoming part is over.
InSample(p) ==
  /\ pc[p] = "in_sample"
  /\ newCount' = [newCount EXCEPT ![p] = 0]
  /\ Goto(p, "out")
  /\ UNCHANGED <<sched, slot, isPhantom, count, old, attempt, attached,
                 left, lost>>

\* The program returns: the next attached program runs on the same event,
\* or the switch completes and nxt[p] becomes current.
Return(p) ==
  /\ left' = [left EXCEPT ![p] = @ - 1]
  /\ IF left[p] > 1
     THEN Goto(p, "in") /\ UNCHANGED sched
     ELSE /\ Goto(p, "task")
          /\ cur' = [cur EXCEPT ![p] = nxt[p]]
          /\ nxt' = [nxt EXCEPT ![p] = Other]
          /\ offState' = IF nxt[p] \in Vcpus
                         THEN [offState EXCEPT ![nxt[p]] = "RUNNING"]
                         ELSE offState
          /\ swapped' = swapped \ {nxt[p]}

\* Mutation of OutFlag: the flag is stored, not exchanged.
OutFlag_Store(p) ==
  /\ pc[p] = "out"
  /\ IF /\ cur[p] \in Vcpus
        /\ G2hRead(cur[p]) = 1
        /\ PrevState(p) \in {TASK_RUNNING, TASK_WAKING}
     THEN /\ isPhantom' = [isPhantom EXCEPT ![cur[p]] = 1]
          /\ Goto(p, "inc")
          /\ UNCHANGED <<sched, left>>
     ELSE Return(p) /\ UNCHANGED isPhantom
  /\ UNCHANGED <<slot, count, locals, attached, lost>>

\* Outgoing part: test the slot and the state, and set the flag.
OutFlag(p) ==
  /\ pc[p] = "out"
  /\ IF /\ cur[p] \in Vcpus
        /\ G2hRead(cur[p]) = 1
        /\ PrevState(p) \in {TASK_RUNNING, TASK_WAKING}
        /\ isPhantom[cur[p]] = 0
     THEN /\ isPhantom' = [isPhantom EXCEPT ![cur[p]] = 1]
          /\ Goto(p, "inc")
          /\ UNCHANGED <<sched, left>>
     ELSE Return(p) /\ UNCHANGED isPhantom
  /\ UNCHANGED <<slot, count, locals, attached, lost>>

OutSample(p) ==
  /\ pc[p] = "out_sample"
  /\ newCount' = [newCount EXCEPT ![p] = 0]
  /\ Return(p)
  /\ UNCHANGED <<slot, isPhantom, count, old, attempt, attached, lost>>

Handler(p) ==
  \/ InFlag(p) \/ DecLoad(p) \/ DecCas(p) \/ InSample(p)
  \/ OutFlag(p) \/ IncLoad(p) \/ IncCas(p) \/ OutSample(p)

Environment ==
  \/ \E p \in Pcpus, n \in Vcpus \cup {Other}, s \in TaskStates :
        SchedSwitch(p, n, s)
  \/ \E v \in Vcpus, m \in {0, 1} : GuestWrite(v, m)
  \/ LoaderAttach
  \/ LoaderDetach

Next == Environment \/ \E p \in Pcpus : Handler(p)

Spec == Init /\ [][Next]_vars

\* The verifier bounds every program and the tracepoint runs it with
\* preemption off: an invocation that has started is carried to its end.
FairSpec == Spec /\ \A p \in Pcpus : WF_vars(Handler(p))

----------------------------------------------------------------------------
(* Properties. *)

Flagged == {v \in Vcpus : isPhantom[v] = 1}

\* vCPUs whose flag has changed and whose count update is still to come.
IncPending == {v \in Vcpus :
                 \E p \in Pcpus : cur[p] = v /\ pc[p] \in {"inc", "inc_cas"}}
DecPending == {v \in Vcpus :
                 \E p \in Pcpus : nxt[p] = v /\ pc[p] \in {"dec", "dec_cas"}}

\* The vCPUs phantom_count stands for.
Counted == (Flagged \ IncPending) \cup DecPending

\* phantom_count is exact: unless a CAS loop has used up its attempts, it is
\* the number of flagged vCPUs, give or take the handlers that stand between
\* their flag CAS and their count CAS -- although flags and count are updated
\* by separate steps on all pCPUs, and also while two copies of the program
\* are attached during a reload.
CountAccurate == lost = 0 => count = Cardinality(Counted)

\* Within one registration of the VM the clamps at 0 and at nb_vcpus never take
\* effect: a handler that starts to decrement (increment) finds a count it can
\* decrement (increment), as long as no CAS loop has given up.  This includes
\* the vCPU of which the comment at create_maps.bpf.c:124-128 says that the
\* clamp at 0 is for it, one that already ran when register_vm filled the map:
\* its flag is 0, so the exchange of the flag fails and no decrement follows.
ClampsUnused ==
  lost = 0 => \A p \in Pcpus :
             /\ pc[p] \in {"dec", "dec_cas"} => count > 0
             /\ pc[p] \in {"inc", "inc_cas"} => count < NbVcpus

\* A vCPU that executes is not marked phantom: the incoming part of the
\* handler has cleared the flag, because the slot it tests still holds the 1
\* that the outgoing part saw (the guest cannot write it in between).
RunningNotPhantom ==
  \A p \in Pcpus : pc[p] = "task" /\ cur[p] \in Vcpus \ Foreign
                     => isPhantom[cur[p]] = 0

\* Every invocation of the handler returns: the retry loops are bounded, so
\* no amount of contention on phantom_count keeps a pCPU inside them.
HandlerReturns == \A p \in Pcpus : pc[p] # "task" ~> pc[p] = "task"

\* What the comment on the outgoing part and the README say: only a vCPU that
\* was preempted (RUNNING or WAKING) is phantom, not one that went to sleep.
PhantomWasPreempted ==
  \A v \in Vcpus : isPhantom[v] = 1 => offState[v] # "SLEEPING"

=============================================================================
