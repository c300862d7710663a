------------------------------ MODULE GuestOmp ------------------------------
(***************************************************************************)
(* omp_thread_reg (pvsched-ebpf/guest): the guest programs that tag the    *)
(* OpenMP threads (omp_threads_map) and keep, in the G2H slot of each      *)
(* guest CPU, whether that CPU is running a tagged thread.  The slots are  *)
(* what phantom_switch_handler reads on the host (PhantomSwitch).          *)
(*                                                                         *)
(* handle_switch is two steps, because the host can look at the slot       *)
(* between its two writes.  Tags are only added and removed by the thread  *)
(* they name, while it is current, so the lookups need no further split.   *)
(* Guest CPUs are named by their number; tasks by their TID.               *)
(***************************************************************************)
EXTENDS Integers, FiniteSets

CONSTANTS
  NbCpus,         \* guest CPUs
  NrMsgs,         \* NR_GUEST_IVSHMEM_MSGS: slots the kfunc accepts (64)
  Tids,           \* TIDs the guest kernel hands out
  Leader,         \* TID of the thread group leader
  Idle,           \* the idle task
  MaxEntries      \* max_entries of omp_threads_map (1000000)

Cpus == 0 .. NbCpus - 1

ASSUME GuestAssumption ==
  /\ NbCpus \in Nat \ {0}
  /\ NrMsgs \in Nat
  /\ MaxEntries \in Nat
  /\ Leader \in Tids
  /\ Idle \notin Tids
  /\ "none" \notin Tids \cup {Idle}

\* The order in which the loader attaches: probes, sched_switch, exit, exec.
Hooks == 0 .. 4

VARIABLES
  hooks,    \* how many of the programs are attached
  tracked,  \* keys of omp_threads_map
  slot,     \* slot[c]: msg of CPU c's G2H slot
  cur,      \* cur[c]: the task current on CPU c
  nxt,      \* nxt[c]: next of the switch in progress on c, or "none"
  alive,    \* TIDs in use
  exiting,  \* tasks past sched_process_exit that have not left their CPU
  missed,   \* TIDs that exited or exec'd while tagged, before the program
            \* that removes the tag was attached
  device,   \* FALSE once the ivshmem device has been unplugged
  shown,    \* CPUs whose current task was tagged when handle_switch brought
            \* it in, through the device, and has not called execve() since
  execTids, \* TIDs that tagged threads other than the leader gave up in execve()
  execCpus  \* the CPUs they did it on

kernel == <<cur, nxt, alive, exiting>>
execs  == <<execTids, execCpus>>
vars == <<hooks, tracked, slot, cur, nxt, alive, exiting, missed, device, shown,
          execs>>

TypeOK ==
  /\ hooks \in Hooks
  /\ tracked \subseteq Tids
  /\ slot \in [Cpus -> {0, 1}]
  /\ cur \in [Cpus -> Tids \cup {Idle}]
  /\ nxt \in [Cpus -> Tids \cup {Idle, "none"}]
  /\ alive \subseteq Tids
  /\ exiting \subseteq alive
  /\ missed \subseteq Tids
  /\ device \in BOOLEAN
  /\ shown \subseteq Cpus
  /\ execTids \subseteq Tids
  /\ execCpus \subseteq Cpus

\* The backend is zero-filled and the map empty.
Init ==
  /\ hooks = 0
  /\ tracked = {}
  /\ slot = [c \in Cpus |-> 0]
  /\ cur = [c \in Cpus |-> Idle]
  /\ nxt = [c \in Cpus |-> "none"]
  /\ alive = {}
  /\ exiting = {}
  /\ missed = {}
  /\ device = TRUE
  /\ shown = {}
  /\ execTids = {}
  /\ execCpus = {}

-----------------------------------------------------------------------------
(* guest_ivshmem_g2h_write_msg: refused without a device and for an index  *)
(* past the page; the programs ignore the refusal.                         *)

\* Mutation of G2hWrite: the CPU's number is not used.
G2hWrite_First(c, m) ==
  slot' = IF device /\ c < NrMsgs THEN [slot EXCEPT ![0] = m] ELSE slot

G2hWrite(c, m) ==
  slot' = IF device /\ c < NrMsgs THEN [slot EXCEPT ![c] = m] ELSE slot

\* A tagged task's slot is written; an untagged task's is left alone.
WriteIfTracked(c, t, m) ==
  IF t \in tracked THEN G2hWrite(c, m) ELSE UNCHANGED slot

Attach ==
  /\ hooks < 4
  /\ hooks' = hooks + 1
  /\ UNCHANGED <<tracked, slot, kernel, missed, device, shown, execs>>

\* guest_ivshmem_remove on a hot unplug (in full in GuestDriver).
Unplug ==
  /\ device
  /\ device' = FALSE
  /\ UNCHANGED <<hooks, tracked, slot, kernel, missed, shown, execs>>

\* clone(): a TID is handed out, possibly one that was used before.
Spawn(t) ==
  /\ t \notin alive
  /\ alive' = alive \cup {t}
  /\ UNCHANGED <<hooks, tracked, slot, cur, nxt, exiting, missed, device, shown,
                 execs>>

\* Task t runs user code on CPU c.
RunsOn(t, c) == cur[c] = t /\ nxt[c] = "none" /\ t \in alive \ exiting

\* GOMP_parallel or gomp_thread_start.  A failed update (map full) is ignored.
CaptureOmpThread(c, t) ==
  /\ hooks >= 1
  /\ RunsOn(t, c)
  /\ tracked' = IF Cardinality(tracked) < MaxEntries THEN tracked \cup {t} ELSE tracked
  /\ UNCHANGED <<hooks, slot, kernel, missed, device, shown, execs>>

\* Mutation of RemoveCurrentTid: the tag goes, the slot is not cleared.
RemoveCurrentTid_NoWrite(c, t, h) ==
  /\ tracked' = IF hooks >= h THEN tracked \ {t} ELSE tracked
  /\ missed' = IF hooks < h /\ t \in tracked THEN missed \cup {t} ELSE missed
  /\ UNCHANGED slot

\* Mutation of RemoveCurrentTid: the slot is cleared, the tag stays.
RemoveCurrentTid_WriteOnly(c, t, h) ==
  /\ IF hooks >= h THEN WriteIfTracked(c, t, 0) ELSE UNCHANGED slot
  /\ missed' = IF hooks < h /\ t \in tracked THEN missed \cup {t} ELSE missed
  /\ UNCHANGED tracked

\* remove_current_tid, run by the program that is the h-th attached.
RemoveCurrentTid(c, t, h) ==
  IF hooks >= h
  THEN /\ WriteIfTracked(c, t, 0)
       /\ tracked' = tracked \ {t}
       /\ UNCHANGED missed
  ELSE /\ missed' = IF t \in tracked THEN missed \cup {t} ELSE missed
       /\ UNCHANGED <<slot, tracked>>

RemoveExitedOmpThread(c, t) ==
  /\ RunsOn(t, c)
  /\ RemoveCurrentTid(c, t, 3)
  /\ exiting' = exiting \cup {t}
  /\ UNCHANGED <<hooks, cur, nxt, alive, device, shown, execs>>

RemoveExecedOmpThread(c, t) ==
  /\ RunsOn(t, c)
  /\ t = Leader
  /\ RemoveCurrentTid(c, t, 4)
  /\ shown' = shown \ {c}
  /\ UNCHANGED <<hooks, kernel, device, execs>>

\* execve() by another thread: the kernel waits until the rest of the group
\* is gone and gives the caller the leader's TID before sched_process_exec.
RemoveExecedWorker(c, t) ==
  /\ RunsOn(t, c)
  /\ t # Leader
  /\ alive = {t}
  /\ cur' = [cur EXCEPT ![c] = Leader]
  /\ alive' = {Leader}
  /\ RemoveCurrentTid(c, Leader, 4)
  /\ shown' = shown \ {c}
  /\ execTids' = execTids \cup (tracked \cap {t})
  /\ execCpus' = IF t \in tracked THEN execCpus \cup {c} ELSE execCpus
  /\ UNCHANGED <<hooks, nxt, exiting, device>>

\* Mutation of SwitchPrev: the outgoing thread's slot is left as it is.
SwitchPrev_NoWrite(c, n) ==
  /\ nxt[c] = "none"
  /\ n # cur[c]
  /\ n \in {Idle} \cup (alive \ exiting)
  /\ n \in Tids => \A d \in Cpus : cur[d] # n /\ nxt[d] # n
  /\ nxt' = [nxt EXCEPT ![c] = n]
  /\ shown' = shown \ {c}
  /\ UNCHANGED <<hooks, tracked, slot, cur, alive, exiting, missed, device, execs>>

\* handle_switch, first half: prev is looked up.
SwitchPrev(c, n) ==
  /\ nxt[c] = "none"
  /\ n # cur[c]
  /\ n \in {Idle} \cup (alive \ exiting)
  /\ n \in Tids => \A d \in Cpus : cur[d] # n /\ nxt[d] # n
  /\ nxt' = [nxt EXCEPT ![c] = n]
  /\ IF hooks >= 2 THEN WriteIfTracked(c, cur[c], 0) ELSE UNCHANGED slot
  /\ shown' = shown \ {c}
  /\ UNCHANGED <<hooks, tracked, cur, alive, exiting, missed, device, execs>>

\* Mutation of SwitchNext: prev is looked up again instead of next.
SwitchNext_ByPrev(c) ==
  /\ nxt[c] # "none"
  /\ cur' = [cur EXCEPT ![c] = nxt[c]]
  /\ nxt' = [nxt EXCEPT ![c] = "none"]
  /\ IF hooks >= 2 THEN WriteIfTracked(c, cur[c], 1) ELSE UNCHANGED slot
  /\ shown' = IF hooks >= 2 /\ device /\ nxt[c] \in tracked
              THEN shown \cup {c} ELSE shown
  /\ alive' = alive \ (exiting \cap {cur[c]})
  /\ exiting' = exiting \ {cur[c]}
  /\ UNCHANGED <<hooks, tracked, missed, device, execs>>

\* handle_switch, second half: next is looked up, and the kernel switches.
\* A task that had exited leaves its CPU for good; its TID is free again at the
\* latest now.
SwitchNext(c) ==
  /\ nxt[c] # "none"
  /\ cur' = [cur EXCEPT ![c] = nxt[c]]
  /\ nxt' = [nxt EXCEPT ![c] = "none"]
  /\ IF hooks >= 2 THEN WriteIfTracked(c, nxt[c], 1) ELSE UNCHANGED slot
  /\ shown' = IF hooks >= 2 /\ device /\ nxt[c] \in tracked
              THEN shown \cup {c} ELSE shown
  /\ alive' = alive \ (exiting \cap {cur[c]})
  /\ exiting' = exiting \ {cur[c]}
  /\ UNCHANGED <<hooks, tracked, missed, device, execs>>

Next ==
  \/ Attach
  \/ Unplug
  \/ \E t \in Tids : Spawn(t)
  \/ \E c \in Cpus, t \in Tids :
       \/ CaptureOmpThread(c, t)
       \/ RemoveExitedOmpThread(c, t)
       \/ RemoveExecedOmpThread(c, t)
       \/ RemoveExecedWorker(c, t)
  \/ \E c \in Cpus, n \in Tids \cup {Idle} : SwitchPrev(c, n)
  \/ \E c \in Cpus : SwitchNext(c)

Spec == Init /\ [][Next]_vars

-----------------------------------------------------------------------------
(* Between two switches, a slot that reads 1 means that the CPU is running *)
(* a tagged thread: no exit, exec or migration leaves the 1 behind (the    *)
(* comment of remove_current_tid: "the vCPU's run state would stay stuck   *)
(* at 1").  While a switch is in progress the slot reads 0.  CPUs on which *)
(* a tagged thread that is not the leader called execve() are excepted:    *)
(* such a thread does not keep "the same TID" (omp_thread_reg.bpf.c:111),  *)
(* so remove_execed_omp_thread misses its tag and the 1 stays.  It also    *)
(* stays when the device is unplugged while a tagged thread runs           *)
(* (guest_ivshmem.c:281-284).                                              *)
SlotMeansOmp ==
  device => \A c \in Cpus \ execCpus :
              slot[c] = 1 => cur[c] \in tracked /\ nxt[c] = "none"

(* A tagged thread that handle_switch brought in stays visible to the host *)
(* for as long as it runs and keeps its tag, on whatever CPU it runs and   *)
(* whatever the other CPUs do (omp_thread_reg.bpf.c:140-146).              *)
OmpThreadShown ==
  \A c \in shown :
    c < NrMsgs /\ cur[c] \in tracked => slot[c] = 1

(* A tag never outlives its thread, so a task that reuses the TID does not *)
(* inherit it (omp_thread_reg.bpf.c:93-96); the only exceptions are the    *)
(* threads that exited before the exit program was attached, and those     *)
(* that gave up their TID in execve().                                     *)
TagsAreAlive == tracked \subseteq (alive \ exiting) \cup missed \cup execTids

=============================================================================
