------------------------------ MODULE EndToEnd ------------------------------
(***************************************************************************)
(* From an OpenMP thread in the guest to the phantom count on the host:    *)
(* the guest programs (GuestOmp) and the host's accounting (PhantomSet,    *)
(* which PhantomSwitch implements) share the G2H slots.                    *)
(*                                                                         *)
(* Guest CPU c runs on vCPU c.  Its kernel, its threads and its programs   *)
(* take steps only while the vCPU executes, so the host can stop a guest   *)
(* CPU anywhere, between the two writes of handle_switch too.              *)
(***************************************************************************)
EXTENDS GuestOmp

VARIABLES on, leaving, coming, runnable, swapped, phantom, count, lost

host == <<on, leaving, coming, runnable, swapped, phantom, count, lost>>
allVars == <<vars, host>>

Host == INSTANCE PhantomSet WITH
  Vcpus <- Cpus, NbVcpus <- NbCpus, Foreign <- {}

\* The VM is registered, then the guest loads its programs.
EndInit == Init /\ Host!Init

\* A step of the guest on CPU c.
GuestStep(c) ==
  /\ c \in on
  /\ \/ Attach
     \/ Unplug
     \/ \E t \in Tids :
          \/ Spawn(t)
          \/ CaptureOmpThread(c, t)
          \/ RemoveExitedOmpThread(c, t)
          \/ RemoveExecedOmpThread(c, t)
          \/ RemoveExecedWorker(c, t)
     \/ \E n \in Tids \cup {Idle} : SwitchPrev(c, n)
     \/ SwitchNext(c)
  /\ UNCHANGED host

\* A step of the host for vCPU v.
HostStep(v) ==
  /\ \/ /\ v \in on
        /\ \E stay \in SUBSET {v} : \E swap \in SUBSET stay :
             Host!Switch({v}, stay, swap, {})
     \/ v \in Host!Off /\ Host!Switch({}, {}, {}, {v})
     \/ v \in leaving /\ (Host!Mark(v) \/ Host!Complete({v}, {}))
     \/ v \in coming /\ (Host!Unmark(v) \/ Host!Complete({}, {v}))
  /\ UNCHANGED <<hooks, tracked, kernel, missed, device, shown, execs>>

EndNext == \E c \in Cpus : GuestStep(c) \/ HostStep(c)

EndSpec == EndInit /\ [][EndNext]_allVars

-----------------------------------------------------------------------------
\* A vCPU the host holds for phantom has been stopped in the middle of a
\* tagged thread, neither in another task nor in a guest context switch --
\* although the host only ever sees a slot, and the thread may since have been
\* sent to exit or to another CPU.  CPUs on which a tagged thread other than
\* the leader called execve(), and a guest whose device was unplugged, are
\* excepted (handle_switch with the outgoing part of phantom_switch_handler).
PhantomRunsOmp ==
  device => \A v \in phantom \ execCpus : cur[v] \in tracked /\ nxt[v] = "none"

\* vCPUs that are off although runnable, and were stopped in a tagged thread
\* that handle_switch had brought in.
PreemptedOmp == {v \in Host!Off \cap runnable \cap shown :
                   v < NrMsgs /\ cur[v] \in tracked}

\* Conversely, a vCPU that the host took off its pCPU while it was runnable
\* and ran a tagged thread that handle_switch had brought in is phantom for as
\* long as it is off -- except the vCPUs the host kernel preempted in favour of
\* another vCPU: sched_switch reports them as TASK_REPORT_MAX, the test at
\* create_maps.bpf.c:222 rejects them, and they are missed (handle_switch with
\* phantom_switch_handler).
PreemptedOmpIsPhantom == PreemptedOmp \ swapped \subseteq phantom

\* So phantom_count lies between the preempted vCPUs that run a visible OpenMP
\* thread and were not replaced by another vCPU, and the stopped ones that run
\* any OpenMP thread and were not so replaced, unless a retry loop gave up, a
\* worker called execve() or the device was unplugged.
CountMeansOmp ==
  lost = 0 =>
    /\ count >= Cardinality(PreemptedOmp \ swapped)
    /\ device /\ execCpus = {} =>
         count <= Cardinality({v \in Cpus \ (on \cup swapped) : cur[v] \in tracked})

\* What PhantomSwitch assumes of the guest holds of its programs: each writes
\* no slot but that of the CPU it runs on, and only while that vCPU executes
\* (WRITE_G2H_STATE with bpf_get_smp_processor_id()).
GuestWritesOwnSlot == Host!Spec

=============================================================================
