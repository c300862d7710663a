--------------------------- MODULE EndToEndProofs ---------------------------
(***************************************************************************)
(* Proofs about GuestOmp and EndToEnd, for any number of CPUs and TIDs:    *)
(* what the G2H slots tell the host, that tags do not outlive their        *)
(* threads, and what the phantom set on the host says about the OpenMP     *)
(* threads in the guest; and about guest_ivshmem.ko, which they write the  *)
(* slots through (GuestDriver): no use after free, for any number of       *)
(* devices, CPUs and files.                                                *)
(*                                                                         *)
(* GuestDriver shares neither variables nor constants with the others.     *)
(***************************************************************************)
EXTENDS EndToEnd, GuestDriver, FiniteSetTheorems, TLAPS

-----------------------------------------------------------------------------
(* guest_ivshmem.ko.                                                       *)

\* The state without the flag bpf, which none of the arguments needs.
DriverTypes ==
  /\ module \in {"unloaded", "probing", "loaded", "exiting"}
  /\ plugged \subseteq Devices
  /\ bound \in [Devices -> {"no", "bound", "removing"}]
  /\ guest \in Devices \cup {None}
  /\ live = {d \in Devices : bound[d] # "no"}
  /\ chardev \in Devices \cup {None}
  /\ rd \in [KfuncCpus -> Devices \cup {Outside}]
  /\ grace \in [Devices -> SUBSET KfuncCpus]
  /\ file \in [Files -> Devices \cup {None, Closed}]

\* A published struct is not being removed, and the removal of a struct waits
\* for every caller that holds it.
RcuInv ==
  /\ guest # None => bound[guest] = "bound"
  /\ \A c \in KfuncCpus : rd[c] # Outside =>
       \/ bound[rd[c]] = "bound"
       \/ bound[rd[c]] = "removing" /\ c \in grace[rd[c]]

\* Files and the cdev are there between init and exit only, when nothing is
\* removed unless it is unplugged.
UserInv ==
  /\ module # "loaded" => chardev = None /\ \A f \in Files : file[f] = Closed
  /\ plugged = Devices =>
       /\ \A d \in Devices : bound[d] = "removing" => module = "exiting"
       /\ chardev # None => guest # None /\ bound[chardev] = "bound"
       /\ \A f \in Files : file[f] # Closed =>
            file[f] \in Devices /\ bound[file[f]] = "bound"

DriverInv == DriverTypes /\ RcuInv /\ UserInv

\* The unloaded module has no state.
LEMMA DriverInitial ==
  DriverInit => DriverInv
BY DriverAssumption DEF DriverInit, DriverInv, DriverTypes, RcuInv, UserInv

\* A probe publishes a struct that it has just allocated.
LEMMA DriverProbe ==
  ASSUME DriverInv, NEW d \in Devices, Probe(d)
  PROVE  DriverInv'
<1>1. DriverTypes'
  BY DEF DriverInv, DriverTypes, Probe
<1>2. RcuInv'
  BY DriverAssumption DEF DriverInv, DriverTypes, RcuInv, Probe
<1>3. UserInv'
  BY DriverAssumption DEF DriverInv, DriverTypes, UserInv, Probe
<1>4. QED
  BY <1>1, <1>2, <1>3 DEF DriverInv

\* A removal unpublishes before it waits for the readers.
LEMMA DriverRemoveBegin ==
  ASSUME DriverInv, NEW d \in Devices, RemoveBegin(d)
  PROVE  DriverInv'
<1>1. DriverTypes'
  BY DEF DriverInv, DriverTypes, RemoveBegin
<1>2. RcuInv'
  BY DriverAssumption DEF DriverInv, DriverTypes, RcuInv, RemoveBegin
<1>3. UserInv'
  <2>1. CASE plugged' = Devices
    <3>1. module = "exiting" /\ plugged = Devices
      BY <2>1 DEF RemoveBegin
    <3>2. QED
      BY <3>1 DEF DriverInv, DriverTypes, UserInv, RemoveBegin
  <2>2. CASE plugged' # Devices
    BY <2>2 DEF DriverInv, UserInv, RemoveBegin
  <2>3. QED
    BY <2>1, <2>2
<1>4. QED
  BY <1>1, <1>2, <1>3 DEF DriverInv

\* The struct is freed when its readers are gone.
LEMMA DriverRemoveEnd ==
  ASSUME DriverInv, NEW d \in Devices, RemoveEnd(d)
  PROVE  DriverInv'
<1>1. DriverTypes'
  BY DEF DriverInv, DriverTypes, RemoveEnd
<1>2. RcuInv'
  BY DriverAssumption DEF DriverInv, DriverTypes, RcuInv, RemoveEnd
<1>3. UserInv'
  BY DriverAssumption DEF DriverInv, DriverTypes, UserInv, RemoveEnd
<1>4. QED
  BY <1>1, <1>2, <1>3 DEF DriverInv

\* Readers and files take the published struct.
LEMMA DriverUsers ==
  ASSUME DriverInv,
         \/ \E c \in KfuncCpus : G2hReadLock(c) \/ G2hWriteUnlock(c)
         \/ \E f \in Files : Open(f) \/ Release(f)
  PROVE  DriverInv'
<1>1. ASSUME NEW c \in KfuncCpus, G2hReadLock(c) PROVE DriverInv'
  BY <1>1, DriverAssumption DEF DriverInv, DriverTypes, RcuInv, UserInv,
              G2hReadLock
<1>2. ASSUME NEW c \in KfuncCpus, G2hWriteUnlock(c) PROVE DriverInv'
  BY <1>2, DriverAssumption DEF DriverInv, DriverTypes, RcuInv, UserInv,
              G2hWriteUnlock
<1>3. ASSUME NEW f \in Files, Open(f) PROVE DriverInv'
  <2>1. DriverTypes' /\ RcuInv'
    BY <1>3 DEF DriverInv, DriverTypes, RcuInv, Open
  <2>2. UserInv'
    <3>1. module = "loaded" /\ module' = module
      BY <1>3 DEF DriverInv, UserInv, Open
    <3>2. ASSUME plugged = Devices PROVE guest \in Devices /\ bound[guest] = "bound"
      BY <1>3, <3>2 DEF DriverInv, DriverTypes, RcuInv, UserInv, Open
    <3>3. QED
      BY <1>3, <3>1, <3>2 DEF DriverInv, DriverTypes, UserInv, Open
  <2>3. QED
    BY <2>1, <2>2 DEF DriverInv
<1>4. ASSUME NEW f \in Files, Release(f) PROVE DriverInv'
  BY <1>4 DEF DriverInv, DriverTypes, RcuInv, UserInv, Release
<1>5. QED
  BY <1>1, <1>2, <1>3, <1>4

\* Every step keeps the invariant.
LEMMA DriverStep ==
  ASSUME DriverInv, [DriverNext]_driverVars
  PROVE  DriverInv'
<1>1. ASSUME ModuleInit \/ InitFails PROVE DriverInv'
  BY <1>1 DEF ModuleInit, InitFails, DriverInv, DriverTypes, RcuInv, UserInv
<1>2. ASSUME InitSucceeds PROVE DriverInv'
  BY <1>2 DEF InitSucceeds, DriverInv, DriverTypes, RcuInv, UserInv
<1>3. ASSUME ModuleExit PROVE DriverInv'
  BY <1>3 DEF ModuleExit, DriverInv, DriverTypes, RcuInv, UserInv
<1>4. ASSUME ModuleGone PROVE DriverInv'
  BY <1>4 DEF ModuleGone, DriverInv, DriverTypes, RcuInv, UserInv
<1>5. ASSUME LoadBpf \/ UnloadBpf \/ UNCHANGED driverVars PROVE DriverInv'
  BY <1>5 DEF LoadBpf, UnloadBpf, driverVars, DriverInv, DriverTypes,
              RcuInv, UserInv
<1>6. QED
  BY <1>1, <1>2, <1>3, <1>4, <1>5, DriverProbe, DriverRemoveBegin,
     DriverRemoveEnd, DriverUsers
  DEF DriverNext

\* The inductive invariant of guest_ivshmem.ko.
LEMMA DriverInvariant ==
  DriverSpec => []DriverInv
<1>1. DriverInv /\ [DriverNext]_driverVars => DriverInv'
  BY DriverStep
<1>2. QED
  BY <1>1, DriverInitial, PTL DEF DriverSpec

-----------------------------------------------------------------------------
\* A struct that a kfunc caller holds or can obtain is allocated, whatever is
\* plugged, unplugged, probed and unloaded meanwhile (guest_ivshmem_remove).
THEOREM RcuIsSafe ==
  DriverSpec => []RcuProtects
<1>1. DriverInv => RcuProtects
  BY DEF DriverInv, DriverTypes, RcuInv, RcuProtects
<1>2. QED
  BY <1>1, DriverInvariant, PTL

\* The cdev lies in the published struct, with one device that stays plugged in
\* (guest_ivshmem_init, guest_ivshmem_exit).
THEOREM ChardevIsPublished ==
  DriverSpec => []ChardevMatches
<1>1. DriverInv => ChardevMatches
  BY DEF DriverInv, DriverTypes, RcuInv, UserInv, ChardevMatches
<1>2. QED
  BY <1>1, DriverInvariant, PTL

\* An open file refers to an allocated struct, while no device is unplugged
\* (guest_ivshmem_open, guest_ivshmem_exit).
THEOREM FilesAreAlive ==
  DriverSpec => []OpenFileAlive
<1>1. DriverInv => OpenFileAlive
  BY DEF DriverInv, DriverTypes, UserInv, OpenFileAlive
<1>2. QED
  BY <1>1, DriverInvariant, PTL

-----------------------------------------------------------------------------
(* The OpenMP threads of the guest.                                        *)

(* The state has its types initially.                                      *)
LEMMA TypeInit == Init => TypeOK
BY GuestAssumption DEF Init, TypeOK, Hooks, Cpus

(* remove_current_tid keeps the types of what it changes.                  *)
LEMMA RemoveType ==
  ASSUME TypeOK, NEW c \in Cpus, NEW t \in Tids, NEW h \in {3, 4},
         RemoveCurrentTid(c, t, h)
  PROVE  /\ tracked' \subseteq Tids
         /\ slot' \in [Cpus -> {0, 1}]
         /\ missed' \subseteq Tids
BY DEF TypeOK, RemoveCurrentTid, WriteIfTracked, G2hWrite

(* Every step keeps the types.                                             *)
LEMMA TypeNext == TypeOK /\ [Next]_vars => TypeOK'
<1> SUFFICES ASSUME TypeOK, [Next]_vars PROVE TypeOK'
  OBVIOUS
<1>0. CASE Unplug
  BY <1>0 DEF TypeOK, Unplug, kernel, execs
<1>1. CASE Attach
  BY <1>1 DEF TypeOK, Attach, Hooks, kernel, execs
<1>2. ASSUME NEW t \in Tids, Spawn(t) PROVE TypeOK'
  BY <1>2 DEF TypeOK, Spawn, execs
<1>3. ASSUME NEW c \in Cpus, NEW t \in Tids, CaptureOmpThread(c, t) PROVE TypeOK'
  BY <1>3 DEF TypeOK, CaptureOmpThread, kernel, execs
<1>4. ASSUME NEW c \in Cpus, NEW t \in Tids, RemoveExitedOmpThread(c, t) PROVE TypeOK'
  <2>1. RemoveCurrentTid(c, t, 3)
    BY <1>4 DEF RemoveExitedOmpThread
  <2> QED BY <1>4, <2>1, RemoveType DEF TypeOK, RemoveExitedOmpThread, RunsOn, execs
<1>5. ASSUME NEW c \in Cpus, NEW t \in Tids, RemoveExecedOmpThread(c, t) PROVE TypeOK'
  <2>1. RemoveCurrentTid(c, t, 4)
    BY <1>5 DEF RemoveExecedOmpThread
  <2> QED BY <1>5, <2>1, RemoveType DEF TypeOK, RemoveExecedOmpThread, kernel, execs
<1>6. ASSUME NEW c \in Cpus, NEW t \in Tids, RemoveExecedWorker(c, t) PROVE TypeOK'
  <2>1. RemoveCurrentTid(c, Leader, 4) /\ Leader \in Tids
    BY <1>6, GuestAssumption DEF RemoveExecedWorker
  <2> QED BY <1>6, <2>1, RemoveType DEF TypeOK, RemoveExecedWorker, RunsOn
<1>7. ASSUME NEW c \in Cpus, NEW n \in Tids \cup {Idle}, SwitchPrev(c, n) PROVE TypeOK'
  BY <1>7 DEF TypeOK, SwitchPrev, WriteIfTracked, G2hWrite, execs
<1>8. ASSUME NEW c \in Cpus, SwitchNext(c) PROVE TypeOK'
  BY <1>8 DEF TypeOK, SwitchNext, WriteIfTracked, G2hWrite, execs
<1>9. CASE UNCHANGED vars
  BY <1>9 DEF TypeOK, vars, execs
<1> QED BY <1>0, <1>1, <1>2, <1>3, <1>4, <1>5, <1>6, <1>7, <1>8, <1>9 DEF Next

(* Every state has its types.                                              *)
THEOREM TypeCorrect == Spec => []TypeOK
BY TypeInit, TypeNext, PTL DEF Spec

-----------------------------------------------------------------------------
(* The scheduler runs a task on one CPU at a time: a task that is current  *)
(* or being switched in on one CPU is neither on another, and is alive.    *)
Alone ==
  /\ \A c, d \in Cpus : c # d =>
       \A t \in Tids : cur[c] = t \/ nxt[c] = t => cur[d] # t /\ nxt[d] # t
  /\ \A c \in Cpus :
       /\ cur[c] \in alive \cup {Idle}
       /\ nxt[c] \in alive \cup {Idle, "none"}
       /\ nxt[c] # cur[c]

(* Tasks are alone on their CPUs initially ...                             *)
LEMMA AloneInit == Init => Alone
BY GuestAssumption DEF Init, Alone

(* ... and after every step.                                               *)
LEMMA AloneNext == TypeOK /\ Alone /\ [Next]_vars => Alone'
<1> SUFFICES ASSUME TypeOK, Alone, [Next]_vars PROVE Alone'
  OBVIOUS
<1>1. CASE UNCHANGED <<cur, nxt, alive>>
  BY <1>1 DEF Alone
<1>2. ASSUME NEW t \in Tids, Spawn(t) PROVE Alone'
  BY <1>2 DEF Alone, Spawn
<1>3. ASSUME NEW c \in Cpus, NEW t \in Tids, RemoveExecedWorker(c, t) PROVE Alone'
  <2>1. /\ cur' = [cur EXCEPT ![c] = Leader] /\ nxt' = nxt /\ alive' = {Leader}
        /\ alive = {t} /\ t # Leader /\ cur[c] = t /\ nxt[c] = "none"
    BY <1>3 DEF RemoveExecedWorker, RunsOn
  <2>2. \A d \in Cpus : d # c => cur[d] = Idle /\ nxt[d] \in {Idle, "none"}
    BY <2>1 DEF Alone
  <2> QED BY <2>1, <2>2, GuestAssumption DEF Alone, TypeOK
<1>4. ASSUME NEW c \in Cpus, NEW n \in Tids \cup {Idle}, SwitchPrev(c, n) PROVE Alone'
  BY <1>4, GuestAssumption DEF Alone, TypeOK, SwitchPrev
<1>5. ASSUME NEW c \in Cpus, SwitchNext(c) PROVE Alone'
  <2>1. /\ cur' = [cur EXCEPT ![c] = nxt[c]] /\ nxt' = [nxt EXCEPT ![c] = "none"]
        /\ alive' = alive \ (exiting \cap {cur[c]}) /\ nxt[c] # "none"
    BY <1>5 DEF SwitchNext
  <2>2. \A t \in alive : t # cur[c] => t \in alive'
    BY <2>1
  <2> QED BY <2>1, <2>2, GuestAssumption DEF Alone, TypeOK
<1> QED BY <1>1, <1>2, <1>3, <1>4, <1>5
        DEF Next, vars, kernel, Attach, Unplug, CaptureOmpThread,
            RemoveExitedOmpThread, RemoveExecedOmpThread

-----------------------------------------------------------------------------
(* SlotMeansOmp, and where a slot can be 1 at all: once handle_switch is   *)
(* attached and for CPUs that have a slot.                                 *)
SlotInv ==
  /\ SlotMeansOmp
  /\ \A c \in Cpus : slot[c] = 1 => hooks >= 2 /\ c < NrMsgs

(* No slot is 1 initially.                                                 *)
LEMMA SlotInit == Init => SlotInv
BY DEF Init, SlotInv, SlotMeansOmp

(* remove_current_tid on c keeps the meaning of every slot: c's is cleared *)
(* with the tag, and no other CPU is running the thread that loses it.     *)
LEMMA RemoveSlot ==
  ASSUME TypeOK, Alone, SlotInv, UNCHANGED <<hooks, device, cur, nxt, execCpus>>,
         NEW c \in Cpus, NEW t \in Tids, NEW h \in {3, 4}, cur[c] = t,
         RemoveCurrentTid(c, t, h)
  PROVE  SlotInv'
<1>1. CASE hooks < h
  BY <1>1 DEF RemoveCurrentTid, SlotInv, SlotMeansOmp, TypeOK, Hooks
<1>2. CASE hooks >= h
  <2>1. tracked' = tracked \ {t} /\ WriteIfTracked(c, t, 0)
    BY <1>2 DEF RemoveCurrentTid
  <2>2. \A d \in Cpus : slot'[d] = 1 => slot[d] = 1
    BY <2>1 DEF WriteIfTracked, G2hWrite, TypeOK
  <2>3. device /\ c \notin execCpus => slot'[c] # 1
    BY <2>1 DEF WriteIfTracked, G2hWrite, TypeOK, SlotInv, SlotMeansOmp
  <2>4. \A d \in Cpus : d # c => cur[d] # t
    BY DEF Alone
  <2> QED BY <2>1, <2>2, <2>3, <2>4 DEF SlotInv, SlotMeansOmp
<1> QED BY <1>1, <1>2 DEF TypeOK, Hooks

(* Every step keeps the meaning of the slots.                              *)
LEMMA SlotNext == TypeOK /\ Alone /\ SlotInv /\ [Next]_vars => SlotInv'
<1> SUFFICES ASSUME TypeOK, Alone, SlotInv, [Next]_vars PROVE SlotInv'
  OBVIOUS
<1>1. CASE Attach \/ Unplug
  BY <1>1 DEF SlotInv, SlotMeansOmp, Attach, Unplug, kernel, execs, TypeOK, Hooks
<1>2. ASSUME NEW t \in Tids, Spawn(t) PROVE SlotInv'
  BY <1>2 DEF SlotInv, SlotMeansOmp, Spawn, execs
<1>3. ASSUME NEW c \in Cpus, NEW t \in Tids, CaptureOmpThread(c, t) PROVE SlotInv'
  BY <1>3 DEF SlotInv, SlotMeansOmp, CaptureOmpThread, kernel, execs
<1>4. ASSUME NEW c \in Cpus, NEW t \in Tids, RemoveExitedOmpThread(c, t) PROVE SlotInv'
  BY <1>4, RemoveSlot DEF RemoveExitedOmpThread, RunsOn, execs
<1>5. ASSUME NEW c \in Cpus, NEW t \in Tids, RemoveExecedOmpThread(c, t) PROVE SlotInv'
  BY <1>5, RemoveSlot DEF RemoveExecedOmpThread, RunsOn, kernel, execs
<1>6. ASSUME NEW c \in Cpus, NEW t \in Tids, RemoveExecedWorker(c, t) PROVE SlotInv'
  <2>1. /\ cur' = [cur EXCEPT ![c] = Leader] /\ nxt' = nxt /\ hooks' = hooks
        /\ alive = {t} /\ cur[c] = t /\ device' = device
        /\ execCpus' = IF t \in tracked THEN execCpus \cup {c} ELSE execCpus
        /\ RemoveCurrentTid(c, Leader, 4)
    BY <1>6 DEF RemoveExecedWorker, RunsOn
  <2>2. \A d \in Cpus : slot'[d] = 1 => slot[d] = 1
    BY <2>1 DEF RemoveCurrentTid, WriteIfTracked, G2hWrite, TypeOK
  <2>3. device => \A d \in Cpus \ execCpus : d # c => slot[d] # 1
    <3>1. \A d \in Cpus : d # c => cur[d] = Idle
      BY <2>1 DEF Alone
    <3> QED BY <3>1, GuestAssumption DEF SlotInv, SlotMeansOmp, TypeOK
  <2>4. device /\ c \notin execCpus' => slot[c] # 1
    BY <2>1 DEF SlotInv, SlotMeansOmp
  <2>5. execCpus \subseteq execCpus'
    BY <2>1
  <2>6. device => \A d \in Cpus \ execCpus' : slot'[d] # 1
    BY <2>2, <2>3, <2>4, <2>5
  <2> QED BY <2>1, <2>2, <2>6 DEF SlotInv, SlotMeansOmp
<1>7. ASSUME NEW c \in Cpus, NEW n \in Tids \cup {Idle}, SwitchPrev(c, n) PROVE SlotInv'
  <2>1. \A d \in Cpus : slot'[d] = 1 => slot[d] = 1
    BY <1>7 DEF SwitchPrev, WriteIfTracked, G2hWrite, TypeOK
  <2>2. device /\ c \notin execCpus => slot'[c] # 1
    BY <1>7 DEF SwitchPrev, WriteIfTracked, G2hWrite, TypeOK, SlotInv, SlotMeansOmp
  <2> QED BY <1>7, <2>1, <2>2 DEF SwitchPrev, SlotInv, SlotMeansOmp, TypeOK, execs
<1>8. ASSUME NEW c \in Cpus, SwitchNext(c) PROVE SlotInv'
  <2>1. device /\ c \notin execCpus => slot[c] # 1
    BY <1>8 DEF SwitchNext, SlotInv, SlotMeansOmp
  <2>2. slot'[c] = 1 => \/ nxt[c] \in tracked /\ hooks >= 2 /\ c < NrMsgs
                        \/ slot[c] = 1
    BY <1>8 DEF SwitchNext, WriteIfTracked, G2hWrite, TypeOK
  <2>3. \A d \in Cpus : d # c => slot'[d] = slot[d]
    BY <1>8 DEF SwitchNext, WriteIfTracked, G2hWrite, TypeOK
  <2> QED BY <1>8, <2>1, <2>2, <2>3 DEF SwitchNext, SlotInv, SlotMeansOmp, TypeOK, execs
<1>9. CASE UNCHANGED vars
  BY <1>9 DEF SlotInv, SlotMeansOmp, vars, execs
<1> QED BY <1>1, <1>2, <1>3, <1>4, <1>5, <1>6, <1>7, <1>8, <1>9 DEF Next

(* On any number of CPUs and for any threads, a slot that reads 1 belongs  *)
(* to a CPU that is running a tagged thread; while the device is there,    *)
(* only the CPUs on which a tagged worker called execve() can differ.      *)
THEOREM SlotIsTruthful == Spec => []SlotMeansOmp
<1>1. SlotInv => SlotMeansOmp
  BY DEF SlotInv
<1> QED BY <1>1, TypeInit, TypeNext, AloneInit, AloneNext, SlotInit, SlotNext, PTL
        DEF Spec

-----------------------------------------------------------------------------
(* Every step keeps tags on live threads, or accounts for them in missed   *)
(* or execTids.                                                            *)
LEMMA TagsNext == TypeOK /\ TagsAreAlive /\ [Next]_vars => TagsAreAlive'
<1> SUFFICES ASSUME TypeOK, TagsAreAlive, [Next]_vars PROVE TagsAreAlive'
  OBVIOUS
<1>1. CASE UNCHANGED <<tracked, alive, exiting, missed, execTids>>
  BY <1>1 DEF TagsAreAlive
<1>2. ASSUME NEW t \in Tids, Spawn(t) PROVE TagsAreAlive'
  BY <1>2 DEF TagsAreAlive, Spawn, execs
<1>3. ASSUME NEW c \in Cpus, NEW t \in Tids, CaptureOmpThread(c, t) PROVE TagsAreAlive'
  BY <1>3 DEF TagsAreAlive, CaptureOmpThread, RunsOn, kernel, execs
<1>4. ASSUME NEW c \in Cpus, NEW t \in Tids, RemoveExitedOmpThread(c, t)
      PROVE  TagsAreAlive'
  BY <1>4 DEF TagsAreAlive, RemoveExitedOmpThread, RemoveCurrentTid, execs
<1>5. ASSUME NEW c \in Cpus, NEW t \in Tids, RemoveExecedOmpThread(c, t)
      PROVE  TagsAreAlive'
  BY <1>5 DEF TagsAreAlive, RemoveExecedOmpThread, RemoveCurrentTid, kernel, execs
<1>6. ASSUME NEW c \in Cpus, NEW t \in Tids, RemoveExecedWorker(c, t)
      PROVE  TagsAreAlive'
  <2>1. /\ alive = {t} /\ execTids' = execTids \cup (tracked \cap {t})
        /\ exiting \subseteq exiting' /\ RemoveCurrentTid(c, Leader, 4)
    BY <1>6 DEF RemoveExecedWorker
  <2>2. tracked' \subseteq tracked /\ missed \subseteq missed'
    BY <2>1 DEF RemoveCurrentTid
  <2> QED BY <2>1, <2>2 DEF TagsAreAlive
<1>7. ASSUME NEW c \in Cpus, SwitchNext(c) PROVE TagsAreAlive'
  BY <1>7 DEF TagsAreAlive, SwitchNext, execs
<1> QED BY <1>1, <1>2, <1>3, <1>4, <1>5, <1>6, <1>7
        DEF Next, vars, kernel, execs, Attach, Unplug, SwitchPrev

(* A TID that is handed out again never inherits a tag from a thread that  *)
(* exited after the exit program was attached, unless the tag is one that  *)
(* a worker left behind in execve().                                       *)
THEOREM TagsDieWithThreads == Spec => []TagsAreAlive
<1>1. Init => TagsAreAlive
  BY DEF Init, TagsAreAlive
<1> QED BY <1>1, TypeInit, TypeNext, TagsNext, PTL DEF Spec

-----------------------------------------------------------------------------
(* OmpThreadShown needs to know that a CPU leaves shown when its switch    *)
(* begins, and that its task loses the tag only by exiting or execve().    *)
ShownInv ==
  \A c \in shown :
    /\ nxt[c] = "none"
    /\ cur[c] \in tracked \cup exiting
    /\ c < NrMsgs /\ cur[c] \in tracked => slot[c] = 1

(* remove_current_tid for TID t, run on CPU c, touches c's slot only.      *)
LEMMA RemoveElsewhere ==
  ASSUME TypeOK, NEW c \in Cpus, NEW t \in Tids, NEW h \in {3, 4},
         RemoveCurrentTid(c, t, h)
  PROVE  /\ \A d \in Cpus : d # c => slot'[d] = slot[d]
         /\ t \notin tracked => slot' = slot
         /\ tracked' \subseteq tracked
         /\ tracked \subseteq tracked' \cup {t}
         /\ t \in tracked' => slot' = slot
BY DEF TypeOK, RemoveCurrentTid, WriteIfTracked, G2hWrite

(* Every step keeps tagged threads that were switched in visible.          *)
LEMMA ShownNext == TypeOK /\ Alone /\ ShownInv /\ [Next]_vars => ShownInv'
<1> SUFFICES ASSUME TypeOK, Alone, ShownInv, [Next]_vars PROVE ShownInv'
  OBVIOUS
<1>1. CASE UNCHANGED <<tracked, slot, cur, nxt, exiting, shown>>
  BY <1>1 DEF ShownInv
<1>2. ASSUME NEW c \in Cpus, NEW t \in Tids, CaptureOmpThread(c, t) PROVE ShownInv'
  <2>1. /\ tracked \subseteq tracked' /\ tracked' \subseteq tracked \cup {t}
        /\ UNCHANGED <<slot, cur, nxt, exiting, shown>>
        /\ t \notin exiting /\ cur[c] = t
    BY <1>2 DEF CaptureOmpThread, kernel, RunsOn
  <2>2. \A d \in shown : cur[d] = t => t \in tracked
    BY <2>1 DEF ShownInv
  <2> QED BY <2>1, <2>2 DEF ShownInv
<1>3. ASSUME NEW c \in Cpus, NEW t \in Tids, RemoveExitedOmpThread(c, t) PROVE ShownInv'
  <2>1. /\ UNCHANGED <<cur, nxt, shown>> /\ exiting' = exiting \cup {t}
        /\ cur[c] = t /\ RemoveCurrentTid(c, t, 3)
    BY <1>3 DEF RemoveExitedOmpThread, RunsOn
  <2>2. \A d \in shown : d \in Cpus /\ (d # c => cur[d] # t)
    BY <2>1 DEF Alone, TypeOK
  <2> QED BY <2>1, <2>2, RemoveElsewhere DEF ShownInv
<1>4. ASSUME NEW c \in Cpus, NEW t \in Tids, RemoveExecedOmpThread(c, t) PROVE ShownInv'
  <2>1. /\ UNCHANGED <<cur, nxt, exiting>> /\ shown' = shown \ {c}
        /\ cur[c] = t /\ RemoveCurrentTid(c, t, 4)
    BY <1>4 DEF RemoveExecedOmpThread, RunsOn, kernel
  <2>2. \A d \in shown : d \in Cpus /\ (d # c => cur[d] # t)
    BY <2>1 DEF Alone, TypeOK
  <2> QED BY <2>1, <2>2, RemoveElsewhere DEF ShownInv
<1>5. ASSUME NEW c \in Cpus, NEW t \in Tids, RemoveExecedWorker(c, t) PROVE ShownInv'
  <2>1. /\ cur' = [cur EXCEPT ![c] = Leader] /\ UNCHANGED <<nxt, exiting>>
        /\ shown' = shown \ {c} /\ alive = {t} /\ t # Leader
        /\ RemoveCurrentTid(c, Leader, 4) /\ Leader \in Tids
    BY <1>5, GuestAssumption DEF RemoveExecedWorker
  <2>2. \A d \in shown : d \in Cpus /\ (d # c => cur[d] # Leader /\ cur'[d] = cur[d])
    BY <2>1, GuestAssumption DEF Alone, TypeOK
  <2> QED BY <2>1, <2>2, RemoveElsewhere DEF ShownInv
<1>6. ASSUME NEW c \in Cpus, NEW n \in Tids \cup {Idle}, SwitchPrev(c, n)
      PROVE  ShownInv'
  BY <1>6 DEF ShownInv, TypeOK, SwitchPrev, WriteIfTracked, G2hWrite
<1>7. ASSUME NEW c \in Cpus, SwitchNext(c) PROVE ShownInv'
  <2>1. /\ cur' = [cur EXCEPT ![c] = nxt[c]] /\ nxt' = [nxt EXCEPT ![c] = "none"]
        /\ tracked' = tracked /\ exiting' = exiting \ {cur[c]}
        /\ c \notin shown
        /\ \A d \in Cpus : d # c => slot'[d] = slot[d]
    BY <1>7 DEF SwitchNext, ShownInv, WriteIfTracked, G2hWrite, TypeOK
  <2>2. c \in shown' => nxt[c] \in tracked /\ (c < NrMsgs => slot'[c] = 1)
    BY <1>7, <2>1 DEF SwitchNext, WriteIfTracked, G2hWrite, TypeOK
  <2>3. \A d \in shown' : d # c => d \in shown
    BY <1>7 DEF SwitchNext
  <2>4. \A d \in shown : d \in Cpus /\ (cur[d] \in exiting => cur[d] # cur[c])
    BY <2>1 DEF Alone, TypeOK
  <2> QED BY <2>1, <2>2, <2>3, <2>4 DEF ShownInv, TypeOK
<1> QED BY <1>1, <1>2, <1>3, <1>4, <1>5, <1>6, <1>7
        DEF Next, vars, kernel, Attach, Unplug, Spawn

(* Whoever calls execve(): a tagged thread that handle_switch brought in   *)
(* is visible in its CPU's slot for as long as it runs there.              *)
THEOREM RunningOmpThreadIsShown == Spec => []OmpThreadShown
<1>1. Init => ShownInv
  BY DEF Init, ShownInv
<1>2. ShownInv => OmpThreadShown
  BY DEF ShownInv, OmpThreadShown
<1> QED BY <1>1, <1>2, TypeInit, TypeNext, AloneInit, AloneNext, ShownNext, PTL
        DEF Spec

-----------------------------------------------------------------------------
(* The composition of the guest with the host, EndToEnd.                   *)

(* Every step of the composition is a step of the guest or leaves it alone.*)
LEMMA GuestProjects == EndNext \/ UNCHANGED allVars => [Next]_vars
<1>1. ASSUME NEW c \in Cpus, GuestStep(c) PROVE Next
  BY <1>1 DEF GuestStep, Next
<1>2. ASSUME NEW v \in Cpus, HostStep(v) PROVE UNCHANGED vars
  BY <1>2 DEF HostStep, vars, kernel, execs, Host!Switch, Host!Mark,
     Host!Unmark, Host!Complete
<1> QED BY <1>1, <1>2 DEF EndNext, allVars

(* The guest's invariants, which hold of every behaviour of EndSpec.       *)
GuestInv == TypeOK /\ Alone /\ SlotInv /\ ShownInv

(* They hold initially ...                                                 *)
LEMMA GuestInvInit == EndInit => GuestInv
<1> SUFFICES ASSUME EndInit PROVE GuestInv
  OBVIOUS
<1>1. Init
  BY DEF EndInit
<1>2. ShownInv
  BY <1>1 DEF Init, ShownInv
<1> QED BY <1>1, <1>2, TypeInit, AloneInit, SlotInit DEF GuestInv

(* ... and after every step.                                               *)
LEMMA GuestInvNext == GuestInv /\ [EndNext]_allVars => GuestInv'
BY GuestProjects, TypeNext, AloneNext, SlotNext, ShownNext DEF GuestInv

-----------------------------------------------------------------------------
(* What the guest may do to a slot: nothing, or a write to the slot of the *)
(* CPU it runs on.                                                         *)
LEMMA GuestStepSlot ==
  ASSUME TypeOK, NEW c \in Cpus, GuestStep(c)
  PROVE  slot' = slot \/ \E m \in {0, 1} : slot' = [slot EXCEPT ![c] = m]
<1> USE DEF WriteIfTracked, G2hWrite
<1>1. CASE Attach \/ Unplug
  BY <1>1 DEF Attach, Unplug
<1>2. ASSUME NEW t \in Tids, Spawn(t) \/ CaptureOmpThread(c, t) PROVE slot' = slot
  BY <1>2 DEF Spawn, CaptureOmpThread
<1>3. ASSUME NEW t \in Tids, RemoveExitedOmpThread(c, t) \/ RemoveExecedOmpThread(c, t)
                               \/ RemoveExecedWorker(c, t)
      PROVE  slot' = slot \/ slot' = [slot EXCEPT ![c] = 0]
  BY <1>3 DEF RemoveExitedOmpThread, RemoveExecedOmpThread, RemoveExecedWorker,
     RemoveCurrentTid
<1>4. ASSUME NEW n \in Tids \cup {Idle}, SwitchPrev(c, n)
      PROVE  slot' = slot \/ slot' = [slot EXCEPT ![c] = 0]
  BY <1>4 DEF SwitchPrev
<1>5. ASSUME SwitchNext(c) PROVE slot' = slot \/ slot' = [slot EXCEPT ![c] = 1]
  BY <1>5 DEF SwitchNext
<1> QED BY <1>1, <1>2, <1>3, <1>4, <1>5 DEF GuestStep

(* A step of the guest is a write of PhantomSet, or stutters.              *)
LEMMA GuestStepMaps ==
  ASSUME TypeOK, NEW c \in Cpus, GuestStep(c)
  PROVE  Host!Next \/ UNCHANGED Host!vars
<1>1. c \in on /\ UNCHANGED host
  BY DEF GuestStep
<1>2. CASE slot' = slot
  BY <1>1, <1>2 DEF Host!vars, host
<1>3. ASSUME NEW m \in {0, 1}, slot' = [slot EXCEPT ![c] = m] PROVE Host!Next
  <2>1. Host!Write(c, m)
    BY <1>1, <1>3 DEF Host!Write, host
  <2> QED BY <1>1, <2>1 DEF Host!Next
<1> QED BY <1>2, <1>3, GuestStepSlot

(* A step of the host is a step of PhantomSet.                             *)
LEMMA HostStepMaps == ASSUME NEW v \in Cpus, HostStep(v) PROVE Host!Next
<1>1. ASSUME v \in on, NEW stay \in SUBSET {v}, NEW swap \in SUBSET stay,
             Host!Switch({v}, stay, swap, {})
      PROVE  Host!Next
  <2>1. {v} \in SUBSET on /\ stay \in SUBSET {v} /\ {} \in SUBSET Host!Off
    BY <1>1
  <2> QED BY <1>1, <2>1 DEF Host!Next
<1>2. ASSUME v \in Host!Off, Host!Switch({}, {}, {}, {v}) PROVE Host!Next
  <2>1. {} \in SUBSET on /\ {} \in SUBSET {} /\ {v} \in SUBSET Host!Off
    BY <1>2
  <2> QED BY <1>2, <2>1 DEF Host!Next
<1>3. ASSUME v \in leaving, Host!Mark(v) PROVE Host!Next
  BY <1>3 DEF Host!Next
<1>4. ASSUME v \in coming, Host!Unmark(v) PROVE Host!Next
  BY <1>4 DEF Host!Next
<1>5. ASSUME v \in leaving, Host!Complete({v}, {}) PROVE Host!Next
  <2>1. {v} \in SUBSET leaving /\ {} \in SUBSET coming
    BY <1>5
  <2> QED BY <1>5, <2>1 DEF Host!Next
<1>6. ASSUME v \in coming, Host!Complete({}, {v}) PROVE Host!Next
  <2>1. {} \in SUBSET leaving /\ {v} \in SUBSET coming
    BY <1>6
  <2> QED BY <1>6, <2>1 DEF Host!Next
<1> QED BY <1>1, <1>2, <1>3, <1>4, <1>5, <1>6 DEF HostStep

(* The guest programs keep to what PhantomSwitch assumes of the guest: the *)
(* composition is a behaviour of PhantomSet.                               *)
THEOREM CompositionImplementsHost == EndSpec => GuestWritesOwnSlot
<1>1. EndInit => Host!Init
  BY DEF EndInit
<1>2. GuestInv /\ [EndNext]_allVars => [Host!Next]_(Host!vars)
  <2> SUFFICES ASSUME GuestInv, [EndNext]_allVars
               PROVE  Host!Next \/ UNCHANGED Host!vars
    OBVIOUS
  <2>1. CASE UNCHANGED allVars
    BY <2>1 DEF allVars, vars, host, Host!vars
  <2>2. CASE EndNext
    BY <2>2, GuestStepMaps, HostStepMaps DEF EndNext, GuestInv
  <2> QED BY <2>1, <2>2
<1> QED BY <1>1, <1>2, GuestInvInit, GuestInvNext, PTL
        DEF EndSpec, GuestWritesOwnSlot, Host!Spec

-----------------------------------------------------------------------------
(* What the host knows: an executing vCPU is not phantom, nor is one that  *)
(* was preempted in favour of another vCPU; a phantom one still has the 1  *)
(* in its slot; and one that is off although runnable, with a 1, and not   *)
(* so preempted is phantom.  The number is exact until an update is given  *)
(* up.                                                                     *)
HostInv ==
  /\ on \subseteq Cpus /\ leaving \subseteq Cpus /\ coming \subseteq Cpus
  /\ on \cap leaving = {} /\ on \cap coming = {} /\ leaving \cap coming = {}
  /\ phantom \subseteq Cpus \ (on \cup swapped)
  /\ \A v \in phantom : slot[v] = 1
  /\ \A v \in (Host!Off \cap runnable) \ swapped : slot[v] = 1 => v \in phantom
  /\ IsFiniteSet(phantom)
  /\ lost \in {0, 1}
  /\ lost = 0 => count = Cardinality(phantom)

(* It holds initially ...                                                  *)
LEMMA HostInvInit == EndInit => HostInv
<1> SUFFICES ASSUME EndInit PROVE HostInv
  OBVIOUS
<1> QED BY FS_EmptySet DEF EndInit, Host!Init, HostInv, Host!Off

(* ... and after every step: the guest writes a slot only on an executing  *)
(* vCPU, and the host marks before a vCPU is off and unmarks before it is  *)
(* on.                                                                     *)
LEMMA HostInvNext == TypeOK /\ HostInv /\ [EndNext]_allVars => HostInv'
<1> SUFFICES ASSUME TypeOK, HostInv, [EndNext]_allVars PROVE HostInv'
  OBVIOUS
<1>1. ASSUME NEW c \in Cpus, GuestStep(c) PROVE HostInv'
  <2>1. c \in on /\ UNCHANGED host
    BY <1>1 DEF GuestStep
  <2>2. \A v \in Cpus \ on : slot'[v] = slot[v]
    BY <1>1, <2>1, GuestStepSlot DEF TypeOK
  <2> QED BY <2>1, <2>2 DEF HostInv, host, Host!Off
<1>2. ASSUME NEW v \in Cpus, HostStep(v) PROVE HostInv'
  <2>1. ASSUME v \in on, NEW stay \in SUBSET {v}, NEW swap \in SUBSET stay,
               Host!Switch({v}, stay, swap, {})
        PROVE  HostInv'
    BY <2>1 DEF HostInv, Host!Switch, Host!Off
  <2>2. ASSUME v \in Host!Off, Host!Switch({}, {}, {}, {v}) PROVE HostInv'
    BY <2>2 DEF HostInv, Host!Switch, Host!Off
  <2>3. ASSUME v \in leaving, Host!Mark(v) PROVE HostInv'
    <3>1. phantom' = phantom \cup {v} /\ v \notin phantom \cup swapped
          /\ UNCHANGED <<on, leaving, coming, runnable, swapped, slot>>
      BY <2>3 DEF Host!Mark
    <3>2. IsFiniteSet(phantom') /\ Cardinality(phantom') = Cardinality(phantom) + 1
      BY <3>1, FS_AddElement DEF HostInv
    <3>3. lost' \in {0, 1} /\ (lost' = 0 => lost = 0 /\ count' = count + 1)
      BY <2>3 DEF Host!Mark, HostInv
    <3>4. slot[v] = 1
      BY <2>3 DEF Host!Mark
    <3>5. Host!Off' = Host!Off
      BY <3>1 DEF Host!Off
    <3> QED BY <2>3, <3>1, <3>2, <3>3, <3>4, <3>5 DEF HostInv
  <2>4. ASSUME v \in coming, Host!Unmark(v) PROVE HostInv'
    <3>1. phantom' = phantom \ {v} /\ v \in phantom
          /\ UNCHANGED <<on, leaving, coming, runnable, swapped, slot>>
      BY <2>4 DEF Host!Unmark
    <3>2. IsFiniteSet(phantom') /\ Cardinality(phantom') = Cardinality(phantom) - 1
      BY <3>1, FS_RemoveElement DEF HostInv
    <3>3. lost' \in {0, 1} /\ (lost' = 0 => lost = 0 /\ count' = count - 1)
      BY <2>4 DEF Host!Unmark, HostInv
    <3>4. v \notin Host!Off
      BY <2>4 DEF Host!Off
    <3>5. Host!Off' = Host!Off
      BY <3>1 DEF Host!Off
    <3> QED BY <3>1, <3>2, <3>3, <3>4, <3>5 DEF HostInv
  <2>5. ASSUME v \in leaving, Host!Complete({v}, {}) PROVE HostInv'
    BY <2>5 DEF HostInv, Host!Complete, Host!Off
  <2>6. ASSUME v \in coming, Host!Complete({}, {v}) PROVE HostInv'
    BY <2>6 DEF HostInv, Host!Complete, Host!Off
  <2> QED BY <1>2, <2>1, <2>2, <2>3, <2>4, <2>5, <2>6 DEF HostStep
<1>3. CASE UNCHANGED allVars
  BY <1>3 DEF HostInv, allVars, vars, host, Host!Off
<1> QED BY <1>1, <1>2, <1>3 DEF EndNext

(* The invariants of both sides together.                                  *)
LEMMA EndInvariant == EndSpec => [](GuestInv /\ HostInv)
<1>1. GuestInv => TypeOK
  BY DEF GuestInv
<1> QED BY <1>1, GuestInvInit, GuestInvNext, HostInvInit, HostInvNext, PTL
        DEF EndSpec

(* A phantom vCPU was stopped while it ran a tagged thread, on any number  *)
(* of CPUs and while the device is there (handle_switch with               *)
(* phantom_switch_handler).                                                *)
THEOREM PhantomMeansOmp == EndSpec => []PhantomRunsOmp
<1>1. GuestInv /\ HostInv => PhantomRunsOmp
  BY DEF GuestInv, HostInv, SlotInv, SlotMeansOmp, PhantomRunsOmp
<1> QED BY <1>1, EndInvariant, PTL

(* A vCPU taken off its pCPU runnable while it ran a visible OpenMP thread *)
(* is phantom until it is switched in again, unless the kernel preempted   *)
(* it in favour of another vCPU.                                           *)
THEOREM PreemptionIsNoticed == EndSpec => []PreemptedOmpIsPhantom
<1>1. GuestInv /\ HostInv => PreemptedOmpIsPhantom
  BY DEF GuestInv, HostInv, ShownInv, PreemptedOmp, PreemptedOmpIsPhantom
<1> QED BY <1>1, EndInvariant, PTL

(* phantom_count lies between the preempted vCPUs with a visible OpenMP    *)
(* thread and the stopped ones with any; neither counts those preempted in *)
(* favour of another vCPU.                                                 *)
THEOREM CountReachesOmp == EndSpec => []CountMeansOmp
<1>1. GuestInv /\ HostInv => CountMeansOmp
  <2> DEFINE Few  == PreemptedOmp \ swapped
             Many == {v \in Cpus \ (on \cup swapped) : cur[v] \in tracked}
  <2> SUFFICES ASSUME GuestInv, HostInv, lost = 0
               PROVE  /\ count >= Cardinality(Few)
                      /\ device /\ execCpus = {} => count <= Cardinality(Many)
    BY DEF CountMeansOmp
  <2>1. Few \subseteq phantom
    BY DEF GuestInv, HostInv, ShownInv, PreemptedOmp
  <2>2. device /\ execCpus = {} => phantom \subseteq Many
    BY DEF GuestInv, HostInv, SlotInv, SlotMeansOmp
  <2>3. IsFiniteSet(Many)
    <3>1. IsFiniteSet(Cpus)
      BY FS_Interval, GuestAssumption DEF Cpus
    <3>2. Many \subseteq Cpus
      OBVIOUS
    <3> QED BY <3>1, <3>2, FS_Subset
  <2> HIDE DEF Few, Many
  <2>4. phantom \subseteq Many => Cardinality(phantom) <= Cardinality(Many)
    BY <2>3, FS_Subset
  <2>5. Cardinality(Few) <= Cardinality(phantom)
    BY <2>1, FS_Subset DEF HostInv
  <2> QED BY <2>2, <2>4, <2>5 DEF HostInv
<1> QED BY <1>1, EndInvariant, PTL

=============================================================================
