# phantom-tracker: TLA+ models and proofs

phantom-tracker tells a guest how many of its vCPUs the host has preempted
while they were running OpenMP threads ("phantom" vCPUs).  This directory
holds TLA+ models of the tracker, translated from the code, TLC instances that
check them, and TLAPS proofs of the main invariants.

    tlc -workers 2 -config PhantomSwitch.cfg MCPhantomSwitch
    tlapm PhantomSwitchProofs.tla

`PROJECT.json` lists components, runs, the source lines of each definition,
mutants, findings, hazards and theorems.

## The system

| part | code | state it owns |
|---|---|---|
| guest OpenMP tracking | `pvsched-ebpf/guest/omp_thread_reg.bpf.c`, `.loader.c` | `omp_threads_map` |
| guest driver | `pvsched-shmem/guest/guest_ivshmem.c` | `guest_ivshmem` (RCU), the G2H slots, a character device |
| host driver | `pvsched-shmem/host/host_ivshmem.c` | `registry` (ids, backends), the H2G page |
| phantom accounting | `pvsched-ebpf/host/ebpf/create_maps/` | `vms`, `vcpus`: `is_phantom`, `phantom_count`; samples |
| watermark timer | `pvsched-ebpf/host/ebpf/timer/` | buffer swap, average, history cursor |
| idle average | `pvsched-ebpf/host/ebpf/idle_avg/` | `global_tracker_state` |
| message timer | `pvsched-ebpf/host/h2g_msg_timer/` | its index, writes to the H2G page |
| registration, cleanup | `pvsched-ebpf/host/user/`, `host/include/register_vm.h` | creates and deletes map entries |
| scripts, tests | `scripts/`, `test/` | none |

The data flows in a circle.  A guest CPU that switches to an OpenMP thread
writes 1 to its G2H slot, and 0 when it switches away (GuestOmp, through
GuestDriver).  When the host switches a vCPU thread out, the handler reads the
slot and, if it is 1 and the thread was preempted, sets `is_phantom` and
increments `phantom_count`; when it switches the thread in it undoes both
(PhantomSwitch).  Each change is appended to the collecting sample buffer;
every 4 ms a timer swaps the two buffers and averages the closed one
(SampleBuffers).  IdleTracker does the same for the runnable threads of the
host.  Both averages go to the guest as a watermark (Watermark) in the H2G page
(H2GChannel), which belongs to a backend that HostRegistry hands out.
TimerStart is how the three timers come to run.  The entries the handler works
on are put there and removed by tools that ask QEMU for the vCPU threads
(QmpDialogue, VmRegistration).

## Modules

**PhantomSwitch** — `phantom_switch_handler`, one instance per pCPU, for one
registered VM.  It is split where another pCPU can interfere: the flag CAS
(`InFlag`, `OutFlag`), each load and each exchange of the bounded retry loops
(`DecLoad`, `DecCas`, `IncLoad`, `IncCas`), and the hand-over to the samples
(`InSample`, `OutSample`).  The environment is the host scheduler
(`SchedSwitch`), the guest's slot writes (`GuestWrite`, only while the vCPU
executes), and a second run of the loader, which attaches a copy of the program
and takes it away again (`LoaderAttach`, `LoaderDetach`).  The kfunc reads the
slots of the first registered VM only; `Foreign` is the set of vCPUs whose slot
is therefore written by someone else's guest.  `lost` remembers that a retry
loop gave up.  A switch between two tasks that are no vCPUs changes nothing and
is left out.

`prev_state` is what the event reports (`Reported`): `TASK_RUNNING` for a thread
that calls `schedule()` itself and stays runnable (KVM does so before it enters
the guest), a sleeping state, or, for a thread the kernel preempted, the value
0x100, which the handler's test does not accept.  The handler copies it only when
the incoming task is a vCPU; otherwise its variable keeps the initial 0, and the
outgoing vCPU is marked however it left.  `swapped` remembers the vCPUs that were
preempted in favour of another vCPU, which are the ones the handler misses.

**PhantomSet** — what phantom accounting promises: a set of phantom vCPUs and
its size, which change together.  A vCPU that leaves its CPU runnable with a 1
in its slot is in the set before its switch is over, unless another vCPU
preempted it (`swapped`), and then it is not; one that executes is not either.
**PhantomRefinement** maps PhantomSwitch onto it: the promised set is `Counted`,
the flagged vCPUs corrected by the handlers between flag and counter, so that it
changes at the exchange that settles the counter.

**GuestOmp** — the five guest programs on all guest CPUs.  `handle_switch` is
two steps, since the host can look between its two writes.  The TID of a thread
that exits is free again at its last switch.  The kernel may free it earlier, for
a thread nobody waits for, and may preempt an exiting thread and resume it; the
thread's tag is gone by then and its slot 0, so neither makes a difference to the
properties.  `hooks` counts the programs the loader has attached so far, in its
order.  `device` is FALSE once the ivshmem device is unplugged (`Unplug`): every
write is then refused, and the slots stay as they are.
A thread other than the leader that calls `execve()` is given the leader's TID
by the kernel before the program runs (`RemoveExecedWorker`); `execTids` and
`execCpus` remember the tags and CPUs concerned.

**EndToEnd** — GuestOmp and PhantomSet composed over the same slots.  Guest CPU
`c` is vCPU `c` and takes steps only while it executes; the host can stop it
anywhere.

**SampleBuffers** — the tail of the handler (samplers, `Count` to `StoreTs`)
against `callback_fn` (`TimerEnd` to `TimerReturn`).  A sample is two words,
stored one after the other, and the callback can read between them.  History
fields (`of`, `opened`, `swritten`, `late`) say for which opening of the buffer
an entry was written.  `phantom_avg_cb` is one step per entry.  The result is
packed by `Pack` of **Watermark** (`write_watermark`: masks are remainders,
shifts are products).  **SampleExact** restricts SampleBuffers to behaviours
without overlap, where the average has an exact reference value: `area`, the
integral of the count since the period began.  `mark` is history: the value of
`area` at each entry.

**IdleTracker** — the idle average: switch handlers against
`idle_avg_timer_cb`, and loaders that come, are killed at any step, and come
again.  Flag, indices and averages are in a pinned map and survive; buffers and
timer belong to one load.  `nr_running_avg_sample_cb` is one step per entry, and
samplers may store between two of them; `hit` remembers one that stored the very
entry the average was at.

**H2GChannel** — `host_ivshmem_h2g_write_msg`, a history store and then a store
to slot 0, called by the watermark timer of every VM and by h2g_msg_timer.
`age` counts, per VM and slot, the watermarks since the slot was last written.
A new registration of a VM puts its cursor back to 0 (`Reregister`).

**TimerStart** — the `started` word of the three programs on all pCPUs.

**QmpDialogue** — `main` of register_vm up to `register_vm()`: connect, greeting,
`qmp_capabilities`, `query-cpus-fast`.  The tool takes the next line for the
reply; QEMU greets every connection, sends events in between, and can go away at
any time.  What comes after the reply is never read and does not count as a
disturbance (`Answered`).

**VmRegistration** — extends QmpDialogue by `register_vm`,
`cleanup_stale_vcpus`, `setup_vm_maps` and `cleanup`, one step per system call,
each of which can fail or be the last before a kill, run after run.  Meanwhile
handlers hold elements they have looked up.  A deleted element goes to the free
list with its contents and may be handed out again, under another key of the
tools' VM, with the pointers of all its holders still on it (`Gone`, `cut`).  A second VM is there throughout.
`torn`, `kept` and `raced` are history: the VM has lost entries, or kept stale
ones, since its count was reset; stale entries could not be deleted; a handler
that holds a deleted element has changed a flag or a count.

**GuestDriver** — `guest_ivshmem.ko`: load, unload, probe, remove, kfunc calls,
hot unplug, open files.  `grace` is the set of readers `synchronize_rcu()` waits
for.  `guest_ivshmem.c:331` names an undeclared id set; the model takes it to
mean `bpf_guest_ivshmem_kfunc_id_set`.

**HostRegistry** — `host_register_vm` called concurrently, split at its
accesses to the registry, with failing allocations, and the reload of the
module.

`*Proofs` hold theorems, `MC*` the symmetry sets and constants for TLC.

## Runs

| run | shows | distinct states |
|---|---|---|
| phantom | count exact, clamps unused, executing vCPUs not phantom, handlers return, PhantomSet implemented | 0.7 M |
| phantom_sleeper | **violated**: only preempted vCPUs are phantom | – |
| samples_race | average bounded, fresh entries, one writer per entry | 4.1 M |
| samples_exact | the average is the time-weighted average, and the watermark says so | 4.5 M |
| h2g | slot 0 against history with two writers, history cycles across cursor wraps between registrations | 2.7 M |
| timer_retry | timers armed once, and eventually unless the only attempt failed | 2.4 k |
| end_to_end | while the device is plugged in a 1 is never stale; tags die with threads; phantom vCPUs were stopped in OpenMP threads, and none is missed unless another vCPU preempted it | 4.5 M |
| registration | counts and entries across registrations and cleanups that fail, are killed and meet handlers; tools return | 0.5 M |
| idle | averages fresh after a reload, whole periods covered, the two averages belong together | 4.7 M |
| driver | no use after free through the RCU pointer; nor, while nothing is unplugged, through files and cdev | 2.7 k |
| driver_second | **violated**: a second device is rejected | – |
| registry_calls | ids and backends under concurrent calls | 98 k |

The violated ones state what a comment or a README says and the code does not
do; `findings` in `PROJECT.json` quotes the lines.  Six more sentences of the
documentation hold only with a restriction that the properties spell out:

* `pvsched-ebpf/README.md:80-83` and `create_maps.bpf.c:220`, a preempted vCPU is
  marked phantom: not when it is preempted in favour of another vCPU.  The handler
  then looks at the reported 0x100, which is neither of the two states it accepts
  (`ImplementsPromise`, `PreemptedOmpIsPhantom` and the lower bound of
  `CountMeansOmp` except `swapped`).  In favour of any other task the vCPU is
  marked, because its state is not looked at.
* `create_maps.bpf.c:124-128`, the clamp at 0 is for a vCPU that was already
  running when register_vm filled the map: such a vCPU has flag 0, so the CAS in
  line 119 fails and the clamp is not reached.  Within one registration it never
  takes effect (`ClampsUnused`), until a retry loop gives up.  It can when a
  registration replaces the VM's entry while a handler is between flag and count;
  VmRegistration models that, and `CountMatches` excepts it (`raced`).
* `pvsched-ebpf/README.md:84-85`, a vCPU switched in while phantom is cleared:
  for the first registered VM only (`RunningNotPhantom` excepts `Foreign`).
* `timer.bpf.c:14`, slot 0 always mirrors the newest watermark: not while
  h2g_msg_timer is loaded (`LatestIsSomeonesLast` allows either timer's message).
* `omp_thread_reg.bpf.c:111-112`, `execve()` keeps the same TID: not for a thread
  other than the leader (`SlotMeansOmp` and `PhantomRunsOmp` except the CPUs on
  which a tagged one did it).
* `h2g_msg_timer.bpf.c:72`, exactly one pCPU starts the timer: none does after a
  failed `bpf_timer_init`, since line 82 leaves `started` set (`EventuallyArmed`
  excepts that program after a failure).

### Bounds

* *phantom.*  Two pCPUs contend for the counter; with `MaxAttempts = 2` (24 in
  the code) a retry loop can really give up.  One of the two vCPUs is foreign.
  A vCPU beyond the last slot is never flagged; only the proofs cover that case.
* *samples.*  `Cap = 3` lets `count_end` be refused; `MaxPeriod = 2` lets a
  sampler be overtaken by a swap and by the reopening of its buffer.  `TsMod = 2`
  lets the timestamp wrap.
* *end_to_end.*  Two guest CPUs with two slots, two TIDs: threads migrate, TIDs
  are reused, both can be tagged, a worker can call `execve()`.  A CPU without a
  slot and a full map are covered by the proofs only.  Behaviours are followed
  until a retry loop gives up on the host (`NoUpdateLost`), and past an unplug
  only when it comes after all programs are attached and no tag was left behind
  (`UnplugLate`); unplugging at any time was checked once (14.7 M states) without
  error.
* *registration.*  Two threads and one of another VM, one event per connection,
  two runs of the tools: a run meets what a failed or killed one left.  One pCPU
  has one handler at a time, but it can hold an element across a whole run.
  Three runs were checked once (8.4 M states), and two pCPUs without events,
  with the inductive invariants of the proofs (9.1 M states), without error.
* *idle.*  One sampler, three callbacks, two loads: a load starts from the state
  of a killed one, and a sampler can be overtaken by reopening.  Sampled numbers
  lie below and above `NbCpus = 1`.
* *h2g.*  `NrMsgs = 4`, `CursorMod = 7`: as with 63 and 2^32, the modulus is no
  multiple of the window; `MaxStamp = 7` messages go round it twice, from any
  value of the cursor, which also moves while writes are refused.
* *driver.*  Two devices, two CPUs and two files: a second device and an unplug
  meet readers and files of the first.
* *registry_calls.*  `MaxDevices = 4` is reached by three callers in six calls.

### Fairness and deadlock

`phantom` assumes weak fairness of each pCPU's handler: a BPF program on a
tracepoint runs to its end, with preemption off.  `timer_retry` assumes that
context switches go on and that a started handler is carried on, and that
`bpf_timer_init` fails finitely often.  `registration` assumes that a started
tool is scheduled, and that QEMU, while it has not gone away, answers a command;
it does not assume that the socket of a VM ever appears, so `ToolReturns` speaks
of tools that are connected.  Deadlock is checked except where a bound on the
messages, samples, calls, runs or failures stops the model; the programs
themselves never stop.

## Proofs

Every invariant, action property and refinement that a passing run checks is
proved; only liveness is left to TLC.  The theorems hold for every value of the
constants that satisfies the named assumptions (`ConstAssumption`,
`BufferAssumption`, `WatermarkAssumption`, `ChannelAssumption`,
`TimerAssumption`, `IdleAssumption`, `GuestAssumption`,
`RegistrationAssumption`, `DriverAssumption`, `RegistryAssumption`).  None of
them bounds a set of CPUs, threads or devices except to be finite where something
is counted.  `ChannelAssumption` takes the cursor's modulus (2^32) to be no less
than the number of history slots (63).

Three proof modules hold the theorems of two components that share neither
variables nor constants.  They extend both, which is why the specifications of
H2GChannel, GuestDriver and TimerStart have names of their own (`ChannelSpec`,
`DriverSpec`, `FairSpec`).

* **PhantomSwitchProofs.**  `CountAccurate` is inductive only together with
  facts about who may touch a flag: a vCPU is current or next on at most one
  pCPU, it is not both, and a handler between its flag CAS and its count CAS
  still has its vCPU's flag as it left it.  Then each step changes
  `Cardinality(Counted)` as it changes `count`.  `ClampsUnused` follows by
  counting: a pending decrement is itself counted, a pending increment is not.
  `RunningNotPhantom` needs that the slot of a flagged vCPU still holds the 1,
  because its guest cannot execute.  `HandlersImplementPromise` maps every action
  to one action of PhantomSet or to none; it needs, beyond these, that a handler
  past its increment leaves the flag set, that refused slots stay 0, and that a
  vCPU on its way out is in `swapped` just when it was preempted and the incoming
  task is a vCPU, so that no handler increments for it (`SwapKnown`).
* **EndToEndProofs.**  For the guest alone, `SlotMeansOmp` is inductive together
  with two facts: a task is current, or being switched in, on one CPU only
  (`Alone`), so a tag that goes is no other CPU's; and only CPUs with a slot read
  1, once `handle_switch` is attached, so that the write that clears a slot is
  never refused while the device is there.  A tagged worker's `execve()` leaves the 1 behind on its CPU; the
  theorem excepts that CPU and no other: the caller is the last thread of its
  group, so the other CPUs run none of its threads.  `OmpThreadShown` needs no
  exception.  For the composition, every guest step is a `GuestWrite` of
  PhantomSet or none (`CompositionImplementsHost`), and a phantom vCPU is off or
  on its way, so its guest and its slot are as they were when it was stopped;
  hence `PhantomRunsOmp`, `PreemptedOmpIsPhantom` and, by counting,
  `CountMeansOmp`.
* **EndToEndProofs, GuestDriver.**  A reader's struct is allocated because a
  `RemoveBegin` that is not finished has the reader in its grace set, and the
  published struct is one whose removal has not begun.  `OpenFileAlive` needs in
  addition that files keep the module loaded.
* **SampleBuffersProofs.**  Whatever the interleaving, every word stored as a
  count lies in `0 .. nb_vcpus`, so `sum <= nb_vcpus * total` is inductive, and the
  quotient is bounded; therefore it fits its field, and `WatermarkTellsAverage`
  follows by arithmetic.  Freshness rests on the numbers of the openings
  (`Openings`), on the boundary samples belonging to them and, from the second
  opening on, the index never falling back to 0 (`Boundaries`), and on
  `FreshEntries`: below the index an entry is of the current opening or its
  writer still holds it.
* **SampleExactProofs.**  The callback sums over all entries of a buffer, and
  there is no induction over data to say what such a sum is.  The marks take its
  place.  `Chain` relates neighbours only: the mark of entry i + 1 is that of
  entry i plus entry i's count times the time between them.  `Counted` adds what
  the last entry accounts for until now, and says that it comes to `area`.  Then
  each step of the averaging adds the difference of two marks, so that
  `sum = mark[k]` is inductive (`Averaged`) and ends at `area`, with
  `total = clock - since`.  `ExactInv` says in addition where a lone sampler or
  the callback is between its steps (`Alone`, `Sampling`, `Closing`, `Ending`).
* **IdleTrackerProofs.**  `FreshAfterReload` is argued as for the samples
  (`Openings`, `Indices`, `Fresh`), for buffers that a callback of this load has
  opened; nothing is assumed of the pinned indices.  For `PeriodCovered`, `Ends`
  says that what has been added up reaches from the opening boundary sample at
  least to the stamp of the entry the average is at: a disordered pair, which is
  dropped, goes back in time and leaves that true.  The boundary entries are no
  sampler's, so they still hold their stamps when they are read.  For the two
  averages, `Averages` has `sum <= c * total` for some count `c` and that the
  number held by the callback is the one it has stored.
* **IdleTrackerProofs, TimerStart.**  At most one pCPU is past the test of
  `started`, and none once the timer is armed, because the word is 1 from the test
  on and is reset only by the pCPU that failed.
* **HostDriverProofs, H2GChannel.**  `LatestInv` says of slot 0 and of every
  message on its way there that its history slot holds it or a later one;
  `LastInv`, that a pending message is its writer's last.  `CycleInv` bounds the
  age of a slot by the distance the cursor has come since it passed the slot, on
  this side of the wrap or before it (`Lag`); what the remainder does at the wrap
  is a lemma about `%`.  A new registration sets both to 0.
* **HostDriverProofs, HostRegistry.**  `NextIdConserved` counts granted, held and
  leaked ids; each call's number is used once.  `GrantedOwnsBackend` needs that
  every granted id and every caller about to publish has its minor in `nodes`, and
  that no two of them share one.  `NextIdFree` needs that ids are held like a
  stack (`Stacked`): below the counter, all different, with the minors of callers
  without a backend free.
* **VmRegistrationProofs, RegistrationCountProofs.**  `ToolInv` says at each step
  of a tool which entries, buffers and pins are already there or gone, and which
  keys are left to do; `RegisteredExactly` and `CleanedUp` are its last states.
  `InStep` says that, undisturbed, at most one line is on its way before the
  reply, and it is the answer to the command sent last, and that the reply stays
  the first line (`ReplyFirst`); hence `ReportedInFull`.  `HandlerInv` says what
  a handler's pointers refer to: an uncut element is the one under its key; a cut
  one belongs to the tools' VM and never to the other; no two handlers have the
  same key.  Given that, every map operation leaves the other VM's count alone,
  and each handler step changes `Cardinality(Counted)` as it changes `count`.

Only model-checked: `HandlerReturns`, `EventuallyArmed` and `ToolReturns`.  They
are liveness properties under fairness, which is outside what the prover handles.
TLC has also checked the inductive invariants themselves, on the instances of the
runs, for the samples, the idle average, the timers, the host driver, the dialogue
and the registration.

## Simplifications

* The callback reads time and count of a boundary sample in one step, and the
  words of two neighbouring entries in one step.  So an entry is read in two
  steps, as the end of an interval and as the start of the next.
* `cdev_add` and `device_create` are one step, as are the check for a device
  and the registration of kfunc and character device in `guest_ivshmem_init`.
  A device that was unplugged is not plugged in again.
* In TimerStart `bpf_timer_init` fails, and `bpf_timer_set_callback` where the
  program looks at its result (h2g_msg_timer).  Calls whose results are ignored,
  `bpf_timer_set_callback` in the other two and `bpf_timer_start` in all three, are
  taken to succeed; a failure there would leave `started` at 1 and the timer
  unarmed.
* In VmRegistration all handlers that hold some freed element may be given the
  new one, also when they hold different ones: more behaviours than the code has.
* In H2GChannel a message is its writer and its place in the order of history
  stores; its bits are in Watermark.
* In VmRegistration one tool runs at a time, a QMP line fits its buffer,
  `nb_vcpus` is the tool's argument, and a handler is one half of
  `phantom_switch_handler` for a thread with a 1 in its slot, with its count
  update in one step (PhantomSwitch has the retry loop).
* In IdleTracker handlers and callback of a load are done before the next load,
  and no two loaders run side by side.

## Not modelled

* The contents of two generations of buffers while `setup_vm_maps` replaces
  them under the samplers (`register_vm.h:240`): which samples are lost depends
  on the moment each program looks its buffer up.  `RegisteredExactly` covers
  what the registry holds afterwards.
* The loaders beyond what is named above: each opens, loads, attaches and waits.
* mmap, backend sizes, and the error paths of `host_ivshmem_init`, which run
  before the registry can be used.
* The consumers and readers under `test/`, and the shell scripts: file and
  process I/O.
