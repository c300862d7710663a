--------------------------- MODULE SampleBuffers ---------------------------
(***************************************************************************)
(* The double-buffered samples of one VM: the second half of               *)
(* phantom_switch_handler, which appends {count, timestamp} to the         *)
(* collecting buffer, and the callback of the 4 ms BPF timer, which swaps  *)
(* the buffers and averages the one just closed (timer.bpf.c).             *)
(*                                                                         *)
(* Samplers (one per pCPU) and the callback share no lock: a sampler may   *)
(* be overtaken by the callback at every step.  PhantomSwitch has the      *)
(* detail of how a handler arrives at its new count; here it is one step.  *)
(***************************************************************************)
EXTENDS Watermark

CONSTANTS
  Pcpus,     \* host CPUs
  NbVcpus,   \* vm->nb_vcpus
  LastIdle,  \* last_idle_avg of the idle average, 0 if it is not loaded
  Cap,       \* entries of a buffer (MAP_REGISTRY_MAX_ENTRIES)
  MaxTime,   \* bound on the clock
  MaxTaken,  \* bound on the number of samples taken
  MaxPeriod  \* bound on the number of timer callbacks

ASSUME BufferAssumption ==
  /\ NbVcpus \in Nat \ {0} /\ NbVcpus < Field
  /\ LastIdle \in Nat /\ LastIdle < Field
  /\ Cap \in Nat \ {0}
  /\ MaxTime \in Nat
  /\ MaxTaken \in Nat
  /\ MaxPeriod \in Nat

VARIABLES
  clock,      \* bpf_ktime_get_ns
  count,      \* vm->phantom_count
  collecting, \* buffer is_collectx_in_buff_1 selects: 1, or 2 when it is 0
  index,      \* collection_buff_1_index, collection_buff_2_index
  buf,        \* the two arrays of samples
  spc, sbuf, sidx, scount, sstamp, \* samplers: step and locals
  tpc, end, start, nbSamples, k, sum, total, \* callback: step and locals
  avg,        \* last average computed
  word,       \* last watermark published, NoWord before the first
  taken,      \* history: samples begun
  period,     \* history: callbacks begun
  opened,     \* history: period each buffer was last opened for
  swritten,   \* history: the opening each sampler's index belongs to
  late        \* history: 1 once a sample was stored after its buffer reopened

samplerVars == <<spc, sbuf, sidx, scount, sstamp, swritten, taken>>
timerVars   == <<tpc, end, start, nbSamples, k, sum, total, avg, word, period>>
vars == <<clock, count, collecting, index, buf, samplerVars, timerVars,
          opened, late>>

Counts  == 0 .. NbVcpus
Buffers == {1, 2}
Entries == 0 .. Cap - 1
NoWord  == -1

\* A sample; "of" is history: the opening of the buffer it was stored for.
Samples == [count : Counts, ts : 0 .. MaxTime, of : 0 .. MaxPeriod + 1]

TypeOK ==
  /\ clock \in 0 .. MaxTime
  /\ count \in Counts
  /\ collecting \in Buffers
  /\ index \in [Buffers -> Nat]
  /\ buf \in [Buffers -> [Entries -> Samples]]
  /\ spc \in [Pcpus -> {"idle", "flag", "reserve", "stamp", "store",
                        "store_ts"}]
  /\ sbuf \in [Pcpus -> Buffers]
  /\ sidx \in [Pcpus -> Nat]
  /\ scount \in [Pcpus -> Counts]
  /\ sstamp \in [Pcpus -> 0 .. MaxTime]
  /\ tpc \in {"idle", "start", "open", "flip", "close", "average", "done"}
  /\ end \in Samples
  /\ start \in Samples
  /\ nbSamples \in Nat
  /\ k \in Nat
  /\ sum \in Nat
  /\ total \in Nat
  /\ avg \in Nat
  /\ word \in Nat \cup {NoWord}
  /\ taken \in 0 .. MaxTaken
  /\ period \in 0 .. MaxPeriod
  /\ opened \in [Buffers -> 0 .. MaxPeriod + 1]
  /\ swritten \in [Pcpus -> 0 .. MaxPeriod + 1]
  /\ late \in {0, 1}

NoSample == [count |-> 0, ts |-> 0, of |-> 0]

\* setup_vm_maps has created zeroed arrays and register_vm has reset the VM:
\* buffer 2 collects, both indices are 0.
Init ==
  /\ clock = 0
  /\ count = 0
  /\ collecting = 2
  /\ index = [b \in Buffers |-> 0]
  /\ buf = [b \in Buffers |-> [i \in Entries |-> NoSample]]
  /\ spc = [p \in Pcpus |-> "idle"]
  /\ sbuf = [p \in Pcpus |-> 1]
  /\ sidx = [p \in Pcpus |-> 0]
  /\ scount = [p \in Pcpus |-> 0]
  /\ sstamp = [p \in Pcpus |-> 0]
  /\ tpc = "idle"
  /\ end = NoSample
  /\ start = NoSample
  /\ nbSamples = 0
  /\ k = 0
  /\ sum = 0
  /\ total = 0
  /\ avg = 0
  /\ word = NoWord
  /\ taken = 0
  /\ period = 0
  /\ opened = [b \in Buffers |-> IF b = 2 THEN 1 ELSE 0]
  /\ swritten = [p \in Pcpus |-> 0]
  /\ late = 0

Advance ==
  /\ clock < MaxTime
  /\ clock' = clock + 1
  /\ UNCHANGED <<count, collecting, index, buf, samplerVars, timerVars,
                 opened, late>>

----------------------------------------------------------------------------
(* Samplers: the tail of phantom_switch_handler. *)

SamplerStep(p, from, to) == spc[p] = from /\ spc' = [spc EXCEPT ![p] = to]

\* A retry loop of the handler (PhantomSwitch) returns n: phantom_count moved
\* by one, or the loop gave up and left it alone.
Count(p, n) ==
  /\ SamplerStep(p, "idle", "flag")
  /\ n \in {count - 1, count, count + 1}
  /\ taken < MaxTaken
  /\ taken' = taken + 1
  /\ count' = n
  /\ scount' = [scount EXCEPT ![p] = n]
  /\ UNCHANGED <<clock, collecting, index, buf, sbuf, sidx, sstamp, timerVars,
                 opened, swritten, late>>

\* Plain read of is_collectx_in_buff_1.
ReadFlag(p) ==
  /\ SamplerStep(p, "flag", "reserve")
  /\ sbuf' = [sbuf EXCEPT ![p] = collecting]
  /\ UNCHANGED <<clock, count, collecting, index, buf, sidx, scount, sstamp,
                 timerVars, opened, swritten, taken, late>>

\* __sync_fetch_and_add on the index of the chosen buffer.
Reserve(p) ==
  /\ SamplerStep(p, "reserve", "stamp")
  /\ sidx' = [sidx EXCEPT ![p] = index[sbuf[p]]]
  /\ index' = [index EXCEPT ![sbuf[p]] = @ + 1]
  /\ swritten' = [swritten EXCEPT ![p] = opened[sbuf[p]]]
  /\ UNCHANGED <<clock, count, collecting, buf, sbuf, scount, sstamp,
                 timerVars, opened, taken, late>>

Stamp(p) ==
  /\ SamplerStep(p, "stamp", "store")
  /\ sstamp' = [sstamp EXCEPT ![p] = clock]
  /\ UNCHANGED <<clock, count, collecting, index, buf, sbuf, sidx, scount,
                 timerVars, opened, swritten, taken, late>>

\* bpf_map_update_elem copies the two words of the sample one after the
\* other; an index past the end of the array is refused, silently.
Store(p) ==
  /\ SamplerStep(p, "store", "store_ts")
  /\ buf' = IF sidx[p] < Cap
            THEN [buf EXCEPT ![sbuf[p]][sidx[p]].count = scount[p]] ELSE buf
  /\ late' = IF swritten[p] # opened[sbuf[p]] THEN 1 ELSE late
  /\ UNCHANGED <<clock, count, collecting, index, sbuf, sidx, scount, sstamp,
                 timerVars, opened, swritten, taken>>

StoreTs(p) ==
  /\ SamplerStep(p, "store_ts", "idle")
  /\ buf' = IF sidx[p] < Cap
            THEN [buf EXCEPT ![sbuf[p]][sidx[p]] =
                    [@ EXCEPT !.ts = sstamp[p], !.of = swritten[p]]]
            ELSE buf
  /\ late' = IF swritten[p] # opened[sbuf[p]] THEN 1 ELSE late
  /\ sbuf' = [sbuf EXCEPT ![p] = 1]
  /\ sidx' = [sidx EXCEPT ![p] = 0]
  /\ scount' = [scount EXCEPT ![p] = 0]
  /\ sstamp' = [sstamp EXCEPT ![p] = 0]
  /\ swritten' = [swritten EXCEPT ![p] = 0]
  /\ UNCHANGED <<clock, count, collecting, index, timerVars, opened, taken>>

Sampler(p) ==
  ReadFlag(p) \/ Reserve(p) \/ Stamp(p) \/ Store(p) \/ StoreTs(p)

----------------------------------------------------------------------------
(* The timer callback, callback_fn for one VM. *)

TimerStep(from, to) == tpc = from /\ tpc' = to

Filling == 3 - collecting   \* the buffer about to be opened

\* count_end: time and phantom_count, before anything else.
TimerEnd ==
  /\ TimerStep("idle", "start")
  /\ period < MaxPeriod
  /\ period' = period + 1
  /\ end' = [count |-> count, ts |-> clock, of |-> opened[collecting]]
  /\ UNCHANGED <<clock, count, collecting, index, buf, samplerVars, start,
                 nbSamples, k, sum, total, avg, word, opened, late>>

\* count_start: read again, still before the swap.
TimerStart ==
  /\ TimerStep("start", "open")
  /\ start' = [count |-> count, ts |-> clock, of |-> period + 1]
  /\ UNCHANGED <<clock, count, collecting, index, buf, samplerVars, end,
                 nbSamples, k, sum, total, avg, word, period, opened, late>>

\* Mutation of OpenBuffer: the first sample goes to entry 0.
OpenBuffer_FromZero ==
  /\ TimerStep("open", "flip")
  /\ buf' = [buf EXCEPT ![Filling][0] = start]
  /\ index' = [index EXCEPT ![Filling] = 0]
  /\ opened' = [opened EXCEPT ![Filling] = period + 1]
  /\ UNCHANGED <<clock, count, collecting, samplerVars, end, start,
                 nbSamples, k, sum, total, avg, word, period, late>>

\* Entry 0 of the other buffer becomes count_start; samples go from 1 on.
OpenBuffer ==
  /\ TimerStep("open", "flip")
  /\ buf' = [buf EXCEPT ![Filling][0] = start]
  /\ index' = [index EXCEPT ![Filling] = 1]
  /\ opened' = [opened EXCEPT ![Filling] = period + 1]
  /\ UNCHANGED <<clock, count, collecting, samplerVars, end, start,
                 nbSamples, k, sum, total, avg, word, period, late>>

\* CAS of is_collectx_in_buff_1; only the callback writes it.
Flip ==
  /\ TimerStep("flip", "close")
  /\ collecting' = Filling
  /\ UNCHANGED <<clock, count, index, buf, samplerVars, end, start,
                 nbSamples, k, sum, total, avg, word, period, opened, late>>

\* Mutation of CloseBuffer: the index of count_end is read, not reserved.
CloseBuffer_NoReserve ==
  LET b == Filling IN
  /\ TimerStep("close", "average")
  /\ nbSamples' = index[b]
  /\ buf' = IF index[b] < Cap
            THEN [buf EXCEPT ![b][index[b]] = end] ELSE buf
  /\ k' = 0
  /\ sum' = 0
  /\ total' = 0
  /\ UNCHANGED <<clock, count, collecting, index, samplerVars, end, start, avg,
                 word, period, opened, late>>

\* Mutation of CloseBuffer: nb_samples counts count_end as well.
CloseBuffer_PastEnd ==
  LET b == Filling IN
  /\ TimerStep("close", "average")
  /\ nbSamples' = index[b] + 1
  /\ index' = [index EXCEPT ![b] = @ + 1]
  /\ buf' = IF index[b] < Cap
            THEN [buf EXCEPT ![b][index[b]] = end] ELSE buf
  /\ k' = 0
  /\ sum' = 0
  /\ total' = 0
  /\ UNCHANGED <<clock, count, collecting, samplerVars, end, start, avg,
                 word, period, opened, late>>

\* The closed buffer is now the one that is not collecting: reserve its last
\* index for count_end.  Samples reserved after this are never averaged.
CloseBuffer ==
  LET b == Filling IN
  /\ TimerStep("close", "average")
  /\ nbSamples' = index[b]
  /\ index' = [index EXCEPT ![b] = @ + 1]
  /\ buf' = IF index[b] < Cap
            THEN [buf EXCEPT ![b][index[b]] = end] ELSE buf
  /\ k' = 0
  /\ sum' = 0
  /\ total' = 0
  /\ UNCHANGED <<clock, count, collecting, samplerVars, end, start, avg,
                 word, period, opened, late>>

\* Mutation of AverageEntry: out-of-order intervals are not dropped.
AverageEntry_NoDrop ==
  LET entry == buf[Filling]
      duration == entry[k + 1].ts - entry[k].ts IN
  /\ TimerStep("average", "average")
  /\ k < nbSamples
  /\ k + 1 < Cap
  /\ k' = k + 1
  /\ sum' = sum + entry[k].count * duration
  /\ total' = total + duration
  /\ UNCHANGED <<clock, count, collecting, index, buf, samplerVars, end,
                 start, nbSamples, avg, word, period, opened, late>>

\* Mutation of AverageEntry: total_time is assigned, not accumulated.
AverageEntry_LastTotal ==
  LET entry == buf[Filling]
      duration == entry[k + 1].ts - entry[k].ts IN
  /\ TimerStep("average", "average")
  /\ k < nbSamples
  /\ k + 1 < Cap
  /\ k' = k + 1
  /\ IF duration < 0
     THEN UNCHANGED <<sum, total>>
     ELSE /\ sum' = sum + entry[k].count * duration
          /\ total' = duration
  /\ UNCHANGED <<clock, count, collecting, index, buf, samplerVars, end,
                 start, nbSamples, avg, word, period, opened, late>>

\* phantom_avg_cb on entry k: the interval up to entry k + 1, unless the
\* stamps are out of order.
AverageEntry ==
  LET entry == buf[Filling] IN
  /\ TimerStep("average", "average")
  /\ k < nbSamples
  /\ k + 1 < Cap
  /\ k' = k + 1
  /\ IF entry[k + 1].ts < entry[k].ts
     THEN UNCHANGED <<sum, total>>
     ELSE LET duration == entry[k + 1].ts - entry[k].ts IN
          /\ sum' = sum + entry[k].count * duration
          /\ total' = total + duration
  /\ UNCHANGED <<clock, count, collecting, index, buf, samplerVars, end,
                 start, nbSamples, avg, word, period, opened, late>>

\* The end of phantom_average.
Average ==
  /\ TimerStep("average", "done")
  /\ k >= nbSamples \/ k + 1 >= Cap
  /\ avg' = IF total > 0 THEN sum \div total ELSE 0
  /\ UNCHANGED <<clock, count, collecting, index, buf, samplerVars, end,
                 start, nbSamples, k, sum, total, word, period, opened, late>>

\* write_watermark (where the word goes is in H2GChannel); the callback returns
\* and the timer is armed again.
TimerReturn ==
  /\ TimerStep("done", "idle")
  /\ word' = Pack(clock, avg, LastIdle)
  /\ end' = NoSample
  /\ start' = NoSample
  /\ nbSamples' = 0
  /\ k' = 0
  /\ sum' = 0
  /\ total' = 0
  /\ UNCHANGED <<clock, count, collecting, index, buf, samplerVars, avg,
                 period, opened, late>>

TimerRest ==
  \/ TimerStart \/ OpenBuffer \/ Flip \/ CloseBuffer
  \/ AverageEntry \/ Average \/ TimerReturn

Next ==
  \/ Advance
  \/ \E p \in Pcpus : Sampler(p) \/ \E n \in Counts : Count(p, n)
  \/ TimerEnd
  \/ TimerRest

Spec == Init /\ [][Next]_vars

----------------------------------------------------------------------------
(* Properties. *)

\* The average never exceeds the number of vCPUs, whatever the races between
\* samplers and callback put in the closed buffer: entries reserved and never
\* filled, half-written or overwritten entries, stamps out of order.
AverageBounded == avg <= NbVcpus /\ sum <= NbVcpus * total

\* The watermark a guest reads says what the callback computed: its fields are
\* the phantom average and the idle average, neither cut by its 16 bits nor
\* disturbed by the other or by the wrapped timestamp (write_watermark).
WatermarkTellsAverage ==
  word # NoWord /\ tpc # "done" => PhantomOf(word) = avg /\ IdleOf(word) = LastIdle

\* What the callback averages belongs to the period it closes: an entry below
\* count_end was stored since the buffer was opened, or its sampler is still
\* between fetch_and_add and map update -- unless some sampler was overtaken by
\* two callbacks and stored into a buffer reopened since.
FreshUnlessInFlight ==
  tpc \in {"average", "done"} /\ late = 0 =>
    \A i \in Entries : i <= nbSamples =>
      \/ buf[Filling][i].of = opened[Filling]
      \/ \E p \in Pcpus : /\ spc[p] \in {"stamp", "store", "store_ts"}
                           /\ sbuf[p] = Filling
                           /\ sidx[p] = i

\* Within one opening of a buffer no two samplers hold the same index, and
\* none holds the index of count_start or of count_end (fetch_and_add against
\* the reset of the index in callback_fn).  The opening by register_vm, the
\* first, has no count_start.
EntryHasOneWriter ==
  \A p \in Pcpus : spc[p] \in {"stamp", "store", "store_ts"} =>
    /\ sidx[p] < index[sbuf[p]] \/ swritten[p] # opened[sbuf[p]]
    /\ \A q \in Pcpus \ {p} :
         spc[q] \in {"stamp", "store", "store_ts"} /\ sbuf[q] = sbuf[p]
         /\ swritten[q] = swritten[p] => sidx[q] # sidx[p]
    /\ swritten[p] > 1 => sidx[p] > 0
    /\ tpc \in {"average", "done"} /\ sbuf[p] = Filling
       /\ swritten[p] = opened[Filling] => sidx[p] # nbSamples

=============================================================================
