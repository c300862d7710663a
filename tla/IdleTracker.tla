---------------------------- MODULE IdleTracker ----------------------------
(***************************************************************************)
(* The idle average (pvsched-ebpf/host/ebpf/idle_avg): a handler on        *)
(* sched_switch samples the runnable threads of the host, a 4 ms timer     *)
(* swaps the two buffers, averages the closed one and publishes the        *)
(* average and what it leaves of the CPUs.                                 *)
(*                                                                         *)
(* Flag, indices and averages live in a map that is pinned and outlives    *)
(* the loader.  The buffers and the timer do not: every load has its own.  *)
(* A loader can be killed at any step; the next one is started after it    *)
(* has ended, when its handlers and its callback are done.                 *)
(***************************************************************************)
EXTENDS Integers

CONSTANTS
  Pcpus,      \* host CPUs with a sampler
  NbCpus,     \* nb_cpus
  Counts,     \* numbers of runnable threads that may be sampled
  Cap,        \* entries of a buffer (3000)
  MaxTime,    \* bound on the clock
  MaxTaken,   \* bound on the samples taken
  MaxCalls,   \* bound on the timer callbacks
  MaxLoads    \* bound on the loads

ASSUME IdleAssumption ==
  /\ NbCpus \in Nat /\ Counts \subseteq Nat /\ 0 \in Counts /\ Cap \in Nat \ {0}
  /\ MaxTime \in Nat /\ MaxTaken \in Nat /\ MaxCalls \in Nat /\ MaxLoads \in Nat

VARIABLES
  clock,
  loader,     \* step of the loader
  pinned,     \* 1 once the state map is pinned
  \* global_tracker_state
  collecting, \* buffer is_collectx_in_buff_1 selects: 1, or 2 when it is 0
  index,      \* collection_buff_1_index, collection_buff_2_index
  avg,        \* global_runnx_avg
  idle,       \* last_idle_avg
  \* the programs
  buf,        \* collectx_buff_1 and collectx_buff_2
  sampler,    \* sampler[p]: the switch handler on p
  timer,      \* the callback
  taken, calls, loads,
  \* history
  opened,     \* opened[b]: the callback that opened the buffer, 0 for none
  late,       \* 1 once a sample was stored after its buffer was reopened
  published   \* 1 once a callback has stored its averages

loading  == <<clock, loader, pinned, loads>>
state    == <<collecting, index, avg, idle, published>>
programs == <<buf, sampler, timer, taken, calls, opened, late>>
vars     == <<loading, state, programs>>

Buffers == {1, 2}
Samples == [count : Counts, ts : 0 .. MaxTime, of : 0 .. MaxCalls]
Zero    == [count |-> 0, ts |-> 0, of |-> 0]
Empty   == [b \in Buffers |-> [i \in 0 .. Cap - 1 |-> Zero]]

Samplers == [at : {"idle", "flag", "reserve", "store"}, b : Buffers, i : Nat,
             s : Samples]
NoSampler == [at |-> "idle", b |-> 1, i |-> 0, s |-> Zero]

\* closing: the buffer being averaged; s: the boundary sample; n: nb_samples;
\* k: the entry the average is at; sum, total: what it has added up.
\* History: from is the time of the boundary sample that opened the buffer; hit
\* is 1 once a sampler stored the very entry the average was at.
Timers == [at : {"idle", "open", "flip", "close", "average", "idle_avg"},
           closing : Buffers, s : Samples, n : Nat, k : Nat, sum : Nat,
           total : Nat, avg : Nat, from : 0 .. MaxTime, hit : {0, 1}]
NoTimer == [at |-> "idle", closing |-> 1, s |-> Zero, n |-> 0, k |-> 0, sum |-> 0,
            total |-> 0, avg |-> 0, from |-> 0, hit |-> 0]

TypeOK ==
  /\ clock \in 0 .. MaxTime
  /\ loader \in {"none", "loaded", "attached", "running"}
  /\ pinned \in {0, 1}
  /\ collecting \in Buffers /\ index \in [Buffers -> Nat]
  /\ avg \in Nat /\ idle \in Nat
  /\ buf \in [Buffers -> [0 .. Cap - 1 -> Samples]]
  /\ sampler \in [Pcpus -> Samplers]
  /\ timer \in Timers

Init ==
  /\ clock = 0 /\ loader = "none" /\ pinned = 0 /\ loads = 0
  /\ collecting = 2 /\ index = [b \in Buffers |-> 0]
  /\ avg = 0 /\ idle = 0 /\ published = 0
  /\ buf = Empty /\ timer = NoTimer /\ opened = [b \in Buffers |-> 0]
  /\ sampler = [p \in Pcpus |-> NoSampler]
  /\ taken = 0 /\ calls = 0 /\ late = 0

Attached == loader \in {"attached", "running"}

Advance ==
  /\ clock < MaxTime
  /\ clock' = clock + 1
  /\ UNCHANGED <<loader, pinned, loads, state, programs>>

-----------------------------------------------------------------------------
(* The loader.                                                             *)

\* Mutation of Load: a reused map is initialised again.
Load_Reinit ==
  /\ loader = "none" /\ loads < MaxLoads
  /\ loader' = "loaded" /\ loads' = loads + 1
  /\ collecting' = 2 /\ index' = [b \in Buffers |-> 0] /\ avg' = 0 /\ idle' = 0
  /\ UNCHANGED <<clock, pinned, published, programs>>

\* Open and load: the pinned state map is used as it is, a new one is
\* initialised; buffers and timer are new (End).
Load ==
  /\ loader = "none" /\ loads < MaxLoads
  /\ loader' = "loaded" /\ loads' = loads + 1
  /\ IF pinned = 1 THEN UNCHANGED state
     ELSE /\ collecting' = 2 /\ index' = [b \in Buffers |-> 0]
          /\ avg' = 0 /\ idle' = 0 /\ published' = 0
  /\ UNCHANGED <<clock, pinned, programs>>

Attach ==
  /\ loader = "loaded"
  /\ loader' = "attached"
  /\ UNCHANGED <<clock, pinned, loads, state, programs>>

Pin ==
  /\ loader = "attached"
  /\ loader' = "running" /\ pinned' = 1
  /\ UNCHANGED <<clock, loads, state, programs>>

\* An error or a signal: programs, buffers and timer are gone.
End ==
  /\ loader # "none"
  /\ timer.at = "idle" /\ \A p \in Pcpus : sampler[p].at = "idle"
  /\ loader' = "none"
  /\ buf' = Empty /\ timer' = NoTimer /\ opened' = [b \in Buffers |-> 0]
  /\ UNCHANGED <<clock, pinned, loads, state, sampler, taken, calls, late>>

-----------------------------------------------------------------------------
(* global_running_tracker_switch_handler.                                  *)

\* The sum over the run queues, then the time.
Sample(p, c) ==
  /\ sampler[p].at = "idle" /\ Attached
  /\ taken < MaxTaken /\ taken' = taken + 1
  /\ sampler' = [sampler EXCEPT ![p] =
       [NoSampler EXCEPT !.at = "flag", !.s = [Zero EXCEPT !.count = c, !.ts = clock]]]
  /\ UNCHANGED <<loading, state, buf, timer, calls, opened, late>>

ReadFlag(p) ==
  /\ sampler[p].at = "flag"
  /\ sampler' = [sampler EXCEPT ![p].at = "reserve", ![p].b = collecting]
  /\ UNCHANGED <<loading, state, buf, timer, taken, calls, opened, late>>

\* __sync_fetch_and_add, on the index in the pinned map.
Reserve(p) ==
  LET b == sampler[p].b IN
  /\ sampler[p].at = "reserve"
  /\ sampler' = [sampler EXCEPT ![p].at = "store", ![p].i = index[b],
                                ![p].s.of = opened[b]]
  /\ index' = [index EXCEPT ![b] = @ + 1]
  /\ UNCHANGED <<loading, collecting, avg, idle, published, buf, timer, taken,
                 calls, opened, late>>

\* bpf_map_update_elem, refused past the end.
Stored(f, i, s) == IF i < Cap THEN [f EXCEPT ![i] = s] ELSE f

Store(p) ==
  LET h == sampler[p] IN
  /\ h.at = "store"
  /\ buf' = [buf EXCEPT ![h.b] = Stored(@, h.i, h.s)]
  /\ late' = IF h.s.of # opened[h.b] THEN 1 ELSE late
  /\ timer' = IF timer.at = "average" /\ h.b = timer.closing /\ h.i = timer.k
              THEN [timer EXCEPT !.hit = 1] ELSE timer
  /\ sampler' = [sampler EXCEPT ![p] = NoSampler]
  /\ UNCHANGED <<loading, state, taken, calls, opened>>

-----------------------------------------------------------------------------
(* idle_avg_timer_cb.                                                      *)

quiet == <<loading, sampler, taken, late>>

\* One boundary sample, taken before anything else.
Boundary(c) ==
  /\ timer.at = "idle" /\ Attached
  /\ calls < MaxCalls /\ calls' = calls + 1
  /\ timer' = [NoTimer EXCEPT !.at = "open",
                 !.s = [count |-> c, ts |-> clock, of |-> calls']]
  /\ UNCHANGED <<quiet, state, buf, opened>>

\* Mutation of Open: the buffer starts at entry 1 without a boundary sample.
Open_NoEntry ==
  LET b == 3 - collecting IN
  /\ timer.at = "open"
  /\ index' = [index EXCEPT ![b] = 1]
  /\ opened' = [opened EXCEPT ![b] = timer.s.of]
  /\ timer' = [timer EXCEPT !.at = "flip", !.closing = collecting,
                            !.from = buf[collecting][0].ts]
  /\ UNCHANGED <<quiet, collecting, avg, idle, published, buf, calls>>

\* The boundary sample is entry 0 of the buffer that is not collecting.
Open ==
  LET b == 3 - collecting IN
  /\ timer.at = "open"
  /\ buf' = [buf EXCEPT ![b] = Stored(@, 0, timer.s)]
  /\ index' = [index EXCEPT ![b] = 1]
  /\ opened' = [opened EXCEPT ![b] = timer.s.of]
  /\ timer' = [timer EXCEPT !.at = "flip", !.closing = collecting,
                            !.from = buf[collecting][0].ts]
  /\ UNCHANGED <<quiet, collecting, avg, idle, published, calls>>

\* The compare and swap succeeds: only the callback writes the flag.
Flip ==
  /\ timer.at = "flip"
  /\ collecting' = 3 - timer.closing
  /\ timer' = [timer EXCEPT !.at = "close"]
  /\ UNCHANGED <<quiet, index, avg, idle, published, buf, calls, opened>>

\* The boundary sample also ends the closed buffer.
Close ==
  LET b == timer.closing IN
  /\ timer.at = "close"
  /\ index' = [index EXCEPT ![b] = @ + 1]
  /\ buf' = [buf EXCEPT ![b] = Stored(@, index[b], [timer.s EXCEPT !.of = opened[b]])]
  /\ timer' = [timer EXCEPT !.at = "average", !.n = index[b]]
  /\ UNCHANGED <<quiet, collecting, avg, idle, published, calls, opened>>

\* Mutation of AverageEntry: a disordered pair ends the averaging.
AverageEntry_Stop ==
  LET f == buf[timer.closing]
      k == timer.k
      duration == f[k + 1].ts - f[k].ts IN
  /\ timer.at = "average" /\ k < timer.n /\ k + 1 < Cap
  /\ timer' = IF duration < 0 THEN [timer EXCEPT !.k = timer.n]
              ELSE [timer EXCEPT !.k = k + 1, !.sum = @ + f[k].count * duration,
                                 !.total = @ + duration]
  /\ UNCHANGED <<quiet, state, buf, calls, opened>>

\* Mutation of AverageEntry: total_time is assigned, not accumulated.
AverageEntry_LastTotal ==
  LET f == buf[timer.closing]
      k == timer.k
      duration == f[k + 1].ts - f[k].ts IN
  /\ timer.at = "average" /\ k < timer.n /\ k + 1 < Cap
  /\ timer' = IF duration < 0 THEN [timer EXCEPT !.k = k + 1]
              ELSE [timer EXCEPT !.k = k + 1, !.sum = @ + f[k].count * duration,
                                 !.total = duration]
  /\ UNCHANGED <<quiet, state, buf, calls, opened>>

\* nr_running_avg_sample_cb on entry k: the interval up to entry k + 1, unless
\* the stamps are out of order.  Samplers may store in between.
AverageEntry ==
  LET f == buf[timer.closing]
      k == timer.k
      duration == f[k + 1].ts - f[k].ts IN
  /\ timer.at = "average" /\ k < timer.n /\ k + 1 < Cap
  /\ timer' = IF duration < 0 THEN [timer EXCEPT !.k = k + 1]
              ELSE [timer EXCEPT !.k = k + 1, !.sum = @ + f[k].count * duration,
                                 !.total = @ + duration]
  /\ UNCHANGED <<quiet, state, buf, calls, opened>>

\* bpf_for_each_map_elem is through: the store of global_runnx_avg.
Average ==
  /\ timer.at = "average" /\ (timer.k >= timer.n \/ timer.k + 1 >= Cap)
  /\ avg' = IF timer.total > 0 THEN timer.sum \div timer.total ELSE 0
  /\ timer' = [timer EXCEPT !.at = "idle_avg", !.avg = avg']
  /\ UNCHANGED <<quiet, collecting, index, idle, published, buf, calls, opened>>

\* last_idle_avg; the timer is started again.
PublishIdle ==
  /\ timer.at = "idle_avg"
  /\ idle' = IF timer.avg > NbCpus THEN 0 ELSE NbCpus - timer.avg
  /\ published' = 1
  /\ timer' = NoTimer
  /\ UNCHANGED <<quiet, collecting, index, avg, buf, calls, opened>>

Next ==
  \/ Advance
  \/ Load \/ Attach \/ Pin \/ End
  \/ \E c \in Counts : Boundary(c) \/ \E p \in Pcpus : Sample(p, c)
  \/ Open \/ Flip \/ Close \/ AverageEntry \/ Average \/ PublishIdle
  \/ \E p \in Pcpus : ReadFlag(p) \/ Reserve(p) \/ Store(p)

Spec == Init /\ [][Next]_vars

-----------------------------------------------------------------------------
\* The callback averages a buffer that a callback of the same load has opened,
\* and no sampler was overtaken by two callbacks.
Proper == opened[timer.closing] # 0 /\ late = 0

\* From the second callback of a load on, whatever the pinned indices were at
\* the load, every entry that is averaged was stored for the period that is
\* closed: the zeros of a new buffer take part only as long as their sampler is
\* between fetch_and_add and update.  (The first callback after a reload does
\* average zeros: the pinned index says they were stored.)
FreshAfterReload ==
  timer.at \in {"average", "idle_avg"} /\ Proper =>
    \A i \in 0 .. Cap - 1 : i <= timer.n =>
      \/ buf[timer.closing][i].of = opened[timer.closing]
      \/ \E p \in Pcpus : /\ sampler[p].at = "store" /\ sampler[p].i = i
                          /\ sampler[p].b = timer.closing

\* No time is lost to the dropping of disordered pairs: the intervals that are
\* averaged are together at least as long as the period, from the boundary
\* sample that opened the buffer to the one that closed it, unless the buffer
\* was full or an overtaken sampler stored an entry after it was read as the end
\* of one interval and before it was read as the start of the next
\* (nr_running_avg_sample_cb, idle_avg_timer_cb).
PeriodCovered ==
  timer.at = "idle_avg" /\ timer.n < Cap /\ Proper /\ timer.hit = 0 =>
    timer.total >= timer.s.ts - timer.from

\* The published pair of averages agrees, also across reloads of the program
\* and loaders killed anywhere, except between the two stores: idle CPUs and
\* runnable threads add up to nb_cpus, and none is idle when more threads than
\* that were runnable.
IdleComplements ==
  published = 1 /\ timer.at # "idle_avg" =>
    /\ avg <= NbCpus => idle + avg = NbCpus
    /\ avg > NbCpus => idle = 0

\* The average is one of counts that were sampled: it never exceeds the largest
\* of them, whatever zeros, gaps and disorder the closed buffer holds.
IdleAverageBounded == \E c \in Counts : avg <= c

=============================================================================
