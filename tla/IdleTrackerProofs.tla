------------------------- MODULE IdleTrackerProofs -------------------------
(***************************************************************************)
(* Proofs about the idle average, for any number of pCPUs, any buffer      *)
(* capacity, any reloads and any interleaving of samplers and callback     *)
(* (IdleTracker), and about the start of the BPF timers (TimerStart).      *)
(*                                                                         *)
(* The two share neither variables nor constants.                          *)
(***************************************************************************)
EXTENDS IdleTracker, TimerStart, TLAPS

Arrays == [Buffers -> [0 .. Cap - 1 -> Samples]]

\* The types the arguments need.
Types ==
  /\ TypeOK
  /\ taken \in Nat /\ loads \in Nat /\ calls \in 0 .. MaxCalls
  /\ opened \in [Buffers -> 0 .. MaxCalls]
  /\ published \in {0, 1} /\ late \in {0, 1}

\* The sampler has an index and has not stored its sample.
Holding(p) == sampler[p].at = "store"

\* The callback has stored the boundary sample in the buffer it closes.
Closed == timer.at \in {"average", "idle_avg"}

\* Nothing is opened and the callback does not run before the programs are
\* attached.
Loaded == ~Attached => timer.at = "idle" /\ \A b \in Buffers : opened[b] = 0

\* Openings are numbered upwards: the next one is new to every sampler.
Openings ==
  /\ \A b \in Buffers : opened[b] <= calls /\ (opened[b] # 0 => index[b] >= 1)
  /\ timer.at = "open" => timer.s.of = calls /\ \A b \in Buffers : opened[b] < calls
  /\ \A p \in Pcpus : Holding(p) => sampler[p].s.of <= opened[sampler[p].b]

\* An index is below the buffer's, and is neither that of the boundary sample
\* that opened the buffer nor that of the one that closed it.
Indices ==
  /\ Closed => timer.n < index[timer.closing]
  /\ \A p \in Pcpus :
       Holding(p) /\ opened[sampler[p].b] # 0 /\ sampler[p].s.of = opened[sampler[p].b] =>
         /\ 1 <= sampler[p].i /\ sampler[p].i < index[sampler[p].b]
         /\ Closed /\ sampler[p].b = timer.closing => sampler[p].i # timer.n

\* The entry is of the current opening, or its writer is about to store it.
FreshEntry(b, i) ==
  \/ buf[b][i].of = opened[b]
  \/ \E p \in Pcpus : Holding(p) /\ sampler[p].b = b /\ sampler[p].i = i

\* All entries below the index are.
Fresh ==
  late = 0 => \A b \in Buffers, i \in 0 .. Cap - 1 :
    opened[b] # 0 /\ i < index[b] => FreshEntry(b, i)

-----------------------------------------------------------------------------
\* C is B with sample s stored at index i of buffer b: its entry is replaced, if
\* there is one, and no other.
StoredAt(C, B, b, i, s) ==
  /\ C \in Arrays
  /\ \A c \in Buffers : c # b => C[c] = B[c]
  /\ \A j \in 0 .. Cap - 1 : j # i => C[b][j] = B[b][j]
  /\ i < Cap => C[b][i] = s

\* bpf_map_update_elem on a buffer, an index past its end included.
LEMMA ArrayStore ==
  ASSUME NEW B \in Arrays, NEW b \in Buffers, NEW i \in Nat, NEW s \in Samples
  PROVE  StoredAt([B EXCEPT ![b] = Stored(B[b], i, s)], B, b, i, s)
<1>1. CASE i < Cap
  <2> DEFINE g == [B[b] EXCEPT ![i] = s]
  <2>1. i \in 0 .. Cap - 1 /\ B[b] \in [0 .. Cap - 1 -> Samples]
    BY <1>1, IdleAssumption DEF Arrays
  <2>2. /\ g \in [0 .. Cap - 1 -> Samples] /\ g[i] = s
        /\ \A j \in 0 .. Cap - 1 : j # i => g[j] = B[b][j]
    BY <2>1, Zenon
  <2>3. Stored(B[b], i, s) = g
    BY <1>1 DEF Stored
  <2> HIDE DEF g
  <2>4. QED
    BY <2>2, <2>3 DEF Arrays, StoredAt
<1>2. CASE ~(i < Cap)
  BY <1>2 DEF Arrays, StoredAt, Stored
<1>3. QED
  BY <1>1, <1>2

\* The sampler stores its sample at the index it holds.
LEMMA StoreBuf ==
  ASSUME Types, NEW p \in Pcpus, Store(p)
  PROVE  StoredAt(buf', buf, sampler[p].b, sampler[p].i, sampler[p].s)
<1> DEFINE h == sampler[p]
<1>1. h.b \in Buffers /\ h.i \in Nat /\ h.s \in Samples /\ buf \in Arrays
  BY DEF Types, TypeOK, Samplers, Arrays
<1>2. buf' = [buf EXCEPT ![h.b] = Stored(buf[h.b], h.i, h.s)]
  BY Zenon DEF Store
<1>3. QED
  BY <1>1, <1>2, ArrayStore, ZenonT(30)

\* The boundary sample becomes entry 0 of the buffer that is opened.
LEMMA OpenBuf ==
  ASSUME Types, Open
  PROVE  StoredAt(buf', buf, 3 - collecting, 0, timer.s)
<1>1. 3 - collecting \in Buffers /\ timer.s \in Samples /\ buf \in Arrays /\ 0 \in Nat
  BY DEF Types, TypeOK, Timers, Arrays, Buffers
<1>2. buf' = [buf EXCEPT ![3 - collecting] = Stored(buf[3 - collecting], 0, timer.s)]
  BY Zenon DEF Open
<1>3. QED
  BY <1>1, <1>2, ArrayStore, ZenonT(30)

\* And the last entry of the buffer that is closed.
LEMMA CloseBuf ==
  ASSUME Types, Close, NEW s, s = [timer.s EXCEPT !.of = opened[timer.closing]]
  PROVE  /\ s.of = opened[timer.closing] /\ s.ts = timer.s.ts
         /\ StoredAt(buf', buf, timer.closing, index[timer.closing], s)
<1> DEFINE b == timer.closing
<1>1. /\ b \in Buffers /\ index[b] \in Nat /\ buf \in Arrays /\ timer.s \in Samples
      /\ opened[b] \in 0 .. MaxCalls
  BY DEF Types, TypeOK, Timers, Arrays
<1>2. s \in Samples /\ s.of = opened[b] /\ s.ts = timer.s.ts
  BY <1>1 DEF Samples
<1>3. buf' = [buf EXCEPT ![b] = Stored(buf[b], index[b], s)]
  BY Zenon DEF Close
<1>4. StoredAt(buf', buf, b, index[b], s)
  BY <1>1, <1>2, <1>3, ArrayStore, ZenonT(30)
<1>5. QED
  BY <1>2, <1>4

\* The words of a sample are numbers.
LEMMA SampleFields ==
  ASSUME NEW s \in Samples
  PROVE  /\ s.count \in Counts /\ s.count \in Nat /\ s.ts \in 0 .. MaxTime /\ s.ts \in Nat
         /\ s.of \in 0 .. MaxCalls /\ s.of \in Nat
<1>1. s.count \in Counts /\ s.ts \in 0 .. MaxTime /\ s.of \in 0 .. MaxCalls
  BY DEF Samples
<1>2. 0 .. MaxTime \subseteq Nat /\ 0 .. MaxCalls \subseteq Nat /\ Counts \subseteq Nat
  BY IdleAssumption
<1>3. QED
  BY <1>1, <1>2, Zenon

\* Quotients and weighted sums.
LEMMA QuotientNat ==
  ASSUME NEW s \in Nat, NEW t \in Nat, t > 0
  PROVE  s \div t \in Nat
  OBVIOUS

-----------------------------------------------------------------------------
\* The state has its types initially.
LEMMA TypesInit == Init => Types
<1> SUFFICES ASSUME Init PROVE Types
  OBVIOUS
<1> USE IdleAssumption
<1>1. Zero \in Samples
  BY DEF Zero, Samples
<1>2. NoSampler \in Samplers /\ NoTimer \in Timers
  BY <1>1 DEF NoSampler, Samplers, NoTimer, Timers, Buffers
<1>3. buf \in [Buffers -> [0 .. Cap - 1 -> Samples]]
  BY <1>1 DEF Init, Empty
<1>4. QED
  BY <1>2, <1>3 DEF Init, Types, TypeOK, Buffers

\* The steps of the loader.
LEMMA TypesLoader ==
  ASSUME Types, Advance \/ Load \/ Attach \/ Pin \/ End
  PROVE  Types'
<1>1. CASE Advance
  BY <1>1, IdleAssumption DEF Types, TypeOK, Advance, state, programs
<1>2. CASE Load
  BY <1>2, IdleAssumption DEF Types, TypeOK, Load, state, programs, Buffers
<1>3. CASE Attach \/ Pin
  BY <1>3, ZenonT(30) DEF Types, TypeOK, Attach, Pin, state, programs
<1>4. CASE End
  <2>1. Zero \in Samples
    BY IdleAssumption DEF Zero, Samples
  <2>2. NoTimer \in Timers
    BY <2>1, IdleAssumption DEF NoTimer, Timers, Buffers
  <2>3. Empty \in [Buffers -> [0 .. Cap - 1 -> Samples]]
    BY <2>1 DEF Empty
  <2>4. 0 \in 0 .. MaxCalls
    BY IdleAssumption
  <2>5. QED
    BY <1>4, <2>2, <2>3, <2>4 DEF Types, TypeOK, End, state
<1>5. QED
  BY <1>1, <1>2, <1>3, <1>4, Zenon

\* The steps of a sampler.
LEMMA TypesSampler ==
  ASSUME Types, NEW p \in Pcpus,
         (\E c \in Counts : Sample(p, c)) \/ ReadFlag(p) \/ Reserve(p) \/ Store(p)
  PROVE  Types'
<1>0. /\ sampler[p] \in Samplers /\ sampler[p].b \in Buffers /\ sampler[p].i \in Nat
      /\ sampler[p].s \in Samples
  BY DEF Types, TypeOK, Samplers
<1>a. /\ clock \in 0 .. MaxTime /\ collecting \in Buffers
      /\ index[sampler[p].b] \in Nat /\ opened[sampler[p].b] \in 0 .. MaxCalls
      /\ taken + 1 \in Nat /\ index[sampler[p].b] + 1 \in Nat
  BY <1>0 DEF Types, TypeOK
<1>b. NoSampler \in Samplers
  BY IdleAssumption DEF NoSampler, Samplers, Zero, Samples, Buffers
<1>1. ASSUME NEW c \in Counts, Sample(p, c) PROVE Types'
  <2> DEFINE s == [Zero EXCEPT !.count = c, !.ts = clock]
             h == [NoSampler EXCEPT !.at = "flag", !.s = s]
  <2>1. s \in Samples
    <3>1. Zero \in Samples
      BY IdleAssumption DEF Zero, Samples
    <3>2. QED
      BY <1>a, <3>1, Zenon DEF Samples
  <2>2. h \in Samplers
    BY <1>b, <2>1, Zenon DEF Samplers
  <2>3. sampler' = [sampler EXCEPT ![p] = h]
    BY <1>1, Zenon DEF Sample
  <2> HIDE DEF h
  <2>4. QED
    BY <1>1, <1>a, <2>2, <2>3, Zenon DEF Types, TypeOK, Sample, loading, state
<1>2. ASSUME ReadFlag(p) PROVE Types'
  <2> DEFINE h == [sampler[p] EXCEPT !.at = "reserve", !.b = collecting]
  <2>1. h \in Samplers
    BY <1>0, <1>a, Zenon DEF Samplers
  <2>2. sampler' = [sampler EXCEPT ![p] = h]
    BY <1>2, Zenon DEF ReadFlag, Types, TypeOK
  <2> HIDE DEF h
  <2>3. QED
    BY <1>2, <2>1, <2>2, Zenon DEF Types, TypeOK, ReadFlag, loading, state
<1>3. ASSUME Reserve(p) PROVE Types'
  <2> DEFINE s == [sampler[p].s EXCEPT !.of = opened[sampler[p].b]]
             h == [sampler[p] EXCEPT !.at = "store", !.i = index[sampler[p].b], !.s = s]
  <2>1. s \in Samples
    BY <1>0, <1>a DEF Samples
  <2>2. h \in Samplers
    BY <1>0, <1>a, <2>1, Zenon DEF Samplers
  <2>3. sampler' = [sampler EXCEPT ![p] = h]
    BY <1>3, ZenonT(30) DEF Reserve, Types, TypeOK
  <2> HIDE DEF h
  <2>4. sampler' \in [Pcpus -> Samplers] /\ index' \in [Buffers -> Nat]
    <3>1. sampler \in [Pcpus -> Samplers] /\ index \in [Buffers -> Nat]
      BY DEF Types, TypeOK
    <3>2. index' = [index EXCEPT ![sampler[p].b] = index[sampler[p].b] + 1]
      BY <1>3 DEF Reserve
    <3>3. QED
      BY <1>0, <1>a, <2>2, <2>3, <3>1, <3>2, Zenon
  <2>5. QED
    BY <1>3, <2>4, Zenon DEF Types, TypeOK, Reserve, loading, state
<1>4. ASSUME Store(p) PROVE Types'
  <2>1. buf' \in [Buffers -> [0 .. Cap - 1 -> Samples]]
    BY <1>4, StoreBuf, Zenon DEF StoredAt, Arrays
  <2>2. timer \in Timers
    BY DEF Types, TypeOK
  <2>3. timer' \in Timers
    BY <1>4, <2>2 DEF Store, Timers
  <2>4. late' \in {0, 1}
    BY <1>4 DEF Store, Types
  <2>5. QED
    BY <1>4, <1>b, <2>1, <2>3, <2>4, Zenon DEF Types, TypeOK, Store, loading, state
<1>5. QED
  BY <1>1, <1>2, <1>3, <1>4, Zenon

\* The steps of the callback.
LEMMA TypesTimer ==
  ASSUME Types,
         \/ \E c \in Counts : Boundary(c)
         \/ Open \/ Flip \/ Close \/ AverageEntry \/ Average \/ PublishIdle
  PROVE  Types'
<1>0. /\ timer \in Timers /\ timer.closing \in Buffers /\ timer.s \in Samples
      /\ timer.n \in Nat /\ timer.k \in Nat /\ timer.sum \in Nat /\ timer.total \in Nat
      /\ timer.avg \in Nat
  BY DEF Types, TypeOK, Timers
<1>a. /\ clock \in 0 .. MaxTime /\ collecting \in Buffers /\ 3 - collecting \in Buffers
      /\ index \in [Buffers -> Nat] /\ opened \in [Buffers -> 0 .. MaxCalls]
      /\ buf \in Arrays /\ calls \in 0 .. MaxCalls
  BY DEF Types, TypeOK, Arrays, Buffers
<1>1. ASSUME NEW c \in Counts, Boundary(c) PROVE Types'
  <2> DEFINE s == [count |-> c, ts |-> clock, of |-> calls']
             t == [NoTimer EXCEPT !.at = "open", !.s = s]
  <2>1. calls' \in 0 .. MaxCalls
    <3>1. calls < MaxCalls /\ calls' = calls + 1
      BY <1>1, Zenon DEF Boundary
    <3>2. QED
      BY <1>a, <3>1, IdleAssumption
  <2>2. s \in Samples
    BY <1>a, <2>1 DEF Samples
  <2>3. NoTimer \in Timers
    BY IdleAssumption DEF NoTimer, Timers, Zero, Samples, Buffers
  <2>4. t \in Timers
    BY <2>2, <2>3, Zenon DEF Timers
  <2>5. timer' = t
    BY <1>1, Zenon DEF Boundary
  <2> HIDE DEF t
  <2>6. QED
    BY <1>1, <2>1, <2>4, <2>5, Zenon DEF Types, TypeOK, Boundary, quiet, loading, state
<1>2. ASSUME Open PROVE Types'
  <2>1. buf[collecting][0].ts \in 0 .. MaxTime
    <3>1. 0 \in 0 .. Cap - 1
      BY IdleAssumption
    <3>2. buf[collecting][0] \in Samples
      BY <1>a, <3>1, Zenon DEF Arrays
    <3>3. QED
      BY <3>2, SampleFields, Zenon
  <2>2. timer' \in Timers
    BY <1>0, <1>2, <1>a, <2>1, Zenon DEF Open, Timers
  <2>3. buf' \in [Buffers -> [0 .. Cap - 1 -> Samples]]
    BY <1>2, OpenBuf, Zenon DEF StoredAt, Arrays
  <2>4. timer.s.of \in 0 .. MaxCalls
    BY <1>0 DEF Samples
  <2>5. index' \in [Buffers -> Nat] /\ opened' \in [Buffers -> 0 .. MaxCalls]
    BY <1>2, <1>a, <2>4 DEF Open
  <2>6. QED
    BY <1>2, <2>2, <2>3, <2>5, Zenon DEF Types, TypeOK, Open, quiet, loading
<1>3. ASSUME Flip PROVE Types'
  <2>1. collecting' \in Buffers
    BY <1>0, <1>3 DEF Flip, Buffers
  <2>2. timer' \in Timers
    BY <1>0, <1>3, Zenon DEF Flip, Timers
  <2>3. QED
    BY <1>3, <2>1, <2>2, Zenon DEF Types, TypeOK, Flip, quiet, loading
<1>4. ASSUME Close PROVE Types'
  <2>1. index[timer.closing] \in Nat
    BY <1>0, <1>a
  <2>2. timer' \in Timers
    BY <1>0, <1>4, <2>1, Zenon DEF Close, Timers
  <2>3. buf' \in [Buffers -> [0 .. Cap - 1 -> Samples]]
    BY <1>4, CloseBuf, Zenon DEF StoredAt, Arrays
  <2>4. index' \in [Buffers -> Nat]
    <3>1. index' = [index EXCEPT ![timer.closing] = index[timer.closing] + 1]
      BY <1>4, Zenon DEF Close
    <3>2. QED
      BY <1>0, <1>a, <2>1, <3>1
  <2>5. QED
    BY <1>4, <2>2, <2>3, <2>4, Zenon DEF Types, TypeOK, Close, quiet, loading
<1>5. ASSUME AverageEntry PROVE Types'
  <2> DEFINE f == buf[timer.closing]
             k == timer.k
             d == f[k + 1].ts - f[k].ts
  <2>1. f[k].count \in Nat /\ f[k].ts \in Nat /\ f[k + 1].ts \in Nat /\ k + 1 \in Nat
    <3>1. k \in 0 .. Cap - 1 /\ k + 1 \in 0 .. Cap - 1
      BY <1>0, <1>5, IdleAssumption DEF AverageEntry
    <3>2. f[k] \in Samples /\ f[k + 1] \in Samples
      BY <1>0, <1>a, <3>1, Zenon DEF Arrays
    <3>3. k + 1 \in Nat
      BY <1>0
    <3>4. QED
      BY <3>2, <3>3, SampleFields, Zenon
  <2>2. timer' \in Timers
    <3>1. CASE d < 0
      <4>1. timer' = [timer EXCEPT !.k = k + 1]
        BY <1>5, <3>1 DEF AverageEntry
      <4>2. QED
        BY <1>0, <2>1, <4>1, Zenon DEF Timers
    <3>2. CASE ~(d < 0)
      <4>1. d \in Nat
        BY <2>1, <3>2
      <4>2. f[k].count * d \in Nat
        BY <2>1, <4>1
      <4> DEFINE w == f[k].count * d
      <4>3. timer' = [timer EXCEPT !.k = k + 1, !.sum = timer.sum + w,
                                   !.total = timer.total + d]
        BY <1>5, <3>2, Zenon DEF AverageEntry
      <4> HIDE DEF w, d
      <4>4. timer.sum + w \in Nat /\ timer.total + d \in Nat
        BY <1>0, <4>1, <4>2 DEF w
      <4>5. QED
        BY <1>0, <2>1, <4>3, <4>4, Zenon DEF Timers
    <3>3. QED
      BY <3>1, <3>2
  <2>3. QED
    BY <1>5, <2>2, Zenon DEF Types, TypeOK, AverageEntry, quiet, loading, state
<1>6. ASSUME Average PROVE Types'
  <2>1. avg' \in Nat
    <3>1. timer.total > 0 => timer.sum \div timer.total \in Nat
      BY <1>0, QuotientNat, ZenonT(30)
    <3>2. QED
      BY <1>6, <3>1 DEF Average
  <2>2. timer' \in Timers
    BY <1>0, <1>6, <2>1, Zenon DEF Average, Timers
  <2>3. QED
    BY <1>6, <2>1, <2>2, Zenon DEF Types, TypeOK, Average, quiet, loading
<1>7. ASSUME PublishIdle PROVE Types'
  <2>1. idle' \in Nat
    BY <1>0, <1>7, IdleAssumption DEF PublishIdle
  <2>2. NoTimer \in Timers
    BY IdleAssumption DEF NoTimer, Timers, Zero, Samples, Buffers
  <2>3. QED
    BY <1>7, <2>1, <2>2, Zenon DEF Types, TypeOK, PublishIdle, quiet, loading
<1>8. QED
  BY <1>1, <1>2, <1>3, <1>4, <1>5, <1>6, <1>7, Zenon

\* And every step keeps them.
LEMMA TypesNext == Types /\ [Next]_vars => Types'
<1>1. ASSUME Types, UNCHANGED vars PROVE Types'
  BY <1>1, Zenon DEF vars, loading, state, programs, Types, TypeOK
<1>2. QED
  BY <1>1, TypesLoader, TypesSampler, TypesTimer, ZenonT(30) DEF Next

-----------------------------------------------------------------------------
Inv == Types /\ Loaded /\ Openings /\ Indices /\ Fresh

\* The invariant holds when the first loader starts.
LEMMA InvInit == Init => Inv
<1> SUFFICES ASSUME Init PROVE Inv
  OBVIOUS
<1>1. Types
  BY TypesInit
<1>2. /\ timer.at = "idle" /\ \A b \in Buffers : opened[b] = 0 /\ index[b] = 0
      /\ \A p \in Pcpus : ~Holding(p)
  BY DEF Init, NoTimer, NoSampler, Holding
<1>3. calls = 0
  BY DEF Init
<1>4. QED
  BY <1>1, <1>2, <1>3 DEF Inv, Loaded, Openings, Indices, Fresh, Closed

\* A step that leaves buffers, openings and samplers alone, and the callback
\* between its own steps or past the opening.
LEMMA InvSame ==
  ASSUME Inv, Types', UNCHANGED <<index, buf, opened, late, calls, sampler>>,
         Attached => Attached', ~Attached => timer'.at = "idle",
         timer'.at = "open" => timer.at = "open" /\ timer'.s = timer.s,
         Closed' => Closed /\ timer'.n = timer.n /\ timer'.closing = timer.closing
  PROVE  Inv'
<1>1. Loaded'
  BY DEF Inv, Loaded
<1>2. Openings'
  BY DEF Inv, Openings, Holding
<1>3. Indices'
  BY DEF Inv, Indices, Holding
<1>4. Fresh'
  BY DEF Inv, Fresh, FreshEntry, Holding
<1>5. QED
  BY <1>1, <1>2, <1>3, <1>4 DEF Inv

\* As long as no buffer has been opened.
LEMMA InvUnopened ==
  ASSUME Types', timer'.at = "idle", \A b \in Buffers : opened'[b] = 0,
         \A p \in Pcpus : Holding(p)' => sampler'[p].s.of <= opened'[sampler'[p].b]
  PROVE  Inv'
<1>1. calls' \in Nat
  BY IdleAssumption DEF Types
<1>2. Loaded'
  BY DEF Loaded
<1>3. Openings'
  BY <1>1 DEF Openings
<1>4. \A p \in Pcpus : sampler'[p].b \in Buffers
  BY DEF Types, TypeOK, Samplers
<1>5. Indices'
  BY <1>4, Zenon DEF Indices, Closed
<1>6. Fresh'
  BY Zenon DEF Fresh
<1>7. QED
  BY <1>2, <1>3, <1>5, <1>6 DEF Inv

\* The steps of the loader.
LEMMA InvLoader ==
  ASSUME Inv, Types', Advance \/ Load \/ Attach \/ Pin \/ End
  PROVE  Inv'
<1>1. CASE Advance \/ Attach \/ Pin
  <2>1. UNCHANGED <<index, buf, opened, late, calls, sampler, timer>>
    BY <1>1, Zenon DEF Advance, Attach, Pin, state, programs
  <2>2. Attached => Attached'
    BY <1>1 DEF Advance, Attach, Pin, Attached
  <2>3. ~Attached => timer'.at = "idle"
    BY <2>1 DEF Inv, Loaded
  <2>4. QED
    BY <2>1, <2>2, <2>3, InvSame DEF Closed
<1>2. CASE Load
  <2>1. UNCHANGED <<buf, opened, late, calls, sampler, timer>> /\ ~Attached
    BY <1>2 DEF Load, programs, Attached
  <2>2. timer.at = "idle" /\ \A b \in Buffers : opened[b] = 0
    BY <2>1 DEF Inv, Loaded
  <2>3. \A p \in Pcpus : Holding(p)' => sampler'[p].s.of <= opened'[sampler'[p].b]
    BY <2>1 DEF Inv, Openings, Holding
  <2>4. QED
    BY <2>1, <2>2, <2>3, InvUnopened
<1>3. CASE End
  <2>1. /\ timer'.at = "idle" /\ \A b \in Buffers : opened'[b] = 0
        /\ \A p \in Pcpus : ~Holding(p)' /\ calls' = calls
    BY <1>3 DEF End, NoTimer, Holding
  <2>2. QED
    BY <2>1, InvUnopened
<1>4. QED
  BY <1>1, <1>2, <1>3

\* A sampler without an index, before and after.
LEMMA InvBefore ==
  ASSUME Inv, Types', NEW p \in Pcpus, ~Holding(p), ~Holding(p)',
         \A q \in Pcpus \ {p} : sampler'[q] = sampler[q],
         UNCHANGED <<loader, index, buf, opened, late, calls, timer>>
  PROVE  Inv'
<1>1. Loaded'
  BY DEF Inv, Loaded, Attached
<1>2. Openings'
  BY DEF Inv, Openings, Holding
<1>3. Indices'
  BY ZenonT(30) DEF Inv, Indices, Holding, Closed
<1>4. Fresh'
  BY DEF Inv, Fresh, FreshEntry, Holding
<1>5. QED
  BY <1>1, <1>2, <1>3, <1>4 DEF Inv

\* Fresh for one entry.
LEMMA FreshAt ==
  ASSUME Fresh, late = 0, NEW b \in Buffers, NEW i \in 0 .. Cap - 1, opened[b] # 0,
         i < index[b], buf[b][i].of # opened[b]
  PROVE  \E p \in Pcpus : Holding(p) /\ sampler[p].b = b /\ sampler[p].i = i
  BY DEF Fresh, FreshEntry

\* What Reserve does.
LEMMA ReserveStep ==
  ASSUME Types, NEW p \in Pcpus, Reserve(p), NEW b, b = sampler[p].b
  PROVE  /\ b \in Buffers /\ index[b] \in Nat /\ opened[b] \in Nat
         /\ ~Holding(p) /\ Holding(p)' /\ sampler'[p].b = b
         /\ sampler'[p].i = index[b] /\ sampler'[p].s.of = opened[b]
         /\ index'[b] = index[b] + 1
         /\ \A c \in Buffers : c # b => index'[c] = index[c]
         /\ \A q \in Pcpus \ {p} : sampler'[q] = sampler[q]
         /\ UNCHANGED <<loader, buf, opened, late, calls, timer>>
<1>1. /\ sampler \in [Pcpus -> Samplers] /\ sampler[p] \in Samplers
      /\ sampler[p].s \in Samples /\ b \in Buffers /\ index \in [Buffers -> Nat]
      /\ index[b] \in Nat
  BY DEF Types, TypeOK, Samplers
<1>2. opened[b] \in Nat
  BY <1>1, IdleAssumption DEF Types
<1> DEFINE s == [sampler[p].s EXCEPT !.of = opened[b]]
           h == [sampler[p] EXCEPT !.at = "store", !.i = index[b], !.s = s]
<1>3. s.of = opened[b]
  BY <1>1, Zenon DEF Samples
<1> HIDE DEF s
<1>4. h.at = "store" /\ h.b = b /\ h.i = index[b] /\ h.s = s
  BY <1>1 DEF Samplers
<1> HIDE DEF h
<1>5. sampler' = [sampler EXCEPT ![p] = h]
  BY ZenonT(30) DEF Reserve, Types, TypeOK, h, s
<1>6. sampler'[p] = h /\ \A q \in Pcpus \ {p} : sampler'[q] = sampler[q]
  BY <1>1, <1>5
<1>7. index'[b] = index[b] + 1 /\ \A c \in Buffers : c # b => index'[c] = index[c]
  BY <1>1 DEF Reserve
<1>8. ~Holding(p) /\ UNCHANGED <<loader, buf, opened, late, calls, timer>>
  BY DEF Reserve, Holding, loading
<1>9. QED
  BY <1>1, <1>2, <1>3, <1>4, <1>6, <1>7, <1>8 DEF Holding

\* A sampler that takes an index takes a new one, of the current opening.
LEMMA InvReserve ==
  ASSUME Inv, Types', NEW p \in Pcpus, Reserve(p)
  PROVE  Inv'
<1> DEFINE b == sampler[p].b
<1>0. /\ b \in Buffers /\ index[b] \in Nat /\ opened[b] \in Nat
      /\ ~Holding(p) /\ Holding(p)' /\ sampler'[p].b = b
      /\ sampler'[p].i = index[b] /\ sampler'[p].s.of = opened[b]
      /\ index'[b] = index[b] + 1
      /\ \A c \in Buffers : c # b => index'[c] = index[c]
      /\ \A q \in Pcpus \ {p} : sampler'[q] = sampler[q]
      /\ UNCHANGED <<loader, buf, opened, late, calls, timer>>
  BY ReserveStep DEF Inv
<1> HIDE DEF b
<1>a. \A c \in Buffers : index[c] \in Nat /\ index'[c] >= index[c]
  <2>1. \A c \in Buffers : index[c] \in Nat
    BY DEF Inv, Types, TypeOK
  <2>2. QED
    BY <1>0, <2>1
<1>b. \A q \in Pcpus : sampler[q].b \in Buffers /\ sampler[q].i \in Nat
  BY Zenon DEF Inv, Types, TypeOK, Samplers
<1>1. Loaded'
  BY <1>0, ZenonT(30) DEF Inv, Loaded, Attached
<1>2. Openings'
  <2>1. ASSUME NEW q \in Pcpus, Holding(q)'
        PROVE  sampler'[q].s.of <= opened'[sampler'[q].b]
    <3>1. CASE q = p
      BY <1>0, <3>1
    <3>2. CASE q # p
      BY <1>0, <2>1, <3>2, ZenonT(30) DEF Inv, Openings, Holding
    <3>3. QED
      BY <3>1, <3>2, ZenonT(30)
  <2>2. \A c \in Buffers : opened'[c] # 0 => index'[c] >= 1
    BY <1>0, <1>a DEF Inv, Openings
  <2>3. QED
    BY <1>0, <2>1, <2>2 DEF Inv, Openings
<1>3. Indices'
  <2>1. Closed => timer.closing \in Buffers /\ timer.n \in Nat
                  /\ timer.n < index[timer.closing]
    BY DEF Inv, Indices, Types, TypeOK, Timers
  <2>2. ASSUME NEW q \in Pcpus, Holding(q)', opened'[sampler'[q].b] # 0,
               sampler'[q].s.of = opened'[sampler'[q].b]
        PROVE  /\ 1 <= sampler'[q].i /\ sampler'[q].i < index'[sampler'[q].b]
               /\ Closed' /\ sampler'[q].b = timer'.closing => sampler'[q].i # timer'.n
    <3>1. CASE q = p
      <4>1. index[b] >= 1
        BY <1>0, <2>2, <3>1, ZenonT(30) DEF Inv, Openings
      <4>2. Closed' /\ b = timer'.closing => index[b] # timer'.n
        BY <1>0, <2>1 DEF Closed
      <4>3. QED
        BY <1>0, <3>1, <4>1, <4>2
    <3>2. CASE q # p
      <4>1. sampler'[q] = sampler[q] /\ Holding(q)
        BY <1>0, <2>2, <3>2, ZenonT(30) DEF Holding
      <4>2. /\ 1 <= sampler[q].i /\ sampler[q].i < index[sampler[q].b]
            /\ Closed /\ sampler[q].b = timer.closing => sampler[q].i # timer.n
        BY <1>0, <2>2, <4>1 DEF Inv, Indices
      <4>3. index'[sampler[q].b] >= index[sampler[q].b] /\ index[sampler[q].b] \in Nat
        BY <1>a, <1>b
      <4>4. index'[sampler[q].b] \in Nat
        BY <1>b, ZenonT(30) DEF Types, TypeOK
      <4>5. sampler[q].i < index'[sampler[q].b]
        BY <1>b, <4>2, <4>3, <4>4
      <4>6. QED
        BY <1>0, <4>1, <4>2, <4>5 DEF Closed
    <3>3. QED
      BY <3>1, <3>2, Zenon
  <2>3. Closed' => timer'.n < index'[timer'.closing]
    <3>1. \A c \in Buffers : index'[c] \in Nat
      BY ZenonT(30) DEF Types, TypeOK
    <3>2. QED
      BY <1>0, <1>a, <2>1, <3>1 DEF Closed
  <2>4. QED
    BY <2>2, <2>3, Zenon DEF Indices
<1>4. Fresh'
  <2> SUFFICES ASSUME late' = 0, NEW c \in Buffers, NEW i \in 0 .. Cap - 1,
                      opened'[c] # 0, i < index'[c]
               PROVE  FreshEntry(c, i)'
    BY Zenon DEF Fresh
  <2>1. CASE c = b /\ i = index[b]
    BY <1>0, <2>1 DEF FreshEntry
  <2>2. CASE ~(c = b /\ i = index[b])
    <3>1. i < index[c]
      BY <1>0, <1>a, <2>2, IdleAssumption
    <3>2. CASE buf[c][i].of = opened[c]
      BY <1>0, <3>2, ZenonT(30) DEF FreshEntry
    <3>3. CASE buf[c][i].of # opened[c]
      <4>1. PICK q \in Pcpus : Holding(q) /\ sampler[q].b = c /\ sampler[q].i = i
        BY <1>0, <3>1, <3>3, FreshAt, ZenonT(30) DEF Inv
      <4>2. q # p
        BY <1>0, <4>1
      <4>3. QED
        BY <1>0, <4>1, <4>2, ZenonT(30) DEF Holding, FreshEntry
    <3>4. QED
      BY <3>2, <3>3
  <2>3. QED
    BY <2>1, <2>2
<1>5. QED
  BY <1>1, <1>2, <1>3, <1>4 DEF Inv

\* A sampler that stores its sample makes its entry fresh, or is late.
LEMMA InvStore ==
  ASSUME Inv, Types', NEW p \in Pcpus, Store(p)
  PROVE  Inv'
<1> DEFINE h == sampler[p]
<1>0. /\ Holding(p) /\ ~Holding(p)'
      /\ \A q \in Pcpus \ {p} : sampler'[q] = sampler[q]
      /\ UNCHANGED <<loader, index, opened, calls>>
      /\ late' = IF h.s.of # opened[h.b] THEN 1 ELSE late
  BY DEF Inv, Types, TypeOK, Store, Holding, NoSampler, loading, state
<1>a. /\ timer'.at = timer.at /\ timer'.s = timer.s /\ timer'.n = timer.n
      /\ timer'.closing = timer.closing
  <2>1. timer \in Timers
    BY DEF Inv, Types, TypeOK
  <2>2. timer' = timer \/ timer' = [timer EXCEPT !.hit = 1]
    BY Zenon DEF Store
  <2>3. QED
    BY <2>1, <2>2 DEF Timers
<1>1. Loaded'
  BY <1>0, <1>a, ZenonT(30) DEF Inv, Loaded, Attached
<1>2. Openings'
  BY <1>0, <1>a, ZenonT(30) DEF Inv, Openings, Holding
<1>3. Indices'
  BY <1>0, <1>a, ZenonT(30) DEF Inv, Indices, Holding, Closed
<1>4. Fresh'
  <2> SUFFICES ASSUME late' = 0, NEW c \in Buffers, NEW i \in 0 .. Cap - 1,
                      opened'[c] # 0, i < index'[c]
               PROVE  FreshEntry(c, i)'
    BY Zenon DEF Fresh
  <2>1. late = 0 /\ h.s.of = opened[h.b] /\ i < index[c] /\ opened[c] # 0
    BY <1>0
  <2>2. h.b \in Buffers /\ StoredAt(buf', buf, h.b, h.i, h.s)
    BY StoreBuf, Zenon DEF Inv, Types, TypeOK, Samplers
  <2> HIDE DEF h
  <2>3. CASE c = h.b /\ i = h.i
    <3>1. i < Cap
      BY IdleAssumption
    <3>2. buf'[c][i] = h.s
      BY <2>2, <2>3, <3>1 DEF StoredAt
    <3>3. QED
      BY <1>0, <2>1, <2>3, <3>2 DEF FreshEntry
  <2>4. CASE ~(c = h.b /\ i = h.i)
    <3>1. buf'[c][i] = buf[c][i]
      BY <2>2, <2>4 DEF StoredAt
    <3>2. CASE buf[c][i].of = opened[c]
      BY <1>0, <3>1, <3>2, ZenonT(30) DEF FreshEntry
    <3>3. CASE buf[c][i].of # opened[c]
      <4>1. PICK q \in Pcpus : Holding(q) /\ sampler[q].b = c /\ sampler[q].i = i
        BY <2>1, <3>3, FreshAt DEF Inv
      <4>2. q # p
        BY <2>4, <4>1, ZenonT(30) DEF h
      <4>3. QED
        BY <1>0, <4>1, <4>2 DEF Holding, FreshEntry
    <3>4. QED
      BY <3>2, <3>3
  <2>5. QED
    BY <2>3, <2>4
<1>5. QED
  BY <1>1, <1>2, <1>3, <1>4 DEF Inv

\* The steps of a sampler before it reserves an index.
LEMMA InvSampler ==
  ASSUME Inv, Types', NEW p \in Pcpus, (\E c \in Counts : Sample(p, c)) \/ ReadFlag(p)
  PROVE  Inv'
<1>1. /\ UNCHANGED <<loader, index, buf, opened, late, calls, timer>>
      /\ \A q \in Pcpus \ {p} : sampler'[q] = sampler[q]
      /\ ~Holding(p)
  BY Zenon DEF Inv, Types, TypeOK, Sample, ReadFlag, loading, state, Holding
<1>2. ~Holding(p)'
  <2>1. sampler \in [Pcpus -> Samplers] /\ sampler[p] \in Samplers
    BY DEF Inv, Types, TypeOK
  <2>2. ASSUME NEW c \in Counts, Sample(p, c) PROVE sampler'[p].at = "flag"
    BY <2>1, <2>2, Zenon DEF Sample, NoSampler
  <2>3. ASSUME ReadFlag(p) PROVE sampler'[p].at = "reserve"
    <3>1. sampler'[p] = [sampler[p] EXCEPT !.at = "reserve", !.b = collecting]
      BY <2>1, <2>3, Zenon DEF ReadFlag
    <3>2. QED
      BY <2>1, <3>1, Zenon DEF Samplers
  <2>4. QED
    BY <2>2, <2>3 DEF Holding
<1>3. QED
  BY <1>1, <1>2, InvBefore

\* A callback begins with a number that no opening has.
LEMMA InvBoundary ==
  ASSUME Inv, Types', NEW c \in Counts, Boundary(c)
  PROVE  Inv'
<1>0. /\ calls' = calls + 1 /\ Attached /\ UNCHANGED loader
      /\ UNCHANGED <<index, buf, opened, late, sampler>>
      /\ timer' = [NoTimer EXCEPT !.at = "open",
                     !.s = [count |-> c, ts |-> clock, of |-> calls']]
  BY Zenon DEF Boundary, quiet, loading, state
<1>1. timer'.at = "open" /\ timer'.s.of = calls'
  BY <1>0, Zenon DEF NoTimer
<1>2. calls \in Nat /\ \A b \in Buffers : opened[b] \in Nat
  BY IdleAssumption DEF Inv, Types
<1>3. Loaded'
  BY <1>0 DEF Loaded, Attached
<1>4. Openings'
  BY <1>0, <1>1, <1>2 DEF Inv, Openings, Holding
<1>5. Indices'
  BY <1>0, <1>1 DEF Inv, Indices, Holding, Closed
<1>6. Fresh'
  BY <1>0 DEF Inv, Fresh, FreshEntry, Holding
<1>7. QED
  BY <1>3, <1>4, <1>5, <1>6 DEF Inv

\* The steps of the callback that change neither buffers nor indices.
LEMMA InvTimer ==
  ASSUME Inv, Types', Flip \/ AverageEntry \/ Average \/ PublishIdle
  PROVE  Inv'
<1>1. UNCHANGED <<loader, index, buf, opened, late, calls, sampler>>
  BY Zenon DEF Flip, AverageEntry, Average, PublishIdle, quiet, loading, state
<1>2. timer \in Timers
  BY DEF Inv, Types, TypeOK
<1>3. /\ timer.at # "idle" /\ timer'.at # "open"
      /\ Closed' => Closed /\ timer'.n = timer.n /\ timer'.closing = timer.closing
  <2>1. CASE Flip
    BY <1>2, <2>1 DEF Flip, Closed, Timers
  <2>2. CASE AverageEntry
    <3>1. timer.at = "average" /\ timer'.at = "average" /\ timer'.n = timer.n
          /\ timer'.closing = timer.closing
      BY <1>2, <2>2, Zenon DEF AverageEntry, Timers
    <3>2. QED
      BY <3>1 DEF Closed
  <2>3. CASE Average
    BY <1>2, <2>3 DEF Average, Closed, Timers
  <2>4. CASE PublishIdle
    BY <2>4 DEF PublishIdle, NoTimer, Closed
  <2>5. QED
    BY <2>1, <2>2, <2>3, <2>4
<1>4. Attached /\ Attached'
  BY <1>1, <1>3, ZenonT(30) DEF Inv, Loaded, Attached
<1>5. QED
  BY <1>1, <1>3, <1>4, InvSame

\* What Open does.
LEMMA OpenStep ==
  ASSUME Types, Open, NEW b, b = 3 - collecting
  PROVE  /\ b \in Buffers /\ collecting \in Buffers /\ b # collecting
         /\ timer.at = "open" /\ timer'.at = "flip" /\ timer'.closing = collecting
         /\ timer'.from = buf[collecting][0].ts /\ timer'.s = timer.s
         /\ timer'.k = timer.k /\ timer'.total = timer.total
         /\ index'[b] = 1 /\ opened'[b] = timer.s.of /\ buf'[b][0] = timer.s
         /\ \A c \in Buffers : c # b => /\ index'[c] = index[c] /\ buf'[c] = buf[c]
                                        /\ opened'[c] = opened[c]
         /\ UNCHANGED <<loader, late, calls, sampler>>
<1>1. /\ timer \in Timers /\ b \in Buffers /\ collecting \in Buffers /\ b # collecting
      /\ index \in [Buffers -> Nat] /\ opened \in [Buffers -> 0 .. MaxCalls]
  BY DEF Types, TypeOK, Buffers
<1>2. /\ timer'.at = "flip" /\ timer'.closing = collecting /\ timer'.s = timer.s
      /\ timer'.from = buf[collecting][0].ts
      /\ timer'.k = timer.k /\ timer'.total = timer.total
  BY <1>1, Zenon DEF Open, Timers
<1>3. /\ index' = [index EXCEPT ![b] = 1] /\ opened' = [opened EXCEPT ![b] = timer.s.of]
      /\ timer.at = "open" /\ UNCHANGED <<loader, late, calls, sampler>>
  BY Zenon DEF Open, quiet, loading
<1>4. buf'[b][0] = timer.s /\ \A c \in Buffers : c # b => buf'[c] = buf[c]
  <2>1. StoredAt(buf', buf, b, 0, timer.s)
    BY OpenBuf
  <2>2. 0 < Cap
    BY IdleAssumption
  <2>3. QED
    BY <2>1, <2>2 DEF StoredAt
<1>5. QED
  BY <1>1, <1>2, <1>3, <1>4

\* The buffer that is opened has one entry, the boundary sample.
LEMMA InvOpen ==
  ASSUME Inv, Types', Open
  PROVE  Inv'
<1> DEFINE b == 3 - collecting
<1>0. /\ b \in Buffers /\ timer.at = "open" /\ timer'.at = "flip"
      /\ index'[b] = 1 /\ opened'[b] = timer.s.of /\ buf'[b][0] = timer.s
      /\ \A c \in Buffers : c # b => /\ index'[c] = index[c] /\ buf'[c] = buf[c]
                                     /\ opened'[c] = opened[c]
      /\ UNCHANGED <<loader, late, calls, sampler>>
  BY OpenStep DEF Inv
<1> HIDE DEF b
<1>a. /\ opened'[b] = calls /\ opened[b] < calls /\ calls \in Nat
      /\ \A c \in Buffers : opened[c] \in Nat
  BY <1>0, IdleAssumption DEF Inv, Openings, Types
<1>b. \A q \in Pcpus : sampler[q].b \in Buffers /\ sampler[q].s.of \in Nat
  <2>1. ASSUME NEW q \in Pcpus PROVE sampler[q].b \in Buffers /\ sampler[q].s \in Samples
    BY Zenon DEF Inv, Types, TypeOK, Samplers
  <2>2. QED
    BY <2>1, SampleFields, Zenon
<1>c. \A q \in Pcpus : Holding(q) => sampler[q].s.of <= opened[sampler[q].b]
  BY DEF Inv, Openings
<1>1. Loaded'
  BY <1>0, ZenonT(30) DEF Inv, Loaded, Attached
<1>2. Openings'
  <2>1. ASSUME NEW q \in Pcpus, Holding(q)'
        PROVE  sampler'[q].s.of <= opened'[sampler'[q].b]
    <3>1. Holding(q) /\ sampler'[q] = sampler[q]
      BY <1>0, <2>1 DEF Holding
    <3>2. CASE sampler[q].b = b
      BY <1>a, <1>b, <1>c, <3>1, <3>2
    <3>3. CASE sampler[q].b # b
      BY <1>0, <1>b, <1>c, <3>1, <3>3
    <3>4. QED
      BY <3>2, <3>3
  <2>2. \A c \in Buffers : opened'[c] <= calls' /\ (opened'[c] # 0 => index'[c] >= 1)
    BY <1>0, <1>a DEF Inv, Openings
  <2>3. QED
    BY <1>0, <2>1, <2>2 DEF Openings
<1>3. Indices'
  <2>1. ASSUME NEW q \in Pcpus, Holding(q)', opened'[sampler'[q].b] # 0,
               sampler'[q].s.of = opened'[sampler'[q].b]
        PROVE  1 <= sampler'[q].i /\ sampler'[q].i < index'[sampler'[q].b]
    <3>1. Holding(q) /\ sampler'[q] = sampler[q]
      BY <1>0, <2>1 DEF Holding
    <3>2. sampler[q].b # b
      BY <1>a, <1>b, <1>c, <2>1, <3>1
    <3>3. QED
      BY <1>0, <1>b, <2>1, <3>1, <3>2, ZenonT(30) DEF Inv, Indices
  <2>2. ~Closed'
    BY <1>0 DEF Closed
  <2>3. QED
    BY <2>1, <2>2, Zenon DEF Indices
<1>4. Fresh'
  <2> SUFFICES ASSUME late' = 0, NEW c \in Buffers, NEW i \in 0 .. Cap - 1,
                      opened'[c] # 0, i < index'[c]
               PROVE  FreshEntry(c, i)'
    BY Zenon DEF Fresh
  <2>1. CASE c = b
    <3>1. i = 0
      BY <1>0, <2>1, IdleAssumption
    <3>2. QED
      BY <1>0, <2>1, <3>1 DEF FreshEntry
  <2>2. CASE c # b
    BY <1>0, <2>2 DEF Inv, Fresh, FreshEntry, Holding
  <2>3. QED
    BY <2>1, <2>2
<1>5. QED
  BY <1>1, <1>2, <1>3, <1>4 DEF Inv

\* What Close does.
LEMMA CloseStep ==
  ASSUME Types, Close, NEW b, b = timer.closing
  PROVE  /\ b \in Buffers /\ index[b] \in Nat /\ timer.at = "close"
         /\ timer'.at = "average" /\ timer'.closing = b /\ timer'.n = index[b]
         /\ timer'.k = timer.k /\ timer'.total = timer.total
         /\ timer'.from = timer.from /\ timer'.s = timer.s
         /\ index'[b] = index[b] + 1
         /\ \A c \in Buffers : c # b => index'[c] = index[c] /\ buf'[c] = buf[c]
         /\ \A j \in 0 .. Cap - 1 : j # index[b] => buf'[b][j] = buf[b][j]
         /\ index[b] < Cap => /\ buf'[b][index[b]].of = opened[b]
                              /\ buf'[b][index[b]].ts = timer.s.ts
         /\ UNCHANGED <<loader, opened, late, calls, sampler>>
<1>1. timer \in Timers /\ b \in Buffers /\ index \in [Buffers -> Nat] /\ index[b] \in Nat
  BY DEF Types, TypeOK, Timers
<1>2. /\ timer' = [timer EXCEPT !.at = "average", !.n = index[b]]
      /\ index' = [index EXCEPT ![b] = index[b] + 1] /\ timer.at = "close"
      /\ UNCHANGED <<loader, opened, late, calls, sampler>>
  BY Zenon DEF Close, quiet, loading
<1>3. /\ timer'.at = "average" /\ timer'.closing = b /\ timer'.n = index[b]
      /\ timer'.k = timer.k /\ timer'.total = timer.total /\ timer'.from = timer.from
      /\ timer'.s = timer.s
  BY <1>1, <1>2 DEF Timers
<1> DEFINE s == [timer.s EXCEPT !.of = opened[timer.closing]]
<1>4. s.of = opened[b] /\ s.ts = timer.s.ts /\ StoredAt(buf', buf, b, index[b], s)
  BY CloseBuf
<1> HIDE DEF s
<1>5. QED
  BY <1>1, <1>2, <1>3, <1>4 DEF StoredAt

\* The index of the closing sample is a new one, too.
LEMMA InvClose ==
  ASSUME Inv, Types', Close
  PROVE  Inv'
<1> DEFINE b == timer.closing
<1>0. /\ b \in Buffers /\ index[b] \in Nat /\ timer.at = "close"
      /\ timer'.at = "average" /\ timer'.closing = b /\ timer'.n = index[b]
      /\ index'[b] = index[b] + 1
      /\ \A c \in Buffers : c # b => index'[c] = index[c] /\ buf'[c] = buf[c]
      /\ \A j \in 0 .. Cap - 1 : j # index[b] => buf'[b][j] = buf[b][j]
      /\ index[b] < Cap => buf'[b][index[b]].of = opened[b]
      /\ UNCHANGED <<loader, opened, late, calls, sampler>>
  BY CloseStep DEF Inv
<1> HIDE DEF b
<1>a. \A c \in Buffers : index[c] \in Nat
  BY DEF Inv, Types, TypeOK
<1>1. Loaded'
  BY <1>0, ZenonT(30) DEF Inv, Loaded, Attached
<1>2. Openings'
  BY <1>0, <1>a DEF Inv, Openings, Holding
<1>3. Indices'
  <2>1. ASSUME NEW q \in Pcpus, Holding(q)', opened'[sampler'[q].b] # 0,
               sampler'[q].s.of = opened'[sampler'[q].b]
        PROVE  /\ 1 <= sampler'[q].i /\ sampler'[q].i < index'[sampler'[q].b]
               /\ sampler'[q].b = timer'.closing => sampler'[q].i # timer'.n
    <3>1. Holding(q) /\ sampler'[q] = sampler[q]
      BY <1>0, <2>1, ZenonT(30) DEF Holding
    <3>2. 1 <= sampler[q].i /\ sampler[q].i < index[sampler[q].b]
      BY <1>0, <2>1, <3>1 DEF Inv, Indices
    <3>3. sampler[q].b \in Buffers /\ sampler[q].i \in Nat
      BY Zenon DEF Inv, Types, TypeOK, Samplers
    <3>4. QED
      BY <1>0, <1>a, <3>1, <3>2, <3>3
  <2>2. timer'.n < index'[timer'.closing]
    BY <1>0
  <2>3. QED
    BY <2>1, <2>2, Zenon DEF Indices
<1>4. Fresh'
  <2> SUFFICES ASSUME late' = 0, NEW c \in Buffers, NEW i \in 0 .. Cap - 1,
                      opened'[c] # 0, i < index'[c]
               PROVE  FreshEntry(c, i)'
    BY Zenon DEF Fresh
  <2>1. CASE c = b /\ i = index[b]
    BY <1>0, <2>1, IdleAssumption DEF FreshEntry
  <2>2. CASE ~(c = b /\ i = index[b])
    <3>1. i < index[c]
      BY <1>0, <1>a, <2>2, IdleAssumption
    <3>2. buf'[c][i] = buf[c][i]
      BY <1>0, <2>2
    <3>3. QED
      BY <1>0, <3>1, <3>2 DEF Inv, Fresh, FreshEntry, Holding
  <2>3. QED
    BY <2>1, <2>2
<1>5. QED
  BY <1>1, <1>2, <1>3, <1>4, ZenonT(30) DEF Inv

\* So every step keeps the invariant.
LEMMA InvNext == Inv /\ [Next]_vars => Inv'
<1> SUFFICES ASSUME Inv, [Next]_vars PROVE Inv'
  OBVIOUS
<1>0. Types'
  BY TypesNext DEF Inv
<1>1. ASSUME UNCHANGED vars PROVE Inv'
  <2>1. UNCHANGED <<loader, index, buf, opened, late, calls, sampler, timer>>
    BY <1>1, Zenon DEF vars, loading, state, programs
  <2>2. QED
    BY <1>0, <2>1, InvSame DEF Inv, Loaded, Attached, Closed
<1>2. QED
  BY <1>0, <1>1, InvLoader, InvSampler, InvReserve, InvStore, InvBoundary, InvOpen,
     InvTimer, InvClose, ZenonT(30) DEF Next

\* And it always holds.
LEMMA InvAlways == Spec => []Inv
  BY InvInit, InvNext, PTL DEF Spec

\* From the second callback of a load on, what is averaged was stored for the
\* period that is closed, for any number of pCPUs and any capacity, whatever the
\* pinned indices were at the load (idle_avg_timer_cb).
THEOREM IdleEntriesAreFresh == Spec => []FreshAfterReload
<1>1. Inv => FreshAfterReload
  <2> SUFFICES ASSUME Inv, Closed, Proper, NEW i \in 0 .. Cap - 1, i <= timer.n
               PROVE  FreshEntry(timer.closing, i)
    BY Zenon DEF FreshAfterReload, Closed, FreshEntry, Holding
  <2>1. /\ timer.closing \in Buffers /\ timer.n \in Nat
        /\ index[timer.closing] \in Nat
    BY DEF Inv, Types, TypeOK, Timers
  <2>2. i < index[timer.closing]
    BY <2>1, IdleAssumption DEF Inv, Indices
  <2>3. QED
    BY <2>1, <2>2 DEF Inv, Fresh, Proper
<1>2. QED
  BY <1>1, InvAlways, PTL

-----------------------------------------------------------------------------
\* Where the period began and ended, and what has been added up in between.
Ends ==
  /\ timer.at \in {"open", "flip", "close"} => timer.k = 0 /\ timer.total = 0
  /\ timer.at \in {"flip", "close"} /\ Proper => buf[timer.closing][0].ts = timer.from
  /\ Closed /\ Proper /\ timer.n < Cap => buf[timer.closing][timer.n].ts = timer.s.ts
  /\ timer.at = "average" => timer.k <= timer.n
  /\ timer.at = "average" /\ Proper /\ timer.hit = 0 /\ timer.k < Cap =>
       timer.total >= buf[timer.closing][timer.k].ts - timer.from
  /\ PeriodCovered

\* A step that leaves the buffers and the callback alone, or ends the callback.
LEMMA EndsSame ==
  ASSUME Ends, UNCHANGED <<buf, opened, late>>, timer' = timer \/ timer'.at = "idle"
  PROVE  Ends'
  BY ZenonT(30) DEF Ends, Proper, Closed, PeriodCovered

\* A sampler that stores where the average is at is noted in hit; elsewhere it
\* cannot change what has been added up.
LEMMA EndsStore ==
  ASSUME Inv, Ends, NEW p \in Pcpus, Store(p)
  PROVE  Ends'
<1> DEFINE h == sampler[p]
           b == timer.closing
<1>0. /\ timer \in Timers /\ b \in Buffers /\ h.b \in Buffers /\ h.i \in Nat
      /\ StoredAt(buf', buf, h.b, h.i, h.s)
  <2>1. timer \in Timers /\ h \in Samplers
    BY DEF Inv, Types, TypeOK
  <2>2. StoredAt(buf', buf, h.b, h.i, h.s)
    BY StoreBuf DEF Inv
  <2>3. QED
    BY <2>1, <2>2 DEF Timers, Samplers
<1>1. /\ opened' = opened /\ h.at = "store"
      /\ late' = IF h.s.of # opened[h.b] THEN 1 ELSE late
      /\ timer' = IF timer.at = "average" /\ h.b = b /\ h.i = timer.k
                  THEN [timer EXCEPT !.hit = 1] ELSE timer
  BY Zenon DEF Store
<1>2. /\ timer'.at = timer.at /\ timer'.closing = b /\ timer'.s = timer.s
      /\ timer'.n = timer.n /\ timer'.k = timer.k /\ timer'.total = timer.total
      /\ timer'.from = timer.from
      /\ timer'.hit = 0 => /\ timer.hit = 0
                           /\ ~(timer.at = "average" /\ h.b = b /\ h.i = timer.k)
  BY <1>0, <1>1 DEF Timers
<1> HIDE DEF h
<1>3. Proper' => Proper /\ h.s.of = opened[h.b]
  BY <1>1, <1>2 DEF Proper
<1>4. Proper' /\ h.b = b => 1 <= h.i /\ (Closed => h.i # timer.n)
  BY <1>1, <1>3 DEF Inv, Indices, Holding, Proper, h
<1>5. \A j \in 0 .. Cap - 1 : h.b # b \/ h.i # j => buf'[b][j] = buf[b][j]
  BY <1>0 DEF StoredAt
<1>6. Proper' => buf'[b][0] = buf[b][0]
  <2>1. 0 \in 0 .. Cap - 1
    BY IdleAssumption
  <2>2. Proper' => h.b # b \/ h.i # 0
    BY <1>4
  <2>3. QED
    BY <1>5, <2>1, <2>2
<1>7. Proper' /\ Closed /\ timer.n < Cap => buf'[b][timer.n] = buf[b][timer.n]
  <2>1. timer.n < Cap => timer.n \in 0 .. Cap - 1
    BY <1>0, IdleAssumption DEF Timers
  <2>2. QED
    BY <1>4, <1>5, <2>1
<1>8. timer.at = "average" /\ timer'.hit = 0 /\ timer.k < Cap =>
        buf'[b][timer.k] = buf[b][timer.k]
  <2>1. timer.k < Cap => timer.k \in 0 .. Cap - 1
    BY <1>0, IdleAssumption DEF Timers
  <2>2. QED
    BY <1>2, <1>5, <2>1
<1>9. QED
  BY <1>2, <1>3, <1>6, <1>7, <1>8, ZenonT(30) DEF Ends, Closed, PeriodCovered

\* A new callback has added up nothing.
LEMMA EndsBoundary ==
  ASSUME NEW c \in Counts, Boundary(c)
  PROVE  Ends'
<1>1. timer' = [NoTimer EXCEPT !.at = "open",
                  !.s = [count |-> c, ts |-> clock, of |-> calls']]
  BY Zenon DEF Boundary
<1>2. timer'.at = "open" /\ timer'.k = 0 /\ timer'.total = 0
  BY <1>1, Zenon DEF NoTimer
<1>3. QED
  BY <1>2 DEF Ends, Closed, PeriodCovered

\* The buffer that is opened is not the one that will be averaged.
LEMMA EndsOpen ==
  ASSUME Inv, Ends, Open
  PROVE  Ends'
<1> DEFINE b == 3 - collecting
<1>1. /\ collecting \in Buffers /\ b # collecting
      /\ timer.at = "open" /\ timer'.at = "flip" /\ timer'.closing = collecting
      /\ timer'.from = buf[collecting][0].ts
      /\ timer'.k = timer.k /\ timer'.total = timer.total
      /\ \A c \in Buffers : c # b => buf'[c] = buf[c]
  BY OpenStep DEF Inv
<1>2. QED
  BY <1>1, ZenonT(30) DEF Ends, Closed, PeriodCovered

\* Nor does the flip change the entries.
LEMMA EndsFlip ==
  ASSUME Inv, Ends, Flip
  PROVE  Ends'
<1>1. timer \in Timers
  BY DEF Inv, Types, TypeOK
<1>2. /\ timer.at = "flip" /\ timer' = [timer EXCEPT !.at = "close"]
      /\ UNCHANGED <<buf, opened, late>>
  BY Zenon DEF Flip, quiet
<1>3. /\ timer'.at = "close" /\ timer'.closing = timer.closing
      /\ timer'.from = timer.from /\ timer'.k = timer.k /\ timer'.total = timer.total
  BY <1>1, <1>2, ZenonT(30) DEF Timers
<1>4. QED
  BY <1>2, <1>3 DEF Ends, Closed, PeriodCovered, Proper

\* The closing sample becomes the last entry and has the time of the callback.
LEMMA EndsClose ==
  ASSUME Inv, Ends, Close
  PROVE  Ends'
<1> DEFINE b == timer.closing
<1>1. /\ b \in Buffers /\ index[b] \in Nat /\ timer.at = "close"
      /\ timer'.at = "average" /\ timer'.closing = b /\ timer'.n = index[b]
      /\ timer'.k = timer.k /\ timer'.total = timer.total
      /\ timer'.from = timer.from /\ timer'.s = timer.s
      /\ \A j \in 0 .. Cap - 1 : j # index[b] => buf'[b][j] = buf[b][j]
      /\ index[b] < Cap => buf'[b][index[b]].ts = timer.s.ts
      /\ UNCHANGED <<opened, late>>
  BY CloseStep, ZenonT(30) DEF Inv
<1>2. timer.k = 0 /\ timer.total = 0 /\ (Proper => buf[b][0].ts = timer.from)
  BY <1>1 DEF Ends
<1>3. Proper' <=> Proper
  BY <1>1, ZenonT(30) DEF Proper
<1>4. Proper => buf'[b][0] = buf[b][0]
  <2>1. 0 \in 0 .. Cap - 1
    BY IdleAssumption
  <2>2. Proper => index[b] # 0
    BY <1>1 DEF Proper, Inv, Openings
  <2>3. QED
    BY <1>1, <2>1, <2>2
<1>5. timer.from \in Nat
  <2>1. timer.from \in 0 .. MaxTime
    BY Zenon DEF Inv, Types, TypeOK, Timers
  <2>2. QED
    BY <2>1, IdleAssumption
<1> HIDE DEF b
<1>6. QED
  BY <1>1, <1>2, <1>3, <1>4, <1>5 DEF Ends, Closed, PeriodCovered

\* What AverageEntry does.
LEMMA EntryStep ==
  ASSUME Types, AverageEntry, NEW f, f = buf[timer.closing], NEW k, k = timer.k
  PROVE  /\ k \in Nat /\ k < timer.n /\ k + 1 < Cap /\ timer.n \in Nat
         /\ f[k].count \in Counts /\ f[k].ts \in Nat /\ f[k + 1].ts \in Nat
         /\ timer.sum \in Nat /\ timer.total \in Nat /\ timer.from \in Nat
         /\ timer.at = "average" /\ timer'.at = "average"
         /\ timer'.closing = timer.closing /\ timer'.n = timer.n /\ timer'.s = timer.s
         /\ timer'.from = timer.from /\ timer'.hit = timer.hit /\ timer'.k = k + 1
         /\ \/ f[k + 1].ts < f[k].ts /\ timer'.sum = timer.sum /\ timer'.total = timer.total
            \/ /\ f[k + 1].ts >= f[k].ts
               /\ timer'.sum = timer.sum + f[k].count * (f[k + 1].ts - f[k].ts)
               /\ timer'.total = timer.total + (f[k + 1].ts - f[k].ts)
         /\ UNCHANGED <<buf, avg, opened, late>>
<1> DEFINE d == f[k + 1].ts - f[k].ts
           w == f[k].count * d
<1>0. timer \in Timers
  BY DEF Types, TypeOK
<1>1. /\ timer.closing \in Buffers /\ k \in Nat /\ timer.n \in Nat
      /\ timer.sum \in Nat /\ timer.total \in Nat /\ timer.from \in Nat
  BY <1>0, IdleAssumption DEF Timers
<1>2. /\ k < timer.n /\ k + 1 < Cap /\ timer.at = "average"
      /\ UNCHANGED <<buf, avg, opened, late>>
  BY Zenon DEF AverageEntry, quiet, state
<1>3. timer' = IF d < 0 THEN [timer EXCEPT !.k = k + 1]
               ELSE [timer EXCEPT !.k = k + 1, !.sum = timer.sum + w,
                                  !.total = timer.total + d]
  BY Zenon DEF AverageEntry
<1>4. f[k].count \in Counts /\ f[k].ts \in Nat /\ f[k + 1].ts \in Nat
  <2>1. k \in 0 .. Cap - 1 /\ k + 1 \in 0 .. Cap - 1
    BY <1>1, <1>2, IdleAssumption
  <2>2. f[k] \in Samples /\ f[k + 1] \in Samples
    BY <1>1, <2>1, Zenon DEF Types, TypeOK
  <2>3. QED
    BY <2>2, SampleFields, Zenon
<1>5. (d < 0 <=> f[k + 1].ts < f[k].ts) /\ (~(d < 0) <=> f[k + 1].ts >= f[k].ts)
  BY <1>4
<1>6. /\ timer'.at = "average" /\ timer'.closing = timer.closing /\ timer'.n = timer.n
      /\ timer'.s = timer.s /\ timer'.from = timer.from /\ timer'.hit = timer.hit
      /\ timer'.k = k + 1
      /\ d < 0 => timer'.sum = timer.sum /\ timer'.total = timer.total
      /\ ~(d < 0) => timer'.sum = timer.sum + w /\ timer'.total = timer.total + d
  <2> HIDE DEF d, w
  <2>1. CASE d < 0
    BY <1>0, <1>2, <1>3, <2>1 DEF Timers
  <2>2. CASE ~(d < 0)
    BY <1>0, <1>2, <1>3, <2>2, ZenonT(30) DEF Timers
  <2>3. QED
    BY <2>1, <2>2
<1>7. QED
  BY <1>1, <1>2, <1>4, <1>5, <1>6

\* The time added for one pair is at least the distance of its stamps.
LEMMA EndsEntry ==
  ASSUME Inv, Ends, AverageEntry
  PROVE  Ends'
<1> DEFINE f == buf[timer.closing]
           k == timer.k
<1>1. /\ k \in Nat /\ k < timer.n /\ k + 1 < Cap /\ timer.n \in Nat
      /\ f[k].ts \in Nat /\ f[k + 1].ts \in Nat
      /\ timer.total \in Nat /\ timer.from \in Nat
      /\ timer.at = "average" /\ timer'.at = "average"
      /\ timer'.closing = timer.closing /\ timer'.n = timer.n /\ timer'.s = timer.s
      /\ timer'.from = timer.from /\ timer'.hit = timer.hit /\ timer'.k = k + 1
      /\ \/ f[k + 1].ts < f[k].ts /\ timer'.total = timer.total
         \/ /\ f[k + 1].ts >= f[k].ts
            /\ timer'.total = timer.total + (f[k + 1].ts - f[k].ts)
      /\ UNCHANGED <<buf, opened, late>>
  BY EntryStep, ZenonT(30) DEF Inv
<1>2. Proper' <=> Proper
  BY <1>1, ZenonT(30) DEF Proper
<1>3. Proper /\ timer.hit = 0 => timer.total >= f[k].ts - timer.from
  BY <1>1, IdleAssumption DEF Ends
<1>4. Proper /\ timer.hit = 0 => timer'.total >= f[k + 1].ts - timer.from
  BY <1>1, <1>3
<1>5. k + 1 <= timer.n
  BY <1>1
<1>6. QED
  BY <1>1, <1>2, <1>4, <1>5, ZenonT(30) DEF Ends, Closed, PeriodCovered

\* At the last entry the whole period has been covered.
LEMMA EndsAverage ==
  ASSUME Inv, Ends, Average
  PROVE  Ends'
<1>0. timer \in Timers
  BY DEF Inv, Types, TypeOK
<1>1. /\ timer.at = "average" /\ (timer.k >= timer.n \/ timer.k + 1 >= Cap)
      /\ timer' = [timer EXCEPT !.at = "idle_avg", !.avg = avg']
      /\ UNCHANGED <<buf, opened, late>>
  BY Zenon DEF Average, quiet
<1>2. /\ timer'.at = "idle_avg" /\ timer'.closing = timer.closing /\ timer'.n = timer.n
      /\ timer'.s = timer.s /\ timer'.from = timer.from /\ timer'.hit = timer.hit
      /\ timer'.total = timer.total
  BY <1>0, <1>1 DEF Timers
<1>3. timer.k \in Nat /\ timer.n \in Nat /\ timer.k <= timer.n
  BY <1>0, <1>1 DEF Timers, Ends
<1>4. timer.n < Cap => timer.k = timer.n /\ timer.k < Cap
  BY <1>1, <1>3, IdleAssumption
<1>5. QED
  BY <1>1, <1>2, <1>4 DEF Ends, Closed, PeriodCovered, Proper

\* So every step keeps the ends of the period.
LEMMA EndsNext == Inv /\ Ends /\ [Next]_vars => Ends'
<1> SUFFICES ASSUME Inv, Ends, [Next]_vars PROVE Ends'
  OBVIOUS
<1>1. ASSUME \/ Advance \/ Load \/ Attach \/ Pin \/ UNCHANGED vars
             \/ \E p \in Pcpus : \/ \E c \in Counts : Sample(p, c)
                                 \/ ReadFlag(p) \/ Reserve(p)
      PROVE  Ends'
  <2>1. UNCHANGED <<buf, opened, late, timer>>
    BY <1>1, Zenon DEF Advance, Load, Attach, Pin, Sample, ReadFlag, Reserve, vars,
                       loading, state, programs
  <2>2. QED
    BY <2>1, EndsSame
<1>2. ASSUME End \/ PublishIdle PROVE Ends'
  <2>1. timer'.at = "idle"
    BY <1>2 DEF End, PublishIdle, NoTimer
  <2>2. QED
    BY <2>1, ZenonT(30) DEF Ends, Closed, PeriodCovered
<1>3. QED
  BY <1>1, <1>2, EndsStore, EndsBoundary, EndsOpen, EndsFlip, EndsClose, EndsEntry,
     EndsAverage, ZenonT(30) DEF Next

\* No time of the period is lost to dropped pairs, for any number of pCPUs and
\* any capacity (nr_running_avg_sample_cb).
THEOREM IdlePeriodIsCovered == Spec => []PeriodCovered
<1>1. Init => Ends
  BY DEF Init, NoTimer, Ends, Closed, PeriodCovered
<1>2. Ends => PeriodCovered
  BY DEF Ends
<1>3. QED
  BY <1>1, <1>2, InvAlways, EndsNext, PTL DEF Spec

-----------------------------------------------------------------------------
\* The sum is below that of one of the counts over the whole time; the two
\* averages agree once both are stored.
Averages ==
  /\ IdleAverageBounded
  /\ \E c \in Counts : timer.sum <= c * timer.total
  /\ timer.at = "idle_avg" => timer.avg = avg
  /\ IdleComplements

\* A step that leaves the averages alone, or ends the callback before the
\* second one is due.
LEMMA AveragesSame ==
  ASSUME Averages, UNCHANGED <<avg, idle, published>>,
         \/ timer'.sum = timer.sum /\ timer'.total = timer.total
         \/ timer'.sum = 0 /\ timer'.total = 0,
         \/ timer'.at # "idle_avg" /\ timer.at # "idle_avg"
         \/ timer'.at = timer.at /\ timer'.avg = timer.avg
  PROVE  Averages'
<1>1. \E c \in Counts : timer'.sum <= c * timer'.total
  <2>1. CASE timer'.sum = timer.sum /\ timer'.total = timer.total
    BY <2>1 DEF Averages
  <2>2. CASE timer'.sum = 0 /\ timer'.total = 0
    BY <2>2, IdleAssumption
  <2>3. QED
    BY <2>1, <2>2
<1>2. QED
  BY <1>1 DEF Averages, IdleAverageBounded, IdleComplements

\* One interval more keeps the sum below.
LEMMA WeightedStep ==
  ASSUME NEW c \in Nat, NEW e \in Nat, NEW s \in Nat, NEW t \in Nat, NEW d \in Nat,
         s <= c * t
  PROVE  \/ s + e * d <= c * (t + d)
         \/ s + e * d <= e * (t + d)
<1>1. c * (t + d) = c * t + c * d /\ e * (t + d) = e * t + e * d
  OBVIOUS
<1>2. c * t \in Nat /\ c * d \in Nat /\ e * t \in Nat /\ e * d \in Nat
  OBVIOUS
<1>3. CASE e <= c
  <2>1. e * d <= c * d
    BY <1>3
  <2>2. QED
    BY <1>1, <1>2, <2>1
<1>4. CASE c < e
  <2>1. c * t <= e * t
    BY <1>4
  <2>2. QED
    BY <1>1, <1>2, <2>1
<1>5. QED
  BY <1>3, <1>4

\* A quotient is below a bound of the weights.
LEMMA QuotientBound ==
  ASSUME NEW c \in Nat, NEW s \in Nat, NEW t \in Nat, t > 0, s <= c * t
  PROVE  s \div t <= c
  OBVIOUS

\* One pair more.
LEMMA AveragesEntry ==
  ASSUME Inv, Averages, AverageEntry
  PROVE  Averages'
<1> DEFINE e == buf[timer.closing][timer.k].count
           d == buf[timer.closing][timer.k + 1].ts - buf[timer.closing][timer.k].ts
<1>1. /\ e \in Counts /\ timer.sum \in Nat /\ timer.total \in Nat
      /\ timer.at = "average" /\ timer'.at = "average" /\ avg' = avg
      /\ \/ timer'.sum = timer.sum /\ timer'.total = timer.total
         \/ /\ d \in Nat
            /\ timer'.sum = timer.sum + e * d /\ timer'.total = timer.total + d
  BY EntryStep DEF Inv
<1>2. UNCHANGED <<idle, published>>
  BY Zenon DEF AverageEntry, state
<1> HIDE DEF e, d
<1>3. \E c \in Counts : timer'.sum <= c * timer'.total
  <2>1. PICK c \in Counts : timer.sum <= c * timer.total
    BY DEF Averages
  <2>2. c \in Nat /\ e \in Nat
    BY <1>1, IdleAssumption
  <2>3. CASE timer'.sum = timer.sum /\ timer'.total = timer.total
    BY <2>1, <2>3
  <2>4. CASE /\ d \in Nat
             /\ timer'.sum = timer.sum + e * d /\ timer'.total = timer.total + d
    <3>1. \/ timer.sum + e * d <= c * (timer.total + d)
          \/ timer.sum + e * d <= e * (timer.total + d)
      BY <1>1, <2>1, <2>2, <2>4, WeightedStep, ZenonT(30)
    <3>2. QED
      BY <1>1, <2>4, <3>1, Zenon
  <2>5. QED
    BY <1>1, <2>3, <2>4, Zenon
<1>4. QED
  BY <1>1, <1>2, <1>3, ZenonT(30) DEF Averages, IdleAverageBounded, IdleComplements

\* The average that is stored is below the largest count.
LEMMA AveragesAverage ==
  ASSUME Inv, Averages, Average
  PROVE  Averages'
<1>0. timer \in Timers
  BY DEF Inv, Types, TypeOK
<1>1. /\ timer' = [timer EXCEPT !.at = "idle_avg", !.avg = avg']
      /\ avg' = IF timer.total > 0 THEN timer.sum \div timer.total ELSE 0
  BY Zenon DEF Average
<1>2. timer'.at = "idle_avg" /\ timer'.avg = avg' /\ timer'.sum = timer.sum
      /\ timer'.total = timer.total
  BY <1>0, <1>1, Zenon DEF Timers
<1>3. \E c \in Counts : avg' <= c
  <2>1. PICK c \in Counts : timer.sum <= c * timer.total
    BY DEF Averages
  <2>2. c \in Nat /\ timer.sum \in Nat /\ timer.total \in Nat
    BY <1>0, IdleAssumption DEF Timers
  <2>3. timer.total > 0 => timer.sum \div timer.total <= c
    BY <2>1, <2>2, QuotientBound, ZenonT(30)
  <2>4. avg' <= c
    BY <1>1, <2>2, <2>3
  <2>5. QED
    BY <2>4
<1>4. QED
  BY <1>2, <1>3 DEF Averages, IdleAverageBounded, IdleComplements

\* The idle average is what the stored average leaves of the CPUs.
LEMMA AveragesPublish ==
  ASSUME Inv, Averages, PublishIdle
  PROVE  Averages'
<1>1. /\ timer.avg = avg /\ avg' = avg /\ avg \in Nat
      /\ timer'.at = "idle" /\ timer'.sum = 0 /\ timer'.total = 0
      /\ idle' = IF timer.avg > NbCpus THEN 0 ELSE NbCpus - timer.avg
  BY DEF Inv, Types, TypeOK, Averages, PublishIdle, NoTimer
<1>2. IdleComplements'
  BY <1>1, IdleAssumption DEF IdleComplements
<1>3. \E c \in Counts : timer'.sum <= c * timer'.total
  BY <1>1, IdleAssumption
<1>4. QED
  BY <1>1, <1>2, <1>3, ZenonT(30) DEF Averages, IdleAverageBounded

\* So every step keeps the averages.
LEMMA AveragesNext == Inv /\ Averages /\ [Next]_vars => Averages'
<1> SUFFICES ASSUME Inv, Averages, [Next]_vars PROVE Averages'
  OBVIOUS
<1>0. timer \in Timers /\ timer.sum \in Nat /\ timer.total \in Nat
  BY DEF Inv, Types, TypeOK, Timers
<1>1. ASSUME \/ Advance \/ Attach \/ Pin \/ UNCHANGED vars
             \/ \E p \in Pcpus : \/ \E c \in Counts : Sample(p, c)
                                 \/ ReadFlag(p) \/ Reserve(p)
      PROVE  Averages'
  <2>1. UNCHANGED <<timer, avg, idle, published>>
    BY <1>1, Zenon DEF Advance, Attach, Pin, Sample, ReadFlag, Reserve, vars, loading,
                       state, programs
  <2>2. QED
    BY <2>1, AveragesSame
<1>2. ASSUME Load PROVE Averages'
  <2>1. timer' = timer
    BY <1>2 DEF Load, programs
  <2>2. CASE UNCHANGED state
    BY <2>1, <2>2, AveragesSame DEF state
  <2>3. CASE avg' = 0 /\ published' = 0
    <3>1. timer.at = "idle"
      BY <1>2 DEF Load, Inv, Loaded, Attached
    <3>2. 0 \in Counts /\ 0 <= 0
      BY IdleAssumption
    <3>3. \E c \in Counts : avg' <= c
      BY <2>3, <3>2, Zenon
    <3>4. published' # 1 /\ timer'.at # "idle_avg"
      BY <2>1, <2>3, <3>1
    <3>5. QED
      BY <2>1, <3>3, <3>4, Zenon DEF Averages, IdleAverageBounded, IdleComplements
  <2>4. QED
    BY <1>2, <2>2, <2>3, Zenon DEF Load
<1>3. ASSUME NEW p \in Pcpus, Store(p) PROVE Averages'
  <2>1. /\ UNCHANGED <<avg, idle, published>>
        /\ timer' = timer \/ timer' = [timer EXCEPT !.hit = 1]
    BY <1>3, Zenon DEF Store, state
  <2>2. /\ timer'.at = timer.at /\ timer'.avg = timer.avg /\ timer'.sum = timer.sum
        /\ timer'.total = timer.total
    BY <1>0, <2>1, ZenonT(30) DEF Timers
  <2>3. QED
    BY <2>1, <2>2, AveragesSame
<1>4. ASSUME End PROVE Averages'
  BY <1>4, AveragesSame DEF End, NoTimer, state
<1>5. ASSUME NEW c \in Counts, Boundary(c) PROVE Averages'
  <2>1. /\ timer' = [NoTimer EXCEPT !.at = "open",
                       !.s = [count |-> c, ts |-> clock, of |-> calls']]
        /\ timer.at = "idle" /\ UNCHANGED <<avg, idle, published>>
    BY <1>5, Zenon DEF Boundary, state
  <2>2. timer'.at = "open" /\ timer'.sum = 0 /\ timer'.total = 0
    BY <2>1, Zenon DEF NoTimer
  <2>3. QED
    BY <2>1, <2>2, AveragesSame
<1>6. ASSUME Open \/ Flip \/ Close PROVE Averages'
  <2>1. /\ timer'.sum = timer.sum /\ timer'.total = timer.total
        /\ timer.at # "idle_avg" /\ timer'.at # "idle_avg"
        /\ UNCHANGED <<avg, idle, published>>
    <3>1. CASE Open
      BY <1>0, <3>1, Zenon DEF Open, Timers
    <3>2. CASE Flip
      BY <1>0, <3>2, Zenon DEF Flip, Timers
    <3>3. CASE Close
      BY <1>0, <3>3, Zenon DEF Close, Timers
    <3>4. QED
      BY <1>6, <3>1, <3>2, <3>3
  <2>2. QED
    BY <2>1, AveragesSame, ZenonT(30)
<1>7. QED
  BY <1>1, <1>2, <1>3, <1>4, <1>5, <1>6, AveragesEntry, AveragesAverage,
     AveragesPublish, ZenonT(30) DEF Next

\* And they always hold.
LEMMA AveragesAlways == Spec => []Averages
<1>1. Init => Averages
  BY IdleAssumption
  DEF Init, NoTimer, Averages, IdleAverageBounded, IdleComplements
<1>2. QED
  BY <1>1, InvAlways, AveragesNext, PTL DEF Spec

\* The published averages agree, whatever loaders are killed and reloaded
\* (idle_avg_timer_cb, reuse of the pinned map).
THEOREM IdleComplementsAverage == Spec => []IdleComplements
<1>1. Averages => IdleComplements
  BY DEF Averages
<1>2. QED
  BY <1>1, AveragesAlways, PTL

\* The average never exceeds every count, whatever the buffers hold
\* (nr_running_avg_sample_cb).
THEOREM IdleAverageIsBounded == Spec => []IdleAverageBounded
<1>1. Averages => IdleAverageBounded
  BY DEF Averages
<1>2. QED
  BY <1>1, AveragesAlways, PTL

-----------------------------------------------------------------------------
\* Whoever starts a timer is alone, its timer is not armed, and nobody is as long
\* as started is not set.
StartInv ==
  /\ started \in [Programs -> {0, 1}]
  /\ starting \in [Programs -> SUBSET HostCpus]
  /\ armed \in [Programs -> {0, 1}]
  /\ \A g \in Programs :
       /\ started[g] = 0 => armed[g] = 0 /\ starting[g] = {}
       /\ \A p, q \in starting[g] : p = q /\ armed[g] = 0

\* A pCPU claims, arms or gives up the timer of one program.
LEMMA StartStep ==
  ASSUME StartInv, NEW g \in Programs, NEW p \in HostCpus, Step(g, p)
  PROVE  StartInv'
<1>0. /\ started[g] \in {0, 1} /\ starting[g] \subseteq HostCpus /\ armed[g] \in {0, 1}
      /\ started[g] = 0 => armed[g] = 0 /\ starting[g] = {}
      /\ \A q, r \in starting[g] : q = r /\ armed[g] = 0
  BY DEF StartInv
<1>1. ASSUME NEW s \in {0, 1}, NEW S \in SUBSET HostCpus, NEW a \in {0, 1},
             s = 0 => a = 0 /\ S = {}, \A q, r \in S : q = r /\ a = 0,
             started' = [started EXCEPT ![g] = s],
             starting' = [starting EXCEPT ![g] = S],
             armed' = [armed EXCEPT ![g] = a]
      PROVE  StartInv'
  BY <1>1 DEF StartInv
<1>2. CASE Claim(g, p)
  <2>1. /\ started' = [started EXCEPT ![g] = 1] /\ starting' = [starting EXCEPT ![g] = {p}]
        /\ armed' = [armed EXCEPT ![g] = 0]
    BY <1>0, <1>2, Zenon DEF Claim, StartInv
  <2>2. 1 \in {0, 1} /\ 0 \in {0, 1} /\ 1 # 0 /\ {p} \in SUBSET HostCpus
    OBVIOUS
  <2>3. QED
    BY <1>1, <2>1, <2>2, Zenon
<1>3. CASE Arm(g, p)
  <2>1. armed[g] = 0 /\ started[g] = 1 /\ starting[g] \ {p} = {}
    BY <1>0, <1>3 DEF Arm
  <2>2. /\ started' = [started EXCEPT ![g] = 1] /\ starting' = [starting EXCEPT ![g] = {}]
        /\ armed' = [armed EXCEPT ![g] = 1]
    <3>1. armed[g] + 1 = 1
      BY <2>1
    <3>2. QED
      BY <1>3, <2>1, <3>1, Zenon DEF Arm, StartInv
  <2>3. 1 \in {0, 1} /\ 1 # 0 /\ {} \in SUBSET HostCpus
    OBVIOUS
  <2>4. QED
    BY <1>1, <2>2, <2>3, Zenon
<1>4. CASE InitFails(g, p)
  <2>1. armed[g] = 0 /\ starting[g] \ {p} = {}
    BY <1>0, <1>4 DEF InitFails
  <2>2. /\ starting' = [starting EXCEPT ![g] = {}] /\ armed' = [armed EXCEPT ![g] = 0]
        /\ \/ started' = [started EXCEPT ![g] = 0]
           \/ started' = [started EXCEPT ![g] = started[g]]
    BY <1>4, <2>1, Zenon DEF InitFails, StartInv
  <2>3. QED
    BY <1>0, <1>1, <2>2, Zenon
<1>5. QED
  BY <1>2, <1>3, <1>4 DEF Step

\* Each BPF timer is armed at most once, for any number of pCPUs and programs and
\* any failures of bpf_timer_init (phantom_timer_handler,
\* global_running_tracker_timer_init, h2g_msg_timer_init).
THEOREM TimersAreArmedOnce == FairSpec => []ArmedOnce
<1>1. StartInit => StartInv
  BY DEF StartInit, StartInv
<1>2. StartInv /\ [StartNext]_startVars => StartInv'
  <2>1. ASSUME StartInv, UNCHANGED startVars PROVE StartInv'
    BY <2>1 DEF startVars, StartInv
  <2>2. QED
    BY <2>1, StartStep DEF StartNext
<1>3. StartInv => ArmedOnce
  BY DEF StartInv, ArmedOnce
<1>4. QED
  BY <1>1, <1>2, <1>3, PTL DEF FairSpec

=============================================================================
