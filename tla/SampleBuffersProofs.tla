------------------------ MODULE SampleBuffersProofs ------------------------
(***************************************************************************)
(* Proofs about SampleBuffers, for any number of pCPUs, any buffer         *)
(* capacity and any interleaving of samplers and callback: the published   *)
(* average is bounded by the number of vCPUs, and who writes which entry   *)
(* of a buffer, for which opening of the buffer.                           *)
(***************************************************************************)
EXTENDS SampleBuffers, TLAPS

Arrays == [Buffers -> [Entries -> Samples]]

\* Storing a sample, whole or one word of it, keeps the arrays well formed.
LEMMA StoreSample ==
  ASSUME NEW B \in Arrays, NEW b \in Buffers, NEW i \in Entries,
         NEW s \in Samples
  PROVE  [B EXCEPT ![b][i] = s] \in Arrays
  BY DEF Arrays

\* One word of a sample likewise.
LEMMA StoreWord ==
  ASSUME NEW B \in Arrays, NEW b \in Buffers, NEW i \in Entries,
         NEW c \in Counts
  PROVE  [B EXCEPT ![b][i].count = c] \in Arrays
<1>1. B[b][i] \in Samples
  BY DEF Arrays
<1>2. [B[b][i] EXCEPT !.count = c] \in Samples
  BY <1>1 DEF Samples
<1>3. [B EXCEPT ![b][i].count = c] = [B EXCEPT ![b][i] = [B[b][i] EXCEPT !.count = c]]
  BY DEF Arrays
<1>4. QED
  BY <1>2, <1>3, StoreSample

\* One interval more keeps the weighted sum below the weighted maximum.
LEMMA WeightedStep ==
  ASSUME NEW N \in Nat, NEW s \in Nat, NEW t \in Nat, NEW c \in 0 .. N,
         NEW d \in Nat, s <= N * t
  PROVE  s + c * d <= N * (t + d)
<1>1. c * d <= N * d
  OBVIOUS
<1>2. N * (t + d) = N * t + N * d
  OBVIOUS
<1>3. c * d \in Nat /\ N * d \in Nat /\ N * t \in Nat
  OBVIOUS
<1>4. QED
  BY <1>1, <1>2, <1>3

\* The average is a number.
LEMMA QuotientNat ==
  ASSUME NEW s \in Nat, NEW t \in Nat, t > 0
  PROVE  s \div t \in Nat
  OBVIOUS

\* And below every bound of the weights.
LEMMA QuotientBound ==
  ASSUME NEW N \in Nat, NEW s \in Nat, NEW t \in Nat, t > 0, s <= N * t
  PROVE  s \div t <= N
  OBVIOUS

\* What phantom_avg_cb reads from the closed buffer.
LEMMA EntryRead ==
  ASSUME TypeOK, k + 1 < Cap
  PROVE  /\ buf[Filling][k].count \in 0 .. NbVcpus
         /\ buf[Filling][k].ts \in Nat
         /\ buf[Filling][k + 1].ts \in Nat
<1>1. Filling \in Buffers /\ k \in Entries /\ k + 1 \in Entries
  BY BufferAssumption DEF TypeOK, Filling, Buffers, Entries
<1>2. buf[Filling][k] \in Samples /\ buf[Filling][k + 1] \in Samples
  BY <1>1 DEF TypeOK
<1>3. QED
  BY <1>2, BufferAssumption DEF Samples, Counts

\* A quotient and a remainder are found again.
LEMMA DivMod ==
  ASSUME NEW F \in Nat \ {0}, NEW q \in Nat, NEW r \in 0 .. F - 1
  PROVE  (q * F + r) % F = r /\ (q * F + r) \div F = q
<1> DEFINE d == (q * F + r) \div F
           m == (q * F + r) % F
<1>0. q * F \in Nat
  OBVIOUS
<1>1. d \in Int /\ m \in 0 .. F - 1 /\ q * F + r = F * d + m
  BY <1>0
<1>2. d * F = q * F + (r - m) /\ r - m < F /\ m - r < F
  BY <1>1
<1> HIDE DEF d, m
<1>3. ASSUME d >= q + 1 PROVE FALSE
  <2>1. (d - q - 1) * F >= 0
    BY <1>1, <1>3
  <2>2. (d - q - 1) * F = d * F - q * F - F
    BY <1>1
  <2> QED
    BY <2>1, <2>2, <1>0, <1>1, <1>2
<1>4. ASSUME d <= q - 1 PROVE FALSE
  <2>1. (q - d - 1) * F >= 0
    BY <1>1, <1>4
  <2>2. (q - d - 1) * F = q * F - d * F - F
    BY <1>1
  <2> QED
    BY <2>1, <2>2, <1>0, <1>1, <1>2
<1>5. d = q
  BY <1>1, <1>3, <1>4
<1>6. m = r
  BY <1>0, <1>1, <1>2, <1>5
<1> QED
  BY <1>5, <1>6 DEF d, m

\* A word of three fields is a number.
LEMMA ThreeFields ==
  ASSUME NEW F \in Nat, NEW t \in Nat, NEW a \in Nat, NEW i \in Nat
  PROVE  (t * F + a) * F + i \in Nat
<1>1. t * F + a \in Nat
  OBVIOUS
<1>2. QED
  BY <1>1

\* write_watermark loses nothing of averages that fit their fields: each field
\* of the word is found again, the timestamp up to its 32 bits.
THEOREM PackDecodes ==
  ASSUME NEW ts \in Nat, NEW a \in 0 .. Field - 1, NEW i \in 0 .. Field - 1
  PROVE  /\ Pack(ts, a, i) \in Nat
         /\ TsOf(Pack(ts, a, i)) = ts % TsMod
         /\ PhantomOf(Pack(ts, a, i)) = a
         /\ IdleOf(Pack(ts, a, i)) = i
<1> USE WatermarkAssumption
<1> DEFINE t == ts % TsMod
           h == t * Field + a
<1>1. t \in Nat /\ a % Field = a /\ i % Field = i
  OBVIOUS
<1> HIDE DEF t
<1>2. h \in Nat
  BY <1>1
<1>3. Pack(ts, a, i) = h * Field + i
  BY <1>1, ZenonT(30) DEF Pack, t
<1>4. h % Field = a /\ h \div Field = t
  BY <1>1, DivMod
<1> HIDE DEF h
<1>5. (h * Field + i) % Field = i /\ (h * Field + i) \div Field = h
  BY <1>2, DivMod
<1>6. h * Field + i \in Nat
  BY <1>2
<1> QED
  BY <1>3, <1>4, <1>5, <1>6 DEF TsOf, PhantomOf, IdleOf, t

\* The state has its types initially.
LEMMA TypeInit == Init => TypeOK
<1> SUFFICES ASSUME Init PROVE TypeOK
  OBVIOUS
<1>1. NoSample \in Samples
  BY BufferAssumption DEF NoSample, Samples, Counts
<1>2. QED
  BY <1>1, BufferAssumption DEF Init, TypeOK, NoWord, Counts, Buffers, Entries

\* And every step keeps them.
LEMMA TypeNext == TypeOK /\ [Next]_vars => TypeOK'
<1> SUFFICES ASSUME TypeOK, [Next]_vars PROVE TypeOK'
  OBVIOUS
<1> USE BufferAssumption DEF TypeOK, Counts
<1>a. buf \in Arrays /\ Filling \in Buffers /\ 0 \in Entries
  BY DEF Arrays, Filling, Buffers, Entries
<1>1. ASSUME Advance PROVE TypeOK'
  BY <1>1 DEF Advance, samplerVars, timerVars
<1>2. ASSUME NEW p \in Pcpus, NEW n \in Counts, Count(p, n) PROVE TypeOK'
  BY <1>2 DEF Count, SamplerStep, timerVars
<1>3. ASSUME NEW p \in Pcpus, ReadFlag(p) PROVE TypeOK'
  BY <1>3 DEF ReadFlag, SamplerStep, timerVars
<1>4. ASSUME NEW p \in Pcpus, Reserve(p) PROVE TypeOK'
  BY <1>4 DEF Reserve, SamplerStep, timerVars
<1>5. ASSUME NEW p \in Pcpus, Stamp(p) PROVE TypeOK'
  BY <1>5 DEF Stamp, SamplerStep, timerVars
<1>6. ASSUME NEW p \in Pcpus, Store(p) PROVE TypeOK'
  <2>1. buf' \in Arrays
    <3>1. CASE sidx[p] < Cap
      <4>1. sidx[p] \in Entries
        BY <3>1 DEF Entries
      <4>2. QED
        BY <1>6, <1>a, <3>1, <4>1, StoreWord, ZenonT(30) DEF Store
    <3>2. CASE ~(sidx[p] < Cap)
      BY <1>6, <1>a, <3>2 DEF Store
    <3>3. QED
      BY <3>1, <3>2
  <2>2. QED
    BY <1>6, <2>1 DEF Store, SamplerStep, timerVars, Arrays
<1>7. ASSUME NEW p \in Pcpus, StoreTs(p) PROVE TypeOK'
  <2>1. buf' \in Arrays
    <3>1. CASE sidx[p] < Cap
      <4>1. sidx[p] \in Entries
        BY <3>1 DEF Entries
      <4> DEFINE e == [buf[sbuf[p]][sidx[p]]
                         EXCEPT !.ts = sstamp[p], !.of = swritten[p]]
      <4>2. e \in Samples
        <5>1. buf[sbuf[p]][sidx[p]] \in Samples
          BY <4>1
        <5>2. sstamp[p] \in 0 .. MaxTime /\ swritten[p] \in 0 .. MaxPeriod + 1
          OBVIOUS
        <5>3. QED
          BY <5>1, <5>2, ZenonT(30) DEF Samples
      <4>3. buf' = [buf EXCEPT ![sbuf[p]][sidx[p]] = e]
        BY <1>7, <3>1, <4>1 DEF StoreTs
      <4>4. QED
        BY <1>a, <4>1, <4>2, <4>3, StoreSample, ZenonT(30)
    <3>2. CASE ~(sidx[p] < Cap)
      BY <1>7, <1>a, <3>2 DEF StoreTs
    <3>3. QED
      BY <3>1, <3>2
  <2>2. 1 \in Buffers
    BY DEF Buffers
  <2>3. QED
    BY <1>7, <2>1, <2>2 DEF StoreTs, SamplerStep, timerVars, Arrays
<1>8. ASSUME TimerEnd PROVE TypeOK'
  <2>1. end' \in Samples
    BY <1>8 DEF TimerEnd, Samples
  <2>2. QED
    BY <1>8, <2>1 DEF TimerEnd, TimerStep, samplerVars
<1>9. ASSUME TimerStart PROVE TypeOK'
  <2>1. start' \in Samples
    BY <1>9 DEF TimerStart, Samples
  <2>2. QED
    BY <1>9, <2>1 DEF TimerStart, TimerStep, samplerVars
<1>10. ASSUME OpenBuffer PROVE TypeOK'
  <2>1. buf' \in Arrays
    BY <1>10, <1>a, StoreSample, ZenonT(30) DEF OpenBuffer
  <2>2. QED
    BY <1>10, <1>a, <2>1 DEF OpenBuffer, TimerStep, samplerVars, Arrays
<1>11. ASSUME Flip PROVE TypeOK'
  BY <1>11, <1>a DEF Flip, TimerStep, samplerVars
<1>12. ASSUME CloseBuffer PROVE TypeOK'
  <2>1. buf' \in Arrays
    <3>1. CASE index[Filling] < Cap
      <4>1. index[Filling] \in Entries
        BY <1>a, <3>1 DEF Entries
      <4>2. QED
        BY <1>12, <1>a, <3>1, <4>1, StoreSample, ZenonT(30) DEF CloseBuffer
    <3>2. CASE ~(index[Filling] < Cap)
      BY <1>12, <1>a, <3>2 DEF CloseBuffer
    <3>3. QED
      BY <3>1, <3>2
  <2>2. QED
    BY <1>12, <1>a, <2>1 DEF CloseBuffer, TimerStep, samplerVars, Arrays
<1>13. ASSUME AverageEntry PROVE TypeOK'
  <2>1. sum' \in Nat /\ total' \in Nat
    <3> DEFINE e == buf[Filling]
    <3>1. e[k].count \in Nat /\ e[k].ts \in Nat /\ e[k + 1].ts \in Nat
      BY <1>13, EntryRead DEF AverageEntry
    <3>2. CASE e[k + 1].ts < e[k].ts
      BY <1>13, <3>2, ZenonT(30) DEF AverageEntry
    <3>3. CASE ~(e[k + 1].ts < e[k].ts)
      <4>1. e[k + 1].ts - e[k].ts \in Nat
        BY <3>1, <3>3
      <4>2. e[k].count * (e[k + 1].ts - e[k].ts) \in Nat
        BY <3>1, <4>1
      <4>3. QED
        BY <1>13, <3>3, <4>1, <4>2 DEF AverageEntry
    <3>4. QED
      BY <3>2, <3>3, ZenonT(30)
  <2>2. QED
    BY <1>13, <2>1 DEF AverageEntry, TimerStep, samplerVars
<1>14. ASSUME Average PROVE TypeOK'
  <2>1. avg' \in Nat
    <3>1. total > 0 => sum \div total \in Nat
      BY QuotientNat, ZenonT(30)
    <3>2. QED
      BY <1>14, <3>1 DEF Average
  <2>2. QED
    BY <1>14, <2>1 DEF Average, TimerStep, samplerVars
<1>15. ASSUME TimerReturn PROVE TypeOK'
  <2>1. NoSample \in Samples
    BY DEF NoSample, Samples
  <2>2. word' \in Nat
    <3>1. (clock % TsMod) \in Nat /\ (avg % Field) \in Nat /\ (LastIdle % Field) \in Nat
      BY WatermarkAssumption
    <3>2. Pack(clock, avg, LastIdle) \in Nat
      BY <3>1, WatermarkAssumption, ThreeFields, ZenonT(30) DEF Pack
    <3>3. QED
      BY <1>15, <3>2 DEF TimerReturn
  <2>3. QED
    BY <1>15, <2>1, <2>2 DEF TimerReturn, TimerStep, samplerVars
<1>16. ASSUME UNCHANGED vars PROVE TypeOK'
  BY <1>16 DEF vars, samplerVars, timerVars
<1> HIDE DEF TypeOK
<1>17. QED
  BY <1>1, <1>2, <1>3, <1>4, <1>5, <1>6, <1>7, <1>8, <1>9, <1>10, <1>11,
     <1>12, <1>13, <1>14, <1>15, <1>16 DEF Next, Sampler, TimerRest

\* The sum stays below that of the largest count over the same time.
LEMMA BoundNext ==
  TypeOK /\ AverageBounded /\ [Next]_vars => AverageBounded'
<1> SUFFICES ASSUME TypeOK, AverageBounded, [Next]_vars PROVE AverageBounded'
  OBVIOUS
<1>a. NbVcpus \in Nat /\ NbVcpus * 0 = 0
  BY BufferAssumption
<1>1. ASSUME sum' = sum, total' = total, avg' = avg PROVE AverageBounded'
  BY <1>1 DEF AverageBounded
<1>2. ASSUME sum' = 0, total' = 0, avg' = avg PROVE AverageBounded'
  BY <1>a, <1>2 DEF AverageBounded
<1>3. ASSUME AverageEntry PROVE AverageBounded'
  <2> DEFINE e == buf[Filling]
             d == e[k + 1].ts - e[k].ts
  <2>1. e[k].count \in 0 .. NbVcpus /\ e[k].ts \in Nat /\ e[k + 1].ts \in Nat
    BY <1>3, EntryRead DEF AverageEntry
  <2>2. CASE e[k + 1].ts < e[k].ts
    BY <1>1, <1>3, <2>2 DEF AverageEntry
  <2>3. CASE ~(e[k + 1].ts < e[k].ts)
    <3>1. d \in Nat
      BY <2>1, <2>3
    <3>2. sum' = sum + e[k].count * d /\ total' = total + d /\ avg' = avg
      BY <1>3, <2>3 DEF AverageEntry
    <3>3. sum + e[k].count * d <= NbVcpus * (total + d)
      <4> HIDE DEF d, e
      <4>1. QED
        BY <1>a, <2>1, <3>1, WeightedStep, ZenonT(30) DEF TypeOK, AverageBounded, e
    <3>4. QED
      BY <3>2, <3>3 DEF AverageBounded
  <2>4. QED
    BY <2>2, <2>3
<1>4. ASSUME Average PROVE AverageBounded'
  <2>1. total > 0 => sum \div total <= NbVcpus
    BY <1>a, QuotientBound, ZenonT(30) DEF AverageBounded, TypeOK
  <2>2. avg' <= NbVcpus
    BY <1>4, <1>a, <2>1 DEF Average
  <2>3. QED
    BY <1>4, <2>2 DEF Average, AverageBounded
<1>5. QED
  BY <1>1, <1>2, <1>3, <1>4, ZenonT(30)
  DEF Next, Advance, Sampler, Count, ReadFlag, Reserve, Stamp, Store, StoreTs,
      TimerEnd, TimerRest, TimerStart, OpenBuffer, Flip, CloseBuffer,
      TimerReturn, timerVars, vars

\* Only the callback's last step changes the word, to the average it stored.
LEMMA WordNext ==
  ASSUME TypeOK, AverageBounded, WatermarkTellsAverage, [Next]_vars
  PROVE  WatermarkTellsAverage'
<1>1. ASSUME word' = word, avg' = avg, tpc # "done" \/ tpc' = "done"
      PROVE  WatermarkTellsAverage'
  BY <1>1 DEF WatermarkTellsAverage
<1>2. ASSUME TimerReturn PROVE WatermarkTellsAverage'
  <2>1. clock \in Nat /\ avg \in 0 .. Field - 1 /\ LastIdle \in 0 .. Field - 1
    BY BufferAssumption, WatermarkAssumption DEF TypeOK, AverageBounded
  <2>2. word' = Pack(clock, avg, LastIdle) /\ avg' = avg
    BY <1>2 DEF TimerReturn
  <2>3. QED
    BY <2>1, <2>2, PackDecodes DEF WatermarkTellsAverage
<1>3. ASSUME Average PROVE WatermarkTellsAverage'
  BY <1>3 DEF Average, TimerStep, WatermarkTellsAverage
<1>4. QED
  BY <1>1, <1>2, <1>3, ZenonT(30)
  DEF Next, Advance, Sampler, Count, ReadFlag, Reserve, Stamp, Store, StoreTs,
      TimerEnd, TimerRest, TimerStart, OpenBuffer, Flip, CloseBuffer,
      AverageEntry, TimerStep, timerVars, vars

\* The steps keep to the sizes of the state: buffers, indices, stamps and
\* counts, the out-of-range index of a full buffer included.
THEOREM BuffersAreTyped == Spec => []TypeOK
  BY TypeInit, TypeNext, PTL DEF Spec

\* Every average published to the guest is between 0 and nb_vcpus.
THEOREM AverageIsBounded == Spec => []AverageBounded
<1>1. Init => TypeOK /\ AverageBounded
  BY TypeInit, BufferAssumption DEF Init, AverageBounded
<1>2. (TypeOK /\ AverageBounded) /\ [Next]_vars => (TypeOK /\ AverageBounded)'
  BY TypeNext, BoundNext
<1>3. QED
  BY <1>1, <1>2, PTL DEF Spec

\* Every watermark gives the guest the averages the callback computed.
THEOREM WatermarkIsTrue == Spec => []WatermarkTellsAverage
<1>1. Init => TypeOK /\ AverageBounded /\ WatermarkTellsAverage
  BY TypeInit, BufferAssumption DEF Init, AverageBounded, WatermarkTellsAverage
<1>2. (TypeOK /\ AverageBounded /\ WatermarkTellsAverage) /\ [Next]_vars
      => (TypeOK /\ AverageBounded /\ WatermarkTellsAverage)'
  BY TypeNext, BoundNext, WordNext
<1>3. QED
  BY <1>1, <1>2, PTL DEF Spec

-----------------------------------------------------------------------------
(* Who writes which entry.                                                 *)

\* The sampler has an index and has not stored all of its sample.
Holding(p) == spc[p] \in {"stamp", "store", "store_ts"}

\* Openings are numbered upwards: the next one is new to every sampler.
Openings ==
  /\ \A b \in Buffers : opened[b] <= period + 1
  /\ tpc \in {"start", "open"} => \A b \in Buffers : opened[b] <= period
  /\ \A p \in Pcpus : Holding(p) => swritten[p] <= opened[sbuf[p]]

\* The callback's two samples belong to the openings they are stored for, and
\* their indices, the first and the last, stay reserved.
Boundaries ==
  /\ tpc = "open" => start.of = period + 1
  /\ tpc \in {"start", "open", "flip"} => end.of = opened[collecting]
  /\ tpc = "close" => end.of = opened[Filling]
  /\ tpc \in {"average", "done"} => nbSamples < index[Filling]
  /\ \A b \in Buffers : opened[b] > 1 => index[b] > 0

\* An entry below the index is of the current opening, or its writer is about
\* to store it.
FreshEntries ==
  late = 0 => \A b \in Buffers, i \in Entries : i < index[b] =>
    \/ buf[b][i].of = opened[b]
    \/ \E p \in Pcpus : Holding(p) /\ sbuf[p] = b /\ sidx[p] = i

EntryInv == TypeOK /\ Openings /\ Boundaries /\ EntryHasOneWriter /\ FreshEntries

\* Initially no entry is below an index.
LEMMA EntryInit == Init => EntryInv
<1> SUFFICES ASSUME Init PROVE EntryInv
  BY ZenonT(30)
<1>1. QED
  BY TypeInit, BufferAssumption
  DEF Init, EntryInv, Openings, Boundaries, EntryHasOneWriter, FreshEntries,
      Holding, Buffers, Entries

\* The parts of the invariant are about these variables.
LEMMA EntrySame ==
  ASSUME EntryInv, TypeOK',
         UNCHANGED <<collecting, index, buf, spc, sbuf, sidx, swritten, opened,
                     late, tpc, period, start, end, nbSamples>>
  PROVE  EntryInv'
  BY DEF EntryInv, Openings, Boundaries, EntryHasOneWriter, FreshEntries,
         Holding, Filling

\* A sampler that has no index yet, before and after.
LEMMA EntryBefore ==
  ASSUME EntryInv, TypeOK', NEW p \in Pcpus, ~Holding(p), ~Holding(p)',
         \A q \in Pcpus \ {p} : /\ spc'[q] = spc[q] /\ sbuf'[q] = sbuf[q]
                                /\ sidx'[q] = sidx[q] /\ swritten'[q] = swritten[q],
         UNCHANGED <<collecting, index, buf, opened, late, tpc, period, start,
                     end, nbSamples>>
  PROVE  EntryInv'
<1> USE DEF EntryInv, Holding
<1>1. Openings' /\ Boundaries'
  BY DEF Openings, Boundaries, Filling
<1>2. EntryHasOneWriter'
  BY DEF EntryHasOneWriter, Filling
<1>3. FreshEntries'
  BY DEF FreshEntries
<1>4. QED
  BY <1>1, <1>2, <1>3

\* A sampler that takes an index takes a new one, of the current opening.
LEMMA EntryReserve ==
  ASSUME EntryInv, TypeOK', NEW p \in Pcpus, Reserve(p)
  PROVE  EntryInv'
<1>t. TypeOK /\ Openings /\ Boundaries /\ EntryHasOneWriter /\ FreshEntries
  BY DEF EntryInv
<1> USE DEF Holding
<1> DEFINE b == sbuf[p]
<1>a. /\ b \in Buffers /\ index[b] \in Nat /\ opened[b] \in Nat
      /\ index \in [Buffers -> Nat] /\ sidx \in [Pcpus -> Nat]
      /\ swritten \in [Pcpus -> 0 .. MaxPeriod + 1]
      /\ spc \in [Pcpus -> {"idle", "flag", "reserve", "stamp", "store", "store_ts"}]
  <2>1. /\ b \in Buffers /\ index \in [Buffers -> Nat] /\ sidx \in [Pcpus -> Nat]
        /\ swritten \in [Pcpus -> 0 .. MaxPeriod + 1]
        /\ spc \in [Pcpus -> {"idle", "flag", "reserve", "stamp", "store", "store_ts"}]
        /\ opened[b] \in 0 .. MaxPeriod + 1
    BY <1>t, ZenonT(30) DEF TypeOK
  <2>2. opened[b] \in Nat
    BY <2>1, BufferAssumption
  <2>3. QED
    BY <2>1, <2>2, ZenonT(30)
<1>b. Filling \in Buffers /\ Filling' = Filling
  BY <1>t DEF TypeOK, Filling, Buffers, Reserve
<1>c. /\ spc' = [spc EXCEPT ![p] = "stamp"] /\ sidx' = [sidx EXCEPT ![p] = index[b]]
      /\ index' = [index EXCEPT ![b] = index[b] + 1]
      /\ swritten' = [swritten EXCEPT ![p] = opened[b]]
      /\ UNCHANGED <<sbuf, collecting, buf, opened, late, tpc, period, start, end,
                     nbSamples>>
  BY ZenonT(30) DEF Reserve, SamplerStep, timerVars
<1> HIDE DEF b
<1>d. /\ index'[b] = index[b] + 1 /\ sidx'[p] = index[b]
      /\ swritten'[p] = opened[b] /\ spc'[p] = "stamp"
      /\ \A c \in Buffers : c # b => index'[c] = index[c]
      /\ \A q \in Pcpus \ {p} : /\ spc'[q] = spc[q] /\ sidx'[q] = sidx[q]
                                /\ swritten'[q] = swritten[q]
  BY <1>a, <1>c, ZenonT(30)
<1>e. \A c \in Buffers : index'[c] >= index[c]
  <2> TAKE c \in Buffers
  <2>1. index[c] \in Nat
    BY <1>a, ZenonT(30)
  <2>2. index'[c] = index[c] \/ index'[c] = index[c] + 1
    BY <1>d, ZenonT(30)
  <2>3. QED
    BY <2>1, <2>2
<1>0. /\ b \in Buffers /\ index[b] \in Nat /\ opened[b] \in Nat /\ sidx'[p] = index[b]
      /\ swritten'[p] = opened[b] /\ index'[b] = index[b] + 1 /\ sbuf' = sbuf
      /\ spc'[p] = "stamp" /\ sbuf[p] = b
      /\ \A c \in Buffers : c # b => index'[c] = index[c]
      /\ \A c \in Buffers : index'[c] >= index[c]
      /\ \A q \in Pcpus \ {p} : /\ spc'[q] = spc[q] /\ sidx'[q] = sidx[q]
                                /\ swritten'[q] = swritten[q]
      /\ Filling \in Buffers /\ Filling' = Filling
      /\ UNCHANGED <<collecting, buf, opened, late, tpc, period, start, end,
                     nbSamples>>
  BY <1>a, <1>b, <1>c, <1>d, <1>e, ZenonT(30) DEF b
<1>1. Openings'
  <2>1. ASSUME NEW q \in Pcpus, Holding(q)' PROVE swritten'[q] <= opened'[sbuf'[q]]
    <3>1. CASE q = p
      BY <1>0, <3>1
    <3>2. CASE q # p
      BY <1>0, <1>t, <2>1, <3>2, ZenonT(30) DEF Openings
    <3>3. QED
      BY <3>1, <3>2, ZenonT(30)
  <2>2. QED
    BY <1>0, <1>t, <2>1, ZenonT(30) DEF Openings
<1>2. Boundaries'
  BY <1>0, <1>t DEF Boundaries, TypeOK
<1>3. EntryHasOneWriter'
  <2>1. ASSUME NEW q \in Pcpus, Holding(q)'
        PROVE  sidx'[q] < index'[sbuf'[q]] \/ swritten'[q] # opened'[sbuf'[q]]
    <3>1. CASE q = p
      BY <1>0, <3>1
    <3>2. CASE q # p
      <4>1. sbuf[q] \in Buffers /\ sidx[q] \in Nat /\ index[sbuf[q]] \in Nat
            /\ index'[sbuf[q]] \in Nat
        BY <1>t, ZenonT(30) DEF TypeOK
      <4>2. QED
        BY <1>0, <1>t, <2>1, <3>2, <4>1 DEF EntryHasOneWriter
    <3>3. QED
      BY <3>1, <3>2, ZenonT(30)
  <2>a. ASSUME NEW q \in Pcpus, Holding(q)', swritten'[q] > 1 PROVE sidx'[q] > 0
    <3>1. CASE q = p
      BY <1>0, <1>t, <2>a, <3>1, ZenonT(30) DEF Boundaries
    <3>2. CASE q # p
      BY <1>0, <1>t, <2>a, <3>2, ZenonT(30) DEF EntryHasOneWriter
    <3>3. QED
      BY <3>1, <3>2, ZenonT(30)
  <2>2. ASSUME NEW q \in Pcpus \ {p}, Holding(q), sbuf[q] = b, swritten[q] = opened[b]
        PROVE  sidx[q] # index[b]
    BY <1>0, <1>t, <2>2 DEF EntryHasOneWriter, TypeOK
  <2>3. ASSUME NEW q \in Pcpus, Holding(q)', NEW r \in Pcpus \ {q}, Holding(r)',
               sbuf'[r] = sbuf'[q], swritten'[r] = swritten'[q]
        PROVE  sidx'[r] # sidx'[q]
    <3>1. CASE q = p
      BY <1>0, <2>2, <2>3, <3>1
    <3>2. CASE r = p
      BY <1>0, <2>2, <2>3, <3>2
    <3>3. CASE q # p /\ r # p
      BY <1>0, <1>t, <2>3, <3>3 DEF EntryHasOneWriter
    <3>4. QED
      BY <3>1, <3>2, <3>3, ZenonT(30)
  <2>4. ASSUME NEW q \in Pcpus, Holding(q)', tpc' \in {"average", "done"},
               sbuf'[q] = Filling', swritten'[q] = opened'[Filling']
        PROVE  sidx'[q] # nbSamples'
    <3>1. CASE q = p
      BY <1>0, <1>t, <2>4, <3>1 DEF Boundaries, TypeOK
    <3>2. CASE q # p
      BY <1>0, <1>t, <2>4, <3>2, ZenonT(30) DEF EntryHasOneWriter
    <3>3. QED
      BY <3>1, <3>2, ZenonT(30)
  <2>5. QED
    BY <2>1, <2>a, <2>3, <2>4, ZenonT(30) DEF EntryHasOneWriter
<1>4. FreshEntries'
  <2> SUFFICES ASSUME late' = 0, NEW c \in Buffers, NEW i \in Entries, i < index'[c]
               PROVE  \/ buf'[c][i].of = opened'[c]
                      \/ \E q \in Pcpus : Holding(q)' /\ sbuf'[q] = c /\ sidx'[q] = i
    BY ZenonT(30) DEF FreshEntries
  <2>1. CASE c = b /\ i = index[b]
    BY <1>0, <2>1, ZenonT(30)
  <2>2. CASE ~(c = b /\ i = index[b])
    <3>1. i \in Int /\ index[c] \in Nat
      BY <1>t DEF TypeOK, Entries
    <3>2. i < index[c]
      <4>1. index'[c] = index[c] \/ (c = b /\ index'[c] = index[c] + 1)
        BY <1>0, ZenonT(30)
      <4>2. QED
        BY <2>2, <3>1, <4>1
    <3>3. CASE buf[c][i].of = opened[c]
      BY <1>0, <3>3, ZenonT(30)
    <3>4. CASE \E q \in Pcpus : Holding(q) /\ sbuf[q] = c /\ sidx[q] = i
      <4>1. PICK q \in Pcpus : Holding(q) /\ sbuf[q] = c /\ sidx[q] = i
        BY <3>4, ZenonT(30)
      <4>2. q # p
        BY <4>1 DEF Reserve, SamplerStep
      <4>3. QED
        BY <1>0, <4>1, <4>2, ZenonT(30)
    <3>5. QED
      BY <1>0, <1>t, <3>2, <3>3, <3>4 DEF FreshEntries
  <2>3. QED
    BY <2>1, <2>2, ZenonT(30)
<1>5. QED
  BY <1>1, <1>2, <1>3, <1>4, ZenonT(30) DEF EntryInv

\* A sampler goes on, and every entry keeps the opening it was stored for.
LEMMA EntryHeld ==
  ASSUME EntryInv, TypeOK', \A q \in Pcpus : Holding(q)' <=> Holding(q),
         UNCHANGED <<collecting, index, sbuf, sidx, swritten, opened, tpc,
                     period, start, end, nbSamples>>,
         late' = 0 => late = 0,
         \A b \in Buffers, i \in Entries : buf'[b][i].of = buf[b][i].of
  PROVE  EntryInv'
<1> USE DEF EntryInv
<1>1. Openings' /\ Boundaries'
  BY ZenonT(30) DEF Openings, Boundaries, Filling
<1>2. EntryHasOneWriter'
  BY ZenonT(30) DEF EntryHasOneWriter, Filling, Holding
<1>3. FreshEntries'
  BY DEF FreshEntries
<1>4. QED
  BY <1>1, <1>2, <1>3, ZenonT(30)

\* The first word of a sample does not say whose it is.
LEMMA EntryStore ==
  ASSUME EntryInv, TypeOK', NEW p \in Pcpus, Store(p)
  PROVE  EntryInv'
<1> USE DEF Store, SamplerStep, timerVars
<1>1. \A q \in Pcpus : Holding(q)' <=> Holding(q)
  BY DEF EntryInv, TypeOK, Holding
<1>2. late' = 0 => late = 0
  BY ZenonT(30) DEF EntryInv, TypeOK
<1>3. \A b \in Buffers, i \in Entries : buf'[b][i].of = buf[b][i].of
  <2>1. CASE sidx[p] < Cap
    <3>1. sidx[p] \in Entries /\ sbuf[p] \in Buffers
      BY <2>1, BufferAssumption DEF EntryInv, TypeOK, Entries
    <3>2. buf[sbuf[p]][sidx[p]] \in Samples
      BY <3>1 DEF EntryInv, TypeOK
    <3>3. [buf[sbuf[p]][sidx[p]] EXCEPT !.count = scount[p]].of
            = buf[sbuf[p]][sidx[p]].of
      BY <3>2 DEF Samples
    <3>4. QED
      BY <2>1, <3>1, <3>3 DEF EntryInv, TypeOK
  <2>2. CASE ~(sidx[p] < Cap)
    BY <2>2
  <2>3. QED
    BY <2>1, <2>2
<1>4. QED
  BY <1>1, <1>2, <1>3, EntryHeld

\* A sampler that has stored its sample makes its entry fresh, or is late.
LEMMA EntryStoreTs ==
  ASSUME EntryInv, TypeOK', NEW p \in Pcpus, StoreTs(p)
  PROVE  EntryInv'
<1> USE DEF EntryInv, Holding
<1>0. /\ ~Holding(p)' /\ Holding(p)
      /\ \A q \in Pcpus \ {p} : /\ spc'[q] = spc[q] /\ sbuf'[q] = sbuf[q]
                                /\ sidx'[q] = sidx[q] /\ swritten'[q] = swritten[q]
      /\ UNCHANGED <<collecting, index, opened, tpc, period, start, end, nbSamples>>
      /\ Filling' = Filling
  BY ZenonT(30) DEF StoreTs, SamplerStep, timerVars, TypeOK, Filling
<1>1. Openings' /\ Boundaries'
  BY <1>0, ZenonT(30) DEF Openings, Boundaries
<1>2. EntryHasOneWriter'
  BY <1>0 DEF EntryHasOneWriter
<1>3. FreshEntries'
  <2> SUFFICES ASSUME late' = 0, NEW c \in Buffers, NEW i \in Entries, i < index'[c]
               PROVE  \/ buf'[c][i].of = opened'[c]
                      \/ \E q \in Pcpus : Holding(q)' /\ sbuf'[q] = c /\ sidx'[q] = i
    BY DEF FreshEntries
  <2>1. late = 0 /\ swritten[p] = opened[sbuf[p]]
    BY DEF StoreTs, TypeOK
  <2>2. CASE c = sbuf[p] /\ i = sidx[p]
    <3>1. sidx[p] < Cap
      BY <2>2, BufferAssumption DEF Entries
    <3>2. buf[c][i] \in Samples
      BY DEF TypeOK
    <3>3. [buf[c][i] EXCEPT !.ts = sstamp[p], !.of = swritten[p]].of = swritten[p]
      BY <3>2 DEF Samples
    <3>4. buf'[c][i] = [buf[c][i] EXCEPT !.ts = sstamp[p], !.of = swritten[p]]
      <4>1. buf \in [Buffers -> [Entries -> Samples]]
        BY ZenonT(30) DEF TypeOK
      <4>2. buf' = [buf EXCEPT ![c][i] =
                      [@ EXCEPT !.ts = sstamp[p], !.of = swritten[p]]]
        BY <2>2, <3>1, ZenonT(30) DEF StoreTs
      <4>3. QED
        BY <4>1, <4>2, ZenonT(30)
    <3>5. QED
      BY <1>0, <2>1, <2>2, <3>3, <3>4
  <2>3. CASE ~(c = sbuf[p] /\ i = sidx[p])
    <3>1. buf'[c][i] = buf[c][i]
      <4>1. CASE sidx[p] < Cap
        <5>0. sidx[p] \in Nat /\ sbuf[p] \in Buffers
          BY DEF TypeOK
        <5>1. sidx[p] \in Entries
          BY <4>1, <5>0, BufferAssumption DEF Entries
        <5>2. PICK e : buf' = [buf EXCEPT ![sbuf[p]][sidx[p]] = e]
          BY <4>1, ZenonT(30) DEF StoreTs
        <5>3. QED
          BY <2>3, <5>0, <5>1, <5>2, ZenonT(30) DEF TypeOK
      <4>2. CASE ~(sidx[p] < Cap)
        BY <4>2, ZenonT(30) DEF StoreTs
      <4>3. QED
        BY <4>1, <4>2, ZenonT(30)
    <3>2. CASE buf[c][i].of = opened[c]
      BY <1>0, <3>1, <3>2, ZenonT(30)
    <3>3. CASE \E q \in Pcpus : Holding(q) /\ sbuf[q] = c /\ sidx[q] = i
      <4>1. PICK q \in Pcpus : Holding(q) /\ sbuf[q] = c /\ sidx[q] = i
        BY <3>3, ZenonT(30)
      <4>2. q # p
        BY <2>3, <4>1
      <4>3. QED
        BY <1>0, <4>1, <4>2
    <3>4. QED
      BY <1>0, <2>1, <3>2, <3>3 DEF FreshEntries
  <2>4. QED
    BY <2>2, <2>3, ZenonT(30)
<1>4. QED
  BY <1>1, <1>2, <1>3

\* The steps of the callback between which no entry and no index changes.
LEMMA FreshSame ==
  ASSUME FreshEntries, UNCHANGED <<index, buf, spc, sbuf, sidx, opened, late>>
  PROVE  FreshEntries'
  BY DEF FreshEntries, Holding

\* Nor do they change who writes what.
LEMMA OneWriterSame ==
  ASSUME EntryHasOneWriter, UNCHANGED <<index, spc, sbuf, sidx, swritten, opened>>,
         \/ tpc' \notin {"average", "done"}
         \/ tpc \in {"average", "done"} /\ UNCHANGED <<Filling, nbSamples>>
  PROVE  EntryHasOneWriter'
  BY DEF EntryHasOneWriter

\* FreshEntries for one entry.
LEMMA FreshAt ==
  ASSUME FreshEntries, late = 0, NEW b \in Buffers, NEW i \in Entries, i < index[b],
         buf[b][i].of # opened[b]
  PROVE  \E p \in Pcpus : Holding(p) /\ sbuf[p] = b /\ sidx[p] = i
  BY DEF FreshEntries

\* The steps of the callback that leave the buffers alone.
LEMMA EntryTimer ==
  ASSUME EntryInv, TypeOK', TimerEnd \/ TimerStart \/ Flip \/ AverageEntry \/ Average
                            \/ TimerReturn
  PROVE  EntryInv'
<1> USE DEF EntryInv, samplerVars
<1>a. UNCHANGED <<index, buf, spc, sbuf, sidx, swritten, opened, late>>
  BY ZenonT(30) DEF TimerEnd, TimerStart, Flip, AverageEntry, Average, TimerReturn
<1>b. /\ period \in Nat /\ \A b \in Buffers : opened[b] \in Nat
      /\ collecting \in Buffers /\ Filling \in Buffers
  BY DEF TypeOK, Filling, Buffers
<1>0. /\ UNCHANGED <<index, buf, spc, sbuf, sidx, swritten, opened, late>>
      /\ period \in Nat /\ \A b \in Buffers : opened[b] \in Nat
      /\ collecting \in Buffers /\ Filling \in Buffers
  BY <1>a, <1>b
<1>1. FreshEntries'
  BY <1>a, FreshSame
<1>2. CASE TimerEnd
  <2>1. /\ tpc = "idle" /\ tpc' = "start" /\ period' = period + 1
        /\ collecting' = collecting /\ end'.of = opened[collecting]
    BY <1>2, ZenonT(30) DEF TimerEnd, TimerStep
  <2>2. Openings' /\ Boundaries'
    BY <1>0, <2>1 DEF Openings, Boundaries, Holding
  <2>3. EntryHasOneWriter'
    BY <1>a, <2>1, OneWriterSame
  <2>4. QED
    BY <1>1, <2>2, <2>3, ZenonT(30)
<1>3. CASE TimerStart
  <2>1. /\ tpc = "start" /\ tpc' = "open" /\ start'.of = period + 1
        /\ UNCHANGED <<period, collecting, end>>
    BY <1>3, ZenonT(30) DEF TimerStart, TimerStep
  <2>2. Openings' /\ Boundaries'
    BY <1>0, <2>1 DEF Openings, Boundaries, Holding
  <2>3. EntryHasOneWriter'
    BY <1>a, <2>1, OneWriterSame
  <2>4. QED
    BY <1>1, <2>2, <2>3, ZenonT(30)
<1>4. CASE Flip
  <2>1. /\ tpc = "flip" /\ tpc' = "close" /\ collecting' = Filling
        /\ Filling' = collecting /\ UNCHANGED <<period, end>>
    BY <1>4 DEF Flip, TimerStep, Filling, TypeOK, Buffers
  <2>2. Openings' /\ Boundaries'
    BY <1>0, <2>1 DEF Openings, Boundaries, Holding
  <2>3. EntryHasOneWriter'
    BY <1>a, <2>1, OneWriterSame
  <2>4. QED
    BY <1>1, <2>2, <2>3, ZenonT(30)
<1>5. CASE AverageEntry \/ Average
  <2>1. /\ tpc = "average" /\ tpc' \in {"average", "done"}
        /\ UNCHANGED <<period, collecting, nbSamples>> /\ Filling' = Filling
    BY <1>5, ZenonT(30) DEF AverageEntry, Average, TimerStep, Filling
  <2>2. Openings' /\ Boundaries'
    BY <1>0, <2>1 DEF Openings, Boundaries, Holding
  <2>3. EntryHasOneWriter'
    BY <1>a, <2>1, OneWriterSame
  <2>4. QED
    BY <1>1, <2>2, <2>3
<1>6. CASE TimerReturn
  <2>1. tpc' = "idle" /\ UNCHANGED <<period, collecting>>
    BY <1>6, ZenonT(30) DEF TimerReturn, TimerStep
  <2>2. Openings' /\ Boundaries'
    BY <1>0, <2>1 DEF Openings, Boundaries, Holding
  <2>3. EntryHasOneWriter'
    BY <1>a, <2>1, OneWriterSame
  <2>4. QED
    BY <1>1, <2>2, <2>3
<1>7. QED
  BY <1>2, <1>3, <1>4, <1>5, <1>6, ZenonT(30)

\* The opening has a number that no sampler has, and one entry.
LEMMA EntryOpen ==
  ASSUME EntryInv, TypeOK', OpenBuffer
  PROVE  EntryInv'
<1> USE DEF EntryInv
<1>a. Filling \in Buffers /\ collecting \in Buffers /\ collecting # Filling
  BY DEF TypeOK, Filling, Buffers
<1>b. /\ index \in [Buffers -> Nat] /\ opened \in [Buffers -> 0 .. MaxPeriod + 1]
      /\ buf \in [Buffers -> [Entries -> Samples]]
      /\ period \in Nat /\ \A b \in Buffers : opened[b] \in Nat
  BY BufferAssumption DEF TypeOK
<1>c. 0 \in Entries
  BY BufferAssumption DEF Entries
<1>0. /\ Filling \in Buffers /\ collecting \in Buffers /\ collecting # Filling
      /\ tpc = "open" /\ tpc' = "flip" /\ 0 \in Entries
      /\ period \in Nat /\ \A b \in Buffers : opened[b] \in Nat
      /\ index'[Filling] = 1 /\ opened'[Filling] = period + 1
      /\ \A b \in Buffers : b # Filling => /\ index'[b] = index[b]
                                           /\ opened'[b] = opened[b]
                                           /\ buf'[b] = buf[b]
      /\ buf'[Filling][0] = start
      /\ UNCHANGED <<collecting, spc, sbuf, sidx, swritten, late, period, end>>
  BY <1>a, <1>b, <1>c, ZenonT(30) DEF OpenBuffer, TimerStep, samplerVars
<1>1. ASSUME NEW p \in Pcpus, Holding(p)
      PROVE  /\ swritten[p] \in Nat /\ sidx[p] \in Nat /\ sbuf[p] \in Buffers
             /\ swritten[p] <= opened[sbuf[p]] /\ opened[sbuf[p]] <= period
  <2>1. swritten[p] \in Nat /\ sidx[p] \in Nat /\ sbuf[p] \in Buffers
    <3>1. swritten[p] \in 0 .. MaxPeriod + 1 /\ sidx[p] \in Nat /\ sbuf[p] \in Buffers
      BY ZenonT(30) DEF TypeOK
    <3>2. QED
      BY <3>1, BufferAssumption
  <2>2. QED
    BY <1>0, <1>1, <2>1, ZenonT(30) DEF Openings
<1>2. Openings'
  <2>1. ASSUME NEW p \in Pcpus, Holding(p)' PROVE swritten'[p] <= opened'[sbuf'[p]]
    <3>1. Holding(p)
      BY <1>0, <2>1, ZenonT(30) DEF Holding
    <3>2. /\ swritten[p] \in Nat /\ sbuf[p] \in Buffers
          /\ swritten[p] <= opened[sbuf[p]] /\ opened[sbuf[p]] <= period
      BY <1>1, <3>1, ZenonT(30)
    <3>3. CASE sbuf[p] = Filling
      BY <1>0, <3>2, <3>3
    <3>4. CASE sbuf[p] # Filling
      BY <1>0, <3>2, <3>4, ZenonT(30)
    <3>5. QED
      BY <3>3, <3>4, ZenonT(30)
  <2>2. \A b \in Buffers : opened'[b] <= period' + 1
    BY <1>0 DEF Openings
  <2>3. QED
    BY <1>0, <2>1, <2>2 DEF Openings
<1>3. Boundaries'
  <2>1. \A b \in Buffers : opened'[b] > 1 => index'[b] > 0
    BY <1>0 DEF Boundaries
  <2>2. QED
    BY <1>0, <2>1, ZenonT(30) DEF Boundaries
<1>4. EntryHasOneWriter'
  <2>1. ASSUME NEW p \in Pcpus, Holding(p)
        PROVE  sidx[p] < index'[sbuf[p]] \/ swritten[p] # opened'[sbuf[p]]
    <3>1. CASE sbuf[p] = Filling
      BY <1>0, <1>1, <2>1, <3>1
    <3>2. CASE sbuf[p] # Filling
      BY <1>0, <1>1, <2>1, <3>2, ZenonT(30) DEF EntryHasOneWriter, Holding
    <3>3. QED
      BY <3>1, <3>2, ZenonT(30)
  <2>2. QED
    BY <1>0, <2>1, ZenonT(30) DEF EntryHasOneWriter, Holding
<1>5. FreshEntries'
  <2> SUFFICES ASSUME late' = 0, NEW c \in Buffers, NEW i \in Entries, i < index'[c]
               PROVE  \/ buf'[c][i].of = opened'[c]
                      \/ \E q \in Pcpus : Holding(q)' /\ sbuf'[q] = c /\ sidx'[q] = i
    BY ZenonT(30) DEF FreshEntries
  <2>1. CASE c = Filling
    <3>1. i = 0
      BY <1>0, <2>1 DEF Entries
    <3>2. QED
      BY <1>0, <2>1, <3>1, ZenonT(30) DEF Boundaries
  <2>2. CASE c # Filling
    BY <1>0, <2>2 DEF FreshEntries, Holding
  <2>3. QED
    BY <2>1, <2>2, ZenonT(30)
<1>6. QED
  BY <1>2, <1>3, <1>4, <1>5, ZenonT(30)

\* The index of count_end is a new one, too.
LEMMA EntryClose ==
  ASSUME EntryInv, TypeOK', CloseBuffer
  PROVE  EntryInv'
<1> USE DEF EntryInv
<1>0. /\ Filling \in Buffers /\ Filling' = Filling /\ index[Filling] \in Nat
      /\ tpc = "close" /\ tpc' = "average"
      /\ nbSamples' = index[Filling] /\ index'[Filling] = index[Filling] + 1
      /\ \A b \in Buffers : b # Filling => index'[b] = index[b]
      /\ UNCHANGED <<collecting, spc, sbuf, sidx, swritten, opened, late, period>>
  BY DEF CloseBuffer, TimerStep, samplerVars, TypeOK, Filling, Buffers
<1>1. Openings'
  BY <1>0, ZenonT(30) DEF Openings, Holding
<1>2. Boundaries'
  BY <1>0 DEF Boundaries
<1>3. EntryHasOneWriter'
  <2>1. ASSUME NEW p \in Pcpus, Holding(p)
        PROVE  /\ sidx[p] < index'[sbuf[p]] \/ swritten[p] # opened[sbuf[p]]
               /\ sbuf[p] = Filling /\ swritten[p] = opened[Filling]
                  => sidx[p] # nbSamples'
    <3>1. sidx[p] \in Nat /\ sbuf[p] \in Buffers /\ index[sbuf[p]] \in Nat
      BY ZenonT(30) DEF TypeOK
    <3>2. sidx[p] < index[sbuf[p]] \/ swritten[p] # opened[sbuf[p]]
      BY <2>1, ZenonT(30) DEF EntryHasOneWriter, Holding
    <3>3. QED
      BY <1>0, <3>1, <3>2
  <2>2. QED
    BY <1>0, <2>1, ZenonT(30) DEF EntryHasOneWriter, Holding
<1>4. FreshEntries'
  <2> SUFFICES ASSUME late' = 0, NEW c \in Buffers, NEW i \in Entries, i < index'[c]
               PROVE  \/ buf'[c][i].of = opened'[c]
                      \/ \E q \in Pcpus : Holding(q)' /\ sbuf'[q] = c /\ sidx'[q] = i
    BY ZenonT(30) DEF FreshEntries
  <2>1. i \in Int /\ i < Cap /\ index[c] \in Nat
    BY BufferAssumption DEF TypeOK, Entries
  <2>2. CASE c = Filling /\ i = index[Filling]
    <3>1. index[Filling] \in Entries /\ index[Filling] < Cap
      BY <2>1, <2>2, ZenonT(30)
    <3>2. buf' = [buf EXCEPT ![Filling][index[Filling]] = end]
      BY <3>1, ZenonT(30) DEF CloseBuffer
    <3>3. buf'[c][i] = end
      BY <1>0, <2>2, <3>1, <3>2, ZenonT(30) DEF TypeOK
    <3>4. QED
      BY <1>0, <2>2, <3>3 DEF Boundaries
  <2>3. CASE ~(c = Filling /\ i = index[Filling])
    <3>1. i < index[c]
      <4>1. CASE c = Filling
        <5>1. index'[c] = index[c] + 1 /\ i # index[c]
          BY <1>0, <2>3, <4>1, ZenonT(30)
        <5>2. QED
          BY <2>1, <5>1
      <4>2. CASE c # Filling
        BY <1>0, <4>2, ZenonT(30)
      <4>3. QED
        BY <4>1, <4>2
    <3>2. buf'[c][i] = buf[c][i]
      <4>1. CASE index[Filling] < Cap
        <5>1. buf' = [buf EXCEPT ![Filling][index[Filling]] = end]
          BY <4>1, ZenonT(30) DEF CloseBuffer
        <5>2. index[Filling] \in Entries
          BY <1>0, <4>1, BufferAssumption DEF Entries
        <5>3. QED
          BY <1>0, <2>3, <5>1, <5>2, ZenonT(30) DEF TypeOK
      <4>2. CASE ~(index[Filling] < Cap)
        BY <4>2, ZenonT(30) DEF CloseBuffer
      <4>3. QED
        BY <4>1, <4>2, ZenonT(30)
    <3>3. CASE buf[c][i].of = opened[c]
      BY <1>0, <3>2, <3>3, ZenonT(30)
    <3>4. CASE buf[c][i].of # opened[c]
      <4>1. \E q \in Pcpus : Holding(q) /\ sbuf[q] = c /\ sidx[q] = i
        BY <1>0, <3>1, <3>4, FreshAt, ZenonT(30)
      <4>2. QED
        BY <1>0, <4>1, ZenonT(30) DEF Holding
    <3>5. QED
      BY <3>3, <3>4
  <2>4. QED
    BY <2>2, <2>3, ZenonT(30)
<1>5. QED
  BY <1>1, <1>2, <1>3, <1>4, ZenonT(30)

\* So every step keeps the invariant.
LEMMA EntryNext == EntryInv /\ [Next]_vars => EntryInv'
<1> SUFFICES ASSUME EntryInv, [Next]_vars PROVE EntryInv'
  OBVIOUS
<1>0. TypeOK'
  BY TypeNext DEF EntryInv
<1>1. ASSUME Advance PROVE EntryInv'
  BY <1>0, <1>1, EntrySame, ZenonT(30) DEF Advance, samplerVars, timerVars
<1>2. ASSUME NEW p \in Pcpus, NEW n \in Counts, Count(p, n) PROVE EntryInv'
  BY <1>0, <1>2, EntryBefore, ZenonT(30)
  DEF Count, SamplerStep, timerVars, Holding, EntryInv, TypeOK
<1>3. ASSUME NEW p \in Pcpus, ReadFlag(p) PROVE EntryInv'
  BY <1>0, <1>3, EntryBefore, ZenonT(30)
  DEF ReadFlag, SamplerStep, timerVars, Holding, EntryInv, TypeOK
<1>4. ASSUME NEW p \in Pcpus, Stamp(p) PROVE EntryInv'
  BY <1>0, <1>4, EntryHeld, ZenonT(30)
  DEF Stamp, SamplerStep, timerVars, Holding, EntryInv, TypeOK
<1>5. ASSUME UNCHANGED vars PROVE EntryInv'
  BY <1>0, <1>5, EntrySame DEF vars, samplerVars, timerVars
<1>6. QED
  BY <1>0, <1>1, <1>2, <1>3, <1>4, <1>5, EntryReserve, EntryStore, EntryStoreTs,
     EntryTimer, EntryOpen, EntryClose
  DEF Next, Sampler, TimerRest

\* And it always holds.
LEMMA EntryAlways == Spec => []EntryInv
  BY EntryInit, EntryNext, PTL DEF Spec

\* Within one opening no two writers share an entry, for any number of pCPUs.
THEOREM EntriesHaveOneWriter == Spec => []EntryHasOneWriter
<1>1. EntryInv => EntryHasOneWriter
  BY DEF EntryInv
<1>2. QED
  BY <1>1, EntryAlways, PTL

\* What is averaged belongs to the period that is closed.
THEOREM AveragedEntriesAreFresh == Spec => []FreshUnlessInFlight
<1>1. EntryInv => FreshUnlessInFlight
  <2> SUFFICES ASSUME EntryInv, tpc \in {"average", "done"}, late = 0,
                      NEW i \in Entries, i <= nbSamples
               PROVE  \/ buf[Filling][i].of = opened[Filling]
                      \/ \E p \in Pcpus : /\ spc[p] \in {"stamp", "store", "store_ts"}
                                          /\ sbuf[p] = Filling
                                          /\ sidx[p] = i
    BY Zenon DEF FreshUnlessInFlight
  <2>1. Filling \in Buffers /\ index[Filling] \in Nat /\ nbSamples \in Nat /\ i \in Int
    BY DEF EntryInv, TypeOK, Filling, Buffers, Entries
  <2>2. i < index[Filling]
    BY <2>1 DEF EntryInv, Boundaries
  <2>3. FreshEntries
    BY ZenonT(30) DEF EntryInv
  <2>4. \/ buf[Filling][i].of = opened[Filling]
        \/ \E p \in Pcpus : Holding(p) /\ sbuf[p] = Filling /\ sidx[p] = i
    BY <2>1, <2>2, <2>3 DEF FreshEntries
  <2>5. QED
    BY <2>4, ZenonT(30) DEF Holding
<1>2. QED
  BY <1>1, EntryAlways, PTL

=============================================================================
