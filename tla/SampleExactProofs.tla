------------------------- MODULE SampleExactProofs -------------------------
(***************************************************************************)
(* Proofs about SampleExact: where samplers and callback do not overlap,   *)
(* the average is exact, for any number of pCPUs, any capacity and any     *)
(* sequence of counts.                                                     *)
(*                                                                         *)
(* The sum phantom_average computes runs over the entries of a buffer.     *)
(* The proof needs no induction over them: the history variable mark holds *)
(* the integral at each entry, the invariant relates neighbouring entries  *)
(* only, and the averaging follows the marks one entry at a time.          *)
(***************************************************************************)
EXTENDS SampleExact, SampleBuffersProofs

\* The first n entries of array B chain up: each is marked M with the integral
\* of the count from s on to its stamp.
Chain(B, M, s, n) ==
  /\ M[0] = 0 /\ B[0].ts = s
  /\ \A i \in 0 .. n - 2 :
       /\ B[i].ts <= B[i + 1].ts
       /\ M[i + 1] = M[i] + B[i].count * (B[i + 1].ts - B[i].ts)

\* At time t the integral is a: the last of the n entries still counts.
Counted(B, M, s, t, a, n) ==
  /\ n >= 1
  /\ n <= Cap => /\ Chain(B, M, s, n)
                 /\ B[n - 1].ts <= t
                 /\ a = M[n - 1] + B[n - 1].count * (t - B[n - 1].ts)

\* Arrays that agree on the first n entries.
Agree(B, C, n) ==
  \A i \in Entries : i < n => B[i].count = C[i].count /\ B[i].ts = C[i].ts

Array == [Entries -> Samples]

\* The words of a sample are numbers.
LEMMA SampleParts ==
  ASSUME NEW B \in Array, NEW i \in Entries
  PROVE  B[i].count \in Nat /\ B[i].ts \in Nat
<1>1. B[i] \in Samples
  BY DEF Array
<1>2. QED
  BY <1>1, BufferAssumption DEF Samples, Counts

\* What is stored beyond the chain does not change it.
LEMMA ChainAgree ==
  ASSUME NEW B, NEW C, NEW M, NEW s, NEW n \in Nat, n >= 1, n <= Cap,
         Chain(B, M, s, n), Agree(B, C, n)
  PROVE  Chain(C, M, s, n)
<1>1. 0 \in Entries /\ 0 < n
  BY BufferAssumption DEF Entries
<1>2. C[0].ts = s
  BY <1>1 DEF Chain, Agree
<1>3. ASSUME NEW i \in 0 .. n - 2
      PROVE  /\ C[i].ts <= C[i + 1].ts
             /\ M[i + 1] = M[i] + C[i].count * (C[i + 1].ts - C[i].ts)
  <2>1. i \in Entries /\ i < n /\ i + 1 \in Entries /\ i + 1 < n
    BY BufferAssumption DEF Entries
  <2>2. /\ B[i].count = C[i].count /\ B[i].ts = C[i].ts
        /\ B[i + 1].ts = C[i + 1].ts
    BY <2>1, Zenon DEF Agree
  <2>3. QED
    BY <2>2, Zenon DEF Chain
<1>4. QED
  BY <1>2, <1>3, Zenon DEF Chain

\* Nor what it accounts for.
LEMMA CountedAgree ==
  ASSUME NEW B, NEW C, NEW M, NEW s, NEW t, NEW a, NEW n \in Nat,
         Counted(B, M, s, t, a, n), Agree(B, C, n)
  PROVE  Counted(C, M, s, t, a, n)
<1>1. n >= 1
  BY DEF Counted
<1>2. ASSUME n <= Cap
      PROVE  /\ Chain(C, M, s, n) /\ C[n - 1].ts <= t
             /\ a = M[n - 1] + C[n - 1].count * (t - C[n - 1].ts)
  <2>1. n - 1 \in Entries /\ n - 1 < n
    BY <1>1, <1>2, BufferAssumption DEF Entries
  <2>2. B[n - 1].count = C[n - 1].count /\ B[n - 1].ts = C[n - 1].ts
    BY <2>1, Zenon DEF Agree
  <2>3. Chain(C, M, s, n)
    BY <1>1, <1>2, ChainAgree, Zenon DEF Counted
  <2>4. QED
    BY <1>2, <2>2, <2>3, Zenon DEF Counted
<1>3. QED
  BY <1>1, <1>2, Zenon DEF Counted

\* Time goes on.
LEMMA CountedAdvance ==
  ASSUME NEW B \in Array, NEW M \in [Entries -> Nat], NEW s, NEW t \in Nat,
         NEW a \in Nat, NEW n \in Nat, NEW c \in Nat,
         Counted(B, M, s, t, a, n), n <= Cap => B[n - 1].count = c
  PROVE  Counted(B, M, s, t + 1, a + c, n)
<1>1. n >= 1
  BY DEF Counted
<1>2. ASSUME n <= Cap
      PROVE  /\ Chain(B, M, s, n) /\ B[n - 1].ts <= t + 1
             /\ a + c = M[n - 1] + B[n - 1].count * ((t + 1) - B[n - 1].ts)
  <2>1. n - 1 \in Entries
    BY <1>1, <1>2, BufferAssumption DEF Entries
  <2> DEFINE x == B[n - 1].ts
             m == M[n - 1]
  <2>2. x \in Nat /\ m \in Nat /\ B[n - 1].count = c
    BY <1>2, <2>1, SampleParts
  <2>3. Chain(B, M, s, n) /\ x <= t /\ a = m + c * (t - x)
    BY <1>2, <2>2, Zenon DEF Counted
  <2> HIDE DEF x, m
  <2>4. c * ((t + 1) - x) = c * (t - x) + c /\ c * (t - x) \in Int
    BY <2>2
  <2>5. x <= t + 1 /\ a + c = m + c * ((t + 1) - x)
    BY <2>2, <2>3, <2>4
  <2>6. QED
    BY <2>2, <2>3, <2>5, Zenon DEF x, m
<1>3. QED
  BY <1>1, <1>2, Zenon DEF Counted

\* An entry stored at time t continues the chain.
LEMMA ChainExtend ==
  ASSUME NEW B \in Array, NEW C \in Array, NEW M \in [Entries -> Nat],
         NEW s, NEW t \in Nat, NEW a \in Nat, NEW n \in Entries,
         Counted(B, M, s, t, a, n), Agree(B, C, n), C[n].ts = t
  PROVE  Chain(C, [M EXCEPT ![n] = a], s, n + 1)
<1> DEFINE N == [M EXCEPT ![n] = a]
<1>1. n \in Nat /\ n >= 1 /\ n <= Cap /\ 0 \in Entries /\ 0 # n
      /\ n - 1 \in Entries /\ n - 1 # n
  BY BufferAssumption DEF Counted, Entries
<1>2. N[n] = a /\ \A i \in Entries : i # n => N[i] = M[i]
  OBVIOUS
<1> HIDE DEF N
<1>3. Counted(C, M, s, t, a, n)
  BY <1>1, CountedAgree, Zenon
<1>4. Chain(C, M, s, n) /\ C[n - 1].ts <= t
      /\ a = M[n - 1] + C[n - 1].count * (t - C[n - 1].ts)
  BY <1>1, <1>3, Zenon DEF Counted
<1>5. N[0] = 0 /\ C[0].ts = s
  BY <1>1, <1>2, <1>4, Zenon DEF Chain
<1>6. ASSUME NEW i \in 0 .. (n + 1) - 2
      PROVE  /\ C[i].ts <= C[i + 1].ts
             /\ N[i + 1] = N[i] + C[i].count * (C[i + 1].ts - C[i].ts)
  <2>1. CASE i = n - 1
    <3>1. i + 1 = n
      BY <1>1, <2>1
    <3>2. QED
      BY <1>1, <1>2, <1>4, <2>1, <3>1, Zenon
  <2>2. CASE i # n - 1
    <3>1. i \in 0 .. n - 2 /\ i \in Entries /\ i # n /\ i + 1 \in Entries /\ i + 1 # n
      BY <1>1, <2>2, BufferAssumption DEF Entries
    <3>2. N[i] = M[i] /\ N[i + 1] = M[i + 1]
      BY <1>2, <3>1, Zenon
    <3>3. QED
      BY <1>4, <3>1, <3>2, Zenon DEF Chain
  <2>3. QED
    BY <2>1, <2>2
<1>7. Chain(C, N, s, n + 1)
  BY <1>5, <1>6, Zenon DEF Chain
<1>8. QED
  BY <1>7, Zenon DEF N

\* And goes on counting from there.
LEMMA CountedExtend ==
  ASSUME NEW B \in Array, NEW C \in Array, NEW M \in [Entries -> Nat],
         NEW s, NEW t \in Nat, NEW a \in Nat, NEW n \in Entries,
         Counted(B, M, s, t, a, n), Agree(B, C, n), C[n].ts = t
  PROVE  Counted(C, [M EXCEPT ![n] = a], s, t, a, n + 1)
<1> DEFINE N == [M EXCEPT ![n] = a]
<1>1. Chain(C, N, s, n + 1) /\ N[n] = a
  <2>1. Chain(C, N, s, n + 1)
    BY ChainExtend, Zenon
  <2>2. N[n] = a
    BY Zenon
  <2>3. QED
    BY <2>1, <2>2
<1> HIDE DEF N
<1>2. n + 1 >= 1 /\ (n + 1) - 1 = n
  BY BufferAssumption DEF Entries
<1>3. C[n].count \in Nat
  BY SampleParts, Zenon
<1>4. C[n].ts <= t /\ a = N[n] + C[n].count * (t - C[n].ts)
  BY <1>1, <1>3
<1>5. Counted(C, N, s, t, a, n + 1)
  BY <1>1, <1>2, <1>4, Zenon DEF Counted
<1>6. QED
  BY <1>5, Zenon DEF N

\* A period begins with one entry.
LEMMA CountedFirst ==
  ASSUME NEW B \in Array, NEW M, NEW t \in Nat, M[0] = 0, B[0].ts = t
  PROVE  Counted(B, M, t, t, 0, 1)
<1>1. 0 \in Entries
  BY BufferAssumption DEF Entries
<1>2. B[0].count \in Nat
  BY <1>1, SampleParts, Zenon
<1>3. Chain(B, M, t, 1)
  BY DEF Chain
<1>4. B[1 - 1].ts <= t /\ 0 = M[1 - 1] + B[1 - 1].count * (t - B[1 - 1].ts)
  BY <1>2
<1>5. QED
  BY <1>3, <1>4 DEF Counted

HistoryTypes == area \in Nat /\ since \in Nat /\ mark \in [Entries -> Nat]

\* One sampler or the callback at a time.
Alone ==
  /\ tpc # "idle" => \A p \in Pcpus : spc[p] = "idle"
  /\ \A p, q \in Pcpus : spc[p] # "idle" /\ spc[q] # "idle" => p = q

\* What the sampler under way has found is still so.
Sampling ==
  \A p \in Pcpus : spc[p] # "idle" =>
    /\ scount[p] = count
    /\ spc[p] # "flag" => sbuf[p] = collecting
    /\ Holding(p) => sidx[p] = index[collecting] - 1
    /\ spc[p] \in {"store", "store_ts"} => sstamp[p] = clock
    /\ spc[p] = "store_ts" /\ sidx[p] < Cap => buf[collecting][sidx[p]].count = count

\* Buffer b has been opened, now.
OpenedNow(b) ==
  index[b] = 1 /\ buf[b][0].count = count /\ buf[b][0].ts = clock

\* What the callback under way has found or done.
Closing ==
  /\ tpc \in {"start", "open", "flip", "close"} => end.ts = clock
  /\ tpc = "open" => start.count = count /\ start.ts = clock
  /\ tpc = "flip" => OpenedNow(Filling)
  /\ tpc \in {"close", "average", "done"} => OpenedNow(collecting)

\* Between callbacks the entries account for the period so far.
Collected ==
  tpc = "idle" /\ period >= 1 =>
    /\ (\A p \in Pcpus : ~Holding(p)) =>
         Counted(buf[collecting], mark, since, clock, area, index[collecting])
    /\ \A p \in Pcpus : Holding(p) =>
         Counted(buf[collecting], mark, since, clock, area, index[collecting] - 1)
    /\ Quiet /\ index[collecting] <= Cap =>
         buf[collecting][index[collecting] - 1].count = count

\* They still do until the buffer is closed.
Ending ==
  period >= 2 =>
    /\ tpc \in {"start", "open", "flip"} =>
         Counted(buf[collecting], mark, since, clock, area, index[collecting])
    /\ tpc = "close" =>
         Counted(buf[Filling], mark, since, clock, area, index[Filling])

\* The averaging has followed the chain up to entry k.
Averaged ==
  tpc \in {"average", "done"} /\ period >= 2 /\ nbSamples < Cap =>
    /\ Chain(buf[Filling], mark, since, nbSamples + 1)
    /\ buf[Filling][nbSamples].ts = clock /\ mark[nbSamples] = area
    /\ k <= nbSamples /\ sum = mark[k] /\ total = buf[Filling][k].ts - since
    /\ tpc = "done" => k = nbSamples /\ avg = IF total > 0 THEN sum \div total ELSE 0

ExactInv ==
  /\ TypeOK /\ HistoryTypes
  /\ Alone /\ Sampling /\ Closing /\ Collected /\ Ending /\ Averaged

exactVars == <<vars, area, since, mark>>

\* The invariant holds initially; the first period accounts for nothing.
LEMMA ExactInitial == ExactInit => ExactInv
<1> SUFFICES ASSUME ExactInit PROVE ExactInv
  OBVIOUS
<1>1. TypeOK
  BY TypeInit DEF ExactInit
<1>2. HistoryTypes
  BY DEF ExactInit, HistoryTypes
<1>3. tpc = "idle" /\ period = 0 /\ \A p \in Pcpus : spc[p] = "idle"
  BY DEF ExactInit, Init
<1>4. Alone /\ Sampling /\ Closing
  BY <1>3 DEF Alone, Sampling, Closing
<1>5. Collected /\ Ending /\ Averaged
  BY <1>3 DEF Collected, Ending, Averaged
<1>6. QED
  BY <1>1, <1>2, <1>4, <1>5 DEF ExactInv

\* The types the steps below need.
LEMMA ExactTypes ==
  ASSUME TypeOK
  PROVE  /\ collecting \in Buffers /\ Filling \in Buffers /\ Filling # collecting
         /\ \A b \in Buffers : buf[b] \in Array /\ index[b] \in Nat
         /\ clock \in Nat /\ count \in Nat /\ period \in Nat
         /\ buf \in Arrays
<1>1. collecting \in Buffers /\ Filling \in Buffers /\ Filling # collecting
  BY DEF TypeOK, Filling, Buffers
<1>2. clock \in Nat /\ count \in Nat /\ period \in Nat
  BY BufferAssumption DEF TypeOK, Counts
<1>3. QED
  BY <1>1, <1>2, Zenon DEF TypeOK, Array, Arrays

\* Without a callback only the samplers' part has anything to say.
LEMMA NoCallback ==
  ASSUME tpc' = "idle"
  PROVE  Closing' /\ Ending' /\ Averaged'
  BY DEF Closing, Ending, Averaged

\* Within a callback the samplers' part says nothing.
LEMMA NoSampler ==
  ASSUME \A p \in Pcpus : spc'[p] = "idle"
  PROVE  Alone' /\ Sampling'
  BY DEF Alone, Sampling

\* Time passes when all is quiet, and the last entry has the current count.
LEMMA ExactAdvance ==
  ASSUME ExactInv, Quiet, Advance, area' = area + count, UNCHANGED <<since, mark>>
  PROVE  HistoryTypes' /\ Alone' /\ Sampling' /\ Closing' /\ Collected' /\ Ending'
         /\ Averaged'
<1>1. /\ UNCHANGED <<tpc, spc, period, buf, collecting, index, count, since, mark>>
      /\ clock' = clock + 1
  BY DEF Advance, samplerVars, timerVars
<1>2. tpc = "idle" /\ \A p \in Pcpus : spc[p] = "idle" /\ ~Holding(p)
  BY DEF Quiet, Holding
<1>t. TypeOK /\ HistoryTypes /\ Collected
  BY DEF ExactInv
<1>3. /\ collecting \in Buffers /\ clock \in Nat /\ count \in Nat
      /\ buf[collecting] \in Array /\ index[collecting] \in Nat
      /\ area \in Nat /\ mark \in [Entries -> Nat]
  BY <1>t, ExactTypes, Zenon DEF HistoryTypes
<1>4. HistoryTypes'
  BY <1>1, <1>3, <1>t DEF HistoryTypes
<1>5. Alone' /\ Sampling' /\ Closing' /\ Ending' /\ Averaged'
  BY <1>1, <1>2, NoCallback, NoSampler, Zenon
<1>6. Collected'
  <2>1. SUFFICES ASSUME period >= 1
                 PROVE  /\ Counted(buf[collecting], mark, since, clock + 1, area + count,
                                   index[collecting])
                        /\ index[collecting] <= Cap =>
                             buf[collecting][index[collecting] - 1].count = count
    BY <1>1, <1>2, Zenon DEF Collected, Holding
  <2>2. /\ Counted(buf[collecting], mark, since, clock, area, index[collecting])
        /\ index[collecting] <= Cap => buf[collecting][index[collecting] - 1].count = count
    BY <1>2, <1>t, <2>1, Zenon DEF Collected
  <2>3. QED
    BY <1>3, <2>2, CountedAdvance, Zenon
<1>7. QED
  BY <1>4, <1>5, <1>6

\* A sampler that moves is the only one, and there is no callback.
LEMMA SamplerAlone ==
  ASSUME TypeOK, Alone, NEW p \in Pcpus, spc[p] # "idle", NEW pc,
         spc' = [spc EXCEPT ![p] = pc], tpc' = tpc
  PROVE  /\ tpc = "idle" /\ spc'[p] = pc
         /\ \A q \in Pcpus : q # p => spc[q] = "idle" /\ spc'[q] = "idle"
         /\ Alone' /\ Closing' /\ Ending' /\ Averaged'
<1>1. tpc = "idle" /\ \A q \in Pcpus : q # p => spc[q] = "idle"
  BY Zenon DEF Alone
<1>2. spc'[p] = pc /\ \A q \in Pcpus : q # p => spc'[q] = spc[q]
  BY DEF TypeOK
<1>3. Alone'
  BY <1>1, <1>2, Zenon DEF Alone
<1>4. QED
  BY <1>1, <1>2, <1>3, NoCallback, Zenon

\* Nor does one that leaves the entries alone change what they account for.
LEMMA CollectedSame ==
  ASSUME Collected, \A p \in Pcpus : Holding(p)' <=> Holding(p),
         Quiet' => Quiet /\ count' = count,
         UNCHANGED <<tpc, period, buf, mark, since, clock, area, index, collecting>>
  PROVE  Collected'
  BY Zenon DEF Collected

\* The count changes; the entry for it is still to come.
LEMMA ExactCount ==
  ASSUME ExactInv, Quiet, NEW p \in Pcpus, NEW n \in Counts, Count(p, n),
         UNCHANGED <<area, since, mark>>
  PROVE  HistoryTypes' /\ Alone' /\ Sampling' /\ Closing' /\ Collected' /\ Ending'
         /\ Averaged'
<1>t. TypeOK /\ HistoryTypes /\ Collected
  BY DEF ExactInv
<1>1. /\ UNCHANGED <<tpc, period, buf, collecting, index, clock>>
      /\ spc' = [spc EXCEPT ![p] = "flag"] /\ count' = n /\ scount'[p] = n
  BY <1>t DEF Count, SamplerStep, timerVars, TypeOK
<1>2. tpc = "idle" /\ \A q \in Pcpus : spc[q] = "idle" /\ ~Holding(q)
  BY DEF Quiet, Holding
<1>3. spc'[p] = "flag" /\ \A q \in Pcpus : q # p => spc'[q] = "idle"
  BY <1>1, <1>2, <1>t DEF TypeOK
<1>4. HistoryTypes'
  BY <1>t DEF HistoryTypes
<1>5. Alone' /\ Sampling'
  BY <1>1, <1>2, <1>3 DEF Alone, Sampling, Holding
<1>6. Collected'
  <2>1. \A q \in Pcpus : ~Holding(q)' /\ ~Quiet'
    BY <1>3 DEF Holding, Quiet
  <2>2. QED
    BY <1>1, <1>2, <1>t, <2>1, CollectedSame, Zenon
<1>7. QED
  BY <1>1, <1>2, <1>4, <1>5, <1>6, NoCallback, Zenon

\* Nothing can flip the flag before the sampler is done with it.
LEMMA ExactReadFlag ==
  ASSUME ExactInv, NEW p \in Pcpus, ReadFlag(p), UNCHANGED <<area, since, mark>>
  PROVE  HistoryTypes' /\ Alone' /\ Sampling' /\ Closing' /\ Collected' /\ Ending'
         /\ Averaged'
<1>t. TypeOK /\ HistoryTypes /\ Alone /\ Sampling /\ Collected
  BY DEF ExactInv
<1>1. /\ UNCHANGED <<tpc, period, buf, collecting, index, clock, count, scount>>
      /\ spc[p] = "flag" /\ spc' = [spc EXCEPT ![p] = "reserve"]
      /\ sbuf'[p] = collecting
  BY <1>t DEF ReadFlag, SamplerStep, timerVars, TypeOK
<1>2. /\ spc'[p] = "reserve"
      /\ \A q \in Pcpus : q # p => spc[q] = "idle" /\ spc'[q] = "idle"
      /\ Alone' /\ Closing' /\ Ending' /\ Averaged'
  BY <1>1, <1>t, SamplerAlone, Zenon
<1>3. Sampling'
  BY <1>1, <1>2, <1>t DEF Sampling, Holding
<1>4. Collected'
  <2>1. ~Quiet' /\ \A q \in Pcpus : ~Holding(q)' /\ ~Holding(q)
    BY <1>1, <1>2 DEF Holding, Quiet
  <2>2. QED
    BY <1>1, <1>t, <2>1, CollectedSame, Zenon
<1>5. HistoryTypes'
  BY <1>t DEF HistoryTypes
<1>6. QED
  BY <1>2, <1>3, <1>4, <1>5

\* The index taken is the one after the last entry.
LEMMA ExactReserve ==
  ASSUME ExactInv, NEW p \in Pcpus, Reserve(p), UNCHANGED <<area, since, mark>>
  PROVE  HistoryTypes' /\ Alone' /\ Sampling' /\ Closing' /\ Collected' /\ Ending'
         /\ Averaged'
<1>t. TypeOK /\ HistoryTypes /\ Alone /\ Sampling /\ Collected
  BY DEF ExactInv
<1>1. /\ UNCHANGED <<tpc, period, buf, collecting, clock, count, scount, sbuf>>
      /\ spc[p] = "reserve" /\ spc' = [spc EXCEPT ![p] = "stamp"]
      /\ sidx'[p] = index[sbuf[p]]
  BY <1>t DEF Reserve, SamplerStep, timerVars, TypeOK
<1>2. /\ tpc = "idle" /\ spc'[p] = "stamp"
      /\ \A q \in Pcpus : q # p => spc[q] = "idle" /\ spc'[q] = "idle"
      /\ Alone' /\ Closing' /\ Ending' /\ Averaged'
  BY <1>1, <1>t, SamplerAlone, Zenon
<1>3. sbuf[p] = collecting /\ scount[p] = count
  BY <1>1, <1>t DEF Sampling
<1>4. index'[collecting] - 1 = index[collecting]
  BY <1>3, <1>t DEF Reserve, TypeOK
<1>5. Sampling'
  BY <1>1, <1>2, <1>3, <1>4 DEF Sampling, Holding
<1>6. Collected'
  <2>1. ~Quiet' /\ Holding(p)' /\ \A q \in Pcpus : ~Holding(q)
    BY <1>1, <1>2 DEF Holding, Quiet
  <2>2. QED
    BY <1>1, <1>2, <1>4, <1>t, <2>1, ZenonT(30) DEF Collected
<1>7. HistoryTypes'
  BY <1>t DEF HistoryTypes
<1>8. QED
  BY <1>2, <1>5, <1>6, <1>7

\* No time passes before the sample is stored.
LEMMA ExactStamp ==
  ASSUME ExactInv, NEW p \in Pcpus, Stamp(p), UNCHANGED <<area, since, mark>>
  PROVE  HistoryTypes' /\ Alone' /\ Sampling' /\ Closing' /\ Collected' /\ Ending'
         /\ Averaged'
<1>t. TypeOK /\ HistoryTypes /\ Alone /\ Sampling /\ Collected
  BY DEF ExactInv
<1>1. /\ UNCHANGED <<tpc, period, buf, collecting, index, clock, count, scount, sbuf,
                     sidx>>
      /\ spc[p] = "stamp" /\ spc' = [spc EXCEPT ![p] = "store"]
      /\ sstamp'[p] = clock
  BY <1>t DEF Stamp, SamplerStep, timerVars, TypeOK
<1>2. /\ spc'[p] = "store"
      /\ \A q \in Pcpus : q # p => spc[q] = "idle" /\ spc'[q] = "idle"
      /\ Alone' /\ Closing' /\ Ending' /\ Averaged'
  BY <1>1, <1>t, SamplerAlone, Zenon
<1>3. Sampling'
  BY <1>1, <1>2, <1>t DEF Sampling, Holding
<1>4. Collected'
  <2>1. ~Quiet' /\ \A q \in Pcpus : Holding(q)' <=> Holding(q)
    BY <1>1, <1>2 DEF Holding, Quiet
  <2>2. QED
    BY <1>1, <1>t, <2>1, CollectedSame, Zenon
<1>5. HistoryTypes'
  BY <1>t DEF HistoryTypes
<1>6. QED
  BY <1>2, <1>3, <1>4, <1>5

\* Arrays C are B with sample s at entry i of buffer b.
StoredAt(C, B, b, i, s) ==
  /\ C[b][i] = s
  /\ \A j \in Entries : j # i => C[b][j] = B[b][j]
  /\ \A c \in Buffers : c # b => C[c] = B[c]

\* bpf_map_update_elem on an entry of a buffer.
LEMMA StoredSample ==
  ASSUME NEW B \in Arrays, NEW b \in Buffers, NEW i \in Entries, NEW s \in Samples
  PROVE  StoredAt([B EXCEPT ![b][i] = s], B, b, i, s)
  BY DEF Arrays, StoredAt

\* The first word of the new entry; the chain does not reach it yet.
LEMMA ExactStore ==
  ASSUME ExactInv, TypeOK', NEW p \in Pcpus, Store(p), UNCHANGED <<area, since, mark>>
  PROVE  HistoryTypes' /\ Alone' /\ Sampling' /\ Closing' /\ Collected' /\ Ending'
         /\ Averaged'
<1>t. TypeOK /\ HistoryTypes /\ Alone /\ Sampling /\ Collected
  BY DEF ExactInv
<1>1. /\ UNCHANGED <<tpc, period, collecting, index, clock, count, scount, sbuf, sidx,
                     sstamp>>
      /\ spc[p] = "store" /\ spc' = [spc EXCEPT ![p] = "store_ts"]
  BY <1>t DEF Store, SamplerStep, timerVars
<1>2. /\ spc'[p] = "store_ts"
      /\ \A q \in Pcpus : q # p => spc[q] = "idle" /\ spc'[q] = "idle"
      /\ Alone' /\ Closing' /\ Ending' /\ Averaged'
  BY <1>1, <1>t, SamplerAlone, Zenon
<1> DEFINE b == collecting
           n == index[collecting] - 1
<1>3. sbuf[p] = b /\ sidx[p] = n /\ scount[p] = count /\ sstamp[p] = clock
  BY <1>1, <1>t DEF Sampling, Holding
<1>4. n \in Nat /\ b \in Buffers /\ buf \in Arrays /\ count \in Counts
  BY <1>3, <1>t, ExactTypes DEF TypeOK
<1> HIDE DEF b, n
<1>5. /\ n < Cap => buf'[b][n].count = count
      /\ Agree(buf[b], buf'[b], n)
  <2>1. CASE n < Cap
    <3> DEFINE s == [buf[b][n] EXCEPT !.count = count]
    <3>1. n \in Entries
      BY <1>4, <2>1, BufferAssumption DEF Entries
    <3>2. buf[b][n] \in Samples
      BY <1>4, <3>1 DEF Arrays
    <3>3. s \in Samples /\ s.count = count
      BY <1>4, <3>2 DEF Samples
    <3>4. buf' = [buf EXCEPT ![b][n].count = count]
      BY <1>3, <2>1 DEF Store
    <3>5. buf' = [buf EXCEPT ![b][n] = s]
      BY <1>4, <3>1, <3>4 DEF Arrays
    <3> HIDE DEF s
    <3>6. buf'[b][n] = s /\ \A j \in Entries : j # n => buf'[b][j] = buf[b][j]
      <4>1. StoredAt(buf', buf, b, n, s)
        BY <1>4, <3>1, <3>3, <3>5, StoredSample, Zenon
      <4>2. QED
        BY <4>1, Zenon DEF StoredAt
    <3>7. \A j \in Entries : j < n => j # n
      BY <1>4 DEF Entries
    <3>8. QED
      BY <3>3, <3>6, <3>7, Zenon DEF Agree
  <2>2. CASE ~(n < Cap)
    BY <1>3, <2>2, ZenonT(30) DEF Store, Agree
  <2>3. QED
    BY <2>1, <2>2, Zenon
<1>6. Sampling'
  BY <1>1, <1>2, <1>3, <1>5 DEF Sampling, Holding, b, n
<1>7. Collected'
  <2>1. ~Quiet' /\ Holding(p) /\ Holding(p)'
    BY <1>1, <1>2 DEF Holding, Quiet
  <2>2. SUFFICES ASSUME tpc = "idle", period >= 1
                 PROVE  Counted(buf'[b], mark, since, clock, area, n)
    BY <1>1, <2>1, Zenon DEF Collected, b, n
  <2>3. Counted(buf[b], mark, since, clock, area, n)
    BY <1>t, <2>1, <2>2, Zenon DEF Collected, b, n
  <2>4. QED
    BY <1>4, <1>5, <2>3, CountedAgree, Zenon
<1>8. HistoryTypes'
  BY <1>t DEF HistoryTypes
<1>9. QED
  BY <1>2, <1>6, <1>7, <1>8

\* The second word: the entry joins the chain.
LEMMA ExactStoreTs ==
  ASSUME ExactInv, TypeOK', NEW p \in Pcpus, StoreTs(p),
         mark' = Marked(sidx[p], area), UNCHANGED <<area, since>>
  PROVE  HistoryTypes' /\ Alone' /\ Sampling' /\ Closing' /\ Collected' /\ Ending'
         /\ Averaged'
<1>t. TypeOK /\ HistoryTypes /\ Alone /\ Sampling /\ Collected
  BY DEF ExactInv
<1>1. /\ UNCHANGED <<tpc, period, collecting, index, clock, count>>
      /\ spc[p] = "store_ts" /\ spc' = [spc EXCEPT ![p] = "idle"]
  BY <1>t DEF StoreTs, SamplerStep, timerVars
<1>2. /\ tpc = "idle" /\ spc'[p] = "idle"
      /\ \A q \in Pcpus : q # p => spc[q] = "idle" /\ spc'[q] = "idle"
      /\ Alone' /\ Closing' /\ Ending' /\ Averaged'
  BY <1>1, <1>t, SamplerAlone, Zenon
<1>s. Sampling'
  BY <1>2, NoSampler, Zenon
<1> DEFINE b == collecting
           n == index[collecting] - 1
<1>3. /\ sbuf[p] = b /\ sidx[p] = n /\ sstamp[p] = clock
      /\ n < Cap => buf[b][n].count = count
  BY <1>1, <1>t DEF Sampling, Holding
<1>4. /\ n \in Nat /\ b \in Buffers /\ buf \in Arrays
      /\ index[b] \in Nat /\ index[b] = n + 1
      /\ index[b] - 1 = n /\ clock \in Nat /\ buf[b] \in Array /\ buf'[b] \in Array
      /\ area \in Nat /\ mark \in [Entries -> Nat]
  <2>1. n \in Nat
    BY <1>3, <1>t DEF TypeOK
  <2>2. /\ b \in Buffers /\ buf \in Arrays /\ index[b] \in Nat /\ clock \in Nat
        /\ buf[b] \in Array /\ area \in Nat /\ mark \in [Entries -> Nat]
    BY <1>t, ExactTypes, Zenon DEF HistoryTypes
  <2>3. buf'[b] \in Array
    BY <2>2, Zenon DEF TypeOK, Array
  <2>4. index[b] = n + 1
    BY <2>2
  <2>5. QED
    BY <2>1, <2>2, <2>3, <2>4, Zenon
<1>5. HistoryTypes'
  <2>1. CASE n < Cap
    <3>1. mark' = [mark EXCEPT ![n] = area]
      BY <1>3, <2>1, Zenon DEF Marked
    <3>2. QED
      BY <1>4, <1>t, <3>1, Zenon DEF HistoryTypes
  <2>2. CASE ~(n < Cap)
    BY <1>3, <1>t, <2>2, Zenon DEF HistoryTypes, Marked
  <2>3. QED
    BY <2>1, <2>2, Zenon
<1> HIDE DEF b, n
<1>6. ASSUME n < Cap
      PROVE  /\ n \in Entries /\ mark' = [mark EXCEPT ![n] = area]
             /\ buf'[b][n].count = count /\ buf'[b][n].ts = clock
             /\ Agree(buf[b], buf'[b], n)
  <2> DEFINE s == [buf[b][n] EXCEPT !.ts = clock, !.of = swritten[p]]
  <2>1. n \in Entries
    BY <1>4, <1>6, BufferAssumption DEF Entries
  <2>2. buf[b][n] \in Samples
    BY <1>4, <2>1 DEF Arrays
  <2>3. s \in Samples /\ s.count = count /\ s.ts = clock
    <3>1. clock \in 0 .. MaxTime /\ swritten[p] \in 0 .. MaxPeriod + 1
      BY <1>t DEF TypeOK
    <3>2. QED
      BY <1>3, <1>6, <2>2, <3>1, Zenon DEF Samples
  <2>5. buf' = [buf EXCEPT ![b][n] = s]
    BY <1>3, <1>4, <1>6, <2>1 DEF StoreTs, Arrays
  <2> HIDE DEF s
  <2>6. buf'[b][n] = s /\ \A j \in Entries : j # n => buf'[b][j] = buf[b][j]
    <3>1. StoredAt(buf', buf, b, n, s)
      BY <1>4, <2>1, <2>3, <2>5, StoredSample, Zenon
    <3>2. QED
      BY <3>1, Zenon DEF StoredAt
  <2>7. \A j \in Entries : j < n => j # n
    BY <1>4 DEF Entries
  <2>8. mark' = [mark EXCEPT ![n] = area]
    BY <1>3, <1>6, Zenon DEF Marked
  <2>9. QED
    BY <2>1, <2>3, <2>6, <2>7, <2>8, Zenon DEF Agree
<1>7. Collected'
  <2>1. Holding(p) /\ \A q \in Pcpus : ~Holding(q)'
    BY <1>1, <1>2 DEF Holding
  <2>2. SUFFICES ASSUME tpc = "idle", period >= 1
                 PROVE  /\ Counted(buf'[b], mark', since, clock, area, index[b])
                        /\ index[b] <= Cap => buf'[b][index[b] - 1].count = count
    BY <1>1, <2>1, Zenon DEF Collected, b
  <2>3. Counted(buf[b], mark, since, clock, area, n)
    BY <1>t, <2>1, <2>2, Zenon DEF Collected, b, n
  <2>4. CASE n < Cap
    <3>1. Counted(buf'[b], [mark EXCEPT ![n] = area], since, clock, area, n + 1)
      BY <1>4, <1>6, <2>3, <2>4, CountedExtend, Zenon
    <3>2. QED
      BY <1>4, <1>6, <2>4, <3>1, Zenon
  <2>5. CASE ~(n < Cap)
    <3>1. ~(index[b] <= Cap) /\ index[b] >= 1
      BY <1>4, <2>5, BufferAssumption
    <3>2. QED
      BY <3>1, Zenon DEF Counted
  <2>6. QED
    BY <2>4, <2>5, Zenon
<1>8. QED
  BY <1>2, <1>5, <1>7, <1>s

\* The callback begins when all is quiet, and no sampler moves until it ends.
LEMMA CallbackAlone ==
  ASSUME Alone, tpc # "idle" \/ Quiet, spc' = spc
  PROVE  Alone' /\ Sampling' /\ \A p \in Pcpus : spc[p] = "idle" /\ spc'[p] = "idle"
<1>1. \A p \in Pcpus : spc[p] = "idle" /\ spc'[p] = "idle"
  BY Zenon DEF Alone, Quiet
<1>2. QED
  BY <1>1, NoSampler, Zenon

\* The callback finds all quiet.
LEMMA ExactTimerEnd ==
  ASSUME ExactInv, Quiet, TimerEnd, UNCHANGED <<area, since, mark>>
  PROVE  HistoryTypes' /\ Alone' /\ Sampling' /\ Closing' /\ Collected' /\ Ending'
         /\ Averaged'
<1>t. TypeOK /\ HistoryTypes /\ Alone /\ Collected
  BY DEF ExactInv
<1>1. /\ UNCHANGED <<buf, collecting, index, clock, count, spc>>
      /\ tpc = "idle" /\ tpc' = "start" /\ period' = period + 1 /\ end'.ts = clock
  BY DEF TimerEnd, TimerStep, samplerVars
<1>2. Alone' /\ Sampling' /\ \A p \in Pcpus : ~Holding(p)
  BY <1>1, <1>t, CallbackAlone DEF Holding
<1>3. Closing' /\ Collected' /\ Averaged'
  BY <1>1 DEF Closing, Collected, Averaged
<1>4. period' >= 2 => period >= 1
  BY <1>1, <1>t, ExactTypes
<1>5. Ending'
  BY <1>1, <1>2, <1>4, <1>t DEF Ending, Collected
<1>6. QED
  BY <1>2, <1>3, <1>5, <1>t DEF HistoryTypes

\* count_start is taken at the same time as count_end.
LEMMA ExactTimerStart ==
  ASSUME ExactInv, TimerStart, UNCHANGED <<area, since, mark>>
  PROVE  HistoryTypes' /\ Alone' /\ Sampling' /\ Closing' /\ Collected' /\ Ending'
         /\ Averaged'
<1>t. HistoryTypes /\ Alone /\ Closing /\ Ending
  BY DEF ExactInv
<1>1. /\ UNCHANGED <<buf, collecting, index, clock, count, spc, period, end>>
      /\ tpc = "start" /\ tpc' = "open" /\ start'.count = count /\ start'.ts = clock
  BY DEF TimerStart, TimerStep, samplerVars
<1>2. Alone' /\ Sampling'
  BY <1>1, <1>t, CallbackAlone, Zenon
<1>3. Closing' /\ Collected' /\ Averaged'
  BY <1>1, <1>t DEF Closing, Collected, Averaged
<1>4. Ending'
  BY <1>1, <1>t DEF Ending
<1>5. QED
  BY <1>2, <1>3, <1>4, <1>t DEF HistoryTypes

\* Opening the other buffer leaves the chain alone.
LEMMA ExactOpenBuffer ==
  ASSUME ExactInv, OpenBuffer, UNCHANGED <<area, since, mark>>
  PROVE  HistoryTypes' /\ Alone' /\ Sampling' /\ Closing' /\ Collected' /\ Ending'
         /\ Averaged'
<1>t. TypeOK /\ HistoryTypes /\ Alone /\ Closing /\ Ending
  BY DEF ExactInv
<1> DEFINE f == Filling
<1>1. /\ UNCHANGED <<collecting, clock, count, spc, period, end>> /\ Filling' = f
      /\ tpc = "open" /\ tpc' = "flip"
      /\ buf' = [buf EXCEPT ![f][0] = start] /\ index' = [index EXCEPT ![f] = 1]
  BY DEF OpenBuffer, TimerStep, samplerVars, Filling
<1>2. /\ f \in Buffers /\ collecting \in Buffers /\ f # collecting /\ buf \in Arrays
      /\ index \in [Buffers -> Nat] /\ start \in Samples
  BY <1>t, ExactTypes, Zenon DEF TypeOK
<1> HIDE DEF f
<1>3. 0 \in Entries
  BY BufferAssumption DEF Entries
<1>4. StoredAt(buf', buf, f, 0, start)
  BY <1>1, <1>2, <1>3, StoredSample, Zenon
<1>5. /\ index'[f] = 1 /\ index'[collecting] = index[collecting]
      /\ buf'[f][0] = start /\ buf'[collecting] = buf[collecting]
  BY <1>1, <1>2, <1>4, Zenon DEF StoredAt
<1>6. Alone' /\ Sampling'
  BY <1>1, <1>t, CallbackAlone, Zenon
<1>7. Closing' /\ Collected' /\ Averaged'
  BY <1>1, <1>5, <1>t DEF Closing, Collected, Averaged, OpenedNow
<1>8. Ending'
  BY <1>1, <1>5, <1>t DEF Ending
<1>9. QED
  BY <1>6, <1>7, <1>8, <1>t DEF HistoryTypes

\* The flip exchanges the names of the buffers.
LEMMA ExactFlip ==
  ASSUME ExactInv, Flip, UNCHANGED <<area, since, mark>>
  PROVE  HistoryTypes' /\ Alone' /\ Sampling' /\ Closing' /\ Collected' /\ Ending'
         /\ Averaged'
<1>t. TypeOK /\ HistoryTypes /\ Alone /\ Closing /\ Ending
  BY DEF ExactInv
<1>1. /\ UNCHANGED <<buf, index, clock, count, spc, period, end>>
      /\ tpc = "flip" /\ tpc' = "close" /\ collecting' = Filling
  BY DEF Flip, TimerStep, samplerVars
<1>2. Filling' = collecting
  BY <1>1, <1>t DEF Filling, TypeOK, Buffers
<1>3. Alone' /\ Sampling'
  BY <1>1, <1>t, CallbackAlone, Zenon
<1>4. Closing' /\ Collected' /\ Averaged'
  <2>1. OpenedNow(Filling) /\ OpenedNow(collecting)'
    BY <1>1, <1>t DEF Closing, OpenedNow
  <2>2. QED
    BY <1>1, <1>t, <2>1 DEF Closing, Collected, Averaged
<1>5. Ending'
  BY <1>1, <1>2, <1>t DEF Ending
<1>6. QED
  BY <1>3, <1>4, <1>5, <1>t DEF HistoryTypes

\* count_end completes the chain, unless the buffer is full.
LEMMA ExactCloseBuffer ==
  ASSUME ExactInv, TypeOK', CloseBuffer, mark' = Marked(index[Filling], area),
         UNCHANGED <<area, since>>
  PROVE  HistoryTypes' /\ Alone' /\ Sampling' /\ Closing' /\ Collected' /\ Ending'
         /\ Averaged'
<1>t. TypeOK /\ HistoryTypes /\ Alone /\ Closing /\ Ending
  BY DEF ExactInv
<1> DEFINE f == Filling
           n == index[f]
<1>1. /\ UNCHANGED <<collecting, clock, count, spc, period>> /\ Filling' = f
      /\ tpc = "close" /\ tpc' = "average"
      /\ buf' = IF n < Cap THEN [buf EXCEPT ![f][n] = end] ELSE buf
      /\ index' = [index EXCEPT ![f] = @ + 1] /\ nbSamples' = n
      /\ k' = 0 /\ sum' = 0 /\ total' = 0
      /\ mark' = IF n < Cap THEN [mark EXCEPT ![n] = area] ELSE mark
  BY DEF CloseBuffer, TimerStep, samplerVars, Filling, Marked
<1>2. /\ f \in Buffers /\ collecting \in Buffers /\ f # collecting /\ buf \in Arrays
      /\ index \in [Buffers -> Nat] /\ end \in Samples /\ n \in Nat /\ clock \in Nat
      /\ buf[f] \in Array /\ area \in Nat /\ since \in Nat /\ mark \in [Entries -> Nat]
  BY <1>t, ExactTypes, Zenon DEF TypeOK, HistoryTypes
<1> HIDE DEF f, n
<1>3. n < Cap => n \in Entries
  BY <1>2, BufferAssumption DEF Entries
<1>4. HistoryTypes'
  <2>1. CASE n < Cap
    BY <1>1, <1>2, <1>3, <2>1, Zenon DEF HistoryTypes
  <2>2. CASE ~(n < Cap)
    BY <1>1, <1>2, <2>2, Zenon DEF HistoryTypes
  <2>3. QED
    BY <2>1, <2>2, Zenon
<1>5. n < Cap => StoredAt(buf', buf, f, n, end)
  BY <1>1, <1>2, <1>3, StoredSample, Zenon
<1>6. index'[collecting] = index[collecting] /\ buf'[collecting] = buf[collecting]
  BY <1>1, <1>2, <1>5, Zenon DEF StoredAt
<1>7. Alone' /\ Sampling'
  BY <1>1, <1>t, CallbackAlone, Zenon
<1>8. Closing' /\ Collected' /\ Ending'
  <2>1. OpenedNow(collecting) /\ OpenedNow(collecting)'
    BY <1>1, <1>6, <1>t DEF Closing, OpenedNow
  <2>2. QED
    BY <1>1, <2>1 DEF Closing, Collected, Ending
<1>9. Averaged'
  <2>1. SUFFICES ASSUME period >= 2, n < Cap
                 PROVE  /\ Chain(buf'[f], mark', since, n + 1)
                        /\ buf'[f][n].ts = clock /\ mark'[n] = area
                        /\ 0 <= n /\ 0 = mark'[0] /\ 0 = buf'[f][0].ts - since
    BY <1>1 DEF Averaged
  <2>2. Counted(buf[f], mark, since, clock, area, n)
    BY <1>1, <1>t, <2>1 DEF Ending, f, n
  <2>3. n \in Entries /\ StoredAt(buf', buf, f, n, end) /\ mark' = [mark EXCEPT ![n] = area]
    BY <1>1, <1>3, <1>5, <2>1, Zenon
  <2>4. buf'[f] \in Array
    BY <1>2, Zenon DEF TypeOK, Array
  <2>5. \A j \in Entries : j < n => j # n
    BY <1>2 DEF Entries
  <2>6. Agree(buf[f], buf'[f], n) /\ buf'[f][n] = end
    BY <2>3, <2>5, Zenon DEF Agree, StoredAt
  <2>7. end.ts = clock
    BY <1>1, <1>t DEF Closing
  <2>8. Chain(buf'[f], mark', since, n + 1) /\ mark'[n] = area
    <3>1. Chain(buf'[f], [mark EXCEPT ![n] = area], since, n + 1)
      <4>1. buf'[f][n].ts = clock
        BY <2>6, <2>7, Zenon
      <4>2. QED
        BY <1>2, <2>2, <2>3, <2>4, <2>6, <4>1, ChainExtend, Zenon
    <3>2. [mark EXCEPT ![n] = area][n] = area
      BY <1>2, <2>3, Zenon
    <3>3. QED
      BY <2>3, <3>1, <3>2, Zenon
  <2>9. mark'[0] = 0 /\ buf'[f][0].ts = since
    BY <2>8, Zenon DEF Chain
  <2>10. QED
    BY <1>2, <2>6, <2>7, <2>8, <2>9
<1>10. QED
  BY <1>4, <1>7, <1>8, <1>9

\* One interval more: the sum moves from one mark to the next.
LEMMA ExactAverageEntry ==
  ASSUME ExactInv, AverageEntry, UNCHANGED <<area, since, mark>>
  PROVE  HistoryTypes' /\ Alone' /\ Sampling' /\ Closing' /\ Collected' /\ Ending'
         /\ Averaged'
<1>t. TypeOK /\ HistoryTypes /\ Alone /\ Closing /\ Averaged
  BY DEF ExactInv
<1> DEFINE e == buf[Filling]
<1>1. /\ UNCHANGED <<buf, collecting, index, clock, count, spc, period, nbSamples>>
      /\ tpc = "average" /\ tpc' = "average" /\ k < nbSamples /\ k + 1 < Cap
      /\ k' = k + 1 /\ Filling' = Filling
      /\ ~(e[k + 1].ts < e[k].ts) =>
           /\ sum' = sum + e[k].count * (e[k + 1].ts - e[k].ts)
           /\ total' = total + (e[k + 1].ts - e[k].ts)
  BY Zenon DEF AverageEntry, TimerStep, samplerVars, Filling
<1>2. Alone' /\ Sampling'
  BY <1>1, <1>t, CallbackAlone, ZenonT(30)
<1>3. Closing' /\ Collected' /\ Ending'
  BY <1>1, <1>t, Zenon DEF Closing, Collected, Ending, OpenedNow
<1>4. Averaged'
  <2>1. SUFFICES ASSUME period >= 2, nbSamples < Cap
                 PROVE  /\ Chain(e, mark, since, nbSamples + 1)
                        /\ e[nbSamples].ts = clock /\ mark[nbSamples] = area
                        /\ k + 1 <= nbSamples /\ sum' = mark[k + 1]
                        /\ total' = e[k + 1].ts - since
    BY <1>1 DEF Averaged
  <2>2. /\ Chain(e, mark, since, nbSamples + 1)
        /\ e[nbSamples].ts = clock /\ mark[nbSamples] = area
        /\ sum = mark[k] /\ total = e[k].ts - since
    BY <1>1, <1>t, <2>1 DEF Averaged
  <2>3. /\ k \in Entries /\ k + 1 \in Entries /\ k \in 0 .. (nbSamples + 1) - 2
        /\ k + 1 <= nbSamples
    BY <1>1, <1>t, BufferAssumption DEF TypeOK, Entries
  <2>4. e \in Array /\ since \in Nat
    BY <1>t, ExactTypes, Zenon DEF HistoryTypes
  <2>5. e[k].ts \in Nat /\ e[k + 1].ts \in Nat
    BY <2>3, <2>4, SampleParts, Zenon
  <2>6. /\ e[k].ts <= e[k + 1].ts
        /\ mark[k + 1] = mark[k] + e[k].count * (e[k + 1].ts - e[k].ts)
    BY <2>2, <2>3, Zenon DEF Chain
  <2> HIDE DEF e
  <2>7. ~(e[k + 1].ts < e[k].ts)
    BY <2>5, <2>6
  <2>8. sum' = mark[k + 1] /\ total' = total + (e[k + 1].ts - e[k].ts)
    BY <1>1, <2>2, <2>6, <2>7, Zenon
  <2>9. total' = e[k + 1].ts - since
    BY <2>2, <2>4, <2>5, <2>8
  <2>10. QED
    BY <2>2, <2>3, <2>8, <2>9, ZenonT(30)
<1>5. QED
  BY <1>2, <1>3, <1>4, <1>t DEF HistoryTypes

\* At count_end the sum is the whole integral.
LEMMA ExactAverage ==
  ASSUME ExactInv, Average, UNCHANGED <<area, since, mark>>
  PROVE  HistoryTypes' /\ Alone' /\ Sampling' /\ Closing' /\ Collected' /\ Ending'
         /\ Averaged'
<1>t. TypeOK /\ HistoryTypes /\ Alone /\ Closing /\ Averaged
  BY DEF ExactInv
<1>1. /\ UNCHANGED <<buf, collecting, index, clock, count, spc, period, nbSamples, k,
                     sum, total>>
      /\ tpc = "average" /\ tpc' = "done" /\ (k >= nbSamples \/ k + 1 >= Cap)
      /\ avg' = (IF total > 0 THEN sum \div total ELSE 0) /\ Filling' = Filling
  BY DEF Average, TimerStep, samplerVars, Filling
<1>2. Alone' /\ Sampling'
  BY <1>1, <1>t, CallbackAlone, ZenonT(30)
<1>3. Closing' /\ Collected' /\ Ending'
  BY <1>1, <1>t DEF Closing, Collected, Ending, OpenedNow
<1>4. nbSamples < Cap /\ k <= nbSamples => k = nbSamples
  BY <1>1, <1>t, BufferAssumption DEF TypeOK
<1>5. Averaged'
  <2>1. SUFFICES ASSUME period >= 2, nbSamples < Cap
                 PROVE  /\ Chain(buf[Filling], mark, since, nbSamples + 1)
                        /\ buf[Filling][nbSamples].ts = clock /\ mark[nbSamples] = area
                        /\ k <= nbSamples /\ sum = mark[k]
                        /\ total = buf[Filling][k].ts - since /\ k = nbSamples
    BY <1>1, Zenon DEF Averaged
  <2>2. QED
    BY <1>1, <1>4, <1>t, <2>1 DEF Averaged
<1>6. QED
  BY <1>2, <1>3, <1>5, <1>t DEF HistoryTypes

\* A new period begins with count_start as its only entry.
LEMMA ExactTimerReturn ==
  ASSUME ExactInv, TimerReturn, area' = 0, since' = clock, mark' = Marked(0, 0)
  PROVE  HistoryTypes' /\ Alone' /\ Sampling' /\ Closing' /\ Collected' /\ Ending'
         /\ Averaged'
<1>t. TypeOK /\ HistoryTypes /\ Alone /\ Closing
  BY DEF ExactInv
<1>1. /\ UNCHANGED <<buf, collecting, index, clock, count, spc>>
      /\ tpc = "done" /\ tpc' = "idle"
  BY DEF TimerReturn, TimerStep, samplerVars
<1>2. 0 \in Entries /\ mark' = [mark EXCEPT ![0] = 0]
  BY BufferAssumption DEF Entries, Marked
<1>3. mark' \in [Entries -> Nat] /\ mark'[0] = 0
  BY <1>2, <1>t DEF HistoryTypes
<1>4. buf[collecting] \in Array /\ clock \in Nat
  BY <1>t, ExactTypes, Zenon
<1>5. HistoryTypes'
  BY <1>3, <1>4 DEF HistoryTypes
<1>6. Alone' /\ Sampling' /\ \A p \in Pcpus : spc'[p] = "idle"
  BY <1>1, <1>t, CallbackAlone, Zenon
<1>7. Closing' /\ Ending' /\ Averaged'
  BY <1>1, NoCallback, Zenon
<1>8. OpenedNow(collecting)
  BY <1>1, <1>t DEF Closing
<1>9. Counted(buf[collecting], mark', clock, clock, 0, 1)
  BY <1>3, <1>4, <1>8, CountedFirst, Zenon DEF OpenedNow
<1>10. index[collecting] = 1 /\ index[collecting] - 1 = 0
       /\ buf[collecting][0].count = count
  BY <1>8 DEF OpenedNow
<1>11. \A p \in Pcpus : ~Holding(p)'
  BY <1>6 DEF Holding
<1>12. Collected'
  BY <1>1, <1>9, <1>10, <1>11, Zenon DEF Collected
<1>13. QED
  BY <1>5, <1>6, <1>7, <1>12

\* A behaviour without overlap is a behaviour of SampleBuffers.
LEMMA ExactIsNext == [ExactNext]_exactVars => [Next]_vars
<1>1. ExactNext => Next
  BY Zenon DEF ExactNext, Between, Next, Sampler, TimerRest
<1>2. QED
  BY <1>1 DEF exactVars

\* So every step keeps the invariant.
LEMMA ExactStep == ExactInv /\ [ExactNext]_exactVars => ExactInv'
<1> SUFFICES ASSUME ExactInv, [ExactNext]_exactVars PROVE ExactInv'
  OBVIOUS
<1>1. TypeOK'
  BY TypeNext, ExactIsNext DEF ExactInv
<1> DEFINE Rest == /\ HistoryTypes /\ Alone /\ Sampling /\ Closing /\ Collected
                   /\ Ending /\ Averaged
<1>2. SUFFICES Rest'
  BY <1>1, Zenon DEF ExactInv
<1>3. ASSUME UNCHANGED exactVars PROVE Rest'
  <2>1. UNCHANGED <<clock, count, collecting, index, buf, spc, sbuf, sidx, scount,
                    sstamp, tpc, end, start, nbSamples, k, sum, total, avg, period,
                    area, since, mark>>
    BY <1>3, Zenon DEF exactVars, vars, samplerVars, timerVars
  <2>2. \A p \in Pcpus : Holding(p)' <=> Holding(p)
    BY <2>1, Zenon DEF Holding
  <2>3. Filling' = Filling /\ (Quiet' <=> Quiet)
    BY <2>1, Zenon DEF Filling, Quiet
  <2>4. HistoryTypes' /\ Alone' /\ Sampling'
    BY <2>1, <2>2, Zenon DEF ExactInv, HistoryTypes, Alone, Sampling
  <2>5. Collected'
    BY <2>1, <2>2, <2>3, CollectedSame, Zenon DEF ExactInv
  <2>6. Closing' /\ Ending' /\ Averaged'
    BY <2>1, <2>3, Zenon DEF ExactInv, Closing, Ending, Averaged, OpenedNow
  <2>7. QED
    BY <2>4, <2>5, <2>6
<1>4. ASSUME Between, UNCHANGED <<area, since, mark>> PROVE Rest'
  BY <1>1, <1>4, ExactCount, ExactReadFlag, ExactReserve, ExactStamp, ExactStore,
     ExactTimerEnd, ExactTimerStart, ExactOpenBuffer, ExactFlip, ExactAverageEntry,
     ExactAverage, Zenon DEF Between
<1>5. QED
  BY <1>1, <1>3, <1>4, ExactAdvance, ExactStoreTs, ExactCloseBuffer,
     ExactTimerReturn, Zenon DEF ExactNext

\* Which says of a finished average what is to be shown.
LEMMA ExactNow == ExactInv => AverageExact
<1> SUFFICES ASSUME ExactInv, tpc = "done", period > 1, nbSamples < Cap
             PROVE  /\ sum = area /\ total = clock - since
                    /\ avg = IF clock > since THEN area \div (clock - since) ELSE 0
  BY DEF AverageExact
<1>1. period >= 2 /\ clock \in Nat /\ since \in Nat
  BY ExactTypes DEF ExactInv, HistoryTypes
<1>2. /\ buf[Filling][nbSamples].ts = clock /\ mark[nbSamples] = area
      /\ sum = mark[k] /\ total = buf[Filling][k].ts - since
      /\ k = nbSamples /\ avg = IF total > 0 THEN sum \div total ELSE 0
  BY <1>1 DEF ExactInv, Averaged
<1>3. sum = area /\ total = clock - since
  BY <1>2, Zenon
<1>4. total > 0 <=> clock > since
  BY <1>1, <1>3
<1>5. QED
  BY <1>2, <1>3, <1>4, Zenon

\* Where sampler and callback do not overlap, phantom_average computes the time
\* integral of phantom_count over the whole period, divided by its length.
THEOREM AverageIsExact == ExactSpec => []AverageExact
<1>1. ExactSpec => ExactInit /\ [][ExactNext]_exactVars
  BY DEF ExactSpec, exactVars
<1>2. QED
  BY <1>1, ExactInitial, ExactStep, ExactNow, PTL

=============================================================================
