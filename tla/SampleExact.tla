---------------------------- MODULE SampleExact ----------------------------
(***************************************************************************)
(* SampleBuffers without overlap: a sampler or a callback that has begun   *)
(* finishes before anything else happens, the clock included.  In these    *)
(* behaviours the average has an exact reference value, the time integral  *)
(* of phantom_count over the period.                                       *)
(***************************************************************************)
EXTENDS SampleBuffers

VARIABLES
  area,  \* history: integral of phantom_count since the period began
  since, \* history: when the period began
  mark   \* history: mark[i]: area when entry i of the period was stored

Quiet == tpc = "idle" /\ \A p \in Pcpus : spc[p] = "idle"

Marked(i, a) == IF i < Cap THEN [mark EXCEPT ![i] = a] ELSE mark

ExactInit == Init /\ area = 0 /\ since = 0 /\ mark = [i \in Entries |-> 0]

\* The steps that neither take time nor end an entry.
Between ==
  \/ Quiet /\ \E p \in Pcpus, n \in Counts : Count(p, n)
  \/ Quiet /\ TimerEnd
  \/ \E p \in Pcpus : ReadFlag(p) \/ Reserve(p) \/ Stamp(p) \/ Store(p)
  \/ TimerStart \/ OpenBuffer \/ Flip \/ AverageEntry \/ Average

ExactNext ==
  \/ Quiet /\ Advance /\ area' = area + count /\ UNCHANGED <<since, mark>>
  \/ Between /\ UNCHANGED <<area, since, mark>>
  \/ /\ \/ \E p \in Pcpus : StoreTs(p) /\ mark' = Marked(sidx[p], area)
        \/ CloseBuffer /\ mark' = Marked(index[Filling], area)
     /\ UNCHANGED <<area, since>>
  \/ TimerReturn /\ area' = 0 /\ since' = clock /\ mark' = Marked(0, 0)

ExactSpec == ExactInit /\ [][ExactNext]_<<vars, area, since, mark>>

\* phantom_average is the time-weighted average: every period but the first
\* (whose buffer has no count_start) and up to the capacity of the buffer, the
\* callback's sum is the integral of phantom_count over the whole period, its
\* total the length of the period, and the result their quotient.
AverageExact ==
  tpc = "done" /\ period > 1 /\ nbSamples < Cap =>
    /\ sum = area
    /\ total = clock - since
    /\ avg = IF clock > since THEN area \div (clock - since) ELSE 0

=============================================================================
