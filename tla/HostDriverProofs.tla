-------------------------- MODULE HostDriverProofs --------------------------
(***************************************************************************)
(* Proofs about host_ivshmem.ko, for any number of callers, VMs and slots: *)
(* the accounting of next_vm_id and the backends (HostRegistry), and what  *)
(* a guest finds in the host-to-guest page (H2GChannel).                   *)
(*                                                                         *)
(* The two share neither variables nor constants.                          *)
(***************************************************************************)
EXTENDS HostRegistry, H2GChannel, FiniteSetTheorems, TLAPS

-----------------------------------------------------------------------------
(* The host-to-guest page.                                                 *)

\* The types the arguments need.
ChannelTypes ==
  /\ page \in [0 .. NrMsgs - 1 -> Messages]
  /\ cursor \in [Vms -> 0 .. CursorMod - 1]
  /\ index \in -1 .. NrMsgs - 1
  /\ pending \in [Writers -> Messages]
  /\ stamp \in 0 .. MaxStamp
  /\ last \in [Writers -> Messages]
  /\ age \in [Vms -> [History -> Nat]]

\* A message of slot 0, or on its way to it, is in its history slot or has
\* been replaced there by a later one.
InHistory(m) ==
  m # Zero => m.slot \in History /\ page[m.slot].stamp >= m.stamp

LatestInv ==
  /\ \A i \in 0 .. NrMsgs - 1 : page[i].stamp <= stamp
  /\ InHistory(page[0])
  /\ \A w \in Writers : InHistory(pending[w])

\* A pending message is its writer's last; once messages were sent, slot 0 has
\* a last one or is about to be stored.
LastInv ==
  /\ \A w \in Writers : pending[w] # Zero => pending[w] = last[w]
  /\ stamp > 0 => \E w \in Writers :
                    page[0] = last[w] \/ pending[w] # Zero

(* The page is there to be indexed.                                        *)
LEMMA PageSlots ==
  /\ NrMsgs \in Nat /\ 0 \in 0 .. NrMsgs - 1 /\ MaxStamp \in Nat
  /\ \A i \in History : i \in 0 .. NrMsgs - 1 /\ i # 0
  /\ Zero \in Messages
BY ChannelAssumption DEF Zero, Messages, History,
       HistorySlotCount, FirstHistorySlot

\* The page of a new backend is empty.
LEMMA ChannelInitial ==
  ASSUME ChannelInit
  PROVE  ChannelTypes /\ LatestInv /\ LastInv
<1>1. ChannelTypes
  BY PageSlots, ChannelAssumption DEF ChannelInit, ChannelTypes,
     HistorySlotCount, FirstHistorySlot
<1>2. LatestInv /\ LastInv
  BY PageSlots DEF ChannelInit, LatestInv, LastInv, InHistory, Zero
<1> QED BY <1>1, <1>2

\* What host_ivshmem_h2g_write_msg does with a message it accepts.
Writes(w, i, m) ==
  /\ i \in History
  /\ m \in Messages /\ m.slot = i /\ m.stamp = stamp + 1
  /\ page' = [page EXCEPT ![i] = m]
  /\ pending' = [pending EXCEPT ![w] = m]
  /\ last' = [last EXCEPT ![w] = m]
  /\ stamp' = stamp + 1 /\ stamp' \in 0 .. MaxStamp

\* It accepts a message or leaves everything alone.
LEMMA WriteCases ==
  ASSUME ChannelTypes,
         NEW w \in Writers, NEW i \in 0 .. NrMsgs - 1,
         NEW by \in Vms \cup {"none"}, H2gWrite(w, i, by)
  PROVE  \/ UNCHANGED <<page, pending, last, stamp>>
         \/ /\ Accepted(i)
            /\ \E m : Writes(w, i, m)
<1>1. CASE ~Accepted(i)
  BY <1>1 DEF H2gWrite
<1>2. CASE Accepted(i)
  <2> DEFINE m == [by |-> by, stamp |-> stamp + 1, slot |-> i]
  <2>1. i \in History
    BY <1>2 DEF Accepted, History, LatestSlot,
                FirstHistorySlot
  <2>2. stamp \in Nat /\ stamp < MaxStamp /\ MaxStamp \in Nat
    BY PageSlots DEF H2gWrite, ChannelTypes
  <2>3. m \in Messages /\ m.slot = i /\ m.stamp = stamp + 1
    BY <2>2 DEF Messages
  <2>4. /\ page' = [page EXCEPT ![i] = m]
        /\ pending' = [pending EXCEPT ![w] = m]
        /\ last' = [last EXCEPT ![w] = m]
        /\ stamp' = stamp + 1
    BY <1>2 DEF H2gWrite
  <2> HIDE DEF m
  <2>5. Writes(w, i, m)
    BY <2>1, <2>2, <2>3, <2>4 DEF Writes
  <2> QED BY <1>2, <2>5
<1> QED BY <1>1, <1>2

(* A write keeps the history ahead of slot 0, and slot 0 up to date.       *)
LEMMA WriteKeeps ==
  ASSUME ChannelTypes, LatestInv, LastInv,
         NEW w \in Writers, NEW i \in 0 .. NrMsgs - 1,
         NEW by \in Vms \cup {"none"}, H2gWrite(w, i, by)
  PROVE  /\ page' \in [0 .. NrMsgs - 1 -> Messages]
         /\ pending' \in [Writers -> Messages]
         /\ last' \in [Writers -> Messages]
         /\ stamp' \in 0 .. MaxStamp
         /\ LatestInv' /\ LastInv'
<1>1. CASE UNCHANGED <<page, pending, last, stamp>>
  BY <1>1 DEF ChannelTypes, LatestInv, LastInv, InHistory
<1>2. ASSUME NEW m, Writes(w, i, m)
      PROVE  /\ page' \in [0 .. NrMsgs - 1 -> Messages]
             /\ pending' \in [Writers -> Messages]
             /\ last' \in [Writers -> Messages]
             /\ stamp' \in 0 .. MaxStamp
             /\ LatestInv' /\ LastInv'
  <2>1. /\ page' \in [0 .. NrMsgs - 1 -> Messages]
        /\ pending' \in [Writers -> Messages]
        /\ last' \in [Writers -> Messages]
        /\ stamp' \in 0 .. MaxStamp
    BY <1>2 DEF Writes, ChannelTypes
  <2>2. /\ page'[i] = m /\ \A j \in 0 .. NrMsgs - 1 : j # i => page'[j] = page[j]
        /\ pending'[w] = m /\ last'[w] = m
        /\ \A x \in Writers :
             x # w => pending'[x] = pending[x] /\ last'[x] = last[x]
    BY <1>2 DEF Writes, ChannelTypes
  <2>3. /\ i \in History /\ i # 0 /\ m.slot = i /\ m.stamp = stamp + 1
        /\ stamp \in Nat /\ stamp' = stamp + 1
    BY <1>2, PageSlots DEF Writes, ChannelTypes
  <2>4. \A j \in 0 .. NrMsgs - 1 : page[j].stamp \in Nat
    BY PageSlots DEF ChannelTypes, Messages
  <2>5. ASSUME NEW x \in Messages, InHistory(x), x # Zero
        PROVE  x.slot \in History /\ page'[x.slot].stamp >= x.stamp
    <3>1. /\ x.slot \in 0 .. NrMsgs - 1 /\ x.slot \in History
          /\ page[x.slot].stamp >= x.stamp /\ x.stamp \in Nat
      BY <2>5, PageSlots DEF InHistory, Messages
    <3>2. page[x.slot].stamp <= stamp /\ page[x.slot].stamp \in Nat
      BY <3>1, <2>4 DEF LatestInv
    <3> QED BY <3>1, <3>2, <2>2, <2>3
  <2>6. LatestInv'
    <3>1. \A j \in 0 .. NrMsgs - 1 : page'[j].stamp <= stamp'
      BY <2>2, <2>3, <2>4 DEF LatestInv
    <3>2. /\ page[0] \in Messages
          /\ \A x \in Writers : pending[x] \in Messages
      BY PageSlots DEF ChannelTypes
    <3>3. page'[0] = page[0]
      BY <2>2, <2>3, PageSlots
    <3>4. ASSUME NEW x \in Writers, pending'[x] # Zero
          PROVE  pending'[x].slot \in History
                 /\ page'[pending'[x].slot].stamp >= pending'[x].stamp
      <4>1. CASE x = w
        BY <4>1, <2>2, <2>3
      <4>2. CASE x # w
        BY <3>2, <3>4, <4>2, <2>2, <2>5 DEF LatestInv
      <4> QED BY <4>1, <4>2
    <3> QED BY <3>1, <3>2, <3>3, <3>4, <2>5 DEF LatestInv, InHistory
  <2>7. LastInv'
    <3>1. m # Zero
      BY <2>3 DEF Zero
    <3> QED BY <2>2, <3>1 DEF LastInv
  <2> QED BY <2>1, <2>6, <2>7
<1> QED BY <1>1, <1>2, WriteCases, ZenonT(30)

(* The store to slot 0 publishes what is in the history already.           *)
LEMMA StoreKeeps ==
  ASSUME ChannelTypes, LatestInv, LastInv,
         NEW w \in Writers, StoreLatest(w)
  PROVE  ChannelTypes' /\ LatestInv' /\ LastInv'
<1>1. /\ pending[w] # Zero
      /\ page' = [page EXCEPT ![0] = pending[w]]
      /\ pending' = [pending EXCEPT ![w] = Zero]
      /\ UNCHANGED <<cursor, index, stamp, last, age>>
  BY DEF StoreLatest, LatestSlot
<1>2. /\ page'[0] = pending[w]
      /\ \A j \in 0 .. NrMsgs - 1 : j # 0 => page'[j] = page[j]
      /\ pending'[w] = Zero
      /\ \A x \in Writers : x # w => pending'[x] = pending[x]
  BY <1>1, PageSlots DEF ChannelTypes
<1>3. ChannelTypes'
  BY <1>1, PageSlots DEF ChannelTypes
<1>4. LatestInv'
  <2>1. /\ pending[w].slot \in History
        /\ page[pending[w].slot].stamp >= pending[w].stamp
    BY <1>1 DEF LatestInv, InHistory
  <2>2. \A j \in History : page'[j] = page[j] /\ j \in 0 .. NrMsgs - 1
    BY <1>2, PageSlots
  <2>3. pending[w].stamp <= stamp
    <3>1. pending[w].slot \in 0 .. NrMsgs - 1 /\ pending[w] \in Messages
      BY <2>1, <2>2 DEF ChannelTypes
    <3>2. page[pending[w].slot] \in Messages
      BY <3>1 DEF ChannelTypes
    <3>3. pending[w].stamp \in Int /\ page[pending[w].slot].stamp \in Int /\ stamp \in Int
      BY <3>1, <3>2, PageSlots DEF Messages, ChannelTypes
    <3> QED BY <2>1, <3>1, <3>3 DEF LatestInv
  <2>4. \A j \in 0 .. NrMsgs - 1 : page'[j].stamp <= stamp'
    BY <1>1, <1>2, <2>3 DEF LatestInv
  <2>5. InHistory(page[0])'
    BY <1>2, <2>1, <2>2 DEF InHistory
  <2>6. ASSUME NEW x \in Writers, pending'[x] # Zero
        PROVE  pending'[x].slot \in History
               /\ page'[pending'[x].slot].stamp >= pending'[x].stamp
    <3>1. pending'[x] = pending[x] /\ InHistory(pending[x])
      BY <2>6, <1>2 DEF LatestInv
    <3> QED BY <2>6, <3>1, <2>2 DEF InHistory
  <2> QED BY <2>4, <2>5, <2>6 DEF LatestInv, InHistory
<1>5. LastInv'
  BY <1>1, <1>2 DEF LastInv
<1> QED BY <1>3, <1>4, <1>5
-----------------------------------------------------------------------------
(* The cursor and its window.                                              *)

\* A quotient and a remainder are found again.
LEMMA DivMod ==
  ASSUME NEW F \in Nat \ {0}, NEW q \in Nat, NEW r \in 0 .. F - 1
  PROVE  (q * F + r) % F = r /\ (q * F + r) \div F = q
<1> DEFINE d == (q * F + r) \div F
           m == (q * F + r) % F
<1>0. q * F \in Nat
  OBVIOUS
<1>1. d \in Int /\ m \in 0 .. F - 1 /\ q * F + r = F * d + m
  BY <1>0
<1>2. d * F = q * F + (r - m) /\ r - m < F /\ m - r < F
  BY <1>1
<1> HIDE DEF d, m
<1>3. ASSUME d >= q + 1 PROVE FALSE
  <2>1. (d - q - 1) * F >= 0
    BY <1>1, <1>3
  <2>2. (d - q - 1) * F = d * F - q * F - F
    BY <1>1
  <2> QED
    BY <2>1, <2>2, <1>0, <1>1, <1>2
<1>4. ASSUME d <= q - 1 PROVE FALSE
  <2>1. (q - d - 1) * F >= 0
    BY <1>1, <1>4
  <2>2. (q - d - 1) * F = q * F - d * F - F
    BY <1>1
  <2> QED
    BY <2>1, <2>2, <1>0, <1>1, <1>2
<1>5. d = q
  BY <1>1, <1>3, <1>4
<1>6. m = r
  BY <1>0, <1>1, <1>2, <1>5
<1> QED
  BY <1>5, <1>6 DEF d, m

\* The next remainder.
LEMMA ModSucc ==
  ASSUME NEW F \in Nat \ {0}, NEW c \in Nat
  PROVE  /\ c % F \in 0 .. F - 1
         /\ c < F => c % F = c
         /\ (c + 1) % F = IF c % F = F - 1 THEN 0 ELSE (c % F) + 1
<1> DEFINE q == c \div F
           r == c % F
<1>1. q \in Nat /\ r \in 0 .. F - 1 /\ c = q * F + r
  OBVIOUS
<1> HIDE DEF q, r
<1>2. CASE r = F - 1
  <2>1. c + 1 = (q + 1) * F + 0
    BY <1>1, <1>2
  <2>2. ((q + 1) * F + 0) % F = 0
    <3>1. q + 1 \in Nat /\ 0 \in 0 .. F - 1
      BY <1>1
    <3> QED BY <3>1, DivMod
  <2> QED BY <1>1, <1>2, <2>1, <2>2 DEF r
<1>3. CASE r # F - 1
  <2>1. c + 1 = q * F + (r + 1) /\ r + 1 \in 0 .. F - 1
    BY <1>1, <1>3
  <2>2. (q * F + (r + 1)) % F = r + 1
    BY <1>1, <2>1, DivMod
  <2> QED BY <1>1, <1>3, <2>1, <2>2 DEF r
<1>4. c < F => c % F = c
  <2>1. ASSUME c < F PROVE c % F = c
    <3>1. c = 0 * F + c /\ c \in 0 .. F - 1 /\ 0 \in Nat
      BY <2>1
    <3> QED BY <3>1, DivMod
  <2> QED BY <2>1
<1> QED BY <1>1, <1>2, <1>3, <1>4 DEF r

\* How many watermarks of a VM whose cursor is c can have been stored since its
\* last one in slot j + 1, with a window of H slots and M values of the cursor:
\* up to j the cursor has wrapped since.
Lag(M, H, c, j) ==
  IF c <= j THEN c + (M % H) + H - 1 - j
  ELSE IF c % H > j THEN (c % H) - 1 - j ELSE (c % H) + H - 1 - j

(* Each watermark adds one, unless it is stored in slot j + 1.             *)
LEMMA LagStep ==
  ASSUME NEW M \in Nat, NEW H \in Nat \ {0}, M >= H,
         NEW c \in 0 .. M - 1, NEW j \in 0 .. H - 1
  PROVE  /\ Lag(M, H, c, j) \in Nat /\ Lag(M, H, c, j) < H + (M % H)
         /\ c % H # j => Lag(M, H, c, j) + 1 <= Lag(M, H, (c + 1) % M, j)
<1> DEFINE r == c % H
           w == M % H
           d == (c + 1) % M
           e == (c + 1) % H
<1>1. c \in Nat /\ M \in Nat \ {0}
  OBVIOUS
<1>2. r \in 0 .. H - 1 /\ (c < H => r = c) /\ e = IF r = H - 1 THEN 0 ELSE r + 1
  BY <1>1, ModSucc, Zenon
<1>3. w \in 0 .. H - 1
  BY ModSucc
<1>4. d = IF c = M - 1 THEN 0 ELSE c + 1
  <2>1. c % M = c
    BY <1>1, ModSucc
  <2> QED BY <1>1, <2>1, ModSucc, Zenon
<1>5. c = M - 1 => w = e
  OBVIOUS
<1>6. d % H = IF c = M - 1 THEN 0 ELSE e
  <2>1. 0 % H = 0
    BY ModSucc
  <2> QED BY <1>4, <2>1
<1> DEFINE f == d % H
<1>7. f = IF c = M - 1 THEN 0 ELSE e
  BY <1>6
<1>8. /\ Lag(M, H, c, j) = IF c <= j THEN c + w + H - 1 - j
                           ELSE IF r > j THEN r - 1 - j ELSE r + H - 1 - j
      /\ Lag(M, H, d, j) = IF d <= j THEN d + w + H - 1 - j
                           ELSE IF f > j THEN f - 1 - j ELSE f + H - 1 - j
  BY DEF Lag
<1> HIDE DEF r, w, d, e, f
<1>9. Lag(M, H, c, j) \in Nat /\ Lag(M, H, c, j) < H + w
  BY <1>1, <1>2, <1>3, <1>8
<1>10. r # j => Lag(M, H, c, j) + 1 <= Lag(M, H, d, j)
  BY <1>1, <1>2, <1>3, <1>4, <1>5, <1>7, <1>8
<1> QED BY <1>9, <1>10 DEF r, w, d

\* No slot is further behind than the cursor explains; nothing is stored before
\* the backend is there, while the cursor already moves.
CycleInv ==
  \A v \in Vms, i \in History :
    /\ age[v][i] <= Lag(CursorMod, HistorySlotCount, cursor[v], i - 1)
    /\ ~present => age[v][i] = 0

(* The window of the cursor, and the slot it selects.                      *)
LEMMA WindowFacts ==
  /\ CursorMod \in Nat /\ HistorySlotCount \in Nat \ {0}
  /\ CursorMod >= HistorySlotCount
  /\ \A i \in History : i - 1 \in 0 .. HistorySlotCount - 1
  /\ \A r \in 0 .. HistorySlotCount - 1 : r + 1 \in History
BY ChannelAssumption DEF History, HistorySlotCount,
       FirstHistorySlot

(* next_history_slot always selects a slot of the history.                 *)
LEMMA SlotOfCursor ==
  ASSUME ChannelTypes, NEW v \in Vms
  PROVE  /\ NextHistorySlot(v) = 1 + (cursor[v] % HistorySlotCount)
         /\ NextHistorySlot(v) \in History
<1>1. cursor[v] \in Nat
  BY WindowFacts DEF ChannelTypes
<1>2. cursor[v] % HistorySlotCount \in 0 .. HistorySlotCount - 1
  BY <1>1, WindowFacts, ModSucc, Zenon
<1>3. NextHistorySlot(v) = 1 + (cursor[v] % HistorySlotCount)
  BY DEF NextHistorySlot, FirstHistorySlot
<1> QED BY <1>2, <1>3, WindowFacts

\* No slot is behind before the first watermark.
LEMMA CycleInit ==
  ASSUME ChannelInit
  PROVE  CycleInv
<1>1. CursorMod > 0 /\ 0 \in 0 .. CursorMod - 1
  BY WindowFacts
<1>2. ASSUME NEW i \in History
      PROVE  Lag(CursorMod, HistorySlotCount, 0, i - 1) \in Nat
  <2>1. i - 1 \in 0 .. HistorySlotCount - 1
    BY WindowFacts
  <2> QED BY <1>1, <2>1, WindowFacts, LagStep
<1> QED BY <1>2 DEF ChannelInit, CycleInv

(* A new registration puts its own VM back at the beginning.               *)
LEMMA CycleReregister ==
  ASSUME ChannelTypes, CycleInv,
         NEW v \in Vms, Reregister(v)
  PROVE  /\ cursor' \in [Vms -> 0 .. CursorMod - 1]
         /\ age' \in [Vms -> [History -> Nat]]
         /\ CycleInv'
<1>1. CursorMod > 0 /\ 0 \in 0 .. CursorMod - 1
  BY WindowFacts
<1> DEFINE f == [i \in History |-> 0]
<1>2. f \in [History -> Nat] /\ \A i \in History : f[i] = 0
  OBVIOUS
<1>3. /\ cursor' = [cursor EXCEPT ![v] = 0] /\ age' = [age EXCEPT ![v] = f]
      /\ present' = present
  BY DEF Reregister
<1> HIDE DEF f
<1>4. /\ cursor'[v] = 0 /\ age'[v] = f
      /\ \A u \in Vms : u # v => cursor'[u] = cursor[u] /\ age'[u] = age[u]
      /\ cursor' \in [Vms -> 0 .. CursorMod - 1]
      /\ age' \in [Vms -> [History -> Nat]]
  BY <1>1, <1>2, <1>3, ZenonT(30) DEF ChannelTypes
<1>5. ASSUME NEW u \in Vms, NEW i \in History
      PROVE  /\ age'[u][i] <= Lag(CursorMod, HistorySlotCount, cursor'[u], i - 1)
             /\ ~present' => age'[u][i] = 0
  <2>1. CASE u = v
    <3>1. i - 1 \in 0 .. HistorySlotCount - 1
      BY WindowFacts
    <3>2. Lag(CursorMod, HistorySlotCount, 0, i - 1) \in Nat
      BY <1>1, <3>1, WindowFacts, LagStep
    <3> QED BY <1>2, <1>4, <2>1, <3>2
  <2>2. CASE u # v
    BY <2>2, <1>3, <1>4 DEF CycleInv
  <2> QED BY <2>1, <2>2
<1> QED BY <1>4, <1>5 DEF CycleInv

(* A watermark moves the cursor and the ages of its own VM only.           *)
LEMMA CycleWatermark ==
  ASSUME ChannelTypes, CycleInv,
         NEW v \in Vms, WriteWatermark(v)
  PROVE  /\ cursor' \in [Vms -> 0 .. CursorMod - 1]
         /\ age' \in [Vms -> [History -> Nat]]
         /\ CycleInv'
<1> DEFINE H == HistorySlotCount
           c == cursor[v]
           n == NextHistorySlot(v)
           f == [i \in History |-> IF i = n THEN 0 ELSE age[v][i] + 1]
<1>1. /\ c \in 0 .. CursorMod - 1 /\ (c + 1) % CursorMod \in 0 .. CursorMod - 1
      /\ n = 1 + (c % H) /\ n \in History
  <2>1. c \in 0 .. CursorMod - 1 /\ c + 1 \in Nat /\ CursorMod \in Nat \ {0}
    BY WindowFacts DEF ChannelTypes
  <2>2. (c + 1) % CursorMod \in 0 .. CursorMod - 1
    BY <2>1, ModSucc, Zenon
  <2> QED BY <2>1, <2>2, SlotOfCursor
<1>2. /\ cursor' = [cursor EXCEPT ![v] = (c + 1) % CursorMod] /\ present' = present
      /\ \/ ~present /\ age' = age
         \/ present /\ age' = [age EXCEPT ![v] = f]
  <2>1. n # 0 /\ n < NrMsgs
    BY <1>1, PageSlots DEF History
  <2> QED BY <2>1 DEF WriteWatermark, Accepted, LatestSlot
<1> HIDE DEF n, c
<1>f. /\ f \in [History -> Nat]
      /\ \A i \in History : f[i] = IF i = n THEN 0 ELSE age[v][i] + 1
  <2>1. \A i \in History : age[v][i] \in Nat
    BY DEF ChannelTypes
  <2> QED BY <2>1
<1> HIDE DEF f
<1>3. /\ cursor'[v] = (c + 1) % CursorMod
      /\ \A u \in Vms : u # v => cursor'[u] = cursor[u] /\ age'[u] = age[u]
      /\ cursor' \in [Vms -> 0 .. CursorMod - 1]
      /\ age' \in [Vms -> [History -> Nat]]
  <2>1. \/ age' = age
        \/ age' = [age EXCEPT ![v] = f]
    BY <1>2
  <2> QED BY <1>1, <1>2, <1>f, <2>1, ZenonT(30) DEF ChannelTypes
<1>4. ASSUME NEW i \in History
      PROVE  /\ age'[v][i] <= Lag(CursorMod, H, (c + 1) % CursorMod, i - 1)
             /\ ~present' => age'[v][i] = 0
  <2>1. /\ Lag(CursorMod, H, c, i - 1) \in Nat
        /\ Lag(CursorMod, H, (c + 1) % CursorMod, i - 1) \in Nat
        /\ c % H # i - 1 => Lag(CursorMod, H, c, i - 1) + 1
                            <= Lag(CursorMod, H, (c + 1) % CursorMod, i - 1)
    BY <1>1, WindowFacts, LagStep, Zenon
  <2>2. /\ age[v][i] \in Nat /\ age[v][i] <= Lag(CursorMod, H, c, i - 1)
        /\ ~present => age[v][i] = 0
    BY DEF CycleInv, ChannelTypes, c
  <2>3. CASE ~present /\ age' = age
    BY <1>2, <2>1, <2>2, <2>3
  <2>4. CASE present /\ age' = [age EXCEPT ![v] = f]
    <3>1. age'[v][i] = IF i = n THEN 0 ELSE age[v][i] + 1
      BY <1>f, <2>4 DEF ChannelTypes
    <3>2. i # n => c % H # i - 1
      BY <1>1
    <3> HIDE DEF H
    <3> QED BY <1>2, <2>1, <2>2, <2>4, <3>1, <3>2
  <2> QED BY <1>2, <2>3, <2>4
<1>5. CycleInv'
  <2> SUFFICES ASSUME NEW u \in Vms, NEW i \in History
               PROVE  /\ age'[u][i] <= Lag(CursorMod, H, cursor'[u], i - 1)
                      /\ ~present' => age'[u][i] = 0
    BY DEF CycleInv
  <2>1. CASE u = v
    BY <2>1, <1>3, <1>4
  <2>2. CASE u # v
    BY <2>2, <1>2, <1>3 DEF CycleInv
  <2> QED BY <2>1, <2>2
<1> QED BY <1>3, <1>5

ChannelInv == ChannelTypes /\ LatestInv /\ LastInv /\ CycleInv

(* Every step of the two timers, and the registrations, keep all of it.    *)
LEMMA ChannelStep ==
  ASSUME ChannelInv, [ChannelNext]_channelVars
  PROVE  ChannelInv'
<1>0. ChannelTypes /\ LatestInv /\ LastInv /\ CycleInv
  BY DEF ChannelInv
<1>1. CASE RegisterBackend
  BY <1>0, <1>1 DEF RegisterBackend, ChannelInv, ChannelTypes, LatestInv,
     InHistory, LastInv, CycleInv
<1>r. ASSUME NEW v \in Vms, Reregister(v) PROVE ChannelInv'
  <2>1. UNCHANGED <<page, index, pending, stamp, last>>
    BY <1>r DEF Reregister
  <2>2. /\ cursor' \in [Vms -> 0 .. CursorMod - 1]
        /\ age' \in [Vms -> [History -> Nat]]
        /\ CycleInv'
    BY <1>0, <1>r, CycleReregister
  <2>3. ChannelTypes' /\ LatestInv' /\ LastInv'
    BY <1>0, <1>r, <2>1, <2>2
    DEF Reregister, ChannelTypes, LatestInv, InHistory, LastInv
  <2> QED BY <2>2, <2>3 DEF ChannelInv
<1>2. ASSUME NEW v \in Vms, WriteWatermark(v) PROVE ChannelInv'
  <2>1. /\ H2gWrite("timer", NextHistorySlot(v), v)
        /\ index' = index
    BY <1>2 DEF WriteWatermark
  <2>2. "timer" \in Writers /\ NextHistorySlot(v) \in 0 .. NrMsgs - 1
    BY <1>0, SlotOfCursor, PageSlots DEF Writers
  <2>3. /\ page' \in [0 .. NrMsgs - 1 -> Messages]
        /\ pending' \in [Writers -> Messages]
        /\ last' \in [Writers -> Messages]
        /\ stamp' \in 0 .. MaxStamp
        /\ LatestInv' /\ LastInv'
    BY <1>0, <2>1, <2>2, WriteKeeps
  <2>4. /\ cursor' \in [Vms -> 0 .. CursorMod - 1]
        /\ age' \in [Vms -> [History -> Nat]]
        /\ CycleInv'
    BY <1>0, <1>2, CycleWatermark
  <2>5. ChannelTypes'
    BY <1>0, <2>1, <2>3, <2>4 DEF ChannelTypes
  <2> QED BY <2>3, <2>4, <2>5 DEF ChannelInv
<1>3. ASSUME MsgTimerInit \/ MsgTimerCallback PROVE ChannelInv'
  <2>1. /\ H2gWrite("msg_timer", index', "none")
        /\ index' \in 0 .. NrMsgs - 1
        /\ UNCHANGED <<present, cursor, age>>
    BY <1>0, <1>3, PageSlots, ChannelAssumption
    DEF MsgTimerInit, MsgTimerCallback, ChannelTypes, FirstHistorySlot,
        HistorySlotCount
  <2>2. "msg_timer" \in Writers
    BY DEF Writers
  <2>3. /\ page' \in [0 .. NrMsgs - 1 -> Messages]
        /\ pending' \in [Writers -> Messages]
        /\ last' \in [Writers -> Messages]
        /\ stamp' \in 0 .. MaxStamp
        /\ LatestInv' /\ LastInv'
    BY <1>0, <2>1, <2>2, WriteKeeps
  <2>4. CycleInv'
    BY <1>0, <2>1 DEF CycleInv
  <2>5. ChannelTypes'
    BY <1>0, <2>1, <2>3, PageSlots DEF ChannelTypes
  <2> QED BY <2>3, <2>4, <2>5 DEF ChannelInv
<1>4. ASSUME NEW w \in Writers, StoreLatest(w) PROVE ChannelInv'
  <2>1. ChannelTypes' /\ LatestInv' /\ LastInv'
    BY <1>0, <1>4, StoreKeeps
  <2>2. UNCHANGED <<present, cursor, age>>
    BY <1>4 DEF StoreLatest
  <2> QED BY <1>0, <2>1, <2>2 DEF ChannelInv, CycleInv
<1>5. CASE UNCHANGED channelVars
  BY <1>0, <1>5 DEF channelVars, ChannelInv, ChannelTypes, LatestInv, InHistory,
     LastInv, CycleInv
<1> QED BY <1>1, <1>r, <1>2, <1>3, <1>4, <1>5 DEF ChannelNext

\* The inductive invariant of the page.
LEMMA ChannelInvariant ==
  ChannelSpec => []ChannelInv
<1>1. ChannelInit => ChannelInv
  BY ChannelInitial, CycleInit DEF ChannelInv
<1>2. ChannelInv /\ [ChannelNext]_channelVars => ChannelInv'
  BY ChannelStep
<1> QED BY <1>1, <1>2, PTL DEF ChannelSpec

(* What a guest finds in slot 0 is already in the history, or has been     *)
(* replaced there by a later message, for any number of slots and however  *)
(* the two timers interleave (host_ivshmem_h2g_write_msg).                 *)
THEOREM LatestIsInHistory ==
  ChannelSpec => []LatestInHistory
<1>1. ChannelInv => LatestInHistory
  BY DEF ChannelInv, LatestInv, InHistory, LatestInHistory, LatestSlot
<1> QED BY <1>1, ChannelInvariant, PTL

(* With no write in progress slot 0 holds the last message of one of the   *)
(* two timers, whatever the order of their stores.                         *)
THEOREM LatestIsALastMessage ==
  ChannelSpec => []LatestIsSomeonesLast
<1>1. ChannelInv => LatestIsSomeonesLast
  BY DEF ChannelInv, LastInv, AtRest, LatestIsSomeonesLast,
         LatestSlot
<1> QED BY <1>1, ChannelInvariant, PTL

(* The watermarks of each VM keep going round the whole history window,    *)
(* for every window and every width of the cursor that is no smaller than  *)
(* it, however often the cursor wraps (next_history_slot).                 *)
THEOREM HistoryKeepsCycling ==
  ChannelSpec => []HistoryCycles
<1>1. ChannelInv => HistoryCycles
  <2> SUFFICES ASSUME ChannelInv, NEW v \in Vms, NEW i \in History
               PROVE  age[v][i] < HistorySlotCount
                                  + (CursorMod % HistorySlotCount)
    BY DEF HistoryCycles
  <2>1. /\ age[v][i] \in Nat /\ cursor[v] \in 0 .. CursorMod - 1
        /\ age[v][i] <= Lag(CursorMod, HistorySlotCount, cursor[v], i - 1)
    BY DEF ChannelInv, ChannelTypes, CycleInv
  <2>2. /\ Lag(CursorMod, HistorySlotCount, cursor[v], i - 1) \in Nat
        /\ Lag(CursorMod, HistorySlotCount, cursor[v], i - 1)
             < HistorySlotCount + (CursorMod % HistorySlotCount)
    BY <2>1, WindowFacts, LagStep, Zenon
  <2>3. HistorySlotCount \in Nat \ {0} /\ CursorMod \in Nat
    BY WindowFacts
  <2>4. CursorMod % HistorySlotCount \in 0 .. HistorySlotCount - 1
    BY <2>3, ModSucc
  <2> QED BY <2>1, <2>2, <2>3, <2>4
<1> QED BY <1>1, ChannelInvariant, PTL

-----------------------------------------------------------------------------
(* The registry.                                                           *)

\* Callers inside host_register_vm.
Busy == {r \in Callers : pc[r] # "idle"}

\* The types the arguments need.
Shapes ==
  /\ next \in Int
  /\ pc \in [Callers -> Places]
  /\ id \in [Callers -> Int]
  /\ call \in [Callers -> Nat]
  /\ calls \in Nat
  /\ leaked \in Nat
  /\ devices \in [Minors -> Nat]
  /\ granted \subseteq Int \X Nat
  /\ IsFiniteSet(granted)

\* Every call has a number of its own.
CallsDiffer ==
  /\ \A r \in Busy : /\ call[r] <= calls
                     /\ \A q \in Busy : q # r => call[q] # call[r]
                     /\ \A g \in granted : g[2] # call[r]
  /\ \A g \in granted : g[2] <= calls

Accounting == next = Cardinality(granted) + leaked + Cardinality(Busy)

(* The counters start at zero.                                             *)
LEMMA AccountInit == Init => Shapes /\ CallsDiffer /\ Accounting
<1> SUFFICES ASSUME Init PROVE Shapes /\ CallsDiffer /\ Accounting
  OBVIOUS
<1>1. granted = {} /\ Busy = {}
  BY DEF Init, Busy
<1>2. IsFiniteSet({}) /\ Cardinality({}) = 0
  BY FS_EmptySet
<1>3. Shapes
  BY <1>1, <1>2 DEF Init, Shapes, Places
<1> QED BY <1>1, <1>2, <1>3 DEF Init, CallsDiffer, Accounting

(* A caller that enters host_register_vm.                                  *)
LEMMA BusyEnter ==
  ASSUME Shapes, NEW r \in Callers, NEW place \in Places \ {"idle"},
         pc[r] = "idle", pc' = [pc EXCEPT ![r] = place]
  PROVE  /\ Busy' = Busy \cup {r}
         /\ Cardinality(Busy') = Cardinality(Busy) + 1
<1>1. Busy' = Busy \cup {r} /\ r \notin Busy
  BY DEF Busy, Shapes
<1>2. IsFiniteSet(Busy)
  BY FS_Subset, RegistryAssumption DEF Busy
<1> QED BY <1>1, <1>2, FS_AddElement, ZenonT(30)

(* A caller that returns.                                                  *)
LEMMA BusyLeave ==
  ASSUME Shapes, NEW r \in Callers,
         pc[r] # "idle", pc' = [pc EXCEPT ![r] = "idle"]
  PROVE  /\ Busy' = Busy \ {r}
         /\ Cardinality(Busy') = Cardinality(Busy) - 1
<1>1. Busy' = Busy \ {r} /\ r \in Busy
  BY DEF Busy, Shapes
<1>2. IsFiniteSet(Busy)
  BY FS_Subset, RegistryAssumption DEF Busy
<1> QED BY <1>1, <1>2, FS_RemoveElement

(* A caller that stays inside.                                             *)
LEMMA BusyMove ==
  ASSUME Shapes, NEW r \in Callers, NEW place \in Places \ {"idle"},
         pc[r] # "idle", pc' = [pc EXCEPT ![r] = place]
  PROVE  Busy' = Busy
BY DEF Busy, Shapes

(* The cardinalities that are added up are natural numbers.                *)
LEMMA CountsAreNat ==
  ASSUME Shapes
  PROVE  Cardinality(Busy) \in Nat /\ Cardinality(granted) \in Nat
<1>1. IsFiniteSet(Busy)
  BY FS_Subset, RegistryAssumption DEF Busy
<1> QED BY <1>1, FS_CardinalityType DEF Shapes

(* Every step keeps the shapes.                                            *)
LEMMA ShapesNext == Shapes /\ [Next]_vars => Shapes'
<1> SUFFICES ASSUME Shapes, [Next]_vars PROVE Shapes'
  OBVIOUS
<1> USE DEF Shapes, Places, Goto
<1>1. ASSUME NEW r \in Callers, Claim(r) PROVE Shapes'
  BY <1>1 DEF Claim
<1>2. ASSUME NEW r \in Callers, Alloc(r) PROVE Shapes'
  BY <1>2 DEF Alloc
<1>3. ASSUME NEW r \in Callers, CreateBackend(r) PROVE Shapes'
  BY <1>3 DEF CreateBackend
<1>4. ASSUME NEW r \in Callers, Undo(r) PROVE Shapes'
  BY <1>4 DEF Undo
<1>5. ASSUME NEW r \in Callers, Publish(r) PROVE Shapes'
  <2>1. IsFiniteSet(granted')
    BY <1>5, FS_AddElement, ZenonT(30) DEF Publish
  <2>2. granted' \subseteq Int \X Nat
    BY <1>5 DEF Publish
  <2>3. devices' \in [Minors -> Nat]
    BY <1>5, ZenonT(30) DEF Publish
  <2> QED BY <1>5, <2>1, <2>2, <2>3 DEF Publish
<1>6. CASE Reload
  <2>1. granted' = {} /\ IsFiniteSet({})
    BY <1>6, FS_EmptySet DEF Reload
  <2> QED BY <1>6, <2>1 DEF Reload
<1>7. CASE UNCHANGED vars
  BY <1>7 DEF vars
<1> QED BY <1>1, <1>2, <1>3, <1>4, <1>5, <1>6, <1>7 DEF Next

(* Every step keeps the numbers of the calls apart.                        *)
LEMMA CallsNext == Shapes /\ CallsDiffer /\ [Next]_vars => CallsDiffer'
<1> SUFFICES ASSUME Shapes, CallsDiffer, [Next]_vars PROVE CallsDiffer'
  OBVIOUS
<1>1. ASSUME NEW r \in Callers, Claim(r) PROVE CallsDiffer'
  <2>1. /\ Busy' = Busy \cup {r} /\ granted' = granted /\ calls' = calls + 1
        /\ call' = [call EXCEPT ![r] = calls + 1] /\ r \notin Busy
    BY <1>1 DEF Claim, Goto, Busy, Shapes
  <2>2. call'[r] = calls + 1 /\ \A q \in Busy : call'[q] = call[q] /\ call[q] \in Nat
    BY <2>1 DEF Shapes, Busy
  <2>3. \A g \in granted : g[2] \in Nat
    BY DEF Shapes
  <2> QED BY <2>1, <2>2, <2>3 DEF CallsDiffer, Shapes
<1>2. ASSUME NEW r \in Callers, Alloc(r) \/ CreateBackend(r) \/ Undo(r)
      PROVE  CallsDiffer'
  <2>1. Busy' \subseteq Busy /\ UNCHANGED <<granted, call, calls>>
    BY <1>2 DEF Alloc, CreateBackend, Undo, Goto, Busy, Shapes
  <2> QED BY <2>1 DEF CallsDiffer
<1>3. ASSUME NEW r \in Callers, Publish(r) PROVE CallsDiffer'
  <2>1. /\ Busy' = Busy \ {r} /\ r \in Busy /\ UNCHANGED <<call, calls>>
        /\ granted' = granted \cup {<<id[r], call[r]>>}
    BY <1>3 DEF Publish, Goto, Busy, Shapes
  <2>2. \A g \in granted' : g \in granted \/ g[2] = call[r]
    BY <2>1
  <2>3. call[r] <= calls /\ \A q \in Busy : q # r => call[q] # call[r]
    BY <2>1 DEF CallsDiffer
  <2> QED BY <2>1, <2>2, <2>3 DEF CallsDiffer
<1>4. CASE Reload
  <2>1. granted' = {} /\ Busy' = Busy /\ UNCHANGED <<call, calls>>
    BY <1>4 DEF Reload, Busy
  <2> QED BY <2>1 DEF CallsDiffer
<1>5. CASE UNCHANGED vars
  BY <1>5 DEF vars, CallsDiffer, Busy
<1> QED BY <1>1, <1>2, <1>3, <1>4, <1>5 DEF Next

(* Every step keeps the accounts.                                          *)
LEMMA AccountNext ==
  Shapes /\ CallsDiffer /\ Accounting /\ [Next]_vars => Accounting'
<1> SUFFICES ASSUME Shapes, CallsDiffer, Accounting, [Next]_vars PROVE Accounting'
  OBVIOUS
<1>n. /\ Cardinality(Busy) \in Nat /\ Cardinality(granted) \in Nat
      /\ next \in Int /\ leaked \in Nat
  BY CountsAreNat DEF Shapes
<1>1. ASSUME NEW r \in Callers, Claim(r) PROVE Accounting'
  <2> DEFINE place == IF next + 1 >= MaxDevices THEN "undo" ELSE "alloc"
  <2>1. pc' = [pc EXCEPT ![r] = place] /\ place \in Places \ {"idle"}
    BY <1>1 DEF Claim, Goto, Places
  <2>2. Cardinality(Busy') = Cardinality(Busy) + 1
    <3> HIDE DEF place
    <3> QED BY <1>1, <2>1, BusyEnter, ZenonT(30) DEF Claim
  <2> QED BY <1>1, <1>n, <2>2 DEF Claim, Accounting
<1>2. ASSUME NEW r \in Callers, Alloc(r) PROVE Accounting'
  <2>1. CASE Goto(r, "create") /\ UNCHANGED leaked
    <3>1. Busy' = Busy
      BY <1>2, <2>1, BusyMove, ZenonT(30) DEF Alloc, Goto, Places
    <3> QED BY <1>2, <2>1, <3>1 DEF Alloc, Accounting
  <2>2. CASE Goto(r, "idle") /\ leaked' = leaked + 1
    <3>1. Cardinality(Busy') = Cardinality(Busy) - 1
      BY <1>2, <2>2, BusyLeave, ZenonT(30) DEF Alloc, Goto
    <3> QED BY <1>2, <1>n, <2>2, <3>1 DEF Alloc, Accounting
  <2> QED BY <1>2, <2>1, <2>2 DEF Alloc
<1>3. ASSUME NEW r \in Callers, CreateBackend(r) PROVE Accounting'
  <2>1. Busy' = Busy
    BY <1>3, BusyMove DEF CreateBackend, Goto, Places
  <2> QED BY <1>3, <2>1 DEF CreateBackend, Accounting
<1>4. ASSUME NEW r \in Callers, Undo(r) PROVE Accounting'
  <2>1. Cardinality(Busy') = Cardinality(Busy) - 1
    BY <1>4, BusyLeave, ZenonT(30) DEF Undo, Goto
  <2> QED BY <1>4, <1>n, <2>1 DEF Undo, Accounting
<1>5. ASSUME NEW r \in Callers, Publish(r) PROVE Accounting'
  <2>1. Cardinality(Busy') = Cardinality(Busy) - 1
    BY <1>5, BusyLeave, ZenonT(30) DEF Publish, Goto
  <2>2. <<id[r], call[r]>> \notin granted
    BY <1>5 DEF CallsDiffer, Busy, Publish
  <2>3. Cardinality(granted') = Cardinality(granted) + 1
    BY <1>5, <2>2, FS_AddElement, ZenonT(30) DEF Publish, Shapes
  <2> QED BY <1>5, <1>n, <2>1, <2>3 DEF Publish, Accounting
<1>6. CASE Reload
  <2>1. Busy' = {} /\ granted' = {} /\ leaked' = 0 /\ next' = 0
    BY <1>6 DEF Reload, Busy
  <2> QED BY <2>1, FS_EmptySet DEF Accounting
<1>7. CASE UNCHANGED vars
  BY <1>7 DEF vars, Accounting, Busy
<1> QED BY <1>1, <1>2, <1>3, <1>4, <1>5, <1>6, <1>7 DEF Next

(* next_vm_id is exactly the number of ids granted, held and leaked, for   *)
(* any number of concurrent registrations and whichever of them fail.      *)
THEOREM NextIdIsConserved == Spec => []NextIdConserved
<1>1. Accounting => NextIdConserved
  BY DEF Accounting, NextIdConserved, Busy
<1> QED BY <1>1, AccountInit, ShapesNext, CallsNext, AccountNext, PTL DEF Spec

-----------------------------------------------------------------------------
\* Ids and minors: what a caller holds, and who may publish.
Ownership ==
  /\ \A r \in Busy : id[r] >= 0
  /\ \A r \in Callers : pc[r] \in {"alloc", "create", "publish"} => id[r] + 1 < MaxDevices
  /\ \A r \in Callers : pc[r] = "publish" =>
       /\ id[r] + 1 \in nodes
       /\ \A q \in Callers : q # r /\ pc[q] = "publish" => id[q] # id[r]
       /\ \A g \in granted : g[1] # id[r]
  /\ \A g \in granted : /\ g[1] + 1 \in nodes
                        /\ g[1] + 1 \in Minors
                        /\ devices[g[1] + 1] = g[2]

(* Nobody holds anything initially.                                        *)
LEMMA OwnInit == Init => Ownership
BY DEF Init, Ownership, Busy

(* The accounts keep next_vm_id from going below zero.                     *)
LEMMA NextIsNat == Shapes /\ Accounting => next >= 0
BY CountsAreNat DEF Accounting, Shapes

(* Every step keeps backends with the VMs they were granted to.            *)
LEMMA OwnNext == Shapes /\ Accounting /\ Ownership /\ [Next]_vars => Ownership'
<1> SUFFICES ASSUME Shapes, Accounting, Ownership, [Next]_vars PROVE Ownership'
  OBVIOUS
<1>1. ASSUME NEW r \in Callers, Claim(r) PROVE Ownership'
  <2>1. /\ UNCHANGED <<granted, nodes, devices>> /\ id' = [id EXCEPT ![r] = next]
        /\ pc' = [pc EXCEPT ![r] = IF next + 1 >= MaxDevices THEN "undo" ELSE "alloc"]
    BY <1>1 DEF Claim, Goto
  <2>2. next >= 0
    BY NextIsNat
  <2>3. \A q \in Callers : q # r => pc'[q] = pc[q] /\ id'[q] = id[q]
    BY <2>1 DEF Shapes
  <2>4. /\ id'[r] = next /\ pc'[r] # "publish"
        /\ pc'[r] \in {"alloc", "create"} => next + 1 < MaxDevices
    BY <2>1, RegistryAssumption DEF Shapes
  <2>5. \A q \in Busy' : q = r \/ q \in Busy
    BY <2>3 DEF Busy
  <2> QED BY <2>1, <2>2, <2>3, <2>4, <2>5 DEF Ownership
<1>2. ASSUME NEW r \in Callers, Alloc(r) PROVE Ownership'
  BY <1>2 DEF Alloc, Goto, Ownership, Shapes, Busy
<1>3. ASSUME NEW r \in Callers, CreateBackend(r) PROVE Ownership'
  <2>1. CASE Goto(r, "undo") /\ UNCHANGED nodes
    BY <1>3, <2>1 DEF CreateBackend, Goto, Ownership, Shapes, Busy
  <2>2. CASE /\ id[r] + 1 \notin nodes
             /\ nodes' = nodes \cup {id[r] + 1}
             /\ Goto(r, "publish")
    <3>1. /\ UNCHANGED <<granted, devices, id>> /\ pc[r] = "create"
          /\ pc' = [pc EXCEPT ![r] = "publish"]
      BY <1>3, <2>2 DEF CreateBackend, Goto
    <3>2. \A g \in granted : g[1] # id[r]
      BY <2>2 DEF Ownership
    <3>3. \A q \in Callers : q # r /\ pc[q] = "publish" => id[q] # id[r]
      BY <2>2 DEF Ownership
    <3>4. /\ pc'[r] = "publish" /\ \A q \in Callers : q # r => pc'[q] = pc[q]
          /\ Busy' = Busy
      BY <3>1 DEF Shapes, Busy
    <3> QED BY <2>2, <3>1, <3>2, <3>3, <3>4 DEF Ownership
  <2> QED BY <1>3, <2>1, <2>2 DEF CreateBackend
<1>4. ASSUME NEW r \in Callers, Undo(r) PROVE Ownership'
  BY <1>4 DEF Undo, Goto, Ownership, Shapes, Busy
<1>5. ASSUME NEW r \in Callers, Publish(r) PROVE Ownership'
  <2>1. /\ pc[r] = "publish" /\ UNCHANGED <<nodes, id>>
        /\ pc' = [pc EXCEPT ![r] = "idle"]
        /\ devices' = [devices EXCEPT ![id[r] + 1] = call[r]]
        /\ granted' = granted \cup {<<id[r], call[r]>>}
    BY <1>5 DEF Publish, Goto
  <2>2. id[r] + 1 \in Minors /\ id[r] + 1 \in nodes
    BY <2>1, RegistryAssumption DEF Ownership, Busy, Minors, Shapes
  <2>3. \A q \in Callers : pc'[q] # "idle" => q # r /\ pc'[q] = pc[q]
    BY <2>1 DEF Shapes
  <2>4. \A g \in granted' : g \in granted \/ (g[1] = id[r] /\ g[2] = call[r])
    BY <2>1
  <2>5. \A g \in granted : g[1] # id[r] /\ g[1] \in Int
    BY <2>1 DEF Ownership, Shapes
  <2>6. \A g \in granted' : devices'[g[1] + 1] = g[2]
    <3>1. devices'[id[r] + 1] = call[r]
      BY <2>1, <2>2 DEF Shapes
    <3>2. \A g \in granted : devices'[g[1] + 1] = devices[g[1] + 1]
      BY <2>1, <2>5 DEF Ownership, Shapes
    <3> QED BY <2>4, <3>1, <3>2 DEF Ownership
  <2>7. \A q \in Busy' : q \in Busy
    BY <2>3 DEF Busy
  <2> QED BY <2>1, <2>2, <2>3, <2>4, <2>6, <2>7 DEF Ownership
<1>6. CASE Reload
  BY <1>6 DEF Reload, Ownership, Busy
<1>7. CASE UNCHANGED vars
  BY <1>7 DEF vars, Ownership, Busy
<1> QED BY <1>1, <1>2, <1>3, <1>4, <1>5, <1>6, <1>7 DEF Next

(* However registrations interleave and fail, a VM that was given a vm_id  *)
(* finds its own backend at registry.devices[vm_id + 1] until the module   *)
(* is unloaded.                                                            *)
THEOREM VmKeepsItsBackend == Spec => []GrantedOwnsBackend
<1>1. Ownership => GrantedOwnsBackend
  BY DEF Ownership, GrantedOwnsBackend
<1> QED BY <1>1, AccountInit, ShapesNext, CallsNext, AccountNext, OwnInit, OwnNext, PTL
        DEF Spec

-----------------------------------------------------------------------------
\* Every backend is stored in registry.devices[], or about to be; the numbers of
\* calls start at 1, so that a stored backend is told from an empty entry.
Stored ==
  /\ \A r \in Busy : call[r] > 0
  /\ \A m \in nodes : /\ m \in Minors
                      /\ \/ devices[m] # 0
                         \/ \E r \in Callers : pc[r] = "publish" /\ id[r] + 1 = m

\* As long as ids were given back in the order of a stack: the counter is above
\* every id in use, no two callers hold the same one, and a caller without a
\* backend finds its minor free.
Stacked ==
  ~raced =>
    /\ \A m \in nodes : m <= next
    /\ \A r \in Busy : /\ id[r] < next
                       /\ \A q \in Busy : q # r => id[q] # id[r]
                       /\ pc[r] # "publish" => id[r] + 1 \notin nodes

\* An empty registry has neither backends nor callers.
LEMMA StackInit == Init => Stored /\ Stacked
BY DEF Init, Stored, Stacked, Busy

(* Every step leaves backends stored or about to be.                       *)
LEMMA StoredNext == Shapes /\ Ownership /\ Stored /\ [Next]_vars => Stored'
<1> SUFFICES ASSUME Shapes, Ownership, Stored, [Next]_vars PROVE Stored'
  OBVIOUS
<1>1. ASSUME NEW r \in Callers, Claim(r) PROVE Stored'
  <2>1. /\ UNCHANGED <<nodes, devices>> /\ pc[r] = "idle"
        /\ \A q \in Callers :
             q # r => pc'[q] = pc[q] /\ id'[q] = id[q] /\ call'[q] = call[q]
        /\ call'[r] = calls + 1 /\ calls \in Nat
    BY <1>1 DEF Claim, Goto, Shapes
  <2> QED BY <2>1 DEF Stored, Busy
<1>2. ASSUME NEW r \in Callers, Alloc(r) \/ Undo(r) PROVE Stored'
  <2>1. /\ UNCHANGED <<nodes, devices, id, call>> /\ pc[r] \in {"alloc", "undo"}
        /\ \A q \in Callers : q # r => pc'[q] = pc[q]
    BY <1>2 DEF Alloc, Undo, Goto, Shapes
  <2> QED BY <2>1 DEF Stored, Busy
<1>3. ASSUME NEW r \in Callers, CreateBackend(r) PROVE Stored'
  <2>1. /\ UNCHANGED <<devices, id, call>> /\ pc[r] = "create"
        /\ \A q \in Callers : q # r => pc'[q] = pc[q]
        /\ \/ nodes' = nodes
           \/ pc'[r] = "publish" /\ nodes' = nodes \cup {id[r] + 1}
    BY <1>3 DEF CreateBackend, Goto, Shapes
  <2>2. id[r] \in Int /\ id[r] >= 0 /\ id[r] + 1 < MaxDevices
    BY <2>1 DEF Ownership, Busy, Shapes
  <2>3. id[r] + 1 \in Minors
    BY <2>2, RegistryAssumption DEF Minors
  <2> QED BY <2>1, <2>3 DEF Stored, Busy
<1>4. ASSUME NEW r \in Callers, Publish(r) PROVE Stored'
  <2>1. /\ UNCHANGED <<nodes, id, call>> /\ pc[r] = "publish"
        /\ \A q \in Callers : q # r => pc'[q] = pc[q]
        /\ pc'[r] = "idle"
        /\ devices' = [devices EXCEPT ![id[r] + 1] = call[r]]
    BY <1>4 DEF Publish, Goto, Shapes
  <2>2. call[r] # 0
    BY <2>1 DEF Stored, Busy
  <2>3. \A m \in Minors : devices'[m] = IF m = id[r] + 1 THEN call[r] ELSE devices[m]
    BY <2>1 DEF Shapes
  <2> QED BY <2>1, <2>2, <2>3 DEF Stored, Busy
<1>5. CASE Reload
  <2>1. nodes' = {} /\ Busy' = {}
    BY <1>5 DEF Reload, Stored, Busy
  <2> QED BY <2>1 DEF Stored
<1>6. CASE UNCHANGED vars
  BY <1>6 DEF vars, Stored, Busy
<1> QED BY <1>1, <1>2, <1>3, <1>4, <1>5, <1>6 DEF Next

(* Every step keeps the ids in use below the counter, unless one is given  *)
(* back out of order.                                                      *)
LEMMA StackedNext ==
  Shapes /\ Ownership /\ Stored /\ Stacked /\ [Next]_vars => Stacked'
<1> SUFFICES ASSUME Shapes, Ownership, Stored, Stacked, [Next]_vars, ~raced'
             PROVE  Stacked'
  BY DEF Stacked
<1>0. /\ next \in Int /\ \A q \in Callers : id[q] \in Int
      /\ \A m \in nodes : m \in Int
  BY DEF Shapes, Stored, Minors
<1>1. ASSUME NEW r \in Callers, Claim(r) PROVE Stacked'
  <2>1. /\ UNCHANGED <<nodes, raced>> /\ next' = next + 1 /\ id'[r] = next
        /\ pc[r] = "idle"
        /\ \A q \in Callers : q # r => pc'[q] = pc[q] /\ id'[q] = id[q]
    BY <1>1 DEF Claim, Goto, Shapes
  <2>2. ~raced
    BY <2>1
  <2>3. \A q \in Busy' : q # r => q \in Busy
    BY <2>1 DEF Busy
  <2> QED BY <1>0, <2>1, <2>2, <2>3 DEF Stacked, Busy
<1>2. ASSUME NEW r \in Callers, Alloc(r) PROVE Stacked'
  <2>1. /\ UNCHANGED <<nodes, raced, next, id>> /\ pc[r] = "alloc"
        /\ \A q \in Callers : q # r => pc'[q] = pc[q]
    BY <1>2 DEF Alloc, Goto, Shapes
  <2> QED BY <2>1 DEF Stacked, Busy
<1>3. ASSUME NEW r \in Callers, CreateBackend(r) PROVE Stacked'
  <2>1. /\ UNCHANGED <<raced, next, id>> /\ pc[r] = "create"
        /\ \A q \in Callers : q # r => pc'[q] = pc[q]
        /\ \/ nodes' = nodes
           \/ pc'[r] = "publish" /\ nodes' = nodes \cup {id[r] + 1}
    BY <1>3 DEF CreateBackend, Goto, Shapes
  <2> QED BY <1>0, <2>1 DEF Stacked, Busy
<1>4. ASSUME NEW r \in Callers, Undo(r) PROVE Stacked'
  <2>1. /\ UNCHANGED <<nodes, id>> /\ pc[r] = "undo" /\ next' = next - 1
        /\ pc'[r] = "idle" /\ \A q \in Callers : q # r => pc'[q] = pc[q]
    BY <1>4 DEF Undo, Goto, Shapes
  <2>2. ~raced /\ ~LaterHeld(r)
    BY <1>4, Zenon DEF Undo
  <2>3. r \in Busy /\ id[r] < next /\ id[r] + 1 \notin nodes
    BY <2>1, <2>2 DEF Stacked, Busy
  <2>4. \A m \in nodes : m <= id[r]
    BY <1>0, <2>2, <2>3 DEF LaterHeld
  <2>5. \A q \in Busy : q # r => id[q] < id[r]
    BY <1>0, <2>2, <2>3 DEF LaterHeld, Stacked, Busy
  <2>6. \A q \in Busy' : q # r /\ q \in Busy /\ q \in Callers /\ pc'[q] = pc[q]
    BY <2>1 DEF Busy
  <2> QED BY <1>0, <2>1, <2>2, <2>3, <2>4, <2>5, <2>6 DEF Stacked
<1>5. ASSUME NEW r \in Callers, Publish(r) PROVE Stacked'
  <2>1. /\ UNCHANGED <<nodes, raced, next, id>> /\ pc'[r] = "idle"
        /\ \A q \in Callers : q # r => pc'[q] = pc[q]
    BY <1>5 DEF Publish, Goto, Shapes
  <2> QED BY <2>1 DEF Stacked, Busy
<1>6. CASE Reload
  <2>1. nodes' = {} /\ Busy' = {}
    BY <1>6 DEF Reload, Stored, Busy
  <2> QED BY <2>1 DEF Stacked
<1>7. CASE UNCHANGED vars
  BY <1>7 DEF vars, Stacked, Busy
<1> QED BY <1>1, <1>2, <1>3, <1>4, <1>5, <1>6, <1>7 DEF Next

(* With no call running the counter points at a free minor, for any number *)
(* of callers and whichever of them failed, as long as no id was given     *)
(* back while a later one was held: leaked ids alone do no harm.           *)
THEOREM NextIdIsFree == Spec => []NextIdFree
<1>1. Shapes /\ Stored /\ Stacked => NextIdFree
  BY DEF Shapes, Stored, Stacked, NextIdFree, Minors
<1> QED BY <1>1, AccountInit, ShapesNext, CallsNext, AccountNext, OwnInit, OwnNext,
           StackInit, StoredNext, StackedNext, PTL DEF Spec

=============================================================================
