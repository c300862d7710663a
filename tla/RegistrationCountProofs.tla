----------------------- MODULE RegistrationCountProofs ----------------------
(***************************************************************************)
(* Proofs about VmRegistration, continued: the steps of the handlers, and  *)
(* the counts they keep.                                                   *)
(***************************************************************************)
EXTENDS VmRegistrationProofs

\* An idle handler holds nothing.
LEMMA IdleHeld ==
  IdleHandler \in Handlers /\ HeldBy(IdleHandler) /\ IdleHandler.key = None
  /\ IdleHandler.at = "idle"
  BY RegistrationAssumption DEF IdleHandler, Handlers, HeldBy, Tids

\* Handler p is the only one that works for its thread.
LEMMA PendingStep ==
  ASSUME NEW p \in Pcpus, NEW g, HandlerTypes, DistinctKeys,
         NEW k \in Tids, handler[p].key = k,
         handler' = [handler EXCEPT ![p] = g], g.key \in {k, None},
         NEW way
  PROVE  /\ \A t \in Tids : t # k => (Pending(t, way)' <=> Pending(t, way))
         /\ Pending(k, way) <=> PendingBy(handler[p], k, way)
         /\ Pending(k, way)' <=> PendingBy(g, k, way)
<1>1. /\ handler'[p] = g
      /\ \A q \in Pcpus : q # p => handler'[q] = handler[q] /\ handler[q].key # k
      /\ None \notin Tids
  BY RegistrationAssumption DEF HandlerTypes, DistinctKeys
<1>2. ASSUME NEW t \in Tids, t # k
      PROVE  Pending(t, way)' <=> Pending(t, way)
  BY <1>1, <1>2 DEF Pending, PendingBy
<1>3. Pending(k, way) <=> PendingBy(handler[p], k, way)
  BY <1>1 DEF Pending, PendingBy
<1>4. Pending(k, way)' <=> PendingBy(g, k, way)
  BY <1>1 DEF Pending, PendingBy
<1>5. QED
  BY <1>2, <1>3, <1>4

\* What the handler on p may hold after its next step.
LEMMA HeldStep ==
  ASSUME HandlerTypes, Held, DistinctKeys, NEW p \in Pcpus, NEW g \in Handlers,
         handler' = [handler EXCEPT ![p] = g], UNCHANGED owner, HeldBy(g),
         g.key \in {handler[p].key, None}
  PROVE  handler' \in [Pcpus -> Handlers] /\ Held' /\ DistinctKeys'
<1>1. handler'[p] = g /\ \A q \in Pcpus : q # p => handler'[q] = handler[q]
  BY DEF HandlerTypes
<1>2. handler' \in [Pcpus -> Handlers]
  BY DEF HandlerTypes
<1>3. Held'
  BY <1>1 DEF Held, HeldBy
<1>4. DistinctKeys'
  BY <1>1 DEF DistinctKeys
<1>5. QED
  BY <1>2, <1>3, <1>4

\* Counts that a step leaves alone stay exact if the step changes, for no thread
\* they are about, whether it counts.
LEMMA CountKept ==
  ASSUME ToolInv, CountInv, UNCHANGED <<owner, vms, count, torn>>,
         raced' = 0 => raced = 0,
         \A t \in Tids : Exact(t)' /\ (t \in Threads => "vm" \in vms) =>
                           (IsCounted(t)' <=> IsCounted(t))
  PROVE  CountInv'
<1>1. Entries("other") = {OtherTid} /\ OtherTid \in Tids /\ Entries("vm") \subseteq Tids
  BY DEF ToolInv, OtherEntries, Entries, Tids
<1>2. CountIs("other")'
  <2>1. \A t \in Entries("other") : IsCounted(t)' <=> IsCounted(t)
    BY <1>1, RegistrationAssumption DEF Exact
  <2>2. QED
    BY <2>1, CountSame DEF CountInv, Vms
<1>3. ASSUME ("vm" \in vms)', raced' = 0, torn' = 0 PROVE CountIs("vm")'
  <2>1. \A t \in Entries("vm") : IsCounted(t)' <=> IsCounted(t)
    BY <1>1, <1>3 DEF Exact
  <2>2. QED
    BY <1>3, <2>1, CountSame DEF CountInv, Vms
<1>4. QED
  BY <1>2, <1>3 DEF CountInv

\* A handler that starts holds the entry of its thread.
LEMMA LookupKeeps ==
  ASSUME ToolInv, HandlerInv, NEW p \in Pcpus, NEW k \in Tids,
         NEW way \in {"in", "out"}, Lookup(p, k, way)
  PROVE  HandlerInv'
<1> DEFINE g == [IdleHandler EXCEPT !.at = "found", !.way = way, !.key = k, !.ptr = k]
<1>0. /\ g \in Handlers
      /\ g.at = "found" /\ g.key = k /\ g.ptr = k /\ g.vm = None /\ g.cut = 0
  <2>1. IdleHandler \in Handlers
    BY DEF IdleHandler, Handlers
  <2>2. g \in Handlers
    BY <2>1, ZenonT(30) DEF Handlers
  <2>3. IdleHandler.vm = None /\ IdleHandler.cut = 0
    BY DEF IdleHandler
  <2>4. QED
    BY <2>1, <2>2, <2>3 DEF Handlers
<1> HIDE DEF g
<1>1. /\ handler' = [handler EXCEPT ![p] = g] /\ handler[p].at = "idle"
      /\ \A q \in Pcpus : handler[q].key # k
      /\ UNCHANGED <<owner, vms, torn, flag, count, raced>> /\ owner[k] # None
  BY DEF Lookup, env, g
<1>3. /\ handler'[p] = g /\ handler' \in [Pcpus -> Handlers]
      /\ \A q \in Pcpus : q # p => handler'[q] = handler[q]
  BY <1>0, <1>1 DEF HandlerInv, HandlerTypes
<1>4. HeldBy(g)
  <2>1. k \in Threads => owner[k] = "vm"
    BY <1>1 DEF ToolInv, ToolTypes, OtherEntries, Tids, Vms
  <2>2. QED
    BY <1>0, <2>1, RegistrationAssumption DEF HeldBy, Tids
<1>5. handler[p].key = None /\ None \notin Tids
  BY <1>1, RegistrationAssumption DEF HandlerInv, Held, HeldBy
<1>6. Held'
  BY <1>0, <1>1, <1>3, <1>4 DEF HandlerInv, Held, HeldBy
<1>7. DistinctKeys'
  BY <1>0, <1>1, <1>3 DEF HandlerInv, DistinctKeys
<1>8. ASSUME NEW t \in Tids, NEW w PROVE Pending(t, w)' <=> Pending(t, w)
  BY <1>0, <1>1, <1>3, <1>5 DEF Pending, PendingBy
<1>9. FlagsHeld'
  BY <1>1, <1>8 DEF HandlerInv, FlagsHeld, Exact
<1>10. CountInv'
  <2>1. \A t \in Tids : IsCounted(t)' <=> IsCounted(t)
    BY <1>1, <1>8 DEF IsCounted
  <2>2. QED
    BY <1>1, <2>1, CountKept DEF HandlerInv
<1>11. HandlerTypes'
  BY <1>1, <1>3 DEF HandlerInv, HandlerTypes
<1>12. QED
  BY <1>6, <1>7, <1>9, <1>10, <1>11 DEF HandlerInv

\* The flag changes, and the count is owed until Update.
LEMMA FlagKeeps ==
  ASSUME ToolInv, HandlerInv, NEW p \in Pcpus, Flag(p)
  PROVE  HandlerInv'
<1> DEFINE h == handler[p]
           from == IF h.way = "in" THEN 1 ELSE 0
           found == IF h.ptr = Gone THEN h.old ELSE flag[h.ptr]
           g == IF found = from THEN [h EXCEPT !.at = "flagged"] ELSE IdleHandler
<1>0. /\ h \in Handlers /\ h.at = "found" /\ HeldBy(h)
      /\ flag' = (IF found = from /\ h.ptr # Gone THEN [flag EXCEPT ![h.ptr] = 1 - from]
                  ELSE flag)
      /\ handler' = [handler EXCEPT ![p] = g]
      /\ raced' = IF h.cut = 1 /\ flag' # flag THEN 1 ELSE raced
      /\ UNCHANGED <<owner, vms, torn, count>>
  BY DEF Flag, HandlerInv, HandlerTypes, Held, env
<1>1. PICK k \in Tids : h.key = k
  BY <1>0 DEF HeldBy
<1>2. /\ g \in Handlers /\ g.key \in {k, None}
      /\ found = from => g.at = "flagged" /\ g.way = h.way /\ g.key = k
                         /\ g.ptr = h.ptr /\ g.vm = h.vm /\ g.cut = h.cut
      /\ found # from => g = IdleHandler
  BY <1>0, <1>1, IdleHeld, ZenonT(30) DEF Handlers
<1>3. HeldBy(g)
  BY <1>0, <1>1, <1>2, IdleHeld DEF HeldBy
<1>4. h.ptr \in Tids \cup {Gone} /\ (h.cut = 1 => h.ptr # OtherTid)
  BY <1>0, <1>1, RegistrationAssumption DEF HeldBy, Handlers, Tids
<1>5. flag' \in [Tids -> {0, 1}] /\ raced' \in {0, 1}
  BY <1>0, <1>4 DEF HandlerInv, HandlerTypes
<1>5a. handler' \in [Pcpus -> Handlers] /\ Held' /\ DistinctKeys'
  BY <1>0, <1>1, <1>2, <1>3, HeldStep, ZenonT(30) DEF HandlerInv
<1>5b. /\ h.way = "in" => from = 1
       /\ h.way # "in" => from = 0
       /\ h.ptr # Gone => found = flag[h.ptr]
       /\ h = handler[p]
  OBVIOUS
<1> HIDE DEF g, h, from, found
<1>6. /\ \A t \in Tids, w \in {"in", "out"} : t # k => (Pending(t, w)' <=> Pending(t, w))
      /\ \A w \in {"in", "out"} : ~Pending(k, w)
      /\ \A w \in {"in", "out"} : Pending(k, w)' <=> PendingBy(g, k, w)
  <2>1. ASSUME NEW w \in {"in", "out"}
        PROVE  /\ \A t \in Tids : t # k => (Pending(t, w)' <=> Pending(t, w))
               /\ Pending(k, w) <=> PendingBy(h, k, w)
               /\ Pending(k, w)' <=> PendingBy(g, k, w)
    <3>1. HandlerTypes /\ DistinctKeys /\ handler[p].key = k /\ h = handler[p]
      BY <1>1, <1>5b DEF HandlerInv
    <3>2. handler' = [handler EXCEPT ![p] = g] /\ g.key \in {k, None}
      BY <1>0, <1>2
    <3>3. QED
      BY <3>1, <3>2, PendingStep, ZenonT(30)
  <2>2. \A w \in {"in", "out"} : ~PendingBy(h, k, w)
    BY <1>0 DEF PendingBy
  <2>3. QED
    BY <2>1, <2>2
<1>7. ASSUME NEW t \in Tids, Exact(t)'
      PROVE  /\ IsCounted(t)' <=> IsCounted(t)
             /\ Pending(t, "out")' => flag'[t] = 1
             /\ Pending(t, "in")' => flag'[t] = 0
  <2>0. Exact(t) /\ flag[t] \in {0, 1}
    BY <1>0, <1>7 DEF Exact, HandlerInv, HandlerTypes
  <2>1. CASE flag'[t] = flag[t] /\ (t = k => ~PendingBy(g, k, "in") /\ ~PendingBy(g, k, "out"))
    BY <1>6, <2>0, <2>1 DEF IsCounted, HandlerInv, FlagsHeld
  <2>2. CASE found # from
    BY <1>0, <1>2, <2>1, <2>2, IdleHeld DEF PendingBy
  <2>3. CASE found = from /\ h.cut = 1
    <3>1. flag'[t] = flag[t]
      BY <1>0, <1>4, <1>7, <2>3 DEF Exact, HandlerInv, HandlerTypes
    <3>2. QED
      BY <1>2, <2>1, <2>3, <3>1 DEF PendingBy
  <2>4. CASE found = from /\ h.cut = 0
    <3>1. h.ptr = k /\ k # Gone /\ flag[k] = from /\ flag'[k] = 1 - from
      BY <1>0, <1>1, <1>5b, <2>4, RegistrationAssumption
      DEF HeldBy, HandlerInv, HandlerTypes
    <3>2. CASE t # k
      <4>1. flag'[t] = flag[t]
        BY <1>0, <3>1, <3>2 DEF HandlerInv, HandlerTypes
      <4>2. QED
        BY <2>1, <3>2, <4>1
    <3>3. CASE t = k /\ h.way = "in"
      <4>1. Pending(t, "in")' /\ ~Pending(t, "out")' /\ flag'[t] = 0 /\ flag[t] = 1
        BY <1>2, <1>5b, <1>6, <2>4, <3>1, <3>3 DEF PendingBy
      <4>2. QED
        BY <1>6, <3>3, <4>1 DEF IsCounted
    <3>4. CASE t = k /\ h.way # "in"
      <4>1. Pending(t, "out")' /\ ~Pending(t, "in")' /\ flag'[t] = 1 /\ flag[t] = 0
        BY <1>0, <1>2, <1>5b, <1>6, <2>4, <3>1, <3>4 DEF PendingBy, Handlers
      <4>2. QED
        BY <1>6, <3>4, <4>1 DEF IsCounted
    <3>5. QED
      BY <3>2, <3>3, <3>4
  <2>5. QED
    BY <1>0, <2>2, <2>3, <2>4 DEF Handlers
<1>8. FlagsHeld'
  BY <1>7 DEF FlagsHeld
<1>9. CountInv'
  <2>1. raced' = 0 => raced = 0
    BY <1>0
  <2>2. QED
    BY <1>0, <1>7, <2>1, CountKept DEF HandlerInv
<1>10. QED
  BY <1>0, <1>5, <1>5a, <1>8, <1>9 DEF HandlerInv, HandlerTypes

\* The VM found is the owner of the entry, or the vCPU was deleted.
LEMMA FindVmKeeps ==
  ASSUME ToolInv, HandlerInv, NEW p \in Pcpus, FindVm(p)
  PROVE  HandlerInv'
<1> DEFINE h == handler[p]
           name == IF h.ptr # Gone THEN owner[h.ptr]
                   ELSE IF h.key = OtherTid THEN "other" ELSE "vm"
           g == IF name \in vms THEN [h EXCEPT !.at = "vm", !.vm = name] ELSE IdleHandler
<1>0. /\ h \in Handlers /\ h.at = "flagged" /\ HeldBy(h)
      /\ handler' = [handler EXCEPT ![p] = g]
      /\ UNCHANGED <<owner, vms, torn, count, flag, raced>>
  BY DEF FindVm, HandlerInv, HandlerTypes, Held, env
<1>1. PICK k \in Tids : h.key = k
  BY <1>0 DEF HeldBy
<1>2. /\ owner[OtherTid] = "other" /\ "other" \in vms /\ vms \subseteq Vms
      /\ None \notin Vms /\ OtherTid \notin Threads /\ Gone \notin Tids
  BY RegistrationAssumption DEF ToolInv, ToolTypes, OtherEntries
<1>3. /\ h.cut = 0 => name = owner[k] /\ (k \in Threads => name = "vm")
                      /\ (k = OtherTid => name = "other")
      /\ h.cut = 1 => name = "vm"
  BY <1>0, <1>1, <1>2 DEF HeldBy
<1> HIDE DEF name
<1>4. /\ g \in Handlers /\ g.key \in {k, None}
      /\ name \in vms => g.at = "vm" /\ g.way = h.way /\ g.key = k
                         /\ g.ptr = h.ptr /\ g.vm = name /\ g.cut = h.cut
      /\ name \notin vms => g = IdleHandler
  BY <1>0, <1>1, <1>2, IdleHeld, ZenonT(30) DEF Handlers
<1> HIDE DEF g
<1>5. HeldBy(g)
  <2>1. CASE name \in vms
    BY <1>0, <1>1, <1>2, <1>3, <1>4, <2>1 DEF HeldBy
  <2>2. CASE name \notin vms
    BY <1>4, <2>2, IdleHeld
  <2>3. QED
    BY <2>1, <2>2
<1>5a. /\ handler' \in [Pcpus -> Handlers] /\ Held' /\ DistinctKeys'
       /\ h = handler[p]
  BY <1>0, <1>1, <1>4, <1>5, HeldStep, ZenonT(30) DEF HandlerInv
<1> HIDE DEF h
<1>6. ASSUME NEW w \in {"in", "out"}
      PROVE  /\ \A t \in Tids : t # k => (Pending(t, w)' <=> Pending(t, w))
             /\ Pending(k, w) <=> PendingBy(h, k, w)
             /\ Pending(k, w)' <=> PendingBy(g, k, w)
  <2>1. HandlerTypes /\ DistinctKeys /\ handler[p].key = k /\ h = handler[p]
    BY <1>1, <1>5a DEF HandlerInv
  <2>2. handler' = [handler EXCEPT ![p] = g] /\ g.key \in {k, None}
    BY <1>0, <1>4
  <2>3. QED
    BY <2>1, <2>2, PendingStep, ZenonT(30)
<1>7. ASSUME NEW w \in {"in", "out"}
      PROVE  /\ PendingBy(g, k, w) => PendingBy(h, k, w)
             /\ (k \in Threads => "vm" \in vms) /\ PendingBy(h, k, w) => PendingBy(g, k, w)
  <2>1. CASE name \in vms
    BY <1>0, <1>1, <1>4, <2>1 DEF PendingBy
  <2>2. CASE name \notin vms
    <3>1. ~PendingBy(g, k, w)
      BY <1>4, <2>2, IdleHeld DEF PendingBy
    <3>2. h.cut = 0 => k \in Threads /\ "vm" \notin vms
      BY <1>2, <1>3, <2>2 DEF Tids
    <3>3. QED
      BY <3>1, <3>2 DEF PendingBy
  <2>3. QED
    BY <2>1, <2>2
<1>8. FlagsHeld'
  <2>1. \A t \in Tids, w \in {"in", "out"} : Pending(t, w)' => Pending(t, w)
    BY <1>6, <1>7
  <2>2. QED
    BY <1>0, <2>1 DEF HandlerInv, FlagsHeld, Exact
<1>9. CountInv'
  <2>1. ASSUME NEW t \in Tids, t \in Threads => "vm" \in vms
        PROVE  IsCounted(t)' <=> IsCounted(t)
    <3>1. \A w \in {"in", "out"} : Pending(t, w)' <=> Pending(t, w)
      BY <1>6, <1>7, <2>1
    <3>2. QED
      BY <1>0, <3>1 DEF IsCounted
  <2>2. QED
    BY <1>0, <2>1, CountKept DEF HandlerInv
<1>10. QED
  BY <1>0, <1>5a, <1>8, <1>9 DEF HandlerInv, HandlerTypes

\* A thread that starts or stops to count moves the count by one, within its bounds.
LEMMA CountMoves ==
  ASSUME NEW S, NEW k \in S, IsFiniteSet(S), NEW C \in SUBSET S, NEW D \in SUBSET S,
         \A t \in S : t # k => (t \in D <=> t \in C)
  PROVE  /\ k \in C /\ k \notin D =>
              Cardinality(C) > 0 /\ Cardinality(D) = Cardinality(C) - 1
         /\ k \notin C /\ k \in D =>
              Cardinality(C) < Cardinality(S) /\ Cardinality(D) = Cardinality(C) + 1
<1>1. /\ IsFiniteSet(C) /\ IsFiniteSet(D) /\ Cardinality(C) \in Nat
      /\ Cardinality(D) \in Nat /\ Cardinality(S) \in Nat
  BY FS_Subset, FS_CardinalityType
<1>2. CASE k \in C /\ k \notin D
  <2>1. C = D \cup {k}
    BY <1>2
  <2>2. Cardinality(C) = Cardinality(D) + 1
    BY <1>1, <1>2, <2>1, FS_AddElement
  <2>3. QED
    BY <1>1, <1>2, <2>2
<1>3. CASE k \notin C /\ k \in D
  <2>1. D = C \cup {k}
    BY <1>3
  <2>2. Cardinality(D) = Cardinality(C) + 1
    BY <1>1, <1>3, <2>1, FS_AddElement
  <2>3. Cardinality(D) <= Cardinality(S)
    BY FS_Subset
  <2>4. QED
    BY <1>1, <1>3, <2>2, <2>3
<1>4. QED
  BY <1>2, <1>3

\* The count catches up with the flag.
LEMMA UpdateKeeps ==
  ASSUME ToolInv, HandlerInv, NEW p \in Pcpus, Update(p)
  PROVE  HandlerInv'
<1> DEFINE h == handler[p]
           New(n) == IF h.way = "in" THEN (IF n > 0 THEN n - 1 ELSE n)
                     ELSE (IF n < NbVcpus THEN n + 1 ELSE n)
<1>0. /\ h \in Handlers /\ h.at = "vm" /\ HeldBy(h)
      /\ handler' = [handler EXCEPT ![p] = IdleHandler]
      /\ count' = (IF h.vm = Gone THEN count ELSE [count EXCEPT ![h.vm] = New(@)])
      /\ raced' = (IF h.cut = 1 /\ h.vm = "vm" THEN 1 ELSE raced)
      /\ UNCHANGED <<owner, vms, torn, flag>>
  BY DEF Update, HandlerInv, HandlerTypes, Held, env
<1>1. PICK k \in Tids : h.key = k
  BY <1>0 DEF HeldBy
<1>2. /\ owner[OtherTid] = "other" /\ owner \in [Tids -> Vms \cup {None}]
      /\ OtherTid \notin Threads /\ Gone \notin Vms /\ None # Gone
      /\ count \in [Vms -> Nat] /\ flag \in [Tids -> {0, 1}] /\ raced \in {0, 1}
  BY RegistrationAssumption, ZenonT(30)
  DEF ToolInv, ToolTypes, OtherEntries, HandlerInv, HandlerTypes
<1>3. /\ h.vm \in Vms \cup {Gone} /\ h.cut \in {0, 1} /\ h.way \in {"in", "out"}
      /\ h.cut = 0 => h.vm = owner[k]
      /\ h.cut = 1 => h.vm \in {"vm", Gone}
  BY <1>0, <1>1, <1>2 DEF HeldBy, Handlers, Vms
<1>4. count' \in [Vms -> Nat] /\ raced' \in {0, 1}
  <2>1. \A n \in Nat : New(n) \in Nat
    BY EntriesFinite
  <2> HIDE DEF New
  <2>2. QED
    BY <1>0, <1>2, <1>3, <2>1
<1>4a. /\ handler' \in [Pcpus -> Handlers] /\ Held' /\ DistinctKeys'
       /\ h = handler[p]
  BY <1>0, <1>1, IdleHeld, HeldStep, ZenonT(30) DEF HandlerInv
<1>4b. /\ \A n \in Nat : h.way = "in" /\ n > 0 => New(n) = n - 1
       /\ \A n \in Nat : h.way = "out" /\ n < NbVcpus => New(n) = n + 1
  OBVIOUS
<1> HIDE DEF New, h
<1>5. ASSUME NEW w \in {"in", "out"}
      PROVE  /\ \A t \in Tids : t # k => (Pending(t, w)' <=> Pending(t, w))
             /\ Pending(k, w) <=> PendingBy(h, k, w)
             /\ ~Pending(k, w)'
  <2>1. HandlerTypes /\ DistinctKeys /\ handler[p].key = k /\ h = handler[p]
    BY <1>1, <1>4a DEF HandlerInv
  <2>2. handler' = [handler EXCEPT ![p] = IdleHandler] /\ IdleHandler.key \in {k, None}
    BY <1>0, IdleHeld
  <2>3. /\ \A t \in Tids : t # k => (Pending(t, w)' <=> Pending(t, w))
        /\ Pending(k, w) <=> PendingBy(h, k, w)
        /\ Pending(k, w)' <=> PendingBy(IdleHandler, k, w)
    BY <2>1, <2>2, PendingStep, ZenonT(30)
  <2>4. ~PendingBy(IdleHandler, k, w)
    BY IdleHeld DEF PendingBy
  <2>5. QED
    BY <2>3, <2>4
<1>6. FlagsHeld'
  <2>1. \A t \in Tids, w \in {"in", "out"} : Pending(t, w)' => Pending(t, w)
    BY <1>5
  <2>2. \A t \in Tids : Exact(t)' => Exact(t)
    BY <1>0 DEF Exact
  <2>3. QED
    BY <1>0, <2>1, <2>2 DEF HandlerInv, FlagsHeld
<1>7. ASSUME NEW a \in Vms, CountIs(a), h.cut = 1 \/ owner[k] # a, count'[a] = count[a]
      PROVE  CountIs(a)'
  <2>1. ASSUME NEW t \in Entries(a) PROVE IsCounted(t)' <=> IsCounted(t)
    <3>1. t \in Tids /\ (t = k => h.cut = 1)
      BY <1>7 DEF Entries
    <3>2. \A w \in {"in", "out"} : Pending(t, w)' <=> Pending(t, w)
      BY <1>5, <3>1 DEF PendingBy
    <3>3. QED
      BY <1>0, <3>2 DEF IsCounted
  <2>2. QED
    BY <1>0, <1>7, <2>1, CountSame
<1>8. ASSUME NEW a \in Vms, CountIs(a), h.cut = 0, owner[k] = a, Exact(k),
             Cardinality(Entries(a)) <= NbVcpus
      PROVE  CountIs(a)'
  <2> DEFINE C == Counted(a)
             D == Counted(a)'
             S == Entries(a)
  <2>1. S \subseteq Tids /\ IsFiniteSet(S) /\ k \in S /\ Cardinality(S) \in Nat
    BY <1>8, EntriesFinite DEF Entries
  <2>2. C = {t \in S : IsCounted(t)} /\ D = {t \in S : IsCounted(t)'}
    BY <1>0, CountedDef DEF Entries
  <2> HIDE DEF C, D, S
  <2>3. \A t \in S : t # k => (t \in D <=> t \in C)
    BY <1>0, <1>5, <2>1, <2>2, ZenonT(30) DEF IsCounted
  <2>4. Pending(k, h.way) /\ \A w \in {"in", "out"} : w # h.way => ~Pending(k, w)
    BY <1>0, <1>1, <1>3, <1>5, <1>8 DEF PendingBy
  <2>5. count[a] = Cardinality(C) /\ count[a] \in Nat /\ count'[a] = New(count[a])
        /\ Cardinality(C) \in Nat /\ Cardinality(D) \in Nat
    <3>1. count[a] = Cardinality(C) /\ count[a] \in Nat
      BY <1>2, <1>8 DEF CountIs, C
    <3>2. h.vm = a /\ h.vm # Gone
      BY <1>2, <1>3, <1>8
    <3>3. count'[a] = New(count[a])
      BY <1>0, <1>2, <3>2
    <3>4. C \in SUBSET Tids /\ D \in SUBSET Tids
      BY <2>1, <2>2
    <3>5. QED
      BY <3>1, <3>3, <3>4, EntriesFinite
  <2>6. CASE h.way = "in"
    <3>1. k \in C /\ k \notin D
      <4>1. flag[k] = 0
        BY <1>8, <2>4, <2>6 DEF HandlerInv, FlagsHeld
      <4>2. QED
        BY <1>0, <1>5, <2>1, <2>2, <2>4, <2>6, <4>1 DEF IsCounted
    <3>2. Cardinality(C) > 0 /\ Cardinality(D) = Cardinality(C) - 1
      BY <2>1, <2>2, <2>3, <3>1, CountMoves
    <3>3. count'[a] = Cardinality(D)
      BY <1>4b, <2>5, <2>6, <3>2
    <3>4. QED
      BY <3>3 DEF CountIs, D
  <2>7. CASE h.way = "out"
    <3>1. k \notin C /\ k \in D
      <4>1. flag[k] = 1
        BY <1>8, <2>4, <2>7 DEF HandlerInv, FlagsHeld
      <4>2. QED
        BY <1>0, <1>5, <2>1, <2>2, <2>4, <2>7, <4>1 DEF IsCounted
    <3>2. Cardinality(C) < Cardinality(S) /\ Cardinality(D) = Cardinality(C) + 1
      BY <2>1, <2>2, <2>3, <3>1, CountMoves
    <3>3. count'[a] = Cardinality(D)
      <4>1. Cardinality(C) < NbVcpus
        BY <1>8, <2>1, <2>5, <3>2, EntriesFinite DEF S
      <4>2. QED
        BY <1>4b, <2>5, <2>7, <3>2, <4>1, ZenonT(30)
    <3>4. QED
      BY <3>3 DEF CountIs, D
  <2>8. QED
    BY <1>3, <2>6, <2>7
<1>9. CountInv'
  <2>1. /\ Entries("other") = {OtherTid} /\ Entries("vm") \subseteq Threads
        /\ "other" \in Vms /\ "vm" \in Vms /\ "vm" # "other"
    BY <1>2 DEF ToolInv, OtherEntries, Entries, Tids, Vms
  <2>2. Cardinality(Entries("other")) <= NbVcpus /\ Cardinality(Entries("vm")) <= NbVcpus
    <3>1. Cardinality(Entries("other")) = 1
      BY <2>1, FS_Singleton
    <3>2. Cardinality(Entries("vm")) <= Cardinality(Threads)
      BY <2>1, RegistrationAssumption, FS_Subset
    <3>3. QED
      BY <3>1, <3>2, EntriesFinite DEF NbVcpus
  <2>3. CountIs("other")'
    <3>1. CASE h.cut = 0 /\ owner[k] = "other"
      <4>1. Exact(k)
        BY <1>1, <2>1, <3>1 DEF Exact, Entries
      <4>2. QED
        BY <1>8, <2>1, <2>2, <3>1, <4>1 DEF HandlerInv, CountInv
    <3>2. CASE h.cut = 1 \/ owner[k] # "other"
      <4>1. count'["other"] = count["other"]
        BY <1>0, <1>2, <1>3, <2>1, <3>2, RegistrationAssumption DEF Vms
      <4>2. QED
        BY <1>7, <2>1, <3>2, <4>1 DEF HandlerInv, CountInv
    <3>3. QED
      BY <1>3, <3>1, <3>2
  <2>4. ASSUME ("vm" \in vms)', raced' = 0, torn' = 0 PROVE CountIs("vm")'
    <3>0. CountIs("vm") /\ Exact(k) /\ (h.cut = 1 => h.vm # "vm")
      BY <1>0, <2>4 DEF HandlerInv, CountInv, Exact
    <3>1. CASE h.cut = 0 /\ owner[k] = "vm"
      BY <1>8, <2>1, <2>2, <3>0, <3>1, ZenonT(30)
    <3>2. CASE h.cut = 1 \/ owner[k] # "vm"
      <4>1. count'["vm"] = count["vm"]
        BY <1>0, <1>2, <1>3, <2>1, <3>0, <3>2
      <4>2. QED
        BY <1>7, <2>1, <3>0, <3>2, <4>1, ZenonT(30)
    <3>3. QED
      BY <1>3, <3>1, <3>2
  <2>5. QED
    BY <2>3, <2>4 DEF CountInv
<1>10. QED
  BY <1>0, <1>2, <1>4, <1>4a, <1>6, <1>9, ZenonT(30) DEF HandlerInv, HandlerTypes

\* No handler runs initially.
LEMMA HandlerInit == Init => HandlerInv
<1> SUFFICES ASSUME Init PROVE HandlerInv
  OBVIOUS
<1>1. handler = [p \in Pcpus |-> IdleHandler]
  BY DEF Init
<1>2. HandlerTypes
  BY <1>1, IdleHeld DEF Init, HandlerTypes
<1>3. Held /\ DistinctKeys
  BY <1>1, IdleHeld DEF Held, DistinctKeys
<1>4. \A t \in Tids, w \in {"in", "out"} : ~Pending(t, w)
  BY <1>1, IdleHeld DEF Pending, PendingBy
<1>5. FlagsHeld
  BY <1>4 DEF FlagsHeld
<1>6. \A a \in Vms : CountIs(a)
  <2> SUFFICES ASSUME NEW a \in Vms PROVE CountIs(a)
    OBVIOUS
  <2>1. \A t \in Entries(a) : ~IsCounted(t)
    BY <1>4 DEF IsCounted, Entries, Init
  <2>2. Counted(a) = {}
    BY <2>1, CountedDef
  <2>3. QED
    BY <2>2, FS_EmptySet DEF CountIs, Init
<1>7. QED
  BY <1>2, <1>3, <1>5, <1>6 DEF HandlerInv, CountInv, Vms

\* So every step keeps the handlers' invariant.
LEMMA HandlerNext == ToolInv /\ HandlerInv /\ [Next]_vars => HandlerInv'
<1> SUFFICES ASSUME ToolInv, HandlerInv, [Next]_vars PROVE HandlerInv'
  OBVIOUS
<1>1. CASE Qemu /\ UNCHANGED <<maps, tool, handler, history>>
  BY <1>1, HandlerSame DEF maps, history
<1>2. CASE Register
  BY <1>2, HandlerRegister
<1>3. CASE Cleanup
  BY <1>3, HandlerCleanup
<1>4. CASE ToolEnds
  BY <1>4, HandlerSame DEF ToolEnds, maps, history
<1>5. ASSUME NEW p \in Pcpus, NEW t \in Tids, NEW way \in {"in", "out"}, Lookup(p, t, way)
      PROVE  HandlerInv'
  BY <1>5, LookupKeeps
<1>6. ASSUME NEW p \in Pcpus, Handler(p) PROVE HandlerInv'
  BY <1>6, FlagKeeps, FindVmKeeps, UpdateKeeps DEF Handler
<1>7. CASE UNCHANGED vars
  BY <1>7, HandlerSame DEF vars, maps, history
<1>8. QED
  BY <1>1, <1>2, <1>3, <1>4, <1>5, <1>6, <1>7 DEF Next

\* And it always holds.
LEMMA HandlerAlways == Spec => []HandlerInv
BY ToolInit, ToolNext, HandlerInit, HandlerNext, PTL DEF Spec

\* The count of a registered VM is exact whatever tools ran, failed or were
\* killed while handlers held its elements.
THEOREM CountIsExact == Spec => []CountMatches
<1>1. ToolInv /\ HandlerInv => CountMatches
  BY DEF ToolInv, Achieved, HandlerInv, CountInv, CountIs, CountMatches
<1>2. QED
  BY <1>1, ToolAlways, HandlerAlways, PTL

\* No run of the tools for one VM changes the entries of another or puts its
\* count wrong.
THEOREM OtherVmIsKept == Spec => []OtherVmKept
<1>1. ToolInv /\ HandlerInv => OtherVmKept
  <2> SUFFICES ASSUME ToolInv, HandlerInv PROVE OtherVmKept
    OBVIOUS
  <2>1. Entries("other") = {OtherTid}
    BY DEF ToolInv, OtherEntries, Entries, Tids
  <2>2. QED
    BY <2>1 DEF HandlerInv, CountInv, CountIs, OtherVmKept
<1>2. QED
  BY <1>1, ToolAlways, HandlerAlways, PTL

=============================================================================
