------------------------ MODULE PhantomSwitchProofs ------------------------
(***************************************************************************)
(* Proofs about PhantomSwitch, for every number of pCPUs and vCPUs and     *)
(* every bound on the retry loops: its invariants, and that it implements  *)
(* PhantomSet.                                                             *)
(***************************************************************************)
EXTENDS PhantomRefinement, FiniteSetTheorems, TLAPS

\* What the locals of a handler hold at each step: a value it is about to
\* exchange leaves room for the exchange, and an invocation is counted in left.
LocalsOK ==
  \A p \in Pcpus :
    /\ pc[p] = "dec_cas" => old[p] > 0
    /\ pc[p] = "inc_cas" => old[p] < NbVcpus
    /\ pc[p] \in {"dec_cas", "inc_cas"} => attempt[p] < MaxAttempts
    /\ pc[p] # "task" => left[p] > 0

TypeInv == TypeOK /\ LocalsOK

\* The state has its types initially.
LEMMA TypeInit == Init => TypeInv
<1> SUFFICES ASSUME Init PROVE TypeInv
  OBVIOUS
<1>1. offState \in [Vcpus -> TaskStates]
  BY DEF Init, TaskStates
<1>2. QED
  BY <1>1, ConstAssumption DEF Init, TypeInv, TypeOK, LocalsOK, Steps

\* And every step keeps them.
LEMMA TypeNext == TypeInv /\ [Next]_vars => TypeInv'
<1> SUFFICES ASSUME TypeInv, [Next]_vars PROVE TypeInv'
  OBVIOUS
<1> USE ConstAssumption DEF TypeInv, TypeOK, LocalsOK, TaskStates, Steps
<1>1. ASSUME NEW p \in Pcpus, NEW n \in Vcpus \cup {Other},
             NEW s \in TaskStates, SchedSwitch(p, n, s)
      PROVE  TypeInv'
  BY <1>1 DEF SchedSwitch, locals
<1>2. ASSUME NEW v \in Vcpus, NEW m \in {0, 1}, GuestWrite(v, m)
      PROVE  TypeInv'
  BY <1>2 DEF GuestWrite, sched, locals
<1>3. CASE LoaderAttach \/ LoaderDetach
  BY <1>3 DEF LoaderAttach, LoaderDetach, sched, locals
<1>4. ASSUME NEW p \in Pcpus, InFlag(p) PROVE TypeInv'
  BY <1>4 DEF InFlag, Goto, sched, locals
<1>5. ASSUME NEW p \in Pcpus, DecLoad(p) PROVE TypeInv'
  BY <1>5 DEF DecLoad, LoadCount, Goto, sched
<1>6. ASSUME NEW p \in Pcpus, DecCas(p) PROVE TypeInv'
  BY <1>6 DEF DecCas, CasCount, Goto, sched
<1>7. ASSUME NEW p \in Pcpus, InSample(p) PROVE TypeInv'
  BY <1>7 DEF InSample, Goto, sched
<1>8. ASSUME NEW p \in Pcpus, OutFlag(p) PROVE TypeInv'
  BY <1>8 DEF OutFlag, Return, Goto, sched, locals
<1>9. ASSUME NEW p \in Pcpus, IncLoad(p) PROVE TypeInv'
  BY <1>9 DEF IncLoad, LoadCount, Goto, sched
<1>10. ASSUME NEW p \in Pcpus, IncCas(p) PROVE TypeInv'
  BY <1>10 DEF IncCas, CasCount, Goto, sched
<1>11. ASSUME NEW p \in Pcpus, OutSample(p) PROVE TypeInv'
  BY <1>11 DEF OutSample, Return, Goto, sched
<1>12. CASE UNCHANGED vars
  BY <1>12 DEF vars
<1> HIDE DEF TypeInv
<1>13. QED
  BY <1>1, <1>2, <1>3, <1>4, <1>5, <1>6, <1>7, <1>8, <1>9, <1>10, <1>11,
     <1>12 DEF Next, Environment, Handler

\* phantom_count stays in 0 .. nb_vcpus and so does every value handed to
\* the sample buffers, also after retry loops have given up.
THEOREM TypeCorrect == Spec => []TypeOK
<1>1. TypeInv => TypeOK
  BY DEF TypeInv
<1>2. QED
  BY <1>1, TypeInit, TypeNext, PTL DEF Spec

----------------------------------------------------------------------------
\* A vCPU thread is at one place at a time: current on one pCPU or being
\* switched in on one pCPU.
Distinct ==
  \A p \in Pcpus :
    /\ pc[p] = "task" => nxt[p] = Other
    /\ nxt[p] \in Vcpus => nxt[p] # cur[p]
    /\ \A q \in Pcpus : p # q =>
         /\ cur[p] \in Vcpus => cur[p] # cur[q] /\ cur[p] # nxt[q]
         /\ nxt[p] \in Vcpus => nxt[p] # nxt[q]

\* A handler on its way to the count has changed the flag of its own vCPU.
PendingFlag ==
  \A p \in Pcpus :
    /\ pc[p] \in {"inc", "inc_cas"} =>
         cur[p] \in Vcpus /\ isPhantom[cur[p]] = 1
    /\ pc[p] \in {"dec", "dec_cas"} =>
         nxt[p] \in Vcpus /\ isPhantom[nxt[p]] = 0

Placement == Distinct /\ PendingFlag

\* Initially no handler is in progress.
LEMMA PlacementInit == Init => Placement
  BY ConstAssumption DEF Init, Placement, Distinct, PendingFlag

\* A vCPU that is switched is in the hands of one handler only.
LEMMA PlacementNext == TypeInv /\ Placement /\ [Next]_vars => Placement'
<1> SUFFICES ASSUME TypeInv, Placement, [Next]_vars PROVE Placement'
  OBVIOUS
<1> USE ConstAssumption
    DEF TypeInv, TypeOK, Steps, Placement, Distinct, PendingFlag
<1>1. ASSUME NEW p \in Pcpus, NEW n \in Vcpus \cup {Other},
             NEW s \in TaskStates, SchedSwitch(p, n, s)
      PROVE  Placement'
  BY <1>1 DEF SchedSwitch, OffCpu, locals
<1>2. ASSUME NEW v \in Vcpus, NEW m \in {0, 1}, GuestWrite(v, m)
      PROVE  Placement'
  BY <1>2 DEF GuestWrite, sched, locals
<1>3. CASE LoaderAttach \/ LoaderDetach
  BY <1>3 DEF LoaderAttach, LoaderDetach, sched, locals
<1>4. ASSUME NEW p \in Pcpus, InFlag(p) PROVE Placement'
  BY <1>4 DEF InFlag, Goto, sched, locals
<1>5. ASSUME NEW p \in Pcpus, DecLoad(p) PROVE Placement'
  BY <1>5 DEF DecLoad, LoadCount, Goto, sched
<1>6. ASSUME NEW p \in Pcpus, DecCas(p) PROVE Placement'
  BY <1>6 DEF DecCas, CasCount, Goto, sched
<1>7. ASSUME NEW p \in Pcpus, InSample(p) PROVE Placement'
  BY <1>7 DEF InSample, Goto, sched
<1>8. ASSUME NEW p \in Pcpus, OutFlag(p) PROVE Placement'
  BY <1>8 DEF OutFlag, Return, Goto, sched, locals
<1>9. ASSUME NEW p \in Pcpus, IncLoad(p) PROVE Placement'
  BY <1>9 DEF IncLoad, LoadCount, Goto, sched
<1>10. ASSUME NEW p \in Pcpus, IncCas(p) PROVE Placement'
  BY <1>10 DEF IncCas, CasCount, Goto, sched
<1>11. ASSUME NEW p \in Pcpus, OutSample(p) PROVE Placement'
  BY <1>11 DEF OutSample, Return, Goto, sched
<1>12. CASE UNCHANGED vars
  BY <1>12 DEF vars
<1> HIDE DEF Placement
<1>13. QED
  BY <1>1, <1>2, <1>3, <1>4, <1>5, <1>6, <1>7, <1>8, <1>9, <1>10, <1>11,
     <1>12 DEF Next, Environment, Handler

----------------------------------------------------------------------------
\* The vCPUs that are counted are finitely many.
LEMMA CountedFinite ==
  /\ IsFiniteSet(Counted)
  /\ Counted \subseteq Vcpus
  /\ Cardinality(Counted) \in Nat
  /\ IsFiniteSet(Vcpus)
  /\ Cardinality(Vcpus) = NbVcpus
<1>1. IsFiniteSet(Vcpus) /\ Cardinality(Vcpus) = NbVcpus
  BY FS_Interval, ConstAssumption DEF Vcpus
<1>2. Counted \subseteq Vcpus
  BY DEF Counted, Flagged, DecPending
<1>3. QED
  BY <1>1, <1>2, FS_Subset, FS_CardinalityType

\* While the count is exact, a pending decrement finds a positive count and a
\* pending increment finds room: the vCPU itself is (is not) counted.
LEMMA RoomToUpdate ==
  ASSUME TypeInv, Placement, CountAccurate, lost = 0, NEW p \in Pcpus
  PROVE  /\ pc[p] \in {"dec", "dec_cas"} => nxt[p] \in Counted /\ count > 0
         /\ pc[p] \in {"inc", "inc_cas"} =>
              /\ cur[p] \in Vcpus
              /\ cur[p] \notin Counted
              /\ count < NbVcpus
<1>1. count = Cardinality(Counted)
  BY DEF CountAccurate
<1>2. ASSUME pc[p] \in {"dec", "dec_cas"} PROVE nxt[p] \in Counted /\ count > 0
  <2>1. nxt[p] \in Counted
    BY <1>2 DEF Placement, PendingFlag, Counted, DecPending
  <2>2. QED
    BY <2>1, <1>1, CountedFinite, FS_EmptySet
<1>3. ASSUME pc[p] \in {"inc", "inc_cas"}
      PROVE  cur[p] \in Vcpus /\ cur[p] \notin Counted /\ count < NbVcpus
  <2>1. cur[p] \in Vcpus /\ cur[p] \notin Counted
    BY <1>3 DEF Placement, Distinct, PendingFlag, Counted, IncPending, DecPending
  <2>2. Counted \subseteq Vcpus \ {cur[p]}
    BY <2>1, CountedFinite
  <2>3. IsFiniteSet(Vcpus \ {cur[p]})
        /\ Cardinality(Vcpus \ {cur[p]}) = NbVcpus - 1
    BY <2>1, CountedFinite, FS_RemoveElement
  <2>4. Cardinality(Counted) <= NbVcpus - 1
    BY <2>2, <2>3, FS_Subset
  <2>5. QED
    BY <2>1, <2>4, <1>1, CountedFinite, ConstAssumption
<1>4. QED
  BY <1>2, <1>3

\* A step that changes the counted vCPUs changes the count with them.
LEMMA CountNext ==
  TypeInv /\ Placement /\ CountAccurate /\ [Next]_vars => CountAccurate'
<1> SUFFICES ASSUME TypeInv, Placement, CountAccurate, [Next]_vars, lost' = 0
             PROVE  count' = Cardinality(Counted')
  BY DEF CountAccurate
<1>1. lost = 0 /\ count = Cardinality(Counted)
  <2>1. lost = 0 \/ lost' # 0
    BY DEF TypeInv, TypeOK, Next, Environment, Handler, SchedSwitch,
       GuestWrite, LoaderAttach, LoaderDetach, InFlag, DecLoad, DecCas,
       InSample, OutFlag, IncLoad, IncCas, OutSample, LoadCount, CasCount, vars
  <2>2. QED
    BY <2>1 DEF CountAccurate
<1>2. ASSUME Counted' = Counted, count' = count
      PROVE  count' = Cardinality(Counted')
  BY <1>1, <1>2
<1> DEFINE Same == Counted' = Counted /\ count' = count
<1> USE DEF Counted, Flagged, IncPending, DecPending, TypeInv, TypeOK, Steps
<1>3. ASSUME NEW p \in Pcpus, NEW n \in Vcpus \cup {Other},
             NEW s \in TaskStates, SchedSwitch(p, n, s)
      PROVE  Same
  BY <1>3 DEF SchedSwitch, locals
<1>4. ASSUME NEW v \in Vcpus, NEW m \in {0, 1}, GuestWrite(v, m)
      PROVE  Same
  BY <1>4 DEF GuestWrite, sched, locals
<1>5. ASSUME LoaderAttach \/ LoaderDetach PROVE Same
  BY <1>5 DEF LoaderAttach, LoaderDetach, sched, locals
<1>6. ASSUME NEW p \in Pcpus, InFlag(p) PROVE Same
  BY <1>6 DEF InFlag, Goto, sched, locals, Placement, Distinct, PendingFlag
<1>7. ASSUME NEW p \in Pcpus, InSample(p) PROVE Same
  BY <1>7 DEF InSample, Goto, sched
<1>8. ASSUME NEW p \in Pcpus, OutFlag(p) PROVE Same
  BY <1>8 DEF OutFlag, Return, Goto, sched, locals, Placement, Distinct,
     PendingFlag
<1>9. ASSUME NEW p \in Pcpus, OutSample(p) PROVE Same
  BY <1>9 DEF OutSample, Return, Goto, sched
<1>10. ASSUME UNCHANGED vars PROVE Same
  BY <1>10 DEF vars
\* The loads keep the count, and return early only when lost.
<1>11. ASSUME NEW p \in Pcpus, DecLoad(p) PROVE Same
  <2>1. count > 0
    BY <1>11, <1>1, RoomToUpdate DEF DecLoad, LoadCount
  <2>2. pc' = [pc EXCEPT ![p] = "dec_cas"]
    BY <1>11, <2>1 DEF DecLoad, LoadCount, Goto
  <2>3. QED
    BY <1>11, <2>2 DEF DecLoad, LoadCount, sched
<1>12. ASSUME NEW p \in Pcpus, IncLoad(p) PROVE Same
  <2>1. count < NbVcpus
    BY <1>12, <1>1, RoomToUpdate DEF IncLoad, LoadCount
  <2>2. pc' = [pc EXCEPT ![p] = "inc_cas"]
    BY <1>12, <2>1, ConstAssumption DEF IncLoad, LoadCount, Goto
  <2>3. QED
    BY <1>12, <2>2 DEF IncLoad, LoadCount, sched
<1>13. ASSUME NEW p \in Pcpus, DecCas(p) PROVE count' = Cardinality(Counted')
  <2>1. nxt[p] \in Counted
    BY <1>13, <1>1, RoomToUpdate DEF DecCas, CasCount
  <2>2. CASE count = old[p]
    <3>1. count' = count - 1
      BY <1>13, <2>2 DEF DecCas, CasCount
    <3>2. Counted' = Counted \ {nxt[p]}
      BY <1>13, <2>2 DEF DecCas, CasCount, Goto, sched, Placement, Distinct,
         PendingFlag
    <3> HIDE DEF Counted
    <3>3. QED
      BY <3>1, <3>2, <2>1, <1>1, CountedFinite, FS_RemoveElement, ZenonT(30)
  <2>3. CASE count # old[p]
    BY <1>13, <1>2, <2>3 DEF DecCas, CasCount, Goto, sched
  <2>4. QED
    BY <2>2, <2>3
<1>14. ASSUME NEW p \in Pcpus, IncCas(p) PROVE count' = Cardinality(Counted')
  <2>1. cur[p] \in Vcpus /\ cur[p] \notin Counted
    BY <1>14, <1>1, RoomToUpdate DEF IncCas, CasCount
  <2>2. CASE count = old[p]
    <3>1. count' = count + 1
      BY <1>14, <2>2 DEF IncCas, CasCount
    <3>2. Counted' = Counted \cup {cur[p]}
      BY <1>14, <2>1, <2>2 DEF IncCas, CasCount, Goto, sched, Placement,
         Distinct, PendingFlag
    <3> HIDE DEF Counted
    <3>3. QED
      BY <3>1, <3>2, <2>1, <1>1, CountedFinite, FS_AddElement, ZenonT(30)
  <2>3. CASE count # old[p]
    BY <1>14, <1>2, <2>3 DEF IncCas, CasCount, Goto, sched
  <2>4. QED
    BY <2>2, <2>3
<1> HIDE DEF Counted, TypeInv
<1>15. QED
  BY <1>2, <1>3, <1>4, <1>5, <1>6, <1>7, <1>8, <1>9, <1>10, <1>11, <1>12,
     <1>13, <1>14 DEF Next, Environment, Handler

\* Initially none is counted.
LEMMA CountInit == Init => CountAccurate
<1> SUFFICES ASSUME Init PROVE CountAccurate
  OBVIOUS
<1>1. Counted = {}
  BY DEF Init, Counted, Flagged, IncPending, DecPending
<1>2. QED
  BY <1>1, FS_EmptySet DEF Init, CountAccurate

\* The inductive invariant behind the two theorems on the counter.
CountInv == TypeInv /\ Placement /\ CountAccurate

\* So the count is accurate throughout.
LEMMA CountInvariant == Spec => []CountInv
<1>1. Init => CountInv
  BY TypeInit, PlacementInit, CountInit DEF CountInv
<1>2. CountInv /\ [Next]_vars => CountInv'
  BY TypeNext, PlacementNext, CountNext DEF CountInv
<1>3. QED
  BY <1>1, <1>2, PTL DEF Spec

\* As long as no retry loop has given up, phantom_count is the number of
\* vCPUs whose is_phantom is set, up to the handlers between the two updates.
THEOREM CountIsAccurate == Spec => []CountAccurate
<1>1. CountInv => CountAccurate
  BY DEF CountInv
<1>2. QED
  BY <1>1, CountInvariant, PTL

\* As long as no retry loop has given up, no decrement meets a zero count and
\* no increment a full one: the clamps of the two loops are never needed.
THEOREM ClampsAreUnused == Spec => []ClampsUnused
<1>1. CountInv => ClampsUnused
  BY RoomToUpdate DEF CountInv, ClampsUnused
<1>2. QED
  BY <1>1, CountInvariant, PTL

----------------------------------------------------------------------------
\* Why a running vCPU is not phantom: a flagged vCPU still has 1 in its slot,
\* so the handler that switches it in clears the flag, and nothing sets it
\* again before the vCPU is current.
SlotKept ==
  \A v \in Vcpus \ Foreign : isPhantom[v] = 1 => slot[v] = 1 /\ v < NrMsgs

IncomingCleared ==
  \A p \in Pcpus : pc[p] \notin {"task", "in"} /\ nxt[p] \in Vcpus \ Foreign
                     => isPhantom[nxt[p]] = 0

FlagInv == SlotKept /\ IncomingCleared /\ RunningNotPhantom

\* No flag is set initially.
LEMMA FlagInit == Init => FlagInv
  BY ConstAssumption
     DEF Init, FlagInv, SlotKept, IncomingCleared, RunningNotPhantom

\* A flag changes only in the handler of its vCPU.
LEMMA FlagNext ==
  TypeInv /\ Placement /\ FlagInv /\ [Next]_vars => FlagInv'
<1> SUFFICES ASSUME TypeInv, Placement, FlagInv, [Next]_vars PROVE FlagInv'
  OBVIOUS
<1> USE ConstAssumption
    DEF TypeInv, TypeOK, Steps, FlagInv, SlotKept, IncomingCleared,
        RunningNotPhantom
<1>1. ASSUME NEW p \in Pcpus, NEW n \in Vcpus \cup {Other},
             NEW s \in TaskStates, SchedSwitch(p, n, s)
      PROVE  FlagInv'
  BY <1>1 DEF SchedSwitch, locals
<1>2. ASSUME NEW v \in Vcpus, NEW m \in {0, 1}, GuestWrite(v, m)
      PROVE  FlagInv'
  BY <1>2 DEF GuestWrite, sched, locals
<1>3. CASE LoaderAttach \/ LoaderDetach
  BY <1>3 DEF LoaderAttach, LoaderDetach, sched, locals
<1>4. ASSUME NEW p \in Pcpus, InFlag(p) PROVE FlagInv'
  BY <1>4 DEF InFlag, G2hRead, Goto, sched, locals
<1>5. ASSUME NEW p \in Pcpus, DecLoad(p) PROVE FlagInv'
  BY <1>5 DEF DecLoad, LoadCount, Goto, sched
<1>6. ASSUME NEW p \in Pcpus, DecCas(p) PROVE FlagInv'
  BY <1>6 DEF DecCas, CasCount, Goto, sched
<1>7. ASSUME NEW p \in Pcpus, InSample(p) PROVE FlagInv'
  BY <1>7 DEF InSample, Goto, sched
<1>8. ASSUME NEW p \in Pcpus, OutFlag(p) PROVE FlagInv'
  <2>1. CASE Return(p) /\ UNCHANGED isPhantom
    BY <1>8, <2>1 DEF OutFlag, Return, Goto, sched, locals, Placement, Distinct
  <2>2. CASE ~(Return(p) /\ UNCHANGED isPhantom)
    BY <1>8, <2>2 DEF OutFlag, G2hRead, Goto, sched, locals, Placement, Distinct
  <2>3. QED
    BY <2>1, <2>2
<1>9. ASSUME NEW p \in Pcpus, IncLoad(p) PROVE FlagInv'
  BY <1>9 DEF IncLoad, LoadCount, Goto, sched
<1>10. ASSUME NEW p \in Pcpus, IncCas(p) PROVE FlagInv'
  BY <1>10 DEF IncCas, CasCount, Goto, sched
<1>11. ASSUME NEW p \in Pcpus, OutSample(p) PROVE FlagInv'
  BY <1>11 DEF OutSample, Return, Goto, sched
<1>12. CASE UNCHANGED vars
  BY <1>12 DEF vars
<1> HIDE DEF FlagInv
<1>13. QED
  BY <1>1, <1>2, <1>3, <1>4, <1>5, <1>6, <1>7, <1>8, <1>9, <1>10, <1>11,
     <1>12 DEF Next, Environment, Handler

\* A vCPU that executes guest code is never marked phantom, provided its slot
\* is its own guest's (it is not in Foreign).
THEOREM RunningIsNotPhantom == Spec => []RunningNotPhantom
<1> DEFINE Inv == TypeInv /\ Placement /\ FlagInv
<1>1. Init => Inv
  BY TypeInit, PlacementInit, FlagInit
<1>2. Inv /\ [Next]_vars => Inv'
  BY TypeNext, PlacementNext, FlagNext
<1>3. Inv => RunningNotPhantom
  BY DEF FlagInv
<1>4. QED
  BY <1>1, <1>2, <1>3, PTL DEF Spec

-----------------------------------------------------------------------------
(* PhantomSwitch implements PhantomSet.                                    *)

\* What the refinement needs beyond the invariants above: a
\* handler that has counted its outgoing vCPU leaves it flagged, the slots the
\* kfunc refuses stay 0, and during a switch swapped says of the outgoing vCPU
\* what its thread's state and its successor say; if it is to be counted it is
\* not in swapped.
OutgoingFlagged ==
  \A p \in Pcpus :
    pc[p] = "out_sample" => cur[p] \in Vcpus /\ isPhantom[cur[p]] = 1

SlotsInPage == \A v \in Vcpus : v >= NrMsgs => slot[v] = 0

SwapKnown ==
  \A p \in Pcpus :
    /\ pc[p] # "task" /\ cur[p] \in Vcpus =>
         (cur[p] \in swapped <=> offState[cur[p]] = "PREEMPTED" /\ nxt[p] \in Vcpus)
    /\ pc[p] \in {"inc", "inc_cas"} => cur[p] \notin swapped

RefInv == OutgoingFlagged /\ SlotsInPage /\ SwapKnown

\* What the mapping needs holds initially.
LEMMA RefInit == Init => RefInv
  BY DEF Init, RefInv, OutgoingFlagged, SlotsInPage, SwapKnown

\* And every step keeps it.
LEMMA RefNext == TypeInv /\ Placement /\ RefInv /\ [Next]_vars => RefInv'
<1> SUFFICES ASSUME TypeInv, Placement, RefInv, [Next]_vars PROVE RefInv'
  BY ZenonT(30)
<1> USE ConstAssumption
    DEF TypeInv, TypeOK, Steps, RefInv, OutgoingFlagged, SlotsInPage, SwapKnown
<1>1. ASSUME NEW p \in Pcpus, NEW n \in Vcpus \cup {Other},
             NEW s \in TaskStates, SchedSwitch(p, n, s)
      PROVE  RefInv'
  BY <1>1 DEF SchedSwitch, locals, Placement, Distinct
<1>2. ASSUME NEW v \in Vcpus, NEW m \in {0, 1}, GuestWrite(v, m)
      PROVE  RefInv'
  BY <1>2 DEF GuestWrite, sched, locals, Vcpus
<1>3. CASE LoaderAttach \/ LoaderDetach
  BY <1>3 DEF LoaderAttach, LoaderDetach, sched, locals
<1>4. ASSUME NEW p \in Pcpus, InFlag(p) PROVE RefInv'
  BY <1>4 DEF InFlag, Goto, sched, locals, Placement, Distinct
<1>5. ASSUME NEW p \in Pcpus, DecLoad(p) PROVE RefInv'
  BY <1>5 DEF DecLoad, LoadCount, Goto, sched
<1>6. ASSUME NEW p \in Pcpus, DecCas(p) PROVE RefInv'
  BY <1>6 DEF DecCas, CasCount, Goto, sched
<1>7. ASSUME NEW p \in Pcpus, InSample(p) PROVE RefInv'
  BY <1>7 DEF InSample, Goto, sched
<1>8. ASSUME NEW p \in Pcpus, OutFlag(p) PROVE RefInv'
  BY <1>8 DEF OutFlag, Return, Goto, sched, locals, Placement, Distinct, PrevState,
     Reported, TASK_RUNNING, TASK_WAKING
<1>9. ASSUME NEW p \in Pcpus, IncLoad(p) PROVE RefInv'
  BY <1>9 DEF IncLoad, LoadCount, Goto, sched, Placement, PendingFlag
<1>10. ASSUME NEW p \in Pcpus, IncCas(p) PROVE RefInv'
  BY <1>10 DEF IncCas, CasCount, Goto, sched, Placement, PendingFlag
<1>11. ASSUME NEW p \in Pcpus, OutSample(p) PROVE RefInv'
  BY <1>11 DEF OutSample, Return, Goto, sched, Placement, Distinct
<1>12. CASE UNCHANGED vars
  BY <1>12 DEF vars
<1> HIDE DEF RefInv
<1>13. QED
  BY <1>1, <1>2, <1>3, <1>4, <1>5, <1>6, <1>7, <1>8, <1>9, <1>10, <1>11,
     <1>12 DEF Next, Environment, Handler

----------------------------------------------------------------------------
\* The steps that begin and end a switch.

\* Every fact about a state that the step lemmas use.
AllInv == TypeInv /\ Placement /\ CountAccurate /\ FlagInv /\ RefInv

\* The initial state is mapped to the promised one.
LEMMA InitMaps == Init => Promise!Init
<1> SUFFICES ASSUME Init PROVE Promise!Init
  OBVIOUS
<1>1. SwitchingOut = {} /\ SwitchingIn = {} /\ Counted = {}
  BY ConstAssumption DEF Init, SwitchingOut, SwitchingIn, Counted, Flagged,
     IncPending, DecPending
<1>2. Runnable = Executing /\ swapped = {}
  BY DEF Init, Runnable, Executing
<1>3. Executing \subseteq Vcpus
  BY DEF Executing
<1>4. QED
  BY <1>1, <1>2, <1>3 DEF Init, Promise!Init

\* The tracepoint fires: prev starts to leave and next to come.
LEMMA SwitchMaps ==
  ASSUME AllInv, NEW p \in Pcpus, NEW n \in Vcpus \cup {Other},
         NEW s \in TaskStates, SchedSwitch(p, n, s)
  PROVE  Promise!Next
<1> DEFINE out  == {cur[p]} \cap Vcpus
           in   == {n} \cap Vcpus
           stay == IF s # "SLEEPING" THEN out ELSE {}
           swap == IF s = "PREEMPTED" /\ n \in Vcpus THEN out ELSE {}
<1> USE ConstAssumption
    DEF AllInv, TypeInv, TypeOK, Placement, Distinct, SchedSwitch
<1>1. out \subseteq Executing /\ stay \subseteq out /\ swap \subseteq stay
  BY DEF Executing
<1>2. in \subseteq Promise!Off
  BY DEF Promise!Off, OffCpu, Executing, SwitchingOut, SwitchingIn
<1>3. Executing' = Executing \ out
  BY DEF Executing
<1>4. SwitchingOut' = SwitchingOut \cup out
  BY DEF SwitchingOut
<1>5. SwitchingIn' = SwitchingIn \cup in
  BY DEF SwitchingIn
<1>6. Runnable' = (Runnable \ out) \cup stay
  BY DEF Runnable, TaskStates
<1>7. swapped' = (swapped \ out) \cup swap
  OBVIOUS
<1>8. Counted' = Counted /\ slot' = slot /\ count' = count /\ lost' = lost
  BY DEF Counted, Flagged, IncPending, DecPending
<1> HIDE DEF out, in, stay, swap
<1>9. Promise!Switch(out, stay, swap, in)
  BY <1>3, <1>4, <1>5, <1>6, <1>7, <1>8 DEF Promise!Switch
<1>10. QED
  BY <1>1, <1>2, <1>9 DEF Promise!Next

\* A program returns.  If it is the last one on its event the switch is over,
\* and both vCPUs are as PhantomSet requires.
LEMMA ReturnMaps ==
  ASSUME AllInv, NEW p \in Pcpus, Return(p), pc[p] \in {"out", "out_sample"},
         slot' = slot, count' = count, lost' = lost, isPhantom' = isPhantom,
         cur[p] \in Vcpus \ (Foreign \cup swapped) /\ slot[cur[p]] = 1
           /\ offState[cur[p]] # "SLEEPING" => isPhantom[cur[p]] = 1
  PROVE  Promise!Next \/ UNCHANGED Promise!vars
<1> DEFINE out == {cur[p]} \cap Vcpus
           in  == {nxt[p]} \cap Vcpus
<1>0. /\ cur \in [Pcpus -> Vcpus \cup {Other}] /\ nxt \in [Pcpus -> Vcpus \cup {Other}]
      /\ pc \in [Pcpus -> Steps] /\ offState \in [Vcpus -> TaskStates]
      /\ Other \notin Vcpus /\ Distinct /\ PendingFlag
  BY ConstAssumption DEF AllInv, TypeInv, TypeOK, Placement
<1>1. Counted' = Counted
  BY <1>0 DEF Return, Goto, sched, Counted, Flagged, IncPending, DecPending, PendingFlag
<1>2. CASE left[p] > 1
  <2>1. Executing' = Executing /\ SwitchingOut' = SwitchingOut
    BY <1>0, <1>2 DEF Return, Goto, sched, Executing, SwitchingOut
  <2>2. SwitchingIn' = SwitchingIn /\ Runnable' = Runnable /\ swapped' = swapped
    BY <1>2 DEF Return, sched, SwitchingIn, Runnable
  <2>3. QED
    BY <1>1, <2>1, <2>2 DEF Promise!vars
<1>3. CASE ~(left[p] > 1)
  <2>0. /\ pc' = [pc EXCEPT ![p] = "task"] /\ pc[p] # "task"
        /\ cur' = [cur EXCEPT ![p] = nxt[p]] /\ nxt' = [nxt EXCEPT ![p] = Other]
        /\ offState' = IF nxt[p] \in Vcpus THEN [offState EXCEPT ![nxt[p]] = "RUNNING"]
                       ELSE offState
        /\ swapped' = swapped \ {nxt[p]}
    BY <1>3 DEF Return, Goto
  <2>1. out \subseteq SwitchingOut /\ in \subseteq SwitchingIn
    BY <2>0 DEF SwitchingOut, SwitchingIn
  <2>2. Executing' = Executing \cup in
    BY <1>0, <2>0 DEF Executing
  <2>3. SwitchingOut' = SwitchingOut \ out
    BY <1>0, <2>0 DEF SwitchingOut, Distinct
  <2>4. SwitchingIn' = SwitchingIn \ in
    BY <1>0, <2>0 DEF SwitchingIn, Distinct
  <2>5. Runnable' = Runnable \cup in
    BY <1>0, <2>0 DEF Runnable, TaskStates
  <2>6. \A v \in out \ Foreign :
          v \in Runnable \ swapped /\ slot[v] = 1 => v \in Counted
    BY <1>0 DEF Runnable, Counted, Flagged, IncPending, Distinct
  <2>7. \A v \in in \ Foreign : v \notin Counted
    BY <1>0 DEF AllInv, FlagInv, IncomingCleared, Counted, Flagged, DecPending, Distinct
  <2>8. swapped' = swapped \ in
    BY <1>0, <2>0 DEF AllInv, TypeInv, TypeOK
  <2> HIDE DEF out, in
  <2>9. Promise!Complete(out, in)
    BY <1>1, <2>2, <2>3, <2>4, <2>5, <2>6, <2>7, <2>8, ZenonT(30)
       DEF Promise!Complete
  <2>10. QED
    BY <2>1, <2>9 DEF Promise!Next
<1>4. QED
  BY <1>2, <1>3

----------------------------------------------------------------------------
\* The steps in between.

\* A step that changes neither the scheduling state, the slots nor the counted
\* vCPUs is a stuttering step of PhantomSet.
LEMMA SameMaps ==
  ASSUME UNCHANGED <<sched, slot, count, lost, Counted>>, TypeInv,
         \A p \in Pcpus : pc[p] = "task" <=> pc'[p] = "task"
  PROVE  UNCHANGED Promise!vars
<1>1. Executing' = Executing /\ SwitchingOut' = SwitchingOut
  BY DEF sched, Executing, SwitchingOut
<1>2. SwitchingIn' = SwitchingIn /\ Runnable' = Runnable /\ swapped' = swapped
  BY DEF sched, SwitchingIn, Runnable
<1>3. QED
  BY <1>1, <1>2 DEF Promise!vars

\* A write of the guest is one of the promise.
LEMMA WriteMaps ==
  ASSUME NEW v \in Vcpus, NEW m \in {0, 1}, GuestWrite(v, m)
  PROVE  Promise!Next
<1> USE DEF GuestWrite, sched
<1>1. v \in Executing \cup Foreign
  BY DEF Executing
<1>2. Executing' = Executing /\ SwitchingOut' = SwitchingOut
  BY DEF Executing, SwitchingOut
<1>3. SwitchingIn' = SwitchingIn /\ Runnable' = Runnable /\ swapped' = swapped
  BY DEF SwitchingIn, Runnable
<1>4. Counted' = Counted
  BY DEF Counted, Flagged, IncPending, DecPending
<1>5. Promise!Write(v, m)
  BY <1>2, <1>3, <1>4 DEF Promise!Write
<1>6. QED
  BY <1>1, <1>5 DEF Promise!Next

\* The settled decrement: the vCPU being switched in leaves the set, with the
\* count one less or, if the loop gave up, with lost set.
LEMMA UnmarkMaps ==
  ASSUME AllInv, NEW p \in Pcpus, pc[p] \in {"dec", "dec_cas"},
         pc' = [pc EXCEPT ![p] = "in_sample"],
         UNCHANGED <<sched, slot, isPhantom>>,
         count' \in 0 .. NbVcpus,
         \/ count' = count - 1 /\ lost' = lost
         \/ count' = count /\ lost' = 1
  PROVE  Promise!Next
<1> DEFINE v == nxt[p]
<1> USE ConstAssumption
    DEF AllInv, TypeInv, TypeOK, Placement, Distinct, PendingFlag, sched
<1>1. v \in Vcpus /\ v \in SwitchingIn /\ v \in Counted
  BY DEF SwitchingIn, Counted, DecPending
<1>2. Counted' = Counted \ {v}
  BY DEF Counted, Flagged, IncPending, DecPending
<1>3. Executing' = Executing /\ SwitchingOut' = SwitchingOut
  BY DEF Executing, SwitchingOut
<1>4. SwitchingIn' = SwitchingIn /\ Runnable' = Runnable /\ swapped' = swapped
  BY DEF SwitchingIn, Runnable
<1> HIDE DEF v
<1>5. Promise!Unmark(v)
  BY <1>1, <1>2, <1>3, <1>4 DEF Promise!Unmark
<1>6. QED
  BY <1>1, <1>5 DEF Promise!Next

\* The settled increment: the vCPU being switched out joins the set.
LEMMA MarkMaps ==
  ASSUME AllInv, NEW p \in Pcpus, pc[p] \in {"inc", "inc_cas"},
         pc' = [pc EXCEPT ![p] = "out_sample"],
         UNCHANGED <<sched, slot, isPhantom>>,
         count' \in 0 .. NbVcpus,
         \/ count' = count + 1 /\ lost' = lost
         \/ count' = count /\ lost' = 1
  PROVE  Promise!Next
<1> DEFINE v == cur[p]
<1> USE ConstAssumption
    DEF AllInv, TypeInv, TypeOK, Placement, Distinct, PendingFlag, sched
<1>1. v \in Vcpus /\ v \in SwitchingOut /\ v \notin Counted
  BY DEF SwitchingOut, Counted, Flagged, IncPending, DecPending
<1>2. Counted' = Counted \cup {v}
  BY DEF Counted, Flagged, IncPending, DecPending
<1>3. (slot[v] = 1 \/ v \in Foreign) /\ v \notin swapped
  BY DEF FlagInv, SlotKept, RefInv, SwapKnown
<1>4. Executing' = Executing /\ SwitchingOut' = SwitchingOut
  BY DEF Executing, SwitchingOut
<1>5. SwitchingIn' = SwitchingIn /\ Runnable' = Runnable /\ swapped' = swapped
  BY DEF SwitchingIn, Runnable
<1> HIDE DEF v
<1>6. Promise!Mark(v)
  BY <1>1, <1>2, <1>3, <1>4, <1>5 DEF Promise!Mark
<1>7. QED
  BY <1>1, <1>6 DEF Promise!Next

\* Every step is mapped to a promised step, or to none.
LEMMA NextMaps ==
  ASSUME AllInv, [Next]_vars
  PROVE  Promise!Next \/ UNCHANGED Promise!vars
<1> DEFINE Goal == Promise!Next \/ UNCHANGED Promise!vars
<1>0. count' \in 0 .. NbVcpus
  <2>1. TypeInv'
    BY TypeNext DEF AllInv
  <2>2. QED
    BY <2>1 DEF TypeInv, TypeOK
<1>1. ASSUME NEW p \in Pcpus, NEW n \in Vcpus \cup {Other},
             NEW s \in TaskStates, SchedSwitch(p, n, s)
      PROVE  Goal
  BY <1>1, SwitchMaps
<1>2. ASSUME NEW v \in Vcpus, NEW m \in {0, 1}, GuestWrite(v, m)
      PROVE  Goal
  BY <1>2, WriteMaps
<1>3. ASSUME LoaderAttach \/ LoaderDetach \/ UNCHANGED vars PROVE Goal
  <2>1. UNCHANGED <<sched, slot, count, lost, isPhantom, pc>>
    BY <1>3 DEF LoaderAttach, LoaderDetach, vars, sched
  <2>2. Counted' = Counted
    BY <2>1 DEF sched, Counted, Flagged, IncPending, DecPending
  <2>3. QED
    BY <2>1, <2>2, SameMaps DEF AllInv
<1>4. ASSUME NEW p \in Pcpus, InFlag(p) PROVE Goal
  <2> USE DEF AllInv, TypeInv, TypeOK, Steps, InFlag, Goto
  <2>1. Counted' = Counted
    BY <1>4 DEF sched, Counted, Flagged, IncPending, DecPending, Placement,
       Distinct, PendingFlag
  <2>2. \A q \in Pcpus : pc[q] = "task" <=> pc'[q] = "task"
    BY <1>4
  <2>3. QED
    BY <1>4, <2>1, <2>2, SameMaps
<1>5. ASSUME NEW p \in Pcpus, InSample(p) PROVE Goal
  <2> USE DEF AllInv, TypeInv, TypeOK, Steps, InSample, Goto
  <2>1. Counted' = Counted
    BY <1>5 DEF sched, Counted, Flagged, IncPending, DecPending
  <2>2. \A q \in Pcpus : pc[q] = "task" <=> pc'[q] = "task"
    BY <1>5
  <2>3. QED
    BY <1>5, <2>1, <2>2, SameMaps
<1>6. ASSUME NEW p \in Pcpus, OutFlag(p) PROVE Goal
  <2> DEFINE v == cur[p]
             Sets == /\ v \in Vcpus
                     /\ G2hRead(v) = 1
                     /\ PrevState(p) \in {TASK_RUNNING, TASK_WAKING}
                     /\ isPhantom[v] = 0
  <2>1. CASE Sets
    <3> USE DEF AllInv, TypeInv, TypeOK, Steps
    <3>1. /\ pc[p] = "out" /\ pc' = [pc EXCEPT ![p] = "inc"]
          /\ isPhantom' = [isPhantom EXCEPT ![v] = 1]
          /\ UNCHANGED <<sched, slot, count, lost>>
      BY <1>6, <2>1 DEF OutFlag, Goto
    <3>2. Counted' = Counted
      BY <2>1, <3>1 DEF sched, Counted, Flagged, IncPending, DecPending,
         Placement, Distinct, PendingFlag
    <3>3. QED
      BY <3>1, <3>2, SameMaps
  <2>2. CASE ~Sets
    <3>1. /\ pc[p] = "out" /\ Return(p)
          /\ UNCHANGED <<slot, count, lost, isPhantom>>
      BY <1>6, <2>2, ZenonT(30) DEF OutFlag
    <3>2. v \in Vcpus \ (Foreign \cup swapped) /\ slot[v] = 1
            /\ offState[v] # "SLEEPING" => isPhantom[v] = 1
      <4>1. v \in Vcpus /\ slot[v] = 1 => G2hRead(v) = 1
        BY ConstAssumption DEF AllInv, RefInv, SlotsInPage, G2hRead, Vcpus
      <4>2. v \in Vcpus => isPhantom[v] \in {0, 1}
        BY DEF AllInv, TypeInv, TypeOK
      <4>3. v \in Vcpus \ swapped /\ offState[v] # "SLEEPING"
              => PrevState(p) = TASK_RUNNING
        <5>1. v \in Vcpus => offState[v] \in TaskStates
          BY DEF AllInv, TypeInv, TypeOK
        <5>2. v \in Vcpus \ swapped /\ nxt[p] \in Vcpus => offState[v] # "PREEMPTED"
          BY <3>1 DEF AllInv, RefInv, SwapKnown
        <5>3. QED
          BY <5>1, <5>2 DEF TaskStates, PrevState, Reported
      <4>4. QED
        BY <4>1, <4>2, <4>3, <2>2
    <3>3. QED
      BY <3>1, <3>2, ReturnMaps, ZenonT(30)
  <2>3. QED
    BY <2>1, <2>2
<1>7. ASSUME NEW p \in Pcpus, OutSample(p) PROVE Goal
  <2>1. /\ pc[p] = "out_sample" /\ Return(p)
        /\ UNCHANGED <<slot, count, lost, isPhantom>>
    BY <1>7 DEF OutSample
  <2>2. isPhantom[cur[p]] = 1
    BY <2>1 DEF AllInv, RefInv, OutgoingFlagged
  <2>3. QED
    BY <2>1, <2>2, ReturnMaps
<1>8. ASSUME NEW p \in Pcpus, DecLoad(p) \/ DecCas(p) PROVE Goal
  <2> USE DEF AllInv, TypeInv, TypeOK, Steps
  <2>1. UNCHANGED <<sched, slot, isPhantom>> /\ pc[p] \in {"dec", "dec_cas"}
    BY <1>8 DEF DecLoad, DecCas, LoadCount, CasCount
  <2>2. \/ /\ pc' = [pc EXCEPT ![p] = "in_sample"]
           /\ \/ count' = count - 1 /\ lost' = lost
              \/ count' = count /\ lost' = 1
        \/ /\ pc' = [pc EXCEPT ![p] = "dec"] \/ pc' = [pc EXCEPT ![p] = "dec_cas"]
           /\ count' = count /\ lost' = lost
    BY <1>8, RoomToUpdate DEF DecLoad, DecCas, LoadCount, CasCount, Goto
  <2>3. CASE pc' = [pc EXCEPT ![p] = "in_sample"]
    BY <1>0, <2>1, <2>2, <2>3, UnmarkMaps, ZenonT(30)
  <2>4. CASE pc' = [pc EXCEPT ![p] = "dec"] \/ pc' = [pc EXCEPT ![p] = "dec_cas"]
    <3>1. Counted' = Counted
      BY <2>1, <2>4 DEF sched, Counted, Flagged, IncPending, DecPending
    <3>2. \A q \in Pcpus : pc[q] = "task" <=> pc'[q] = "task"
      BY <2>1, <2>4
    <3>3. count' = count /\ lost' = lost
      BY <2>1, <2>2, <2>4
    <3>4. QED
      BY <2>1, <3>1, <3>2, <3>3, SameMaps
  <2>5. QED
    BY <2>2, <2>3, <2>4
<1>9. ASSUME NEW p \in Pcpus, IncLoad(p) \/ IncCas(p) PROVE Goal
  <2> USE DEF AllInv, TypeInv, TypeOK, Steps
  <2>1. UNCHANGED <<sched, slot, isPhantom>> /\ pc[p] \in {"inc", "inc_cas"}
    BY <1>9 DEF IncLoad, IncCas, LoadCount, CasCount
  <2>2. \/ /\ pc' = [pc EXCEPT ![p] = "out_sample"]
           /\ \/ count' = count + 1 /\ lost' = lost
              \/ count' = count /\ lost' = 1
        \/ /\ pc' = [pc EXCEPT ![p] = "inc"] \/ pc' = [pc EXCEPT ![p] = "inc_cas"]
           /\ count' = count /\ lost' = lost
    BY <1>9, RoomToUpdate, ConstAssumption
       DEF IncLoad, IncCas, LoadCount, CasCount, Goto
  <2>3. CASE pc' = [pc EXCEPT ![p] = "out_sample"]
    BY <1>0, <2>1, <2>2, <2>3, MarkMaps, ZenonT(30)
  <2>4. CASE pc' = [pc EXCEPT ![p] = "inc"] \/ pc' = [pc EXCEPT ![p] = "inc_cas"]
    <3>1. Counted' = Counted
      BY <2>1, <2>4 DEF sched, Counted, Flagged, IncPending, DecPending
    <3>2. \A q \in Pcpus : pc[q] = "task" <=> pc'[q] = "task"
      BY <2>1, <2>4
    <3>3. count' = count /\ lost' = lost
      BY <2>1, <2>2, <2>4
    <3>4. QED
      BY <2>1, <3>1, <3>2, <3>3, SameMaps
  <2>5. QED
    BY <2>2, <2>3, <2>4
<1>10. QED
  BY <1>1, <1>2, <1>3, <1>4, <1>5, <1>6, <1>7, <1>8, <1>9
     DEF Next, Environment, Handler

\* The handlers on all pCPUs implement PhantomSet: to the set of phantom vCPUs
\* and its number they do only what PhantomSet allows.  The vCPUs they miss are
\* exactly those that PhantomSet excepts, preempted in favour of another vCPU.
THEOREM HandlersImplementPromise == Spec => ImplementsPromise
<1>1. Init => AllInv
  BY TypeInit, PlacementInit, CountInit, FlagInit, RefInit DEF AllInv
<1>2. AllInv /\ [Next]_vars => AllInv'
  BY TypeNext, PlacementNext, CountNext, FlagNext, RefNext DEF AllInv
<1>3. AllInv /\ [Next]_vars => [Promise!Next]_(Promise!vars)
  BY NextMaps
<1>4. QED
  BY <1>1, <1>2, <1>3, InitMaps, PTL DEF Spec, ImplementsPromise, Promise!Spec

=============================================================================
