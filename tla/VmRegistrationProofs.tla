------------------------ MODULE VmRegistrationProofs ------------------------
(***************************************************************************)
(* Proofs about VmRegistration, for every number of threads, host CPUs and *)
(* tool runs: what the tools do to the maps, and to the handlers that hold *)
(* elements of them, and what register_vm learns from QEMU.                *)
(* RegistrationCountProofs has the handlers' own steps.                    *)
(***************************************************************************)
EXTENDS VmRegistration, FiniteSetTheorems, TLAPS

\* What the maps and the locals of the tool can hold.
ToolTypes ==
  /\ threads \subseteq Threads /\ asked \subseteq Threads /\ reported \subseteq Threads
  /\ owner \in [Tids -> Vms \cup {None}]
  /\ vms \subseteq Vms
  /\ registry \subseteq {1, 2} /\ pinned \subseteq {1, 2}
  /\ keys \subseteq Threads
  /\ kept \in {0, 1} /\ torn \in {0, 1}

\* The other VM's entries are those of its own thread.
OtherEntries ==
  /\ owner[OtherTid] = "other" /\ "other" \in vms
  /\ \A t \in Threads : owner[t] # "other"

\* How far register_vm has come, seen from each of its steps.
Registering ==
  /\ pc \in {"delete", "last_delete"} /\ kept = 0 => Entries("vm") \subseteq keys
  /\ pc = "reset" /\ kept = 0 => Entries("vm") = {}
  /\ pc = "insert" =>
       /\ "vm" \in vms /\ keys \subseteq reported /\ torn = kept
       /\ kept = 0 => Entries("vm") = reported \ keys
  /\ pc \in {"pin_1", "pin_2", "registry_1", "registry_2"} =>
       /\ "vm" \in vms /\ torn = kept
       /\ kept = 0 => Entries("vm") = reported
  /\ pc = "pin_2" => 1 \in pinned
  /\ pc \in {"registry_1", "registry_2"} => 1 \in pinned /\ 2 \in pinned
  /\ pc = "registry_2" => 1 \in registry

\* How far cleanup has come while its exit status is 0.
Cleaning ==
  ret = 0 =>
    /\ pc \in {"drop_1", "drop_2", "drop_vm", "last_scan", "last_delete", "exit"}
         => pinned = {}
    /\ pc = "drop_2" => 1 \notin registry
    /\ pc \in {"drop_vm", "last_scan", "last_delete", "exit"} =>
         1 \notin registry /\ 2 \notin registry
    /\ pc \in {"last_scan", "last_delete", "exit"} => "vm" \notin vms
    /\ pc = "exit" /\ kept = 0 => Entries("vm") = {}

\* What a tool has achieved lasts until the next one is started.
Achieved ==
  /\ done # "nothing" => pc = "off"
  /\ done = "registered" =>
       /\ "vm" \in vms /\ torn = kept
       /\ 1 \in registry /\ 2 \in registry /\ 1 \in pinned /\ 2 \in pinned
       /\ kept = 0 => Entries("vm") = reported
  /\ done = "cleaned" =>
       /\ "vm" \notin vms /\ 1 \notin registry /\ 2 \notin registry /\ pinned = {}
       /\ kept = 0 => Entries("vm") = {}

ToolInv == ToolTypes /\ OtherEntries /\ Registering /\ Cleaning /\ Achieved

\* The invariant of the tools holds initially.
LEMMA ToolInit == Init => ToolInv
<1> SUFFICES ASSUME Init PROVE ToolInv
  OBVIOUS
<1>1. ToolTypes /\ OtherEntries
  BY RegistrationAssumption
  DEF Init, DialogueInit, ToolTypes, OtherEntries, Vms, Tids
<1>2. Registering /\ Cleaning /\ Achieved
  BY DEF Init, DialogueInit, Registering, Cleaning, Achieved
<1>3. QED
  BY <1>1, <1>2 DEF ToolInv

\* The steps of QEMU and of the dialogue leave the maps alone.
LEMMA ToolDialogue ==
  ASSUME ToolInv, UNCHANGED <<maps, tool, handler, history>>,
         Qemu \/ Ask \/ ToolGone
  PROVE  ToolInv'
<1> USE DEF ToolInv, ToolTypes, OtherEntries, Registering, Cleaning, Achieved,
            Entries, maps, tool, history
<1>1. CASE Qemu
  BY <1>1 DEF Qemu, VmStop, QemuAnswer, QemuEvent
<1>2. CASE \E S \in (SUBSET Threads) \ {{}} : QmpConnect(S)
  BY <1>2 DEF QmpConnect, answer
<1>3. CASE ReadGreeting \/ ReadCapabilities
  BY <1>3 DEF ReadGreeting, ReadCapabilities, SendAfter, Hangup, answer
<1>4. CASE ReadReply
  BY <1>4 DEF ReadReply, Hangup
<1>5. CASE ToolGone
  BY <1>5 DEF ToolGone, Hangup, answer
<1>6. QED
  BY <1>1, <1>2, <1>3, <1>4, <1>5, ZenonT(30) DEF Ask

\* The steps of register_vm and setup_vm_maps.
LEMMA ToolRegister ==
  ASSUME ToolInv,
         \/ RegisterStart /\ Begin
         \/ Scan("scan", "delete")
         \/ Delete("delete", "reset")
         \/ Reset
         \/ Insert
         \/ PinBuffer("pin_1", 1, "pin_2")
         \/ PinBuffer("pin_2", 2, "registry_1")
         \/ RegisterBuffer("registry_1", 1, "registry_2") /\ UNCHANGED done
         \/ RegisterBuffer("registry_2", 2, "off") /\ done' = "registered"
  PROVE  ToolInv'
<1> USE RegistrationAssumption
    DEF ToolInv, ToolTypes, OtherEntries, Registering, Cleaning, Achieved,
        Entries, Vms, Tids, other, answer
<1>1. CASE RegisterStart /\ Begin
  BY <1>1 DEF RegisterStart, Begin, maps, history
<1>2. CASE Scan("scan", "delete")
  BY <1>2 DEF Scan, maps
<1>3. CASE Delete("delete", "reset")
  BY <1>3 DEF Delete, DeleteVcpu
<1>4. CASE Reset
  BY <1>4 DEF Reset, UpdateVm
<1>5. CASE Insert
  BY <1>5 DEF Insert, UpdateVcpu, history
<1>6. CASE PinBuffer("pin_1", 1, "pin_2") \/ PinBuffer("pin_2", 2, "registry_1")
  BY <1>6, ZenonT(30) DEF PinBuffer, history
<1>7. CASE RegisterBuffer("registry_1", 1, "registry_2") /\ UNCHANGED done
  BY <1>7 DEF RegisterBuffer, history
<1>8. CASE RegisterBuffer("registry_2", 2, "off") /\ done' = "registered"
  BY <1>8 DEF RegisterBuffer, history
<1>9. QED
  BY <1>1, <1>2, <1>3, <1>4, <1>5, <1>6, <1>7, <1>8, ZenonT(30)

\* The steps of cleanup.
LEMMA ToolCleanup == ASSUME ToolInv, Cleanup PROVE ToolInv'
<1> USE RegistrationAssumption
    DEF ToolInv, ToolTypes, OtherEntries, Registering, Cleaning, Achieved,
        Entries, Vms, Tids, answer
<1>1. CASE CleanupStart /\ Begin
  BY <1>1 DEF CleanupStart, Begin, maps, history
<1>2. CASE Unpin
  BY <1>2 DEF Unpin, history
<1>3. ASSUME NEW b \in {1, 2}, NEW step, NEW next, DropBuffer(step, b, next),
             \/ step = "drop_1" /\ b = 1 /\ next = "drop_2"
             \/ step = "drop_2" /\ b = 2 /\ next = "drop_vm"
      PROVE  ToolInv'
  <2>1. /\ ToolTypes' /\ OtherEntries' /\ Registering' /\ Achieved'
    BY <1>3, ZenonT(30) DEF DropBuffer, history
  <2>2. CASE ret' = 1
    BY <2>1, <2>2
  <2>3. CASE registry' = registry \ {b} /\ ret' = ret
    BY <1>3, <2>1, <2>3 DEF DropBuffer
  <2>4. QED
    BY <1>3, <2>2, <2>3 DEF DropBuffer
<1>4. CASE DropVm
  BY <1>4 DEF DropVm, DeleteVm, history
<1>5. CASE Scan("last_scan", "last_delete")
  BY <1>5 DEF Scan, maps
<1>6. CASE NoVcpus
  BY <1>6 DEF NoVcpus, maps, history
<1>7. CASE Delete("last_delete", "exit")
  BY <1>7 DEF Delete, DeleteVcpu
<1>8. CASE Exit
  BY <1>8 DEF Exit, maps, history
<1>9. QED
  BY <1>1, <1>2, <1>3, <1>4, <1>5, <1>6, <1>7, <1>8, ZenonT(30) DEF Cleanup

\* So every step keeps it.
LEMMA ToolNext == ToolInv /\ [Next]_vars => ToolInv'
<1> SUFFICES ASSUME ToolInv, [Next]_vars PROVE ToolInv'
  OBVIOUS
<1>1. CASE Qemu /\ UNCHANGED <<maps, tool, handler, history>>
  BY <1>1, ToolDialogue
<1>2. CASE Register
  BY <1>2, ToolDialogue, ToolRegister DEF Register
<1>3. CASE Cleanup
  BY <1>3, ToolCleanup
<1>4. CASE ToolEnds
  <2>1. CASE ToolGone /\ UNCHANGED <<maps, tool, handler, history>>
    BY <2>1, ToolDialogue
  <2>2. CASE ~ (ToolGone /\ UNCHANGED <<maps, tool, handler, history>>)
    BY <1>4, <2>2, ZenonT(30)
    DEF ToolEnds, ToolInv, ToolTypes, OtherEntries, Registering, Cleaning,
        Achieved, Entries, maps, history
  <2>3. QED
    BY <2>1, <2>2
<1>5. ASSUME NEW p \in Pcpus,
             \/ \E t \in Tids, way \in {"in", "out"} : Lookup(p, t, way)
             \/ Handler(p)
      PROVE  ToolInv'
  <2>1. UNCHANGED env
    BY <1>5, ZenonT(30) DEF Lookup, Handler, Flag, FindVm, Update
  <2>2. QED
    BY <2>1
    DEF env, dialogue, answer, tool, ToolInv, ToolTypes, OtherEntries, Registering,
        Cleaning, Achieved, Entries
<1>6. CASE UNCHANGED vars
  BY <1>6
  DEF vars, dialogue, answer, maps, tool, history, ToolInv, ToolTypes, OtherEntries,
      Registering, Cleaning, Achieved, Entries
<1>7. QED
  BY <1>1, <1>2, <1>3, <1>4, <1>5, <1>6 DEF Next

\* And it always holds.
LEMMA ToolAlways == Spec => []ToolInv
BY ToolInit, ToolNext, PTL DEF Spec

\* A run of register_vm that ends with success leaves exactly the reported
\* threads, the VM and both buffers, whatever runs came before.
THEOREM RegistrationIsExact == Spec => []RegisteredExactly
<1>1. ToolInv => RegisteredExactly
  BY ZenonT(30) DEF ToolInv, ToolTypes, Achieved, RegisteredExactly
<1>2. QED
  BY <1>1, ToolAlways, PTL

\* A run of cleanup that ends with success leaves nothing of the VM.
THEOREM CleanupIsComplete == Spec => []CleanedUp
<1>1. ToolInv => CleanedUp
  BY DEF ToolInv, ToolTypes, Achieved, CleanedUp
<1>2. QED
  BY <1>1, ToolAlways, PTL

----------------------------------------------------------------------------
(* The counts.                                                             *)

HandlerTypes ==
  /\ flag \in [Tids -> {0, 1}]
  /\ count \in [Vms -> Nat]
  /\ handler \in [Pcpus -> Handlers]
  /\ raced \in {0, 1}

\* What handler h holds: the elements of its own thread and VM, or, once one of
\* the two was deleted, elements that are in no map or that are the VM's.
HeldBy(h) ==
  /\ h.at = "idle" => h.key = None
  /\ h.at # "idle" => h.key \in Tids
  /\ h.at # "vm" => h.vm = None
  /\ h.at = "vm" => h.vm # None
  /\ h.cut = 0 =>
       /\ h.ptr = h.key
       /\ h.key \in Threads => owner[h.key] = "vm"
       /\ h.at = "vm" => h.vm = owner[h.key]
  /\ h.cut = 1 =>
       h.key \in Threads /\ h.ptr \in Threads \cup {Gone} /\ h.vm # "other"
  /\ h.ptr \in Threads => owner[h.ptr] = "vm"

Held == \A p \in Pcpus : HeldBy(handler[p])

\* No thread is switched on two CPUs at once.
DistinctKeys ==
  \A p, q \in Pcpus : handler[p].key = handler[q].key /\ p # q => handler[p].key = None

\* The threads of which the flag is exact: for those of the VM, as long as no
\* handler has interfered and no entry was deleted.
Exact(t) == t = OtherTid \/ (raced = 0 /\ torn = 0)

\* Handler h has changed the flag of t and has still to change the count.
PendingBy(h, t, way) ==
  h.at \in {"flagged", "vm"} /\ h.way = way /\ h.cut = 0 /\ h.key = t

Pending(t, way) == \E p \in Pcpus : PendingBy(handler[p], t, way)

\* A thread on whose behalf a handler is about to count has the flag it was left with.
FlagsHeld ==
  \A t \in Tids :
    /\ Exact(t) /\ Pending(t, "out") => flag[t] = 1
    /\ Exact(t) /\ Pending(t, "in") => flag[t] = 0

\* The count stands for t.
IsCounted(t) == (flag[t] = 1 /\ ~Pending(t, "out")) \/ Pending(t, "in")

CountIs(a) == count[a] = Cardinality(Counted(a))

CountInv ==
  /\ CountIs("other")
  /\ "vm" \in vms /\ raced = 0 /\ torn = 0 => CountIs("vm")

HandlerInv == HandlerTypes /\ Held /\ DistinctKeys /\ FlagsHeld /\ CountInv

\* Counted, for one entry at a time.
LEMMA CountedDef == ASSUME NEW a \in Vms
                    PROVE  /\ Counted(a) = {t \in Entries(a) : IsCounted(t)}
                           /\ Counted(a)' = {t \in Entries(a)' : IsCounted(t)'}
  BY DEF Counted, IsCounted, Pending, PendingBy

\* There are finitely many entries.
LEMMA EntriesFinite ==
  /\ IsFiniteSet(Tids) /\ NbVcpus \in Nat \ {0}
  /\ \A S \in SUBSET Tids : IsFiniteSet(S) /\ Cardinality(S) \in Nat
<1>1. IsFiniteSet(Tids)
  BY RegistrationAssumption, FS_AddElement DEF Tids
<1>2. NbVcpus \in Nat \ {0}
  BY RegistrationAssumption, FS_CardinalityType, FS_EmptySet DEF NbVcpus
<1>3. QED
  BY <1>1, <1>2, FS_Subset, FS_CardinalityType

\* A step that changes neither which threads a VM has nor which of them count
\* leaves its count exact.
LEMMA CountSame ==
  ASSUME NEW a \in Vms, CountIs(a), count'[a] = count[a],
         \A t \in Tids : owner'[t] = a <=> owner[t] = a,
         \A t \in Entries(a) : IsCounted(t)' <=> IsCounted(t)
  PROVE  CountIs(a)'
<1>1. Entries(a)' = Entries(a)
  BY DEF Entries
<1>2. {t \in Entries(a)' : IsCounted(t)'} = {t \in Entries(a) : IsCounted(t)}
  BY <1>1
<1>3. Counted(a)' = Counted(a)
  BY <1>2, CountedDef, ZenonT(30)
<1>4. QED
  BY <1>3 DEF CountIs

----------------------------------------------------------------------------
(* Elements that go or come while handlers hold them.                      *)

\* What a change of the maps may do to a handler h: g has lost or regained
\* elements, unless it works for the other VM.
Touched(h, g) ==
  /\ g \in Handlers /\ g.at = h.at /\ g.way = h.way /\ g.key = h.key
  /\ g.cut = 0 => g = h
  /\ h.key = OtherTid => g = h

\* What a change of the VM's elements leaves of the handlers, and of the other VM.
LEMMA MapStep ==
  ASSUME ToolInv, HandlerInv, NEW f \in [Pcpus -> Handlers], handler' = f,
         \A p \in Pcpus : Touched(handler[p], f[p]),
         \A t \in Tids : owner'[t] = "other" <=> owner[t] = "other",
         flag'[OtherTid] = flag[OtherTid], count'["other"] = count["other"]
  PROVE  /\ DistinctKeys'
         /\ \A t \in Tids, w \in {"in", "out"} : Pending(t, w)' => Pending(t, w)
         /\ \A w \in {"in", "out"} : Pending(OtherTid, w)' <=> Pending(OtherTid, w)
         /\ CountIs("other")'
<1>1. DistinctKeys'
  BY DEF HandlerInv, DistinctKeys, Touched
<1>2. \A t \in Tids, w \in {"in", "out"} : Pending(t, w)' => Pending(t, w)
  BY DEF Touched, Pending, PendingBy
<1>3. \A w \in {"in", "out"} : Pending(OtherTid, w)' <=> Pending(OtherTid, w)
  BY DEF Touched, Pending, PendingBy
<1>4. CountIs("other")'
  <2>1. Entries("other") = {OtherTid}
    BY DEF ToolInv, OtherEntries, Entries, Tids
  <2>2. IsCounted(OtherTid)' <=> IsCounted(OtherTid)
    BY <1>3 DEF IsCounted
  <2>3. QED
    BY <2>1, <2>2, CountSame DEF HandlerInv, CountInv, Vms
<1>5. QED
  BY <1>1, <1>2, <1>3, <1>4

\* A handler whose vcpus element is freed holds an element that is in no map.
LEMMA FreedHeld ==
  ASSUME ToolInv, NEW h \in Handlers, HeldBy(h), NEW t \in Threads,
         flag \in [Tids -> {0, 1}]
  PROVE  /\ Touched(h, Freed(h, t))
         /\ h.ptr # t => Freed(h, t) = h
         /\ h.ptr = t => /\ h.key \in Threads
                         /\ Freed(h, t).ptr = Gone /\ Freed(h, t).cut = 1
                         /\ Freed(h, t).vm = h.vm /\ h.vm # "other"
<1>1. CASE h.ptr # t
  BY <1>1 DEF Freed, Touched
<1>2. CASE h.ptr = t
  <2>1. h.key \in Threads /\ h.vm # "other" /\ h.key # OtherTid /\ flag[t] \in {0, 1}
    <3>1. h.cut \in {0, 1} /\ t # OtherTid /\ OtherTid \notin Threads /\ None # "other"
      BY RegistrationAssumption DEF Handlers, Vms
    <3>2. h.key \in Threads /\ h.vm # "other"
      BY <1>2, <3>1 DEF HeldBy
    <3>3. QED
      BY <3>1, <3>2 DEF Tids
  <2>2. Freed(h, t) = [h EXCEPT !.ptr = Gone, !.old = flag[t], !.cut = 1]
    BY <1>2 DEF Freed
  <2> DEFINE g == Freed(h, t)
  <2>3. /\ g \in Handlers /\ g.at = h.at /\ g.way = h.way /\ g.key = h.key
        /\ g.ptr = Gone /\ g.cut = 1 /\ g.vm = h.vm
    BY <2>1, <2>2, ZenonT(30) DEF Handlers
  <2> HIDE DEF g
  <2>4. Touched(h, g)
    BY <2>1, <2>3 DEF Touched
  <2>5. QED
    BY <1>2, <2>1, <2>3, <2>4 DEF g
<1>3. QED
  BY <1>1, <1>2

\* An entry is deleted under the handlers.
LEMMA VcpuDeleted ==
  ASSUME ToolInv, HandlerInv, NEW t \in Threads, DeleteVcpu(t), torn' = 1,
         UNCHANGED <<vms, count, raced>>
  PROVE  HandlerInv'
<1>1. /\ flag \in [Tids -> {0, 1}] /\ owner \in [Tids -> Vms \cup {None}]
      /\ t \in Tids /\ t # OtherTid /\ owner[t] # "other" /\ None # "other"
      /\ owner' = [owner EXCEPT ![t] = None] /\ flag' = [flag EXCEPT ![t] = 0]
  BY RegistrationAssumption
  DEF ToolInv, ToolTypes, OtherEntries, HandlerInv, HandlerTypes, DeleteVcpu, Tids, Vms
<1>2. \A p \in Pcpus : /\ handler[p] \in Handlers /\ HeldBy(handler[p])
                       /\ handler'[p] = Freed(handler[p], t)
  BY DEF HandlerInv, HandlerTypes, Held, DeleteVcpu
<1>3. ASSUME NEW p \in Pcpus
      PROVE  /\ Touched(handler[p], handler'[p])
             /\ handler[p].ptr # t => handler'[p] = handler[p]
             /\ handler[p].ptr = t => /\ handler[p].key \in Threads
                                      /\ handler'[p].ptr = Gone /\ handler'[p].cut = 1
                                      /\ handler'[p].vm = handler[p].vm
                                      /\ handler[p].vm # "other"
  BY <1>1, <1>2, FreedHeld
<1>4. handler' \in [Pcpus -> Handlers]
  BY <1>2, <1>3 DEF DeleteVcpu, Touched
<1>5. Held'
  <2> SUFFICES ASSUME NEW p \in Pcpus PROVE HeldBy(handler[p])'
    BY ZenonT(30) DEF Held
  <2>1. CASE handler[p].ptr # t
    <3>1. handler'[p] = handler[p]
      BY <1>3, <2>1, ZenonT(30)
    <3>2. QED
      BY <1>1, <1>2, <2>1, <3>1 DEF HeldBy
  <2>2. CASE handler[p].ptr = t
    <3>1. /\ handler[p].key \in Threads
          /\ handler'[p].ptr = Gone /\ handler'[p].cut = 1 /\ 1 # 0
          /\ handler'[p].vm = handler[p].vm /\ handler[p].vm # "other"
      BY <1>3, <2>2
    <3>2. handler'[p].at = handler[p].at /\ handler'[p].key = handler[p].key
      BY <1>3 DEF Touched
    <3>3. Gone \notin Threads /\ Threads \subseteq Tids
      BY RegistrationAssumption DEF Tids
    <3>4. /\ handler[p].at = "idle" => handler[p].key = None
          /\ handler[p].at # "vm" => handler[p].vm = None
          /\ handler[p].at = "vm" => handler[p].vm # None
      BY <1>2 DEF HeldBy
    <3>5. QED
      BY <3>1, <3>2, <3>3, <3>4, ZenonT(30) DEF HeldBy
  <2>3. QED
    BY <2>1, <2>2
<1>6. \A s \in Tids : owner'[s] = "other" <=> owner[s] = "other"
  BY <1>1, ZenonT(30)
<1>7. /\ DistinctKeys' /\ CountIs("other")'
      /\ \A w \in {"in", "out"} : Pending(OtherTid, w)' <=> Pending(OtherTid, w)
  BY <1>1, <1>3, <1>4, <1>6, MapStep
<1>8. FlagsHeld' /\ CountInv'
  BY <1>1, <1>7 DEF HandlerInv, FlagsHeld, CountInv, Exact, Tids
<1>9. HandlerTypes'
  BY <1>1, <1>4 DEF HandlerInv, HandlerTypes
<1>10. QED
  BY <1>5, <1>7, <1>8, <1>9 DEF HandlerInv

\* A new entry may be an element that a handler still holds.
LEMMA VcpuUpdated ==
  ASSUME ToolInv, HandlerInv, NEW t \in Threads, UpdateVcpu(t),
         torn = 0 => owner[t] # "vm", UNCHANGED <<vms, count, torn, raced>>
  PROVE  HandlerInv'
<1>1. /\ flag \in [Tids -> {0, 1}] /\ owner \in [Tids -> Vms \cup {None}]
      /\ t \in Tids /\ t # OtherTid /\ owner[t] # "other" /\ t # Gone
      /\ owner' = [owner EXCEPT ![t] = "vm"] /\ flag' = [flag EXCEPT ![t] = 0]
  BY RegistrationAssumption
  DEF ToolInv, ToolTypes, OtherEntries, HandlerInv, HandlerTypes, UpdateVcpu, Tids
<1>2. PICK taken \in SUBSET {p \in Pcpus : handler[p].ptr = Gone} :
        handler' = [p \in Pcpus |-> IF p \in taken THEN [handler[p] EXCEPT !.ptr = t]
                                    ELSE Freed(handler[p], t)]
  BY Zenon DEF UpdateVcpu
<1>3. \A p \in Pcpus : handler[p] \in Handlers /\ HeldBy(handler[p])
  BY DEF HandlerInv, HandlerTypes, Held
<1>4. ASSUME NEW p \in Pcpus, p \in taken
      PROVE  /\ Touched(handler[p], handler'[p]) /\ handler[p].ptr # t
             /\ handler[p].key \in Threads /\ handler'[p].cut = 1 /\ handler[p].cut = 1
             /\ handler'[p].ptr = t /\ handler'[p].vm = handler[p].vm
  <2>1. handler[p].ptr = Gone /\ handler'[p] = [handler[p] EXCEPT !.ptr = t]
    BY <1>2, <1>3, <1>4, ZenonT(30)
  <2>2. handler[p].key \in Threads /\ handler[p].cut = 1 /\ handler[p].key # OtherTid
    <3>1. handler[p].cut # 0
      BY <1>3, <2>1, RegistrationAssumption DEF HeldBy, Handlers
    <3>2. QED
      BY <1>3, <3>1, RegistrationAssumption DEF HeldBy, Handlers
  <2>3. /\ handler'[p] \in Handlers /\ handler'[p].at = handler[p].at
        /\ handler'[p].way = handler[p].way /\ handler'[p].key = handler[p].key
        /\ handler'[p].ptr = t /\ handler'[p].cut = handler[p].cut
        /\ handler'[p].vm = handler[p].vm
    BY <1>1, <1>3, <2>1 DEF Handlers
  <2>4. QED
    BY <1>1, <2>1, <2>2, <2>3 DEF Touched
<1>5. ASSUME NEW p \in Pcpus, p \notin taken
      PROVE  /\ handler'[p] = Freed(handler[p], t)
             /\ Touched(handler[p], handler'[p])
             /\ handler[p].ptr # t => handler'[p] = handler[p]
             /\ handler[p].ptr = t => /\ handler[p].key \in Threads
                                      /\ handler'[p].ptr = Gone /\ handler'[p].cut = 1
                                      /\ handler'[p].vm = handler[p].vm
                                      /\ handler[p].vm # "other"
  BY <1>1, <1>2, <1>3, <1>5, FreedHeld, ZenonT(30)
<1>6. \A p \in Pcpus : Touched(handler[p], handler'[p])
  BY <1>4, <1>5
<1>7. handler' \in [Pcpus -> Handlers]
  BY <1>2, <1>6, ZenonT(30) DEF Touched
<1>8. Held'
  <2> SUFFICES ASSUME NEW p \in Pcpus PROVE HeldBy(handler[p])'
    BY ZenonT(30) DEF Held
  <2>1. CASE p \notin taken /\ handler[p].ptr # t
    <3>1. handler'[p] = handler[p]
      BY <1>5, <2>1, ZenonT(30)
    <3>2. QED
      BY <1>1, <1>3, <2>1, <3>1 DEF HeldBy
  <2>2. CASE p \notin taken /\ handler[p].ptr = t
    <3>1. /\ handler'[p].at = handler[p].at /\ handler'[p].key = handler[p].key
          /\ handler'[p].vm = handler[p].vm /\ handler[p].vm # "other"
          /\ handler'[p].ptr = Gone /\ handler'[p].cut = 1 /\ 1 # 0
          /\ handler[p].key \in Threads
      BY <1>5, <2>2 DEF Touched
    <3>2. Gone \notin Threads /\ Threads \subseteq Tids
      BY RegistrationAssumption DEF Tids
    <3>3. /\ handler[p].at = "idle" => handler[p].key = None
          /\ handler[p].at # "vm" => handler[p].vm = None
          /\ handler[p].at = "vm" => handler[p].vm # None
      BY <1>3 DEF HeldBy
    <3>4. QED
      BY <3>1, <3>2, <3>3, ZenonT(30) DEF HeldBy
  <2>3. CASE p \in taken
    <3>1. /\ handler'[p].at = handler[p].at /\ handler'[p].key = handler[p].key
          /\ handler'[p].vm = handler[p].vm /\ handler'[p].cut = 1 /\ 1 # 0
          /\ handler'[p].ptr = t /\ handler[p].key \in Threads /\ handler[p].cut = 1
      BY <1>4, <2>3 DEF Touched
    <3>2. owner'[t] = "vm" /\ Threads \subseteq Tids
      BY <1>1, ZenonT(30) DEF Tids
    <3>3. /\ handler[p].at = "idle" => handler[p].key = None
          /\ handler[p].at # "vm" => handler[p].vm = None
          /\ handler[p].at = "vm" => handler[p].vm # None
          /\ handler[p].vm # "other"
      BY <1>3, <3>1 DEF HeldBy
    <3>4. QED
      BY <3>1, <3>2, <3>3, ZenonT(30) DEF HeldBy
  <2>4. QED
    BY <2>1, <2>2, <2>3
<1>9. \A s \in Tids : owner'[s] = "other" <=> owner[s] = "other"
  BY <1>1
<1>10. /\ DistinctKeys' /\ CountIs("other")'
       /\ \A s \in Tids, w \in {"in", "out"} : Pending(s, w)' => Pending(s, w)
       /\ \A w \in {"in", "out"} : Pending(OtherTid, w)' <=> Pending(OtherTid, w)
  BY <1>1, <1>6, <1>7, <1>9, MapStep
\* While the entries are intact the new one is held by no handler.
<1>11. ASSUME torn = 0
       PROVE  /\ \A p \in Pcpus : handler[p].cut = 0 => handler[p].key # t
              /\ \A s \in Tids, w \in {"in", "out"} : Pending(s, w)' <=> Pending(s, w)
  <2>1. \A p \in Pcpus : handler[p].ptr # t /\ (handler[p].cut = 0 => handler[p].key # t)
    BY <1>3, <1>11, ZenonT(30) DEF HeldBy
  <2>2. \A p \in Pcpus : handler[p].cut = 0 => handler'[p] = handler[p]
    BY <1>4, <1>5, <2>1
  <2>3. \A s \in Tids, w \in {"in", "out"} : Pending(s, w) => Pending(s, w)'
    BY <2>2, ZenonT(30) DEF Pending, PendingBy
  <2>4. QED
    BY <1>10, <2>1, <2>3
<1>12. FlagsHeld'
  <2> SUFFICES ASSUME NEW s \in Tids, Exact(s)'
               PROVE  /\ Pending(s, "out")' => flag'[s] = 1
                      /\ Pending(s, "in")' => flag'[s] = 0
    BY DEF FlagsHeld
  <2>1. CASE s = t
    <3>1. torn = 0
      BY <1>1, <2>1 DEF Exact
    <3>2. \A w \in {"in", "out"} : ~Pending(s, w)
      BY <1>11, <2>1, <3>1 DEF Pending, PendingBy
    <3>3. QED
      BY <1>10, <3>2
  <2>2. CASE s # t
    <3>1. flag'[s] = flag[s] /\ Exact(s)
      BY <1>1, <2>2 DEF Exact
    <3>2. QED
      BY <1>10, <3>1 DEF HandlerInv, FlagsHeld
  <2>3. QED
    BY <2>1, <2>2
<1>13. CountInv'
  <2>1. ASSUME ("vm" \in vms)', raced' = 0, torn' = 0 PROVE CountIs("vm")'
    <3>1. torn = 0 /\ CountIs("vm") /\ owner[t] # "vm"
      BY <2>1, ZenonT(30) DEF HandlerInv, CountInv
    <3>2. ~IsCounted(t)'
      BY <1>1, <1>10, <1>11, <3>1 DEF IsCounted, Pending, PendingBy
    <3>3. \A s \in Tids : s # t => (IsCounted(s)' <=> IsCounted(s))
      BY <1>1, <1>11, <3>1, ZenonT(30) DEF IsCounted
    <3>4. Counted("vm")' = Counted("vm")
      <4>1. \A s \in Tids : (s \in Entries("vm")' /\ IsCounted(s)')
                              <=> (s \in Entries("vm") /\ IsCounted(s))
        BY <1>1, <3>1, <3>2, <3>3 DEF Entries
      <4>2. Entries("vm") \subseteq Tids /\ Entries("vm")' \subseteq Tids /\ "vm" \in Vms
        BY DEF Entries, Vms
      <4>3. QED
        BY <4>1, <4>2, CountedDef, Zenon
    <3>5. QED
      BY <3>1, <3>4 DEF CountIs
  <2>2. QED
    BY <1>10, <2>1 DEF CountInv
<1>14. HandlerTypes'
  BY <1>1, <1>7 DEF HandlerInv, HandlerTypes
<1>15. QED
  BY <1>8, <1>10, <1>12, <1>13, <1>14 DEF HandlerInv

\* Likewise for the vms element.
LEMMA VmFreedHeld ==
  ASSUME ToolInv, NEW h \in Handlers, HeldBy(h)
  PROVE  Touched(h, VmFreed(h)) /\ HeldBy(VmFreed(h))
<1>1. CASE h.vm # "vm"
  BY <1>1 DEF VmFreed, Touched
<1>2. CASE h.vm = "vm"
  <2>1. /\ h.at = "vm" /\ h.key \in Threads /\ h.key # OtherTid
        /\ h.ptr \in Threads \cup {Gone}
    <3>1. None # "vm" /\ OtherTid \notin Threads /\ h.cut \in {0, 1}
          /\ owner[OtherTid] = "other"
      BY RegistrationAssumption DEF Handlers, Vms, ToolInv, OtherEntries
    <3>2. QED
      BY <1>2, <3>1 DEF HeldBy, Tids
  <2> DEFINE g == VmFreed(h)
  <2>2. /\ g \in Handlers /\ g.at = h.at /\ g.way = h.way /\ g.key = h.key
        /\ g.ptr = h.ptr /\ g.cut = 1 /\ g.vm = Gone
    BY <1>2, ZenonT(30) DEF VmFreed, Handlers
  <2> HIDE DEF g
  <2>3. Gone \notin Vms /\ Gone # None /\ "other" \in Vms
    BY RegistrationAssumption DEF Vms
  <2>4. HeldBy(g)
    BY <2>1, <2>2, <2>3 DEF HeldBy, Tids
  <2>5. QED
    BY <2>1, <2>2, <2>4 DEF Touched, g
<1>3. QED
  BY <1>1, <1>2

\* A change of the VM's entry, in which the handlers' vms elements are freed or
\* handed out again.
LEMMA VmChanged ==
  ASSUME ToolInv, HandlerInv, NEW f, handler' = f, f = [p \in Pcpus |-> f[p]],
         \A p \in Pcpus : Touched(handler[p], f[p]) /\ HeldBy(f[p]),
         count' = [count EXCEPT !["vm"] = 0], raced' \in {0, 1}, torn' \in {0, 1},
         UNCHANGED <<owner, flag>>,
         \/ "vm" \notin vms' /\ UNCHANGED <<raced, torn>>
         \/ torn' = 0 => Entries("vm") = {}
  PROVE  HandlerInv'
<1>1. f \in [Pcpus -> Handlers]
  BY DEF Touched
<1>2. HandlerTypes'
  BY <1>1 DEF HandlerInv, HandlerTypes, Vms
<1>3. Held'
  BY DEF Held, HeldBy
<1>4. count'["other"] = count["other"] /\ count'["vm"] = 0
  BY DEF HandlerInv, HandlerTypes, Vms
<1>5. /\ DistinctKeys' /\ CountIs("other")'
      /\ \A t \in Tids, w \in {"in", "out"} : Pending(t, w)' => Pending(t, w)
  BY <1>1, <1>4, MapStep
<1>6. FlagsHeld'
  <2> SUFFICES ASSUME NEW t \in Tids, Exact(t)'
               PROVE  /\ Pending(t, "out")' => flag'[t] = 1
                      /\ Pending(t, "in")' => flag'[t] = 0
    BY DEF FlagsHeld
  <2>1. CASE Exact(t)
    BY <1>5, <2>1 DEF HandlerInv, FlagsHeld
  <2>2. CASE ~Exact(t)
    <3>1. t \in Threads /\ Entries("vm") = {}
      BY <2>2, ZenonT(30) DEF Exact, Tids
    <3>2. \A w \in {"in", "out"} : ~Pending(t, w)
      BY <3>1 DEF Pending, PendingBy, HandlerInv, Held, HeldBy, Entries
    <3>3. QED
      BY <1>5, <3>2
  <2>3. QED
    BY <2>1, <2>2
<1>7. ASSUME ("vm" \in vms)', raced' = 0, torn' = 0 PROVE CountIs("vm")'
  <2>1. Entries("vm")' = {}
    BY <1>7 DEF Entries
  <2>2. Counted("vm")' = {}
    BY <2>1, CountedDef DEF Vms
  <2>3. QED
    BY <1>4, <2>2, FS_EmptySet DEF CountIs
<1>8. QED
  BY <1>2, <1>3, <1>5, <1>6, <1>7 DEF HandlerInv, CountInv

\* The VM is deleted under the handlers.
LEMMA VmDeleted ==
  ASSUME ToolInv, HandlerInv, DeleteVm, UNCHANGED <<owner, flag, torn, raced>>
  PROVE  HandlerInv'
<1> DEFINE f == [p \in Pcpus |-> VmFreed(handler[p])]
<1>1. handler' = f /\ "vm" \notin vms' /\ count' = [count EXCEPT !["vm"] = 0]
  BY DEF DeleteVm
<1>2. \A p \in Pcpus : Touched(handler[p], f[p]) /\ HeldBy(f[p])
  BY VmFreedHeld DEF HandlerInv, HandlerTypes, Held
<1>3. raced' \in {0, 1} /\ torn' \in {0, 1} /\ f = [p \in Pcpus |-> f[p]]
  BY DEF HandlerInv, HandlerTypes, ToolInv, ToolTypes
<1> HIDE DEF f
<1>4. QED
  BY <1>1, <1>2, <1>3, VmChanged

\* The VM's new entry has count 0, and there are no entries to count.
LEMMA VmUpdated ==
  ASSUME ToolInv, HandlerInv, UpdateVm, UNCHANGED <<owner, flag>>, raced' = 0,
         torn' \in {0, 1}, torn' = 0 => Entries("vm") = {}
  PROVE  HandlerInv'
<1>1. PICK taken \in SUBSET {p \in Pcpus : handler[p].vm = Gone} :
        handler' = [p \in Pcpus |-> IF p \in taken THEN [handler[p] EXCEPT !.vm = "vm"]
                                    ELSE VmFreed(handler[p])]
  BY Zenon DEF UpdateVm
<1>2. \A p \in Pcpus : handler[p] \in Handlers /\ HeldBy(handler[p])
  BY DEF HandlerInv, HandlerTypes, Held
<1> DEFINE f == [p \in Pcpus |-> IF p \in taken THEN [handler[p] EXCEPT !.vm = "vm"]
                                 ELSE VmFreed(handler[p])]
<1>3. ASSUME NEW p \in Pcpus PROVE Touched(handler[p], f[p]) /\ HeldBy(f[p])
  <2>1. CASE p \notin taken
    BY <1>2, <2>1, VmFreedHeld
  <2>2. CASE p \in taken
    <3> DEFINE h == handler[p]
               g == [h EXCEPT !.vm = "vm"]
    <3>1. h \in Handlers /\ h.vm = Gone /\ HeldBy(h) /\ f[p] = g
      BY <1>2, <2>2
    <3>2. Gone \notin Vms /\ Gone # None /\ None # "vm" /\ OtherTid \notin Threads
          /\ owner \in [Tids -> Vms \cup {None}]
      BY RegistrationAssumption DEF Vms, ToolInv, ToolTypes
    <3>3. /\ g \in Handlers /\ g.at = h.at /\ g.way = h.way /\ g.key = h.key
          /\ g.ptr = h.ptr /\ g.cut = h.cut /\ g.vm = "vm"
      BY <3>1 DEF Handlers, Vms
    <3> HIDE DEF g, h
    <3>4. h.at = "vm" /\ h.cut = 1
      <4>1. h.at = "vm" /\ h.cut \in {0, 1}
        BY <3>1, <3>2 DEF HeldBy, Handlers
      <4>2. h.cut # 0
        BY <3>1, <3>2, <4>1 DEF HeldBy
      <4>3. QED
        BY <4>1, <4>2
    <3>5. HeldBy(g) /\ Touched(h, g)
      BY <3>1, <3>2, <3>3, <3>4 DEF HeldBy, Touched
    <3>6. QED
      BY <3>1, <3>5 DEF h
  <2>3. QED
    BY <2>1, <2>2
<1>4. handler' = f /\ f = [p \in Pcpus |-> f[p]]
  BY <1>1
<1> HIDE DEF f
<1>5. QED
  BY <1>3, <1>4, VmChanged DEF UpdateVm

\* Steps that do not concern the vCPUs, the counts or the handlers.
LEMMA HandlerSame ==
  ASSUME HandlerInv, UNCHANGED <<owner, flag, vms, count, handler, torn, raced>>
  PROVE  HandlerInv'
<1>1. HandlerTypes' /\ Held' /\ DistinctKeys'
  BY ZenonT(30) DEF HandlerInv, HandlerTypes, Held, HeldBy, DistinctKeys
<1>2. FlagsHeld'
  BY ZenonT(30) DEF HandlerInv, FlagsHeld, Exact, Pending, PendingBy
<1>3. CountInv'
  BY DEF HandlerInv, CountInv, CountIs, Counted, Entries
<1>4. QED
  BY <1>1, <1>2, <1>3, ZenonT(30) DEF HandlerInv

\* A step of cleanup_stale_vcpus.
LEMMA HandlerDelete ==
  ASSUME ToolInv, HandlerInv, NEW step, NEW next, Delete(step, next)
  PROVE  HandlerInv'
<1>1. ASSUME NEW t \in keys, DeleteVcpu(t), torn' = 1 PROVE HandlerInv'
  BY <1>1, VcpuDeleted DEF Delete, ToolInv, ToolTypes
<1>2. CASE UNCHANGED <<owner, flag, handler, torn>>
  BY <1>2, HandlerSame DEF Delete
<1>3. QED
  BY <1>1, <1>2 DEF Delete

\* So the steps of register_vm keep the handlers' invariant.
LEMMA HandlerRegister == ASSUME ToolInv, HandlerInv, Register PROVE HandlerInv'
<1>1. CASE Ask /\ UNCHANGED <<maps, tool, handler, history>>
  BY <1>1, HandlerSame DEF maps, history
<1>2. CASE RegisterStart /\ Begin
  BY <1>2, HandlerSame DEF Begin, maps, history
<1>3. CASE Scan("scan", "delete")
  BY <1>3, HandlerSame DEF Scan, maps
<1>4. CASE Delete("delete", "reset")
  BY <1>4, HandlerDelete
<1>5. CASE Reset
  <2>1. torn' \in {0, 1} /\ (torn' = 0 => Entries("vm") = {})
    BY <1>5 DEF Reset, ToolInv, ToolTypes, Registering
  <2>2. QED
    BY <1>5, <2>1, VmUpdated DEF Reset
<1>6. CASE Insert
  <2>1. ASSUME NEW t \in keys, UpdateVcpu(t) PROVE HandlerInv'
    <3>1. t \in Threads /\ (torn = 0 => owner[t] # "vm")
      BY <1>6, <2>1 DEF Insert, ToolInv, ToolTypes, Registering, Entries, Tids
    <3>2. QED
      BY <1>6, <2>1, <3>1, VcpuUpdated, ZenonT(30) DEF Insert, history
  <2>2. CASE UNCHANGED <<owner, flag, handler>>
    BY <1>6, <2>2, HandlerSame DEF Insert, history
  <2>3. QED
    BY <1>6, <2>1, <2>2 DEF Insert
<1>7. CASE PinBuffer("pin_1", 1, "pin_2") \/ PinBuffer("pin_2", 2, "registry_1")
  BY <1>7, HandlerSame DEF PinBuffer, history
<1>8. CASE \/ RegisterBuffer("registry_1", 1, "registry_2") /\ UNCHANGED done
           \/ RegisterBuffer("registry_2", 2, "off") /\ done' = "registered"
  BY <1>8, HandlerSame DEF RegisterBuffer, history
<1>9. QED
  BY <1>1, <1>2, <1>3, <1>4, <1>5, <1>6, <1>7, <1>8 DEF Register

\* And those of cleanup.
LEMMA HandlerCleanup == ASSUME ToolInv, HandlerInv, Cleanup PROVE HandlerInv'
<1>1. CASE (CleanupStart /\ Begin) \/ Unpin \/ NoVcpus \/ Exit
  BY <1>1, HandlerSame DEF Begin, Unpin, NoVcpus, Exit, maps, history
<1>2. CASE DropBuffer("drop_1", 1, "drop_2") \/ DropBuffer("drop_2", 2, "drop_vm")
  BY <1>2, HandlerSame DEF DropBuffer, history
<1>3. CASE DropVm
  <2>1. CASE DeleteVm
    BY <1>3, <2>1, VmDeleted DEF DropVm, history
  <2>2. CASE UNCHANGED <<vms, count, handler>>
    BY <1>3, <2>2, HandlerSame DEF DropVm, history
  <2>3. QED
    BY <1>3, <2>1, <2>2 DEF DropVm
<1>4. CASE Scan("last_scan", "last_delete")
  BY <1>4, HandlerSame DEF Scan, maps
<1>5. CASE Delete("last_delete", "exit")
  BY <1>5, HandlerDelete
<1>6. QED
  BY <1>1, <1>2, <1>3, <1>4, <1>5, ZenonT(30) DEF Cleanup

-----------------------------------------------------------------------------
(* What register_vm learns from QEMU.                                      *)

\* The next line is the reply to query-cpus-fast.
ReplyFirst == line \in Seq({"cpus", "event"}) /\ line # << >> /\ Head(line) = "cpus"

\* Tool and QEMU are in step with each other: until an event or the end of file
\* disturbs it, the only line on its way is the answer to the only command.
\* Behind the reply, events and the end of file do no harm.
InStep ==
  /\ pc \notin {"greeting", "caps", "query"} => conn = "none"
  /\ disturbed = 0 =>
       /\ pc \in {"greeting", "caps", "query"} =>
            threads # {} /\ (conn = "open" \/ (pc = "query" /\ cmd = "none"))
       /\ pc = "greeting" => cmd = "none" /\ line = <<"greeting">>
       /\ pc = "caps" => \/ cmd = "caps" /\ line = <<>>
                         \/ cmd = "none" /\ line = <<"return">>
       /\ pc = "query" => \/ cmd = "query" /\ line = <<>>
                          \/ cmd = "none" /\ ReplyFirst /\ asked = threads
       /\ pc = "scan" => reported = asked /\ asked # {}

\* The lines of a dialogue in step.
LEMMA OneLine ==
  ASSUME NEW x
  PROVE  /\ <<x>> # << >> /\ Head(<<x>>) = x /\ Tail(<<x>>) = << >>
         /\ Append(<< >>, x) = <<x>>
  OBVIOUS

\* A line that comes later is behind the first.
LEMMA LineBehind ==
  ASSUME NEW S, NEW s \in Seq(S), NEW x \in S, s # << >>
  PROVE  Append(s, x) \in Seq(S) /\ Append(s, x) # << >> /\ Head(Append(s, x)) = Head(s)
  OBVIOUS

\* No tool is connected initially.
LEMMA InStepInit == Init => InStep
  BY DEF Init, DialogueInit, InStep

\* QEMU answers the command that was sent last.
LEMMA InStepAnswer == ASSUME InStep, QemuAnswer PROVE InStep'
<1>1. /\ conn = "open" /\ cmd # "none" /\ cmd' = "none"
      /\ line' = Append(line, IF cmd = "caps" THEN "return" ELSE "cpus")
      /\ asked' = IF cmd = "query" THEN threads ELSE asked
      /\ UNCHANGED <<threads, conn, pc, reported, disturbed>>
  BY DEF QemuAnswer
<1>2. pc \in {"greeting", "caps", "query"}
  BY <1>1 DEF InStep
<1>3. CASE disturbed = 0
  <2>1. CASE pc = "caps"
    <3>1. cmd = "caps" /\ line = << >> /\ threads # {}
      BY <1>1, <1>3, <2>1 DEF InStep
    <3>2. line' = <<"return">>
      BY <1>1, <3>1, OneLine
    <3>3. QED
      BY <1>1, <2>1, <3>1, <3>2 DEF InStep
  <2>2. CASE pc = "query"
    <3>1. cmd = "query" /\ line = << >> /\ threads # {}
      BY <1>1, <1>3, <2>2 DEF InStep
    <3>2. line' = <<"cpus">> /\ asked' = threads
      BY <1>1, <3>1, OneLine
    <3>4. <<"cpus">> \in Seq({"cpus", "event"})
      OBVIOUS
    <3>5. ReplyFirst'
      BY <3>2, <3>4, OneLine, Zenon DEF ReplyFirst
    <3>3. QED
      BY <1>1, <2>2, <3>1, <3>2, <3>5 DEF InStep
  <2>3. CASE pc = "greeting"
    BY <1>1, <1>3, <2>3 DEF InStep
  <2>4. QED
    BY <1>2, <2>1, <2>2, <2>3
<1>4. CASE disturbed # 0
  BY <1>1, <1>2, <1>4 DEF InStep
<1>5. QED
  BY <1>3, <1>4

\* Whatever the line is, the tool goes on with the next command.
LEMMA InStepSend ==
  ASSUME InStep,
         NEW step, NEW c, NEW next, SendAfter(step, c, next),
         \/ step = "greeting" /\ c = "caps" /\ next = "caps"
         \/ step = "caps" /\ c = "query" /\ next = "query"
  PROVE  InStep'
<1>1. pc = step /\ CanRead /\ disturbed' = disturbed
  BY DEF SendAfter, answer
<1>2. CASE conn # "open"
  <2>1. conn' = "none" /\ pc' = "off"
    BY <1>2 DEF SendAfter, Hangup
  <2>2. QED
    BY <2>1 DEF InStep
<1>3. CASE conn = "open"
  <2>1. /\ line' = (IF line = << >> THEN << >> ELSE Tail(line)) /\ cmd' = c /\ pc' = next
        /\ conn' = conn /\ threads' = threads
    BY <1>3, ZenonT(30) DEF SendAfter, ReadLine
  <2>2. CASE disturbed # 0
    BY <1>1, <2>1, <2>2 DEF InStep
  <2>3. CASE disturbed = 0
    <3>1. line # << >>
      BY <1>1, <1>3 DEF CanRead
    <3>2. threads # {} /\ (line = <<"greeting">> \/ line = <<"return">>)
      BY <1>1, <2>3, <3>1 DEF InStep
    <3>3. line' = << >>
      BY <2>1, <3>2, OneLine
    <3>4. QED
      BY <1>1, <1>3, <2>1, <3>2, <3>3 DEF InStep
  <2>4. QED
    BY <2>2, <2>3
<1>4. QED
  BY <1>2, <1>3

\* The line read last is the reply, unless the dialogue was disturbed.
LEMMA InStepReply == ASSUME InStep, ReadReply PROVE InStep'
<1>1. pc = "query" /\ pc' = "scan" /\ conn' = "none" /\ asked' = asked /\ CanRead
  BY DEF ReadReply, Hangup
<1>2. SUFFICES ASSUME disturbed' = 0 PROVE reported' = asked /\ asked # {}
  BY <1>1 DEF InStep
<1>3. disturbed = 0
  BY <1>2 DEF ReadReply
<1>4. threads # {} /\ (conn = "open" \/ cmd = "none")
  BY <1>1, <1>3 DEF InStep
<1>5. line # << >> \/ cmd = "none"
  BY <1>1, <1>4 DEF CanRead
<1>6. ReplyFirst /\ asked = threads
  BY <1>1, <1>3, <1>5 DEF InStep
<1>7. line # << >> /\ Head(line) = "cpus"
  BY <1>6 DEF ReplyFirst
<1>8. reported' = asked
  BY <1>2, <1>7 DEF ReadReply
<1>9. QED
  BY <1>4, <1>6, <1>8

\* The steps of the dialogue.
LEMMA InStepDialogue ==
  ASSUME InStep, Qemu \/ Ask \/ ToolGone
  PROVE  InStep'
<1>1. CASE VmStop \/ QemuEvent
  <2>1. /\ conn = "open" /\ UNCHANGED <<threads, cmd, pc, reported, asked>>
        /\ disturbed' = IF pc = "query" /\ cmd = "none" THEN disturbed ELSE 1
        /\ line' = line \/ line' = Append(line, "event")
    BY <1>1 DEF VmStop, QemuEvent, Disturb, Answered
  <2>2. ReplyFirst => ReplyFirst'
    <3>1. "event" \in {"cpus", "event"}
      OBVIOUS
    <3>2. QED
      BY <2>1, <3>1, LineBehind, ZenonT(30) DEF ReplyFirst
  <2>3. CASE pc = "query" /\ cmd = "none"
    BY <2>1, <2>2, <2>3 DEF InStep
  <2>4. CASE ~(pc = "query" /\ cmd = "none")
    BY <2>1, <2>4 DEF InStep
  <2>5. QED
    BY <2>3, <2>4
<1>2. CASE \E S \in (SUBSET Threads) \ {{}} : QmpConnect(S)
  BY <1>2 DEF QmpConnect, InStep
<1>3. CASE ReadGreeting \/ ReadCapabilities
  <2>1. CASE SendAfter("greeting", "caps", "caps")
    BY <2>1, InStepSend, ZenonT(30)
  <2>2. CASE SendAfter("caps", "query", "query")
    BY <2>2, InStepSend, ZenonT(30)
  <2>3. QED
    BY <1>3, <2>1, <2>2, ZenonT(30) DEF ReadGreeting, ReadCapabilities
<1>4. CASE ToolGone
  BY <1>4 DEF ToolGone, Hangup, InStep
<1>5. QED
  BY <1>1, <1>2, <1>3, <1>4, InStepAnswer, InStepReply, ZenonT(30) DEF Qemu, Ask

\* The rest of the tools and the handlers leave the connection alone.
LEMMA InStepRest ==
  ASSUME InStep, UNCHANGED connection, pc \notin {"greeting", "caps", "query"},
         pc' \notin {"greeting", "caps", "query", "scan"}
  PROVE  InStep'
  BY DEF InStep, connection

\* So tool and QEMU stay in step.
LEMMA InStepNext == InStep /\ [Next]_vars => InStep'
<1> SUFFICES ASSUME InStep, [Next]_vars PROVE InStep'
  OBVIOUS
<1>1. CASE Qemu \/ Ask \/ ToolGone
  BY <1>1, InStepDialogue
<1>2. CASE \/ RegisterStart \/ Reset \/ Insert
           \/ \E s \in {"scan", "last_scan"}, n \in {"delete", "last_delete"} : Scan(s, n)
           \/ \E s \in {"delete", "last_delete"}, n \in {"reset", "exit"} : Delete(s, n)
  BY <1>2, InStepRest
  DEF RegisterStart, Reset, Insert, Scan, Delete, other
<1>3. CASE \/ PinBuffer("pin_1", 1, "pin_2") \/ PinBuffer("pin_2", 2, "registry_1")
           \/ RegisterBuffer("registry_1", 1, "registry_2")
           \/ RegisterBuffer("registry_2", 2, "off")
           \/ CleanupStart \/ Unpin
           \/ DropBuffer("drop_1", 1, "drop_2") \/ DropBuffer("drop_2", 2, "drop_vm")
           \/ DropVm \/ NoVcpus \/ Exit
  BY <1>3, InStepRest
  DEF PinBuffer, RegisterBuffer, CleanupStart, Unpin, DropBuffer, DropVm, NoVcpus,
      Exit, other
<1>4. CASE ToolEnds
  BY <1>1, <1>4, InStepRest DEF ToolEnds, Steps
<1>5. ASSUME NEW p \in Pcpus,
             \/ \E t \in Tids, way \in {"in", "out"} : Lookup(p, t, way)
             \/ Handler(p)
      PROVE  InStep'
  <2>1. UNCHANGED dialogue
    BY <1>5, ZenonT(30) DEF Lookup, Handler, Flag, FindVm, Update, env
  <2>2. QED
    BY <2>1, ZenonT(30) DEF dialogue, connection, answer, InStep, ReplyFirst
<1>6. CASE UNCHANGED vars
  BY <1>6, ZenonT(30) DEF vars, dialogue, connection, answer, InStep, ReplyFirst
<1>7. QED
  BY <1>1, <1>2, <1>3, <1>4, <1>5, <1>6, ZenonT(30) DEF Next, Register, Cleanup

\* What register_vm takes for the reply to query-cpus-fast is the reply, in
\* full, in every dialogue that no event and no end of file has disturbed.
THEOREM ReplyIsReportedInFull == Spec => []ReportedInFull
<1>1. InStep => ReportedInFull
  BY DEF InStep, ReportedInFull
<1>2. QED
  BY <1>1, InStepInit, InStepNext, PTL DEF Spec

=============================================================================
