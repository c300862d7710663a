--------------------------- MODULE VmRegistration ---------------------------
(***************************************************************************)
(* The tools that fill and empty the maps for one VM (register_vm and      *)
(* cleanup, pvsched-ebpf/host/user) while phantom_switch_handler uses      *)
(* them.  A second VM, registered earlier, is in the maps all the time.    *)
(*                                                                         *)
(* A tool takes one step per system call on a map, and can end, by an      *)
(* error or a signal, between any two.  A handler holds pointers to the    *)
(* elements it has looked up: an element that is deleted or replaced goes  *)
(* to the free list with its contents, and may be handed out again while   *)
(* the handler still holds it, for any key that the tools insert: keys of  *)
(* the one VM.  The handler here is one part, incoming or outgoing, of     *)
(* phantom_switch_handler for a thread with a 1 in its slot; the count     *)
(* update is one step (PhantomSwitch has its retry loop).                  *)
(***************************************************************************)
EXTENDS QmpDialogue, FiniteSets

CONSTANTS
  OtherTid,  \* the thread of the other VM's vCPU
  Pcpus,     \* host CPUs, each with one handler
  MaxRuns,   \* bound on tool runs
  None,
  Gone       \* an element that is in no map

Vms  == {"vm", "other"}
Tids == Threads \cup {OtherTid}

\* nb_vcpus, an argument of the tool: the same whatever QEMU reports.
NbVcpus == Cardinality(Threads)

ASSUME RegistrationAssumption ==
  /\ OtherTid \notin Threads
  /\ IsFiniteSet(Threads) /\ Threads # {}
  /\ None \notin Tids \cup Vms \cup Pcpus
  /\ Gone \notin Tids \cup Vms \cup {None}

VARIABLES
  owner,     \* owner[t]: vm_name of the vcpus entry for t; None without entry
  flag,      \* flag[t]: its is_phantom
  vms,       \* the VMs that have an entry in vms
  count,     \* count[a]: phantom_count of the entry for a
  registry,  \* which of the VM's two buffers map_registry holds
  pinned,    \* which of them are pinned in the VM's directory
  keys,      \* keys the tool has still to delete or to insert
  ret,       \* exit status of cleanup so far
  runs,
  handler,   \* handler[p]: the handler in progress on p
  \* history
  done,      \* what the last tool run has achieved
  kept,      \* 1 if the last cleanup_stale_vcpus could not delete an entry
  torn,      \* 1 if stale entries were left when the VM was last reset, or
             \* entries were deleted since
  raced      \* 1 if a handler holding a deleted element has changed a flag or
             \* the count of the VM since the VM was last reset

maps    == <<owner, flag, vms, count, registry, pinned>>
tool    == <<keys, ret, runs, done>>
history == <<kept, torn, raced>>
vars    == <<dialogue, maps, tool, handler, history>>

Steps == {"off", "connect", "greeting", "caps", "query",
          "scan", "delete", "reset", "insert", "pin_1", "pin_2",
          "registry_1", "registry_2",
          "unpin", "drop_1", "drop_2", "drop_vm", "last_scan", "last_delete",
          "exit"}

\* key: the thread that is switched; ptr: whose entry the vcpus element is now,
\* or Gone, with its flag in old; vm: likewise for the vms element; cut: 1 once
\* one of the two was deleted.
Handlers == [at : {"idle", "found", "flagged", "vm"}, way : {"in", "out"},
             key : Tids \cup {None}, ptr : Tids \cup {None, Gone}, old : {0, 1},
             vm : Vms \cup {None, Gone}, cut : {0, 1}]
IdleHandler == [at |-> "idle", way |-> "in", key |-> None, ptr |-> None,
                old |-> 0, vm |-> None, cut |-> 0]

TypeOK ==
  /\ threads \subseteq Threads /\ reported \subseteq Threads
  /\ pc \in Steps
  /\ owner \in [Tids -> Vms \cup {None}]
  /\ flag \in [Tids -> {0, 1}]
  /\ vms \subseteq Vms
  /\ count \in [Vms -> 0 .. NbVcpus]
  /\ registry \subseteq {1, 2} /\ pinned \subseteq {1, 2}
  /\ keys \subseteq Tids
  /\ handler \in [Pcpus -> Handlers]

\* The entries of VM a.
Entries(a) == {t \in Tids : owner[t] = a}

\* The loader has created the maps and the other VM is registered.
Init ==
  /\ DialogueInit
  /\ owner = [t \in Tids |-> IF t = OtherTid THEN "other" ELSE None]
  /\ flag = [t \in Tids |-> 0]
  /\ vms = {"other"}
  /\ count = [a \in Vms |-> 0]
  /\ registry = {} /\ pinned = {} /\ keys = {} /\ ret = 0 /\ runs = 0
  /\ handler = [p \in Pcpus |-> IdleHandler]
  /\ done = "nothing" /\ kept = 0 /\ torn = 0 /\ raced = 0

-----------------------------------------------------------------------------
(* The maps.  A freed element that handlers hold may be the one that the   *)
(* next update takes; taken is the set of its holders.                     *)

Freed(h, t) == IF h.ptr = t THEN [h EXCEPT !.ptr = Gone, !.old = flag[t], !.cut = 1]
               ELSE h

DeleteVcpu(t) ==
  /\ owner' = [owner EXCEPT ![t] = None]
  /\ flag' = [flag EXCEPT ![t] = 0]
  /\ handler' = [p \in Pcpus |-> Freed(handler[p], t)]

\* bpf_map_update_elem(vcpus): the new element replaces the old one, if any.
UpdateVcpu(t) ==
  /\ owner' = [owner EXCEPT ![t] = "vm"]
  /\ flag' = [flag EXCEPT ![t] = 0]
  /\ \E taken \in SUBSET {p \in Pcpus : handler[p].ptr = Gone} :
       handler' = [p \in Pcpus |-> IF p \in taken
                                   THEN [handler[p] EXCEPT !.ptr = t]
                                   ELSE Freed(handler[p], t)]

VmFreed(h) == IF h.vm = "vm" THEN [h EXCEPT !.vm = Gone, !.cut = 1] ELSE h

DeleteVm ==
  /\ vms' = vms \ {"vm"}
  /\ count' = [count EXCEPT !["vm"] = 0]
  /\ handler' = [p \in Pcpus |-> VmFreed(handler[p])]

UpdateVm ==
  /\ vms' = vms \cup {"vm"}
  /\ count' = [count EXCEPT !["vm"] = 0]
  /\ \E taken \in SUBSET {p \in Pcpus : handler[p].vm = Gone} :
       handler' = [p \in Pcpus |-> IF p \in taken
                                   THEN [handler[p] EXCEPT !.vm = "vm"]
                                   ELSE VmFreed(handler[p])]

-----------------------------------------------------------------------------
(* cleanup_stale_vcpus: collect the keys of the VM, then delete them.      *)

\* Mutation of Scan: the entries of other VMs are collected too.
Scan_AnyVm(step, next) ==
  /\ pc = step /\ pc' = next
  /\ keys' = {t \in Tids : owner[t] # None} /\ kept' = 0
  /\ UNCHANGED <<threads, connection, answer, maps, ret, runs, done, handler,
                 torn, raced>>

\* Without memory for the list nothing is deleted, and no error is returned.
Scan(step, next) ==
  /\ pc = step /\ pc' = next
  /\ \/ keys' = Entries("vm") /\ kept' = 0
     \/ keys' = {} /\ kept' = 1
  /\ asked' = {} /\ disturbed' = 0
  /\ UNCHANGED <<threads, connection, reported, maps, ret, runs,
                 done, handler, torn, raced>>

\* Deletes one key, or goes on to the next step when none is left.  The result
\* of bpf_map_delete_elem is not looked at.
Delete(step, next) ==
  /\ pc = step
  /\ \/ \E t \in keys :
          /\ keys' = keys \ {t}
          /\ \/ DeleteVcpu(t) /\ torn' = 1 /\ UNCHANGED kept
             \/ kept' = 1 /\ UNCHANGED <<owner, flag, handler, torn>>
          /\ UNCHANGED pc
     \/ keys = {} /\ pc' = next /\ UNCHANGED <<owner, flag, keys, handler, torn, kept>>
  /\ UNCHANGED <<threads, connection, answer, vms, count,
                 registry, pinned, ret, runs, done, raced>>

-----------------------------------------------------------------------------
(* register_vm and setup_vm_maps.                                          *)

other == <<threads, connection, answer, ret, runs>>

Begin ==
  /\ runs < MaxRuns
  /\ runs' = runs + 1
  /\ done' = "nothing"
  /\ UNCHANGED <<maps, keys, ret, handler, history>>

\* Mutation of Reset: an entry that is there keeps its count.
Reset_KeepCount ==
  /\ pc = "reset" /\ pc' = "insert"
  /\ vms' = vms \cup {"vm"}
  /\ keys' = reported
  /\ torn' = kept /\ raced' = 0
  /\ UNCHANGED <<other, owner, flag, count, registry, pinned, done, kept, handler>>

\* The VM's entry is reset before the new vCPUs are inserted.
Reset ==
  /\ pc = "reset" /\ pc' = "insert"
  /\ UpdateVm
  /\ keys' = reported
  /\ torn' = kept /\ raced' = 0
  /\ UNCHANGED <<other, owner, flag, registry, pinned, done, kept>>

Insert ==
  /\ pc = "insert"
  /\ \/ \E t \in keys :
          /\ UpdateVcpu(t)
          /\ keys' = keys \ {t}
          /\ UNCHANGED pc
     \/ keys = {} /\ pc' = "pin_1" /\ UNCHANGED <<owner, flag, handler, keys>>
  /\ UNCHANGED <<other, vms, count, registry, pinned, done, history>>

\* bpf_map_create, then unlink and bpf_obj_pin of buffer b, which can fail with
\* the old pin gone.
PinBuffer(step, b, next) ==
  /\ pc = step
  /\ \/ pinned' = pinned \cup {b} /\ pc' = next
     \/ pinned' = pinned \ {b} /\ pc' = "off"
  /\ UNCHANGED <<other, owner, flag, vms, count, registry, keys, done, handler,
                 history>>

\* Mutation of RegisterBuffer: both buffers go under the first key.
RegisterBuffer_First(step, b, next) ==
  /\ pc = step /\ pc' = next
  /\ registry' = registry \cup {1}
  /\ UNCHANGED <<other, owner, flag, vms, count, pinned, keys, handler, history>>

RegisterBuffer(step, b, next) ==
  /\ pc = step /\ pc' = next
  /\ registry' = registry \cup {b}
  /\ UNCHANGED <<other, owner, flag, vms, count, pinned, keys, handler, history>>

Register ==
  \/ Ask /\ UNCHANGED <<maps, tool, handler, history>>
  \/ RegisterStart /\ Begin
  \/ Scan("scan", "delete")
  \/ Delete("delete", "reset")
  \/ Reset
  \/ Insert
  \/ PinBuffer("pin_1", 1, "pin_2")
  \/ PinBuffer("pin_2", 2, "registry_1")
  \/ RegisterBuffer("registry_1", 1, "registry_2") /\ UNCHANGED done
  \/ RegisterBuffer("registry_2", 2, "off") /\ done' = "registered"

-----------------------------------------------------------------------------
(* cleanup: every step is tried, a failure only shows in the exit status.  *)

CleanupStart ==
  /\ pc = "off" /\ pc' = "unpin"
  /\ reported' = {} /\ asked' = {} /\ disturbed' = 0
  /\ UNCHANGED <<threads, connection>>

\* unlink_dir_contents and rmdir.
Unpin ==
  /\ pc = "unpin" /\ pc' = "drop_1"
  /\ pinned' \in SUBSET pinned
  /\ ret' \in {1} \cup (IF pinned' = {} THEN {ret} ELSE {})
  /\ UNCHANGED <<threads, connection, answer, owner, flag, vms, count,
                 registry, keys, runs, done, handler, history>>

\* Mutation of DropBuffer: the second buffer is deleted under the first key.
DropBuffer_First(step, b, next) ==
  /\ pc = step /\ pc' = next
  /\ registry' = registry \ {1}
  /\ UNCHANGED <<threads, connection, answer, owner, flag, vms, count, pinned,
                 keys, ret, runs, done, handler, history>>

DropBuffer(step, b, next) ==
  /\ pc = step /\ pc' = next
  /\ \/ registry' = registry \ {b} /\ UNCHANGED ret
     \/ ret' = 1 /\ UNCHANGED registry
  /\ UNCHANGED <<threads, connection, answer, owner, flag, vms, count,
                 pinned, keys, runs, done, handler, history>>

\* The VM goes before its vCPUs: a handler finds the entry, but no VM.
DropVm ==
  /\ pc = "drop_vm" /\ pc' = "last_scan"
  /\ \/ DeleteVm /\ UNCHANGED ret
     \/ ret' = 1 /\ UNCHANGED <<vms, count, handler>>
  /\ UNCHANGED <<threads, connection, answer, owner, flag,
                 registry, pinned, keys, runs, done, history>>

\* The vCPU map cannot be opened.
NoVcpus ==
  /\ pc = "last_scan" /\ pc' = "exit"
  /\ ret' = 1
  /\ UNCHANGED <<threads, connection, answer, maps, keys, runs, done,
                 handler, history>>

Exit ==
  /\ pc = "exit" /\ pc' = "off"
  /\ done' = IF ret = 0 THEN "cleaned" ELSE "nothing"
  /\ ret' = 0
  /\ UNCHANGED <<threads, connection, answer, maps, keys, runs, handler,
                 history>>

Cleanup ==
  \/ CleanupStart /\ Begin
  \/ Unpin
  \/ DropBuffer("drop_1", 1, "drop_2")
  \/ DropBuffer("drop_2", 2, "drop_vm")
  \/ DropVm
  \/ Scan("last_scan", "last_delete")
  \/ NoVcpus
  \/ Delete("last_delete", "exit")
  \/ Exit

\* A signal ends the tool, or register_vm or setup_vm_maps returns -1.
ToolEnds ==
  \/ ToolGone /\ UNCHANGED <<maps, tool, handler, history>>
  \/ /\ pc \in Steps \ {"off", "connect", "greeting", "caps", "query"}
     /\ pc' = "off"
     /\ keys' = {} /\ ret' = 0 /\ reported' = {}
     /\ UNCHANGED <<threads, connection, asked, disturbed, maps, runs, done,
                    handler, history>>

-----------------------------------------------------------------------------
(* phantom_switch_handler.                                                 *)

env == <<dialogue, owner, vms, registry, pinned, tool, kept, torn>>

\* A thread is switched in or out on one CPU at a time.
Lookup(p, t, way) ==
  /\ handler[p].at = "idle"
  /\ owner[t] # None
  /\ \A q \in Pcpus : handler[q].key # t
  /\ handler' = [handler EXCEPT ![p] =
       [IdleHandler EXCEPT !.at = "found", !.way = way, !.key = t, !.ptr = t]]
  /\ UNCHANGED <<env, flag, count, raced>>

\* __sync_bool_compare_and_swap(&vcpu->is_phantom, ...), also on an element
\* that is no longer, or again, in the map.
Flag(p) ==
  LET h == handler[p]
      from == IF h.way = "in" THEN 1 ELSE 0
      found == IF h.ptr = Gone THEN h.old ELSE flag[h.ptr] IN
  /\ h.at = "found"
  /\ flag' = IF found = from /\ h.ptr # Gone THEN [flag EXCEPT ![h.ptr] = 1 - from]
             ELSE flag
  /\ handler' = [handler EXCEPT ![p] =
       IF found = from THEN [@ EXCEPT !.at = "flagged"] ELSE IdleHandler]
  /\ raced' = IF h.cut = 1 /\ flag' # flag THEN 1 ELSE raced
  /\ UNCHANGED <<env, count>>

\* bpf_map_lookup_elem(&vms, vcpu->vm_name)
FindVm(p) ==
  LET h == handler[p]
      name == IF h.ptr # Gone THEN owner[h.ptr]
              ELSE IF h.key = OtherTid THEN "other" ELSE "vm" IN
  /\ h.at = "flagged"
  /\ handler' = [handler EXCEPT ![p] =
       IF name \in vms THEN [@ EXCEPT !.at = "vm", !.vm = name] ELSE IdleHandler]
  /\ UNCHANGED <<env, flag, count, raced>>

\* atomic_dec_if_pos or atomic_inc_if_lt_ceil
Update(p) ==
  LET h == handler[p]
      New(n) == IF h.way = "in" THEN (IF n > 0 THEN n - 1 ELSE n)
                ELSE (IF n < NbVcpus THEN n + 1 ELSE n) IN
  /\ h.at = "vm"
  /\ count' = IF h.vm = Gone THEN count ELSE [count EXCEPT ![h.vm] = New(@)]
  /\ raced' = IF h.cut = 1 /\ h.vm = "vm" THEN 1 ELSE raced
  /\ handler' = [handler EXCEPT ![p] = IdleHandler]
  /\ UNCHANGED <<env, flag>>

Handler(p) == Flag(p) \/ FindVm(p) \/ Update(p)

Next ==
  \/ Qemu /\ UNCHANGED <<maps, tool, handler, history>>
  \/ Register
  \/ Cleanup
  \/ ToolEnds
  \/ \E p \in Pcpus :
       \/ \E t \in Tids, way \in {"in", "out"} : Lookup(p, t, way)
       \/ Handler(p)

\* A tool that has been started goes on, except while it waits for the socket
\* to be there, and QEMU answers.
Fairness == /\ WF_vars(pc # "connect" /\ pc # "off" /\ (Register \/ Cleanup))
            /\ WF_vars(QemuAnswer /\ UNCHANGED <<maps, tool, handler, history>>)

Spec == Init /\ [][Next]_vars /\ Fairness

-----------------------------------------------------------------------------
\* The entries of VM a that its count stands for.
Counted(a) ==
  LET Pending(t, way) == \E p \in Pcpus :
        /\ handler[p].at \in {"flagged", "vm"} /\ handler[p].way = way
        /\ handler[p].cut = 0 /\ handler[p].key = t
  IN  {t \in Entries(a) : \/ flag[t] = 1 /\ ~Pending(t, "out")
                          \/ Pending(t, "in")}

\* However registrations, failed and killed ones included, meet the handlers,
\* a registered VM's phantom_count is the number of its flagged vCPUs: stale
\* entries go before the count is reset, and new ones come after.  Excepted
\* are counts that a handler changed on behalf of a vCPU deleted under its
\* hands, and registrations that could not delete all of the stale entries.
CountMatches ==
  /\ "vm" \in vms /\ raced = 0 /\ kept = 0
  /\ torn = 0 \/ done = "registered"
  => count["vm"] = Cardinality(Counted("vm"))

\* When register_vm ends with success the VM's entries are the threads that
\* were reported, those and no others, and both buffers can be found; nothing
\* that other programs do changes this until a tool is started again.
RegisteredExactly ==
  done = "registered" /\ kept = 0 =>
    /\ "vm" \in vms
    /\ Entries("vm") = reported
    /\ registry = {1, 2} /\ pinned = {1, 2}

\* When cleanup ends with success nothing of the VM is left, whatever runs of
\* the tools had failed or been killed before.
CleanedUp ==
  done = "cleaned" /\ kept = 0 =>
    "vm" \notin vms /\ Entries("vm") = {} /\ registry = {} /\ pinned = {}

\* The tools for one VM never touch another VM: its entries stay and its count
\* stays exact, also while freed elements are handed out again.
OtherVmKept ==
  /\ Entries("other") = {OtherTid}
  /\ count["other"] = Cardinality(Counted("other"))

\* Tool and QEMU never wait for each other: once connected, register_vm comes
\* to its end, whatever events or end of file it reads in place of a reply;
\* so does cleanup.
ToolReturns == pc \notin {"off", "connect"} ~> pc = "off"

=============================================================================
