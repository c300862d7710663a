---------------------------- MODULE HostRegistry ----------------------------
(***************************************************************************)
(* host_ivshmem.ko (pvsched-shmem/host): host_register_vm, called through  *)
(* the unlocked ioctl of /dev/host_registry by any number of processes at  *)
(* once, the backends it creates, and the unloading of the module.         *)
(*                                                                         *)
(* The function is split at its accesses to the registry: the atomic       *)
(* increment and decrement of next_vm_id, the creation of the backend      *)
(* (whose device_create refuses a minor that is in use) and the store to   *)
(* registry.devices[].  A backend is named by the number of the call.      *)
(***************************************************************************)
EXTENDS Integers, FiniteSets

CONSTANTS
  Callers,      \* processes that call the ioctl
  MaxDevices,   \* MAX_NB_DEVICES (256); minor 0 is the registry
  MaxCalls      \* bound on the calls

ASSUME RegistryAssumption ==
  /\ IsFiniteSet(Callers)
  /\ MaxDevices \in Nat \ {0}
  /\ MaxCalls \in Nat

Minors == 1 .. MaxDevices - 1

VARIABLES
  next,      \* registry.next_vm_id
  nodes,     \* minors of the existing backend devices
  devices,   \* devices[m]: number of the call whose backend is stored, or 0
  pc,        \* pc[r]: the caller's place in host_register_vm
  id,        \* id[r]: vm_id
  call,      \* call[r]: number of the call
  calls,     \* calls so far
  granted,   \* <<vm_id, call>> returned to user space
  leaked,    \* ids given up without a decrement
  raced      \* an id was given back while a later one was held

vars == <<next, nodes, devices, pc, id, call, calls, granted, leaked, raced>>

Places == {"idle", "alloc", "create", "publish", "undo"}

TypeOK ==
  /\ next \in 0 .. MaxDevices - 1 + Cardinality(Callers)
  /\ nodes \subseteq Minors
  /\ devices \in [Minors -> 0 .. MaxCalls]
  /\ pc \in [Callers -> Places]
  /\ id \in [Callers -> 0 .. MaxDevices - 1 + Cardinality(Callers)]
  /\ call \in [Callers -> 0 .. MaxCalls]
  /\ calls \in 0 .. MaxCalls
  /\ granted \subseteq (0 .. MaxDevices - 2) \X (1 .. MaxCalls)
  /\ leaked \in Nat
  /\ raced \in BOOLEAN

Init ==
  /\ next = 0
  /\ nodes = {}
  /\ devices = [m \in Minors |-> 0]
  /\ pc = [r \in Callers |-> "idle"]
  /\ id = [r \in Callers |-> 0]
  /\ call = [r \in Callers |-> 0]
  /\ calls = 0
  /\ granted = {}
  /\ leaked = 0
  /\ raced = FALSE

-----------------------------------------------------------------------------
Goto(r, place) == pc' = [pc EXCEPT ![r] = place]

\* atomic_fetch_inc, and the test for a full registry.
Claim(r) ==
  /\ pc[r] = "idle" /\ calls < MaxCalls
  /\ id' = [id EXCEPT ![r] = next]
  /\ next' = next + 1
  /\ calls' = calls + 1
  /\ call' = [call EXCEPT ![r] = calls + 1]
  /\ Goto(r, IF next + 1 >= MaxDevices THEN "undo" ELSE "alloc")
  /\ UNCHANGED <<nodes, devices, granted, leaked, raced>>

\* kzalloc; when it fails the function returns without the decrement.
Alloc(r) ==
  /\ pc[r] = "alloc"
  /\ \/ Goto(r, "create") /\ UNCHANGED leaked
     \/ Goto(r, "idle") /\ leaked' = leaked + 1
  /\ UNCHANGED <<next, nodes, devices, id, call, calls, granted, raced>>

\* Mutation of CreateBackend: a minor in use is not refused.
CreateBackend_NoCheck(r) ==
  /\ pc[r] = "create"
  /\ \/ Goto(r, "publish") /\ nodes' = nodes \cup {id[r] + 1}
     \/ Goto(r, "undo") /\ UNCHANGED nodes
  /\ UNCHANGED <<next, devices, id, call, calls, granted, leaked, raced>>

\* Mutation of CreateBackend: the device node survives a later failure.
CreateBackend_KeepNode(r) ==
  /\ pc[r] = "create"
  /\ \/ id[r] + 1 \notin nodes /\ Goto(r, "publish")
     \/ Goto(r, "undo")
  /\ nodes' = nodes \cup {id[r] + 1}
  /\ UNCHANGED <<next, devices, id, call, calls, granted, leaked, raced>>

\* host_ivshmem_create_static_backend: no memory, or the minor exists.
CreateBackend(r) ==
  /\ pc[r] = "create"
  /\ \/ /\ id[r] + 1 \notin nodes
        /\ nodes' = nodes \cup {id[r] + 1}
        /\ Goto(r, "publish")
     \/ Goto(r, "undo") /\ UNCHANGED nodes
  /\ UNCHANGED <<next, devices, id, call, calls, granted, leaked, raced>>

\* A later id is in use: granted, or held by a caller.
LaterHeld(r) ==
  \/ \E m \in nodes : m > id[r] + 1
  \/ \E q \in Callers : pc[q] # "idle" /\ id[q] > id[r]

\* Mutation of Undo: no atomic_dec.
Undo_NoDec(r) ==
  /\ pc[r] = "undo"
  /\ raced' = (raced \/ LaterHeld(r))
  /\ Goto(r, "idle")
  /\ UNCHANGED <<next, nodes, devices, id, call, calls, granted, leaked>>

\* The error paths: atomic_dec.
Undo(r) ==
  /\ pc[r] = "undo"
  /\ next' = next - 1
  /\ raced' = (raced \/ LaterHeld(r))
  /\ Goto(r, "idle")
  /\ UNCHANGED <<nodes, devices, id, call, calls, granted, leaked>>

\* The store to registry.devices[], and the return of vm_id.
Publish(r) ==
  /\ pc[r] = "publish"
  /\ devices' = [devices EXCEPT ![id[r] + 1] = call[r]]
  /\ granted' = granted \cup {<<id[r], call[r]>>}
  /\ Goto(r, "idle")
  /\ UNCHANGED <<next, nodes, id, call, calls, leaked, raced>>

\* host_ivshmem_exit, and the next load: no call is running, since the
\* registry's file holds the module.
Reload ==
  /\ \A r \in Callers : pc[r] = "idle"
  /\ next' = 0
  /\ nodes' = {m \in nodes : devices[m] = 0}
  /\ devices' = [m \in Minors |-> 0]
  /\ granted' = {} /\ leaked' = 0 /\ raced' = FALSE
  /\ UNCHANGED <<pc, id, call, calls>>

Next ==
  \/ \E r \in Callers :
       Claim(r) \/ Alloc(r) \/ CreateBackend(r) \/ Undo(r) \/ Publish(r)
  \/ Reload

Spec == Init /\ [][Next]_vars

-----------------------------------------------------------------------------
(* A VM keeps the backend it was given: two calls never get the same       *)
(* vm_id, and no later call replaces registry.devices[vm_id + 1], although *)
(* a racing decrement makes the counter hand out an id that is in use      *)
(* (host_ivshmem.c:335-341).                                               *)
GrantedOwnsBackend ==
  \A g \in granted : devices[g[1] + 1] = g[2]

(* next_vm_id counts the ids that are granted, held by a running call or   *)
(* leaked by a failed kzalloc, so no sequence of failures drives it below  *)
(* zero (the decrements at host_ivshmem.c:311 and 335).                    *)
NextIdConserved ==
  next = Cardinality(granted) + leaked
         + Cardinality({r \in Callers : pc[r] # "idle"})

(* Between calls the next id is free, so that a registration can succeed,  *)
(* unless an id was given back while a later one was held: after that the  *)
(* counter points at a minor in use (host_ivshmem.c:309, 335).             *)
NextIdFree ==
  (\A r \in Callers : pc[r] = "idle") /\ ~raced => next + 1 \notin nodes

=============================================================================
