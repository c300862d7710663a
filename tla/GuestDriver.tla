---------------------------- MODULE GuestDriver ----------------------------
(***************************************************************************)
(* guest_ivshmem.ko (pvsched-shmem/guest): the life of the per-device      *)
(* struct guest_ivshmem_device, published through the RCU pointer          *)
(* guest_ivshmem, used by the kfunc bpf_guest_ivshmem_g2h_write and by the *)
(* character device whose cdev is embedded in it.                          *)
(*                                                                         *)
(* The struct of a PCI device is named by the device.  A failing probe     *)
(* undoes all it did and leaves the device unbound, so it is not a step.   *)
(* The guest's PCI core, module loader and RCU are external.               *)
(***************************************************************************)
EXTENDS Integers, FiniteSets

CONSTANTS
  Devices,     \* ivshmem-plain devices of the VM
  KfuncCpus,        \* guest CPUs, which run the BPF programs that call the kfunc
  Files        \* open files of /dev/guest_ivshmem

CONSTANTS None, Closed, Outside

VARIABLES
  module,   \* "unloaded", "probing", "loaded" or "exiting"
  plugged,  \* devices on the PCI bus
  bound,    \* bound[d]: "no", "bound", or "removing" (in synchronize_rcu)
  guest,    \* the published pointer guest_ivshmem
  live,     \* structs that are allocated and mapped
  chardev,  \* the struct whose cdev is registered
  bpf,      \* BPF programs that use the kfunc are loaded
  rd,       \* rd[c]: the pointer c holds inside rcu_read_lock()
  grace,    \* grace[d]: readers the removal of d still waits for
  file      \* file[f]: private_data of an open file

driverVars == <<module, plugged, bound, guest, live, chardev, bpf, rd, grace, file>>

ASSUME DriverAssumption == Devices \cap {None, Closed, Outside} = {}

DriverTypeOK ==
  /\ module \in {"unloaded", "probing", "loaded", "exiting"}
  /\ plugged \subseteq Devices
  /\ bound \in [Devices -> {"no", "bound", "removing"}]
  /\ guest \in Devices \cup {None}
  /\ live = {d \in Devices : bound[d] # "no"}
  /\ chardev \in Devices \cup {None}
  /\ bpf \in BOOLEAN
  /\ rd \in [KfuncCpus -> Devices \cup {Outside}]
  /\ grace \in [Devices -> SUBSET KfuncCpus]
  /\ file \in [Files -> Devices \cup {None, Closed}]

DriverInit ==
  /\ module = "unloaded"
  /\ plugged = Devices
  /\ bound = [d \in Devices |-> "no"]
  /\ guest = None
  /\ live = {}
  /\ chardev = None
  /\ bpf = FALSE
  /\ rd = [c \in KfuncCpus |-> Outside]
  /\ grace = [d \in Devices |-> {}]
  /\ file = [f \in Files |-> Closed]

-----------------------------------------------------------------------------
(* guest_ivshmem_init and guest_ivshmem_exit.                              *)

\* pci_register_driver: the devices are probed before it returns.
ModuleInit ==
  /\ module = "unloaded"
  /\ module' = "probing"
  /\ UNCHANGED <<plugged, bound, guest, live, chardev, bpf, rd, grace, file>>

\* A device was found; the kfuncs and the character device are registered.
InitSucceeds ==
  /\ module = "probing"
  /\ guest # None
  /\ module' = "loaded"
  /\ chardev' = guest
  /\ UNCHANGED <<plugged, bound, guest, live, bpf, rd, grace, file>>

\* No device, or a registration failed: pci_unregister_driver.
InitFails ==
  /\ module = "probing"
  /\ module' = "exiting"
  /\ UNCHANGED <<plugged, bound, guest, live, chardev, bpf, rd, grace, file>>

\* Mutation of ModuleExit: the character device goes after the PCI driver.
ModuleExit_ChardevLast ==
  /\ module = "loaded"
  /\ ~bpf /\ \A f \in Files : file[f] = Closed
  /\ module' = "exiting"
  /\ UNCHANGED <<plugged, bound, guest, live, chardev, bpf, rd, grace, file>>

\* Mutation of ModuleExit: open files do not hold the module.
ModuleExit_NoOwner ==
  /\ module = "loaded"
  /\ ~bpf
  /\ module' = "exiting"
  /\ chardev' = None
  /\ UNCHANGED <<plugged, bound, guest, live, bpf, rd, grace, file>>

\* rmmod is possible while no file is open (fops.owner) and no BPF program
\* uses the kfunc (kfunc_id_set.owner).
ModuleExit ==
  /\ module = "loaded"
  /\ ~bpf /\ \A f \in Files : file[f] = Closed
  /\ module' = "exiting"
  /\ chardev' = None
  /\ UNCHANGED <<plugged, bound, guest, live, bpf, rd, grace, file>>

\* pci_unregister_driver has run remove() for every bound device.
ModuleGone ==
  /\ module = "exiting"
  /\ \A d \in Devices : bound[d] = "no"
  /\ module' = "unloaded"
  /\ UNCHANGED <<plugged, bound, guest, live, chardev, bpf, rd, grace, file>>

-----------------------------------------------------------------------------
(* probe() and remove().                                                   *)

\* The struct is allocated, the G2H region mapped and the pointer published.
\* If one was published already probe() reports -EBUSY and goes on.
Probe(d) ==
  /\ module \in {"probing", "loaded"}
  /\ d \in plugged /\ bound[d] = "no"
  /\ bound' = [bound EXCEPT ![d] = "bound"]
  /\ live' = live \cup {d}
  /\ guest' = d
  /\ UNCHANGED <<module, plugged, chardev, bpf, rd, grace, file>>

\* Mutation of RemoveBegin: no synchronize_rcu().
RemoveBegin_NoSync(d) ==
  /\ bound[d] = "bound"
  /\ \/ module = "exiting" /\ UNCHANGED plugged
     \/ plugged' = plugged \ {d}
  /\ bound' = [bound EXCEPT ![d] = "removing"]
  /\ guest' = IF guest = d THEN None ELSE guest
  /\ UNCHANGED <<module, live, chardev, bpf, rd, grace, file>>

\* Module exit or hot unplug: up to the mutex_unlock; then synchronize_rcu()
\* waits for the readers inside their critical sections.
RemoveBegin(d) ==
  /\ bound[d] = "bound"
  /\ \/ module = "exiting" /\ UNCHANGED plugged
     \/ plugged' = plugged \ {d}
  /\ bound' = [bound EXCEPT ![d] = "removing"]
  /\ guest' = IF guest = d THEN None ELSE guest
  /\ grace' = [grace EXCEPT ![d] = {c \in KfuncCpus : rd[c] # Outside}]
  /\ UNCHANGED <<module, live, chardev, bpf, rd, file>>

\* pci_iounmap, pci_release_region, pci_disable_device and kfree.
RemoveEnd(d) ==
  /\ bound[d] = "removing" /\ grace[d] = {}
  /\ bound' = [bound EXCEPT ![d] = "no"]
  /\ live' = live \ {d}
  /\ UNCHANGED <<module, plugged, guest, chardev, bpf, rd, grace, file>>

-----------------------------------------------------------------------------
(* Users: BPF programs that call the kfunc, and open files.                *)

LoadBpf ==
  /\ module = "loaded" /\ ~bpf
  /\ bpf' = TRUE
  /\ UNCHANGED <<module, plugged, bound, guest, live, chardev, rd, grace, file>>

UnloadBpf ==
  /\ bpf /\ \A c \in KfuncCpus : rd[c] = Outside
  /\ bpf' = FALSE
  /\ UNCHANGED <<module, plugged, bound, guest, live, chardev, rd, grace, file>>

\* guest_ivshmem_g2h_write_msg up to the load of the pointer; with no device
\* it returns -ENODEV.
G2hReadLock(c) ==
  /\ bpf /\ rd[c] = Outside
  /\ guest # None
  /\ rd' = [rd EXCEPT ![c] = guest]
  /\ UNCHANGED <<module, plugged, bound, guest, live, chardev, bpf, grace, file>>

\* The write through the pointer, and rcu_read_unlock().
G2hWriteUnlock(c) ==
  /\ rd[c] # Outside
  /\ rd' = [rd EXCEPT ![c] = Outside]
  /\ grace' = [d \in Devices |-> grace[d] \ {c}]
  /\ UNCHANGED <<module, plugged, bound, guest, live, chardev, bpf, file>>

\* guest_ivshmem_open; guest_ivshmem_mmap only uses what open stored.
Open(f) ==
  /\ chardev # None
  /\ file[f] = Closed
  /\ file' = [file EXCEPT ![f] = guest]
  /\ UNCHANGED <<module, plugged, bound, guest, live, chardev, bpf, rd, grace>>

Release(f) ==
  /\ file[f] # Closed
  /\ file' = [file EXCEPT ![f] = Closed]
  /\ UNCHANGED <<module, plugged, bound, guest, live, chardev, bpf, rd, grace>>

DriverNext ==
  \/ ModuleInit \/ InitSucceeds \/ InitFails \/ ModuleExit \/ ModuleGone
  \/ LoadBpf \/ UnloadBpf
  \/ \E d \in Devices : Probe(d) \/ RemoveBegin(d) \/ RemoveEnd(d)
  \/ \E c \in KfuncCpus : G2hReadLock(c) \/ G2hWriteUnlock(c)
  \/ \E f \in Files : Open(f) \/ Release(f)

DriverSpec == DriverInit /\ [][DriverNext]_driverVars

-----------------------------------------------------------------------------
(* The struct a kfunc caller holds or can obtain is never freed, also when *)
(* its device is unplugged during the call or a second device took over    *)
(* the pointer (guest_ivshmem.c:117, 555-563).                             *)
RcuProtects ==
  /\ guest # None => guest \in live
  /\ \A c \in KfuncCpus : rd[c] # Outside => rd[c] \in live

(* With a single device, and while it is not unplugged, the registered     *)
(* cdev lies in the struct that guest_ivshmem points to, which is what     *)
(* unregister_chardev dereferences, and the struct is allocated (the order *)
(* of guest_ivshmem_exit, guest_ivshmem.c:647-654).                        *)
ChardevMatches ==
  plugged = Devices /\ (\A d, e \in live : d = e) /\ chardev # None
    => chardev = guest /\ chardev \in live

(* The private_data of an open file, which mmap dereferences, is an        *)
(* allocated struct: no file survives the exit of the module.  Also with a *)
(* second device, but only while no device is unplugged.                   *)
OpenFileAlive ==
  plugged = Devices => \A f \in Files : file[f] # Closed => file[f] \in live

(* guest_ivshmem.c:499: "So reject an unexpected second device."           *)
OneDeviceBound == Cardinality({d \in Devices : bound[d] # "no"}) <= 1

=============================================================================
