----------------------------- MODULE H2GChannel -----------------------------
(***************************************************************************)
(* The host-to-guest page: host_ivshmem_h2g_write_msg (pvsched-shmem/host) *)
(* and its two callers, the watermark of timer.bpf.c, sent once per VM and *)
(* tick through that VM's history cursor, and h2g_msg_timer.bpf.c, a timer *)
(* of its own that register_vm.sh starts beside it.                        *)
(*                                                                         *)
(* A write is two stores, the history slot and then (release) slot 0.  The *)
(* callbacks of the two timers run concurrently; a timer's own callbacks   *)
(* do not overlap.  The kfunc sends every message to registry.devices[1],  *)
(* so the VMs share one page while each has its own cursor.  A message is  *)
(* abstracted to its writer and the order of the history stores.           *)
(***************************************************************************)
EXTENDS Integers

CONSTANTS
  NrMsgs,      \* NR_HOST_IVSHMEM_MSGS, slots of the page (64)
  CursorMod,   \* values of the u32 h2g_history_index (2^32)
  Vms,         \* VMs the timer iterates over
  MaxStamp     \* bound on the messages sent

LatestSlot       == 0   \* H2G_LATEST_SLOT
FirstHistorySlot == 1   \* H2G_FIRST_HISTORY_SLOT
HistorySlotCount == NrMsgs - FirstHistorySlot
History == FirstHistorySlot .. NrMsgs - 1

ASSUME ChannelAssumption ==
  /\ NrMsgs \in Nat /\ HistorySlotCount > 0
  /\ CursorMod \in Nat /\ CursorMod >= HistorySlotCount
  /\ MaxStamp \in Nat
  /\ "none" \notin Vms

Writers == {"timer", "msg_timer"}

\* by is the VM of a watermark, or "none" for h2g_msg_timer's message; the
\* zero-filled page is stamp 0.
Messages == [by : Vms \cup {"none"}, stamp : 0 .. MaxStamp, slot : 0 .. NrMsgs - 1]
Zero == [by |-> "none", stamp |-> 0, slot |-> 0]

VARIABLES
  present,   \* registry.devices[1] is set
  page,      \* the slots
  cursor,    \* cursor[v]: vm->h2g_history_index
  index,     \* hg_timer->index, -1 before h2g_msg_timer_init
  pending,   \* pending[w]: message whose history store is done and whose
             \* store to slot 0 is not, or Zero
  stamp,     \* messages sent
  last,      \* last[w]: the last message w has begun to publish
  age        \* age[v][i]: watermarks of v stored since its last one in slot i,
             \* or since v was registered

channelVars == <<present, page, cursor, index, pending, stamp, last, age>>

ChannelTypeOK ==
  /\ present \in BOOLEAN
  /\ page \in [0 .. NrMsgs - 1 -> Messages]
  /\ cursor \in [Vms -> 0 .. CursorMod - 1]
  /\ index \in -1 .. NrMsgs - 1
  /\ pending \in [Writers -> Messages]
  /\ stamp \in 0 .. MaxStamp
  /\ last \in [Writers -> Messages]
  /\ age \in [Vms -> [History -> 0 .. MaxStamp]]

ChannelInit ==
  /\ present = FALSE
  /\ page = [i \in 0 .. NrMsgs - 1 |-> Zero]
  /\ cursor = [v \in Vms |-> 0]
  /\ index = -1
  /\ pending = [w \in Writers |-> Zero]
  /\ stamp = 0
  /\ last = [w \in Writers |-> Zero]
  /\ age = [v \in Vms |-> [i \in History |-> 0]]

\* host_register_vm: the first backend is published.
RegisterBackend ==
  /\ ~present
  /\ present' = TRUE
  /\ UNCHANGED <<page, cursor, index, pending, stamp, last, age>>

\* register_vm for a VM that is there already: its new entry is zero-filled.  A
\* watermark on its way through the old entry belongs before this step.
Reregister(v) ==
  /\ cursor' = [cursor EXCEPT ![v] = 0]
  /\ age' = [age EXCEPT ![v] = [i \in History |-> 0]]
  /\ UNCHANGED <<present, page, index, pending, stamp, last>>

-----------------------------------------------------------------------------
(* host_ivshmem_h2g_write_msg.                                             *)

\* -ENODEV before a backend is registered, -EINVAL for slot 0 and past the page.
Accepted(i) == present /\ i # LatestSlot /\ i < NrMsgs

\* Mutation of H2gWrite: slot 0 is stored before the history slot.
H2gWrite_LatestFirst(w, i, by) ==
  /\ stamp < MaxStamp
  /\ pending[w] = Zero
  /\ IF Accepted(i)
     THEN LET m == [by |-> by, stamp |-> stamp + 1, slot |-> i]
          IN  /\ page' = [page EXCEPT ![LatestSlot] = m]
              /\ pending' = [pending EXCEPT ![w] = m]
              /\ last' = [last EXCEPT ![w] = m]
              /\ stamp' = stamp + 1
     ELSE UNCHANGED <<page, pending, last, stamp>>

\* Up to and including the store to the history slot.
H2gWrite(w, i, by) ==
  /\ stamp < MaxStamp
  /\ pending[w] = Zero
  /\ IF Accepted(i)
     THEN LET m == [by |-> by, stamp |-> stamp + 1, slot |-> i]
          IN  /\ page' = [page EXCEPT ![i] = m]
              /\ pending' = [pending EXCEPT ![w] = m]
              /\ last' = [last EXCEPT ![w] = m]
              /\ stamp' = stamp + 1
     ELSE UNCHANGED <<page, pending, last, stamp>>

\* Mutation of StoreLatest: slot 0 is only stored once.
StoreLatest_IfEmpty(w) ==
  /\ pending[w] # Zero
  /\ page' = IF page[LatestSlot] = Zero
             THEN [page EXCEPT ![LatestSlot] = pending[w]] ELSE page
  /\ pending' = [pending EXCEPT ![w] = Zero]
  /\ UNCHANGED <<present, cursor, index, stamp, last, age>>

\* The release store to slot 0.
StoreLatest(w) ==
  /\ pending[w] # Zero
  /\ page' = [page EXCEPT ![LatestSlot] = pending[w]]
  /\ pending' = [pending EXCEPT ![w] = Zero]
  /\ UNCHANGED <<present, cursor, index, stamp, last, age>>

-----------------------------------------------------------------------------
(* The two callers.                                                        *)

\* Mutation of NextHistorySlot: the cursor sticks at the last slot.
NextHistorySlot_Saturating(v) ==
  IF cursor[v] < HistorySlotCount THEN FirstHistorySlot + cursor[v] ELSE NrMsgs - 1

\* next_history_slot: the slot of the cursor's value before the increment.
NextHistorySlot(v) == FirstHistorySlot + (cursor[v] % HistorySlotCount)

\* The end of callback_fn for VM v; the cursor moves even if the write is refused.
WriteWatermark(v) ==
  /\ H2gWrite("timer", NextHistorySlot(v), v)
  /\ cursor' = [cursor EXCEPT ![v] = (@ + 1) % CursorMod]
  /\ age' = IF Accepted(NextHistorySlot(v))
            THEN [age EXCEPT ![v] = [i \in History |->
                    IF i = NextHistorySlot(v) THEN 0 ELSE @[i] + 1]]
            ELSE age
  /\ UNCHANGED <<present, index>>

\* h2g_msg_timer_init: its first message, to index 0, is refused.
MsgTimerInit ==
  /\ index = -1
  /\ index' = 0
  /\ H2gWrite("msg_timer", 0, "none")
  /\ UNCHANGED <<present, cursor, age>>

\* h2g_msg_timer_callback.
MsgTimerCallback ==
  /\ index >= 0
  /\ index' = IF index + 1 >= NrMsgs THEN FirstHistorySlot ELSE index + 1
  /\ H2gWrite("msg_timer", index', "none")
  /\ UNCHANGED <<present, cursor, age>>

ChannelNext ==
  \/ RegisterBackend
  \/ \E v \in Vms : Reregister(v) \/ WriteWatermark(v)
  \/ MsgTimerInit
  \/ MsgTimerCallback
  \/ \E w \in Writers : StoreLatest(w)

ChannelSpec == ChannelInit /\ [][ChannelNext]_channelVars

-----------------------------------------------------------------------------
AtRest == \A w \in Writers : pending[w] = Zero

(* What a guest finds in slot 0 is already in the history, or has been     *)
(* replaced there by a later message: the release store orders the two,    *)
(* whichever of the two timers stores when (host_ivshmem.c:157-158).       *)
LatestInHistory ==
  page[LatestSlot] # Zero =>
    page[page[LatestSlot].slot].stamp >= page[LatestSlot].stamp

(* When no write is in progress slot 0 holds the last message of one of    *)
(* the two timers, never an older one of its own, however their stores     *)
(* interleaved.  It may be the older of the two: nothing orders the timers *)
(* with each other (host_ivshmem.c:157-158).                               *)
LatestIsSomeonesLast ==
  AtRest /\ stamp > 0 => \E w \in Writers : page[LatestSlot] = last[w]

(* From one registration of a VM to the next its watermarks keep going     *)
(* round the whole history window, however often the u32 cursor wraps: no  *)
(* slot misses a round, and a wrap, no multiple of the window, delays it   *)
(* by at most CursorMod % HistorySlotCount watermarks (timer.bpf.c:157-171 *)
(* "writes keep cycling through the whole history window").  A new         *)
(* registration starts again at the first slot (register_vm.h:92, 121).    *)
HistoryCycles ==
  \A v \in Vms, i \in History :
    age[v][i] < HistorySlotCount + (CursorMod % HistorySlotCount)

=============================================================================
