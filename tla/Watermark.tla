----------------------------- MODULE Watermark -----------------------------
(***************************************************************************)
(* write_watermark (pvsched-ebpf/host/ebpf/timer): a timestamp and two     *)
(* averages packed into the 64-bit word a guest reads, 0xTTTTTTTT PPPP     *)
(* IIII.  The widths are parameters.                                       *)
(***************************************************************************)
EXTENDS Integers

CONSTANTS
  Field,  \* values of an average's field (2^16)
  TsMod   \* values of the timestamp's field (2^32)

ASSUME WatermarkAssumption ==
  Field \in Nat \ {0} /\ TsMod \in Nat \ {0}

\* Mutation of Pack: the phantom average is not shifted.
Pack_NoShift(ts, phantomAvg, idleAvg) ==
  (ts % TsMod) * Field * Field + (phantomAvg % Field) + (idleAvg % Field)

\* Masks are remainders, shifts products; the fields do not overlap.
Pack(ts, phantomAvg, idleAvg) ==
  ((ts % TsMod) * Field + (phantomAvg % Field)) * Field + (idleAvg % Field)

\* The fields as the layout defines them.
TsOf(word)      == (word \div Field) \div Field
PhantomOf(word) == (word \div Field) % Field
IdleOf(word)    == word % Field

=============================================================================
