-------------------------- MODULE MCSampleBuffers --------------------------
(***************************************************************************)
(* Instances of SampleBuffers for TLC.                                     *)
(***************************************************************************)
EXTENDS SampleBuffers, TLC

PcpuSymmetry == Permutations(Pcpus)

=============================================================================
