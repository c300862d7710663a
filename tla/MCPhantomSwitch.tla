-------------------------- MODULE MCPhantomSwitch --------------------------
(***************************************************************************)
(* Instances of PhantomSwitch for TLC.                                     *)
(***************************************************************************)
EXTENDS PhantomRefinement, TLC

PcpuSymmetry == Permutations(Pcpus)

NoForeign  == {}
OneForeign == {0}

=============================================================================
