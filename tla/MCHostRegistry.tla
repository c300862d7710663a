--------------------------- MODULE MCHostRegistry ---------------------------
(***************************************************************************)
(* An instance of HostRegistry for TLC.                                    *)
(***************************************************************************)
EXTENDS HostRegistry, TLC

CallerSymmetry == Permutations(Callers)

=============================================================================
