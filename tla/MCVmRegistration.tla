-------------------------- MODULE MCVmRegistration --------------------------
(* VmRegistration for TLC.                                                 *)
EXTENDS VmRegistration
=============================================================================
