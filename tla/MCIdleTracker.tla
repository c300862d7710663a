--------------------------- MODULE MCIdleTracker ---------------------------
(* IdleTracker for TLC.                                                    *)
EXTENDS IdleTracker
=============================================================================
