----------------------------- MODULE MCEndToEnd -----------------------------
EXTENDS EndToEnd

\* Behaviours are followed until a retry loop gives up.
NoUpdateLost == lost = 0

\* The device is unplugged, if at all, when the guest is set up and nobody has
\* called execve() as a tagged worker.
UnplugLate == device \/ (hooks = 4 /\ missed = {} /\ execTids = {})
=============================================================================
