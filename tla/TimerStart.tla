----------------------------- MODULE TimerStart -----------------------------
(***************************************************************************)
(* How the three BPF timers are started: phantom_timer_handler (timer),    *)
(* global_running_tracker_timer_init (idle_avg) and h2g_msg_timer_init     *)
(* (h2g_msg_timer) each run on every context switch of every pCPU; the     *)
(* first to set the program's started word initialises its timer.          *)
(* bpf_timer_init may fail (no memory); what each program does then is     *)
(* what differs.                                                           *)
(***************************************************************************)
EXTENDS Integers

CONSTANTS
  HostCpus,        \* host CPUs
  Programs,     \* the programs loaded
  Resetting,    \* those that reset started when bpf_timer_init fails
  MaxFailures   \* bound on the failures of bpf_timer_init of one program

ASSUME TimerAssumption ==
  /\ Resetting \subseteq Programs
  /\ MaxFailures \in Nat

VARIABLES
  started,   \* started[g]: the program's started word
  starting,  \* starting[g]: pCPUs past the test of started, before the timer's start
  armed,     \* armed[g]: times the timer has been armed for the first time
  failed     \* failed[g]: failures so far

startVars == <<started, starting, armed, failed>>

StartInit ==
  /\ started = [g \in Programs |-> 0]
  /\ starting = [g \in Programs |-> {}]
  /\ armed = [g \in Programs |-> 0]
  /\ failed = [g \in Programs |-> 0]

\* Mutation of Claim: started is tested and set by separate accesses.
Claim_NotAtomic(g, p) ==
  /\ armed[g] = 0
  /\ p \notin starting[g]
  /\ starting' = [starting EXCEPT ![g] = @ \cup {p}]
  /\ started' = [started EXCEPT ![g] = 1]
  /\ UNCHANGED <<armed, failed>>

\* A context switch on p: the atomic test of started.
Claim(g, p) ==
  /\ started[g] = 0
  /\ p \notin starting[g]
  /\ started' = [started EXCEPT ![g] = 1]
  /\ starting' = [starting EXCEPT ![g] = @ \cup {p}]
  /\ UNCHANGED <<armed, failed>>

\* bpf_timer_init succeeds.  bpf_timer_set_callback and bpf_timer_start, whose
\* results the programs ignore, are taken to succeed too.
Arm(g, p) ==
  /\ p \in starting[g]
  /\ armed' = [armed EXCEPT ![g] = @ + 1]
  /\ starting' = [starting EXCEPT ![g] = @ \ {p}]
  /\ UNCHANGED <<started, failed>>

\* Mutation of InitFails: started is not reset.
InitFails_NoReset(g, p) ==
  /\ p \in starting[g]
  /\ failed[g] < MaxFailures
  /\ failed' = [failed EXCEPT ![g] = @ + 1]
  /\ starting' = [starting EXCEPT ![g] = @ \ {p}]
  /\ UNCHANGED <<started, armed>>

\* bpf_timer_init fails, or bpf_timer_set_callback in h2g_msg_timer, the only
\* program to look at its result.
InitFails(g, p) ==
  /\ p \in starting[g]
  /\ failed[g] < MaxFailures
  /\ failed' = [failed EXCEPT ![g] = @ + 1]
  /\ starting' = [starting EXCEPT ![g] = @ \ {p}]
  /\ started' = IF g \in Resetting THEN [started EXCEPT ![g] = 0] ELSE started
  /\ UNCHANGED armed

Step(g, p) == Claim(g, p) \/ Arm(g, p) \/ InitFails(g, p)

StartNext == \E g \in Programs, p \in HostCpus : Step(g, p)

(* Context switches keep happening and a handler that has begun runs to    *)
(* its end; bpf_timer_init fails at most MaxFailures times.                *)
FairSpec ==
  /\ StartInit /\ [][StartNext]_startVars
  /\ \A g \in Programs :
       WF_startVars(\E p \in HostCpus : Step(g, p))

-----------------------------------------------------------------------------
(* A timer is armed by one pCPU only, also when failed attempts and        *)
(* context switches of other pCPUs interleave: callbacks of one program    *)
(* never run twice per period (timer.bpf.c:348, h2g_msg_timer.bpf.c:73).   *)
ArmedOnce ==
  \A g \in Programs :
    /\ armed[g] <= 1
    /\ \A p, q \in starting[g] : p = q /\ armed[g] = 0

(* Every program's timer is eventually armed, by one pCPU, even if its     *)
(* first initialisations fail, because timer.bpf.c:354 and                 *)
(* global_running_tracker.bpf.c:234 reset started for a later attempt.     *)
(* h2g_msg_timer.bpf.c:72 says "Exactly one pCPU starts the timer" too,    *)
(* but line 82 returns without the reset: that holds unless its only       *)
(* attempt failed, and then the timer is never armed.                      *)
EventuallyArmed ==
  \A g \in Programs :
    \/ <>[](armed[g] = 1)
    \/ g \notin Resetting /\ <>[](failed[g] = 1 /\ armed[g] = 0)

=============================================================================
