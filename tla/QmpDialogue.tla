---------------------------- MODULE QmpDialogue ----------------------------
(***************************************************************************)
(* register_vm (pvsched-ebpf/host/user/register_vm.c) asking QEMU for the  *)
(* threads of a VM's vCPUs: the tool connects, reads the greeting,         *)
(* negotiates capabilities, sends query-cpus-fast, and takes the next line *)
(* it reads for the reply.                                                 *)
(*                                                                         *)
(* QEMU greets every connection, sends events between its replies once     *)
(* capabilities are negotiated, and can stop at any time; the lines it has *)
(* sent can still be read.                                                 *)
(***************************************************************************)
EXTENDS Integers, Sequences

CONSTANTS
  Threads,    \* thread ids the VM's vCPUs may get
  MaxEvents   \* bound on the events of one connection

VARIABLES
  threads,    \* the VM's vCPU threads, known while the tool is connected
  conn,       \* the tool's connection: "none", "open" or "closed" by QEMU
  line,       \* lines QEMU has sent that the tool has not read
  cmd,        \* the command QEMU has not answered, or "none"
  events,     \* events sent on the connection
  pc,         \* what the tool waits for
  reported,   \* the list that extract_vcpu_info returned
  \* history
  asked,      \* the threads QEMU put in its reply
  disturbed   \* 1 if an event or the end of file came before the reply, or
              \* the list was cut short

connection == <<conn, line, cmd, events>>
answer     == <<reported, asked, disturbed>>
dialogue   == <<threads, connection, pc, answer>>

DialogueInit ==
  /\ threads = {}
  /\ conn = "none" /\ line = <<>> /\ cmd = "none" /\ events = 0
  /\ pc = "off"
  /\ reported = {} /\ asked = {} /\ disturbed = 0

-----------------------------------------------------------------------------
(* QEMU.                                                                   *)

\* The reply is on its way; what follows it is never read.
Answered == pc = "query" /\ cmd = "none"
Disturb  == disturbed' = IF Answered THEN disturbed ELSE 1

VmStop ==
  /\ conn = "open"
  /\ conn' = "closed"
  /\ Disturb
  /\ UNCHANGED <<threads, line, cmd, events, pc, reported, asked>>

QemuAnswer ==
  /\ conn = "open" /\ cmd # "none"
  /\ cmd' = "none"
  /\ line' = Append(line, IF cmd = "caps" THEN "return" ELSE "cpus")
  /\ asked' = IF cmd = "query" THEN threads ELSE asked
  /\ UNCHANGED <<threads, conn, events, pc, reported, disturbed>>

\* No event is sent before capabilities are negotiated.
QemuEvent ==
  /\ conn = "open" /\ events < MaxEvents
  /\ pc = "query" \/ (pc = "caps" /\ cmd = "none")
  /\ line' = Append(line, "event")
  /\ events' = events + 1
  /\ Disturb
  /\ UNCHANGED <<threads, conn, cmd, pc, reported, asked>>

-----------------------------------------------------------------------------
(* The tool.                                                               *)

RegisterStart ==
  /\ pc = "off"
  /\ pc' = "connect"
  /\ reported' = {} /\ asked' = {} /\ disturbed' = 0
  /\ UNCHANGED <<threads, connection>>

\* qmp_connect tries once a second until the VM is up, with whatever threads it
\* was started this time.
QmpConnect(S) ==
  /\ pc = "connect"
  /\ threads' = S
  /\ conn' = "open" /\ line' = <<"greeting">> /\ cmd' = "none" /\ events' = 0
  /\ pc' = "greeting"
  /\ UNCHANGED answer

\* qmp_read_line: the next line, or nothing at the end of file.
CanRead == line # <<>> \/ conn = "closed"
ReadLine == line' = IF line = <<>> THEN <<>> ELSE Tail(line)

\* The socket is of no more use, and is closed when the tool ends.
Hangup ==
  /\ conn' = "none" /\ line' = <<>> /\ cmd' = "none" /\ events' = 0
  /\ threads' = {}

\* Mutation of SendAfter: the greeting is not read before the first command.
SendAfter_NoGreeting(step, c, next) ==
  /\ pc = step
  /\ conn = "open"
  /\ IF step = "greeting" THEN UNCHANGED line ELSE CanRead /\ ReadLine
  /\ cmd' = c /\ pc' = next
  /\ UNCHANGED <<threads, conn, events, answer>>

\* Mutation of SendAfter: the command waits for a second line.
SendAfter_TwoLines(step, c, next) ==
  /\ pc = step
  /\ Len(line) > 1
  /\ line' = Tail(Tail(line))
  /\ conn = "open"
  /\ cmd' = c /\ pc' = next
  /\ UNCHANGED <<threads, conn, events, answer>>

\* The end of qmp_send_recv and the beginning of the next: a line is read and
\* command c sent.  A write to a connection that QEMU has closed raises
\* SIGPIPE, which ends the tool.
SendAfter(step, c, next) ==
  /\ pc = step
  /\ CanRead
  /\ IF conn = "open"
     THEN ReadLine /\ cmd' = c /\ pc' = next /\ UNCHANGED <<conn, events, threads>>
     ELSE Hangup /\ pc' = "off"
  /\ UNCHANGED answer

ReadGreeting == SendAfter("greeting", "caps", "caps")
ReadCapabilities == SendAfter("caps", "query", "query")

\* The line is taken for the reply whatever it is; a line without entries is
\* an empty list.  extract_vcpu_info returns what it has when malloc fails.
ReadReply ==
  /\ pc = "query"
  /\ CanRead
  /\ IF line # <<>> /\ Head(line) = "cpus"
     THEN /\ reported' \in SUBSET asked
          /\ disturbed' = IF reported' # asked THEN 1 ELSE disturbed
     ELSE /\ reported' = {}
          /\ UNCHANGED disturbed
  /\ pc' = "scan"
  /\ Hangup
  /\ UNCHANGED asked

\* A signal, or an error that main() answers with exit 1, before register_vm.
ToolGone ==
  /\ pc \in {"connect", "greeting", "caps", "query"}
  /\ pc' = "off"
  /\ Hangup
  /\ UNCHANGED answer

Qemu == VmStop \/ QemuAnswer \/ QemuEvent

Ask ==
  \/ \E S \in (SUBSET Threads) \ {{}} : QmpConnect(S)
  \/ ReadGreeting \/ ReadCapabilities \/ ReadReply

-----------------------------------------------------------------------------
\* The list that goes to register_vm names all vCPU threads of the VM as QEMU
\* reported them, whatever QEMU had sent before -- unless an event or the end
\* of file came before the reply, or memory ran out (main, extract_vcpu_info).
ReportedInFull ==
  pc = "scan" /\ disturbed = 0 => reported = asked /\ asked # {}

=============================================================================
