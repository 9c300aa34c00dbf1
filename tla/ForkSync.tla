------------------------------ MODULE ForkSync ------------------------------
(***************************************************************************)
(* modules/fork_sync.rs: the barrier that runas puts around fork().        *)
(*                                                                         *)
(* Two close-on-exec pipes are created before the fork, so right after it  *)
(* BOTH processes hold all four descriptors.  The kernel reports EOF on a  *)
(* pipe only when no process holds its write end any more, and EPIPE only  *)
(* when no process holds its read end; which process still holds which     *)
(* descriptor therefore decides whether a dead peer is ever noticed.       *)
(*                                                                         *)
(* A process may die (be killed) between any two steps.  Descriptors are   *)
(* then closed by the kernel; a byte already written stays in the pipe.    *)
(***************************************************************************)
EXTENDS Sequences

CONSTANT IOFaults   \* may read() or write() fail other than by EINTR, EPIPE?

ASSUME IOFaultsAssumption == IOFaults \in BOOLEAN

VARIABLES
  open,    \* open[s]: the descriptors of the ForkSync that process s holds
  pipe,    \* pipe[s]: the bytes in the pipe that side s writes
  sent,    \* sent[s]: the status side s has sent, "none" before
  phase    \* phase[s]: how far side s has come

syncVars == <<open, pipe, sent, phase>>

Side == {"parent", "child"}

Other(s) == IF s = "parent" THEN "child" ELSE "parent"

ReadEnd(s) == IF s = "parent" THEN "parent_read" ELSE "child_read"
WriteEnd(s) == IF s = "parent" THEN "parent_write" ELSE "child_write"

Descriptor == {ReadEnd(s) : s \in Side} \cup {WriteEnd(s) : s \in Side}

Status == {"READY", "FAILED"}

(***************************************************************************)
(* "forked"   holds the ForkSync as fork() left it                         *)
(* "closing"  into_child()/into_parent() has closed one of the peer's ends *)
(* "endpoint" into_child()/into_parent() has run                           *)
(* "announced" the READY byte is in the pipe, its end still held           *)
(* "waiting"  READY is sent, blocked in read_byte()                        *)
(* "continue", "abort", "error"  what ready_and_wait() returned            *)
(* "failed"   report_failure() has run                                     *)
(* "gone"     died, or dropped its end, before any of these                *)
(***************************************************************************)
Phase == {"forked", "closing", "endpoint", "announced", "waiting",
          "continue", "abort", "error", "failed", "gone"}

Undecided == {"forked", "closing", "endpoint", "announced", "waiting"}

Held(d) == \E s \in Side : d \in open[s]

-----------------------------------------------------------------------------
Init ==
  /\ open = [s \in Side |-> Descriptor]
  /\ pipe = [s \in Side |-> <<>>]
  /\ sent = [s \in Side |-> "none"]
  /\ phase = [s \in Side |-> "forked"]

(* Leave phase for q and close every descriptor still held. *)
LeaveAs(s, q) ==
  /\ open' = [open EXCEPT ![s] = {}]
  /\ phase' = [phase EXCEPT ![s] = q]

(* The order of the drops: the child closes the parent's read end first, the *)
(* parent the child's write end.                                             *)
ClosedFirst(s) ==
  IF s = "child" THEN ReadEnd("parent") ELSE WriteEnd("child")

(* into_child(), into_parent(): the first of the peer's ends is closed. *)
CloseOnePeerEnd(s) ==
  /\ phase[s] = "forked"
  /\ open' = [open EXCEPT ![s] = @ \ {ClosedFirst(s)}]
  /\ phase' = [phase EXCEPT ![s] = "closing"]
  /\ UNCHANGED <<pipe, sent>>

(* A seeded fault: the second end of the peer stays open in this process. *)
IntoEndpointKeepingAnEnd(s) ==
  /\ phase[s] = "closing"
  /\ phase' = [phase EXCEPT ![s] = "endpoint"]
  /\ UNCHANGED <<open, pipe, sent>>

(* into_child(), into_parent(): only the own two ends are left. *)
IntoEndpoint(s) ==
  /\ phase[s] = "closing"
  /\ open' = [open EXCEPT ![s] = {ReadEnd(s), WriteEnd(s)}]
  /\ phase' = [phase EXCEPT ![s] = "endpoint"]
  /\ UNCHANGED <<pipe, sent>>

(* A seeded fault: a repeated call is not refused and the byte is not a     *)
(* protocol status (the raw value goes out before it is translated).         *)
SendStatusRaw(s, status) ==
  /\ Held(ReadEnd(Other(s)))
  /\ pipe' = [pipe EXCEPT ![s] = Append(@, "RAW")]
  /\ sent' = [sent EXCEPT ![s] = status]

(* send_status(): the byte goes out and is recorded as sent. *)
SendStatus(s, status) ==
  /\ sent[s] = "none"
  /\ Held(ReadEnd(Other(s)))
  /\ pipe' = [pipe EXCEPT ![s] = Append(@, status)]
  /\ sent' = [sent EXCEPT ![s] = status]

(* ready_and_wait() sends READY. *)
SendReady(s) ==
  /\ phase[s] = "endpoint"
  /\ SendStatus(s, "READY")
  /\ phase' = [phase EXCEPT ![s] = "announced"]
  /\ UNCHANGED open

(* send_status() closes the end it has written to; the peer may already    *)
(* have read the byte.                                                     *)
CloseWriteEnd(s) ==
  /\ phase[s] = "announced"
  /\ open' = [open EXCEPT ![s] = @ \ {WriteEnd(s)}]
  /\ phase' = [phase EXCEPT ![s] = "waiting"]
  /\ UNCHANGED <<pipe, sent>>

(* ready_and_wait() when no reader is left: EPIPE, returned as an error. *)
SendBroken(s) ==
  /\ phase[s] = "endpoint"
  /\ ~ Held(ReadEnd(Other(s)))
  /\ LeaveAs(s, "error")
  /\ UNCHANGED <<pipe, sent>>

(* report_failure(): FAILED is sent and the endpoint dropped. *)
ReportFailure(s) ==
  /\ phase[s] = "endpoint"
  /\ SendStatus(s, "FAILED")
  /\ LeaveAs(s, "failed")

(* A seeded fault: the peer's status is read before the own one is sent. *)
ReadStatusEarly(s) ==
  /\ phase[s] \in {"endpoint", "waiting"}
  /\ pipe[Other(s)] # <<>>
  /\ pipe' = [pipe EXCEPT ![Other(s)] = Tail(@)]
  /\ LeaveAs(s, IF Head(pipe[Other(s)]) = "READY" THEN "continue" ELSE "abort")
  /\ UNCHANGED sent

(* The second half of ready_and_wait(): a status byte is there. *)
ReadStatus(s) ==
  /\ phase[s] = "waiting"
  /\ pipe[Other(s)] # <<>>
  /\ pipe' = [pipe EXCEPT ![Other(s)] = Tail(@)]
  /\ LeaveAs(s, IF Head(pipe[Other(s)]) = "READY" THEN "continue" ELSE "abort")
  /\ UNCHANGED sent

(* A seeded fault: end of file is taken for an answer. *)
ReadEofAsReady(s) ==
  /\ phase[s] = "waiting"
  /\ pipe[Other(s)] = <<>>
  /\ ~ Held(WriteEnd(Other(s)))
  /\ LeaveAs(s, "continue")
  /\ UNCHANGED <<pipe, sent>>

(* The second half of ready_and_wait(): end of file. *)
ReadEof(s) ==
  /\ phase[s] = "waiting"
  /\ pipe[Other(s)] = <<>>
  /\ ~ Held(WriteEnd(Other(s)))
  /\ LeaveAs(s, "abort")
  /\ UNCHANGED <<pipe, sent>>

(* write() or read() returns an error that is not retried. *)
IOError(s) ==
  /\ IOFaults
  /\ phase[s] \in {"endpoint", "waiting"}
  /\ LeaveAs(s, "error")
  /\ UNCHANGED <<pipe, sent>>

(* The process dies, or an early return of its owner drops its end. *)
Vanish(s) ==
  /\ phase[s] \in Undecided
  /\ LeaveAs(s, "gone")
  /\ UNCHANGED <<pipe, sent>>

-----------------------------------------------------------------------------
(* What side s does by itself when it is scheduled and not failing. *)
Proceed(s) ==
  \/ CloseOnePeerEnd(s)
  \/ IntoEndpoint(s)
  \/ SendReady(s)
  \/ CloseWriteEnd(s)
  \/ SendBroken(s)
  \/ ReadStatus(s)
  \/ ReadEof(s)

Next ==
  \E s \in Side :
    \/ Proceed(s)
    \/ ReportFailure(s)
    \/ IOError(s)
    \/ Vanish(s)

Spec == Init /\ [][Next]_syncVars

(***************************************************************************)
(* A process that is neither blocked nor dead runs on: the operating       *)
(* system schedules each of the two.  Nothing forces a process to fail.    *)
(***************************************************************************)
FairSpec == Spec /\ \A s \in Side : WF_syncVars(Proceed(s))

-----------------------------------------------------------------------------
TypeOK ==
  /\ open \in [Side -> SUBSET Descriptor]
  /\ pipe \in [Side -> Seq(Status)]
  /\ sent \in [Side -> Status \cup {"none"}]
  /\ phase \in [Side -> Phase]

(***************************************************************************)
(* A side goes on only if the other one really reported READY, even if it  *)
(* died in the meantime: the child must not run the command for a parent   *)
(* that never installed its signal handling.                               *)
(***************************************************************************)
ContinueOnlyAfterReady ==
  \A s \in Side : phase[s] = "continue" => sent[Other(s)] = "READY"

(***************************************************************************)
(* The two calls of ready_and_wait() never disagree: not even a crash      *)
(* makes one side continue where the other one concludes Abort.            *)
(***************************************************************************)
NoSplitDecision ==
  \A s \in Side : phase[s] = "continue" => phase[Other(s)] # "abort"

(***************************************************************************)
(* Nobody waits for ever: whatever becomes of the peer, each side ends the *)
(* barrier.  This is where a write end left open in the wrong process      *)
(* would show, as an end of file that never comes.                         *)
(***************************************************************************)
BarrierEnds == \A s \in Side : <>(phase[s] \notin Undecided)

(***************************************************************************)
(* The barrier implements the gate.                                        *)
(***************************************************************************)
promisedBar == [s \in Side |-> sent[s] = "READY"]

decisionBar ==
  [s \in Side |->
     CASE phase[s] \in Undecided             -> "undecided"
       [] phase[s] \in {"continue", "abort"} -> phase[s]
       [] OTHER                              -> "none"]

Gate == INSTANCE StartGate WITH promised <- promisedBar, decision <- decisionBar

ImplementsGate == Gate!Spec
=============================================================================
