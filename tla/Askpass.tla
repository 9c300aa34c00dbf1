------------------------------- MODULE Askpass -------------------------------
(***************************************************************************)
(* launch_helper() of modules/passwd.rs: runas asks another program for    *)
(* the password.  The helper is forked behind the barrier of ForkSync,     *)
(* without the privileges of runas, and writes its answer into a pipe;     *)
(* runas collects the bytes and the exit status, which arrive in either    *)
(* order, and passes signals on to the helper in the meantime.             *)
(*                                                                         *)
(* The helper may start programs of its own ("offspring") that inherit the *)
(* pipe, close its end early, stop, or be killed.                          *)
(***************************************************************************)
EXTENDS Naturals, Sequences

CONSTANTS
  MaxInputLen,   \* MAX_INPUT_LEN
  MaxWritten,    \* how many bytes are written at most
  EnvSignals,    \* signals runas may be sent while it waits
  IgnoreChild,   \* was SIGCHLD already ignored when runas was started?
  MaxEvents,     \* how many signals, stops and continues there are at most
  IOFaults       \* may the system calls of runas fail?

(* SIGINT stands for SIGHUP, SIGQUIT and SIGTERM as well. *)
HELPER_SIGNALS == {"SIGCHLD", "SIGINT", "SIGTSTP", "SIGCONT"}

ASSUME ConstantsAssumption ==
  /\ {MaxInputLen, MaxWritten, MaxEvents} \subseteq Nat
  /\ EnvSignals \subseteq HELPER_SIGNALS \ {"SIGCHLD"}
  /\ {IgnoreChild, IOFaults} \subseteq BOOLEAN

VARIABLES
  open, pipe, sent, phase,   \* the barrier, see ForkSync
  pc,        \* place of runas in launch_helper(); "dead" once it is killed
  mask,      \* are HELPER_SIGNALS blocked?
  pending,   \* signals pending at runas
  status,    \* child_status: "none", "success" or "failure"
  buffer, overflow, eof,
  answer,    \* what launch_helper() returns: "none", "password", "error"
  cpc,       \* place of the child; "helper" once execv() has succeeded
  cstate,    \* "running", "stopped", "zombie" or "reaped"
  fate,      \* "alive", or how it ended: "success", "failure", or
             \* "nameless" if killed by a signal nix has no name for
  report,    \* is there a stop or continue that waitpid() would report?
  inbox,     \* signals forwarded and not yet acted on
  pdeath,    \* is the parent-death signal armed?
  doomed,    \* has it been sent?
  writers,   \* who holds the write end of the password pipe
  unread,    \* bytes in the pipe
  written,   \* all bytes ever written to it
  events

fsVars    == <<open, pipe, sent, phase>>
bufVars   == <<status, buffer, overflow, eof>>
childVars == <<cpc, cstate, fate, report, inbox, pdeath, doomed>>
pipeVars  == <<writers, unread, written>>
vars == <<fsVars, pc, mask, pending, bufVars, answer, childVars, pipeVars, events>>

FS == INSTANCE ForkSync

(* One that makes the answer anything but UTF-8 is "bad". *)
Byte == {"x", "cr", "lf", "bad"}

Living == {"running", "stopped"}

Init ==
  /\ FS!Init
  /\ pc = "fork" /\ mask = FALSE /\ pending = {}
  /\ status = "none" /\ buffer = <<>> /\ overflow = FALSE /\ eof = FALSE
  /\ answer = "none"
  /\ cpc = "prepare" /\ cstate = "running" /\ fate = "alive"
  /\ report = FALSE /\ inbox = {} /\ pdeath = FALSE /\ doomed = FALSE
  /\ writers = {"runas", "helper"} /\ unread = <<>> /\ written = <<>>
  /\ events = 0

-----------------------------------------------------------------------------
DropEndpoint(s) ==
  IF phase[s] \in FS!Undecided THEN FS!Vanish(s) ELSE UNCHANGED fsVars

(* SIGCHLD waits only if it is blocked, and is not sent while ignored. *)
WithChildSignal(p) ==
  IF mask /\ ~ IgnoreChild THEN p \cup {"SIGCHLD"} ELSE p

(* Nor does a child then wait to be reaped, as long as runas lives. *)
ChildEnds(f) ==
  /\ cstate \in Living
  /\ cstate' = IF IgnoreChild /\ pc # "dead" THEN "reaped" ELSE "zombie"
  /\ fate' = f
  /\ report' = FALSE /\ inbox' = {} /\ doomed' = FALSE
  /\ pending' = WithChildSignal(pending)
  /\ writers' = writers \ {"helper"}
  /\ DropEndpoint("child")
  /\ UNCHANGED <<pc, mask, bufVars, answer, cpc, pdeath, unread, written, events>>

(* runas returns from launch_helper(): what it holds is dropped. *)
Leave(a) ==
  /\ pc' = "done" /\ answer' = a
  /\ mask' = FALSE /\ pending' = {}
  /\ writers' = writers \ {"runas"}

(***************************************************************************)
(* runas                                                                   *)
(***************************************************************************)

(* A seeded fault: runas keeps a write end of the password pipe. *)
KeepPasswordWrite ==
  /\ pc = "fork"
  /\ pc' = "install"
  /\ UNCHANGED <<fsVars, mask, pending, bufVars, answer, childVars, pipeVars, events>>

ClosePasswordWrite ==
  /\ pc = "fork"
  /\ writers' = writers \ {"runas"}
  /\ pc' = "install"
  /\ UNCHANGED <<fsVars, mask, pending, bufVars, answer, childVars, unread,
                 written, events>>

(* setpgid(child, child), refused for a child that is gone but otherwise   *)
(* without effect here; then SignalReceiver::install()                     *)
Install ==
  /\ pc = "install"
  /\ IF cstate = "reaped"
     THEN Leave("error") /\ DropEndpoint("parent")
     ELSE /\ mask' = TRUE
          /\ pc' = "endpoint"
          /\ UNCHANGED <<fsVars, pending, answer, writers>>
  /\ UNCHANGED <<bufVars, childVars, unread, written, events>>

ParentEndpoint ==
  /\ pc = "endpoint"
  /\ FS!CloseOnePeerEnd("parent") \/ FS!IntoEndpoint("parent")
  /\ pc' = IF phase'["parent"] = "endpoint" THEN "handshake" ELSE pc
  /\ UNCHANGED <<mask, pending, bufVars, answer, childVars, pipeVars, events>>

(* A seeded fault: the signals are blocked only after the handshake. *)
ParentHandshakeUnmasked ==
  /\ pc = "handshake"
  /\ \/ /\ FS!SendReady("parent") \/ FS!CloseWriteEnd("parent")
        /\ UNCHANGED <<pc, mask>>
     \/ /\ FS!ReadStatus("parent")
        /\ phase'["parent"] = "continue" /\ pc' = "read"
        /\ mask' = TRUE
  /\ pending' = {}
  /\ UNCHANGED <<bufVars, answer, childVars, pipeVars, events>>

(* ready_and_wait(): only Continue leads on. *)
ParentHandshake ==
  /\ pc = "handshake"
  /\ \/ /\ FS!SendReady("parent") \/ FS!CloseWriteEnd("parent")
        /\ UNCHANGED <<pc, mask, pending, answer, writers>>
     \/ /\ \/ FS!ReadStatus("parent") \/ FS!ReadEof("parent")
           \/ FS!SendBroken("parent") \/ FS!IOError("parent")
        /\ IF phase'["parent"] = "continue"
           THEN pc' = "read" /\ UNCHANGED <<mask, pending, answer, writers>>
           ELSE Leave("error")
  /\ UNCHANGED <<bufVars, childVars, unread, written, events>>

(* `?` on any other system call *)
RunasFails ==
  /\ IOFaults
  /\ pc \in {"fork", "install", "read", "reap"}
  /\ Leave("error")
  /\ DropEndpoint("parent")
  /\ UNCHANGED <<bufVars, childVars, unread, written, events>>

(* The end of a turn of the loop. *)
EndTurn == pc' = IF eof' /\ status' # "none" THEN "finish" ELSE "read"

(* A seeded fault: bytes beyond the limit are dropped without a word. *)
TakeQuietly(n) ==
  LET room     == MaxInputLen + 1 - Len(buffer)
      accepted == IF n <= room THEN n ELSE room
  IN  /\ buffer' = buffer \o SubSeq(unread, 1, accepted)
      /\ UNCHANGED overflow

(* A seeded fault: the buffer takes whatever is read. *)
TakeEverything(n) ==
  /\ buffer' = buffer \o SubSeq(unread, 1, n)
  /\ overflow' = (overflow \/ Len(buffer') > MaxInputLen + 1)

(* n bytes are read; one more than the limit is kept, for the line end. *)
Take(n) ==
  LET room     == MaxInputLen + 1 - Len(buffer)
      accepted == IF n <= room THEN n ELSE room
  IN  /\ buffer' = buffer \o SubSeq(unread, 1, accepted)
      /\ overflow' = (overflow \/ accepted # n)

(* Prompt::read() looks at the pipe only when no signal is pending. *)
ReadChunk(n) ==
  /\ pc = "read" /\ pending = {} /\ ~ eof
  /\ n <= Len(unread)
  /\ Take(n)
  /\ unread' = SubSeq(unread, n + 1, Len(unread))
  /\ UNCHANGED <<status, eof>> /\ EndTurn
  /\ UNCHANGED <<fsVars, mask, pending, answer, childVars, writers, written, events>>

ReadEndOfFile ==
  /\ pc = "read" /\ pending = {} /\ ~ eof
  /\ unread = <<>> /\ writers = {}
  /\ eof' = TRUE
  /\ UNCHANGED <<status, buffer, overflow>> /\ EndTurn
  /\ UNCHANGED <<fsVars, mask, pending, answer, childVars, pipeVars, events>>

ReceiveChildSignal ==
  /\ pc = "read" /\ "SIGCHLD" \in pending
  /\ pending' = pending \ {"SIGCHLD"}
  /\ pc' = "reap"
  /\ UNCHANGED <<fsVars, mask, bufVars, answer, childVars, pipeVars, events>>

(* Any other signal goes to the helper's group; SIGCONT acts at once. *)
ForwardSignal(s) ==
  /\ pc = "read" /\ s \in pending \ {"SIGCHLD"}
  /\ IF s = "SIGCONT" /\ cstate = "stopped"
     THEN /\ cstate' = "running" /\ report' = TRUE
          /\ pending' = WithChildSignal(pending \ {s})
     ELSE UNCHANGED <<cstate, report>> /\ pending' = pending \ {s}
  /\ inbox' = IF cstate \notin Living THEN {}
              ELSE IF s = "SIGCONT" THEN inbox \ {"SIGTSTP"} ELSE inbox \cup {s}
  /\ UNCHANGED bufVars /\ EndTurn
  /\ UNCHANGED <<fsVars, mask, answer, cpc, fate, pdeath, doomed, pipeVars, events>>

(* waitpid(): ended, changed, unchanged, or no such child. *)
ReapHelper ==
  /\ pc = "reap" /\ cstate = "zombie" /\ fate # "nameless"
  /\ cstate' = "reaped" /\ status' = fate
  /\ UNCHANGED <<buffer, overflow, eof>> /\ EndTurn
  /\ UNCHANGED <<fsVars, mask, pending, answer, cpc, fate, report, inbox, pdeath,
                 doomed, pipeVars, events>>

(* A signal without a name: the helper is reaped, waitpid() fails. *)
ReapUnnamed ==
  /\ pc = "reap" /\ cstate = "zombie" /\ fate = "nameless"
  /\ cstate' = "reaped"
  /\ Leave("error")
  /\ UNCHANGED <<fsVars, bufVars, cpc, fate, report, inbox, pdeath, doomed, unread,
                 written, events>>

SkipReport ==
  /\ pc = "reap" /\ report
  /\ report' = FALSE
  /\ UNCHANGED <<fsVars, pc, mask, pending, bufVars, answer, cpc, cstate, fate,
                 inbox, pdeath, doomed, pipeVars, events>>

StillAlive ==
  /\ pc = "reap" /\ cstate \in Living /\ ~ report
  /\ UNCHANGED bufVars /\ EndTurn
  /\ UNCHANGED <<fsVars, mask, pending, answer, childVars, pipeVars, events>>

NoChild ==
  /\ pc = "reap" /\ cstate = "reaped"
  /\ Leave("error")
  /\ UNCHANGED <<fsVars, bufVars, childVars, unread, written, events>>

(* One line feed at the end does not count, nor a carriage return before it. *)
Stripped(b) ==
  LET n == Len(b)
      Ends(k, c) == k > 0 /\ b[k] = c
  IN  IF ~ Ends(n, "lf") THEN b
      ELSE SubSeq(b, 1, IF Ends(n - 1, "cr") THEN n - 2 ELSE n - 1)

Utf8(b) == \A i \in DOMAIN b : b[i] # "bad"

(* A password, unless the helper failed or the answer is too long or not UTF-8. *)
Finish ==
  /\ pc = "finish"
  /\ buffer' = IF status = "success" THEN Stripped(buffer) ELSE buffer
  /\ IF /\ status = "success" /\ ~ overflow
        /\ Len(buffer') <= MaxInputLen /\ Utf8(buffer')
     THEN Leave("password")
     ELSE Leave("error")
  /\ UNCHANGED <<fsVars, status, overflow, eof, childVars, unread, written, events>>

RunasStep ==
  \/ ClosePasswordWrite \/ Install \/ ParentEndpoint
  \/ ParentHandshake
  \/ \E n \in 1..MaxWritten : ReadChunk(n)
  \/ ReadEndOfFile \/ ReceiveChildSignal
  \/ \E s \in HELPER_SIGNALS : ForwardSignal(s)
  \/ ReapHelper \/ ReapUnnamed \/ SkipReport \/ StillAlive \/ NoChild \/ Finish

-----------------------------------------------------------------------------
(***************************************************************************)
(* The child, until it is the helper.                                      *)
(***************************************************************************)
ChildAt(p) == cpc = p /\ cstate = "running"

ChildOnly == UNCHANGED <<pc, mask, pending, bufVars, answer, cstate, fate,
                         report, inbox, doomed, pipeVars, events>>

(* Standard streams, then setresgid() and setresuid(): a change of the     *)
(* effective user disarms the parent-death signal.                         *)
Prepare ==
  /\ ChildAt("prepare")
  /\ pdeath' = FALSE /\ cpc' = "arm"
  /\ ChildOnly /\ UNCHANGED fsVars

(* A seeded fault: the signal is not armed. *)
ArmForgotten ==
  /\ ChildAt("arm")
  /\ cpc' = "endpoint"
  /\ ChildOnly /\ UNCHANGED <<fsVars, pdeath>>

(* set_parent_exit_signal(SIGKILL), which nothing checks afterwards *)
Arm ==
  /\ ChildAt("arm")
  /\ pdeath' = TRUE /\ cpc' = "endpoint"
  /\ ChildOnly /\ UNCHANGED fsVars

ChildEndpoint ==
  /\ ChildAt("endpoint")
  /\ FS!CloseOnePeerEnd("child") \/ FS!IntoEndpoint("child")
  /\ cpc' = IF phase'["child"] = "endpoint" THEN "handshake" ELSE cpc
  /\ ChildOnly /\ UNCHANGED pdeath

ChildHandshake ==
  /\ ChildAt("handshake")
  /\ \/ /\ FS!SendReady("child") \/ FS!CloseWriteEnd("child")
        /\ UNCHANGED cpc
     \/ /\ \/ FS!ReadStatus("child") \/ FS!ReadEof("child")
           \/ FS!SendBroken("child") \/ FS!IOError("child")
        /\ cpc' = IF phase'["child"] = "continue" THEN "exec" ELSE "fail"
  /\ ChildOnly /\ UNCHANGED pdeath

(* No new privileges from here on, so execv() does not disarm the signal. *)
Execute ==
  /\ ChildAt("exec")
  /\ cpc' = "helper"
  /\ ChildOnly /\ UNCHANGED <<fsVars, pdeath>>

(* exit(1) *)
EndAborted == ChildAt("fail") /\ ChildEnds("failure")

ChildFails ==
  /\ cstate = "running" /\ cpc \in {"prepare", "arm", "exec"}
  /\ ChildEnds("failure")

ChildStep ==
  Prepare \/ Arm \/ ChildEndpoint \/ ChildHandshake \/ Execute \/ EndAborted

DeathSignalArrives == doomed /\ ChildEnds("failure")

-----------------------------------------------------------------------------
(***************************************************************************)
(* The helper, its offspring, the user and the operator.                   *)
(***************************************************************************)
HelperRest == UNCHANGED <<fsVars, mask, bufVars, answer>>

Writer(w) == w \in writers \ {"runas"} /\ (w = "helper" => ChildAt("helper"))

Write(w, b) ==
  /\ Writer(w)
  /\ pc \notin {"done", "dead"}
  /\ Len(written) < MaxWritten
  /\ unread' = Append(unread, b) /\ written' = Append(written, b)
  /\ HelperRest /\ UNCHANGED <<pc, pending, childVars, writers, events>>

(* The helper closes its end, or somebody in its offspring the last one. *)
CloseOutput(w) ==
  /\ Writer(w)
  /\ writers' = writers \ {w}
  /\ HelperRest /\ UNCHANGED <<pc, pending, childVars, unread, written, events>>

Spawn ==
  /\ Writer("helper")
  /\ writers' = writers \cup {"offspring"}
  /\ HelperRest /\ UNCHANGED <<pc, pending, childVars, unread, written, events>>

HelperExits(f) == ChildAt("helper") /\ ChildEnds(f)

ChildKilled(f) == ChildEnds(f)

StopNow ==
  /\ cstate = "running"
  /\ cstate' = "stopped" /\ report' = TRUE
  /\ pending' = WithChildSignal(pending)

ActOnSignal(s) ==
  /\ cstate = "running" /\ s \in inbox
  /\ \/ s # "SIGTSTP" /\ ChildEnds("failure")
     \/ /\ inbox' = inbox \ {s}
        /\ \/ s = "SIGTSTP" /\ StopNow
           \/ UNCHANGED <<cstate, report, pending>>
        /\ HelperRest
        /\ UNCHANGED <<pc, cpc, fate, pdeath, doomed, pipeVars, events>>

Event == events < MaxEvents /\ events' = events + 1

StopOrContinueHelper ==
  /\ Event
  /\ \/ StopNow
     \/ /\ cstate = "stopped" /\ cstate' = "running" /\ report' = TRUE
        /\ pending' = WithChildSignal(pending)
  /\ HelperRest
  /\ UNCHANGED <<pc, cpc, fate, inbox, pdeath, doomed, pipeVars>>

(* Before the signals are blocked they act by default and runas ends or is *)
(* merely stopped; the first is KillRunas, the second changes nothing.     *)
SignalRunas(s) ==
  /\ Event
  /\ mask /\ pc # "dead"
  /\ pending' = pending \cup {s}
  /\ HelperRest /\ UNCHANGED <<pc, childVars, pipeVars>>

KillRunas ==
  /\ pc # "dead"
  /\ pc' = "dead" /\ mask' = FALSE /\ pending' = {}
  /\ writers' = writers \ {"runas"}
  /\ doomed' = (doomed \/ (pdeath /\ cstate \in Living))
  /\ DropEndpoint("parent")
  /\ UNCHANGED <<bufVars, answer, cpc, cstate, fate, report, inbox, pdeath,
                 unread, written, events>>

Environment ==
  \/ \E w \in {"helper", "offspring"} :
       CloseOutput(w) \/ \E b \in Byte : Write(w, b)
  \/ Spawn
  \/ \E f \in {"success", "failure"} : HelperExits(f)
  \/ \E f \in {"failure", "nameless"} : ChildKilled(f)
  \/ ChildFails \/ StopOrContinueHelper
  \/ \E s \in HELPER_SIGNALS : ActOnSignal(s)
  \/ \E s \in EnvSignals : SignalRunas(s)
  \/ KillRunas \/ RunasFails

Next == RunasStep \/ ChildStep \/ DeathSignalArrives \/ Environment

Spec == Init /\ [][Next]_vars

(* The two processes are scheduled; helper, offspring and user do what     *)
(* they like.                                                              *)
FairSpec ==
  Spec /\ WF_vars(RunasStep) /\ WF_vars(ChildStep) /\ WF_vars(DeathSignalArrives)

-----------------------------------------------------------------------------
RunasTypeOK ==
  /\ pc \in {"fork", "install", "endpoint", "handshake", "read",
             "reap", "finish", "done", "dead"}
  /\ mask \in BOOLEAN /\ pending \subseteq HELPER_SIGNALS
  /\ status \in {"none", "success", "failure"}
  /\ overflow \in BOOLEAN /\ eof \in BOOLEAN
  /\ answer \in {"none", "password", "error"}
  /\ events \in 0..MaxEvents

ChildTypeOK ==
  /\ cpc \in {"prepare", "arm", "endpoint", "handshake", "exec", "fail", "helper"}
  /\ cstate \in Living \cup {"zombie", "reaped"}
  /\ fate \in {"alive", "success", "failure", "nameless"}
  /\ report \in BOOLEAN /\ inbox \subseteq HELPER_SIGNALS
  /\ pdeath \in BOOLEAN /\ doomed \in BOOLEAN
  /\ writers \subseteq {"runas", "helper", "offspring"}

BytesTypeOK ==
  /\ buffer \in Seq(Byte) /\ Len(buffer) <= MaxInputLen + 1
  /\ unread \in Seq(Byte) /\ written \in Seq(Byte)

TypeOK == FS!TypeOK /\ RunasTypeOK /\ ChildTypeOK /\ BytesTypeOK

(***************************************************************************)
(* A password is returned only from a helper that has ended well, and it   *)
(* is all that was written, by anybody and in whatever chunks, without its *)
(* line end; nothing too long is cut down to a password.                   *)
(***************************************************************************)
PasswordIsWholeAnswer ==
  answer = "password" =>
    /\ fate = "success"
    /\ buffer = Stripped(written)
    /\ Len(buffer) <= MaxInputLen /\ Utf8(buffer)

(***************************************************************************)
(* No end of the helper is missed: while runas waits for more, the helper  *)
(* lives, or its status is known, or SIGCHLD is pending; even if it died   *)
(* when the signals were not blocked yet.  (With ~ IgnoreChild: runas      *)
(* started with SIGCHLD ignored is told of no end and waits for ever.)     *)
(***************************************************************************)
NoLostWakeup ==
  pc = "read" /\ "SIGCHLD" \notin pending
    => cstate \in Living \/ status # "none"

(***************************************************************************)
(* A helper never survives a runas that was killed, wherever both are.     *)
(***************************************************************************)
NoOrphanHelper ==
  pc = "dead" /\ cpc = "helper" /\ cstate \in Living => doomed

(***************************************************************************)
(* README.md, "Askpass helper": --askpass "reads the password from an      *)
(* external helper".  So when no system call fails and the helper ends     *)
(* well after an answer of proper length in UTF-8, it is accepted.         *)
(***************************************************************************)
ProperAnswerIsAccepted ==
  answer = "error" /\ status = "success" /\ cpc = "helper"
    => Len(written) > MaxInputLen \/ ~ Utf8(written)

(* When the helper and its offspring are gone launch_helper() returns,     *)
(* unless runas was started with SIGCHLD ignored (~ IgnoreChild).          *)
AskpassEnds ==
  (cstate \notin Living /\ "offspring" \notin writers) ~> pc \in {"done", "dead"}
=============================================================================
