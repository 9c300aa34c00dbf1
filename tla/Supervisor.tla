----------------------------- MODULE Supervisor -----------------------------
(***************************************************************************)
(* The two processes that run a command under the scopex backend with PAM: *)
(*                                                                         *)
(*   the supervisor  keeps the PAM session open, owns the terminal,        *)
(*                   forwards signals and reports the command's exit code  *)
(*                   (modules/auth.rs from fork() on, watch_process() of   *)
(*                   modules/proc.rs, modules/fg_handler.rs and            *)
(*                   modules/signal_recv.rs);                              *)
(*   the child       synchronises, changes its credentials and executes    *)
(*                   the command (modules/auth.rs, exec() of               *)
(*                   modules/proc.rs).                                     *)
(*                                                                         *)
(* They start at the fork, with the barrier of ForkSync between them.  The *)
(* kernel's part is modelled as far as the code relies on it: signals that *)
(* coalesce while they are blocked and act by default when they are not,   *)
(* one latest stop or continue report per child, the parent-death signal,  *)
(* and the terminal's foreground group.  Shell, operator and command act   *)
(* freely; MaxEvents bounds how often in one behaviour.                    *)
(***************************************************************************)
EXTENDS Integers, Sequences

CONSTANTS
  EnvSignals,    \* signals somebody may send to the supervisor
  ExitCodes,     \* exit codes the command may choose
  KillSignals,   \* signals somebody may kill the child with
  MayKill,       \* may somebody send the supervisor SIGKILL?
  IgnoreChild,   \* was SIGCHLD already ignored when runas was started?
  IOFaults,      \* may pipe I/O and the set-up calls of the supervisor fail?
  WaitFaults,    \* may waiting for a signal fail?
  MaxEvents      \* how many signals, stops and continues come from outside

SIGHUP == 1  SIGINT == 2  SIGQUIT == 3  SIGKILL == 9  SIGALRM == 14
SIGTERM == 15  SIGCHLD == 17  SIGCONT == 18  SIGTSTP == 20  SIGWINCH == 28

RECEIVED_SIGNALS ==
  {SIGCHLD, SIGHUP, SIGINT, SIGQUIT, SIGTERM, SIGALRM,
   SIGTSTP, SIGCONT, SIGWINCH}

(* Those whose default action ends the process. *)
Fatal == {SIGHUP, SIGINT, SIGQUIT, SIGTERM, SIGALRM}

(* The signals nix has a name for.  For a child killed by any other, a      *)
(* real-time signal, its waitpid() fails with EINVAL after reaping it.      *)
Named == 1..31

ASSUME ConstantsAssumption ==
  /\ EnvSignals \subseteq RECEIVED_SIGNALS
  /\ ExitCodes \subseteq 0..255
  /\ KillSignals \subseteq 1..64
  /\ {MayKill, IgnoreChild, IOFaults, WaitFaults} \subseteq BOOLEAN
  /\ MaxEvents \in Nat

VARIABLES
  open, pipe, sent, phase,   \* the barrier, see ForkSync
  spc,       \* the supervisor's place in the code
  sstate,    \* "running", "stopped" or "dead"
  mask,      \* are RECEIVED_SIGNALS blocked in the supervisor?
  pending,   \* signals blocked and pending at the supervisor
  ttou,      \* is SIGTTOU ignored in the supervisor?
  tty,       \* foreground group: "original", "command"; "none": stdin is
             \* no terminal that can be handed over
  session,   \* is the PAM session open?
  code,      \* status_code, -1 before watch_process() has returned
  cpc,       \* the child's place in the code
  cstate,    \* "running", "stopped", "zombie" or "reaped"
  fate,      \* how the child ended
  report,    \* what waitpid() would report of a living child
  inbox,     \* signals forwarded to the child and not yet acted on
  grouped,   \* does the child lead a process group of its own?
  pdeath,    \* parent-death signal: "unset", "armed", "elevated"
  noted,     \* the parent that exec() noted: "none", "supervisor", "other"
  doomed,    \* has the parent-death signal been sent?
  events     \* events from outside so far

fsVars    == <<open, pipe, sent, phase>>
supVars   == <<spc, sstate, mask, pending, ttou, tty, session, code>>
childVars == <<cpc, cstate, fate, report, inbox, grouped, pdeath, noted, doomed>>
vars      == <<fsVars, supVars, childVars, events>>

FS == INSTANCE ForkSync

Living == {"running", "stopped"}

(* The supervisor's steps, in the order of the code. *)
Setup   == {"fork", "install", "foreground", "group", "handshake"}
Loop    == {"wait", "reap", "suspend", "resume"}
Release == {"untty", "unmask", "unpipe", "pam", "exit", "done"}

(* The child's steps; "command" once execve() has succeeded. *)
Prelude == {"fork", "arm", "group", "handshake", "fail",
            "note", "switch", "rearm", "check", "exec"}

Exited(c)   == <<"exited", c>>
Signaled(s) == <<"signaled", s>>

NoFate == <<"alive", 0>>

(* Can a WaitStatus say how the child ended? *)
Expressible(f) == f[1] = "exited" \/ f[2] \in Named

(* A seeded fault: the signal number is passed on without the offset. *)
CodeOfWithoutOffset(f) == f[2]

(* A seeded fault: the raw wait status is passed on. *)
CodeOfRaw(f) == IF f[1] = "exited" THEN 256 * f[2] ELSE f[2]

(* The exit code watch_process() makes of a wait status. *)
CodeOf(f) == IF f[1] = "exited" THEN f[2] ELSE 128 + f[2]

-----------------------------------------------------------------------------
Init ==
  /\ FS!Init
  /\ spc = "fork" /\ sstate = "running"
  /\ mask = FALSE /\ pending = {} /\ ttou = FALSE
  /\ tty \in {"original", "none"}
  /\ session = TRUE /\ code = -1
  /\ cpc = "fork" /\ cstate = "running" /\ fate = NoFate
  /\ report = "none" /\ inbox = {} /\ grouped = FALSE
  /\ pdeath = "unset" /\ noted = "none" /\ doomed = FALSE
  /\ events = 0

(***************************************************************************)
(* What the kernel does on behalf of both.                                 *)
(***************************************************************************)

(* The supervisor, with the signals p pending, is told of a child event by *)
(* SIGCHLD: kept while it is blocked, lost while it is not, never sent     *)
(* while it is ignored.                                                    *)
WithChildSignal(p) ==
  IF mask /\ sstate # "dead" /\ ~ IgnoreChild THEN p \cup {SIGCHLD} ELSE p

(* Side s of the barrier goes away, if it is still there. *)
DropEndpoint(s) ==
  IF phase[s] \in FS!Undecided THEN FS!Vanish(s) ELSE UNCHANGED fsVars

(* The child ends; without a supervisor somebody else reaps it. *)
ChildEnds(f) ==
  /\ cstate \in Living
  /\ cstate' = IF IgnoreChild /\ sstate # "dead" THEN "reaped" ELSE "zombie"
  /\ fate' = f
  /\ report' = "none" /\ inbox' = {} /\ doomed' = FALSE
  /\ pending' = WithChildSignal(pending)
  /\ DropEndpoint("child")
  /\ UNCHANGED <<spc, sstate, mask, ttou, tty, session, code,
                 cpc, grouped, pdeath, noted>>

(* kill(-pid, s), with the signals p left pending at the supervisor.       *)
(* SIGCONT acts at once and discards a stop that has not happened yet.     *)
SignalGroup(s, p) ==
  \/ /\ cstate \notin Living
     /\ pending' = p
     /\ UNCHANGED <<cstate, report, inbox>>
  \/ /\ cstate \in Living /\ s # SIGCONT
     /\ inbox' = inbox \cup {s}
     /\ pending' = p
     /\ UNCHANGED <<cstate, report>>
  \/ /\ cstate = "running" /\ s = SIGCONT
     /\ inbox' = inbox \ {SIGTSTP}
     /\ pending' = p
     /\ UNCHANGED <<cstate, report>>
  \/ /\ cstate = "stopped" /\ s = SIGCONT
     /\ cstate' = "running" /\ report' = "continued"
     /\ inbox' = inbox \ {SIGTSTP}
     /\ pending' = WithChildSignal(p)

ChildStops ==
  /\ cstate = "running"
  /\ cstate' = "stopped" /\ report' = "stopped"
  /\ pending' = WithChildSignal(pending)

(* The supervisor is gone: its descriptors are closed and the parent-death *)
(* signal, if armed, is on its way.                                        *)
SupervisorEnds ==
  /\ sstate' = "dead"
  /\ pending' = {}
  /\ doomed' = (doomed \/ (pdeath = "armed" /\ cstate \in Living))
  /\ DropEndpoint("parent")
  /\ UNCHANGED <<mask, ttou, tty, session, code,
                 cpc, cstate, fate, report, inbox, grouped, pdeath, noted>>

(* tcsetpgrp(): from a background group it stops the caller, unless SIGTTOU *)
(* is ignored; it fails for a group that is gone.                           *)
GiveTerminal(group, ignored) ==
  IF tty = "none" \/ (group = "command" /\ cstate = "reaped")
  THEN UNCHANGED <<tty, sstate>>
  ELSE IF ignored \/ tty = "original"
       THEN tty' = group /\ UNCHANGED sstate
       ELSE sstate' = "stopped" /\ UNCHANGED tty

-----------------------------------------------------------------------------
(***************************************************************************)
(* The supervisor.                                                         *)
(***************************************************************************)
At(p) == spc = p /\ sstate = "running"

(* A seeded fault: the barrier comes before the supervisor's preparations. *)
ParentEndpointThenBarrier ==
  /\ At("fork")
  /\ FS!CloseOnePeerEnd("parent") \/ FS!IntoEndpoint("parent")
  /\ spc' = IF phase'["parent"] = "endpoint" THEN "handshake" ELSE "fork"
  /\ UNCHANGED <<sstate, mask, pending, ttou, tty, session, code, childVars, events>>

(* auth(): sync.into_parent() *)
ParentEndpoint ==
  /\ At("fork")
  /\ FS!CloseOnePeerEnd("parent") \/ FS!IntoEndpoint("parent")
  /\ spc' = IF phase'["parent"] = "endpoint" THEN "install" ELSE "fork"
  /\ UNCHANGED <<sstate, mask, pending, ttou, tty, session, code, childVars, events>>

(* SignalReceiver::install(): block first, then open the signalfd. *)
InstallReceiver ==
  /\ At("install")
  /\ mask' = TRUE
  /\ spc' = "foreground"
  /\ UNCHANGED <<fsVars, sstate, pending, ttou, tty, session, code, childVars, events>>

(* ForegroundHandler::install(): ignore SIGTTOU, hand the terminal over. *)
InstallForeground ==
  /\ At("foreground")
  /\ ttou' = TRUE
  /\ GiveTerminal("command", ttou')
  /\ spc' = "group"
  /\ UNCHANGED <<fsVars, mask, pending, session, code, childVars, events>>

(* setpgid(pid, pid): refused for a child that is gone or has executed. *)
ParentGroups ==
  /\ At("group")
  /\ IF cstate = "reaped" \/ cpc = "command"
     THEN /\ spc' = "untty" /\ code' = 1
          /\ UNCHANGED grouped
     ELSE /\ spc' = "handshake" /\ grouped' = TRUE
          /\ UNCHANGED code
  /\ UNCHANGED <<fsVars, sstate, mask, pending, ttou, tty, session,
                 cpc, cstate, fate, report, inbox, pdeath, noted, doomed, events>>

(* `?` in watch_process() before the barrier: what is installed is dropped. *)
SetupFails ==
  /\ IOFaults
  /\ \/ At("install") /\ spc' = "unpipe"
     \/ At("foreground") /\ spc' = "unmask"
     \/ At("group") /\ spc' = "untty"
  /\ code' = 1
  /\ UNCHANGED <<fsVars, sstate, mask, pending, ttou, tty, session, childVars, events>>

(* A seeded fault: the loop waits for its first signal. *)
FirstTurnWaits == "wait"

(* `initiate`: the loop starts as if SIGCHLD had been received. *)
FirstTurn == "reap"

(* let _ = pipe.ready_and_wait(): whatever it returns, the loop is entered. *)
ParentHandshake ==
  /\ At("handshake")
  /\ \/ /\ FS!SendReady("parent") \/ FS!CloseWriteEnd("parent")
        /\ UNCHANGED spc
     \/ /\ \/ FS!ReadStatus("parent") \/ FS!ReadEof("parent")
           \/ FS!SendBroken("parent") \/ FS!IOError("parent")
        /\ spc' = FirstTurn
  /\ UNCHANGED <<sstate, mask, pending, ttou, tty, session, code, childVars, events>>

(* signals.wait() returns SIGCHLD: look for the child's state. *)
ReceiveChildSignal ==
  /\ At("wait")
  /\ SIGCHLD \in pending
  /\ pending' = pending \ {SIGCHLD}
  /\ spc' = "reap"
  /\ UNCHANGED <<fsVars, sstate, mask, ttou, tty, session, code, childVars, events>>

(* A seeded fault: a signal is taken from the queue and forgotten. *)
ForwardSignalForgotten(s) ==
  /\ At("wait")
  /\ s \in pending \ {SIGCHLD}
  /\ pending' = pending \ {s}
  /\ UNCHANGED <<fsVars, spc, sstate, mask, ttou, tty, session, code,
                 childVars, events>>

(* signals.wait() returns any other signal: pass it on. *)
ForwardSignal(s) ==
  /\ At("wait")
  /\ s \in pending \ {SIGCHLD}
  /\ SignalGroup(s, pending \ {s})
  /\ UNCHANGED <<fsVars, spc, sstate, mask, ttou, tty, session, code,
                 cpc, fate, grouped, pdeath, noted, doomed, events>>

(* signals.wait() fails: watch_process() gives up. *)
WaitFails ==
  /\ WaitFaults
  /\ At("wait")
  /\ code' = 1
  /\ spc' = "untty"
  /\ UNCHANGED <<fsVars, sstate, mask, pending, ttou, tty, session, childVars, events>>

(* A seeded fault: the loop goes on after the child has been reaped. *)
ReapChildAndGoOn ==
  /\ At("reap")
  /\ cstate = "zombie"
  /\ cstate' = "reaped"
  /\ spc' = "wait"
  /\ UNCHANGED <<fsVars, sstate, mask, pending, ttou, tty, session, code,
                 cpc, fate, report, inbox, grouped, pdeath, noted, doomed, events>>

(* waitpid() returns Exited or Signaled. *)
ReapChild ==
  /\ At("reap")
  /\ cstate = "zombie" /\ Expressible(fate)
  /\ cstate' = "reaped"
  /\ code' = CodeOf(fate)
  /\ spc' = "untty"
  /\ UNCHANGED <<fsVars, sstate, mask, pending, ttou, tty, session,
                 cpc, fate, report, inbox, grouped, pdeath, noted, doomed, events>>

(* A seeded fault: an end that cannot be told is no failure. *)
ReapUnnamedAsSuccess ==
  /\ At("reap")
  /\ cstate = "zombie" /\ ~ Expressible(fate)
  /\ cstate' = "reaped"
  /\ code' = 0
  /\ spc' = "untty"
  /\ UNCHANGED <<fsVars, sstate, mask, pending, ttou, tty, session,
                 cpc, fate, report, inbox, grouped, pdeath, noted, doomed, events>>

(* waitpid() reaps the child, but returns EINVAL: auth() makes it a 1. *)
ReapUnnamed ==
  /\ At("reap")
  /\ cstate = "zombie" /\ ~ Expressible(fate)
  /\ cstate' = "reaped"
  /\ code' = 1
  /\ spc' = "untty"
  /\ UNCHANGED <<fsVars, sstate, mask, pending, ttou, tty, session,
                 cpc, fate, report, inbox, grouped, pdeath, noted, doomed, events>>

(* waitpid() returns ECHILD. *)
ChildIsGone ==
  /\ At("reap")
  /\ cstate = "reaped"
  /\ code' = 1
  /\ spc' = "untty"
  /\ UNCHANGED <<fsVars, sstate, mask, pending, ttou, tty, session, childVars, events>>

(* A seeded fault: a stop is swallowed like a continue. *)
SeeChildStoppedOnly ==
  /\ At("reap")
  /\ cstate \in Living /\ report = "stopped"
  /\ report' = "none"
  /\ UNCHANGED <<fsVars, supVars, cpc, cstate, fate, inbox,
                 grouped, pdeath, noted, doomed, events>>

(* waitpid() returns Stopped: the terminal goes back. *)
SeeChildStopped ==
  /\ At("reap")
  /\ cstate \in Living /\ report = "stopped"
  /\ report' = "none"
  /\ GiveTerminal("original", ttou)
  /\ spc' = "suspend"
  /\ UNCHANGED <<fsVars, mask, pending, ttou, session, code,
                 cpc, cstate, fate, inbox, grouped, pdeath, noted, doomed, events>>

(* raise(SIGSTOP): a SIGCONT that is pending is discarded. *)
Suspend ==
  /\ At("suspend")
  /\ sstate' = "stopped"
  /\ pending' = pending \ {SIGCONT}
  /\ spc' = "resume"
  /\ UNCHANGED <<fsVars, mask, ttou, tty, session, code, childVars, events>>

(* After the shell has continued runas: terminal and SIGCONT to the child. *)
Resume ==
  /\ At("resume")
  /\ GiveTerminal("command", ttou)
  /\ SignalGroup(SIGCONT, pending)
  /\ spc' = "reap"
  /\ UNCHANGED <<fsVars, mask, ttou, session, code,
                 cpc, fate, grouped, pdeath, noted, doomed, events>>

(* waitpid() returns Continued. *)
SeeChildContinued ==
  /\ At("reap")
  /\ cstate \in Living /\ report = "continued"
  /\ report' = "none"
  /\ UNCHANGED <<fsVars, supVars, cpc, cstate, fate, inbox,
                 grouped, pdeath, noted, doomed, events>>

(* waitpid() returns StillAlive. *)
NothingToReap ==
  /\ At("reap")
  /\ cstate \in Living /\ report = "none"
  /\ spc' = "wait"
  /\ UNCHANGED <<fsVars, sstate, mask, pending, ttou, tty, session, code,
                 childVars, events>>

(* A seeded fault: the disposition is restored before the terminal. *)
DropForegroundTtouFirst ==
  /\ At("untty")
  /\ ttou' = FALSE
  /\ GiveTerminal("original", ttou')
  /\ spc' = "unmask"
  /\ UNCHANGED <<fsVars, mask, pending, session, code, childVars, events>>

(* Drop of ForegroundHandler: the terminal first, then the disposition. *)
DropForeground ==
  /\ At("untty")
  /\ GiveTerminal("original", ttou)
  /\ ttou' = FALSE
  /\ spc' = "unmask"
  /\ UNCHANGED <<fsVars, mask, pending, session, code, childVars, events>>

(* Drop of SignalReceiver: what is pending now acts by default. *)
DropReceiver ==
  /\ At("unmask")
  /\ mask' = FALSE
  /\ pending' = {}
  /\ spc' = "unpipe"
  /\ IF pending \cap Fatal # {}
     THEN /\ sstate' = "dead"
          /\ doomed' = (doomed \/ (pdeath = "armed" /\ cstate \in Living))
          /\ DropEndpoint("parent")
     ELSE /\ sstate' = IF SIGTSTP \in pending THEN "stopped" ELSE "running"
          /\ UNCHANGED <<doomed, fsVars>>
  /\ UNCHANGED <<ttou, tty, session, code,
                 cpc, cstate, fate, report, inbox, grouped, pdeath, noted, events>>

(* The endpoint is a parameter: it is dropped last, if it is still there. *)
DropPipe ==
  /\ At("unpipe")
  /\ DropEndpoint("parent")
  /\ spc' = "pam"
  /\ UNCHANGED <<sstate, mask, pending, ttou, tty, session, code, childVars, events>>

(* drop(ManuallyDrop::into_inner(handle)) *)
ClosePam ==
  /\ At("pam")
  /\ session' = FALSE
  /\ spc' = "exit"
  /\ UNCHANGED <<fsVars, sstate, mask, pending, ttou, tty, code, childVars, events>>

(* process::exit(status_code) *)
Exit ==
  /\ At("exit")
  /\ spc' = "done"
  /\ SupervisorEnds
  /\ UNCHANGED events

SupervisorStep ==
  \/ ParentEndpoint \/ InstallReceiver \/ InstallForeground \/ ParentGroups
  \/ SetupFails \/ ParentHandshake
  \/ ReceiveChildSignal \/ WaitFails
  \/ \E s \in RECEIVED_SIGNALS : ForwardSignal(s)
  \/ ReapChild \/ ReapUnnamed \/ ChildIsGone
  \/ SeeChildStopped \/ SeeChildContinued
  \/ Suspend \/ Resume \/ NothingToReap
  \/ DropForeground \/ DropReceiver \/ DropPipe \/ ClosePam \/ Exit

-----------------------------------------------------------------------------
(***************************************************************************)
(* The child.                                                              *)
(***************************************************************************)
ChildAt(p) == cpc = p /\ cstate = "running"

(* A step of the child that changes cpc and what its caller says besides. *)
ChildOnly == UNCHANGED <<supVars, cstate, fate, report, inbox, doomed, events>>

(* auth(): sync.into_child() *)
ChildEndpoint ==
  /\ ChildAt("fork")
  /\ FS!CloseOnePeerEnd("child") \/ FS!IntoEndpoint("child")
  /\ cpc' = IF phase'["child"] = "endpoint" THEN "arm" ELSE "fork"
  /\ ChildOnly /\ UNCHANGED <<grouped, pdeath, noted>>

(* set_parent_exit_signal(SIGKILL): no signal for a parent already dead. *)
ArmBeforeBarrier ==
  /\ ChildAt("arm")
  /\ pdeath' = "armed"
  /\ cpc' = "group"
  /\ ChildOnly /\ UNCHANGED <<fsVars, grouped, noted>>

(* setpgid(0, 0) *)
ChildGroups ==
  /\ ChildAt("group")
  /\ grouped' = TRUE
  /\ cpc' = "handshake"
  /\ ChildOnly /\ UNCHANGED <<fsVars, pdeath, noted>>

(* A seeded fault: like the supervisor, the child ignores the decision. *)
AfterBarrierAlways(p) == "note"

(* Only Continue leads on; Abort and errors end the child. *)
AfterBarrier(p) == IF p = "continue" THEN "note" ELSE "fail"

(* pipe.ready_and_wait()? *)
ChildHandshake ==
  /\ ChildAt("handshake")
  /\ \/ /\ FS!SendReady("child") \/ FS!CloseWriteEnd("child")
        /\ UNCHANGED cpc
     \/ /\ \/ FS!ReadStatus("child") \/ FS!ReadEof("child")
           \/ FS!SendBroken("child") \/ FS!IOError("child")
        /\ cpc' = AfterBarrier(phase'["child"])
  /\ ChildOnly /\ UNCHANGED <<grouped, pdeath, noted>>

Parent == IF sstate = "dead" THEN "other" ELSE "supervisor"

(* exec(): let supervisor = getppid() *)
NoteParent ==
  /\ ChildAt("note")
  /\ noted' = Parent
  /\ cpc' = "switch"
  /\ ChildOnly /\ UNCHANGED <<fsVars, grouped, pdeath>>

(* setgroups() to setresuid(): a changed effective id disarms the signal. *)
SwitchCredentials ==
  /\ ChildAt("switch")
  /\ pdeath' \in {pdeath, "unset"}
  /\ cpc' = "rearm"
  /\ ChildOnly /\ UNCHANGED <<fsVars, grouped, noted>>

(* A seeded fault: the signal is not armed again. *)
RearmSkipped ==
  /\ ChildAt("rearm")
  /\ cpc' = "check"
  /\ ChildOnly /\ UNCHANGED <<fsVars, grouped, pdeath, noted>>

(* set_parent_exit_signal(SIGKILL) once more *)
Rearm ==
  /\ ChildAt("rearm")
  /\ pdeath' = "armed"
  /\ cpc' = "check"
  /\ ChildOnly /\ UNCHANGED <<fsVars, grouped, noted>>

(* getppid() still answers the same. *)
CheckParent ==
  /\ ChildAt("check")
  /\ Parent = noted
  /\ cpc' = "exec"
  /\ ChildOnly /\ UNCHANGED <<fsVars, grouped, pdeath, noted>>

(* It does not: raise(SIGKILL). *)
OrphanKillsItself ==
  /\ ChildAt("check")
  /\ Parent # noted
  /\ ChildEnds(Signaled(SIGKILL))
  /\ UNCHANGED events

(* execve(): a program that changes the credentials disarms the signal. *)
Execute ==
  /\ ChildAt("exec")
  /\ cpc' = "command"
  /\ pdeath' \in {pdeath, "elevated"}
  /\ ChildOnly /\ UNCHANGED <<fsVars, grouped, noted>>

(* A failed handshake ends main() with ExitCode::FAILURE. *)
EndAborted ==
  /\ ChildAt("fail")
  /\ ChildEnds(Exited(1))
  /\ UNCHANGED events

(* A seeded fault: the failure is printed and main() returns success. *)
PreludeFailsQuietly ==
  /\ cstate = "running"
  /\ cpc \in Prelude \ {"fork", "handshake", "fail"}
  /\ ChildEnds(Exited(0))
  /\ UNCHANGED events

(* So does any other call before execve(), and execve() itself. *)
PreludeFails ==
  /\ cstate = "running"
  /\ cpc \in Prelude \ {"fork", "handshake", "fail"}
  /\ ChildEnds(Exited(1))
  /\ UNCHANGED events

ChildStep ==
  \/ ChildEndpoint \/ ArmBeforeBarrier \/ ChildGroups \/ ChildHandshake
  \/ NoteParent \/ SwitchCredentials \/ Rearm \/ CheckParent
  \/ OrphanKillsItself \/ Execute \/ EndAborted

(* The parent-death signal arrives. *)
DeathSignalArrives ==
  /\ doomed
  /\ ChildEnds(Signaled(SIGKILL))
  /\ UNCHANGED events

(* The child acts on a forwarded signal, or has a handler that ignores it. *)
ActOnSignal(s) ==
  /\ cstate = "running"
  /\ s \in inbox
  /\ \/ /\ s \in Fatal
        /\ ChildEnds(Signaled(s))
        /\ UNCHANGED events
     \/ /\ inbox' = inbox \ {s}
        /\ IF s = SIGTSTP THEN ChildStops \/ UNCHANGED <<cstate, report, pending>>
                          ELSE UNCHANGED <<cstate, report, pending>>
        /\ UNCHANGED <<fsVars, spc, sstate, mask, ttou, tty, session, code, cpc,
                       fate, grouped, pdeath, noted, doomed, events>>

-----------------------------------------------------------------------------
(***************************************************************************)
(* Everybody else: the command itself, the shell, operators.               *)
(***************************************************************************)
SupRest == UNCHANGED <<spc, sstate, mask, ttou, tty, session, code>>
ChildRest == UNCHANGED <<cpc, fate, grouped, pdeath, noted, doomed>>

Event == events < MaxEvents /\ events' = events + 1

CommandExits(c) ==
  /\ ChildAt("command")
  /\ ChildEnds(Exited(c))
  /\ UNCHANGED events

ChildKilled(s) ==
  /\ ChildEnds(Signaled(s))
  /\ UNCHANGED events

StopChild ==
  /\ Event
  /\ ChildStops
  /\ SupRest /\ ChildRest /\ UNCHANGED <<fsVars, inbox>>

ContinueChild ==
  /\ Event
  /\ cstate = "stopped"
  /\ SignalGroup(SIGCONT, pending)
  /\ SupRest /\ ChildRest /\ UNCHANGED fsVars

(* Somebody signals the supervisor while it blocks the signal: it stays     *)
(* pending; a stop and a continue signal discard each other, and a SIGCONT  *)
(* resumes the process all the same.                                        *)
SignalBlocked(s) ==
  /\ Event
  /\ mask /\ sstate # "dead"
  /\ pending' = CASE s = SIGCONT -> (pending \ {SIGTSTP}) \cup {s}
                 [] s = SIGTSTP -> (pending \ {SIGCONT}) \cup {s}
                 [] OTHER       -> pending \cup {s}
  /\ sstate' = IF s = SIGCONT THEN "running" ELSE sstate
  /\ UNCHANGED <<fsVars, spc, mask, ttou, tty, session, code, childVars>>

(* The supervisor does not block the signal: the default action. *)
SignalUnblocked(s) ==
  /\ Event
  /\ ~ mask
  /\ \/ /\ s \in Fatal /\ sstate = "running"
        /\ SupervisorEnds
     \/ /\ s = SIGTSTP /\ sstate = "running"
        /\ sstate' = "stopped"
        /\ UNCHANGED <<fsVars, mask, pending, ttou, tty, session, code, childVars>>
     \/ /\ s = SIGCONT /\ sstate = "stopped"
        /\ sstate' = "running"
        /\ UNCHANGED <<fsVars, mask, pending, ttou, tty, session, code, childVars>>
  /\ UNCHANGED spc

(* SIGSTOP from outside *)
StopSupervisor ==
  /\ Event
  /\ sstate = "running"
  /\ sstate' = "stopped"
  /\ pending' = pending \ {SIGCONT}
  /\ UNCHANGED <<fsVars, spc, mask, ttou, tty, session, code, childVars>>

KillSupervisor ==
  /\ MayKill
  /\ sstate # "dead"
  /\ SupervisorEnds
  /\ UNCHANGED <<spc, events>>

Environment ==
  \/ \E c \in ExitCodes : CommandExits(c)
  \/ \E s \in RECEIVED_SIGNALS : ActOnSignal(s)
  \/ \E s \in KillSignals : ChildKilled(s)
  \/ PreludeFails \/ StopChild \/ ContinueChild
  \/ \E s \in EnvSignals : SignalBlocked(s) \/ SignalUnblocked(s)
  \/ StopSupervisor \/ KillSupervisor

Next == SupervisorStep \/ ChildStep \/ DeathSignalArrives \/ Environment

Spec == Init /\ [][Next]_vars

(***************************************************************************)
(* The operating system runs every process that is neither blocked nor     *)
(* stopped and delivers a signal that is pending.  Nothing is assumed of   *)
(* the command: it may run for ever.                                       *)
(***************************************************************************)
FairSpec ==
  /\ Spec
  /\ WF_vars(SupervisorStep)
  /\ WF_vars(ChildStep)
  /\ WF_vars(DeathSignalArrives)

-----------------------------------------------------------------------------
Fates ==
  {NoFate} \cup {Exited(c) : c \in 0..255}
           \cup {Signaled(s) : s \in 1..64}

SupervisorTypeOK ==
  /\ spc \in Setup \cup Loop \cup Release
  /\ sstate \in {"running", "stopped", "dead"}
  /\ mask \in BOOLEAN /\ ttou \in BOOLEAN /\ session \in BOOLEAN
  /\ pending \subseteq RECEIVED_SIGNALS /\ (~ mask => pending = {})
  /\ tty \in {"none", "original", "command"}
  /\ code \in -1..255

ChildTypeOK ==
  /\ cpc \in Prelude \cup {"command"}
  /\ cstate \in Living \cup {"zombie", "reaped"}
  /\ fate \in Fates
  /\ report \in {"none", "stopped", "continued"}
  /\ inbox \subseteq RECEIVED_SIGNALS \ {SIGCHLD, SIGCONT}
  /\ grouped \in BOOLEAN /\ doomed \in BOOLEAN
  /\ pdeath \in {"unset", "armed", "elevated"}
  /\ noted \in {"none", "supervisor", "other"}

TypeOK ==
  /\ FS!TypeOK /\ SupervisorTypeOK /\ ChildTypeOK
  /\ events \in 0..MaxEvents

Executing == cpc = "command" /\ cstate \in Living

(***************************************************************************)
(* The command runs only for a supervisor that watches it: the mask is     *)
(* installed, the process group exists, and the PAM session is open until  *)
(* the command has ended.                                                  *)
(***************************************************************************)
CommandIsWatched ==
  Executing /\ sstate # "dead" =>
    /\ mask /\ ttou /\ grouped /\ session
    /\ spc \in Loop \cup {"handshake"}

(***************************************************************************)
(* A command never outlives its supervisor unnoticed, wherever in fork,    *)
(* barrier, credential change and execve() the supervisor dies: the child  *)
(* has been sent SIGKILL, unless the program it executed is set-user-ID    *)
(* and the kernel disarmed the signal.                                     *)
(***************************************************************************)
NoOrphanCommand ==
  Executing /\ sstate = "dead" => doomed \/ pdeath = "elevated"

(***************************************************************************)
(* The supervisor never sleeps while its child is dead, stopped or has     *)
(* changed state unseen, even before SIGCHLD was blocked: it is then on    *)
(* its way to waitpid(), or SIGCHLD is pending.                            *)
(***************************************************************************)
NoLostWakeup ==
  spc = "wait" /\ SIGCHLD \notin pending /\ sstate # "dead"
    => cstate = "running" /\ report = "none"

(***************************************************************************)
(* While signals may be forwarded the child has not been reaped, so its    *)
(* process id cannot belong to anybody else yet.                           *)
(***************************************************************************)
ForwardOnlyToOwnChild == spc \in Loop => cstate # "reaped"

(***************************************************************************)
(* runas exits with the exit code of the child it reaped, 128 + n for one  *)
(* that signal n has killed, but 1 if nix has no name for the signal.      *)
(***************************************************************************)
ExitCodeFaithful ==
  spc = "done" /\ cstate = "reaped" =>
    \/ fate[1] = "exited" /\ code = fate[2]
    \/ fate[1] = "signaled" /\ fate[2] \in Named /\ code = 128 + fate[2]
    \/ fate[1] = "signaled" /\ fate[2] \notin Named /\ code = 1

(***************************************************************************)
(* runas reports success only if the command was executed and succeeded,   *)
(* never for a child that failed on its way there or was lost sight of.    *)
(***************************************************************************)
SuccessIsTheCommands ==
  code = 0 => cpc = "command" /\ fate = Exited(0)

(***************************************************************************)
(* Whoever called runas finds the terminal in its own hands when runas is  *)
(* suspended with its child and when it has ended by itself.               *)
(***************************************************************************)
TerminalReturned ==
  spc \in (Release \ {"untty"}) \cup {"suspend", "resume"} => tty # "command"

(***************************************************************************)
(* auth() and watch_process() keep the contract of a run: the command is   *)
(* started once, in an open session and before anything is reported; the   *)
(* report is how it ended, as far as nix can say, and never success for    *)
(* one that failed on its way; the session is not closed under it.         *)
(***************************************************************************)
commandBar ==
  IF cpc = "command"
  THEN IF cstate \in Living THEN <<"running", 0>> ELSE fate
  ELSE IF cstate \in Living THEN <<"none", 0>> ELSE <<"failed", 0>>

Run == INSTANCE CommandRun WITH
         MayLose <- WaitFaults \/ IgnoreChild,
         open <- session, command <- commandBar, said <- code

ImplementsCommandRun == Run!Spec

(***************************************************************************)
(* auth.rs, between watch_process() and process::exit(): "Ensure that PAM  *)
(* has a chance to quit before terminating".                               *)
(***************************************************************************)
PamQuitsBeforeTerminating == code # -1 /\ sstate = "dead" => ~ session

-----------------------------------------------------------------------------
(* A child that has ended is noticed, unless the supervisor is stopped. *)
DeadChildEndsSupervisor ==
  cstate \in {"zombie", "reaped"} ~> sstate \in {"dead", "stopped"}

(* A child that stops under watch stops runas with it. *)
StopIsPassedUp ==
  (spc \in Loop /\ cstate = "stopped")
    ~> (sstate # "running" \/ cstate # "stopped")

(* A fatal signal to a supervisor that blocks it, in its loop or on the way *)
(* there, reaches the child, unless the child is stopped in the barrier.    *)
FatalSignalIsForwarded ==
  \A s \in Fatal :
    (s \in pending /\ spc \in Setup \cup Loop)
      ~> \/ s \in inbox \/ cstate \notin Living \/ sstate # "running"
         \/ spc \in Release
         \/ spc = "handshake" /\ cstate = "stopped"

(* A supervisor that dies takes its child along, wherever both are, unless *)
(* the child has executed a set-user-ID program or is stopped.             *)
OrphanEnds ==
  sstate = "dead"
    ~> (cstate \in {"stopped", "zombie", "reaped"} \/ pdeath = "elevated")
=============================================================================
