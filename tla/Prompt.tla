------------------------------- MODULE Prompt -------------------------------
(***************************************************************************)
(* ask_password() and launch_prompt() of modules/passwd.rs, with Prompt    *)
(* and the SignalReceiver of modules/signal_recv.rs: reading a password    *)
(* while the terminal is switched and signals are held back.               *)
(*                                                                         *)
(* Signals are blocked, the terminal is switched, bytes are collected; on  *)
(* every way out the terminal is switched back and then the signals are    *)
(* let through.  A signal that interrupted the prompt is raised again by   *)
(* ask_password(); if the process survives it the prompt starts afresh.    *)
(*                                                                         *)
(* Signals outside PROMPT_SIGNALS, from SIGKILL and SIGSTOP to SIGALRM,    *)
(* SIGUSR1, SIGTTIN and SIGTTOU, are not held back and act at once, with   *)
(* the terminal as it is at that moment.                                   *)
(***************************************************************************)
EXTENDS Naturals, Sequences

CONSTANTS
  Fatal,         \* those of PROMPT_SIGNALS whose default action is to end
  Stop,          \* those whose default action is to stop: SIGTSTP
  Ignored,       \* those that were ignored when runas was started
  Char,          \* bytes of a password
  MaxInputLen,   \* MAX_INPUT_LEN
  MaxTyped,      \* how many bytes are typed at most at one prompt
  MaxEvents      \* how many signals arrive at most, of PROMPT_SIGNALS or not

PROMPT_SIGNALS == Fatal \cup Stop

ASSUME ConstantsAssumption ==
  /\ Fatal \cap Stop = {}
  /\ Ignored \subseteq PROMPT_SIGNALS
  /\ {"none", "password", "error"} \cap PROMPT_SIGNALS = {}
  /\ {MaxInputLen, MaxTyped, MaxEvents} \subseteq Nat

VARIABLES
  mode,      \* AUTH_STDIN, PROMPT_HIDE: [stdin, hide : BOOLEAN]
  pc,        \* place in ask_password() and launch_prompt()
  proc,      \* "running"; "stopped" or "dead" by one of PROMPT_SIGNALS,
             \* "paused" or "killed" by any other signal
  mask,      \* are PROMPT_SIGNALS blocked?
  pending,   \* signals blocked and pending
  term,      \* the terminal: "original", "hidden"; "lost" when it is hung up
  saved,     \* Prompt.termios is Some
  buffer, overflow,   \* as in launch_prompt()
  outcome,   \* what launch_prompt() is about to return: "none", "password",
             \* "error", or the signal of Error::Interrupted
  text,      \* what the user has typed at this prompt, erased bytes taken out
  owed,      \* signals that arrived while blocked and have not acted yet
  events     \* signals that have arrived

editVars == <<buffer, overflow, text>>
sigVars  == <<proc, mask, pending, owed, events>>
vars == <<mode, pc, term, saved, outcome, editVars, sigVars>>

Editing == ~ mode.stdin /\ mode.hide

Init ==
  /\ mode \in [stdin : BOOLEAN, hide : BOOLEAN]
  /\ pc = "install" /\ proc = "running" /\ mask = FALSE /\ pending = {}
  /\ term = "original" /\ saved = FALSE
  /\ buffer = <<>> /\ overflow = 0 /\ outcome = "none"
  /\ text = <<>> /\ owed = {} /\ events = 0

At(p) == pc = p /\ proc = "running"

Leave(o) == outcome' = o /\ pc' = "restore"

(* The effect of the signals S when they are let through together. *)
LetThrough(S) ==
  LET acting == S \ Ignored
  IN  proc' = IF acting \cap Fatal # {} THEN "dead"
              ELSE IF acting \cap Stop # {} THEN "stopped" ELSE proc

-----------------------------------------------------------------------------
(* A new call of launch_prompt(): the signals are blocked and routed to the *)
(* signalfd.  Opening the terminal falls back to stdin and never fails.     *)
Install ==
  /\ At("install")
  /\ mask' = TRUE
  /\ pc' = "hide"
  /\ outcome' = "none"
  /\ buffer' = <<>> /\ overflow' = 0 /\ text' = <<>>
  /\ UNCHANGED <<mode, term, saved, proc, pending, owed, events>>

(* SignalReceiver::install() fails: the mask is put back by itself. *)
InstallFails ==
  /\ At("install")
  /\ outcome' = "error" /\ pc' = "done"
  /\ UNCHANGED <<mode, term, saved, editVars, sigVars>>

(* A seeded fault: the state is saved only once the change has succeeded. *)
HideInputSavingLate ==
  /\ At("hide")
  /\ IF Editing
     THEN \/ saved' = TRUE /\ term' = "hidden" /\ pc' = "write" /\ UNCHANGED outcome
          \/ term' \in {term, "hidden"} /\ Leave("error") /\ UNCHANGED saved
     ELSE pc' = "write" /\ UNCHANGED <<saved, term, outcome>>
  /\ UNCHANGED <<mode, editVars, sigVars>>

(* hide_input(): tcgetattr(), remember, tcsetattr(), which may have changed *)
(* something even if it fails.                                              *)
HideInput ==
  /\ At("hide")
  /\ IF Editing
     THEN \/ saved' = TRUE /\ term' = "hidden" /\ pc' = "write" /\ UNCHANGED outcome
          \/ saved' = TRUE /\ term' \in {term, "hidden"} /\ Leave("error")
          \/ UNCHANGED <<saved, term>> /\ Leave("error")
     ELSE pc' = "write" /\ UNCHANGED <<saved, term, outcome>>
  /\ UNCHANGED <<mode, editVars, sigVars>>

(* Prompt::write() of the message, unless reading from stdin *)
WriteMessage ==
  /\ At("write")
  /\ \/ pc' = "read" /\ UNCHANGED outcome
     \/ ~ mode.stdin /\ Leave("error")
  /\ UNCHANGED <<mode, term, saved, editVars, sigVars>>

(* Prompt::read() hands out a byte only when no signal is pending. *)
Reading == At("read") /\ pending = {}

(* A seeded fault: the byte at the limit is dropped and not counted. *)
PushUncounted(c) ==
  IF Len(buffer) < MaxInputLen
  THEN buffer' = Append(buffer, c) /\ UNCHANGED overflow
  ELSE UNCHANGED <<buffer, overflow>>

(* A seeded fault: one byte too many is kept. *)
PushPastLimit(c) ==
  IF Len(buffer) <= MaxInputLen
  THEN buffer' = Append(buffer, c) /\ UNCHANGED overflow
  ELSE overflow' = overflow + 1 /\ UNCHANGED buffer

(* What is beyond the limit is counted, not kept. *)
Push(c) ==
  IF Len(buffer) < MaxInputLen
  THEN buffer' = Append(buffer, c) /\ UNCHANGED overflow
  ELSE overflow' = overflow + 1 /\ UNCHANGED buffer

ReadByte(c) ==
  /\ Reading
  /\ Len(text) < MaxTyped
  /\ Push(c)
  /\ text' = Append(text, c)
  /\ UNCHANGED <<mode, pc, term, saved, outcome, sigVars>>

Erase ==
  IF overflow # 0 THEN overflow' = overflow - 1 /\ UNCHANGED buffer
  ELSE IF buffer # <<>>
       THEN buffer' = SubSeq(buffer, 1, Len(buffer) - 1) /\ UNCHANGED overflow
       ELSE UNCHANGED <<buffer, overflow>>

(* Backspace or delete, which mean something only while input is hidden. *)
ReadErase ==
  /\ Reading /\ Editing
  /\ Erase
  /\ text' = IF text = <<>> THEN <<>> ELSE SubSeq(text, 1, Len(text) - 1)
  /\ UNCHANGED <<mode, pc, term, saved, outcome, sigVars>>

(* End of line or of file; what is too long or not UTF-8 is refused. *)
ReadEnd ==
  /\ Reading
  /\ \/ overflow = 0 /\ Leave("password")
     \/ Leave("error")
  /\ UNCHANGED <<mode, term, saved, editVars, sigVars>>

(* poll(), read() or the signalfd fails. *)
ReadFails ==
  /\ At("read")
  /\ Leave("error")
  /\ UNCHANGED <<mode, term, saved, editVars, sigVars>>

(* A seeded fault: the interruption is taken for a mere EINTR. *)
InterruptForgotten(s) ==
  /\ At("read")
  /\ s \in pending
  /\ pending' = pending \ {s}
  /\ UNCHANGED <<mode, pc, term, saved, outcome, editVars, proc, mask, owed, events>>

(* The signalfd is readable: launch_prompt() returns Error::Interrupted. *)
Interrupt(s) ==
  /\ At("read")
  /\ s \in pending
  /\ pending' = pending \ {s}
  /\ Leave(s)
  /\ UNCHANGED <<mode, term, saved, editVars, proc, mask, owed, events>>

(* Drop of Prompt: the terminal is put back, if it is still there. *)
DropPrompt ==
  /\ At("restore")
  /\ IF saved THEN term' \in {"original", "lost"} ELSE UNCHANGED term
  /\ saved' = FALSE
  /\ pc' = "unmask"
  /\ UNCHANGED <<mode, outcome, editVars, sigVars>>

AfterPrompt == IF outcome \in {"password", "error"} THEN "done" ELSE "raise"

(* A seeded fault: the old mask is added to the new one, not put back. *)
DropReceiverBlocking ==
  /\ At("unmask")
  /\ pc' = AfterPrompt
  /\ UNCHANGED <<mode, term, saved, outcome, editVars, sigVars>>

(* Drop of SignalReceiver: the mask is put back, and whatever else is       *)
(* pending acts.                                                            *)
DropReceiver ==
  /\ At("unmask")
  /\ mask' = FALSE /\ pending' = {}
  /\ LetThrough(pending)
  /\ owed' = owed \ (pending \ {outcome})
  /\ pc' = AfterPrompt
  /\ UNCHANGED <<mode, term, saved, outcome, editVars, events>>

(* ask_password(): raise(signal), and once more if that returns *)
Raise ==
  /\ At("raise")
  /\ LetThrough({outcome})
  /\ owed' = owed \ {outcome}
  /\ pc' = "install"
  /\ UNCHANGED <<mode, term, saved, outcome, editVars, mask, pending, events>>

-----------------------------------------------------------------------------
(***************************************************************************)
(* Others: the terminal driver, the shell, an operator.                    *)
(***************************************************************************)
Arrive(s) ==
  /\ events < MaxEvents /\ events' = events + 1
  /\ proc = "running" \/ (proc = "paused" /\ mask)
  /\ IF mask
     THEN /\ pending' = pending \cup {s} /\ owed' = owed \cup {s}
          /\ UNCHANGED proc
     ELSE LetThrough({s}) /\ UNCHANGED <<pending, owed>>
  /\ UNCHANGED <<mode, pc, term, saved, outcome, editVars, mask>>

(* One that is not in PROMPT_SIGNALS stops runas or ends it wherever it is. *)
ArriveUnheld ==
  /\ events < MaxEvents /\ events' = events + 1
  /\ proc = "running"
  /\ proc' \in {"paused", "killed"}
  /\ UNCHANGED <<mode, pc, term, saved, outcome, editVars, mask, pending, owed>>

Resume ==
  /\ proc \in {"stopped", "paused"}
  /\ proc' = "running"
  /\ UNCHANGED <<mode, pc, term, saved, outcome, editVars, mask, pending, owed, events>>

Proceed ==
  \/ Install \/ HideInput \/ WriteMessage
  \/ \E s \in PROMPT_SIGNALS : Interrupt(s)
  \/ DropPrompt \/ DropReceiver \/ Raise

Type ==
  \/ \E c \in Char : ReadByte(c)
  \/ ReadErase \/ ReadEnd

Next ==
  \/ Proceed \/ Type \/ InstallFails \/ ReadFails
  \/ \E s \in PROMPT_SIGNALS : Arrive(s)
  \/ ArriveUnheld \/ Resume

Spec == Init /\ [][Next]_vars

(* A process that is not stopped and not waiting for input is scheduled; *)
(* nobody needs to type.                                                 *)
FairSpec == Spec /\ WF_vars(Proceed)

-----------------------------------------------------------------------------
TypeOK ==
  /\ mode \in [stdin : BOOLEAN, hide : BOOLEAN]
  /\ pc \in {"install", "hide", "write", "read", "restore", "unmask", "raise", "done"}
  /\ proc \in {"running", "stopped", "dead", "paused", "killed"}
  /\ mask \in BOOLEAN /\ pending \subseteq PROMPT_SIGNALS
  /\ term \in {"original", "hidden", "lost"} /\ saved \in BOOLEAN
  /\ buffer \in Seq(Char) /\ overflow \in Nat /\ text \in Seq(Char)
  /\ Len(buffer) <= MaxInputLen
  /\ outcome \in {"none", "password", "error"} \cup PROMPT_SIGNALS
  /\ owed \subseteq PROMPT_SIGNALS
  /\ events \in 0..MaxEvents

(***************************************************************************)
(* Whoever gets to see the terminal when one of PROMPT_SIGNALS has stopped *)
(* or ended runas, the shell above all, finds it as it was; so does the    *)
(* rest of runas.  (Not so when another signal did: "paused", "killed".)   *)
(***************************************************************************)
TerminalComesBack ==
  proc \in {"stopped", "dead"} \/ pc \in {"install", "raise", "done"}
    => term # "hidden"

(***************************************************************************)
(* A signal that is held back is not dropped on any way out: it is pending *)
(* until the mask is put back, or it has ended the prompt and is yet to be *)
(* raised.                                                                 *)
(***************************************************************************)
NoSignalLost ==
  owed = pending \cup
           (IF pc \in {"restore", "unmask", "raise"}
            THEN {outcome} \cap PROMPT_SIGNALS ELSE {})

(***************************************************************************)
(* The password is what was typed at this prompt, less what was erased,    *)
(* however often the limit was crossed in between; too long a line is no   *)
(* password.                                                               *)
(***************************************************************************)
PasswordIsWhatWasTyped == outcome = "password" => buffer = text

(* A signal that has arrived acts in the end, whatever the prompt is at. *)
SignalsAct ==
  \A s \in PROMPT_SIGNALS : (s \in owed) ~> (s \notin owed \/ proc # "running")
=============================================================================
