----------------------------- MODULE CommandRun -----------------------------
(***************************************************************************)
(* What runas promises whoever has a command run: the contract behind      *)
(* auth() from fork() on and watch_process(), without processes, signals,  *)
(* pipes or a terminal.                                                    *)
(*                                                                         *)
(* The command is started at most once, inside an open session and before  *)
(* anything is reported.  What is reported is how it ended: its exit code, *)
(* 128 + n after signal n, or merely a failure after a signal without a    *)
(* name.  A command that was never started is a failure, and stays         *)
(* unstarted once that has been said.  The session is closed after the     *)
(* report, never under a running command.  Only if the command may be lost *)
(* sight of, a failure may be reported of a command that goes its own way. *)
(***************************************************************************)
EXTENDS Integers

CONSTANTS
  Named,     \* signals with a name
  MayLose    \* may the command be lost sight of?

VARIABLES
  open,      \* is the session open?
  command,   \* "none", "running", "failed" (not started, and never will be),
             \* or how it ended: "exited" or "signaled", with the number
  said       \* the exit code reported, -1 before

runVars == <<open, command, said>>

Init == open = TRUE /\ command = <<"none", 0>> /\ said = -1

Start ==
  /\ command = <<"none", 0>>
  /\ (open /\ said = -1) \/ MayLose
  /\ command' = <<"running", 0>>
  /\ UNCHANGED <<open, said>>

(* The command cannot be started, for whatever reason. *)
Fail ==
  /\ command = <<"none", 0>>
  /\ command' = <<"failed", 0>>
  /\ UNCHANGED <<open, said>>

End ==
  /\ command = <<"running", 0>>
  /\ \E how \in {"exited", "signaled"}, n \in 0..255 : command' = <<how, n>>
  /\ UNCHANGED <<open, said>>

Report ==
  /\ said = -1
  /\ \/ command[1] = "exited" /\ said' = command[2]
     \/ /\ command[1] = "signaled"
        /\ said' = IF command[2] \in Named THEN 128 + command[2] ELSE 1
     \/ command[1] \in {"none", "failed"} /\ said' \in 1..255
     \/ MayLose /\ said' = 1
  /\ UNCHANGED <<open, command>>

Close ==
  /\ open /\ said # -1
  /\ command # <<"running", 0>> \/ MayLose
  /\ open' = FALSE
  /\ UNCHANGED <<command, said>>

Next == Start \/ Fail \/ End \/ Report \/ Close

Spec == Init /\ [][Next]_runVars
=============================================================================
