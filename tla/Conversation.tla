---------------------------- MODULE Conversation ----------------------------
(***************************************************************************)
(* The conversation function runas hands to PAM: pam_conv_wrap(),          *)
(* pam_conv_process() and PamResponses in ffi/pam.rs, with the callbacks   *)
(* of Conv in modules/auth.rs.                                             *)
(*                                                                         *)
(* A PAM module passes an array of messages and expects an array of        *)
(* replies that is its own from then on, or an error and no array at all.  *)
(* The array and the answers in it are allocated in C memory one by one,   *)
(* while every step may fail or panic; whatever is then allocated belongs  *)
(* to runas and has to be given back, once.                                *)
(*                                                                         *)
(* Piece 0 is the array, piece i the answer to message i.  What is asked   *)
(* and answered is left to PAM and the user.                               *)
(***************************************************************************)
EXTENDS Naturals, FiniteSets

CONSTANT PAM_MAX_NUM_MSG

ASSUME MaxNumMsgAssumption == PAM_MAX_NUM_MSG \in Nat \ {0}

VARIABLES
  at,       \* "idle", "messages" or "returned"
  count,    \* num_msg
  next,     \* the message to be looked at
  asked,    \* prompts the user has answered in this call
  memory,   \* each piece: "none", "replies" (held by PamResponses), "pam"
            \* or "freed"
  resp,     \* *resp: "unset", "null" or "array"
  status    \* what is returned to PAM: "none", "success", "conv_err",
            \* "buf_err" or "pam_err"

convVars == <<at, count, next, asked, memory, resp, status>>

Pieces == 0..PAM_MAX_NUM_MSG

ConvIdle ==
  /\ at = "idle" /\ count = 0 /\ next = 0 /\ asked = {}
  /\ memory = [p \in Pieces |-> "none"]
  /\ resp = "unset" /\ status = "none"

Return(s) == at' = "returned" /\ status' = s

(* A seeded fault: every answer is freed, but not the array. *)
DropRepliesOnly ==
  memory' = [p \in Pieces |->
               IF memory[p] = "replies" /\ p # 0 THEN "freed" ELSE memory[p]]

(* Drop of PamResponses *)
DropReplies ==
  memory' = [p \in Pieces |->
               IF memory[p] = "replies" THEN "freed" ELSE memory[p]]

(* A call that makes no sense is refused before anything is touched. *)
RefuseCall ==
  /\ at = "idle"
  /\ Return("conv_err")
  /\ UNCHANGED <<count, next, asked, memory, resp>>

(* PamResponses::new(), for num_msg messages *)
Allocate(n) ==
  /\ at = "idle"
  /\ count' = n /\ next' = 1
  /\ resp' = "null"
  /\ \/ /\ memory' = [memory EXCEPT ![0] = "replies"]
        /\ at' = "messages" /\ UNCHANGED status
     \/ Return("buf_err") /\ UNCHANGED memory
  /\ UNCHANGED asked

Message == at = "messages" /\ next <= count

Answered ==
  /\ asked' = asked \cup {next}
  /\ next' = next + 1
  /\ UNCHANGED <<at, count, resp, status>>

(* A seeded fault: the answer goes to the next free place, not to that of  *)
(* its message.                                                            *)
AnswerPromptCompacted ==
  /\ Message
  /\ memory' = [memory EXCEPT ![Cardinality(asked) + 1] = "replies"]
  /\ Answered

(* A prompt: the answer is copied for PAM and stored at once. *)
AnswerPrompt ==
  /\ Message
  /\ memory' = [memory EXCEPT ![next] = "replies"]
  /\ Answered

(* An information or an error message needs no answer. *)
Show ==
  /\ Message
  /\ next' = next + 1
  /\ UNCHANGED <<at, count, asked, memory, resp, status>>

(* Of the ways to fail each drops the replies: a message without text, not *)
(* UTF-8 or of a style unknown, a callback that fails (with its own code   *)
(* if it is one of PAM's), and a panic, caught by pam_conv_wrap().         *)
FailMessage ==
  /\ Message
  /\ \E s \in {"conv_err", "pam_err"} : Return(s)
  /\ DropReplies
  /\ UNCHANGED <<count, next, asked, resp>>

(* strdup() of an answer fails. *)
FailCopy ==
  /\ Message
  /\ Return("buf_err")
  /\ DropReplies
  /\ asked' = asked \cup {next}
  /\ UNCHANGED <<count, next, resp>>

(* transfer_to(): from here on the replies are PAM's. *)
Transfer ==
  /\ at = "messages" /\ next > count
  /\ resp' = "array"
  /\ memory' = [p \in Pieces |->
                  IF memory[p] = "replies" THEN "pam" ELSE memory[p]]
  /\ Return("success")
  /\ UNCHANGED <<count, next, asked>>

(* PAM's module uses and frees what it was given, and may come back. *)
BackToModule ==
  /\ at = "returned"
  /\ at' = "idle" /\ count' = 0 /\ next' = 0 /\ asked' = {}
  /\ memory' = [p \in Pieces |-> "none"]
  /\ resp' = "unset" /\ status' = "none"

ConvNext ==
  \/ RefuseCall \/ \E n \in 1..PAM_MAX_NUM_MSG : Allocate(n)
  \/ AnswerPrompt \/ Show \/ FailMessage \/ FailCopy \/ Transfer \/ BackToModule

-----------------------------------------------------------------------------
ConvTypeOK ==
  /\ at \in {"idle", "messages", "returned"}
  /\ count \in 0..PAM_MAX_NUM_MSG /\ next \in 0..(PAM_MAX_NUM_MSG + 1)
  /\ asked \subseteq 1..PAM_MAX_NUM_MSG
  /\ memory \in [Pieces -> {"none", "replies", "pam", "freed"}]
  /\ resp \in {"unset", "null", "array"}
  /\ status \in {"none", "success", "conv_err", "buf_err", "pam_err"}

(***************************************************************************)
(* Whatever fails, and at whichever message: PAM gets the whole array, an  *)
(* answer at the place of each prompt and nothing anywhere else, together  *)
(* with success; or it gets an error and no array, and everything that was *)
(* allocated has been freed.                                               *)
(***************************************************************************)
RepliesHaveOneOwner ==
  at = "returned" =>
    IF status = "success"
    THEN /\ resp = "array"
         /\ \A p \in Pieces :
              memory[p] = IF p \in asked \cup {0} THEN "pam" ELSE "none"
    ELSE /\ resp # "array"
         /\ \A p \in Pieces : memory[p] \in {"none", "freed"}
=============================================================================
