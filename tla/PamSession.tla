----------------------------- MODULE PamSession -----------------------------
(***************************************************************************)
(* From the question "may this user do that?" to the end of the PAM        *)
(* transaction: authenticate() and the PAM variant of auth() in            *)
(* modules/auth.rs, with the PamHandle of ffi/pam.rs they use.             *)
(*                                                                         *)
(* Every PAM call may fail, and every `?` leaves auth() with the handle    *)
(* being dropped.  After fork() the parent and the child each have a copy  *)
(* of the handle, but there is only one transaction to close.  How parent  *)
(* and child get along after the fork is the subject of Supervisor; here   *)
(* the child only starts, executes its command and ends.                   *)
(***************************************************************************)
EXTENDS Naturals

VARIABLES
  who,      \* what is known of invoker, target and options
  pc,       \* place in authenticate() and auth()
  name,     \* PAM_USER: "none", "invoker" or "target"
  proved,   \* whose password pam_authenticate() has accepted
  account,  \* what pam_acct_mgmt() found: "unknown", "valid", "expired",
            \* "renewed" once pam_chauthtok() has changed the password
  flag,     \* PamHandle.session
  calls,    \* how often each call was made (opening ones: succeeded)
  child,    \* "none", "starting", "command" or "gone"
  answer    \* "none", "granted", "refused", "error"; "exit" and "lost" once
            \* watch_process() has returned with and without an end of the child

vars == <<who, pc, name, proved, account, flag, calls, child, answer>>

(***************************************************************************)
(* root      the invoker is root            own    the target is the user  *)
(* group     the target's group is the      wheel  the user is in          *)
(*           user's own or one of its              AUTH_GROUP              *)
(*           groups                                                        *)
(* noPrompt  AUTH_NO_PROMPT                 stdin  AUTH_STDIN              *)
(* scopex    built with backend_scopex: auth() forks and keeps PAM open    *)
(***************************************************************************)
Fact == {"root", "own", "group", "wheel", "noPrompt", "stdin", "scopex"}

Call == {"start", "authenticate", "chauthtok", "establish", "delete",
         "open", "close", "end"}

Once(c) == calls' = [calls EXCEPT ![c] = @ + 1]

NonInteractive == who["noPrompt"] /\ ~ who["stdin"]

(* AuthDecision::Allow; also disable_auth, the last argument of auth() *)
Allowed == who["root"] \/ (who["own"] /\ who["group"])

Init ==
  /\ who \in [Fact -> BOOLEAN]
  /\ pc = "decide" /\ name = "none" /\ proved = "none"
  /\ account = "unknown" /\ flag = FALSE
  /\ calls = [c \in Call |-> 0]
  /\ child = "none" /\ answer = "none"

-----------------------------------------------------------------------------
(***************************************************************************)
(* authenticate()                                                          *)
(***************************************************************************)

AuthDecision ==
  IF Allowed THEN "allow"
  ELSE IF ~ NonInteractive THEN "authenticate" ELSE "deny"

Answer(a) == answer' = a /\ pc' = "done"

(* A seeded fault: only the authenticated path asks for the group. *)
EnterPamWithoutWheel ==
  \/ AuthDecision = "allow" /\ who["scopex"] /\ name' = "target"
  \/ AuthDecision = "authenticate" /\ name' = "invoker"

(* PAM is entered for the target itself when no password is needed, for *)
(* the invoker, who must be in AUTH_GROUP, when one is.                 *)
EnterPam ==
  \/ AuthDecision = "allow" /\ who["scopex"] /\ name' = "target"
  \/ AuthDecision = "authenticate" /\ who["wheel"] /\ name' = "invoker"

(* authenticate() decides; looking up the groups may fail. *)
Decide ==
  /\ pc = "decide"
  /\ \/ /\ EnterPam
        /\ pc' = "start" /\ UNCHANGED answer
     \/ /\ \/ AuthDecision = "allow" /\ ~ who["scopex"] /\ Answer("granted")
           \/ AuthDecision = "deny" /\ Answer("refused")
           \/ AuthDecision = "authenticate" /\ ~ who["wheel"] /\ Answer("refused")
           \/ Answer("error")
        /\ UNCHANGED name
  /\ UNCHANGED <<who, proved, account, flag, calls, child>>

-----------------------------------------------------------------------------
(***************************************************************************)
(* auth(): the calls on the handle.                                        *)
(***************************************************************************)
Rest == UNCHANGED <<who, child>>

(* `?`: auth() returns an error and the handle is dropped. *)
Leave == answer' = "error" /\ pc' = "drop"

(* A call that changes nothing here goes through, or fails. *)
Step(p, q) ==
  /\ pc = p
  /\ \/ pc' = q /\ UNCHANGED answer
     \/ Leave
  /\ UNCHANGED <<name, proved, account, flag, calls>> /\ Rest

PamStart ==
  /\ pc = "start"
  /\ \/ Once("start") /\ pc' = "tty" /\ UNCHANGED answer
     \/ UNCHANGED calls /\ Answer("error")
  /\ UNCHANGED <<name, proved, account, flag>> /\ Rest

(* set_item(Tty), then authenticate() unless disable_auth *)
SetTty == Step("tty", IF Allowed THEN "ruser" ELSE "authenticate")

Authenticate ==
  /\ pc = "authenticate"
  /\ Once("authenticate")
  /\ \/ proved' = name /\ pc' = "ruser" /\ UNCHANGED answer
     \/ UNCHANGED proved /\ Leave
  /\ UNCHANGED <<name, account, flag>> /\ Rest

SetRUser == Step("ruser", "acct")

AfterAccount == IF who["scopex"] THEN "user" ELSE "drop"

Accepted == answer' = IF who["scopex"] THEN answer ELSE "granted"

(* Only PAM_NEW_AUTHTOK_REQD, and only if prompting is not ruled out. *)
AccountMayPrompt(found) == found = "expired" /\ ~ who["noPrompt"]

AcctMgmt ==
  /\ pc = "acct"
  /\ \E found \in {"valid", "expired", "unknown"} :
       /\ account' = found
       /\ \/ found = "valid" /\ pc' = AfterAccount /\ Accepted
          \/ AccountMayPrompt(found) /\ pc' = "chauthtok" /\ UNCHANGED answer
          \/ found # "valid" /\ ~ AccountMayPrompt(found) /\ Leave
  /\ UNCHANGED <<name, proved, flag, calls>> /\ Rest

ChangeToken ==
  /\ pc = "chauthtok"
  /\ Once("chauthtok")
  /\ \/ account' = "renewed" /\ pc' = AfterAccount /\ Accepted
     \/ UNCHANGED account /\ Leave
  /\ UNCHANGED <<name, proved, flag>> /\ Rest

(* A seeded fault: PAM_USER is left as it was. *)
SetUserForgotten ==
  /\ pc = "user"
  /\ pc' = "establish"
  /\ UNCHANGED <<name, proved, account, flag, calls, answer>> /\ Rest

(* set_item(User, target) *)
SetUser ==
  /\ pc = "user"
  /\ \/ name' = "target" /\ pc' = "establish" /\ UNCHANGED answer
     \/ UNCHANGED name /\ Leave
  /\ UNCHANGED <<proved, account, flag, calls>> /\ Rest

(* open_session(): pam_setcred(PAM_ESTABLISH_CRED) *)
EstablishCred ==
  /\ pc = "establish"
  /\ \/ Once("establish") /\ pc' = "open" /\ UNCHANGED answer
     \/ UNCHANGED calls /\ Leave
  /\ UNCHANGED <<name, proved, account, flag>> /\ Rest

(* A seeded fault: a failed pam_open_session() leaves the credentials. *)
OpenSessionKeepingCred ==
  /\ pc = "open"
  /\ \/ Once("open") /\ flag' = TRUE /\ pc' = "sync" /\ UNCHANGED answer
     \/ UNCHANGED <<calls, flag>> /\ Leave
  /\ UNCHANGED <<name, proved, account>> /\ Rest

(* open_session(): pam_open_session(), else the credentials go again. *)
OpenSession ==
  /\ pc = "open"
  /\ \/ Once("open") /\ flag' = TRUE /\ pc' = "sync" /\ UNCHANGED answer
     \/ Once("delete") /\ UNCHANGED flag /\ Leave
  /\ UNCHANGED <<name, proved, account>> /\ Rest

(* ForkSync::new() *)
NewSync == Step("sync", "envlist")

(* getenvlist(): an entry that is not UTF-8 or has no '=' is an error. *)
GetEnvList == Step("envlist", "fork")

(* fork(): from here on the handle is dropped by hand, by the parent only. *)
Fork ==
  /\ pc = "fork"
  /\ \/ child' = "starting" /\ pc' = "watch" /\ UNCHANGED answer
     \/ UNCHANGED child /\ Leave
  /\ UNCHANGED <<who, name, proved, account, flag, calls>>

(* watch_process() returns: the child is reaped, or lost sight of. *)
WatchReturns ==
  /\ pc = "watch"
  /\ \/ child = "gone" /\ answer' = "exit"
     \/ answer' = "lost"
  /\ pc' = "drop"
  /\ UNCHANGED <<name, proved, account, flag, calls>> /\ Rest

-----------------------------------------------------------------------------
(***************************************************************************)
(* Dropping the handle: close_session() if there is one, then pam_end().   *)
(***************************************************************************)
Drop ==
  /\ pc = "drop"
  /\ pc' = IF flag THEN "close" ELSE "end"
  /\ UNCHANGED <<name, proved, account, flag, calls, answer>> /\ Rest

(* A seeded fault: the credentials go before the session does. *)
CloseSessionLast ==
  /\ pc = "close"
  /\ Once("delete")
  /\ pc' = "delete"
  /\ UNCHANGED <<name, proved, account, flag, answer>> /\ Rest

(* close_session(): pam_close_session(); a failure keeps the flag. *)
CloseSession ==
  /\ pc = "close"
  /\ Once("close")
  /\ flag' \in {flag, FALSE}
  /\ pc' = "delete"
  /\ UNCHANGED <<name, proved, account, answer>> /\ Rest

(* close_session(): pam_setcred(PAM_DELETE_CRED), in either case *)
DeleteCred ==
  /\ pc = "delete"
  /\ Once("delete")
  /\ pc' = "end"
  /\ UNCHANGED <<name, proved, account, flag, answer>> /\ Rest

(* Drop of PamHandle: pam_end() *)
PamEnd ==
  /\ pc = "end"
  /\ Once("end")
  /\ pc' = "done"
  /\ UNCHANGED <<name, proved, account, flag, answer>> /\ Rest

-----------------------------------------------------------------------------
(***************************************************************************)
(* The child of the fork.                                                  *)
(***************************************************************************)

(* The barrier lets the child go only while the parent is watching. *)
ChildExecutes ==
  /\ child = "starting" /\ pc = "watch"
  /\ child' = "command"
  /\ UNCHANGED <<who, pc, name, proved, account, flag, calls, answer>>

(* A seeded fault: the child's copy of the handle is dropped on its way out. *)
ChildEndsDropping ==
  /\ child \in {"starting", "command"}
  /\ child' = "gone"
  /\ calls' = [calls EXCEPT !["close"] = @ + 1, !["delete"] = @ + 1, !["end"] = @ + 1]
  /\ UNCHANGED <<who, pc, name, proved, account, flag, answer>>

(* ManuallyDrop: whether auth() returns or fails in the child, its copy of *)
(* the handle is not dropped.                                              *)
ChildEnds ==
  /\ child \in {"starting", "command"}
  /\ child' = "gone"
  /\ UNCHANGED <<who, pc, name, proved, account, flag, calls, answer>>

Proceed ==
  \/ Decide \/ PamStart \/ SetTty \/ Authenticate \/ SetRUser \/ AcctMgmt
  \/ ChangeToken \/ SetUser \/ EstablishCred \/ OpenSession \/ NewSync
  \/ GetEnvList \/ Fork \/ WatchReturns \/ Drop \/ CloseSession \/ DeleteCred
  \/ PamEnd

Next == Proceed \/ ChildExecutes \/ ChildEnds

Spec == Init /\ [][Next]_vars

-----------------------------------------------------------------------------
TypeOK ==
  /\ who \in [Fact -> BOOLEAN]
  /\ pc \in {"decide", "start", "tty", "authenticate", "ruser", "acct",
             "chauthtok", "user", "establish", "open", "sync", "envlist",
             "fork", "watch", "drop", "close", "delete", "end", "done"}
  /\ name \in {"none", "invoker", "target"}
  /\ proved \in {"none", "invoker"}
  /\ account \in {"unknown", "valid", "expired", "renewed"}
  /\ flag \in BOOLEAN
  /\ calls \in [Call -> 0..1]
  /\ child \in {"none", "starting", "command", "gone"}
  /\ answer \in {"none", "granted", "refused", "error", "exit", "lost"}

GotIn == answer = "granted" \/ calls["establish"] = 1 \/ child # "none"

(***************************************************************************)
(* Nobody becomes somebody else unchecked.  Credentials, session and       *)
(* command are only for root, for users who stay what they are, and for    *)
(* members of AUTH_GROUP who have proved to be themselves.  Whenever PAM   *)
(* is asked at all its verdict on the account holds: not valid, then no    *)
(* access.                                                                 *)
(***************************************************************************)
NobodyGetsInUnchecked ==
  GotIn =>
    /\ \/ who["root"]
       \/ who["own"] /\ who["group"]
       \/ who["wheel"] /\ proved = "invoker"
    /\ calls["start"] = 1 => account \in {"valid", "renewed"}

(***************************************************************************)
(* However auth() is left, what PAM has opened is closed exactly once: the *)
(* transaction, the credentials and the session, although two processes    *)
(* hold the handle.                                                        *)
(***************************************************************************)
NothingLeftOpen ==
  pc = "done" =>
    /\ calls["end"] = calls["start"]
    /\ calls["delete"] = calls["establish"]
    /\ calls["close"] = calls["open"]

(***************************************************************************)
(* A session lies within its credentials, the credentials within the       *)
(* transaction; nothing is closed that is not open.                        *)
(***************************************************************************)
ProperlyNested ==
  /\ calls["close"] <= calls["open"]
  /\ calls["delete"] <= calls["establish"]
  /\ calls["end"] <= calls["start"]
  /\ calls["open"] > calls["close"] => calls["establish"] > calls["delete"]
  /\ calls["establish"] > calls["delete"] => calls["start"] > calls["end"]

(***************************************************************************)
(* The command runs inside an open session that PAM has opened for the     *)
(* target, as long as watch_process() does not lose sight of it.           *)
(***************************************************************************)
SessionOutlivesCommand ==
  child = "command" /\ answer # "lost" =>
    /\ calls["open"] = 1 /\ calls["close"] = 0
    /\ name = "target"
=============================================================================
