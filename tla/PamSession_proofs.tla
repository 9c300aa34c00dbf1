-------------------------- MODULE PamSession_proofs --------------------------
(***************************************************************************)
(* Proofs of the invariants of PamSession, for every invoker, every target *)
(* and every outcome of the PAM calls.                                     *)
(*                                                                         *)
(* The invariants speak of what was called and what was found out; which   *)
(* of it holds follows from the place in the code.  Bookkeeping says for   *)
(* each place which calls have been made, Clearance what is known of the   *)
(* user there, and Accompanied where the parent is while there is a child. *)
(***************************************************************************)
EXTENDS PamSession, TLAPS

Asking    == {"tty", "authenticate", "ruser", "acct", "chauthtok", "user",
              "establish"}
InSession == {"sync", "envlist", "fork", "watch"}
Closing   == {"drop", "close", "delete", "end"}

Untouched ==
  /\ calls["establish"] = 0 /\ calls["delete"] = 0
  /\ calls["open"] = 0 /\ calls["close"] = 0
  /\ ~ flag

Settled ==
  /\ calls["delete"] = calls["establish"]
  /\ calls["close"] = calls["open"]

SessionOpen ==
  /\ calls["establish"] = 1 /\ calls["delete"] = 0
  /\ calls["open"] = 1 /\ calls["close"] = 0

Bookkeeping ==
  /\ pc \in {"decide", "start"} => calls = [c \in Call |-> 0] /\ ~ flag
  /\ pc \in Asking \cup {"open"} \cup InSession \cup Closing =>
       calls["start"] = 1 /\ calls["end"] = 0
  /\ pc \in Asking => Untouched
  /\ pc = "open" =>
       /\ calls["establish"] = 1 /\ calls["delete"] = 0
       /\ calls["open"] = 0 /\ calls["close"] = 0 /\ ~ flag
  /\ pc \in InSession => SessionOpen /\ flag
  /\ pc = "drop" => IF flag THEN SessionOpen ELSE Settled
  /\ pc = "close" => SessionOpen
  /\ pc = "delete" => /\ calls["establish"] = 1 /\ calls["delete"] = 0
                      /\ calls["open"] = 1 /\ calls["close"] = 1
  /\ pc \in {"end", "done"} => Settled
  /\ pc = "done" => calls["end"] = calls["start"]

Cleared == account \in {"valid", "renewed"}

Known == Allowed \/ (who["wheel"] /\ proved = "invoker")

Clearance ==
  /\ pc \in {"decide", "start", "tty", "authenticate"} =>
       calls["authenticate"] = 0
  /\ pc \in {"start", "tty", "authenticate", "ruser"} =>
       (~ Allowed => who["wheel"] /\ name = "invoker")
  /\ pc \in {"decide", "start", "tty", "authenticate", "ruser", "acct"} =>
       account = "unknown"
  /\ pc = "authenticate" => ~ Allowed
  /\ pc \in {"ruser", "acct", "chauthtok", "user", "establish", "open"}
            \cup InSession => Known
  /\ pc \in {"decide", "start", "tty", "authenticate", "ruser", "acct", "chauthtok"} =>
       calls["chauthtok"] = 0
  /\ pc \in {"decide", "start", "open"} \cup Asking \cup InSession =>
       answer = "none"
  /\ pc \in {"user", "establish", "open"} \cup InSession => Cleared
  /\ answer = "granted" => Known /\ (calls["start"] = 1 => Cleared)
  /\ calls["establish"] = 1 => Known /\ Cleared
  /\ pc \in {"establish", "open"} \cup InSession => name = "target"

Accompanied ==
  /\ pc \notin {"watch", "done"} \cup Closing => child = "none"
  /\ child # "none" => /\ calls["establish"] = 1 /\ calls["open"] = 1
                       /\ name = "target"
                       /\ calls["start"] = 1
  /\ child = "command" => pc = "watch" \/ answer = "lost"

IInv ==
  TypeOK /\ Bookkeeping /\ Clearance /\ Accompanied

-----------------------------------------------------------------------------
(* The invariant holds when authenticate() is entered. *)
LEMMA Initially == Init => IInv
<1> SUFFICES ASSUME Init PROVE IInv OBVIOUS
<1>1. calls \in [Call -> 0..1]
  BY DEF Init
<1>5. flag \in BOOLEAN
  BY DEF Init
<1>6. TypeOK
  BY <1>1, <1>5 DEF Init, TypeOK
<1>2. Bookkeeping
  BY DEF Init, Bookkeeping, Asking, InSession, Closing
<1>3. Clearance
  BY DEF Init, Clearance, InSession, Call
<1>4. Accompanied
  BY DEF Init, Accompanied, Closing
<1> QED BY <1>2, <1>3, <1>4, <1>6 DEF IInv

(* Every step keeps it. *)
LEMMA Inductive == IInv /\ [Next]_vars => IInv'
<1> SUFFICES ASSUME IInv, [Next]_vars PROVE IInv' OBVIOUS
<1> USE DEF IInv
<1>1. CASE Decide
  <2>6. calls' \in [Call -> 0..1]
    BY <1>1 DEF Decide, EnterPam, AuthDecision, Answer, TypeOK,
       Bookkeeping, InSession, Closing, Call, SessionOpen, Settled, Untouched
  <2>7. flag' \in BOOLEAN
    BY <1>1 DEF Decide, EnterPam, AuthDecision, Answer, TypeOK
  <2>1. TypeOK'
    BY <2>6, <2>7, <1>1 DEF Decide, EnterPam, AuthDecision, Answer, TypeOK
  <2>3. Bookkeeping'
    BY <1>1 DEF Decide, EnterPam, AuthDecision, Answer, TypeOK, Call,
       Bookkeeping, Asking, InSession, Closing, Untouched, Settled, SessionOpen
  <2>4. Clearance'
    <3>1. CASE EnterPam /\ pc' = "start"
      <4>1. Allowed \/ (who["wheel"] /\ name' = "invoker")
        BY <3>1 DEF EnterPam, AuthDecision
      <4>2. UNCHANGED <<who, account, proved, calls>> /\ pc = "decide"
        BY <1>1 DEF Decide
      <4>3. answer' = "none"
        BY <1>1, <3>1 DEF Decide, Answer, Clearance
      <4>4. calls["establish"] = 0 /\ account = "unknown"
        BY <4>2 DEF Bookkeeping, Clearance, Call
      <4> QED
        BY <3>1, <4>1, <4>2, <4>3, <4>4 DEF Clearance, Asking, InSession,
           Known, Cleared, Allowed
    <3>2. CASE pc' = "done"
      <4>1. answer' = "granted" => Allowed
        BY <1>1, <3>2 DEF Decide, Answer, AuthDecision
      <4> QED
        BY <1>1, <3>2, <4>1 DEF Decide, Clearance, Bookkeeping, Call, Asking,
           InSession, Known, Cleared, Allowed
    <3> QED BY <1>1, <3>1, <3>2 DEF Decide, Answer
  <2>5. Accompanied'
    BY <1>1 DEF Decide, EnterPam, AuthDecision, Answer, TypeOK, Call,
       Accompanied, Bookkeeping, InSession, Closing, SessionOpen, Settled,
       Clearance
  <2> QED BY <2>1, <2>3, <2>4, <2>5
<1>2. CASE PamStart
  BY <1>2 DEF PamStart, Once, Leave, Answer, Rest, TypeOK,
     Bookkeeping, Clearance, Accompanied, Asking, InSession,
     Closing, Untouched, Settled, SessionOpen, Call, Known, Cleared, Allowed
<1>3. CASE SetTty
  BY <1>3 DEF SetTty, Step, Leave, Rest, TypeOK,
     Bookkeeping, Clearance, Accompanied, Asking, InSession,
     Closing, Untouched, Settled, SessionOpen, Call, Known, Cleared, Allowed
<1>4. CASE Authenticate
  BY <1>4 DEF Authenticate, Once, Leave, Rest, TypeOK,
     Bookkeeping, Clearance, Accompanied, Asking, InSession,
     Closing, Untouched, Settled, SessionOpen, Call, Known, Cleared, Allowed
<1>5. CASE SetRUser
  BY <1>5 DEF SetRUser, Step, Leave, Rest, TypeOK,
     Bookkeeping, Clearance, Accompanied, Asking, InSession,
     Closing, Untouched, Settled, SessionOpen, Call, Known, Cleared, Allowed
<1>6. CASE AcctMgmt
  BY <1>6 DEF AcctMgmt, AfterAccount, Accepted, AccountMayPrompt, Leave, Rest, TypeOK,
     Bookkeeping, Clearance, Accompanied, Asking, InSession,
     Closing, Untouched, Settled, SessionOpen, Call, Known, Cleared, Allowed
<1>7. CASE ChangeToken
  BY <1>7 DEF ChangeToken, Once, AfterAccount, Accepted, Leave, Rest, TypeOK,
     Bookkeeping, Clearance, Accompanied, Asking, InSession,
     Closing, Untouched, Settled, SessionOpen, Call, Known, Cleared, Allowed
<1>8. CASE SetUser
  BY <1>8 DEF SetUser, Leave, Rest, TypeOK,
     Bookkeeping, Clearance, Accompanied, Asking, InSession,
     Closing, Untouched, Settled, SessionOpen, Call, Known, Cleared, Allowed
<1>9. CASE EstablishCred
  BY <1>9 DEF EstablishCred, Once, Leave, Rest, TypeOK,
     Bookkeeping, Clearance, Accompanied, Asking, InSession,
     Closing, Untouched, Settled, SessionOpen, Call, Known, Cleared, Allowed
<1>10. CASE OpenSession
  <2>6. calls' \in [Call -> 0..1]
    BY <1>10 DEF OpenSession, Once, Leave, Rest, TypeOK,
       Bookkeeping, InSession, Closing, Call, SessionOpen, Settled, Untouched
  <2>7. flag' \in BOOLEAN
    BY <1>10 DEF OpenSession, Once, Leave, Rest, TypeOK
  <2>1. TypeOK'
    BY <2>6, <2>7, <1>10 DEF OpenSession, Once, Leave, Rest, TypeOK
  <2>3. Bookkeeping'
    BY <1>10 DEF OpenSession, Once, Leave, Rest, TypeOK, Call,
       Bookkeeping, Asking, InSession, Closing, Untouched, Settled, SessionOpen
  <2>4. Clearance'
    BY <1>10 DEF OpenSession, Once, Leave, Rest, TypeOK, Call,
       Clearance, Bookkeeping, Asking, InSession, Untouched, SessionOpen,
       Settled, Closing, Known, Cleared, Allowed
  <2>5. Accompanied'
    BY <1>10 DEF OpenSession, Once, Leave, Rest, TypeOK, Call,
       Accompanied, Bookkeeping, InSession, Closing, SessionOpen, Settled,
       Clearance
  <2> QED BY <2>1, <2>3, <2>4, <2>5
<1>11. CASE NewSync
  BY <1>11 DEF NewSync, Step, Leave, Rest, TypeOK,
     Bookkeeping, Clearance, Accompanied, Asking, InSession,
     Closing, Untouched, Settled, SessionOpen, Call, Known, Cleared, Allowed
<1>12. CASE GetEnvList
  BY <1>12 DEF GetEnvList, Step, Leave, Rest, TypeOK,
     Bookkeeping, Clearance, Accompanied, Asking, InSession,
     Closing, Untouched, Settled, SessionOpen, Call, Known, Cleared, Allowed
<1>13. CASE Fork
  <2>6. calls' \in [Call -> 0..1]
    BY <1>13 DEF Fork, Leave, TypeOK,
       Bookkeeping, InSession, Closing, Call, SessionOpen, Settled, Untouched
  <2>7. flag' \in BOOLEAN
    BY <1>13 DEF Fork, Leave, TypeOK
  <2>1. TypeOK'
    BY <2>6, <2>7, <1>13 DEF Fork, Leave, TypeOK
  <2>3. Bookkeeping'
    BY <1>13 DEF Fork, Leave, TypeOK, Call,
       Bookkeeping, Asking, InSession, Closing, Untouched, Settled, SessionOpen
  <2>4. Clearance'
    BY <1>13 DEF Fork, Leave, TypeOK, Call,
       Clearance, Bookkeeping, Asking, InSession, Untouched, SessionOpen,
       Settled, Closing, Known, Cleared, Allowed
  <2>5. Accompanied'
    BY <1>13 DEF Fork, Leave, TypeOK, Call,
       Accompanied, Bookkeeping, InSession, Closing, SessionOpen, Settled,
       Clearance
  <2> QED BY <2>1, <2>3, <2>4, <2>5
<1>14. CASE WatchReturns
  BY <1>14 DEF WatchReturns, Rest, TypeOK,
     Bookkeeping, Clearance, Accompanied, Asking, InSession,
     Closing, Untouched, Settled, SessionOpen, Call, Known, Cleared, Allowed
<1>15. CASE Drop
  BY <1>15 DEF Drop, Rest, TypeOK,
     Bookkeeping, Clearance, Accompanied, Asking, InSession,
     Closing, Untouched, Settled, SessionOpen, Call, Known, Cleared, Allowed
<1>16. CASE CloseSession
  <2>6. calls' \in [Call -> 0..1]
    BY <1>16 DEF CloseSession, Once, Rest, TypeOK,
       Bookkeeping, InSession, Closing, Call, SessionOpen, Settled, Untouched
  <2>7. flag' \in BOOLEAN
    BY <1>16 DEF CloseSession, Once, Rest, TypeOK
  <2>1. TypeOK'
    BY <2>6, <2>7, <1>16 DEF CloseSession, Once, Rest, TypeOK
  <2>3. Bookkeeping'
    BY <1>16 DEF CloseSession, Once, Rest, TypeOK, Call,
       Bookkeeping, Asking, InSession, Closing, Untouched, Settled, SessionOpen
  <2>4. Clearance'
    BY <1>16 DEF CloseSession, Once, Rest, TypeOK, Call,
       Clearance, Bookkeeping, Asking, InSession, Untouched, SessionOpen,
       Settled, Closing, Known, Cleared, Allowed
  <2>5. Accompanied'
    BY <1>16 DEF CloseSession, Once, Rest, TypeOK, Call,
       Accompanied, Bookkeeping, InSession, Closing, SessionOpen, Settled,
       Clearance
  <2> QED BY <2>1, <2>3, <2>4, <2>5
<1>17. CASE DeleteCred
  BY <1>17 DEF DeleteCred, Once, Rest, TypeOK,
     Bookkeeping, Clearance, Accompanied, Asking, InSession,
     Closing, Untouched, Settled, SessionOpen, Call, Known, Cleared, Allowed
<1>18. CASE PamEnd
  BY <1>18 DEF PamEnd, Once, Rest, TypeOK,
     Bookkeeping, Clearance, Accompanied, Asking, InSession,
     Closing, Untouched, Settled, SessionOpen, Call, Known, Cleared, Allowed
<1>19. CASE ChildExecutes
  BY <1>19 DEF ChildExecutes, TypeOK,
     Bookkeeping, Clearance, Accompanied, Asking, InSession,
     Closing, Untouched, Settled, SessionOpen, Call, Known, Cleared, Allowed
<1>20. CASE ChildEnds
  BY <1>20 DEF ChildEnds, TypeOK,
     Bookkeeping, Clearance, Accompanied, Asking, InSession,
     Closing, Untouched, Settled, SessionOpen, Call, Known, Cleared, Allowed
<1>21. CASE UNCHANGED vars
  BY <1>21 DEF vars, TypeOK,
     Bookkeeping, Clearance, Accompanied, Untouched,
     Settled, SessionOpen, Known, Cleared, Allowed
<1> QED
  BY <1>1, <1>2, <1>3, <1>4, <1>5, <1>6, <1>7, <1>8, <1>9, <1>10, <1>11, <1>12, <1>13, <1>14, <1>15, <1>16, <1>17, <1>18, <1>19, <1>20, <1>21 DEF Next, Proceed

THEOREM Invariance == Spec => []IInv
BY Initially, Inductive, PTL DEF Spec

(* The type invariant: in particular no call on the handle is made twice. *)
THEOREM TypeCorrect == Spec => []TypeOK
BY Invariance, PTL DEF IInv

(* Credentials, session and command only for those who need no password or  *)
(* have given theirs, and only with PAM's consent to the account.           *)
THEOREM NoUncheckedEntry == Spec => []NobodyGetsInUnchecked
<1>1. IInv => NobodyGetsInUnchecked
  BY DEF IInv, TypeOK, Call, NobodyGetsInUnchecked, GotIn, Clearance,
     Accompanied, Known, Cleared, Allowed
<1> QED BY <1>1, Invariance, PTL

(* Whatever fails, auth() leaves nothing open behind it. *)
THEOREM CleanedUp == Spec => []NothingLeftOpen
<1>1. IInv => NothingLeftOpen
  BY DEF IInv, NothingLeftOpen, Bookkeeping, Settled
<1> QED BY <1>1, Invariance, PTL

(* Session within credentials within transaction. *)
THEOREM Nested == Spec => []ProperlyNested
<1>1. IInv => ProperlyNested
  BY DEF IInv, TypeOK, Call, ProperlyNested, Bookkeeping, Asking, InSession,
     Closing, Untouched, Settled, SessionOpen
<1> QED BY <1>1, Invariance, PTL

(* The command never runs without its session. *)
THEOREM SessionCoversCommand == Spec => []SessionOutlivesCommand
<1>1. IInv => SessionOutlivesCommand
  BY DEF IInv, SessionOutlivesCommand, Bookkeeping, Accompanied, InSession,
     SessionOpen
<1> QED BY <1>1, Invariance, PTL
=============================================================================
