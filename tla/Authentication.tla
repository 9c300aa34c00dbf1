--------------------------- MODULE Authentication ---------------------------
(***************************************************************************)
(* authenticate() as a whole: what it is told of users and groups comes    *)
(* from their databases (Accounts); with PAM it runs the transaction       *)
(* (PamSession), in which PAM's modules may turn to the user at each call  *)
(* they serve (Conversation); without PAM it asks the shadow file          *)
(* (Shadow).                                                               *)
(*                                                                         *)
(* PamSession's fact "scopex" means that auth() forks, that is, PAM and    *)
(* the native executor.                                                    *)
(***************************************************************************)
EXTENDS PamSession, Accounts, Conversation, Shadow

CONSTANTS
  Databases,     \* passwd and group
  UserTexts,     \* arguments of --user, <<>> for none
  GroupTexts     \* arguments of --group, <<>> for none

(* Both are lists. *)
ASSUME DatabasesAssumption ==
  \A db \in Databases :
    /\ Len(db.users) \in Nat /\ DOMAIN db.users = 1..Len(db.users)
    /\ Len(db.groups) \in Nat /\ DOMAIN db.groups = 1..Len(db.groups)

VARIABLES
  pam,     \* built with use_pam?
  claim    \* what the caller may do according to the databases

authVars == <<vars, convVars, shadowVars, pam, claim>>

-----------------------------------------------------------------------------
(***************************************************************************)
(* What a caller may claim, from passwd(5) and group(5): an id asked for   *)
(* by name is that of the first entry with the name, and a number not      *)
(* taken as a name is itself; a user has the primary group of the first    *)
(* entry for the id, and the groups that list its name.                    *)
(***************************************************************************)
IsFirst(s, k, P(_)) == k \in DOMAIN s /\ P(s[k]) /\ \A j \in 1..(k - 1) : ~ P(s[j])

Stands(s, text, id, IdOf(_)) ==
  \/ text[1] # "#" /\ \E k \in DOMAIN s :
       IsFirst(s, k, LAMBDA e : e.name = text) /\ id = IdOf(s[k])
  \/ /\ text[1] \in {"#", "digits"} /\ id = text[2]
     /\ text[1] = "digits" => \A k \in DOMAIN s : s[k].name # text

Rights(db, uid) ==
  {g \in {e.gid : e \in {db.users[k] : k \in DOMAIN db.users}
                         \cup {db.groups[k] : k \in DOMAIN db.groups}} :
     \E k \in DOMAIN db.users :
       /\ IsFirst(db.users, k, LAMBDA e : e.uid = uid)
       /\ \/ g = db.users[k].gid
          \/ \E h \in DOMAIN db.groups :
               g = db.groups[h].gid /\ db.users[k].name \in db.groups[h].members}

(* own    the user asked for is the caller, with a group it has a right to *)
(* wheel  the caller is in AUTH_GROUP                                      *)
Claim(db, uid, user, group) ==
  [own   |-> /\ IF user = <<>> THEN uid = 0
                               ELSE Stands(db.users, user, uid, LAMBDA e : e.uid)
             /\ group # <<>> => \E g \in Rights(db, uid) :
                                  Stands(db.groups, group, g, LAMBDA e : e.gid),
   wheel |-> \E g \in Rights(db, uid) :
               Stands(db.groups, AUTH_GROUP, g, LAMBDA e : e.gid)]

(* What the code makes of the caller, and what it should make. *)
Cases ==
  UNION {{[facts |-> Facts(db, me, it), claim |-> Claim(db, me.user.uid, u, g)] :
            me \in UNION {Invoker(db, e.uid) :
                            e \in {db.users[k] : k \in DOMAIN db.users}},
            it \in Target(db, u, g)} :
          db \in Databases, u \in UserTexts, g \in GroupTexts}

AuthInit ==
  /\ pam \in BOOLEAN
  /\ \E c \in Cases, noPrompt, stdin, scopex \in BOOLEAN :
       /\ who = [root |-> c.facts.root, own |-> c.facts.own,
                 group |-> c.facts.group, wheel |-> c.facts.wheel,
                 noPrompt |-> noPrompt, stdin |-> stdin, scopex |-> scopex /\ pam]
       /\ claim = c.claim
  /\ Init /\ ConvIdle /\ ShadowInit

-----------------------------------------------------------------------------
(***************************************************************************)
(* Steps.                                                                  *)
(***************************************************************************)
Fixed == UNCHANGED <<pam, claim>>

(* The calls in which PAM's modules may use the conversation. *)
Serving ==
  {"authenticate", "acct", "chauthtok", "establish", "open", "close", "delete"}

Transaction ==
  /\ pc = "start" => pam
  /\ (at = "idle" /\ Proceed) \/ ChildExecutes \/ ChildEnds
  /\ UNCHANGED <<convVars, shadowVars>> /\ Fixed

Converse ==
  /\ pc \in Serving
  /\ ConvNext
  /\ UNCHANGED <<vars, shadowVars>> /\ Fixed

AskShadow ==
  /\ pc = "start" /\ ~ pam
  /\ ShadowNext
  /\ UNCHANGED <<vars, convVars>> /\ Fixed

(* auth() returns what the shadow file said. *)
ShadowSays ==
  /\ pc = "start" /\ ~ pam /\ place = "over"
  /\ \/ verdict = "true" /\ proved' = name /\ Answer("granted")
     \/ verdict = "false" /\ Answer("refused") /\ UNCHANGED proved
     \/ verdict \notin {"true", "false"} /\ Answer("error") /\ UNCHANGED proved
  /\ UNCHANGED <<who, name, account, flag, calls, child, convVars, shadowVars>>
  /\ Fixed

AuthNext == Transaction \/ Converse \/ AskShadow \/ ShadowSays

AuthSpec == AuthInit /\ [][AuthNext]_authVars

-----------------------------------------------------------------------------
AuthTypeOK ==
  /\ TypeOK /\ ConvTypeOK /\ ShadowTypeOK
  /\ pam \in BOOLEAN /\ claim \in [own : BOOLEAN, wheel : BOOLEAN]

(***************************************************************************)
(* Nobody gains anything unproved.  Whoever gets in without a password is  *)
(* root, or asked for its own user and a group it has; everybody else is   *)
(* in AUTH_GROUP and has proved to be the caller.  "User", "group" and     *)
(* "in" mean what the databases say, and where PAM is asked at all its     *)
(* verdict on the account holds.                                           *)
(***************************************************************************)
NobodyGainsUnproved ==
  GotIn =>
    /\ \/ who["root"] \/ claim.own
       \/ claim.wheel /\ proved = "invoker"
    /\ calls["start"] = 1 => account \in {"valid", "renewed"}

(***************************************************************************)
(* README.md, --non-interactive: "Non-interactive mode, don't prompt for   *)
(* password".  Without --stdin there is then nobody to answer a prompt.    *)
(***************************************************************************)
NonInteractivePromptsNobody == NonInteractive => asked = {}
=============================================================================
