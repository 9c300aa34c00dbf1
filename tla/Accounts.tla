------------------------------ MODULE Accounts ------------------------------
(***************************************************************************)
(* Users, groups and accounts: modules/user.rs, with what run() in main.rs *)
(* and authenticate() in modules/auth.rs make of them.                     *)
(*                                                                         *)
(* A database is what passwd and group hold, in their order, where the     *)
(* first entry that matches counts.  A name is <<"word", i>> or, if it     *)
(* consists of digits, <<"digits", n>>; on the command line <<"#", n>> is  *)
(* an id as well, and <<"bad", 0>> anything that is neither name nor id.   *)
(* A look-up yields the set of what was found: one entry or none.          *)
(***************************************************************************)
EXTENDS Naturals, Sequences

CONSTANT AUTH_GROUP

(* What is found first. *)
First(s, I) == {s[i] : i \in {k \in I : \A j \in I : k <= j}}

ByName(s, n) == First(s, {i \in DOMAIN s : s[i].name = n})

UserById(db, u) == First(db.users, {i \in DOMAIN db.users : db.users[i].uid = u})

GroupById(db, g) == First(db.groups, {i \in DOMAIN db.groups : db.groups[i].gid = g})

(* A seeded fault: digits are an id in any case. *)
IsNameUnlessDigits(s, text) == text[1] = "word" /\ ByName(s, text) # {}

(* Digits, too, are a name if somebody has that name. *)
IsName(s, text) == text[1] \in {"word", "digits"} /\ ByName(s, text) # {}

(* The name first, an id only if nobody has that name. *)
Find(s, text, byId) ==
  IF IsName(s, text) THEN ByName(s, text)
  ELSE IF text[1] \in {"#", "digits"} THEN byId ELSE {}

(* Group::from() *)
GroupFrom(db, text) == Find(db.groups, text, GroupById(db, text[2]))

(* User::from(): of several names for a user id the first one counts. *)
UserFrom(db, text) ==
  UNION {UserById(db, u.uid) : u \in Find(db.users, text, UserById(db, text[2]))}

(* Account::from(), from_uid(): there is no account without its group. *)
AccountOf(db, users) ==
  UNION {{[user |-> u, group |-> g] : g \in GroupById(db, u.gid)} : u \in users}

(* run(): who calls. *)
Invoker(db, uid) == AccountOf(db, UserById(db, uid))

(* run(): the target is root if --user is not given (here <<>>); --group *)
(* replaces its group.                                                   *)
Target(db, user, group) ==
  UNION {{[a EXCEPT !.group = g] :
            g \in IF group = <<>> THEN {a.group} ELSE GroupFrom(db, group)} :
          a \in AccountOf(db, IF user = <<>> THEN UserById(db, 0)
                                             ELSE UserFrom(db, user))}

(* Account::group_list(): computed once; nothing it depends on changes. *)
GroupList(db, account) ==
  {account.user.gid}
    \cup {g.gid : g \in {h \in {db.groups[i] : i \in DOMAIN db.groups} :
                           account.user.name \in h.members}}

(* A seeded fault: a user is a member of every group with its own id. *)
IsMemberById(db, account, group) ==
  account.user.uid \in {0, group.gid} \/ group.gid \in GroupList(db, account)

(* Account::is_member(): root belongs to everything. *)
IsMember(db, account, group) ==
  account.user.uid = 0 \/ group.gid \in GroupList(db, account)

(* authenticate(): what auth_decision() and the question for AUTH_GROUP see. *)
Facts(db, user, target) ==
  [root  |-> user.user.uid = 0,
   own   |-> target.user.uid = user.user.uid,
   group |-> target.group.gid = user.group.gid \/ IsMember(db, user, target.group),
   wheel |-> \E g \in GroupFrom(db, AUTH_GROUP) : IsMember(db, user, g)]
=============================================================================
