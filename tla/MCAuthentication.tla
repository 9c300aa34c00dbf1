-------------------------- MODULE MCAuthentication --------------------------
EXTENDS Authentication

User == <<"word", 1>>
Wheel == <<"word", 2>>
Digits == <<"digits", 1>>

Ids == {0, 1}

(* One or two users, and AUTH_GROUP with another group or without: names of *)
(* digits, ids shared by two names, primary groups that do not exist.       *)
MCDatabases ==
  LET UserEntry == [name : {User, Digits}, uid : Ids, gid : Ids]
      GroupEntry(n) == [name : {n}, gid : Ids, members : SUBSET {User, Digits}]
  IN [users  : {<<u>> : u \in UserEntry} \cup {<<u, v>> : u, v \in UserEntry},
      groups : {<<g>> : g \in GroupEntry(Wheel) \cup GroupEntry(Digits)}
                 \cup {<<g, h>> : g \in GroupEntry(Wheel), h \in GroupEntry(Digits)}]

MCUserTexts == {<<>>, User, Digits, <<"#", 1>>}

MCGroupTexts == {<<>>, Digits, <<"#", 0>>, <<"bad", 0>>}

(* The empty one, two that differ in their only byte, and one that goes on. *)
MCHashes == {<<>>, <<{}>>, <<{"b"}>>, <<{"b"}, {}>>}
=============================================================================
