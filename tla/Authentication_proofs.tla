------------------------ MODULE Authentication_proofs ------------------------
(***************************************************************************)
(* Proofs about authenticate() as a whole: for any passwd and group, any   *)
(* shadow file, any number of messages and any outcome of the calls of PAM.*)
(*                                                                         *)
(* First each part alone: what the look-ups find, what the shadow file     *)
(* decides, whose the replies are.  Then the whole, where the invariants   *)
(* of the parts, and that of PamSession, are kept by each other's steps.   *)
(***************************************************************************)
EXTENDS Authentication, PamSession_proofs, WellFoundedInduction

-----------------------------------------------------------------------------
(***************************************************************************)
(* Users and groups.                                                       *)
(***************************************************************************)
Less == {ss \in Nat \X Nat : ss[1] < ss[2]}

(* Of natural numbers there is a least one. *)
LEMMA LeastOne ==
  ASSUME NEW I \in SUBSET Nat, I # {}
  PROVE  \E k \in I : \A j \in I : k <= j
<1>1. IsWellFoundedOn(Less, Nat)
  BY NatLessThanWellFounded DEF OpToRel, Less
<1>2. PICK k \in I : \A j \in I : ~ <<j, k>> \in Less
  BY <1>1, WFMin
<1>3. \A i, j \in Nat : <<i, j>> \in Less <=> i < j
  BY DEF Less
<1>4. \A j \in I : k <= j
  <2> TAKE j \in I
  <2>1. j \in Nat /\ k \in Nat /\ ~ j < k
    BY <1>2, <1>3
  <2> QED BY <2>1
<1> QED BY <1>4

(* If something matches, the first one of it is found. *)
LEMMA FirstFound ==
  ASSUME NEW s, NEW n \in Nat, DOMAIN s = 1..n, NEW I \in SUBSET DOMAIN s
  PROVE  /\ \A e \in First(s, I) : \E k \in I : e = s[k] /\ \A j \in I : k <= j
         /\ I # {} => First(s, I) # {}
<1>1. \A e \in First(s, I) : \E k \in I : e = s[k] /\ \A j \in I : k <= j
  BY DEF First
<1>2. ASSUME I # {} PROVE First(s, I) # {}
  <2>1. I \in SUBSET Nat
    OBVIOUS
  <2>2. PICK k \in I : \A j \in I : k <= j
    BY <1>2, <2>1, LeastOne
  <2>3. s[k] \in First(s, I)
    BY <2>2 DEF First
  <2> QED BY <2>3
<1> QED BY <1>1, <1>2

(* By name: the first entry that has it, or nobody has it. *)
LEMMA NamedFound ==
  ASSUME NEW s, NEW n \in Nat, DOMAIN s = 1..n, NEW t
  PROVE  /\ \A e \in ByName(s, t) :
              \E k \in 1..n : /\ e = s[k] /\ s[k].name = t
                              /\ \A j \in 1..(k - 1) : s[j].name # t
         /\ ByName(s, t) = {} => \A k \in 1..n : s[k].name # t
<1> DEFINE I == {i \in DOMAIN s : s[i].name = t}
<1>1. /\ \A e \in First(s, I) : \E k \in I : e = s[k] /\ \A j \in I : k <= j
      /\ I # {} => First(s, I) # {}
  <2> I \in SUBSET DOMAIN s
    OBVIOUS
  <2> HIDE DEF I
  <2> QED BY FirstFound
<1>2. ASSUME NEW e \in ByName(s, t)
      PROVE  \E k \in 1..n : /\ e = s[k] /\ s[k].name = t
                             /\ \A j \in 1..(k - 1) : s[j].name # t
  <2>1. PICK k \in I : e = s[k] /\ \A j \in I : k <= j
    BY <1>1, <1>2 DEF ByName
  <2>2. \A j \in 1..(k - 1) : j \in 1..n /\ ~ k <= j
    BY <2>1
  <2> QED BY <2>1, <2>2
<1>3. ASSUME ByName(s, t) = {} PROVE \A k \in 1..n : s[k].name # t
  <2>1. I = {}
    BY <1>1, <1>3 DEF ByName
  <2> QED BY <2>1
<1> QED BY <1>2, <1>3

(* By user id: the first entry that has it. *)
LEMMA UserFound ==
  ASSUME NEW db \in Databases, NEW u, NEW e \in UserById(db, u)
  PROVE  /\ e.uid = u
         /\ \E k \in DOMAIN db.users :
              e = db.users[k] /\ \A j \in 1..(k - 1) : db.users[j].uid # u
<1> DEFINE I == {i \in DOMAIN db.users : db.users[i].uid = u}
<1>1. Len(db.users) \in Nat /\ DOMAIN db.users = 1..Len(db.users)
  BY DatabasesAssumption
<1>2. PICK k \in I : e = db.users[k] /\ \A j \in I : k <= j
  <2> I \in SUBSET DOMAIN db.users
    OBVIOUS
  <2>1. e \in First(db.users, I)
    BY DEF UserById
  <2> HIDE DEF I
  <2> QED BY <1>1, <2>1, FirstFound
<1>3. \A j \in 1..(k - 1) : j \in DOMAIN db.users /\ ~ k <= j
  BY <1>1, <1>2
<1> QED BY <1>2, <1>3

(* By group id: an entry that has it. *)
LEMMA GroupFound ==
  ASSUME NEW db, NEW g, NEW e \in GroupById(db, g)
  PROVE  e.gid = g
BY DEF GroupById, First

(* The user and the group of an account. *)
LEMMA AccountParts ==
  ASSUME NEW db, NEW users, NEW a \in AccountOf(db, users)
  PROVE  /\ a.user \in users /\ a.group.gid = a.user.gid
         /\ a = [user |-> a.user, group |-> a.group]
<1>1. PICK u \in users :
        \E g \in GroupById(db, u.gid) : a = [user |-> u, group |-> g]
  BY DEF AccountOf
<1>2. PICK g \in GroupById(db, u.gid) : a = [user |-> u, group |-> g]
  BY <1>1
<1>3. g.gid = u.gid
  BY GroupFound
<1> QED BY <1>1, <1>2, <1>3

(* The user and the group of those who call, and of their target. *)
LEMMA InvokerIsUser ==
  ASSUME NEW db \in Databases, NEW uid, NEW me \in Invoker(db, uid)
  PROVE  /\ me.group.gid = me.user.gid /\ me.user.uid = uid
         /\ \E k \in DOMAIN db.users :
              /\ me.user = db.users[k]
              /\ \A j \in 1..(k - 1) : db.users[j].uid # uid
<1>1. me.user \in UserById(db, uid) /\ me.group.gid = me.user.gid
  BY AccountParts DEF Invoker
<1> QED BY <1>1, UserFound

LEMMA TargetIsAsked ==
  ASSUME NEW db \in Databases, NEW u, NEW g, NEW it \in Target(db, u, g)
  PROVE  /\ it.user \in IF u = <<>> THEN UserById(db, 0) ELSE UserFrom(db, u)
         /\ g # <<>> => it.group \in GroupFrom(db, g)
<1> DEFINE users == IF u = <<>> THEN UserById(db, 0) ELSE UserFrom(db, u)
<1>1. PICK a \in AccountOf(db, users) :
        \E h \in IF g = <<>> THEN {a.group} ELSE GroupFrom(db, g) :
          it = [a EXCEPT !.group = h]
  BY DEF Target
<1>2. a.user \in users /\ a = [user |-> a.user, group |-> a.group]
  <2> HIDE DEF users
  <2> QED BY <1>1, AccountParts
<1>3. PICK h \in IF g = <<>> THEN {a.group} ELSE GroupFrom(db, g) :
        it = [a EXCEPT !.group = h]
  BY <1>1
<1>4. it.user = a.user /\ it.group = h
  <2> HIDE DEF users
  <2> QED BY <1>2, <1>3
<1> QED BY <1>2, <1>3, <1>4

(* Who is found for --user stands for it. *)
LEMMA UserStands ==
  ASSUME NEW db \in Databases, NEW u, NEW e \in UserFrom(db, u)
  PROVE  Stands(db.users, u, e.uid, LAMBDA f : f.uid)
<1> DEFINE s == db.users
<1>1. Len(s) \in Nat /\ DOMAIN s = 1..Len(s)
  BY DatabasesAssumption
<1>2. PICK f \in Find(s, u, UserById(db, u[2])) : e \in UserById(db, f.uid)
  BY DEF UserFrom
<1>3. e.uid = f.uid
  BY <1>2, UserFound
<1>4. CASE IsName(s, u)
  <2>1. f \in ByName(s, u) /\ u[1] # "#"
    BY <1>2, <1>4 DEF Find, IsName
  <2>2. PICK k \in 1..Len(s) : /\ f = s[k] /\ s[k].name = u
                              /\ \A j \in 1..(k - 1) : s[j].name # u
    <3> HIDE DEF s
    <3> QED BY <1>1, <2>1, NamedFound
  <2> QED BY <1>1, <1>3, <2>1, <2>2 DEF Stands, IsFirst
<1>5. CASE ~ IsName(s, u)
  <2>1. u[1] \in {"#", "digits"} /\ f \in UserById(db, u[2])
    BY <1>2, <1>5 DEF Find
  <2>2. f.uid = u[2]
    BY <2>1, UserFound
  <2>3. u[1] = "digits" => \A k \in DOMAIN s : s[k].name # u
    <3> HIDE DEF s
    <3>1. u[1] = "digits" => ByName(s, u) = {}
      BY <1>5 DEF IsName
    <3> QED BY <1>1, <3>1, NamedFound
  <2> QED BY <1>3, <2>1, <2>2, <2>3 DEF Stands
<1> QED BY <1>4, <1>5

(* The same of --group, and of AUTH_GROUP. *)
LEMMA GroupStands ==
  ASSUME NEW db \in Databases, NEW t, NEW g \in GroupFrom(db, t)
  PROVE  Stands(db.groups, t, g.gid, LAMBDA f : f.gid)
<1> DEFINE s == db.groups
<1>1. Len(s) \in Nat /\ DOMAIN s = 1..Len(s)
  BY DatabasesAssumption
<1>2. g \in Find(s, t, GroupById(db, t[2]))
  BY DEF GroupFrom
<1>3. CASE IsName(s, t)
  <2>1. g \in ByName(s, t) /\ t[1] # "#"
    BY <1>2, <1>3 DEF Find, IsName
  <2>2. PICK k \in 1..Len(s) : /\ g = s[k] /\ s[k].name = t
                              /\ \A j \in 1..(k - 1) : s[j].name # t
    <3> HIDE DEF s
    <3> QED BY <1>1, <2>1, NamedFound
  <2> QED BY <1>1, <2>1, <2>2 DEF Stands, IsFirst
<1>4. CASE ~ IsName(s, t)
  <2>1. t[1] \in {"#", "digits"} /\ g \in GroupById(db, t[2])
    BY <1>2, <1>4 DEF Find
  <2>2. g.gid = t[2]
    BY <2>1, GroupFound
  <2>3. t[1] = "digits" => \A k \in DOMAIN s : s[k].name # t
    <3> HIDE DEF s
    <3>1. t[1] = "digits" => ByName(s, t) = {}
      BY <1>4 DEF IsName
    <3> QED BY <1>1, <3>1, NamedFound
  <2> QED BY <2>1, <2>2, <2>3 DEF Stands
<1> QED BY <1>3, <1>4

(* Membership is a right. *)
LEMMA MembersHaveRights ==
  ASSUME NEW db \in Databases, NEW uid, NEW me \in Invoker(db, uid),
         NEW g, me.user.uid # 0,
         g.gid = me.group.gid \/ IsMember(db, me, g)
  PROVE  g.gid \in Rights(db, me.user.uid)
<1>1. PICK k \in DOMAIN db.users :
        /\ me.user = db.users[k]
        /\ \A j \in 1..(k - 1) : db.users[j].uid # uid
  BY InvokerIsUser
<1>2. me.user.uid = uid /\ me.group.gid = me.user.gid
  BY InvokerIsUser
<1>3. IsFirst(db.users, k, LAMBDA e : e.uid = me.user.uid)
  BY <1>1, <1>2 DEF IsFirst
<1>4. CASE g.gid = me.user.gid
  BY <1>1, <1>3, <1>4 DEF Rights
<1>5. CASE g.gid # me.user.gid
  <2>1. PICK h \in DOMAIN db.groups :
          g.gid = db.groups[h].gid /\ me.user.name \in db.groups[h].members
    BY <1>2, <1>5 DEF IsMember, GroupList
  <2> QED BY <1>1, <1>3, <2>1 DEF Rights
<1> QED BY <1>4, <1>5

(* What authenticate() takes for granted of somebody who is not root is    *)
(* what the databases allow to be claimed.                                 *)
THEOREM FactsAreClaims ==
  ASSUME NEW db \in Databases, NEW uid, NEW me \in Invoker(db, uid),
         NEW u, NEW g, NEW it \in Target(db, u, g), ~ Facts(db, me, it).root
  PROVE  /\ Facts(db, me, it).own /\ Facts(db, me, it).group
              => Claim(db, me.user.uid, u, g).own
         /\ Facts(db, me, it).wheel => Claim(db, me.user.uid, u, g).wheel
<1>1. me.user.uid # 0
  BY DEF Facts
<1>2. ASSUME Facts(db, me, it).own, Facts(db, me, it).group
      PROVE  Claim(db, me.user.uid, u, g).own
  <2>1. it.user.uid = me.user.uid
    BY <1>2 DEF Facts
  <2>2. it.group.gid = me.group.gid \/ IsMember(db, me, it.group)
    BY <1>2 DEF Facts
  <2>3. it.group.gid \in Rights(db, me.user.uid)
    BY <1>1, <2>2, MembersHaveRights
  <2>4. CASE u = <<>>
    <3>1. it.user \in UserById(db, 0)
      BY <2>4, TargetIsAsked
    <3>2. it.user.uid = 0
      BY <3>1, UserFound
    <3> QED BY <1>1, <2>1, <3>2
  <2>5. CASE u # <<>>
    <3>1. it.user \in UserFrom(db, u)
      BY <2>5, TargetIsAsked
    <3>2. Stands(db.users, u, it.user.uid, LAMBDA e : e.uid)
      BY <3>1, UserStands
    <3>3. g # <<>> => Stands(db.groups, g, it.group.gid, LAMBDA e : e.gid)
      BY TargetIsAsked, GroupStands
    <3> QED BY <2>1, <2>3, <2>5, <3>2, <3>3 DEF Claim
  <2> QED BY <2>4, <2>5
<1>3. ASSUME Facts(db, me, it).wheel PROVE Claim(db, me.user.uid, u, g).wheel
  <2>1. PICK h \in GroupFrom(db, AUTH_GROUP) : IsMember(db, me, h)
    BY <1>3 DEF Facts
  <2>2. h.gid \in Rights(db, me.user.uid)
    BY <1>1, <2>1, MembersHaveRights
  <2>3. Stands(db.groups, AUTH_GROUP, h.gid, LAMBDA e : e.gid)
    BY <2>1, GroupStands
  <2> QED BY <2>2, <2>3 DEF Claim
<1> QED BY <1>2, <1>3

-----------------------------------------------------------------------------
(***************************************************************************)
(* The shadow file.                                                        *)
(***************************************************************************)
(* time_compare() never stops early, and yet is the equality of two byte   *)
(* strings; its inverted bytes are never what decides.                     *)
THEOREM TimeCompareIsEquality ==
  ASSUME NEW known \in Seq(SUBSET Bit), NEW secret \in Seq(SUBSET Bit)
  PROVE  TimeCompare(known, secret) <=> known = secret
<1>1. ASSUME known = secret PROVE TimeCompare(known, secret)
  <2>1. \A i \in DOMAIN known : Mismatch(known, secret, i) = {}
    BY <1>1 DEF Mismatch, Xor
  <2> QED BY <1>1, <2>1 DEF TimeCompare
<1>2. ASSUME TimeCompare(known, secret) PROVE known = secret
  <2>1. Len(known) = Len(secret)
    BY <1>2 DEF TimeCompare
  <2>2. \A i \in 1..Len(known) : known[i] = secret[i]
    <3> TAKE i \in 1..Len(known)
    <3>1. i \in DOMAIN known /\ ~ i > Len(secret)
      BY <2>1
    <3>2. Mismatch(known, secret, i) = {}
      BY <1>2, <3>1 DEF TimeCompare
    <3>3. Xor(known[i], secret[i]) = {}
      BY <3>1, <3>2 DEF Mismatch
    <3> QED BY <3>3 DEF Xor
  <2> QED BY <2>1, <2>2
<1> QED BY <1>1, <1>2

(* The branch for inactivity comes after one that already covers it: no    *)
(* entry is refused by it alone.                                           *)
THEOREM InactivityNeverDecides ==
  ASSUME NEW e \in Entry, NEW d \in Int, Inactive(e, d)
  PROVE  PasswordExpired(e, d)
BY DEF Inactive, PasswordExpired, Aging, Entry, Age

(* What the place in auth() says of the rest. *)
ShadowInv ==
  /\ ShadowTypeOK /\ ShadowDecides
  /\ place # "over" => verdict = "none"
  /\ place \in {"look up", "check", "ask", "crypt"} => stored = <<>> /\ computed = <<>>
  /\ place \in {"ask", "crypt", "compare"} => InForce(entry, today)
  /\ place = "compare" => stored \in Hashes /\ computed \in Hashes

(* The ages are looked at as shadow(5) says. *)
LEMMA AgesDecide ==
  ASSUME NEW e \in Entry, NEW d \in Int
  PROVE  /\ e.last_change = 0 => ~ InForce(e, d)
         /\ AccountExpired(e, d) \/ PasswordExpired(e, d) \/ Inactive(e, d)
              => ~ InForce(e, d)
         /\ e.last_change # 0 /\ ~ AccountExpired(e, d) /\ ~ PasswordExpired(e, d)
              => InForce(e, d)
<1>1. Inactive(e, d) => PasswordExpired(e, d)
  BY InactivityNeverDecides
<1>2. /\ e.last_change \in Int /\ e.max_age \in Int /\ e.expiry \in Int
  BY ShadowAssumption DEF Entry, Age
<1> QED BY <1>1, <1>2 DEF InForce, AccountExpired, PasswordExpired, Aging

LEMMA ShadowBegins == ShadowInit => ShadowInv
<1>1. NoEntry \in Entry /\ 0 \in 0..MaxDay
  BY ShadowAssumption DEF NoEntry, Entry, Age
<1> QED BY <1>1 DEF ShadowInit, ShadowInv, ShadowTypeOK, ShadowDecides

LEMMA ShadowStays ==
  ShadowInv /\ (ShadowNext \/ UNCHANGED shadowVars) => ShadowInv'
<1> SUFFICES ASSUME ShadowInv, ShadowNext \/ UNCHANGED shadowVars PROVE ShadowInv'
  OBVIOUS
<1> USE DEF ShadowInv, ShadowTypeOK, ShadowDecides, Over
<1>1. MaxDay \in Nat
  BY ShadowAssumption
<1>2. ShadowTypeOK
  OBVIOUS
<1>3. entry \in Entry /\ today \in Int
  <2> HIDE DEF ShadowInv, ShadowDecides, Over
  <2>1. entry \in Entry /\ today \in 0..MaxDay
    BY <1>2
  <2> QED BY <1>1, <2>1
<1>4. CASE LookUp
  BY <1>4 DEF LookUp
<1>5. CASE CheckAges
  BY <1>3, <1>5, AgesDecide DEF CheckAges
<1>6. CASE AskPassword
  BY <1>6 DEF AskPassword
<1>7. CASE Crypt
  BY <1>7 DEF Crypt
<1>8. CASE Compare
  <2>1. stored \in Seq(SUBSET Bit) /\ computed \in Seq(SUBSET Bit)
    BY <1>8, ShadowAssumption DEF Compare
  <2>2. TimeCompare(computed, stored) <=> computed = stored
    BY <2>1, TimeCompareIsEquality
  <2> QED BY <1>8, <2>2 DEF Compare
<1>9. CASE UNCHANGED shadowVars
  BY <1>9 DEF shadowVars
<1> QED BY <1>4, <1>5, <1>6, <1>7, <1>8, <1>9 DEF ShadowNext

-----------------------------------------------------------------------------
(***************************************************************************)
(* The conversation.                                                       *)
(***************************************************************************)
(* While messages are looked at, PamResponses holds the array and exactly  *)
(* the answers given so far.                                               *)
Held ==
  /\ count \in 1..PAM_MAX_NUM_MSG /\ next \in 1..(count + 1)
  /\ asked \subseteq 1..(next - 1)
  /\ memory = [p \in Pieces |-> IF p \in asked \cup {0} THEN "replies" ELSE "none"]
  /\ resp = "null"

ConvInv ==
  /\ ConvTypeOK /\ RepliesHaveOneOwner
  /\ at = "idle" => ConvIdle
  /\ at = "messages" => Held

LEMMA MessagesAreMany == PAM_MAX_NUM_MSG \in Nat /\ PAM_MAX_NUM_MSG > 0
BY MaxNumMsgAssumption

LEMMA ConvBegins == ConvIdle => ConvInv
<1> SUFFICES ASSUME ConvIdle PROVE ConvInv OBVIOUS
<1>1. memory \in [Pieces -> {"none", "replies", "pam", "freed"}]
  BY DEF ConvIdle
<1>2. ConvTypeOK
  BY <1>1, MessagesAreMany DEF ConvIdle, ConvTypeOK
<1> QED BY <1>2 DEF ConvIdle, ConvInv, RepliesHaveOneOwner

(* What DropReplies leaves behind of replies that were held. *)
LEMMA AllDropped ==
  ASSUME Held, DropReplies
  PROVE  /\ memory' \in [Pieces -> {"none", "replies", "pam", "freed"}]
         /\ \A p \in Pieces : memory'[p] \in {"none", "freed"}
BY DEF Held, DropReplies

(* An answered prompt is held at its place. *)
LEMMA AnswerIsHeld == ConvInv /\ AnswerPrompt => ConvInv'
<1> SUFFICES ASSUME ConvInv, AnswerPrompt PROVE ConvInv' OBVIOUS
<1>1. Held /\ at = "messages" /\ next <= count
  BY DEF ConvInv, AnswerPrompt, Message
<1>2. /\ count' = count /\ next' = next + 1 /\ asked' = asked \cup {next}
      /\ at' = at /\ resp' = resp /\ status' = status
  BY DEF AnswerPrompt, Answered
<1>3. next \in 1..PAM_MAX_NUM_MSG /\ next \in Pieces
  BY <1>1, MessagesAreMany DEF Held, Pieces
<1>4. memory' = [p \in Pieces |-> IF p \in asked' \cup {0} THEN "replies" ELSE "none"]
  BY <1>1, <1>2, <1>3 DEF Held, AnswerPrompt
<1>5. Held'
  <2>1. next' \in 1..(count' + 1) /\ asked' \subseteq 1..(next' - 1)
    BY <1>1, <1>2, <1>3, MessagesAreMany DEF Held
  <2> QED BY <1>1, <1>2, <1>4, <2>1 DEF Held
<1>6. ConvTypeOK'
  <2>1. memory' \in [Pieces -> {"none", "replies", "pam", "freed"}]
    BY <1>4
  <2>2. next' \in 0..(PAM_MAX_NUM_MSG + 1) /\ asked' \subseteq 1..PAM_MAX_NUM_MSG
    BY <1>2, <1>3, MessagesAreMany DEF ConvInv, ConvTypeOK
  <2> QED BY <1>2, <2>1, <2>2 DEF ConvInv, ConvTypeOK
<1> QED BY <1>1, <1>2, <1>5, <1>6 DEF ConvInv, RepliesHaveOneOwner

LEMMA ConvStays == ConvInv /\ (ConvNext \/ UNCHANGED convVars) => ConvInv'
<1> SUFFICES ASSUME ConvInv, ConvNext \/ UNCHANGED convVars PROVE ConvInv' OBVIOUS
<1>0. memory \in [Pieces -> {"none", "replies", "pam", "freed"}]
  BY DEF ConvInv, ConvTypeOK
<1>1. CASE RefuseCall
  BY <1>1 DEF RefuseCall, Return, ConvInv, ConvTypeOK, RepliesHaveOneOwner,
     ConvIdle
<1>2. ASSUME NEW n \in 1..PAM_MAX_NUM_MSG, Allocate(n) PROVE ConvInv'
  <2>1. ConvIdle /\ at = "idle"
    BY <1>2 DEF Allocate, ConvInv
  <2>2. 0 \in Pieces
    BY MessagesAreMany DEF Pieces
  <2>3. CASE at' = "messages"
    <3>1. memory' = [memory EXCEPT ![0] = "replies"] /\ status' = status
      BY <1>2, <2>3 DEF Allocate, Return
    <3>2. memory' = [p \in Pieces |-> IF p \in {} \cup {0} THEN "replies" ELSE "none"]
      BY <2>1, <2>2, <3>1 DEF ConvIdle
    <3>3. Held'
      BY <1>2, <2>1, <3>2, MessagesAreMany DEF Allocate, ConvIdle, Held
    <3>4. ConvTypeOK'
      <4>1. memory' \in [Pieces -> {"none", "replies", "pam", "freed"}]
        BY <3>2
      <4> QED
        BY <1>2, <2>1, <2>3, <3>1, <4>1, MessagesAreMany DEF Allocate, ConvIdle,
           ConvTypeOK
    <3> QED BY <2>3, <3>3, <3>4 DEF ConvInv, RepliesHaveOneOwner
  <2>4. CASE at' = "returned"
    <3>1. memory' = memory /\ status' = "buf_err" /\ resp' = "null"
      BY <1>2, <2>4 DEF Allocate, Return
    <3>2. ConvTypeOK'
      BY <1>0, <1>2, <2>1, <2>4, <3>1, MessagesAreMany DEF Allocate, ConvIdle,
         ConvTypeOK
    <3> QED
      BY <2>1, <2>4, <3>1, <3>2 DEF ConvIdle, ConvInv, RepliesHaveOneOwner
  <2> QED BY <1>2, <2>3, <2>4 DEF Allocate, Return
<1>3. CASE AnswerPrompt
  BY <1>3, AnswerIsHeld
<1>4. CASE Show
  <2>1. Held /\ at = "messages" /\ next <= count
    BY <1>4 DEF ConvInv, Show, Message
  <2>2. next' \in 1..(count + 1) /\ asked \subseteq 1..(next' - 1)
        /\ next' \in 0..(PAM_MAX_NUM_MSG + 1)
    BY <1>4, <2>1, MessagesAreMany DEF Held, Show
  <2> QED
    BY <1>0, <1>4, <2>1, <2>2 DEF Show, Held, ConvInv, ConvTypeOK, RepliesHaveOneOwner
<1>5. CASE FailMessage
  <2>1. Held
    BY <1>5 DEF ConvInv, FailMessage, Message
  <2>2. /\ memory' \in [Pieces -> {"none", "replies", "pam", "freed"}]
        /\ \A p \in Pieces : memory'[p] \in {"none", "freed"}
    BY <1>5, <2>1, AllDropped DEF FailMessage
  <2>3. /\ at' = "returned" /\ status' \in {"conv_err", "pam_err"}
        /\ UNCHANGED <<count, next, asked, resp>>
    BY <1>5 DEF FailMessage, Return
  <2> QED
    BY <2>1, <2>2, <2>3 DEF Held, ConvInv, ConvTypeOK, RepliesHaveOneOwner
<1>6. CASE FailCopy
  <2>1. Held /\ next <= count
    BY <1>6 DEF ConvInv, FailCopy, Message
  <2>2. /\ memory' \in [Pieces -> {"none", "replies", "pam", "freed"}]
        /\ \A p \in Pieces : memory'[p] \in {"none", "freed"}
    BY <1>6, <2>1, AllDropped DEF FailCopy
  <2>3. /\ at' = "returned" /\ status' = "buf_err" /\ asked' = asked \cup {next}
        /\ UNCHANGED <<count, next, resp>>
    BY <1>6 DEF FailCopy, Return
  <2>4. next \in 1..PAM_MAX_NUM_MSG
    BY <2>1, MessagesAreMany DEF Held
  <2> QED
    BY <2>1, <2>2, <2>3, <2>4 DEF Held, ConvInv, ConvTypeOK, RepliesHaveOneOwner
<1>7. CASE Transfer
  <2>1. Held
    BY <1>7 DEF ConvInv, Transfer
  <2>2. memory' = [p \in Pieces |-> IF p \in asked \cup {0} THEN "pam" ELSE "none"]
    BY <1>7, <2>1 DEF Transfer, Held
  <2>3. /\ at' = "returned" /\ status' = "success" /\ resp' = "array"
        /\ UNCHANGED <<count, next, asked>>
    BY <1>7 DEF Transfer, Return
  <2>4. memory' \in [Pieces -> {"none", "replies", "pam", "freed"}]
    BY <2>2
  <2> QED
    BY <2>2, <2>3, <2>4 DEF ConvInv, ConvTypeOK, RepliesHaveOneOwner
<1>8. CASE BackToModule
  <2>1. ConvIdle'
    BY <1>8 DEF BackToModule, ConvIdle
  <2>2. memory' \in [Pieces -> {"none", "replies", "pam", "freed"}]
    BY <1>8 DEF BackToModule
  <2> QED
    BY <2>1, <2>2, MessagesAreMany DEF ConvIdle, ConvInv, ConvTypeOK,
       RepliesHaveOneOwner
<1>9. CASE UNCHANGED convVars
  BY <1>9 DEF convVars, ConvInv, ConvTypeOK, RepliesHaveOneOwner, ConvIdle, Held
<1> QED
  BY <1>1, <1>2, <1>3, <1>4, <1>5, <1>6, <1>7, <1>8, <1>9 DEF ConvNext

-----------------------------------------------------------------------------
(***************************************************************************)
(* The whole.                                                              *)
(***************************************************************************)

(* What is taken for granted may be claimed, by everybody but root. *)
Entitled ==
  who["root"] \/ /\ who["own"] /\ who["group"] => claim.own
                 /\ who["wheel"] => claim.wheel

(* Without PAM nobody is asked for a password who needs none. *)
AskedForReason ==
  /\ ~ pam => ~ who["scopex"]
  /\ pc = "start" /\ ~ who["scopex"] => ~ Allowed

AuthInv ==
  /\ IInv /\ ConvInv /\ ShadowInv
  /\ pam \in BOOLEAN /\ claim \in [own : BOOLEAN, wheel : BOOLEAN]
  /\ Entitled /\ AskedForReason

LEMMA AuthBegins == AuthInit => AuthInv
<1> SUFFICES ASSUME AuthInit PROVE AuthInv OBVIOUS
<1>1. IInv /\ ConvInv /\ ShadowInv
  BY Initially, ConvBegins, ShadowBegins DEF AuthInit
<1>2. PICK c \in Cases, noPrompt, stdin, scopex \in BOOLEAN :
        /\ who = [root |-> c.facts.root, own |-> c.facts.own,
                  group |-> c.facts.group, wheel |-> c.facts.wheel,
                  noPrompt |-> noPrompt, stdin |-> stdin, scopex |-> scopex /\ pam]
        /\ claim = c.claim
  BY DEF AuthInit
<1>3. PICK db \in Databases, u \in UserTexts, g \in GroupTexts :
        \E me \in UNION {Invoker(db, e.uid) :
                           e \in {db.users[k] : k \in DOMAIN db.users}},
           it \in Target(db, u, g) :
          c = [facts |-> Facts(db, me, it), claim |-> Claim(db, me.user.uid, u, g)]
  BY DEF Cases
<1>4. PICK me \in UNION {Invoker(db, e.uid) :
                           e \in {db.users[k] : k \in DOMAIN db.users}},
           it \in Target(db, u, g) :
        c = [facts |-> Facts(db, me, it), claim |-> Claim(db, me.user.uid, u, g)]
  BY <1>3
<1>5. PICK k \in DOMAIN db.users : me \in Invoker(db, db.users[k].uid)
  BY <1>4
<1>6. claim = Claim(db, me.user.uid, u, g)
  BY <1>2, <1>4
<1>7. claim \in [own : BOOLEAN, wheel : BOOLEAN]
  BY <1>6 DEF Claim, Stands
<1>8. /\ who["root"] = Facts(db, me, it).root /\ who["own"] = Facts(db, me, it).own
      /\ who["group"] = Facts(db, me, it).group
      /\ who["wheel"] = Facts(db, me, it).wheel
      /\ who["scopex"] = (scopex /\ pam)
  BY <1>2, <1>4
<1>9. Entitled
  BY <1>5, <1>6, <1>8, FactsAreClaims DEF Entitled
<1>10. AskedForReason
  BY <1>8 DEF AuthInit, Init, AskedForReason
<1> QED BY <1>1, <1>7, <1>9, <1>10 DEF AuthInit, AuthInv

(* PAM's transaction learns nothing new of the caller, and is entered      *)
(* without a fork only for somebody who has to authenticate.               *)
LEMMA StartedForReason ==
  Next => /\ who' = who
          /\ pc' = "start" => \/ pc = "start"
                              \/ who["scopex"] \/ ~ Allowed
<1> SUFFICES ASSUME Next
             PROVE  /\ who' = who
                    /\ pc' = "start" => pc = "start" \/ who["scopex"] \/ ~ Allowed
  OBVIOUS
<1>1. CASE Decide
  BY <1>1 DEF Decide, EnterPam, AuthDecision, Answer
<1>2. CASE ChildExecutes \/ ChildEnds
  BY <1>2 DEF ChildExecutes, ChildEnds
<1>3. CASE PamStart \/ SetTty \/ Authenticate \/ SetRUser
  BY <1>3 DEF PamStart, SetTty, Authenticate, SetRUser, Step, Leave, Answer, Rest
<1>4. CASE AcctMgmt \/ ChangeToken \/ SetUser \/ EstablishCred \/ OpenSession
  BY <1>4 DEF AcctMgmt, ChangeToken, SetUser, EstablishCred, OpenSession,
     AfterAccount, Leave, Rest
<1>5. CASE NewSync \/ GetEnvList \/ Fork \/ WatchReturns
  BY <1>5 DEF NewSync, GetEnvList, Fork, WatchReturns, Step, Leave, Rest
<1>6. CASE Drop \/ CloseSession \/ DeleteCred \/ PamEnd
  BY <1>6 DEF Drop, CloseSession, DeleteCred, PamEnd, Rest
<1> QED BY <1>1, <1>2, <1>3, <1>4, <1>5, <1>6 DEF Next, Proceed

(* The answer of the shadow file fits the invariant of the transaction,    *)
(* although no call of PAM was made.                                       *)
LEMMA ShadowAnswers == AuthInv /\ ShadowSays => IInv'
<1> SUFFICES ASSUME AuthInv, ShadowSays PROVE IInv' OBVIOUS
<1>1. /\ UNCHANGED <<who, name, account, flag, calls, child>>
      /\ pc = "start" /\ pc' = "done"
      /\ answer' \in {"granted", "refused", "error"}
      /\ answer' = "granted" => proved' = name
      /\ proved' \in {proved, name}
  BY DEF ShadowSays, Answer
<1>2. IInv /\ TypeOK
  BY DEF AuthInv, IInv
<1>3. calls = [c \in Call |-> 0] /\ ~ flag /\ child = "none"
  BY <1>1, <1>2 DEF IInv, Bookkeeping, Accompanied, Closing
<1>4. ~ who["scopex"] => ~ Allowed /\ who["wheel"] /\ name = "invoker"
  BY <1>1, <1>2 DEF AuthInv, AskedForReason, IInv, Clearance
<1>5. ~ who["scopex"]
  BY DEF AuthInv, AskedForReason, ShadowSays
<1>6. TypeOK'
  BY <1>1, <1>2, <1>4, <1>5 DEF TypeOK
<1>8. Bookkeeping'
  BY <1>1, <1>3 DEF Bookkeeping, Asking, InSession, Closing, Settled, Call
<1>9. Clearance'
  <2>1. answer' = "granted" => Known'
    BY <1>1, <1>4, <1>5 DEF Known
  <2> QED
    BY <1>1, <1>3, <2>1 DEF Clearance, Asking, InSession, Call
<1>10. Accompanied'
  BY <1>1, <1>3 DEF Accompanied
<1> QED BY <1>6, <1>8, <1>9, <1>10 DEF IInv

LEMMA AuthStays == AuthInv /\ [AuthNext]_authVars => AuthInv'
<1> SUFFICES ASSUME AuthInv, [AuthNext]_authVars PROVE AuthInv' OBVIOUS
<1> USE DEF AuthInv
<1>1. CASE Transaction
  <2>1. Next /\ UNCHANGED <<convVars, shadowVars, pam, claim>>
    BY <1>1 DEF Transaction, Fixed, Next
  <2>2. IInv' /\ ConvInv' /\ ShadowInv'
    BY <2>1, Inductive, ConvStays, ShadowStays
  <2>3. Entitled' /\ AskedForReason'
    BY <2>1, StartedForReason DEF Entitled, AskedForReason, Allowed
  <2> QED BY <2>1, <2>2, <2>3
<1>2. CASE Converse
  <2>1. ConvNext /\ UNCHANGED <<vars, shadowVars, pam, claim>>
    BY <1>2 DEF Converse, Fixed
  <2>2. IInv' /\ ConvInv' /\ ShadowInv'
    BY <2>1, Inductive, ConvStays, ShadowStays
  <2>3. Entitled' /\ AskedForReason'
    BY <2>1 DEF vars, Entitled, AskedForReason, Allowed
  <2> QED BY <2>1, <2>2, <2>3
<1>3. CASE AskShadow
  <2>1. ShadowNext /\ UNCHANGED <<vars, convVars, pam, claim>>
    BY <1>3 DEF AskShadow, Fixed
  <2>2. IInv' /\ ConvInv' /\ ShadowInv'
    BY <2>1, Inductive, ConvStays, ShadowStays
  <2>3. Entitled' /\ AskedForReason'
    BY <2>1 DEF vars, Entitled, AskedForReason, Allowed
  <2> QED BY <2>1, <2>2, <2>3
<1>4. CASE ShadowSays
  <2>1. /\ UNCHANGED <<convVars, shadowVars, pam, claim>> /\ who' = who
        /\ pc' = "done"
    BY <1>4 DEF ShadowSays, Fixed, Answer
  <2>2. IInv' /\ ConvInv' /\ ShadowInv'
    BY <1>4, <2>1, ShadowAnswers, ConvStays, ShadowStays
  <2>3. Entitled' /\ AskedForReason'
    BY <2>1 DEF Entitled, AskedForReason
  <2> QED BY <2>1, <2>2, <2>3
<1>5. CASE UNCHANGED authVars
  <2>1. UNCHANGED <<vars, convVars, shadowVars, pam, claim>>
    BY <1>5 DEF authVars
  <2>2. IInv' /\ ConvInv' /\ ShadowInv'
    BY <2>1, Inductive, ConvStays, ShadowStays
  <2>3. Entitled' /\ AskedForReason'
    BY <2>1 DEF vars, Entitled, AskedForReason, Allowed
  <2> QED BY <2>1, <2>2, <2>3
<1> QED BY <1>1, <1>2, <1>3, <1>4, <1>5 DEF AuthNext

THEOREM AuthInvariance == AuthSpec => []AuthInv
BY AuthBegins, AuthStays, PTL DEF AuthSpec

(* Types, and with them: no call of PAM is made twice, although two        *)
(* processes hold the handle.                                              *)
THEOREM AuthTypeCorrect == AuthSpec => []AuthTypeOK
<1>1. AuthInv => AuthTypeOK
  BY DEF AuthInv, AuthTypeOK, IInv, ConvInv, ShadowInv
<1> QED BY <1>1, AuthInvariance, PTL

(* Whatever passwd and group hold, nobody gains a user or a group that is  *)
(* not its own without AUTH_GROUP and a password, with PAM or without.     *)
THEOREM NoGainUnproved == AuthSpec => []NobodyGainsUnproved
<1>1. IInv => NobodyGetsInUnchecked
  BY DEF IInv, TypeOK, Call, NobodyGetsInUnchecked, GotIn, Clearance,
     Accompanied, Known, Cleared, Allowed
<1>2. AuthInv => NobodyGainsUnproved
  BY <1>1 DEF AuthInv, Entitled, NobodyGainsUnproved, NobodyGetsInUnchecked
<1> QED BY <1>2, AuthInvariance, PTL

(* However many messages a module of PAM sends and whichever fails, each   *)
(* reply belongs to PAM or has been freed when the call returns.           *)
THEOREM OneOwner == AuthSpec => []RepliesHaveOneOwner
<1>1. AuthInv => RepliesHaveOneOwner
  BY DEF AuthInv, ConvInv
<1> QED BY <1>1, AuthInvariance, PTL

(* The shadow entry decides, for ages and hashes of any size. *)
THEOREM ShadowEntryDecides == AuthSpec => []ShadowDecides
<1>1. AuthInv => ShadowDecides
  BY DEF AuthInv, ShadowInv
<1> QED BY <1>1, AuthInvariance, PTL

-----------------------------------------------------------------------------
(***************************************************************************)
(* What PamSession_proofs shows of the transaction alone holds of the      *)
(* whole as well.                                                          *)
(***************************************************************************)

(* However auth() is left, and whatever a conversation does in between,    *)
(* what PAM has opened is closed.                                          *)
THEOREM LeavesNothingOpen == AuthSpec => []NothingLeftOpen
<1>1. AuthInv => NothingLeftOpen
  BY DEF AuthInv, IInv, NothingLeftOpen, Bookkeeping, Settled
<1> QED BY <1>1, AuthInvariance, PTL

(* Session within credentials within transaction. *)
THEOREM StaysNested == AuthSpec => []ProperlyNested
<1>1. IInv => ProperlyNested
  BY DEF IInv, TypeOK, Call, ProperlyNested, Bookkeeping, Asking, InSession,
     Closing, Untouched, Settled, SessionOpen
<1>2. AuthInv => ProperlyNested
  BY <1>1 DEF AuthInv
<1> QED BY <1>2, AuthInvariance, PTL

(* The command never runs without its session. *)
THEOREM SessionStaysOpen == AuthSpec => []SessionOutlivesCommand
<1>1. IInv => SessionOutlivesCommand
  BY DEF IInv, SessionOutlivesCommand, Bookkeeping, Accompanied, InSession,
     SessionOpen
<1>2. AuthInv => SessionOutlivesCommand
  BY <1>1 DEF AuthInv
<1> QED BY <1>2, AuthInvariance, PTL
=============================================================================
