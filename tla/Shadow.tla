------------------------------- MODULE Shadow -------------------------------
(***************************************************************************)
(* auth() of modules/auth.rs as built without PAM, with getspnam() and     *)
(* crypt() of ffi/shadow.rs and time_compare() of modules/passwd.rs.       *)
(*                                                                         *)
(* Ages are counted in days, in signed integers that can overflow; a       *)
(* negative one is not set.  A byte is the set of its bits, so that the    *)
(* operators on bytes are those on sets.                                   *)
(***************************************************************************)
EXTENDS Integers, Sequences

CONSTANTS
  MaxDay,    \* i64::MAX
  Bit,       \* the bits of a byte
  Hashes     \* password hashes, stored or computed

ASSUME ShadowAssumption ==
  /\ MaxDay \in Nat
  /\ Hashes \subseteq Seq(SUBSET Bit)

VARIABLES
  place,      \* "look up", "check", "ask", "crypt", "compare" or "over"
  entry,      \* ShadowEntry without the hash, NoEntry if there is none
  today,      \* days since the epoch
  stored,     \* passwd_hash of the entry
  computed,   \* user_hash
  verdict     \* "none", "true", "false" (DEFAULT_TRUE, DEFAULT_FALSE),
              \* or the error: "expired", "invalid", "failed"

shadowVars == <<place, entry, today, stored, computed, verdict>>

Age == -1..MaxDay

Entry == [last_change : Age, max_age : Age, inactive : Age, expiry : Age]

NoEntry == [last_change |-> -1, max_age |-> -1, inactive |-> -1, expiry |-> -1]

ShadowInit ==
  /\ place = "look up" /\ entry = NoEntry /\ today = 0
  /\ stored = <<>> /\ computed = <<>> /\ verdict = "none"

Over(v) == place' = "over" /\ verdict' = v

-----------------------------------------------------------------------------
(***************************************************************************)
(* Ages.                                                                   *)
(***************************************************************************)
Aging(e) == e.last_change > 0 /\ e.max_age >= 0

(* checked_add() has no result. *)
Overflows(e) == Aging(e) /\ e.last_change + e.max_age > MaxDay

(* passwd_expired *)
PasswordExpired(e, d) == Aging(e) /\ d > e.last_change + e.max_age

(* accnt_expired *)
AccountExpired(e, d) == e.expiry >= 0 /\ d > e.expiry

(* inactive; a sum that overflows is none. *)
Inactive(e, d) ==
  /\ e.inactive >= 0 /\ Aging(e)
  /\ e.last_change + e.max_age + e.inactive <= MaxDay
  /\ d > e.last_change + e.max_age + e.inactive

(***************************************************************************)
(* Bytes.                                                                  *)
(***************************************************************************)
Xor(a, b) == (a \ b) \cup (b \ a)

Invert(a) == Bit \ a

(* Behind the end of secret, known is matched against its own inversion. *)
Mismatch(known, secret, i) ==
  IF i > Len(secret) THEN Xor(known[i], Invert(known[i]))
                     ELSE Xor(known[i], secret[i])

(* A seeded fault: lengths are not compared. *)
TimeCompareLoop(known, secret) ==
  UNION {Mismatch(known, secret, i) : i \in DOMAIN known} = {}

(* time_compare(): all of known is looked at, whatever is found. *)
TimeCompare(known, secret) ==
  /\ Len(known) = Len(secret)
  /\ UNION {Mismatch(known, secret, i) : i \in DOMAIN known} = {}

-----------------------------------------------------------------------------
(* getspnam(): an error, no entry, or one.  A clock before the epoch makes *)
(* today the last day there is.                                            *)
LookUp ==
  /\ place = "look up"
  /\ \/ /\ Over("failed") \/ Over("false")
        /\ UNCHANGED <<entry, today>>
     \/ /\ entry' \in Entry /\ today' \in 0..MaxDay
        /\ place' = "check" /\ UNCHANGED verdict
  /\ UNCHANGED <<stored, computed>>

(* A seeded fault: the last day of a password or an account is lost. *)
CheckAgesOneOff ==
  /\ place = "check"
  /\ \/ entry.last_change = 0 /\ Over("expired")
     \/ entry.last_change # 0 /\ Overflows(entry) /\ Over("invalid")
     \/ /\ entry.last_change # 0 /\ ~ Overflows(entry)
        /\ IF AccountExpired(entry, today + 1) \/ PasswordExpired(entry, today + 1)
           THEN Over("expired")
           ELSE place' = "ask" /\ UNCHANGED verdict
  /\ UNCHANGED <<entry, today, stored, computed>>

(* A change that is demanded and a sum that overflows come before the ages. *)
CheckAges ==
  /\ place = "check"
  /\ \/ entry.last_change = 0 /\ Over("expired")
     \/ Overflows(entry) /\ Over("invalid")
     \/ /\ entry.last_change # 0 /\ ~ Overflows(entry)
        /\ IF \/ AccountExpired(entry, today) \/ PasswordExpired(entry, today)
              \/ Inactive(entry, today)
           THEN Over("expired")
           ELSE place' = "ask" /\ UNCHANGED verdict
  /\ UNCHANGED <<entry, today, stored, computed>>

(* ask_password() *)
AskPassword ==
  /\ place = "ask"
  /\ \/ place' = "crypt" /\ UNCHANGED verdict
     \/ Over("failed")
  /\ UNCHANGED <<entry, today, stored, computed>>

(* crypt(): the stored hash is the salt and is first read here.  What is   *)
(* computed is never empty, and the stored one if the password is right.   *)
(* Both are read as UTF-8 with substitutions; what is computed is ASCII.   *)
Crypt ==
  /\ place = "crypt"
  /\ \/ /\ stored' \in Hashes /\ computed' \in Hashes \ {<<>>}
        /\ place' = "compare" /\ UNCHANGED verdict
     \/ Over("failed") /\ UNCHANGED <<stored, computed>>
  /\ UNCHANGED <<entry, today>>

Compare ==
  /\ place = "compare"
  /\ Over(IF TimeCompare(computed, stored) THEN "true" ELSE "false")
  /\ UNCHANGED <<entry, today, stored, computed>>

ShadowNext == LookUp \/ CheckAges \/ AskPassword \/ Crypt \/ Compare

-----------------------------------------------------------------------------
ShadowTypeOK ==
  /\ place \in {"look up", "check", "ask", "crypt", "compare", "over"}
  /\ entry \in Entry /\ today \in 0..MaxDay
  /\ stored \in Hashes \cup {<<>>} /\ computed \in Hashes \cup {<<>>}
  /\ verdict \in {"none", "true", "false", "expired", "invalid", "failed"}

(* shadow(5), without a sum: how old the password may become, and when the *)
(* account ends.                                                           *)
InForce(e, d) ==
  /\ e.last_change # 0
  /\ e.last_change < 0 \/ e.max_age < 0 \/ d - e.last_change <= e.max_age
  /\ e.expiry < 0 \/ d <= e.expiry

(***************************************************************************)
(* The password of an account in force decides, and nothing else does:     *)
(* access exactly for the password whose hash is stored, also at the last  *)
(* day and at the ends of the integers; an entry is called expired only if *)
(* it is.                                                                  *)
(***************************************************************************)
ShadowDecides ==
  /\ verdict = "true" => InForce(entry, today) /\ computed = stored
  /\ verdict = "false" /\ computed # <<>> => computed # stored
  /\ verdict = "expired" => ~ InForce(entry, today)
=============================================================================
