----------------------------- MODULE Environment -----------------------------
(***************************************************************************)
(* Where the environment of the command comes from: the options --env and  *)
(* --preserve-env, the file ENV_FILE, PAM, the target's account and the    *)
(* environment runas was called with, merged by run() of main.rs,          *)
(* load_overwrite_vars() and set_environment() of modules/env.rs.          *)
(*                                                                         *)
(* A value is modelled by where it comes from: <<"file", 2>> is what the   *)
(* second line of the file says.  Launch extends this module by the rest   *)
(* of run().                                                               *)
(***************************************************************************)
EXTENDS Naturals, SequencesExt

CONSTANTS
  Builds,        \* the builds of interest, see build
  Name,          \* names of variables
  AccountName,   \* HOME, USER, LOGNAME, SHELL
  Kept,          \* ENV_VARS, and what starts with LC_
  MaxLines       \* how many lines the file has at most

Backends == {"systemd", "run0", "scopex"}

ASSUME NamesAssumption ==
  /\ Builds \subseteq [backend : Backends, pam : BOOLEAN]
  /\ AccountName \subseteq Name /\ Kept \subseteq Name
  /\ MaxLines \in Nat

VARIABLES
  build,     \* [backend, pam]: the features runas was built with
  pc,        \* place in run()
  caller,    \* runas's own environment: "unset", "text", or "bytes" if not UTF-8
  asked,     \* [env, preserve]: the names given with the two options
  trusted,   \* is ENV_FILE there, root's, and writable by nobody else?
  file,      \* its lines in this case, those that matter to the target
  read,      \* how many of them have been read
  pam,       \* the names PAM has set
  env        \* env: names to values

envVars == <<caller, asked, trusted, file, read, pam, env>>

Scopex == build.backend = "scopex"

(* A line of ENV_FILE for the target: NAME=VALUE, or NAME to keep it. *)
Line == [name : Name, how : {"assign", "keep"}]

(* One that is not UTF-8, or at which the file cannot be read any further. *)
Unreadable == [name |-> "", how |-> "unreadable"]

Entry == Line \cup {Unreadable}

EnvInit ==
  /\ build \in Builds
  /\ caller \in [Name -> {"unset", "text", "bytes"}]
  /\ asked = [env |-> {}, preserve |-> {}]
  /\ trusted = FALSE /\ file = <<>> /\ read = 0 /\ pam = {} /\ env = <<>>

(* HashMap::insert() *)
Insert(names, source) ==
  [n \in DOMAIN env \cup names |-> IF n \in names THEN source ELSE env[n]]

(* entry().or_insert() *)
OrInsert(map, names, source) ==
  [n \in DOMAIN map \cup names |-> IF n \in DOMAIN map THEN map[n] ELSE source]

Readable(names) == {n \in names : caller[n] = "text"}

-----------------------------------------------------------------------------
(* --env NAME=VALUE, at most once *)
SetVariable ==
  /\ pc = "env"
  /\ \E names \in {{}} \cup {{n} : n \in Name} :
       /\ asked' = [asked EXCEPT !.env = names]
       /\ env' = Insert(names, <<"option", 0>>)
  /\ pc' = "preserve"
  /\ UNCHANGED <<build, caller, trusted, file, read, pam>>

(* --preserve-env LIST, which comes second and therefore wins *)
PreserveVariables ==
  /\ pc = "preserve"
  /\ \E names \in SUBSET Name :
       /\ asked' = [asked EXCEPT !.preserve = names]
       /\ env' = Insert(Readable(names), <<"preserved", 0>>)
  /\ pc' = "chdir"
  /\ UNCHANGED <<build, caller, trusted, file, read, pam>>

(* load_overwrite_vars(): no file, a file that cannot be opened, or one that *)
(* is not root's alone are passed over, the last two with a warning.         *)
OpenFile ==
  /\ pc = "file"
  /\ \/ /\ trusted' = TRUE /\ file' \in BoundedSeq(Entry, MaxLines)
        /\ pc' = "lines"
     \/ pc' = "pam" /\ UNCHANGED <<trusted, file>>
  /\ UNCHANGED <<build, caller, asked, read, pam, env>>

(* A seeded fault: a later line replaces an earlier one. *)
EnterLastWins(l) ==
  Insert(IF l.how = "keep" THEN Readable({l.name}) ELSE {l.name},
         <<"file", read + 1>>)

(* A variable that is set already stays; NAME alone is looked up. *)
Enter(l) ==
  OrInsert(env, IF l.how = "keep" THEN Readable({l.name}) ELSE {l.name},
           <<"file", read + 1>>)

(* Comments, malformed lines and lines for other users change nothing. *)
ReadLine(l) ==
  /\ pc = "lines" /\ read < Len(file) /\ file[read + 1] = l
  /\ read' = read + 1
  /\ env' = Enter(l)
  /\ UNCHANGED <<build, pc, caller, asked, trusted, file, pam>>

(* A seeded fault: the line is passed over and the next one read. *)
LineFailsSkipped ==
  /\ pc = "lines" /\ read < Len(file) /\ file[read + 1] = Unreadable
  /\ read' = read + 1
  /\ UNCHANGED <<build, pc, caller, asked, trusted, file, pam, env>>

(* `line?`: nothing more is read, what has been read stays; main() goes on  *)
(* after a warning.                                                         *)
LineFails ==
  /\ pc = "lines" /\ read < Len(file) /\ file[read + 1] = Unreadable
  /\ pc' = "pam"
  /\ UNCHANGED <<build, envVars>>

FileEnds ==
  /\ pc = "lines" /\ read = Len(file)
  /\ pc' = "pam"
  /\ UNCHANGED <<build, envVars>>

(* The variables that auth() has brought from PAM's session modules. *)
AddPam ==
  /\ pc = "pam"
  /\ \E names \in IF Scopex /\ build.pam THEN SUBSET Name ELSE {{}} :
       pam' = names /\ env' = OrInsert(env, names, <<"pam", 0>>)
  /\ pc' = IF Scopex THEN "defaults" ELSE "assemble"
  /\ UNCHANGED <<build, caller, asked, trusted, file, read>>

(* std::env::vars() panics at a variable that is not UTF-8. *)
Panics == \E n \in Name : caller[n] = "bytes"

(* A seeded fault: what runas was called with replaces what was chosen. *)
DefaultsOfCallerFirst ==
  /\ pc = "defaults" /\ ~ Panics
  /\ env' = OrInsert(Insert(Readable(Kept), <<"caller", 0>>),
                     AccountName, <<"account", 0>>)
  /\ pc' = "assemble"
  /\ UNCHANGED <<build, caller, asked, trusted, file, read, pam>>

(* set_environment() *)
Defaults ==
  /\ pc = "defaults" /\ ~ Panics
  /\ env' = OrInsert(OrInsert(env, AccountName, <<"account", 0>>),
                     Readable(Kept), <<"caller", 0>>)
  /\ pc' = "assemble"
  /\ UNCHANGED <<build, caller, asked, trusted, file, read, pam>>

Panic ==
  /\ pc = "defaults" /\ Panics
  /\ pc' = "panicked"
  /\ UNCHANGED <<build, envVars>>

Merge ==
  \/ OpenFile \/ (\E l \in Line : ReadLine(l)) \/ LineFails \/ FileEnds
  \/ AddPam \/ Defaults \/ Panic

-----------------------------------------------------------------------------
Source == {"option", "preserved", "file", "pam", "account", "caller"} \X Nat

EnvTypeOK ==
  /\ build \in Builds
  /\ caller \in [Name -> {"unset", "text", "bytes"}]
  /\ asked \in [env : SUBSET Name, preserve : SUBSET Name]
  /\ trusted \in BOOLEAN
  /\ file \in BoundedSeq(Entry, MaxLines) /\ read \in 0..Len(file)
  /\ pam \subseteq Name
  /\ DOMAIN env \subseteq Name /\ \A n \in DOMAIN env : env[n] \in Source

(* All sources in the order of their precedence. *)
Precedence ==
  << <<"preserved", 0>>, <<"option", 0>> >>
    \o [k \in DOMAIN file |-> <<"file", k>>]
    \o << <<"pam", 0>>, <<"account", 0>>, <<"caller", 0>> >>

(* Does source s have a value for the variable n?  A line of the file that  *)
(* follows one that cannot be read has none.                                *)
Has(s, n) ==
  CASE s[1] = "preserved" -> n \in Readable(asked.preserve)
    [] s[1] = "option"    -> n \in asked.env
    [] s[1] = "file"      -> /\ trusted /\ file[s[2]].name = n
                             /\ file[s[2]].how = "keep" => caller[n] = "text"
                             /\ \A k \in 1..s[2] : file[k] # Unreadable
    [] s[1] = "pam"       -> n \in pam
    [] s[1] = "account"   -> Scopex /\ n \in AccountName
    [] s[1] = "caller"    -> Scopex /\ n \in Readable(Kept)

(***************************************************************************)
(* Options before the file, the file before PAM, PAM before the account,   *)
(* the account before the inherited environment, and within the file the   *)
(* first line: every variable has the value of the first source that has   *)
(* one, and nothing else is set.  A line that cannot be read cuts the file *)
(* in two: the lines before it count, those after it do not.  (README.md,  *)
(* lines 193-195, says otherwise: a file that cannot be read is ignored,   *)
(* and of malformed entries each is skipped.)                              *)
(***************************************************************************)
FirstSourceWins ==
  pc = "assemble" =>
    \A n \in Name :
      \/ n \notin DOMAIN env /\ \A k \in DOMAIN Precedence : ~ Has(Precedence[k], n)
      \/ n \in DOMAIN env /\ \E k \in DOMAIN Precedence :
           /\ env[n] = Precedence[k] /\ Has(Precedence[k], n)
           /\ \A j \in 1..k - 1 : ~ Has(Precedence[j], n)
=============================================================================
