---------------------------- MODULE Launch_proofs ----------------------------
(***************************************************************************)
(* Proofs about run(): for every set of builds, of variables and of those  *)
(* that the account and the caller provide, every number of lines in       *)
(* ENV_FILE and of directories in PATH.                                    *)
(***************************************************************************)
EXTENDS Launch, FiniteSetTheorems, SequenceTheorems, TLAPS

(***************************************************************************)
(* The places of run() by stage: before authenticate() succeeds, while the *)
(* environment is put together, and in exec().                             *)
(***************************************************************************)
BeforeOptions == {"parse", "user", "group", "help", "env"}

Unauthenticated ==
  BeforeOptions \cup {"preserve", "chdir", "directory", "target", "authenticate"}

Merging == {"file", "lines", "pam", "defaults"}

Executing ==
  {"clean", "setgroups", "initgroups", "gid", "uid", "cwd", "execute", "search"}

Place == Unauthenticated \cup Merging \cup {"assemble"} \cup Executing
           \cup {"ended", "panicked"}

-----------------------------------------------------------------------------
(* The credentials of the command: what the first conjuncts of             *)
(* CommandRunsAsTarget ask for, in the order in which they are taken.      *)
Groups == IF Scopex THEN target ELSE "none"
Gid    == IF Scopex /\ group THEN "group" ELSE Become

WithGroups == [Invoked EXCEPT !.groups = Groups]
WithGid    == [WithGroups EXCEPT !.gid = Gid]
Final      == [ruid |-> Become, euid |-> Become, suid |-> "self",
               gid |-> Gid, groups |-> Groups]

(* Each place of exec() has the credentials that the calls before it have  *)
(* taken; up to the first of them they are those runas was called with.    *)
Rights ==
  /\ pc \in Unauthenticated \cup Merging \cup {"assemble", "clean", "setgroups"}
       => cred = Invoked
  /\ pc = "initgroups" => Scopex /\ cred = [Invoked EXCEPT !.groups = "none"]
  /\ pc = "gid" => cred = WithGroups
  /\ pc = "uid" => cred = WithGid
  /\ pc \in {"cwd", "execute", "search"} => cred = Final
  /\ pc \in {"cwd", "search"} => Scopex

(* Nothing has a result before the end, and what comes after authenticate() *)
(* has passed it.                                                           *)
Progress ==
  /\ pc # "ended" => result = "none"
  /\ pc \in Merging \cup {"assemble"} \cup Executing => granted

(* While PATH is searched, no directory that has been tried decided, and    *)
(* permission_denied is what they said.                                     *)
Decides(k) == dirs[k] \in {"executed", "error"}

Searched ==
  /\ pc \notin {"search", "ended"} => dirs = <<>> /\ left = 0 /\ denied = FALSE
  /\ pc = "search" =>
       /\ \A k \in 1..Len(dirs) - left : ~ Decides(k)
       /\ denied <=> \E k \in 1..Len(dirs) - left : dirs[k] = "denied"

(* The variables that steps of the merging have not reached yet are empty.  *)
Unasked ==
  /\ pc \in BeforeOptions => asked.env = {} /\ env = <<>>
  /\ pc \in BeforeOptions \cup {"preserve"} => asked.preserve = {}
  /\ pc \in Unauthenticated \cup {"file"} => file = <<>> /\ ~ trusted
  /\ pc \in Unauthenticated \cup {"file"} => read = 0
  /\ pc = "lines" => trusted /\ \A k \in 1..read : file[k] # Unreadable
  /\ pc \in Unauthenticated \cup {"file", "lines", "pam"} => pam = {}
  /\ pc = "defaults" => Scopex

(* How many of the sources, in the order of their precedence, are merged.   *)
(* The account and the caller come last, when all the others are.           *)
Merged ==
  IF pc = "lines" THEN read + 2
  ELSE Len(file) + IF pc = "assemble" THEN 5 ELSE 3

(* The places in Precedence of the sources that have a value for n.         *)
Providers(n) == {k \in DOMAIN Precedence : Has(Precedence[k], n)}

(* A map has for n what the first provider says, of those up to m.          *)
First(map, n, precedence, providers, m) ==
  \/ n \notin DOMAIN map /\ \A k \in 1..m : k \notin providers
  \/ n \in DOMAIN map /\ \E k \in 1..m :
       /\ map[n] = precedence[k] /\ k \in providers
       /\ \A j \in 1..k - 1 : j \notin providers

FirstSoFar ==
  pc \in Unauthenticated \cup Merging \cup {"assemble"} =>
    \A n \in Name : First(env, n, Precedence, Providers(n), Merged)

(* The words of an argument vector. *)
Arg ==
  Name \cup
  {"/usr/bin/systemd-run", "systemd-run", "run0", "--uid", "--user",
   "0", "user-text", "--gid", "--group", "group-text", "--working-directory",
   "--chdir", "dir", "here", "--same-dir", "--service-type=exec", "--wait", "--shell",
   "--scope", "--setenv", "--", "cmd", "arg", "sh", "-sh"}

(* What systemd-run has been told of when runas is at a place.              *)
UserText == IF user THEN "user-text" ELSE "0"

ToldUser == argv[3] \in {"--uid", "--user"} /\ argv[4] = UserText

ToldGroup == group => Follows(GroupOption, "group-text")

ToldNothing == \A i \in 1..Len(argv) : argv[i] \notin {"--setenv", "--"}

ToldVariables == \A n \in Name : n \in DOMAIN env <=> Follows("--setenv", n)

ToldCommand ==
  command => \E k \in 1..Len(argv) :
               /\ SubSeq(argv, k, Len(argv)) = <<"--", "cmd", "arg">>
               /\ \A j \in 1..k - 1 : argv[j] # "--"

Told ==
  ~ Scopex =>
    /\ argv \in Seq(Arg) /\ Len(argv) >= 4
    /\ ToldUser /\ ToldGroup
    /\ pc \in Unauthenticated \cup Merging \cup {"assemble"} => ToldNothing
    /\ pc \in Executing \/ Executed => ToldVariables /\ ToldCommand

IInv ==
  /\ TypeOK
  /\ Rights /\ Progress /\ CommandRunsAsTarget /\ NothingForbidden
  /\ Searched /\ SearchIsThorough
  /\ Unasked /\ FirstSoFar
  /\ Told

-----------------------------------------------------------------------------
(***************************************************************************)
(* Steps.  Some only change the environment, the others leave it alone.    *)
(***************************************************************************)
EnvironmentStep == SetVariable \/ PreserveVariables \/ Merge

(* --env without a '=' *)
NotASetting ==
  /\ pc = "env" /\ End("usage")
  /\ EnvSame /\ UNCHANGED <<optVars, argv, granted, cred, dirs, left, denied>>

OtherStep ==
  \/ Parse \/ SelectUser \/ SelectGroup \/ Flags \/ NotASetting
  \/ SelectDir \/ StayHere \/ SelectTarget \/ Authenticate \/ Assemble
  \/ Clean \/ SetGroups \/ InitGroups \/ SetGid \/ SetUid \/ ChangeDir
  \/ Execute \/ TryDirectory \/ SearchEnds
  \/ UNCHANGED <<pc, launchVars>>

(* Every step is of one of the two kinds. *)
LEMMA StepKinds ==
  [Next]_vars =>
    \/ EnvironmentStep /\ UNCHANGED launchVars
    \/ OtherStep /\ EnvSame
BY DEF Next, vars, EnvironmentStep, OtherStep, NotASetting, EnvironmentOptions,
  EnvSame, ExecRest, MergeEnvironment, Parse, SelectUser, SelectGroup, Flags,
  SelectDir, StayHere, SelectTarget, Authenticate, Assemble, Clean, Change,
  SetGroups, InitGroups, SetGid, SetUid, ChangeDir, Execute, TryDirectory,
  SearchEnds

(* The build never changes, nor does anything that is read from it. *)
LEMMA SameBuild ==
  [Next]_vars => build' = build /\ Scopex' = Scopex /\ Panics' = Panics
<1> SUFFICES ASSUME [Next]_vars PROVE build' = build /\ caller' = caller
  BY DEF Scopex, Panics
<1>1. CASE EnvironmentStep
  BY <1>1 DEF EnvironmentStep, Merge, SetVariable, PreserveVariables, OpenFile,
    ReadLine, LineFails, FileEnds, AddPam, Defaults, Panic, envVars
<1>2. CASE EnvSame
  BY <1>2 DEF EnvSame, envVars
<1>3. QED
  BY <1>1, <1>2, StepKinds

-----------------------------------------------------------------------------
(***************************************************************************)
(* Types.                                                                  *)
(***************************************************************************)
(* The file is a sequence of no more than MaxLines lines. *)
LEMMA FileIsSequence ==
  ASSUME NEW f \in BoundedSeq(Entry, MaxLines)
  PROVE  /\ f \in Seq(Entry) /\ Len(f) \in Nat /\ DOMAIN f = 1..Len(f)
         /\ \A k \in 1..Len(f) : f[k] \in Entry
BY NamesAssumption DEF BoundedSeq, SeqOf

(* The sources and the map, step by step. *)
LEMMA EnvTypesKept == EnvTypeOK /\ Unasked /\ [Next]_vars => EnvTypeOK'
<1> SUFFICES ASSUME EnvTypeOK, Unasked, [Next]_vars PROVE EnvTypeOK'
  OBVIOUS
<1> USE DEF EnvTypeOK
<1>1. CASE SetVariable
  <2>1. PICK names \in {{}} \cup {{n} : n \in Name} :
          /\ asked' = [asked EXCEPT !.env = names]
          /\ env' = Insert(names, <<"option", 0>>)
    BY <1>1 DEF SetVariable
  <2>2. names \subseteq Name
    BY <2>1
  <2>3. DOMAIN env' \subseteq Name /\ \A n \in DOMAIN env' : env'[n] \in Source
    BY <2>1, <2>2 DEF Insert, Source
  <2>4. QED
    BY <1>1, <2>1, <2>2, <2>3 DEF SetVariable
<1>2. CASE PreserveVariables
  <2>1. PICK names \in SUBSET Name :
          /\ asked' = [asked EXCEPT !.preserve = names]
          /\ env' = Insert(Readable(names), <<"preserved", 0>>)
    BY <1>2 DEF PreserveVariables
  <2>2. DOMAIN env' \subseteq Name /\ \A n \in DOMAIN env' : env'[n] \in Source
    BY <2>1 DEF Insert, Readable, Source
  <2>3. QED
    BY <1>2, <2>1, <2>2 DEF PreserveVariables
<1>3. CASE OpenFile
  <2>1. CASE file' \in BoundedSeq(Entry, MaxLines) /\ read' = read
    <3>1. pc = "file" /\ read = 0 /\ Len(file') \in Nat
      BY <1>3, <2>1, FileIsSequence DEF OpenFile, Unasked
    <3>2. read' \in 0..Len(file')
      BY <2>1, <3>1
    <3>3. trusted' \in BOOLEAN
      BY <1>3 DEF OpenFile
    <3>4. QED
      BY <1>3, <2>1, <3>2, <3>3 DEF OpenFile
  <2>2. QED
    BY <1>3, <2>1 DEF OpenFile
<1>4. ASSUME NEW l \in Line, ReadLine(l) PROVE EnvTypeOK'
  <2>1. DOMAIN env' \subseteq Name /\ \A n \in DOMAIN env' : env'[n] \in Source
    <3>1. l.name \in Name /\ read + 1 \in Nat
      BY FileIsSequence DEF Line
    <3>2. <<"file", read + 1>> \in Source
      BY <3>1 DEF Source
    <3>3. QED
      BY <1>4, <3>1, <3>2 DEF ReadLine, Enter, OrInsert, Readable
  <2>2. file' = file /\ read' \in 0..Len(file)
    BY <1>4, FileIsSequence DEF ReadLine
  <2>3. QED
    BY <1>4, <2>1, <2>2 DEF ReadLine
<1>5. CASE AddPam
  <2>1. PICK names \in SUBSET Name :
          pam' = names /\ env' = OrInsert(env, names, <<"pam", 0>>)
    BY <1>5 DEF AddPam
  <2>2. DOMAIN env' \subseteq Name /\ \A n \in DOMAIN env' : env'[n] \in Source
    BY <2>1 DEF OrInsert, Source
  <2>3. QED
    BY <1>5, <2>1, <2>2 DEF AddPam
<1>6. CASE Defaults
  <2>1. DOMAIN env' \subseteq Name /\ \A n \in DOMAIN env' : env'[n] \in Source
    BY <1>6, NamesAssumption DEF Defaults, OrInsert, Readable, Source
  <2>2. QED
    BY <1>6, <2>1 DEF Defaults
<1>7. CASE UNCHANGED <<build, envVars>>
  BY <1>7 DEF envVars
<1>8. QED
  BY <1>1, <1>2, <1>3, <1>4, <1>5, <1>6, <1>7, StepKinds
    DEF EnvironmentStep, Merge, LineFails, FileEnds, Panic, EnvSame

(* The parts of TypeOK. *)
OptionTypes ==
  /\ special \subseteq {"shell", "help", "version"} /\ command \in BOOLEAN
  /\ user \in BOOLEAN /\ target \in {"root", "other"} /\ group \in BOOLEAN
  /\ granted \in BOOLEAN

Credentials ==
  [ruid : {"self", "root", "other"}, euid : {"root", "other"},
   suid : {"root", "self"}, gid : {"self", "root", "other", "group"},
   groups : {"self", "none", "root", "other"}]

SearchTypes ==
  /\ dirs \in BoundedSeq(Outcome, MaxDirs) /\ left \in 0..Len(dirs)
  /\ denied \in BOOLEAN

Result ==
  {"none", "usage", "not valid", "no account", "refused",
   "executed", "error", "EPERM", "EACCES", "ENOENT"}

(* They are all of it. *)
LEMMA TypeParts ==
  TypeOK <=> /\ EnvTypeOK /\ pc \in Place /\ OptionTypes
             /\ cred \in Credentials /\ SearchTypes /\ result \in Result
BY DEF TypeOK, Place, Unauthenticated, BeforeOptions, Merging, Executing,
  OptionTypes, Credentials, SearchTypes, Result

(* Each part is kept by every step; those that others need come first. *)
LEMMA OptionTypesKept == OptionTypes /\ [Next]_vars => OptionTypes'
<1> SUFFICES ASSUME OptionTypes, [Next]_vars PROVE OptionTypes'
  OBVIOUS
<1> USE DEF OptionTypes, optVars
<1>1. CASE UNCHANGED <<optVars, granted>>
  BY <1>1
<1>2. CASE SelectUser
  BY <1>2 DEF SelectUser
<1>3. CASE SelectGroup
  BY <1>3 DEF SelectGroup
<1>4. CASE Authenticate
  BY <1>4 DEF Authenticate
<1>5. QED
  BY <1>1, <1>2, <1>3, <1>4 DEF Next, vars, launchVars, ExecRest,
    EnvironmentOptions, MergeEnvironment, Parse, Flags, SelectDir, StayHere,
    SelectTarget, Assemble, Clean, Change, SetGroups, InitGroups, SetGid,
    SetUid, ChangeDir, Execute, TryDirectory, SearchEnds

(* After(p) is the place that follows p in CredentialOrder. *)
LEMMA AfterEach ==
  /\ After("clean") = "setgroups"
  /\ After("setgroups") = IF Scopex THEN "initgroups" ELSE "gid"
  /\ Scopex => After("initgroups") = "gid"
  /\ After("gid") = "uid"
  /\ After("uid") = IF Scopex THEN "cwd" ELSE "execute"
BY DEF After, SelectInSeq, CredentialOrder, Min

(* exec() of a back end makes no initgroups() call: it is never there. *)
LEMMA PlacesKept == pc \in Place /\ Rights /\ [Next]_vars => pc' \in Place
<1> SUFFICES ASSUME pc \in Place, Rights, [Next]_vars PROVE pc' \in Place
  OBVIOUS
<1> USE DEF Go, End
<1> DEFINE All == {"parse", "user", "group", "help", "env", "preserve", "chdir",
             "directory", "target", "authenticate", "file", "lines", "pam",
             "defaults", "assemble", "clean", "setgroups", "initgroups",
             "gid", "uid", "cwd", "execute", "search", "ended", "panicked"}
<1>1. Place = All
  BY DEF Place, Unauthenticated, BeforeOptions, Merging, Executing
<1>2. CASE EnvironmentStep
  BY <1>1, <1>2 DEF EnvironmentStep, Merge, SetVariable, PreserveVariables,
    OpenFile, ReadLine, LineFails, FileEnds, AddPam, Defaults, Panic, envVars
<1>3. CASE Clean \/ SetGroups \/ InitGroups \/ SetGid \/ SetUid
  BY <1>1, <1>3, AfterEach DEF Clean, Change, SetGroups, InitGroups, SetGid,
    SetUid, Rights
<1>4. CASE OtherStep
  BY <1>1, <1>3, <1>4 DEF OtherStep, NotASetting, Parse, SelectUser,
    SelectGroup, Flags, SelectDir, StayHere, SelectTarget, Authenticate,
    Assemble, ChangeDir, Execute, TryDirectory, SearchEnds
<1>5. QED
  BY <1>2, <1>4, StepKinds

LEMMA CredTypesKept ==
  cred \in Credentials /\ OptionTypes /\ [Next]_vars => cred' \in Credentials
<1> SUFFICES ASSUME cred \in Credentials, OptionTypes, [Next]_vars
             PROVE  cred' \in Credentials
  OBVIOUS
<1> USE DEF Credentials, OptionTypes, Become
<1>1. CASE UNCHANGED cred
  BY <1>1
<1>2. CASE SetGroups
  BY <1>2 DEF SetGroups, Change
<1>3. CASE InitGroups
  BY <1>3 DEF InitGroups, Change
<1>4. CASE SetGid
  BY <1>4 DEF SetGid, Change
<1>5. CASE SetUid
  BY <1>5 DEF SetUid, Change
<1>6. QED
  BY <1>1, <1>2, <1>3, <1>4, <1>5 DEF Next, vars, launchVars, ExecRest,
    EnvironmentOptions, MergeEnvironment, Parse, SelectUser, SelectGroup,
    Flags, SelectDir, StayHere, SelectTarget, Authenticate, Assemble, Clean,
    ChangeDir, Execute, TryDirectory, SearchEnds

(* What PATH lists is a sequence of no more than MaxDirs directories. *)
LEMMA DirsAreSequence ==
  ASSUME NEW d \in BoundedSeq(Outcome, MaxDirs)
  PROVE  d \in Seq(Outcome) /\ Len(d) \in Nat /\ DOMAIN d = 1..Len(d)
BY MaxDirsAssumption DEF BoundedSeq, SeqOf

(* The directory that is tried next. *)
LEMMA TriedIsNext ==
  ASSUME SearchTypes, left > 0
  PROVE  /\ 1 + Len(dirs) - left \in 1..Len(dirs)
         /\ Tried \in Outcome
<1>1. dirs \in Seq(Outcome) /\ Len(dirs) \in Nat /\ DOMAIN dirs = 1..Len(dirs)
  BY DirsAreSequence DEF SearchTypes
<1>2. 1 + Len(dirs) - left \in 1..Len(dirs)
  BY <1>1 DEF SearchTypes
<1>3. QED
  BY <1>1, <1>2 DEF Tried

LEMMA SearchTypesKept == SearchTypes /\ [Next]_vars => SearchTypes'
<1> SUFFICES ASSUME SearchTypes, [Next]_vars PROVE SearchTypes'
  OBVIOUS
<1>1. CASE UNCHANGED <<dirs, left, denied>>
  BY <1>1 DEF SearchTypes
<1>2. CASE ChangeDir
  <2>1. CASE dirs' \in BoundedSeq(Outcome, MaxDirs) /\ left' = Len(dirs')
    <3>1. Len(dirs') \in Nat
      BY <2>1, DirsAreSequence
    <3>2. QED
      BY <1>2, <2>1, <3>1 DEF ChangeDir, SearchTypes
  <2>2. QED
    BY <1>1, <1>2, <2>1 DEF ChangeDir
<1>3. CASE TryDirectory
  <2>1. Len(dirs) \in Nat
    BY DirsAreSequence DEF SearchTypes
  <2>2. QED
    BY <1>3, <2>1 DEF TryDirectory, SearchTypes
<1>4. QED
  BY <1>1, <1>2, <1>3 DEF Next, vars, launchVars, ExecRest,
    EnvironmentOptions, MergeEnvironment, Parse, SelectUser, SelectGroup,
    Flags, SelectDir, StayHere, SelectTarget, Authenticate, Assemble, Clean,
    Change, SetGroups, InitGroups, SetGid, SetUid, Execute, SearchEnds

LEMMA ResultsKept ==
  result \in Result /\ SearchTypes /\ [Next]_vars => result' \in Result
<1> SUFFICES ASSUME result \in Result, SearchTypes, [Next]_vars
             PROVE  result' \in Result
  OBVIOUS
<1> USE DEF Result, Go, End
<1>1. CASE UNCHANGED launchVars
  BY <1>1 DEF launchVars
<1>2. CASE TryDirectory
  BY <1>2, TriedIsNext DEF TryDirectory, Outcome
<1>3. CASE OtherStep
  BY <1>1, <1>2, <1>3 DEF OtherStep, NotASetting, Parse, SelectUser,
    SelectGroup, Flags, SelectDir, StayHere, SelectTarget, Authenticate,
    Assemble, Clean, Change, SetGroups, InitGroups, SetGid, SetUid, ChangeDir,
    Execute, SearchEnds
<1>4. QED
  BY <1>1, <1>3, StepKinds

LEMMA TypesKept == TypeOK /\ Rights /\ Unasked /\ [Next]_vars => TypeOK'
<1> SUFFICES ASSUME TypeOK, Rights, Unasked, [Next]_vars PROVE TypeOK'
  OBVIOUS
<1>1. /\ EnvTypeOK /\ pc \in Place /\ OptionTypes
      /\ cred \in Credentials /\ SearchTypes /\ result \in Result
  BY TypeParts
<1>2. /\ EnvTypeOK' /\ pc' \in Place /\ OptionTypes'
      /\ cred' \in Credentials /\ SearchTypes' /\ result' \in Result
  BY <1>1, EnvTypesKept, PlacesKept, OptionTypesKept, CredTypesKept,
    SearchTypesKept, ResultsKept
<1>3. (/\ EnvTypeOK /\ pc \in Place /\ OptionTypes
       /\ cred \in Credentials /\ SearchTypes /\ result \in Result)' <=> TypeOK'
  BY TypeParts, PTL
<1>4. QED
  BY <1>2, <1>3

-----------------------------------------------------------------------------
(***************************************************************************)
(* exec() as the target.                                                   *)
(***************************************************************************)
(* Every credential call finds and leaves the credentials of its place. *)
LEMMA RightsKept == Rights /\ [Next]_vars => Rights'
<1> SUFFICES ASSUME Rights, [Next]_vars PROVE Rights'
  OBVIOUS
<1>s. Scopex' = Scopex
  BY SameBuild
<1> USE DEF Go, End, Unauthenticated, BeforeOptions, Merging
<1>1. CASE EnvironmentStep /\ UNCHANGED launchVars
  BY <1>1, <1>s DEF EnvironmentStep, Merge, SetVariable, PreserveVariables,
    OpenFile, ReadLine, LineFails, FileEnds, AddPam, Defaults, Panic, envVars,
    Rights, launchVars, optVars, WithGroups, WithGid, Final, Groups, Gid, Become
<1>2. CASE Parse \/ SelectUser \/ SelectGroup \/ Flags \/ SelectDir
           \/ StayHere \/ SelectTarget \/ Authenticate \/ Assemble
  BY <1>2 DEF Rights, optVars, Parse, SelectUser, SelectGroup, Flags,
    SelectDir, StayHere, SelectTarget, Authenticate, Assemble
<1>3. CASE Clean
  BY <1>3, AfterEach DEF Clean, Rights, launchVars
<1>4. CASE SetGroups
  <2>1. pc = "setgroups" /\ cred = Invoked
    BY <1>4 DEF SetGroups, Change, Rights
  <2>2. CASE cred' = [cred EXCEPT !.groups = "none"] /\ Go(After("setgroups"))
    <3>1. cred' = [Invoked EXCEPT !.groups = "none"]
      BY <2>1, <2>2
    <3>2. CASE Scopex
      BY <2>2, <3>1, <3>2, <1>s, AfterEach DEF Rights
    <3>3. CASE ~ Scopex
      BY <2>2, <3>1, <3>3, <1>s, AfterEach DEF Rights, WithGroups, Groups
    <3>4. QED
      BY <3>2, <3>3
  <2>3. CASE pc' = "ended"
    BY <2>3 DEF Rights
  <2>4. QED
    BY <1>4, <2>2, <2>3 DEF SetGroups, Change
<1>5. CASE InitGroups
  BY <1>5, <1>s, AfterEach DEF InitGroups, Change, Rights, WithGroups, Groups,
    Invoked, ExecRest, optVars
<1>6. CASE SetGid
  BY <1>6, <1>s, AfterEach DEF SetGid, Change, Rights, WithGroups, WithGid,
    Groups, Gid, Become, Invoked, ExecRest, optVars
<1>7. CASE SetUid
  BY <1>7, <1>s, AfterEach DEF SetUid, Change, Rights, WithGroups, WithGid,
    Groups, Gid, Become, Invoked, Final, ExecRest, optVars
<1>8. CASE ChangeDir \/ Execute \/ TryDirectory \/ SearchEnds
  BY <1>8, <1>s DEF ChangeDir, Execute, TryDirectory, SearchEnds, Rights,
    Final, Groups, Gid, Become, ExecRest, optVars
<1>9. CASE UNCHANGED <<pc, launchVars>>
  BY <1>9, <1>s DEF Rights, launchVars, optVars, WithGroups, WithGid, Final,
    Groups, Gid, Become
<1>10. CASE pc' = "ended"
  BY <1>10 DEF Rights
<1>11. QED
  BY <1>1, <1>2, <1>3, <1>4, <1>5, <1>6, <1>7, <1>8, <1>9, <1>10, StepKinds
    DEF OtherStep, NotASetting

(* There is no way to a later place but through authenticate(). *)
LEMMA ProgressKept == Progress /\ Rights /\ [Next]_vars => Progress'
<1> SUFFICES ASSUME Progress, Rights, [Next]_vars PROVE Progress'
  OBVIOUS
<1> USE DEF Go, End, Unauthenticated, BeforeOptions, Merging, Executing,
  Progress
<1>1. CASE EnvironmentStep /\ UNCHANGED launchVars
  BY <1>1 DEF EnvironmentStep, Merge, SetVariable, PreserveVariables,
    OpenFile, ReadLine, LineFails, FileEnds, AddPam, Defaults, Panic, launchVars
<1>2. CASE Parse \/ SelectUser \/ SelectGroup \/ Flags \/ SelectDir
           \/ StayHere \/ SelectTarget \/ Authenticate \/ Assemble
  BY <1>2 DEF Parse, SelectUser, SelectGroup, Flags,
    SelectDir, StayHere, SelectTarget, Authenticate, Assemble
<1>3. CASE Clean \/ SetGroups \/ InitGroups \/ SetGid \/ SetUid
  BY <1>3, AfterEach DEF Clean, SetGroups, InitGroups, SetGid, SetUid, Change,
    Rights, launchVars, ExecRest
<1>4. CASE ChangeDir \/ Execute \/ TryDirectory \/ SearchEnds
  BY <1>4 DEF ChangeDir, Execute, TryDirectory, SearchEnds, ExecRest
<1>5. CASE UNCHANGED <<pc, launchVars>>
  BY <1>5 DEF launchVars
<1>6. CASE pc' = "ended"
  BY <1>6
<1>7. QED
  BY <1>1, <1>2, <1>3, <1>4, <1>5, <1>6, StepKinds DEF OtherStep, NotASetting

(* A process with the effective user root is refused no credential call,   *)
(* and it is root until the last of them.                                  *)
LEMMA NothingForbiddenKept ==
  Rights /\ SearchTypes /\ NothingForbidden /\ [Next]_vars
    => NothingForbidden'
<1> SUFFICES ASSUME Rights, SearchTypes, NothingForbidden, [Next]_vars
             PROVE  NothingForbidden'
  OBVIOUS
<1> USE DEF NothingForbidden, Go, End
<1>1. CASE SetGroups \/ InitGroups \/ SetGid \/ SetUid
  <2>1. cred.euid = "root"
    <3>1. WithGroups.euid = "root" /\ WithGid.euid = "root"
      BY DEF WithGroups, WithGid, Invoked
    <3>2. QED
      BY <1>1, <3>1 DEF SetGroups, InitGroups, SetGid, SetUid, Change, Rights,
        Invoked
  <2>2. QED
    BY <1>1, <2>1 DEF SetGroups, InitGroups, SetGid, SetUid, Change
<1>2. CASE TryDirectory
  BY <1>2, TriedIsNext DEF TryDirectory, Outcome
<1>3. CASE UNCHANGED launchVars
  BY <1>3 DEF launchVars
<1>4. CASE OtherStep
  BY <1>1, <1>2, <1>3, <1>4 DEF OtherStep, NotASetting, Parse, SelectUser,
    SelectGroup, Flags, SelectDir, StayHere, SelectTarget, Authenticate,
    Assemble, Clean, ChangeDir, Execute, SearchEnds
<1>5. QED
  BY <1>3, <1>4, StepKinds

(* The last place of exec() has exactly the credentials asked for. *)
LEMMA CommandRunsAsTargetKept ==
  Rights /\ Progress /\ CommandRunsAsTarget /\ [Next]_vars
    => CommandRunsAsTarget'
<1> SUFFICES ASSUME Rights, Progress, CommandRunsAsTarget, [Next]_vars,
                    Executed'
             PROVE  CommandRunsAsTarget'
  BY DEF CommandRunsAsTarget
<1>s. Scopex' = Scopex
  BY SameBuild
<1> USE DEF Go, End, Executed
<1>1. CASE Execute \/ TryDirectory \/ SearchEnds
  BY <1>1, <1>s DEF Execute, TryDirectory, SearchEnds, ExecRest, optVars,
    Rights, Progress, Executing, Final, Groups, Gid, Become,
    CommandRunsAsTarget
<1>2. CASE UNCHANGED <<optVars, granted, cred, result>>
  BY <1>2, <1>s DEF CommandRunsAsTarget, optVars, Become
<1>3. CASE result' = result /\ pc # "ended"
  BY <1>3 DEF Progress
<1>4. CASE UNCHANGED launchVars
  BY <1>2, <1>4 DEF launchVars
<1>5. CASE OtherStep
  BY <1>1, <1>3, <1>4, <1>5 DEF OtherStep, NotASetting, Parse, SelectUser,
    SelectGroup, Flags, SelectDir, StayHere, SelectTarget, Authenticate,
    Assemble, Clean, Change, SetGroups, InitGroups, SetGid, SetUid, ChangeDir
<1>6. QED
  BY <1>4, <1>5, StepKinds

-----------------------------------------------------------------------------
(***************************************************************************)
(* The search through PATH.                                                *)
(***************************************************************************)
SearchInv == Searched /\ SearchIsThorough

(* A step outside the search, and not into it, leaves it as it is.         *)
LEMMA SearchUntouched ==
  ASSUME Searched, pc \notin {"search", "ended"}, pc' # "search",
         UNCHANGED <<dirs, left, denied>>
  PROVE  SearchInv'
BY DEF SearchInv, Searched, SearchIsThorough

(* The search begins with nothing tried, *)
LEMMA SearchBegins == SearchTypes /\ Searched /\ ChangeDir => SearchInv'
<1> SUFFICES ASSUME SearchTypes, Searched, ChangeDir PROVE SearchInv'
  OBVIOUS
<1>1. CASE pc' = "search" /\ dirs' \in BoundedSeq(Outcome, MaxDirs)
           /\ left' = Len(dirs') /\ UNCHANGED denied
  <2>1. Len(dirs') - left' = 0 /\ 1..0 = {}
    BY <1>1, DirsAreSequence
  <2>2. ~ denied
    BY DEF ChangeDir, Searched
  <2>3. QED
    BY <1>1, <2>1, <2>2 DEF SearchInv, Searched, SearchIsThorough
<1>2. CASE pc' # "search" /\ UNCHANGED <<dirs, left, denied>>
  BY <1>2, SearchUntouched DEF ChangeDir
<1>3. QED
  BY <1>1, <1>2 DEF ChangeDir, Go, End

(* goes on after a directory that did not decide and ends with one that *)
(* did,                                                                 *)
LEMMA SearchGoesOn == SearchTypes /\ Searched /\ TryDirectory => SearchInv'
<1> SUFFICES ASSUME SearchTypes, Searched, TryDirectory PROVE SearchInv'
  OBVIOUS
<1> DEFINE k == 1 + Len(dirs) - left
<1>1. /\ pc = "search" /\ left > 0 /\ left' = left - 1 /\ dirs' = dirs
      /\ denied' = (denied \/ dirs[k] = "denied")
      /\ IF dirs[k] \in {"missing", "denied"} THEN Go(pc) ELSE End(dirs[k])
  BY DEF TryDirectory, Tried
<1>2. /\ Len(dirs) \in Nat /\ DOMAIN dirs = 1..Len(dirs)
      /\ left \in 0..Len(dirs) /\ denied \in BOOLEAN
  BY DirsAreSequence DEF SearchTypes
<1>3. k \in 1..Len(dirs) /\ dirs[k] \in Outcome
  BY <1>1, TriedIsNext DEF Tried
<1>4. /\ Len(dirs) - left = k - 1
      /\ Len(dirs') - left' = k
      /\ 1..k = 1..k - 1 \cup {k}
  BY <1>1, <1>2, <1>3
<1>5. /\ \A j \in 1..k - 1 : ~ Decides(j)
      /\ denied <=> \E j \in 1..k - 1 : dirs[j] = "denied"
  BY <1>1, <1>4 DEF Searched
<1> HIDE DEF k
<1>6. CASE dirs[k] \in {"missing", "denied"}
  <2>1. pc' = "search"
    BY <1>1, <1>6 DEF Go
  <2>2. \A j \in 1..k : ~ Decides(j)'
    BY <1>1, <1>4, <1>5, <1>6 DEF Decides
  <2>3. denied' <=> \E j \in 1..k : dirs'[j] = "denied"
    BY <1>1, <1>2, <1>4, <1>5
  <2>4. QED
    BY <2>1, <2>2, <2>3, <1>4 DEF SearchInv, Searched, SearchIsThorough
<1>7. CASE dirs[k] \in {"executed", "error"}
  <2>1. pc' = "ended" /\ result' = dirs[k]
    BY <1>1, <1>7 DEF End
  <2>2. \A j \in 1..k - 1 : dirs'[j] \notin {"executed", "error"}
    BY <1>1, <1>5 DEF Decides
  <2>3. QED
    BY <1>1, <1>2, <1>3, <1>7, <2>1, <2>2 DEF SearchInv, Searched,
      SearchIsThorough
<1>8. QED
  BY <1>3, <1>6, <1>7 DEF Outcome

(* or ends when there is none left. *)
LEMMA SearchFails == SearchTypes /\ Searched /\ SearchEnds => SearchInv'
<1> SUFFICES ASSUME SearchTypes, Searched, SearchEnds PROVE SearchInv'
  OBVIOUS
<1>1. /\ pc = "search" /\ left = 0 /\ dirs' = dirs /\ pc' = "ended"
      /\ result' = IF denied THEN "EACCES" ELSE "ENOENT"
  BY DEF SearchEnds, End
<1>2. Len(dirs) \in Nat /\ DOMAIN dirs = 1..Len(dirs)
  BY DirsAreSequence DEF SearchTypes
<1>3. Len(dirs) - left = Len(dirs)
  BY <1>1, <1>2
<1>4. /\ \A j \in DOMAIN dirs : dirs[j] \notin {"executed", "error"}
      /\ denied <=> Contains(dirs, "denied")
  BY <1>1, <1>2, <1>3 DEF Searched, Decides, Contains
<1>5. QED
  BY <1>1, <1>4 DEF SearchInv, Searched, SearchIsThorough, Contains

(* No other step touches it. *)
LEMMA SearchKept ==
  SearchTypes /\ Rights /\ SearchInv /\ [Next]_vars => SearchInv'
<1> SUFFICES ASSUME SearchTypes, Rights, SearchInv, [Next]_vars PROVE SearchInv'
  OBVIOUS
<1>s. Searched
  BY DEF SearchInv
<1> USE DEF Go, End
<1>1. CASE EnvironmentStep /\ UNCHANGED launchVars
  <2>1. pc \notin {"search", "ended"} /\ pc' # "search"
    BY <1>1 DEF EnvironmentStep, Merge, SetVariable, PreserveVariables,
      OpenFile, ReadLine, LineFails, FileEnds, AddPam, Defaults, Panic
  <2>2. QED
    BY <1>1, <1>s, <2>1, SearchUntouched DEF launchVars
<1>2. CASE Parse \/ SelectUser \/ SelectGroup \/ Flags \/ SelectDir
           \/ StayHere \/ SelectTarget \/ Authenticate \/ Assemble \/ Execute
  BY <1>2, <1>s, SearchUntouched DEF Parse, SelectUser, SelectGroup, Flags,
    SelectDir, StayHere, SelectTarget, Authenticate, Assemble, Execute
<1>3. CASE pc = "env" /\ pc' = "ended" /\ UNCHANGED <<dirs, left, denied>>
  BY <1>3, <1>s, SearchUntouched
<1>4. CASE Clean \/ SetGroups \/ InitGroups \/ SetGid \/ SetUid
  BY <1>4, <1>s, SearchUntouched, AfterEach DEF Clean, SetGroups, InitGroups,
    SetGid, SetUid, Change, Rights, launchVars
<1>5. CASE ChangeDir \/ TryDirectory \/ SearchEnds
  BY <1>5, <1>s, SearchBegins, SearchGoesOn, SearchFails
<1>6. CASE UNCHANGED <<pc, launchVars>>
  BY <1>6 DEF launchVars, SearchInv, Searched, SearchIsThorough, Decides,
    Contains
<1>7. QED
  BY <1>1, <1>2, <1>3, <1>4, <1>5, <1>6
    DEF Next, vars, EnvironmentOptions, MergeEnvironment, EnvironmentStep

-----------------------------------------------------------------------------
(***************************************************************************)
(* The environment.                                                        *)
(***************************************************************************)
(* The lines of the file, of which some have been read. *)
LEMMA LinesAreSequence ==
  ASSUME EnvTypeOK
  PROVE  /\ Len(file) \in Nat /\ DOMAIN file = 1..Len(file)
         /\ \A k \in DOMAIN file : file[k] \in Entry
         /\ read \in 0..Len(file) /\ read \in Nat
<1>1. file \in BoundedSeq(Entry, MaxLines) /\ read \in 0..Len(file)
  BY DEF EnvTypeOK
<1>2. QED
  BY <1>1, FileIsSequence

(* The sources, one by one. *)
SourceList ==
  /\ DOMAIN Precedence = 1..Len(file) + 5
  /\ Precedence[1] = <<"preserved", 0>>
  /\ Precedence[2] = <<"option", 0>>
  /\ \A k \in 1..Len(file) : Precedence[k + 2] = <<"file", k>>
  /\ Precedence[Len(file) + 3] = <<"pam", 0>>
  /\ Precedence[Len(file) + 4] = <<"account", 0>>
  /\ Precedence[Len(file) + 5] = <<"caller", 0>>

LEMMA PrecedenceAt == EnvTypeOK => SourceList
<1> SUFFICES ASSUME EnvTypeOK PROVE SourceList
  OBVIOUS
<1> DEFINE A == << <<"preserved", 0>>, <<"option", 0>> >>
           B == [k \in DOMAIN file |-> <<"file", k>>]
           C == << <<"pam", 0>>, <<"account", 0>>, <<"caller", 0>> >>
           L == Len(file)
<1>1. L \in Nat /\ DOMAIN file = 1..L
  BY LinesAreSequence
<1>2. A \in Seq(Source) /\ Len(A) = 2 /\ A[1] = <<"preserved", 0>>
        /\ A[2] = <<"option", 0>>
  BY DEF Source
<1>3. C \in Seq(Source) /\ Len(C) = 3 /\ C[1] = <<"pam", 0>>
        /\ C[2] = <<"account", 0>> /\ C[3] = <<"caller", 0>>
  BY DEF Source
<1>4. B \in Seq(Source) /\ Len(B) = L /\ \A k \in 1..L : B[k] = <<"file", k>>
  <2>1. B \in [1..L -> Source]
    BY <1>1 DEF Source
  <2>2. QED
    BY <1>1, <2>1
<1>5. Precedence = (A \o B) \o C
  BY DEF Precedence
<1> HIDE DEF A, B, C, L
<1>6. /\ A \o B \in Seq(Source) /\ Len(A \o B) = L + 2
      /\ \A i \in 1..L + 2 : (A \o B)[i] = IF i <= 2 THEN A[i] ELSE B[i - 2]
  <2>1. /\ A \o B \in Seq(Source) /\ Len(A \o B) = Len(A) + Len(B)
        /\ \A i \in 1..Len(A) + Len(B) :
             (A \o B)[i] = IF i <= Len(A) THEN A[i] ELSE B[i - Len(A)]
    BY <1>2, <1>4, ConcatProperties
  <2>2. Len(A) + Len(B) = L + 2
    BY <1>1, <1>2, <1>4
  <2>3. QED
    BY <1>2, <2>1, <2>2
<1>7. /\ Precedence \in Seq(Source) /\ Len(Precedence) = L + 5
      /\ \A i \in 1..L + 5 :
           Precedence[i] = IF i <= L + 2 THEN (A \o B)[i] ELSE C[i - (L + 2)]
  <2> DEFINE AB == A \o B
  <2> HIDE DEF AB
  <2>1. AB \in Seq(Source) /\ Len(AB) = L + 2 /\ Precedence = AB \o C
    BY <1>5, <1>6 DEF AB
  <2>2. /\ AB \o C \in Seq(Source) /\ Len(AB \o C) = Len(AB) + Len(C)
        /\ \A i \in 1..Len(AB) + Len(C) :
             (AB \o C)[i] = IF i <= Len(AB) THEN AB[i] ELSE C[i - Len(AB)]
    BY <1>3, <2>1, ConcatProperties
  <2>3. Len(AB) + Len(C) = L + 5
    BY <1>1, <1>3, <2>1
  <2>4. QED
    BY <2>1, <2>2, <2>3 DEF AB
<1>8. /\ Precedence[1] = A[1] /\ Precedence[2] = A[2]
      /\ \A k \in 1..L : Precedence[k + 2] = B[k]
      /\ Precedence[L + 3] = C[1] /\ Precedence[L + 4] = C[2]
      /\ Precedence[L + 5] = C[3]
  <2>1. Precedence[1] = A[1] /\ Precedence[2] = A[2]
    <3>1. ASSUME NEW i \in {1, 2} PROVE Precedence[i] = A[i]
      <4>1. i \in 1..L + 2 /\ i \in 1..L + 5 /\ i <= L + 2 /\ i <= 2
        BY <1>1
      <4>2. Precedence[i] = (A \o B)[i]
        BY <1>7, <4>1
      <4>3. (A \o B)[i] = A[i]
        BY <1>6, <4>1
      <4>4. QED
        BY <4>2, <4>3
    <3>2. QED
      BY <3>1
  <2>2. ASSUME NEW k \in 1..L PROVE Precedence[k + 2] = B[k]
    <3>1. /\ k + 2 \in 1..L + 2 /\ k + 2 \in 1..L + 5 /\ k + 2 <= L + 2
          /\ ~ (k + 2 <= 2) /\ k + 2 - 2 = k
      BY <1>1
    <3>2. Precedence[k + 2] = (A \o B)[k + 2]
      BY <1>7, <3>1
    <3>3. (A \o B)[k + 2] = B[k + 2 - 2]
      BY <1>6, <3>1
    <3>4. QED
      BY <3>1, <3>2, <3>3
  <2>3. Precedence[L + 3] = C[1] /\ Precedence[L + 4] = C[2]
          /\ Precedence[L + 5] = C[3]
    BY <1>1, <1>7
  <2>4. QED
    BY <2>1, <2>2, <2>3
<1>9. DOMAIN Precedence = 1..L + 5
  BY <1>7
<1>10. QED
  BY <1>2, <1>3, <1>4, <1>8, <1>9 DEF L, SourceList

(* Who provides a variable. *)
ProviderList(n) ==
  /\ 1 \in Providers(n) <=> n \in Readable(asked.preserve)
  /\ 2 \in Providers(n) <=> n \in asked.env
  /\ \A k \in 1..Len(file) :
       k + 2 \in Providers(n)
         <=> /\ trusted /\ file[k].name = n
             /\ file[k].how = "keep" => caller[n] = "text"
             /\ \A j \in 1..k : file[j] # Unreadable
  /\ Len(file) + 3 \in Providers(n) <=> n \in pam
  /\ Len(file) + 4 \in Providers(n) <=> Scopex /\ n \in AccountName
  /\ Len(file) + 5 \in Providers(n) <=> Scopex /\ n \in Readable(Kept)

Provided == \A n \in Name : ProviderList(n)

LEMMA ProvidersAt == EnvTypeOK => Provided
<1> SUFFICES ASSUME EnvTypeOK, NEW n \in Name PROVE ProviderList(n)
  BY DEF Provided
<1>1. Has(<<"preserved", 0>>, n) <=> n \in Readable(asked.preserve)
  BY DEF Has
<1>2. Has(<<"option", 0>>, n) <=> n \in asked.env
  BY DEF Has
<1>3. ASSUME NEW k \in 1..Len(file)
      PROVE  Has(<<"file", k>>, n)
               <=> /\ trusted /\ file[k].name = n
                   /\ file[k].how = "keep" => caller[n] = "text"
                   /\ \A j \in 1..k : file[j] # Unreadable
  BY DEF Has
<1>4. Has(<<"pam", 0>>, n) <=> n \in pam
  BY DEF Has
<1>5. Has(<<"account", 0>>, n) <=> Scopex /\ n \in AccountName
  BY DEF Has
<1>6. Has(<<"caller", 0>>, n) <=> Scopex /\ n \in Readable(Kept)
  BY DEF Has
<1>7. ASSUME NEW k
      PROVE  k \in Providers(n)
               <=> k \in 1..Len(file) + 5 /\ Has(Precedence[k], n)
  BY PrecedenceAt DEF Providers, SourceList
<1>8. /\ Len(file) \in Nat
      /\ \A k \in 1..Len(file) : k + 2 \in 1..Len(file) + 5
      /\ {1, 2, Len(file) + 3, Len(file) + 4, Len(file) + 5}
           \subseteq 1..Len(file) + 5
  BY LinesAreSequence
<1>9. QED
  BY <1>1, <1>2, <1>3, <1>4, <1>5, <1>6, <1>7, <1>8, PrecedenceAt
    DEF SourceList, ProviderList

(* The same after a step. *)
LEMMA ListsAfter == EnvTypeOK' => SourceList' /\ Provided'
BY PrecedenceAt, ProvidersAt, PTL

(* or_insert() of what the next provider has. *)
LEMMA NextProvider ==
  ASSUME NEW map, NEW n, NEW P, NEW H, NEW m \in Nat, NEW names,
         First(map, n, P, H, m), n \in names <=> m + 1 \in H
  PROVE  First(OrInsert(map, names, P[m + 1]), n, P, H, m + 1)
<1> DEFINE new == OrInsert(map, names, P[m + 1])
<1>1. /\ n \in DOMAIN new <=> n \in DOMAIN map \/ n \in names
      /\ n \in DOMAIN map => new[n] = map[n]
      /\ n \in names /\ n \notin DOMAIN map => new[n] = P[m + 1]
  BY DEF OrInsert
<1> SUFFICES First(new, n, P, H, m + 1)
  OBVIOUS
<1> HIDE DEF new
<1>2. 1..m + 1 = 1..m \cup {m + 1}
  OBVIOUS
<1>3. CASE n \in DOMAIN map
  BY <1>1, <1>2, <1>3 DEF First
<1>4. CASE n \notin DOMAIN map /\ n \in names
  <2>1. \A j \in 1..(m + 1) - 1 : j \notin H
    BY <1>4 DEF First
  <2>2. QED
    BY <1>1, <1>2, <1>4, <2>1 DEF First
<1>5. CASE n \notin DOMAIN map /\ n \notin names
  BY <1>1, <1>2, <1>5 DEF First
<1>6. QED
  BY <1>3, <1>4, <1>5

(* A source that is no provider changes nothing. *)
LEMMA NoProvider ==
  ASSUME NEW map, NEW n, NEW P, NEW H, NEW m \in Nat, m + 1 \notin H
  PROVE  First(map, n, P, H, m) <=> First(map, n, P, H, m + 1)
<1>1. 1..m + 1 = 1..m \cup {m + 1}
  OBVIOUS
<1>2. QED
  BY <1>1 DEF First

(* Nor do several of them. *)
LEMMA NoProviders ==
  ASSUME NEW map, NEW n, NEW P, NEW H, NEW m \in Nat, NEW M \in Nat, m <= M,
         \A k \in m + 1..M : k \notin H, First(map, n, P, H, m)
  PROVE  First(map, n, P, H, M)
<1>1. 1..M = 1..m \cup m + 1..M
  OBVIOUS
<1>2. QED
  BY <1>1 DEF First

(* Nor do those that come later. *)
LEMMA SameProviders ==
  ASSUME NEW map, NEW n, NEW P, NEW H, NEW Q, NEW I, NEW m \in Nat,
         \A k \in 1..m : P[k] = Q[k] /\ (k \in H <=> k \in I),
         First(map, n, P, H, m)
  PROVE  First(map, n, Q, I, m)
<1>1. \A k \in 1..m : 1..k - 1 \subseteq 1..m
  OBVIOUS
<1>2. QED
  BY <1>1 DEF First

Sourced == Unasked /\ FirstSoFar

(* Most steps change nothing that the environment is made from. *)
LEMMA SourcesUntouched ==
  ASSUME UNCHANGED <<build, envVars>>
  PROVE  /\ Precedence' = Precedence
         /\ \A n : Providers(n)' = Providers(n)
BY DEF envVars, Precedence, Providers, Has, Readable, Scopex

(* What can be entered can be read. *)
LEMMA LineIsReadable == ASSUME NEW l \in Line PROVE l # Unreadable
<1>1. l.how \in {"assign", "keep"}
  BY DEF Line
<1>2. Unreadable.how = "unreadable"
  BY DEF Unreadable
<1>3. QED
  BY <1>1, <1>2

(* The variables of a source are filled in when its turn comes. *)
LEMMA UnaskedKept ==
  EnvTypeOK /\ Unasked /\ Rights /\ [Next]_vars => Unasked'
<1> SUFFICES ASSUME EnvTypeOK, Unasked, Rights, [Next]_vars PROVE Unasked'
  OBVIOUS
<1>s. Scopex' = Scopex
  BY SameBuild
<1> USE DEF Go, End, Unauthenticated, BeforeOptions
<1>1. CASE SetVariable
  BY <1>1 DEF SetVariable, Unasked
<1>2. CASE PreserveVariables
  BY <1>2 DEF PreserveVariables, Unasked
<1>3. CASE Merge
  <2>1. CASE OpenFile
    <3>1. pc = "file" /\ read = 0 /\ read' = 0 /\ 1..0 = {}
      BY <2>1 DEF OpenFile, Unasked
    <3>2. QED
      BY <2>1, <3>1 DEF OpenFile, Unasked
  <2>2. ASSUME NEW l \in Line, ReadLine(l) PROVE Unasked'
    <3>1. /\ pc = "lines" /\ pc' = "lines" /\ read' = read + 1
          /\ file[read + 1] = l /\ UNCHANGED <<trusted, file, pam>>
      BY <2>2 DEF ReadLine
    <3>2. 1..read + 1 = 1..read \cup {read + 1}
      BY LinesAreSequence
    <3>3. l # Unreadable
      BY LineIsReadable
    <3>4. \A k \in 1..read' : file'[k] # Unreadable
      BY <3>1, <3>2, <3>3 DEF Unasked
    <3>5. QED
      BY <3>1, <3>4 DEF Unasked
  <2>3. CASE LineFails \/ FileEnds \/ AddPam \/ Defaults \/ Panic
    BY <1>s, <2>3 DEF LineFails, FileEnds, AddPam, Defaults, Panic, envVars,
      Unasked
  <2>4. QED
    BY <1>3, <2>1, <2>2, <2>3 DEF Merge
<1>4. CASE /\ Parse \/ SelectUser \/ SelectGroup \/ Flags \/ SelectDir
              \/ StayHere \/ SelectTarget \/ Authenticate \/ Assemble
           /\ EnvSame
  BY <1>4, <1>s DEF Parse, SelectUser, SelectGroup, Flags, SelectDir, StayHere,
    SelectTarget, Authenticate, Assemble, EnvSame, envVars, Unasked
<1>5. CASE pc' \in {"ended", "panicked"} /\ EnvSame
  BY <1>5, <1>s DEF EnvSame, envVars, Unasked
<1>6. CASE (Clean \/ SetGroups \/ InitGroups \/ SetGid \/ SetUid) /\ EnvSame
  BY <1>5, <1>6, <1>s, AfterEach DEF Clean, SetGroups, InitGroups, SetGid,
    SetUid, Change, Rights, EnvSame, envVars, Unasked
<1>7. CASE (ChangeDir \/ Execute \/ TryDirectory \/ SearchEnds) /\ EnvSame
  BY <1>7, <1>s DEF ChangeDir, Execute, TryDirectory, SearchEnds, EnvSame,
    envVars, Unasked
<1>8. CASE UNCHANGED <<pc, launchVars>> /\ EnvSame
  BY <1>8, <1>s DEF EnvSame, envVars, Unasked
<1>9. QED
  BY <1>1, <1>2, <1>3, <1>4, <1>5, <1>6, <1>7, <1>8, StepKinds
    DEF OtherStep, NotASetting, EnvironmentStep

(* --env and --preserve-env fill an empty map, the second over the first. *)
LEMMA SetVariableSources ==
  EnvTypeOK /\ EnvTypeOK' /\ Sourced /\ SetVariable => FirstSoFar'
<1> SUFFICES ASSUME EnvTypeOK, EnvTypeOK', Sourced, SetVariable, NEW n \in Name
             PROVE  First(env, n, Precedence, Providers(n), Merged)'
  BY DEF FirstSoFar
<1>1. /\ env = <<>> /\ asked.preserve = {} /\ file' = <<>> /\ pam' = {}
      /\ UNCHANGED <<build, caller>> /\ pc' = "preserve"
  BY DEF SetVariable, Sourced, Unasked, BeforeOptions, Unauthenticated
<1>2. PICK names : /\ asked' = [asked EXCEPT !.env = names]
                   /\ env' = Insert(names, <<"option", 0>>)
  BY DEF SetVariable
<1>3. asked'.env = names /\ asked'.preserve = {}
  BY <1>1, <1>2 DEF EnvTypeOK
<1>4. DOMAIN env' = names /\ \A x \in names : env'[x] = <<"option", 0>>
  BY <1>1, <1>2 DEF Insert
<1>5. Precedence'[2] = <<"option", 0>> /\ ProviderList(n)'
  BY ListsAfter DEF SourceList, Provided
<1>6. /\ Len(file)' = 0 /\ Merged' = 3 /\ 1..Merged' = {1, 2, 3}
  BY <1>1 DEF Merged
<1>7. /\ 1 \notin Providers(n)'
      /\ 2 \in Providers(n)' <=> n \in names
      /\ 3 \notin Providers(n)'
  BY <1>1, <1>3, <1>5, <1>6 DEF ProviderList, Readable
<1>8. QED
  BY <1>4, <1>5, <1>6, <1>7 DEF First

LEMMA PreserveVariablesSources ==
  EnvTypeOK /\ EnvTypeOK' /\ Sourced /\ PreserveVariables => FirstSoFar'
<1> SUFFICES ASSUME EnvTypeOK, EnvTypeOK', Sourced, PreserveVariables,
                    NEW n \in Name
             PROVE  First(env, n, Precedence, Providers(n), Merged)'
  BY DEF FirstSoFar
<1>1. /\ asked.preserve = {} /\ file = <<>> /\ file' = <<>> /\ pam = {}
      /\ pam' = {} /\ UNCHANGED <<build, caller>>
      /\ pc = "preserve" /\ pc' = "chdir"
  BY DEF PreserveVariables, Sourced, Unasked, Unauthenticated
<1>2. PICK names : /\ asked' = [asked EXCEPT !.preserve = names]
                   /\ env' = Insert(Readable(names), <<"preserved", 0>>)
  BY DEF PreserveVariables
<1>3. asked'.env = asked.env /\ asked'.preserve = names
  BY <1>2 DEF EnvTypeOK
<1>4. /\ n \in DOMAIN env' <=> n \in DOMAIN env \/ n \in Readable(names)
      /\ n \in DOMAIN env' =>
           env'[n] = IF n \in Readable(names) THEN <<"preserved", 0>> ELSE env[n]
  BY <1>2 DEF Insert
<1>5. /\ Precedence[1] = <<"preserved", 0>>
      /\ Precedence'[1] = <<"preserved", 0>>
      /\ Precedence[2] = <<"option", 0>> /\ Precedence'[2] = <<"option", 0>>
      /\ ProviderList(n) /\ ProviderList(n)'
  BY ListsAfter, PrecedenceAt, ProvidersAt DEF SourceList, Provided
<1>6. /\ Len(file) = 0 /\ Merged = 3 /\ Merged' = 3 /\ 1..3 = {1, 2, 3}
  BY <1>1 DEF Merged
<1>7. /\ 1 \notin Providers(n)
      /\ 1 \in Providers(n)' <=> n \in Readable(names)
      /\ 2 \in Providers(n) <=> n \in asked.env
      /\ 2 \in Providers(n)' <=> n \in asked.env
      /\ 3 \notin Providers(n) /\ 3 \notin Providers(n)'
  BY <1>1, <1>3, <1>5, <1>6 DEF ProviderList, Readable
<1>8. First(env, n, Precedence, Providers(n), 3)
  BY <1>1, <1>6 DEF Sourced, FirstSoFar, Unauthenticated
<1>9. /\ n \in DOMAIN env <=> n \in asked.env
      /\ n \in DOMAIN env => env[n] = <<"option", 0>>
  BY <1>5, <1>6, <1>7, <1>8 DEF First
<1>10. QED
  BY <1>4, <1>5, <1>6, <1>7, <1>9 DEF First

(* A line of ENV_FILE is entered when its turn comes. *)
LEMMA ReadLineSources ==
  ASSUME EnvTypeOK, Sourced, NEW l \in Line, ReadLine(l)
  PROVE  FirstSoFar'
<1> SUFFICES ASSUME NEW n \in Name
             PROVE  First(env, n, Precedence, Providers(n), Merged)'
  BY DEF FirstSoFar
<1> DEFINE m == read + 2
           names == IF l.how = "keep" THEN Readable({l.name}) ELSE {l.name}
<1>1. /\ pc = "lines" /\ pc' = "lines" /\ trusted /\ read < Len(file)
      /\ UNCHANGED <<build, caller, asked, trusted, file, pam>>
      /\ file[read + 1] = l /\ read' = read + 1
      /\ \A k \in 1..read : file[k] # Unreadable
      /\ env' = OrInsert(env, names, <<"file", read + 1>>)
  BY DEF ReadLine, Enter, Sourced, Unasked
<1>2. /\ read \in Nat /\ m \in Nat /\ Len(file) \in Nat
      /\ read + 1 \in 1..Len(file) /\ (read + 1) + 2 = m + 1
      /\ 1..read + 1 = 1..read \cup {read + 1}
  BY <1>1, LinesAreSequence
<1>3. Precedence' = Precedence /\ Providers(n)' = Providers(n)
  BY <1>1 DEF Precedence, Providers, Has, Readable, Scopex
<1>4. Merged = m /\ Merged' = m + 1
  BY <1>1, <1>2 DEF Merged
<1>5. First(env, n, Precedence, Providers(n), m)
  BY <1>1, <1>4 DEF Sourced, FirstSoFar, Merging
<1>6. Precedence[m + 1] = <<"file", read + 1>>
  BY <1>2, PrecedenceAt DEF SourceList
<1>7. n \in names <=> m + 1 \in Providers(n)
  <2>1. m + 1 \in Providers(n)
          <=> /\ trusted /\ l.name = n
              /\ l.how = "keep" => caller[n] = "text"
              /\ \A j \in 1..read + 1 : file[j] # Unreadable
    BY <1>1, <1>2, ProvidersAt DEF Provided, ProviderList
  <2>2. l # Unreadable
    BY LineIsReadable
  <2>3. QED
    BY <1>1, <1>2, <2>1, <2>2 DEF Readable
<1> HIDE DEF m, names
<1>8. First(OrInsert(env, names, Precedence[m + 1]), n,
            Precedence, Providers(n), m + 1)
  BY <1>2, <1>5, <1>7, NextProvider
<1>9. env' = OrInsert(env, names, Precedence[m + 1])
  BY <1>1, <1>6
<1>10. First(env', n, Precedence', Providers(n)', Merged')
  BY <1>3, <1>4, <1>8, <1>9, Zenon
<1>11. QED
  BY <1>10

(* Where reading stops, at the end or at a line that cannot be read, none  *)
(* of the sources up to PAM is left that has a value.                      *)
LEMMA FileSources ==
  ASSUME EnvTypeOK, Sourced, LineFails \/ FileEnds
  PROVE  FirstSoFar'
<1> SUFFICES ASSUME NEW n \in Name
             PROVE  First(env, n, Precedence, Providers(n), Merged)'
  BY DEF FirstSoFar
<1> DEFINE m == read + 2
           M == Len(file) + 3
<1>1. /\ pc = "lines" /\ pc' = "pam" /\ pam = {} /\ env' = env /\ file' = file
      /\ UNCHANGED <<build, envVars>>
      /\ read < Len(file) => file[read + 1] = Unreadable
  BY DEF LineFails, FileEnds, Sourced, Unasked, envVars
<1>2. read \in Nat /\ Len(file) \in Nat /\ read <= Len(file)
  BY LinesAreSequence
<1>3. Precedence' = Precedence /\ Providers(n)' = Providers(n)
  BY <1>1, SourcesUntouched
<1>4. Merged = m /\ Merged' = M
  BY <1>1 DEF Merged
<1>5. First(env, n, Precedence, Providers(n), m)
  BY <1>1, <1>4 DEF Sourced, FirstSoFar, Merging
<1>6. ProviderList(n)
  BY ProvidersAt DEF Provided
<1>7. ASSUME NEW k \in m + 1..M PROVE k \notin Providers(n)
  <2>1. CASE k = M
    BY <1>1, <1>6, <2>1 DEF ProviderList
  <2>2. CASE k # M
    <3>1. /\ k - 2 \in 1..Len(file) /\ (k - 2) + 2 = k /\ read < Len(file)
          /\ read + 1 \in 1..k - 2
      BY <1>2, <2>2
    <3>2. (k - 2) + 2 \notin Providers(n)
      BY <1>1, <1>6, <3>1 DEF ProviderList
    <3>3. QED
      BY <3>1, <3>2
  <2>3. QED
    BY <2>1, <2>2
<1>8. m \in Nat /\ M \in Nat /\ m <= M
  BY <1>2
<1> HIDE DEF m, M
<1>9. First(env, n, Precedence, Providers(n), M)
  BY <1>5, <1>7, <1>8, NoProviders
<1>10. First(env', n, Precedence', Providers(n)', Merged')
  BY <1>1, <1>3, <1>4, <1>9, Zenon
<1>11. QED
  BY <1>10

(* After the file no source is added and none moves. *)
LEMMA AddPamSources ==
  ASSUME EnvTypeOK, EnvTypeOK', Sourced, AddPam
  PROVE  FirstSoFar'
<1> SUFFICES ASSUME NEW n \in Name
             PROVE  First(env, n, Precedence, Providers(n), Merged)'
  BY DEF FirstSoFar
<1> DEFINE L == Len(file)
<1>1. PICK names : pam' = names /\ env' = OrInsert(env, names, <<"pam", 0>>)
  BY DEF AddPam
<1>2. /\ pc = "pam" /\ pc' = (IF Scopex THEN "defaults" ELSE "assemble")
      /\ pam = {} /\ Scopex' = Scopex
      /\ UNCHANGED <<build, caller, asked, trusted, file>>
  BY DEF AddPam, Sourced, Unasked, Scopex
<1>3. SourceList /\ SourceList' /\ ProviderList(n) /\ ProviderList(n)'
  BY ListsAfter, PrecedenceAt, ProvidersAt DEF Provided
<1>4. L \in Nat /\ Len(file)' = L /\ Precedence' = Precedence
  BY <1>2, LinesAreSequence DEF Precedence
<1> HIDE DEF L
<1>5. First(env, n, Precedence, Providers(n), L + 2)
  <2>1. First(env, n, Precedence, Providers(n), (L + 2) + 1)
    BY <1>2, <1>4 DEF Sourced, FirstSoFar, Merging, Merged, L
  <2>2. L + 2 \in Nat /\ (L + 2) + 1 \notin Providers(n)
    BY <1>2, <1>3, <1>4 DEF ProviderList, L
  <2>3. QED
    BY <2>1, <2>2, NoProvider
<1>6. ASSUME NEW k \in 1..L + 2
      PROVE  k \in Providers(n) <=> k \in Providers(n)'
  <2>1. CASE k \in {1, 2}
    BY <1>2, <1>3, <2>1 DEF ProviderList, Readable
  <2>2. CASE k \notin {1, 2}
    <3>1. k - 2 \in 1..Len(file) /\ (k - 2) + 2 = k
      BY <1>4, <2>2 DEF L
    <3>2. (k - 2) + 2 \in Providers(n) <=> (k - 2) + 2 \in Providers(n)'
      BY <1>2, <1>3, <3>1 DEF ProviderList
    <3>3. QED
      BY <3>1, <3>2
  <2>3. QED
    BY <2>1, <2>2
<1>7. First(env, n, Precedence, Providers(n)', L + 2)
  BY <1>4, <1>5, <1>6, SameProviders
<1>8. /\ Precedence[(L + 2) + 1] = <<"pam", 0>>
      /\ n \in names <=> (L + 2) + 1 \in Providers(n)'
  BY <1>1, <1>2, <1>3, <1>4 DEF SourceList, ProviderList, L
<1>9. First(env', n, Precedence', Providers(n)', (L + 2) + 1)
  <2>1. L + 2 \in Nat
    BY <1>4
  <2>2. First(OrInsert(env, names, Precedence[(L + 2) + 1]), n,
              Precedence, Providers(n)', (L + 2) + 1)
    BY <1>7, <1>8, <2>1, NextProvider
  <2>3. env' = OrInsert(env, names, Precedence[(L + 2) + 1])
    BY <1>1, <1>8
  <2>4. QED
    BY <1>4, <2>2, <2>3, Zenon
<1>10. CASE Scopex
  BY <1>2, <1>4, <1>9, <1>10 DEF Merged
<1>11. CASE ~ Scopex
  <2>1. ((L + 2) + 1) + 1 \notin Providers(n)'
    BY <1>2, <1>3, <1>4, <1>11 DEF ProviderList
  <2>2. (((L + 2) + 1) + 1) + 1 \notin Providers(n)'
    BY <1>2, <1>3, <1>4, <1>11 DEF ProviderList
  <2>3. (L + 2) + 1 \in Nat /\ ((L + 2) + 1) + 1 \in Nat
    BY <1>4
  <2>4. First(env', n, Precedence', Providers(n)', ((L + 2) + 1) + 1)
    BY <1>9, <2>1, <2>3, NoProvider
  <2>5. First(env', n, Precedence', Providers(n)', (((L + 2) + 1) + 1) + 1)
    BY <2>2, <2>3, <2>4, NoProvider
  <2>6. Merged' = (((L + 2) + 1) + 1) + 1
    BY <1>2, <1>4, <1>11 DEF Merged
  <2>7. QED
    BY <2>5, <2>6
<1>12. QED
  BY <1>10, <1>11

(* set_environment() enters the last two sources in their order. *)
LEMMA DefaultsSources ==
  ASSUME EnvTypeOK, EnvTypeOK', Sourced, Defaults
  PROVE  FirstSoFar'
<1> SUFFICES ASSUME NEW n \in Name
             PROVE  First(env, n, Precedence, Providers(n), Merged)'
  BY DEF FirstSoFar
<1> DEFINE M == Len(file) + 3
           withAccount == OrInsert(env, AccountName, <<"account", 0>>)
           kept == Readable(Kept)
<1>1. /\ pc = "defaults" /\ pc' = "assemble" /\ Scopex
      /\ UNCHANGED <<build, caller, asked, trusted, file, pam>>
      /\ env' = OrInsert(withAccount, kept, <<"caller", 0>>)
  BY DEF Defaults, Sourced, Unasked
<1>2. SourceList /\ ProviderList(n)
  BY PrecedenceAt, ProvidersAt DEF Provided
<1>3. /\ M \in Nat /\ M + 1 \in Nat /\ (M + 1) + 1 = Merged' /\ M = Merged
      /\ Len(file) + 4 = M + 1 /\ Len(file) + 5 = (M + 1) + 1
  BY <1>1, LinesAreSequence DEF Merged
<1>4. Precedence' = Precedence /\ Providers(n)' = Providers(n)
  BY <1>1 DEF Precedence, Providers, Has, Readable, Scopex
<1>5. First(env, n, Precedence, Providers(n), M)
  BY <1>1, <1>3 DEF Sourced, FirstSoFar, Merging
<1>6. /\ Precedence[M + 1] = <<"account", 0>>
      /\ n \in AccountName <=> M + 1 \in Providers(n)
      /\ Precedence[(M + 1) + 1] = <<"caller", 0>>
      /\ n \in kept <=> (M + 1) + 1 \in Providers(n)
  BY <1>1, <1>2, <1>3 DEF SourceList, ProviderList
<1> HIDE DEF M, withAccount, kept
<1>7. First(withAccount, n, Precedence, Providers(n), M + 1)
  <2>1. First(OrInsert(env, AccountName, Precedence[M + 1]), n,
              Precedence, Providers(n), M + 1)
    BY <1>3, <1>5, <1>6, NextProvider
  <2>2. QED
    BY <1>6, <2>1 DEF withAccount
<1>8. First(OrInsert(withAccount, kept, Precedence[(M + 1) + 1]), n,
            Precedence, Providers(n), (M + 1) + 1)
  BY <1>3, <1>6, <1>7, NextProvider
<1>9. env' = OrInsert(withAccount, kept, Precedence[(M + 1) + 1])
  BY <1>1, <1>6
<1>10. First(env', n, Precedence', Providers(n)', Merged')
  BY <1>3, <1>4, <1>8, <1>9, Zenon
<1>11. QED
  BY <1>10

(* The other steps leave sources and map alone. *)
LEMMA FirstSoFarUntouched ==
  ASSUME FirstSoFar, UNCHANGED <<build, envVars>>,
         pc \in Unauthenticated \cup Merging \cup {"assemble"},
         (pc = "assemble") <=> (pc' = "assemble"),
         (pc = "lines") <=> (pc' = "lines")
  PROVE  FirstSoFar'
<1>1. Precedence' = Precedence /\ \A n : Providers(n)' = Providers(n)
  BY SourcesUntouched
<1>2. env' = env /\ Merged' = Merged
  BY DEF envVars, Merged
<1>3. SUFFICES ASSUME NEW n \in Name
               PROVE  First(env', n, Precedence', Providers(n)', Merged')
  BY DEF FirstSoFar
<1>4. First(env, n, Precedence, Providers(n), Merged)
  BY DEF FirstSoFar
<1>5. QED
  BY <1>1, <1>2, <1>4, Zenon

(* So no step breaks the order of precedence. *)
LEMMA FirstSoFarKept ==
  EnvTypeOK /\ Sourced /\ Rights /\ [Next]_vars => FirstSoFar'
<1> SUFFICES ASSUME EnvTypeOK, Sourced, Rights, [Next]_vars PROVE FirstSoFar'
  OBVIOUS
<1>t. EnvTypeOK'
  BY EnvTypesKept DEF Sourced
<1> USE DEF Go, End
<1> DEFINE Early == Unauthenticated \cup Merging \cup {"assemble"}
<1>1. CASE SetVariable \/ PreserveVariables \/ AddPam \/ Defaults
  BY <1>1, <1>t, SetVariableSources, PreserveVariablesSources, AddPamSources,
    DefaultsSources
<1>2. ASSUME NEW l \in Line, ReadLine(l) PROVE FirstSoFar'
  BY <1>2, <1>t, ReadLineSources
<1>3. CASE OpenFile
  <2>1. /\ pc = "file" /\ file = <<>> /\ read = 0 /\ env' = env
        /\ UNCHANGED <<build, caller, asked, read, pam>> /\ pam = {}
    BY <1>3 DEF OpenFile, Sourced, Unasked
  <2>2. Len(file) = 0 /\ Merged = 3
    BY <2>1 DEF Merged
  <2>3. CASE pc' = "pam" /\ UNCHANGED <<trusted, file>>
    BY <2>1, <2>3, FirstSoFarUntouched DEF envVars, Sourced, Merging
  <2>4. CASE pc' = "lines"
    <3>1. Merged' = 2
      BY <2>1, <2>4 DEF Merged
    <3>2. ASSUME NEW n \in Name
          PROVE  First(env', n, Precedence', Providers(n)', Merged')
      <4>1. First(env, n, Precedence, Providers(n), 2 + 1)
        BY <2>1, <2>2 DEF Sourced, FirstSoFar, Merging
      <4>2. /\ ProviderList(n) /\ ProviderList(n)'
            /\ SourceList /\ SourceList'
        BY <1>t, ListsAfter, ProvidersAt, PrecedenceAt DEF Provided
      <4>3. 2 + 1 \notin Providers(n)
        BY <2>1, <2>2, <4>2 DEF ProviderList
      <4>4. First(env, n, Precedence, Providers(n), 2)
        BY <4>1, <4>3, NoProvider
      <4>5. ASSUME NEW k \in 1..2
            PROVE  /\ Precedence[k] = Precedence'[k]
                   /\ k \in Providers(n) <=> k \in Providers(n)'
        BY <2>1, <4>2 DEF SourceList, ProviderList, Readable
      <4>6. First(env, n, Precedence', Providers(n)', 2)
        BY <4>4, <4>5, SameProviders
      <4>7. QED
        BY <2>1, <3>1, <4>6, Zenon
    <3>3. QED
      BY <3>2 DEF FirstSoFar
  <2>5. QED
    BY <1>3, <2>3, <2>4 DEF OpenFile
<1>4. CASE LineFails \/ FileEnds
  BY <1>4, FileSources
<1>5. CASE /\ Parse \/ SelectUser \/ SelectGroup \/ Flags \/ SelectDir
              \/ StayHere \/ SelectTarget \/ Authenticate
           /\ EnvSame
  <2>1. pc \in Early /\ {pc, pc'} \cap {"assemble", "lines"} = {}
    BY <1>5 DEF Parse, SelectUser, SelectGroup, Flags, SelectDir, StayHere,
      SelectTarget, Authenticate, Unauthenticated, BeforeOptions
  <2>2. QED
    BY <1>5, <2>1, FirstSoFarUntouched DEF EnvSame, Sourced
<1>6. CASE pc' \notin Early
  BY <1>6 DEF FirstSoFar
<1>7. CASE Clean \/ SetGroups \/ InitGroups \/ SetGid \/ SetUid
  <2>1. pc' \notin Early
    BY <1>7, AfterEach DEF Clean, SetGroups, InitGroups, SetGid, SetUid,
      Change, Rights, Unauthenticated, BeforeOptions, Merging
  <2>2. QED
    BY <1>6, <2>1
<1>8. CASE Assemble \/ ChangeDir \/ Execute \/ TryDirectory \/ SearchEnds
           \/ Panic
  <2>1. pc' \notin Early
    BY <1>8 DEF Assemble, ChangeDir, Execute, TryDirectory, SearchEnds, Panic,
      Unauthenticated, BeforeOptions, Merging
  <2>2. QED
    BY <1>6, <2>1
<1>9. CASE pc = "env" /\ pc' = "ended"
  BY <1>9 DEF FirstSoFar, Unauthenticated, BeforeOptions, Merging
<1>10. CASE UNCHANGED <<pc, launchVars>> /\ EnvSame
  <2>1. CASE pc \in Early
    BY <1>10, <2>1, FirstSoFarUntouched DEF EnvSame, Sourced
  <2>2. CASE pc \notin Early
    BY <1>6, <1>10, <2>2
  <2>3. QED
    BY <2>1, <2>2
<1>11. QED
  BY <1>1, <1>2, <1>3, <1>4, <1>5, <1>7, <1>8, <1>9, <1>10, StepKinds
    DEF OtherStep, NotASetting, EnvironmentStep, Merge

-----------------------------------------------------------------------------
(***************************************************************************)
(* The argument vector of systemd-run.                                     *)
(***************************************************************************)
Early == Unauthenticated \cup Merging \cup {"assemble"}

Basics == argv \in Seq(Arg) /\ Len(argv) >= 4 /\ ToldUser /\ ToldGroup

LEMMA ToldParts ==
  Told <=> (~ Scopex =>
              /\ Basics
              /\ pc \in Early => ToldNothing
              /\ pc \in Executing \/ Executed => ToldVariables /\ ToldCommand)
BY DEF Told, Basics, Early

(* A longer vector begins as before and ends with what was added. *)
LEMMA Longer ==
  ASSUME NEW a \in Seq(Arg), NEW s \in Seq(Arg)
  PROVE  /\ a \o s \in Seq(Arg) /\ Len(a \o s) = Len(a) + Len(s)
         /\ Len(a) \in Nat /\ Len(s) \in Nat
         /\ \A i \in 1..Len(a) : (a \o s)[i] = a[i]
         /\ \A i \in 1..Len(s) : (a \o s)[Len(a) + i] = s[i]
<1>1. /\ a \o s \in Seq(Arg) /\ Len(a \o s) = Len(a) + Len(s)
      /\ \A i \in 1..Len(a) + Len(s) :
           (a \o s)[i] = IF i <= Len(a) THEN a[i] ELSE s[i - Len(a)]
  BY ConcatProperties
<1>2. Len(a) \in Nat /\ Len(s) \in Nat
  OBVIOUS
<1>3. ASSUME NEW i \in 1..Len(a) PROVE (a \o s)[i] = a[i]
  <2>1. i \in 1..Len(a) + Len(s) /\ i <= Len(a)
    BY <1>2
  <2>2. QED
    BY <1>1, <2>1
<1>4. ASSUME NEW i \in 1..Len(s) PROVE (a \o s)[Len(a) + i] = s[i]
  <2>1. /\ Len(a) + i \in 1..Len(a) + Len(s) /\ ~ (Len(a) + i <= Len(a))
        /\ Len(a) + i - Len(a) = i
    BY <1>2
  <2>2. QED
    BY <1>1, <2>1
<1>5. QED
  BY <1>1, <1>2, <1>3, <1>4

(* What was told stays told. *)
LEMMA BasicsKept ==
  ASSUME Basics, NEW s \in Seq(Arg), argv' = argv \o s,
         UNCHANGED <<build, user>>,
         group' => group \/ s = <<GroupOption, "group-text">>
  PROVE  Basics'
<1>1. /\ argv' \in Seq(Arg) /\ Len(argv') = Len(argv) + Len(s)
      /\ Len(argv) \in Nat /\ Len(s) \in Nat
      /\ \A i \in 1..Len(argv) : argv'[i] = argv[i]
      /\ \A i \in 1..Len(s) : argv'[Len(argv) + i] = s[i]
  BY Longer DEF Basics
<1>2. Len(argv') >= 4 /\ 3 \in 1..Len(argv) /\ 4 \in 1..Len(argv)
  BY <1>1 DEF Basics
<1>3. ToldUser'
  BY <1>1, <1>2 DEF Basics, ToldUser, UserText
<1>4. GroupOption' = GroupOption
  BY DEF GroupOption
<1>5. ToldGroup'
  <2>1. CASE group
    <3>1. PICK i \in 1..Len(argv) - 1 :
            argv[i] = GroupOption /\ argv[i + 1] = "group-text"
      BY <2>1 DEF Basics, ToldGroup, Follows
    <3>2. /\ i \in 1..Len(argv') - 1
          /\ i \in 1..Len(argv) /\ i + 1 \in 1..Len(argv)
      BY <1>1
    <3>3. argv'[i] = GroupOption /\ argv'[i + 1] = "group-text"
      BY <1>1, <3>1, <3>2
    <3>4. QED
      BY <1>4, <3>2, <3>3 DEF ToldGroup, Follows
  <2>2. CASE s = <<GroupOption, "group-text">>
    <3>1. Len(s) = 2 /\ s[1] = GroupOption /\ s[2] = "group-text"
      BY <2>2
    <3>2. /\ Len(argv) + 1 \in 1..Len(argv') - 1
          /\ 1 \in 1..Len(s) /\ 2 \in 1..Len(s)
          /\ (Len(argv) + 1) + 1 = Len(argv) + 2
      BY <1>1, <3>1
    <3>3. /\ argv'[Len(argv) + 1] = GroupOption
          /\ argv'[(Len(argv) + 1) + 1] = "group-text"
      BY <1>1, <3>1, <3>2
    <3>4. QED
      BY <1>4, <3>2, <3>3 DEF ToldGroup, Follows
  <2>3. CASE ~ group'
    BY <2>3 DEF ToldGroup
  <2>4. QED
    BY <2>1, <2>2, <2>3
<1>6. QED
  BY <1>1, <1>2, <1>3, <1>5 DEF Basics

(* Options that are neither --setenv nor the "--" before the command. *)
LEMMA NothingKept ==
  ASSUME Basics, ToldNothing, NEW s \in Seq(Arg), argv' = argv \o s,
         \A i \in 1..Len(s) : s[i] \notin {"--setenv", "--"}
  PROVE  ToldNothing'
<1>1. /\ Len(argv') = Len(argv) + Len(s) /\ Len(argv) \in Nat /\ Len(s) \in Nat
      /\ \A i \in 1..Len(argv) : argv'[i] = argv[i]
      /\ \A i \in 1..Len(s) : argv'[Len(argv) + i] = s[i]
  BY Longer DEF Basics
<1>2. SUFFICES ASSUME NEW i \in 1..Len(argv')
               PROVE  argv'[i] \notin {"--setenv", "--"}
  BY DEF ToldNothing
<1>3. CASE i <= Len(argv)
  <2>1. i \in 1..Len(argv)
    BY <1>1, <1>3
  <2>2. QED
    BY <1>1, <2>1 DEF ToldNothing
<1>4. CASE ~ (i <= Len(argv))
  <2>1. i - Len(argv) \in 1..Len(s) /\ Len(argv) + (i - Len(argv)) = i
    BY <1>1, <1>4
  <2>2. argv'[Len(argv) + (i - Len(argv))] = s[i - Len(argv)]
    BY <1>1, <2>1
  <2>3. s[i - Len(argv)] \notin {"--setenv", "--"}
    BY <2>1
  <2>4. QED
    BY <2>1, <2>2, <2>3
<1>5. QED
  BY <1>3, <1>4

(* The --setenv options: one for each variable. *)
LEMMA OrderCovers ==
  ASSUME NEW S, IsFiniteSet(S), NEW order \in SetToSeqs(S)
  PROVE  /\ Len(order) \in Nat /\ order \in [1..Len(order) -> S]
         /\ \A x \in S : \E k \in 1..Len(order) : order[k] = x
<1>1. Cardinality(S) \in Nat
  BY FS_CardinalityType
<1> DEFINE c == Cardinality(S)
<1>2. order \in [1..c -> S] /\ \A i, j \in 1..c : i # j => order[i] # order[j]
  BY DEF SetToSeqs
<1>3. order \in Injection(1..c, S)
  BY <1>2 DEF Injection, IsInjective
<1>4. Cardinality(1..c) = c
  <2>1. c \in Int /\ 1 \in Int
    BY <1>1
  <2>2. Cardinality(1..c) = IF 1 > c THEN 0 ELSE c - 1 + 1
    BY <2>1, FS_Interval
  <2>3. QED
    BY <1>1, <2>2
<1>5. order \in Surjection(1..c, S)
  BY <1>3, <1>4, FS_Injection
<1>6. Len(order) = c
  BY <1>1, <1>2
<1>7. QED
  BY <1>1, <1>2, <1>5, <1>6 DEF Surjection

(* "--setenv" stands before every variable and nowhere else. *)
LEMMA SettingsAt ==
  ASSUME NEW S \in SUBSET Name, NEW order, Len(order) \in Nat,
         order \in [1..Len(order) -> S]
  PROVE  /\ Settings(order) \in Seq(Arg)
         /\ Len(Settings(order)) = 2 * Len(order)
         /\ \A k \in 1..Len(order) :
              /\ Settings(order)[2 * k - 1] = "--setenv"
              /\ Settings(order)[2 * k] = order[k]
         /\ \A i \in 1..2 * Len(order) :
              \/ Settings(order)[i] \in Name
              \/ /\ Settings(order)[i] = "--setenv"
                 /\ i + 1 \in 1..2 * Len(order) /\ Settings(order)[i + 1] \in S
<1> DEFINE c == Len(order)
           s == Settings(order)
<1>1. c \in Nat /\ 2 * c \in Nat
  OBVIOUS
<1>2. s = [i \in 1..2 * c |-> IF i % 2 = 1 THEN "--setenv" ELSE order[i \div 2]]
  BY DEF Settings
<1> HIDE DEF s
<1>3. ASSUME NEW i \in 1..2 * c, i % 2 # 1
      PROVE  s[i] = order[i \div 2] /\ s[i] \in S
  <2>1. i \div 2 \in 1..c
    BY <1>1, <1>3
  <2>2. QED
    BY <1>2, <1>3, <2>1
<1>4. ASSUME NEW i \in 1..2 * c, i % 2 = 1
      PROVE  /\ s[i] = "--setenv" /\ i + 1 \in 1..2 * c
             /\ (i + 1) % 2 # 1
  <2>1. s[i] = "--setenv"
    BY <1>2, <1>4
  <2>2. (2 * c) % 2 # 1
    BY <1>1
  <2>3. i # 2 * c
    BY <1>4, <2>2
  <2>4. i + 1 \in 1..2 * c
    BY <1>1, <2>3
  <2>5. (i + 1) % 2 # 1
    BY <1>1, <1>4
  <2>6. QED
    BY <2>1, <2>4, <2>5
<1>5. ASSUME NEW k \in 1..c
      PROVE  s[2 * k - 1] = "--setenv" /\ s[2 * k] = order[k]
  <2>1. /\ 2 * k - 1 \in 1..2 * c /\ (2 * k - 1) % 2 = 1
        /\ 2 * k \in 1..2 * c /\ (2 * k) % 2 # 1 /\ (2 * k) \div 2 = k
    BY <1>1
  <2>2. QED
    BY <1>3, <1>4, <2>1
<1>6. ASSUME NEW i \in 1..2 * c
      PROVE  \/ s[i] \in Name
             \/ s[i] = "--setenv" /\ i + 1 \in 1..2 * c /\ s[i + 1] \in S
  <2>1. CASE i % 2 = 1
    BY <1>3, <1>4, <2>1
  <2>2. CASE i % 2 # 1
    BY <1>3, <2>2
  <2>3. QED
    BY <2>1, <2>2
<1>7. s \in Seq(Arg) /\ Len(s) = 2 * c
  <2>1. \A i \in 1..2 * c : s[i] \in Arg
    BY <1>6 DEF Arg
  <2>2. s \in [1..2 * c -> Arg]
    BY <1>2, <2>1
  <2>3. QED
    BY <1>1, <2>2
<1>8. QED
  BY <1>5, <1>6, <1>7 DEF s

(* What Assemble appends, part by part. *)
LEMMA AssembleTells ==
  EnvTypeOK /\ ~ Scopex /\ Basics /\ ToldNothing /\ Assemble
    => Basics' /\ ToldVariables' /\ ToldCommand'
<1> SUFFICES ASSUME EnvTypeOK, ~ Scopex, Basics, ToldNothing, Assemble
             PROVE  Basics' /\ ToldVariables' /\ ToldCommand'
  OBVIOUS
<1> DEFINE a == argv
           tail == IF command THEN <<"--", "cmd", "arg">> ELSE <<>>
           m == Len(a)
<1>1. PICK order \in SetToSeqs(DOMAIN env) :
        argv' = argv \o Settings(order) \o tail
  BY DEF Assemble
<1>2. env' = env /\ UNCHANGED <<build, user, group, command>>
  BY DEF Assemble, EnvSame, envVars, optVars
<1> DEFINE s == Settings(order)
           c == Len(order)
<1>3. DOMAIN env \in SUBSET Name /\ IsFiniteSet(DOMAIN env)
  BY OptionsAssumption, FS_Subset DEF EnvTypeOK
<1>4. /\ c \in Nat /\ order \in [1..c -> DOMAIN env]
      /\ \A x \in DOMAIN env : \E k \in 1..c : order[k] = x
  BY <1>3, OrderCovers
<1>5. /\ s \in Seq(Arg) /\ Len(s) = 2 * c /\ 2 * c \in Nat
      /\ \A k \in 1..c : s[2 * k - 1] = "--setenv" /\ s[2 * k] = order[k]
      /\ \A i \in 1..2 * c :
           \/ s[i] \in Name
           \/ s[i] = "--setenv" /\ i + 1 \in 1..2 * c /\ s[i + 1] \in DOMAIN env
  <2>1. Len(order) \in Nat /\ order \in [1..Len(order) -> DOMAIN env]
    BY <1>4
  <2>2. /\ Settings(order) \in Seq(Arg)
        /\ Len(Settings(order)) = 2 * Len(order)
        /\ \A k \in 1..Len(order) :
             /\ Settings(order)[2 * k - 1] = "--setenv"
             /\ Settings(order)[2 * k] = order[k]
        /\ \A i \in 1..2 * Len(order) :
             \/ Settings(order)[i] \in Name
             \/ /\ Settings(order)[i] = "--setenv"
                /\ i + 1 \in 1..2 * Len(order)
                /\ Settings(order)[i + 1] \in DOMAIN env
    BY <1>3, <2>1, SettingsAt
  <2>3. 2 * Len(order) \in Nat
    BY <2>1
  <2>4. QED
    BY <2>2, <2>3
<1>6. /\ tail \in Seq(Arg) /\ Len(tail) \in Nat
      /\ \A i \in 1..Len(tail) : tail[i] # "--setenv"
      /\ command => /\ Len(tail) = 3
                    /\ tail[1] = "--" /\ tail[2] = "cmd" /\ tail[3] = "arg"
  <2>1. CASE command
    <3>1. tail = <<"--", "cmd", "arg">>
      BY <2>1
    <3>2. /\ <<"--", "cmd", "arg">> \in Seq(Arg)
          /\ Len(<<"--", "cmd", "arg">>) = 3
          /\ \A i \in 1..3 : <<"--", "cmd", "arg">>[i] # "--setenv"
      BY DEF Arg
    <3>3. QED
      BY <3>1, <3>2
  <2>2. CASE ~ command
    <3>1. tail = <<>> /\ <<>> \in Seq(Arg) /\ Len(<<>>) = 0 /\ 1..0 = {}
      BY <2>2
    <3>2. QED
      BY <2>2, <3>1
  <2>3. QED
    BY <2>1, <2>2
<1>7. /\ a \in Seq(Arg) /\ m \in Nat
      /\ \A i \in 1..m : a[i] \notin {"--setenv", "--"}
  BY DEF Basics, ToldNothing
<1> HIDE DEF tail, m, s, c, a
<1>8. /\ s \o tail \in Seq(Arg) /\ Len(s \o tail) = 2 * c + Len(tail)
      /\ \A i \in 1..2 * c : (s \o tail)[i] = s[i]
      /\ \A i \in 1..Len(tail) : (s \o tail)[2 * c + i] = tail[i]
  <2>1. /\ s \o tail \in Seq(Arg) /\ Len(s \o tail) = Len(s) + Len(tail)
        /\ \A i \in 1..Len(s) : (s \o tail)[i] = s[i]
        /\ \A i \in 1..Len(tail) : (s \o tail)[Len(s) + i] = tail[i]
    BY <1>5, <1>6, Longer
  <2>2. Len(s) = 2 * c
    BY <1>5
  <2>3. QED
    BY <2>1, <2>2
<1>9. argv' = a \o (s \o tail)
  <2>1. \A x, y, z \in Seq(Arg) : (x \o y) \o z = x \o (y \o z)
    BY ONLY ConcatAssociative, SMTT(30)
  <2>2. (a \o s) \o tail = a \o (s \o tail)
    BY <1>5, <1>6, <1>7, <2>1, Zenon
  <2>3. argv' = (a \o s) \o tail
    BY <1>1 DEF a, s
  <2>4. QED
    BY <2>2, <2>3
<1>10. /\ a \o (s \o tail) \in Seq(Arg)
       /\ Len(argv') = m + (2 * c + Len(tail))
       /\ \A i \in 1..m : argv'[i] = a[i]
       /\ \A i \in 1..2 * c + Len(tail) : argv'[m + i] = (s \o tail)[i]
  BY <1>7, <1>8, <1>9, Longer DEF m
<1>11. /\ \A i \in 1..2 * c : argv'[m + i] = s[i]
       /\ \A i \in 1..Len(tail) : argv'[m + (2 * c + i)] = tail[i]
  <2>1. ASSUME NEW i \in 1..2 * c PROVE argv'[m + i] = s[i]
    <3>1. i \in 1..2 * c + Len(tail)
      BY <1>5, <1>6
    <3>2. QED
      BY <1>8, <1>10, <3>1
  <2>2. ASSUME NEW i \in 1..Len(tail) PROVE argv'[m + (2 * c + i)] = tail[i]
    <3>1. 2 * c + i \in 1..2 * c + Len(tail)
      BY <1>5, <1>6
    <3>2. QED
      BY <1>8, <1>10, <3>1
  <2>3. QED
    BY <2>1, <2>2
<1>12. Basics'
  BY <1>2, <1>8, <1>9, BasicsKept DEF a
<1>13. ToldVariables'
  <2>1. ASSUME NEW n \in DOMAIN env
        PROVE  \E i \in 1..Len(argv') - 1 :
                 argv'[i] = "--setenv" /\ argv'[i + 1] = n
    <3>1. PICK k \in 1..c : order[k] = n
      BY <1>4
    <3>2. /\ 2 * k - 1 \in 1..2 * c /\ 2 * k \in 1..2 * c
          /\ m + (2 * k - 1) \in 1..Len(argv') - 1
          /\ (m + (2 * k - 1)) + 1 = m + 2 * k
      BY <1>4, <1>5, <1>6, <1>7, <1>10
    <3>3. argv'[m + (2 * k - 1)] = "--setenv" /\ argv'[m + 2 * k] = n
      BY <1>5, <1>11, <3>1, <3>2
    <3>4. QED
      BY <3>2, <3>3
  <2>2. ASSUME NEW n \in Name, NEW i \in 1..Len(argv') - 1,
               argv'[i] = "--setenv", argv'[i + 1] = n
        PROVE  n \in DOMAIN env
    <3>1. ~ (i <= m)
      BY <1>7, <1>10, <2>2
    <3>2. i - m \in 1..2 * c + Len(tail) /\ m + (i - m) = i
      BY <1>5, <1>6, <1>7, <1>10, <3>1
    <3>3. CASE i - m \in 1..2 * c
      <4>1. s[i - m] = "--setenv"
        BY <1>11, <2>2, <3>2, <3>3
      <4>2. "--setenv" \notin Name
        BY OptionsAssumption
      <4>3. (i - m) + 1 \in 1..2 * c /\ s[(i - m) + 1] \in DOMAIN env
        BY <1>5, <3>3, <4>1, <4>2
      <4>4. m + ((i - m) + 1) = i + 1
        BY <1>7
      <4>5. QED
        BY <1>11, <2>2, <4>3, <4>4
    <3>4. CASE i - m \notin 1..2 * c
      <4>1. /\ (i - m) - 2 * c \in 1..Len(tail)
            /\ m + (2 * c + ((i - m) - 2 * c)) = i
        BY <1>5, <1>6, <1>7, <3>2, <3>4
      <4>2. QED
        BY <1>6, <1>11, <2>2, <4>1
    <3>5. QED
      BY <3>3, <3>4
  <2>3. QED
    BY <1>2, <2>1, <2>2 DEF ToldVariables, Follows
<1>14. ToldCommand'
  <2>1. SUFFICES ASSUME command
                 PROVE  \E k \in 1..Len(argv') :
                          /\ SubSeq(argv', k, Len(argv')) = <<"--", "cmd", "arg">>
                          /\ \A j \in 1..k - 1 : argv'[j] # "--"
    BY <1>2 DEF ToldCommand
  <2> DEFINE k == m + (2 * c + 1)
  <2>2. /\ Len(tail) = 3 /\ k \in 1..Len(argv') /\ Len(argv') = k + 2
        /\ m + (2 * c + 2) = k + 1 /\ m + (2 * c + 3) = k + 2
    <3>1. Len(tail) = 3 /\ Len(argv') = m + (2 * c + 3)
      BY <1>6, <1>10, <2>1
    <3>2. 2 * c \in Nat /\ m \in Nat
      BY <1>5, <1>7
    <3>3. QED
      BY <3>1, <3>2
  <2>3. argv'[k] = "--" /\ argv'[k + 1] = "cmd" /\ argv'[k + 2] = "arg"
    BY <1>6, <1>11, <2>1, <2>2
  <2>4. ASSUME NEW j \in 1..k - 1 PROVE argv'[j] # "--"
    <3>1. CASE j <= m
      <4>1. j \in 1..m
        BY <1>7, <3>1
      <4>2. QED
        BY <1>7, <1>10, <4>1
    <3>2. CASE ~ (j <= m)
      <4>1. j - m \in 1..2 * c /\ m + (j - m) = j
        BY <1>5, <1>7, <3>2
      <4>2. s[j - m] \in Name \cup {"--setenv"}
        BY <1>5, <4>1
      <4>3. QED
        BY <1>11, <4>1, <4>2, OptionsAssumption
    <3>3. QED
      BY <3>1, <3>2
  <2> HIDE DEF k
  <2>5. SubSeq(argv', k, Len(argv')) = <<"--", "cmd", "arg">>
    <3>1. argv' \in Seq(Arg) /\ k \in Nat /\ k \in 1..Len(argv')
      BY <1>9, <1>10, <2>2
    <3>2. /\ k + 2 \in 1..Len(argv') + 1 /\ k \in 1..Len(argv') + 1
          /\ (k + 2) - k + 1 = 3
      BY <2>2, <3>1
    <3> DEFINE sub == SubSeq(argv', k, k + 2)
    <3>3. /\ sub \in Seq(Arg) /\ Len(sub) = 3
          /\ \A i \in 1..3 : sub[i] = argv'[k + i - 1]
      BY <2>2, <3>1, <3>2, SubSeqProperties
    <3>4. k + 1 - 1 = k /\ k + 2 - 1 = k + 1 /\ k + 3 - 1 = k + 2
      BY <3>1
    <3>5. sub[1] = "--" /\ sub[2] = "cmd" /\ sub[3] = "arg"
      BY <2>3, <3>3, <3>4
    <3> HIDE DEF sub
    <3>6. sub = <<"--", "cmd", "arg">>
      BY <3>3, <3>5
    <3>7. QED
      BY <2>2, <3>6 DEF sub
  <2>6. QED
    BY <2>2, <2>4, <2>5
<1>15. QED
  BY <1>12, <1>13, <1>14

(* A step that leaves the vector alone and stays in its part of run(). *)
LEMMA ToldUntouched ==
  ASSUME Told, UNCHANGED <<build, argv, user, group, command>>,
         pc' \in Early => pc \in Early,
         pc' \in Executing \/ Executed'
           => (pc \in Executing \/ Executed) /\ env' = env
  PROVE  Told'
<1>1. Scopex' = Scopex /\ GroupOption' = GroupOption
  BY DEF Scopex, GroupOption
<1>2. /\ Basics => Basics'
      /\ ToldNothing => ToldNothing'
      /\ ToldCommand => ToldCommand'
  BY <1>1 DEF Basics, ToldUser, UserText, ToldGroup, ToldNothing, ToldCommand,
    Follows
<1>3. env' = env /\ ToldVariables => ToldVariables'
  BY DEF ToldVariables, Follows
<1>4. ~ Scopex =>
        /\ Basics'
        /\ pc' \in Early => ToldNothing'
        /\ pc' \in Executing \/ Executed' => ToldVariables' /\ ToldCommand'
  BY <1>2, <1>3, ToldParts
<1>5. QED
  BY <1>1, <1>4 DEF Told, Basics, Early

(* A step of the options that adds to the vector. *)
LEMMA ToldMore ==
  ASSUME Told, ~ Scopex, pc \in Early, pc' \in Early, ~ Executed',
         NEW s \in Seq(Arg), argv' = argv \o s, UNCHANGED <<build, user>>,
         group' => group \/ s = <<GroupOption, "group-text">>,
         \A i \in 1..Len(s) : s[i] \notin {"--setenv", "--"}
  PROVE  Told'
<1>1. Basics /\ ToldNothing
  BY DEF Told, Basics, Early
<1>2. Basics' /\ ToldNothing'
  BY <1>1, BasicsKept, NothingKept
<1>3. pc' \notin Executing
  BY DEF Early, Unauthenticated, BeforeOptions, Merging, Executing
<1>4. QED
  BY <1>2, <1>3 DEF Told, Basics

(* The text of --user replaces the placeholder and nothing else. *)
LEMMA ToldBySelectUser ==
  OptionTypes /\ Told /\ Progress /\ ~ Scopex /\ SelectUser => Told'
<1> SUFFICES ASSUME OptionTypes, Told, Progress, ~ Scopex, SelectUser
             PROVE  Told'
  OBVIOUS
<1> USE DEF Go, End
<1>1. /\ pc = "user" /\ result = "none"
      /\ UNCHANGED <<build, env, group, command>> /\ EnvSame
  BY DEF SelectUser, Progress, EnvSame, envVars
<1>2. CASE UNCHANGED <<user, argv>>
  BY <1>1, <1>2, ToldUntouched DEF SelectUser, Early, Unauthenticated,
    BeforeOptions, Executing, Executed, Merging
<1>3. CASE user' = TRUE /\ argv' = NameUser("user-text") /\ Go("group")
  <2>1. Basics /\ ToldNothing
    BY <1>1 DEF Told, Basics, Unauthenticated, BeforeOptions
  <2>2. argv' = [argv EXCEPT ![4] = "user-text"]
    BY <1>3 DEF NameUser
  <2>3. /\ argv \in Seq(Arg) /\ Len(argv) \in Nat /\ 4 \in 1..Len(argv)
        /\ 3 \in 1..Len(argv) /\ "user-text" \in Arg
    BY <2>1 DEF Basics, Arg
  <2>4. /\ argv' \in Seq(Arg) /\ Len(argv') = Len(argv)
        /\ \A j \in 1..Len(argv) : argv'[j] = IF j = 4 THEN "user-text"
                                    ELSE argv[j]
    BY <2>2, <2>3, ExceptSeq
  <2>5. ToldUser'
    BY <1>3, <2>1, <2>3, <2>4 DEF ToldUser, UserText, Basics
  <2>6. ToldGroup'
    <3>1. CASE group
      <4>1. PICK i \in 1..Len(argv) - 1 :
              argv[i] = GroupOption /\ argv[i + 1] = "group-text"
        BY <2>1, <3>1 DEF Basics, ToldGroup, Follows
      <4>2. i \in 1..Len(argv) /\ i + 1 \in 1..Len(argv)
        BY <2>3
      <4>3. i # 4 /\ i + 1 # 4
        BY <2>1, <4>1 DEF Basics, ToldUser, UserText, GroupOption, OptionTypes
      <4>4. argv'[i] = GroupOption /\ argv'[i + 1] = "group-text"
        BY <2>4, <4>1, <4>2, <4>3
      <4>5. QED
        BY <1>1, <2>4, <4>4 DEF ToldGroup, Follows, GroupOption
    <3>2. QED
      BY <1>1, <3>1 DEF ToldGroup
  <2>7. ToldNothing'
    BY <2>1, <2>4 DEF ToldNothing
  <2>8. QED
    BY <1>1, <1>3, <2>3, <2>4, <2>5, <2>6, <2>7, <2>1 DEF Told, Executing,
      Executed, Basics
<1>4. QED
  BY <1>2, <1>3 DEF SelectUser

(* All steps of the options and of exec(), for systemd-run. *)
LEMMA ToldKept ==
  EnvTypeOK /\ OptionTypes /\ Progress /\ Rights /\ Told /\ [Next]_vars => Told'
<1> SUFFICES ASSUME EnvTypeOK, OptionTypes, Progress, Rights, Told, [Next]_vars,
                    ~ Scopex
             PROVE  Told'
  BY SameBuild DEF Told
<1>b. UNCHANGED build
  BY SameBuild
<1> USE DEF Go, End
<1>1. CASE EnvironmentStep /\ UNCHANGED launchVars
  <2>1. pc \in Early /\ pc' \notin Executing
    BY <1>1 DEF EnvironmentStep, Merge, SetVariable, PreserveVariables,
      OpenFile, ReadLine, LineFails, FileEnds, AddPam, Defaults, Panic, Early,
      Unauthenticated, BeforeOptions, Merging, Executing
  <2>2. ~ Executed'
    BY <1>1, <2>1 DEF Progress, Executed, launchVars, Early, Unauthenticated,
      BeforeOptions, Merging
  <2>3. QED
    BY <1>1, <1>b, <2>1, <2>2, ToldUntouched DEF launchVars, optVars
<1>2. CASE Parse \/ Flags \/ NotASetting \/ Authenticate
  <2>1. pc \in Early /\ pc' \notin Executing /\ ~ Executed'
    BY <1>2 DEF Parse, Flags, NotASetting, Authenticate, Early,
      Unauthenticated, BeforeOptions, Merging, Executing, Executed, Progress
  <2>2. QED
    BY <1>2, <1>b, <2>1, ToldUntouched DEF Parse, Flags, NotASetting,
      Authenticate, optVars
<1>3. CASE SelectUser
  BY <1>3, ToldBySelectUser
<1>4. CASE SelectGroup
  <2>1. /\ pc = "group" /\ pc' \in {"help", "ended"} /\ ~ Executed'
        /\ UNCHANGED <<user, command>>
    BY <1>4 DEF SelectGroup, Progress, Executed
  <2>2. CASE UNCHANGED <<group, argv>>
    BY <1>b, <2>1, <2>2, ToldUntouched DEF Early, Unauthenticated,
      BeforeOptions, Merging, Executing
  <2>3. CASE pc' = "help" /\ argv' = argv \o <<GroupOption, "group-text">>
    <3> DEFINE s == <<GroupOption, "group-text">>
    <3>1. s \in Seq(Arg) /\ \A i \in 1..Len(s) : s[i] \notin {"--setenv", "--"}
      BY DEF Arg, GroupOption
    <3>2. pc \in Early /\ pc' \in Early
      BY <2>1, <2>3 DEF Early, Unauthenticated, BeforeOptions
    <3>3. QED
      BY <1>b, <2>1, <2>3, <3>1, <3>2, ToldMore
  <2>4. QED
    BY <1>4, <2>2, <2>3 DEF SelectGroup
<1>5. CASE SelectDir
  <2>1. /\ pc = "chdir" /\ pc' = "directory" /\ ~ Executed'
        /\ UNCHANGED <<user, command, group>>
    BY <1>5 DEF SelectDir, Progress, Executed, optVars
  <2>2. pc \in Early /\ pc' \in Early /\ pc' \notin Executing
    BY <2>1 DEF Early, Unauthenticated, Executing
  <2>3. CASE argv' = argv
    BY <1>b, <2>1, <2>2, <2>3, ToldUntouched
  <2>4. CASE argv' = argv \o <<DirOption, "dir">>
    <3> DEFINE s == <<DirOption, "dir">>
    <3>1. s \in Seq(Arg) /\ \A i \in 1..Len(s) : s[i] \notin {"--setenv", "--"}
      BY DEF Arg, DirOption
    <3>2. QED
      BY <1>b, <2>1, <2>2, <2>4, <3>1, ToldMore
  <2>5. QED
    BY <1>5, <2>3, <2>4 DEF SelectDir
<1>6. CASE StayHere
  <2>1. /\ pc = "directory" /\ pc' \in {"target", "ended"} /\ ~ Executed'
        /\ UNCHANGED <<user, command, group>>
    BY <1>6 DEF StayHere, Progress, Executed, optVars
  <2>2. CASE argv' = argv
    BY <1>b, <2>1, <2>2, ToldUntouched DEF Early, Unauthenticated,
      BeforeOptions, Merging, Executing
  <2>3. ASSUME NEW s \in {<<"--chdir", "here">>, <<"--same-dir">>},
               argv' = argv \o s
        PROVE  Told'
    <3>1. s \in Seq(Arg) /\ \A i \in 1..Len(s) : s[i] \notin {"--setenv", "--"}
      <4>1. CASE s = <<"--chdir", "here">>
        BY <4>1 DEF Arg
      <4>2. CASE s = <<"--same-dir">>
        BY <4>2 DEF Arg
      <4>3. QED
        BY <2>3, <4>1, <4>2
    <3>2. CASE pc' = "target"
      <4>1. pc \in Early /\ pc' \in Early
        BY <2>1, <3>2 DEF Early, Unauthenticated
      <4>2. QED
        BY <1>b, <2>1, <2>3, <3>1, <4>1, ToldMore
    <3>3. CASE pc' = "ended"
      <4>1. Basics
        BY DEF Told, Basics
      <4>2. Basics'
        BY <1>b, <2>1, <2>3, <3>1, <4>1, BasicsKept
      <4>3. QED
        BY <2>1, <3>3, <4>2 DEF Told, Basics, Unauthenticated, BeforeOptions,
          Merging, Executing
    <3>4. QED
      BY <2>1, <3>2, <3>3
  <2>4. Append(argv, "--same-dir") = argv \o <<"--same-dir">>
    BY DEF Told
  <2>5. QED
    BY <1>6, <2>2, <2>3, <2>4 DEF StayHere
<1>7. CASE SelectTarget
  <2>1. /\ pc = "target" /\ pc' \in {"authenticate", "ended"} /\ ~ Executed'
        /\ UNCHANGED <<user, command, group>>
    BY <1>7 DEF SelectTarget, Progress, Executed, optVars
  <2>2. CASE argv' = argv
    BY <1>b, <2>1, <2>2, ToldUntouched DEF Early, Unauthenticated,
      BeforeOptions, Merging, Executing
  <2>3. ASSUME NEW s \in {<<"--service-type=exec", "--wait">>,
                          <<"--shell", "--scope">>},
               argv' = argv \o s, pc' = "authenticate"
        PROVE  Told'
    <3>1. s \in Seq(Arg) /\ \A i \in 1..Len(s) : s[i] \notin {"--setenv", "--"}
      <4>1. CASE s = <<"--service-type=exec", "--wait">>
        BY <4>1 DEF Arg
      <4>2. CASE s = <<"--shell", "--scope">>
        BY <4>2 DEF Arg
      <4>3. QED
        BY <2>3, <4>1, <4>2
    <3>2. pc \in Early /\ pc' \in Early
      BY <2>1, <2>3 DEF Early, Unauthenticated
    <3>3. QED
      BY <1>b, <2>1, <2>3, <3>1, <3>2, ToldMore
  <2>4. QED
    BY <1>7, <2>2, <2>3 DEF SelectTarget
<1>8. CASE Assemble
  <2>1. pc = "assemble" /\ pc' = "clean" /\ ~ Executed'
    BY <1>8 DEF Assemble, Progress, Executed
  <2>2. Basics /\ ToldNothing
    BY <2>1 DEF Told, Basics
  <2>3. Basics' /\ ToldVariables' /\ ToldCommand'
    BY <1>8, <2>2, AssembleTells
  <2>4. QED
    BY <2>1, <2>3 DEF Told, Basics, Unauthenticated, BeforeOptions, Merging
<1>9. CASE Clean \/ SetGroups \/ InitGroups \/ SetGid \/ SetUid \/ ChangeDir
           \/ Execute \/ TryDirectory \/ SearchEnds
  <2>1. pc \in Executing /\ pc' \notin Early
    BY <1>9, AfterEach DEF Clean, SetGroups, InitGroups, SetGid, SetUid,
      Change, ChangeDir, Execute, TryDirectory, SearchEnds, Rights, Executing,
      Early, Unauthenticated, BeforeOptions, Merging
  <2>2. env' = env /\ UNCHANGED <<argv, user, group, command>>
    BY <1>9 DEF Clean, SetGroups, InitGroups, SetGid, SetUid, Change,
      ChangeDir, Execute, TryDirectory, SearchEnds, ExecRest, EnvSame, envVars,
      launchVars, optVars
  <2>3. QED
    BY <1>b, <2>1, <2>2, ToldUntouched
<1>10. CASE UNCHANGED <<pc, launchVars>> /\ EnvSame
  BY <1>10, ToldUntouched DEF launchVars, optVars, EnvSame, envVars, Executed
<1>11. QED
  BY <1>1, <1>2, <1>3, <1>4, <1>5, <1>6, <1>7, <1>8, <1>9, <1>10, StepKinds
    DEF OtherStep

-----------------------------------------------------------------------------
(***************************************************************************)
(* The invariant, and what follows from it.                                *)
(***************************************************************************)
(* runas begins with nothing read, set or told. *)
LEMMA InitIInv == Init => IInv
<1> SUFFICES ASSUME Init PROVE IInv
  OBVIOUS
<1>1. /\ pc = "parse" /\ cred = Invoked /\ result = "none" /\ dirs = <<>>
      /\ left = 0 /\ denied = FALSE /\ env = <<>> /\ pam = {}
      /\ file = <<>> /\ read = 0 /\ user = FALSE
      /\ asked = [env |-> {}, preserve |-> {}] /\ trusted = FALSE
      /\ target = "root" /\ group = FALSE /\ argv = BuildArgv
  BY DEF Init, EnvInit
<1>2. EnvTypeOK
  <2>1. DOMAIN env = {}
    BY <1>1
  <2>2. asked \in [env : SUBSET Name, preserve : SUBSET Name]
    BY <1>1
  <2>3. env = <<>> /\ \A n \in DOMAIN env : env[n] \in Source
    BY <1>1, <2>1
  <2>4. build \in Builds /\ caller \in [Name -> {"unset", "text", "bytes"}]
    BY DEF Init, EnvInit
  <2>5. trusted \in BOOLEAN /\ pam \subseteq Name
    BY <1>1
  <2>6. file \in BoundedSeq(Entry, MaxLines) /\ read \in 0..Len(file)
    <3>1. <<>> \in [1..0 -> Entry] /\ 0 \in 0..MaxLines /\ Len(<<>>) = 0
      BY NamesAssumption
    <3>2. <<>> \in BoundedSeq(Entry, MaxLines)
      BY <3>1 DEF BoundedSeq, SeqOf
    <3>3. QED
      BY <1>1, <3>1, <3>2
  <2>7. QED
    BY <2>1, <2>2, <2>3, <2>4, <2>5, <2>6 DEF EnvTypeOK
<1>3. pc \in Place /\ OptionTypes /\ cred \in Credentials /\ result \in Result
  <2>1. pc \in Place /\ result \in Result
    BY <1>1 DEF Place, Unauthenticated, BeforeOptions, Result
  <2>2. Invoked \in Credentials
    BY DEF Invoked, Credentials
  <2>3. special \subseteq {"shell", "help", "version"} /\ command \in BOOLEAN
    BY DEF Init
  <2>4. granted = FALSE
    BY DEF Init
  <2>5. OptionTypes
    BY <1>1, <2>3, <2>4 DEF OptionTypes
  <2>6. QED
    BY <1>1, <2>1, <2>2, <2>5
<1>4. SearchTypes
  <2>1. <<>> \in [1..0 -> Outcome] /\ 0 \in 0..MaxDirs /\ Len(<<>>) = 0
    BY MaxDirsAssumption
  <2>2. dirs \in BoundedSeq(Outcome, MaxDirs)
    BY <1>1, <2>1 DEF BoundedSeq, SeqOf
  <2>3. Len(dirs) = 0 /\ 0 \in 0..0
    BY <1>1, <2>1
  <2>4. left \in 0..Len(dirs)
    BY <1>1, <2>3
  <2>5. denied \in BOOLEAN
    BY <1>1, Zenon
  <2>6. QED
    BY <2>2, <2>4, <2>5 DEF SearchTypes
<1>5. TypeOK
  BY <1>2, <1>3, <1>4, TypeParts
<1>6. /\ Rights /\ Progress /\ CommandRunsAsTarget /\ NothingForbidden
      /\ Searched /\ SearchIsThorough
  BY <1>1 DEF Rights, Progress, CommandRunsAsTarget, NothingForbidden,
    Executed, Searched, SearchIsThorough, Unauthenticated, BeforeOptions,
    Merging, Executing
<1>7. Unasked
  BY <1>1 DEF Unasked, Unauthenticated, BeforeOptions
<1>8. FirstSoFar
  <2>1. SUFFICES ASSUME NEW n \in Name
                 PROVE  First(env, n, Precedence, Providers(n), Merged)
    BY DEF FirstSoFar
  <2>2. DOMAIN env = {} /\ Len(file) = 0 /\ Merged = 3 /\ 1..3 = {1, 2, 3}
    BY <1>1 DEF Merged
  <2>3. ProviderList(n)
    BY <1>2, ProvidersAt DEF Provided
  <2>4. 1 \notin Providers(n) /\ 2 \notin Providers(n) /\ 3 \notin Providers(n)
    BY <1>1, <2>2, <2>3 DEF ProviderList, Readable
  <2>5. QED
    BY <2>2, <2>4 DEF First
<1>9. Told
  <2>1. SUFFICES ASSUME ~ Scopex PROVE Basics /\ ToldNothing
    BY <1>1 DEF Told, Basics, Executing, Executed
  <2>2. build.backend \in {"systemd", "run0"}
    BY <1>2, <2>1, NamesAssumption DEF EnvTypeOK, Backends, Scopex
  <2>3. CASE build.backend = "systemd"
    <3>1. argv = <<"/usr/bin/systemd-run", "systemd-run", "--uid", "0">>
      BY <1>1, <2>3 DEF BuildArgv
    <3>2. QED
      BY <1>1, <3>1 DEF Basics, ToldUser, UserText, ToldGroup, ToldNothing, Arg
  <2>4. CASE build.backend = "run0"
    <3>1. argv = <<"/usr/bin/systemd-run", "run0", "--user", "0">>
      BY <1>1, <2>4 DEF BuildArgv
    <3>2. QED
      BY <1>1, <3>1 DEF Basics, ToldUser, UserText, ToldGroup, ToldNothing, Arg
  <2>5. QED
    BY <2>2, <2>3, <2>4
<1>10. QED
  BY <1>5, <1>6, <1>7, <1>8, <1>9 DEF IInv

(* The invariant is inductive; the parts rest on the types and on Rights. *)
LEMMA StepIInv == IInv /\ [Next]_vars => IInv'
<1> SUFFICES ASSUME IInv, [Next]_vars PROVE IInv'
  OBVIOUS
<1>1. EnvTypeOK /\ OptionTypes /\ SearchTypes
  BY TypeParts DEF IInv
<1>2. TypeOK'
  BY TypesKept DEF IInv
<1>3. Rights' /\ Progress'
  BY RightsKept, ProgressKept DEF IInv
<1>4. CommandRunsAsTarget' /\ NothingForbidden'
  BY <1>1, CommandRunsAsTargetKept, NothingForbiddenKept DEF IInv
<1>5. Searched' /\ SearchIsThorough'
  BY <1>1, SearchKept DEF IInv, SearchInv
<1>6. Unasked' /\ FirstSoFar'
  BY <1>1, UnaskedKept, FirstSoFarKept DEF IInv, Sourced
<1>7. Told'
  BY <1>1, ToldKept DEF IInv
<1>8. QED
  BY <1>2, <1>3, <1>4, <1>5, <1>6, <1>7 DEF IInv

(* The inductive invariant. *)
THEOREM Inductive == Spec => []IInv
BY InitIInv, StepIInv, PTL DEF Spec

(* The state of run() stays within its types. *)
THEOREM TypeCorrect == Spec => []TypeOK
<1>1. IInv => TypeOK
  BY DEF IInv
<1>2. QED
  BY <1>1, Inductive, PTL

(***************************************************************************)
(* Nothing is executed before authenticate() has succeeded, nor with any   *)
(* rights but those of the target: each credential call of exec() adds its *)
(* own, and the place in exec() tells which of them have been made.        *)
(***************************************************************************)
THEOREM RightsOfTarget == Spec => []CommandRunsAsTarget
<1>1. IInv => CommandRunsAsTarget
  BY DEF IInv
<1>2. QED
  BY <1>1, Inductive, PTL

(* No credential call comes after the right to make it was given up. *)
THEOREM OrderIsAllowed == Spec => []NothingForbidden
<1>1. IInv => NothingForbidden
  BY DEF IInv
<1>2. QED
  BY <1>1, Inductive, PTL

(* execvpe() reports what the first directory that decides has said, and   *)
(* EACCES or ENOENT when none does, however long PATH is.                  *)
THEOREM WholePathIsSearched == Spec => []SearchIsThorough
<1>1. IInv => SearchIsThorough
  BY DEF IInv
<1>2. QED
  BY <1>1, Inductive, PTL

(***************************************************************************)
(* The environment of the command has for every variable what the source   *)
(* of the highest precedence says, however long ENV_FILE is.               *)
(***************************************************************************)
THEOREM SourcesInOrder == Spec => []FirstSourceWins
<1>1. IInv => FirstSourceWins
  <2> SUFFICES ASSUME IInv, pc = "assemble", NEW n \in Name
               PROVE  \/ /\ n \notin DOMAIN env
                         /\ \A k \in DOMAIN Precedence : ~ Has(Precedence[k], n)
                      \/ n \in DOMAIN env /\ \E k \in DOMAIN Precedence :
                           /\ env[n] = Precedence[k] /\ Has(Precedence[k], n)
                           /\ \A j \in 1..k - 1 : ~ Has(Precedence[j], n)
    BY DEF FirstSourceWins
  <2>1. DOMAIN Precedence = 1..Merged /\ Len(file) \in Nat
    BY PrecedenceAt, LinesAreSequence DEF IInv, TypeOK, SourceList, Merged
  <2>2. First(env, n, Precedence, Providers(n), Merged)
    BY DEF IInv, FirstSoFar
  <2>3. ASSUME NEW k \in 1..Merged
        PROVE  k \in Providers(n) <=> Has(Precedence[k], n)
    BY <2>1 DEF Providers
  <2>4. ASSUME NEW k \in 1..Merged PROVE 1..k - 1 \subseteq 1..Merged
    BY <2>1 DEF Merged
  <2>5. QED
    BY <2>1, <2>2, <2>3, <2>4 DEF First
<1>2. QED
  BY <1>1, Inductive, PTL

(***************************************************************************)
(* systemd-run is told of the user and the group by the text of the        *)
(* options, of exactly the variables of the environment and, after the one *)
(* "--", of the command.                                                   *)
(***************************************************************************)
THEOREM BackendIsTold == Spec => []BackendIsToldAll
<1>1. IInv => BackendIsToldAll
  <2> SUFFICES ASSUME IInv, Executed, ~ Scopex
               PROVE  /\ \/ Follows("--uid", UserText)
                         \/ Follows("--user", UserText)
                      /\ ToldGroup /\ ToldVariables /\ ToldCommand
    BY DEF BackendIsToldAll, UserText, ToldGroup, ToldVariables, ToldCommand
  <2>1. Basics /\ ToldVariables /\ ToldCommand
    BY ToldParts DEF IInv
  <2>2. 3 \in 1..Len(argv) - 1 /\ 3 + 1 = 4
    BY <2>1 DEF Basics
  <2>3. Follows("--uid", UserText) \/ Follows("--user", UserText)
    BY <2>1, <2>2 DEF Basics, ToldUser, Follows
  <2>4. QED
    BY <2>1, <2>3 DEF Basics
<1>2. QED
  BY <1>1, Inductive, PTL
=============================================================================
