------------------------------- MODULE Launch -------------------------------
(***************************************************************************)
(* run() of main.rs from the command line to the execution of the command, *)
(* with exec() and execvpe() of modules/proc.rs, for the three back ends.  *)
(* The environment is merged in Environment; authenticate() is PamSession, *)
(* and what the supervisor does in the meantime is Supervisor.             *)
(*                                                                         *)
(* An argument vector is a sequence of the arguments that matter here:     *)
(* options that are always the same, terminal handling and wording are     *)
(* left out.                                                               *)
(***************************************************************************)
EXTENDS Environment, FiniteSets

CONSTANT MaxDirs   \* how many directories PATH has at most

ASSUME MaxDirsAssumption == MaxDirs \in Nat

(* The argument after --setenv is NAME=VALUE, which is no option. *)
ASSUME OptionsAssumption == IsFiniteSet(Name) /\ {"--setenv", "--"} \cap Name = {}

VARIABLES
  special,   \* those of --shell, --help and --version that are given
  command,   \* is a command given?
  user,      \* is --user given?
  target,    \* the user to become
  group,     \* is --group given?
  argv,      \* argv
  granted,   \* has authenticate() succeeded?
  cred,      \* the credentials of the process
  dirs,      \* execvpe(): what execve() says in each directory of PATH
  left,      \* how many of them are still to be tried
  denied,    \* permission_denied
  result     \* "none", "usage", "executed", or the error runas ends with

optVars    == <<special, command, user, target, group>>
launchVars == <<optVars, argv, granted, cred, dirs, left, denied, result>>
vars       == <<build, pc, envVars, launchVars>>

(* build_argv(); argv[3] is argv[4] here. *)
BuildArgv ==
  CASE build.backend = "systemd" ->
         <<"/usr/bin/systemd-run", "systemd-run", "--uid", "0">>
    [] build.backend = "run0" ->
         <<"/usr/bin/systemd-run", "run0", "--user", "0">>
    [] build.backend = "scopex" -> <<>>

(* Set-user-ID root, called by a user: only the effective user is root. *)
Invoked ==
  [ruid |-> "self", euid |-> "root", suid |-> "root",
   gid |-> "self", groups |-> "self"]

Init ==
  /\ EnvInit
  /\ pc = "parse"
  /\ special \in SUBSET {"shell", "help", "version"} /\ command \in BOOLEAN
  /\ user = FALSE /\ target = "root" /\ group = FALSE
  /\ argv = BuildArgv
  /\ granted = FALSE /\ cred = Invoked
  /\ dirs = <<>> /\ left = 0 /\ denied = FALSE /\ result = "none"

End(how) == result' = how /\ pc' = "ended"

Go(p) == pc' = p /\ UNCHANGED result

EnvSame == UNCHANGED <<build, envVars>>

-----------------------------------------------------------------------------
(***************************************************************************)
(* Options.                                                                *)
(***************************************************************************)
Excluded ==
  \/ Cardinality(special) > 1
  \/ special # {} /\ command
  \/ special = {} /\ ~ command

Parse ==
  /\ pc = "parse"
  /\ \/ ~ Excluded /\ Go("user")
     \/ End("usage")
  /\ EnvSame /\ UNCHANGED <<optVars, argv, granted, cred, dirs, left, denied>>

(* A seeded fault: the argument before the placeholder is replaced. *)
NameUserOneOff(text) == IF Scopex THEN argv ELSE [argv EXCEPT ![3] = text]

(* argv[3] = value: the text as given, be it a name or a number *)
NameUser(text) == IF Scopex THEN argv ELSE [argv EXCEPT ![4] = text]

(* The account that runas finds for the text becomes the target. *)
SelectUser ==
  /\ pc = "user"
  /\ \/ UNCHANGED <<user, target, argv>> /\ Go("group")
     \/ /\ user' = TRUE /\ target' \in {"root", "other"}
        /\ argv' = NameUser("user-text") /\ Go("group")
     \/ UNCHANGED <<user, target, argv>> /\ End("not valid")
  /\ EnvSame
  /\ UNCHANGED <<special, command, group, granted, cred, dirs, left, denied>>

GroupOption == IF build.backend = "run0" THEN "--group" ELSE "--gid"

(* The group found for the text is for runas, the text for the back end. *)
SelectGroup ==
  /\ pc = "group"
  /\ \/ UNCHANGED <<group, argv>> /\ Go("help")
     \/ /\ group' = TRUE /\ Go("help")
        /\ argv' = IF Scopex THEN argv ELSE argv \o <<GroupOption, "group-text">>
     \/ UNCHANGED <<group, argv>> /\ End("not valid")
  /\ EnvSame
  /\ UNCHANGED <<special, command, user, target, granted, cred, dirs, left, denied>>

(* --help and --version end here; the other flags are noted. *)
Flags ==
  /\ pc = "help"
  /\ IF special \cap {"help", "version"} # {}
     THEN End("usage")
     ELSE Go("env")
  /\ EnvSame /\ UNCHANGED <<optVars, argv, granted, cred, dirs, left, denied>>

(* --env and --preserve-env; the former fails without a '='. *)
EnvironmentOptions ==
  \/ (SetVariable \/ PreserveVariables) /\ UNCHANGED launchVars
  \/ /\ pc = "env" /\ End("usage")
     /\ EnvSame /\ UNCHANGED <<optVars, argv, granted, cred, dirs, left, denied>>

DirOption ==
  IF build.backend = "run0" THEN "--chdir" ELSE "--working-directory"

(* The directory given with --chdir, for the back end; ChangeDir needs none. *)
SelectDir ==
  /\ pc = "chdir"
  /\ argv' \in IF Scopex THEN {argv} ELSE {argv, argv \o <<DirOption, "dir">>}
  /\ Go("directory")
  /\ EnvSame /\ UNCHANGED <<optVars, granted, cred, dirs, left, denied>>

(* The accounts are looked up; without --chdir the command stays here, if the *)
(* current directory has a path.                                              *)
StayHere ==
  /\ pc = "directory"
  /\ \/ Go("target")
     \/ End("no account")
  /\ argv' \in CASE Scopex \/ Contains(argv, "--chdir") -> {argv}
                [] build.backend = "run0" -> {argv, argv \o <<"--chdir", "here">>}
                [] OTHER -> {Append(argv, "--same-dir")}
  /\ EnvSame /\ UNCHANGED <<optVars, granted, cred, dirs, left, denied>>

(* --stdin excludes --shell, and --askpass when there is a command. *)
FlagsExcluded(flags) ==
  "stdin" \in flags /\ (special = {"shell"} \/ "askpass" \in flags)

SelectTarget ==
  /\ pc = "target"
  /\ \E flags \in SUBSET {"stdin", "askpass"} :
       IF FlagsExcluded(flags)
       THEN End("usage") /\ UNCHANGED argv
       ELSE /\ argv' = IF Scopex
                       THEN IF command THEN <<"cmd", "cmd", "arg">> ELSE <<"sh", "-sh">>
                       ELSE CASE build.backend = "run0" -> argv
                              [] command -> argv \o <<"--service-type=exec", "--wait">>
                              [] OTHER   -> argv \o <<"--shell", "--scope">>
            /\ Go("authenticate")
  /\ EnvSame /\ UNCHANGED <<optVars, granted, cred, dirs, left, denied>>

(* authenticate(): whether it succeeds is up to PamSession. *)
Authenticate ==
  /\ pc = "authenticate"
  /\ \/ granted' = TRUE /\ Go("file")
     \/ UNCHANGED granted /\ End("refused")
  /\ EnvSame /\ UNCHANGED <<optVars, argv, cred, dirs, left, denied>>

MergeEnvironment == Merge /\ UNCHANGED launchVars

(* --setenv for every variable, in the order in which the map lists them *)
Settings(order) ==
  [i \in 1..2 * Len(order) |-> IF i % 2 = 1 THEN "--setenv" ELSE order[i \div 2]]

(* systemd-run is told the environment and, after a "--", the command. *)
Assemble ==
  /\ pc = "assemble"
  /\ IF Scopex THEN argv' = argv
     ELSE \E order \in SetToSeqs(DOMAIN env) :
            argv' = argv \o Settings(order)
                         \o IF command THEN <<"--", "cmd", "arg">> ELSE <<>>
  /\ Go("clean")
  /\ EnvSame /\ UNCHANGED <<optVars, granted, cred, dirs, left, denied>>

-----------------------------------------------------------------------------
(***************************************************************************)
(* exec(): runas becomes the target and executes the command.              *)
(***************************************************************************)
ExecRest == EnvSame /\ UNCHANGED <<optVars, argv, granted>>

(* The user whose rights are taken: systemd-run is executed as root. *)
Become == IF Scopex THEN target ELSE "root"

(* A seeded fault: the user is changed before the group. *)
UserBeforeGroup ==
  IF Scopex THEN <<"clean", "setgroups", "initgroups", "uid", "gid", "cwd">>
  ELSE <<"clean", "setgroups", "uid", "gid", "execute">>

CredentialOrder ==
  IF Scopex THEN <<"clean", "setgroups", "initgroups", "gid", "uid", "cwd">>
  ELSE <<"clean", "setgroups", "gid", "uid", "execute">>

After(p) == CredentialOrder[1 + SelectInSeq(CredentialOrder, LAMBDA q : q = p)]

(* clean_environment() lists all variables, too. *)
Clean ==
  /\ pc = "clean"
  /\ pc' = IF Panics THEN "panicked" ELSE After("clean")
  /\ UNCHANGED <<build, envVars, launchVars>>

(* A credential call needs the effective user root, and may still fail. *)
Change(p, new) ==
  /\ pc = p
  /\ IF cred.euid = "root"
     THEN \/ cred' = new /\ Go(After(p))
          \/ UNCHANGED cred /\ End("error")
     ELSE UNCHANGED cred /\ End("EPERM")
  /\ ExecRest /\ UNCHANGED <<dirs, left, denied>>

(* setgroups() *)
SetGroups == Change("setgroups", [cred EXCEPT !.groups = "none"])

(* A seeded fault: the groups are those of the caller. *)
InitGroupsOfCaller == Change("initgroups", [cred EXCEPT !.groups = "self"])

(* initgroups() *)
InitGroups == Change("initgroups", [cred EXCEPT !.groups = target])

(* setresgid() *)
SetGid ==
  Change("gid", [cred EXCEPT !.gid = IF Scopex /\ group THEN "group" ELSE Become])

(* A seeded fault: the first and the last argument are swapped. *)
SetUidSwapped ==
  Change("uid", [cred EXCEPT !.ruid = "self", !.euid = "self", !.suid = Become])

(* setresuid(); execve() will make the saved user the effective one. *)
SetUid ==
  Change("uid", [cred EXCEPT !.ruid = Become, !.euid = Become, !.suid = "self"])

(* What execve() says: ENOENT or ENOTDIR, EACCES, another error, or nothing. *)
Outcome == {"missing", "denied", "error", "executed"}

(* The death signal is armed again, see Supervisor; then chdir().  A name    *)
(* without a '/' is looked up in PATH, the caller's and then the command's.  *)
ChangeDir ==
  /\ pc = "cwd"
  /\ \/ (Go("execute") \/ End("error")) /\ UNCHANGED <<dirs, left>>
     \/ /\ Go("search")
        /\ dirs' \in BoundedSeq(Outcome, MaxDirs) /\ left' = Len(dirs')
  /\ ExecRest /\ UNCHANGED <<cred, denied>>

(* The path of systemd-run, of the shell, or with a '/' in it. *)
Execute ==
  /\ pc = "execute"
  /\ End("executed") \/ End("error")
  /\ ExecRest /\ UNCHANGED <<cred, dirs, left, denied>>

Tried == dirs[1 + Len(dirs) - left]

(* A seeded fault: the search ends at the first file that is not executable. *)
TryDirectoryOnce ==
  /\ pc = "search" /\ left > 0
  /\ left' = left - 1
  /\ denied' = (denied \/ Tried = "denied")
  /\ IF Tried = "missing" THEN Go(pc) ELSE End(IF denied' THEN "EACCES" ELSE Tried)
  /\ ExecRest /\ UNCHANGED <<cred, dirs>>

(* execve() in the next directory: what is missing or denied may be found in *)
(* a later one.                                                              *)
TryDirectory ==
  /\ pc = "search" /\ left > 0
  /\ left' = left - 1
  /\ denied' = (denied \/ Tried = "denied")
  /\ IF Tried \in {"missing", "denied"} THEN Go(pc) ELSE End(Tried)
  /\ ExecRest /\ UNCHANGED <<cred, dirs>>

SearchEnds ==
  /\ pc = "search" /\ left = 0
  /\ End(IF denied THEN "EACCES" ELSE "ENOENT")
  /\ ExecRest /\ UNCHANGED <<cred, dirs, left, denied>>

Next ==
  \/ Parse \/ SelectUser \/ SelectGroup \/ Flags \/ EnvironmentOptions
  \/ SelectDir \/ StayHere \/ SelectTarget \/ Authenticate
  \/ MergeEnvironment \/ Assemble
  \/ Clean \/ SetGroups \/ InitGroups \/ SetGid \/ SetUid \/ ChangeDir
  \/ Execute \/ TryDirectory \/ SearchEnds

Spec == Init /\ [][Next]_vars

-----------------------------------------------------------------------------
TypeOK ==
  /\ EnvTypeOK
  /\ pc \in {"parse", "user", "group", "help", "env", "preserve", "chdir",
             "directory", "target", "authenticate", "file", "lines", "pam",
             "defaults", "assemble", "clean", "setgroups", "initgroups",
             "gid", "uid", "cwd", "execute", "search", "ended", "panicked"}
  /\ special \subseteq {"shell", "help", "version"} /\ command \in BOOLEAN
  /\ user \in BOOLEAN /\ target \in {"root", "other"} /\ group \in BOOLEAN
  /\ granted \in BOOLEAN
  /\ cred \in [ruid : {"self", "root", "other"}, euid : {"root", "other"},
               suid : {"root", "self"}, gid : {"self", "root", "other", "group"},
               groups : {"self", "none", "root", "other"}]
  /\ dirs \in BoundedSeq(Outcome, MaxDirs) /\ left \in 0..Len(dirs)
  /\ denied \in BOOLEAN
  /\ result \in {"none", "usage", "not valid", "no account", "refused",
                 "executed", "error", "EPERM", "EACCES", "ENOENT"}

Executed == result = "executed"

(***************************************************************************)
(* What is executed has passed authenticate() and runs with the rights of  *)
(* the target and no others: user, group and supplementary groups; only    *)
(* the saved user is still the caller.                                     *)
(***************************************************************************)
CommandRunsAsTarget ==
  Executed =>
    /\ granted
    /\ cred = [ruid |-> Become, euid |-> Become, suid |-> "self",
               gid |-> IF Scopex /\ group THEN "group" ELSE Become,
               groups |-> IF Scopex THEN target ELSE "none"]

(***************************************************************************)
(* The credentials change in an order the kernel allows: no call comes     *)
(* when the right to make it has been given up.                            *)
(***************************************************************************)
NothingForbidden == result # "EPERM"

(***************************************************************************)
(* execvpe() ends as the first directory says that has the command or a    *)
(* real error; a file that may not be executed hides none in a later       *)
(* directory, but is what is reported if there is none.                    *)
(***************************************************************************)
SearchIsThorough ==
  pc = "ended" /\ dirs # <<>> =>
    LET Decides(k) == dirs[k] \in {"executed", "error"}
    IN  \/ \E k \in DOMAIN dirs :
             Decides(k) /\ result = dirs[k] /\ \A j \in 1..k - 1 : ~ Decides(j)
        \/ /\ \A k \in DOMAIN dirs : ~ Decides(k)
           /\ result = IF Contains(dirs, "denied") THEN "EACCES" ELSE "ENOENT"

Follows(x, y) == \E i \in 1..Len(argv) - 1 : argv[i] = x /\ argv[i + 1] = y

(***************************************************************************)
(* systemd-run is asked for the user and the group by the very text of the *)
(* options, and for the variables that runas has found, all before the     *)
(* "--" that ends its own options; what follows is the command as given.   *)
(* (Which account systemd-run finds for such a text is its own affair.)    *)
(***************************************************************************)
BackendIsToldAll ==
  Executed /\ ~ Scopex =>
    /\ LET text == IF user THEN "user-text" ELSE "0"
       IN  Follows("--uid", text) \/ Follows("--user", text)
    /\ group => Follows(GroupOption, "group-text")
    /\ \A n \in Name : n \in DOMAIN env <=> Follows("--setenv", n)
    /\ command => \E k \in 1..Len(argv) :
                    /\ SubSeq(argv, k, Len(argv)) = <<"--", "cmd", "arg">>
                    /\ \A j \in 1..k - 1 : argv[j] # "--"

(***************************************************************************)
(* main.rs:128: --chdir means "Run the command in the specified            *)
(* directory"; the back end is told of that one directory.                 *)
(***************************************************************************)
ChdirDecides ==
  Executed /\ ~ Scopex /\ Contains(argv, "dir") => ~ Contains(argv, "--same-dir")
=============================================================================
