# A formal model of runas

`runas` is a set-user-ID program that runs a command as another user. It asks
PAM or the shadow file who the caller is, then either hands the command to
`systemd-run`/`run0` or, in the *scopex* build, executes it itself, with PAM's
session kept open around it by a supervising process.

This directory holds TLA+ modules that model the program, configurations that
check them with TLC, and theorems that TLAPS checks. Paths below are relative to
`src/src/`; `PROJECT.json` gives, for every definition, the lines it stands for.

## 1. Inventory

| Component | Source | State it keeps | Operations | Model |
| --- | --- | --- | --- | --- |
| Fork barrier | `modules/fork_sync.rs` | two pipes, who holds which end | `into_child`, `into_parent`, `ready_and_wait`, `report_failure`, drops | `StartGate`, `ForkSync` |
| Supervisor and child | `modules/auth.rs` after `fork()`, `modules/proc.rs`, `modules/fg_handler.rs`, `modules/signal_recv.rs` | signal mask, pending signals, terminal's foreground group, wait status, parent-death signal | `watch_process`, `ForegroundHandler`, `SignalReceiver`, the child's way through `exec` | `CommandRun`, `Supervisor` |
| Authentication, PAM transaction | `modules/auth.rs`, `ffi/pam.rs` | `PamHandle` (open calls, `session` flag), PAM_USER | `authenticate`, `auth_decision`, `auth`, every call on the handle, its drop | `PamSession`, `Authentication` |
| Password prompt | `modules/passwd.rs`, `modules/signal_recv.rs` | terminal settings, mask, input buffer | `ask_password`, `launch_prompt`, `Prompt` | `Prompt` |
| Askpass helper | `modules/passwd.rs` | password pipe, helper's status, mask | `launch_helper` | `Askpass` |
| Environment | `main.rs`, `modules/env.rs` | the map `env`, runas's own environment | `--env`, `--preserve-env`, `load_overwrite_vars`, `set_environment`, `clean_environment` | `Environment` |
| Command line and launch, path search | `main.rs`, `modules/proc.rs` | options, `argv`, credentials | `run`, `build_argv`, `exec`, `execvpe` | `Launch` |
| PAM conversation | `ffi/pam.rs` | replies in C memory | `pam_conv_wrap`, `pam_conv_process`, `PamResponses` | `Conversation` |
| Shadow back end | `modules/auth.rs`, `ffi/shadow.rs` | none | `auth` without PAM, `getspnam`, `crypt`, `time_compare` | `Shadow` |
| Users and groups | `modules/user.rs` | cached group list | `User::from`, `Group::from`, `Account::from`, `from_uid`, `group_list`, `is_member` | `Accounts` |
| Errors, constants, build scripts | `modules/error.rs`, `shared.rs`, `build.rs` | none | none at run time | no |

How they interact. `run()` parses the options and calls `authenticate()`, which
may call `auth()`; PAM calls back into the conversation, which calls
`ask_password()`, which either reads the terminal or forks an askpass helper
behind a fork barrier. In the scopex build with PAM, `auth()` forks at its end:
the parent stays in `watch_process()` and never returns, the child returns to
`run()`, merges the environment and calls `exec()`. Parent and child share the
two pipes of the barrier, the PAM handle (one of them must not drop it), the
terminal, and whatever signals the kernel sends one because of the other.

What is hard here, and what has to be true of it:

- *Two processes, a kernel and a terminal.* The child must not execute before
  the parent has blocked its signals, handed over the terminal and made the
  process group (`CommandIsWatched`). A child that dies or stops before SIGCHLD
  is blocked must still be noticed (`NoLostWakeup`). Signals, stops and the
  child's death cross; the child's process id must not be signalled after it
  was reaped (`ForwardOnlyToOwnChild`).
- *Either process can be killed anywhere.* The command must not stay behind
  (`NoOrphanCommand`), the barrier must not hang or let one side go on against
  the other (`BarrierEnds`, `NoSplitDecision`).
- *Every call can fail.* PAM's transaction, credentials and session are closed
  exactly once whatever failed (`NothingLeftOpen`, `ProperlyNested`), the
  terminal comes back before signals may stop or end the process
  (`TerminalComesBack`), no half-read answer becomes a password.
- *Order of calls.* Groups, group and user are given up in an order in which
  each call is still permitted (`NothingForbidden`) and the result is the
  target's rights and no others (`CommandRunsAsTarget`); six sources of
  environment variables have a precedence (`FirstSourceWins`).
- *Memory shared with C.* A conversation that fails at its third message has two
  replies in C memory that nobody else will free, or, once handed over, that
  runas must not free (`RepliesHaveOneOwner`).
- *Names, numbers, days.* A user called `1000` is not the user with id 1000; ages
  in days are unset, zero or overflow (`NobodyGainsUnproved`, `ShadowDecides`).
- *What runas inherits.* SIGCHLD may be ignored from the start (`IgnoreChild`);
  variables may be no text (`Panic`).

`PROJECT.json` lists all hazards at their lines, with the properties for them.

## 2. Plan

Modules, most important first. *Done* means modelled and checked; *proved* that
its safety properties are theorems as well.

1. `StartGate`, `ForkSync`: the barrier and its contract. Done, proved,
   including the refinement.
2. `CommandRun`, `Supervisor`: the contract of a command run in a session, and
   the composition of `ForkSync` with the supervisor, the child and the kernel
   that implements it. Done, proved, including the refinement.
3. `PamSession`: the decision who has to authenticate and the PAM transaction.
   Done, proved.
4. `Conversation`, `Shadow`, `Accounts`, and `Authentication`, which composes
   them with `PamSession`. Done, proved.
5. `Prompt`: done, proved. `Askpass`: composes `ForkSync` with the helper. Done,
   proved.
6. `Environment`, and `Launch`, which extends it by the rest of `run()`. Done,
   proved.
7. Next: a contract that `Prompt` and `Askpass` share (a password is asked for
   once, and what comes back is all of what was given or an error), and that
   both implement it; what `exec()` in `Launch` promises to the child of
   `Supervisor`.

Abstract specifications: `StartGate`, implemented by `ForkSync`; `CommandRun`,
implemented by `Supervisor`.

## 3. Modules and the code

### StartGate and ForkSync

`StartGate` is what the callers of the barrier rely on: each side promises at
most once, continues only if both have promised, and aborts only if the other
one withdrew without a promise. It has no pipes.

`ForkSync` starts right after `fork()`, when both processes hold all four
descriptors. `open[s]` is what process `s` still holds; whether `read()` returns
end of file or `write()` EPIPE is decided by `Held`, over both processes, as the
kernel does. Actions: `CloseOnePeerEnd` and `IntoEndpoint` (`into_child`,
`into_parent`, two drops each), `SendReady` and `CloseWriteEnd` (`send_status`),
`ReadStatus`, `ReadEof`, `SendBroken`, `ReportFailure`, `IOError`, and `Vanish`,
the death or early drop of a side. `sent` and, after death, `phase` are history.
`ImplementsGate` maps `sent` to promises and `phase` to decisions.

The module comment in `fork_sync.rs` says that a peer that is gone shows as end
of file. If it is gone before the own READY is written it shows as EPIPE, hence
as an error instead of `Abort`; the model follows the code, callers treat both
alike.

### CommandRun

What whoever has a command run may rely on, without processes, signals or pipes:
the command is started at most once, inside an open session and before anything
is reported; what is reported is its exit code, 128 + n for a signal n that has a
name, 1 for one that has none (a real-time signal, see `Supervisor`), and a
command that was never started is a failure; the session is closed after the
report and never under a running command. `MayLose` says whether the command may
be lost sight of, which is the case exactly if waiting can fail or SIGCHLD was
inherited as ignored. `ImplementsCommandRun` in `Supervisor` maps the child's
state and fate to `command`, the session to `open` and the exit code to `said`;
it covers what a faithful exit code and an honest success mean, and adds that
neither changes afterwards.

### Supervisor

State of the supervisor (`spc`, `mask`, `pending`, `ttou`, `tty`, `session`,
`code`), of the child (`cpc`, `cstate`, `fate`, `report`, `inbox`, `grouped`,
`pdeath`, `noted`, `doomed`) and of the barrier, which is `INSTANCE ForkSync`.
Every system call that another process can observe is an action. The kernel is
modelled as far as the code relies on it:

- a blocked signal is pending once, however often it is sent; SIGCONT and stop
  signals discard each other; an unblocked signal acts by default;
- SIGCHLD is lost when it is not blocked, and not sent when it is ignored; in
  that case the child is also reaped by the kernel;
- `waitpid` reports the latest stop or continue of a living child, or its end.
  nix has no name for a real-time signal (`Named` are the others): for a child
  killed by one its `waitpid()` fails with EINVAL after the kernel has reaped the
  child, which `watch_process()` returns as an error (`ReapUnnamed`), so that
  runas ends with 1 instead of 128 + n;
- the parent-death signal is sent when the parent dies, is cleared by the change
  of credentials and by the execution of a set-user-ID program (`"elevated"`);
- the foreground process group, and SIGTTOU for whoever changes it from the
  background.

`Environment` (the operator) is everyone else: the command exits or is killed,
the shell and operators stop, continue and signal either process. The supervisor
may be killed at every point.

Limits of this module, which are also limits of what it shows:

- With `WaitFaults` (poll or the signalfd failing) `watch_process` leaves a
  living child behind and `CommandIsWatched` does not hold. The run
  `supervisor_sigchld_ignored` shows what does hold then.
- `TerminalReturned` says nothing of a supervisor killed inside its loop; nobody
  can hand the terminal back then.
- A child stopped inside the barrier leaves the supervisor in `read()` until
  somebody continues or kills it. `DeadChildEndsSupervisor` and `StopIsPassedUp`
  therefore speak of children that are dead or of a supervisor in its loop.
  `FatalSignalIsForwarded` speaks of a supervisor anywhere from the moment its
  signals are blocked, and names that window as its exception.
- Which group owned the terminal before is one value; job control between
  several jobs of the shell is not modelled.

### PamSession

`who` is everything `auth_decision()` looks at, chosen freely. Each call on
`PamHandle` is an action that succeeds or fails; a failure leaves `auth()` with
the handle being dropped (`Drop`, `CloseSession`, `DeleteCred`, `PamEnd`, in the
order of `close_session()` and `drop()`). `calls` counts the calls, so that
"closed twice" is visible. After `Fork` the child has the handle too, in a
`ManuallyDrop`. `answer = "lost"` is `watch_process()` failing, in which case
PAM is closed although the command still runs.

### Conversation

One call of `pam_conv_wrap()` after the other. `memory` says of the reply array
(piece 0) and of the answer to each message who owns it: `PamResponses`, PAM, or
nobody any more. `FailMessage` stands for every way to fail that drops the
replies: a message that is null, not UTF-8 or of an unknown style, a callback
that fails, a panic caught by `catch_unwind()`. `FailCopy` is `strdup()`.
Allocation failures come before there is anything to drop (`Allocate`).

### Shadow

`auth()` of the build without PAM: `LookUp`, `CheckAges`, `AskPassword`, `Crypt`,
`Compare`. `MaxDay` is the largest integer, at which `checked_add()` has no
result; -1 stands for all negative ages. A byte is the set of its bits, so that
`TimeCompare` is the code's loop with set operators, and can be compared with
equality. `InForce` is the reference, taken from shadow(5), without sums. What
`crypt()` computes is any hash that is not empty.

### Accounts

`First`, `ByName`, `UserById` and `GroupById` are what `getpwnam()` and its like
do with lists in which names and ids may be repeated; `Find` is the code's rule
for `#1000`, `1000` and `alice`, which `User::from` and `Group::from` share;
`AccountOf`, `GroupList` and `IsMember` are the methods of `Account`. `Facts`
are the questions `authenticate()` asks. The list in `group_list` is computed
once and nothing it depends on changes, so it needs no state. Parsing of
numbers is left out; a text that is no name and no number finds nobody.

### Authentication

The composition. Initially it chooses databases, a caller, arguments and a build,
computes `Facts` for `PamSession`'s `who`, and keeps in `claim` what the same
caller is entitled to by a definition of its own (`Claim`, `Rights`, `Stands`),
which does not look anything up. Then PAM's modules may converse, any number of
times, during each call of the transaction that lets them (`Serving`), and the
transaction goes on only between conversations; without PAM `Shadow` runs
instead and `ShadowSays` hands its verdict to the caller.

`--non-interactive` decides which calls of PAM are made. `Conv::prompt()` does
not look at it: a module of PAM that asks the user something during account
management or while the session is opened is answered from the terminal even
then, although the option is documented as "don't prompt for password". The run
`noninteractive_prompts` shows it (`NonInteractivePromptsNobody`).

### Prompt

One process in `ask_password()` and `launch_prompt()`: block signals, save and
switch the terminal, read bytes, and on every way out the drops of `Prompt` and
`SignalReceiver` in their order, then `raise()` of the signal that interrupted,
and the prompt anew if that returns. `buffer` and `overflow` are the code's;
`text` is what a user believes to have typed, `owed` the signals that arrived
and have not acted. Only PROMPT_SIGNALS are blocked. Any other signal that stops
or ends a process by default (SIGALRM, SIGUSR1, SIGTTIN, SIGTTOU, and SIGSTOP and
SIGKILL, which nobody can block) acts at once, with the terminal as it is
(`ArriveUnheld`: runas is `"paused"` or `"killed"`). `TerminalComesBack` speaks of
the ways in which runas leaves the prompt by itself or by one of PROMPT_SIGNALS,
and does not claim that the terminal is back after such a signal.

### Askpass

`launch_helper()` with the barrier (`INSTANCE ForkSync`), a helper that writes,
closes its output, starts offspring that inherits the pipe, stops, ends, and a
runas that can be killed anywhere. A byte is a character, CR or LF, since the
line end is stripped by up to two bytes, or `"bad"`, which makes the answer
anything but UTF-8 and is refused at the end (`Utf8`). An answer of exactly
MAX_INPUT_LEN bytes is accepted with LF after it, but refused with CR LF, for
which the buffer has no room; `PasswordIsWholeAnswer` says what a password is
when there is one, not that there is one. SIGINT stands for SIGHUP, SIGQUIT and
SIGTERM, which the code treats alike. `TypeOK` is stated part by part, for runas,
the child and the bytes.

A helper killed by a signal without a name ends `launch_helper()` with the error
of `waitpid()` (`ReapUnnamed`, as in `Supervisor`). If runas was started with
SIGCHLD ignored (`IgnoreChild`), the kernel reaps the helper and no signal comes:
`launch_helper()` then waits for ever for the status of a helper that is gone, as
`watch_process()` does (finding `supervisor_hangs`). `NoLostWakeup` and
`AskpassEnds` are claims about a runas started with SIGCHLD at its default, and
the run and the theorem say so.

### Environment and Launch

A value in the environment is modelled by its source, for instance
`<<"file", 2>>`; `FirstSourceWins` compares the merged map with a definition of
precedence written without reference to the order of the code. The lines of
`/etc/runas.env` are chosen when it is opened (`file`) and read one by one
(`read`). Lines that are malformed or for other users change nothing and are not
enumerated; placeholders are wording. A line that is `Unreadable` (not UTF-8, or
the disk fails) ends the reading (`LineFails`): what was read before it stays in
force, what follows it is lost. `Has` says exactly that, see also section 7.

`Launch` goes through the options in the order of `ARGV_SCHEME`, with each error
that ends it, the argument vector of `systemd-run` and `run0` (the arguments that
carry something; `--quiet` and the like are left out; the user and the group are
passed on as the text of the option, `"user-text"` and `"group-text"`, not as the
account runas has found for it, and without `--user` as `"0"`), `Authenticate` as a
choice (its inside is `PamSession`), the merge, the `--setenv` options in whatever
order the hash map lists the variables (`Assemble`), and `exec()`: the credential
calls, each of which needs effective user root, and the path search as a
sequence of answers of `execve()`. What the supervisor does meanwhile, and the
parent-death signal, is in `Supervisor`.

## 4. Runs

| Run | Configuration | Question | Result |
| --- | --- | --- | --- |
| `fork_barrier` | `MCForkSync.cfg` | Do the sides agree, end, and implement the gate under every interleaving with deaths and I/O errors? | holds |
| `supervisor` | `MCSupervisor.cfg` | Is the command watched, never orphaned; is the contract `CommandRun` implemented; are ends, stops and signals passed on? | holds |
| `supervisor_sigchld_ignored` | `MCSupervisorNoChld.cfg` | Is no command left behind even when SIGCHLD is ignored and waiting fails? | holds |
| `supervisor_pam_close` | `MCSupervisorPam.cfg` | Is PAM always closed before runas ends? (comment in `auth.rs`) | violated |
| `supervisor_hangs` | `MCSupervisorHang.cfg` | Does a dead child end the supervisor when SIGCHLD was inherited as ignored? | violated |
| `authentication` | `MCAuthentication.cfg` | Over all small passwd, group and shadow files: who gets in, is everything closed once and in order, who owns the replies? | holds |
| `noninteractive_prompts` | `MCAuthenticationPrompt.cfg` | Is nobody prompted with `--non-interactive`? (README, help text) | violated |
| `prompt` | `MCPrompt.cfg` | Terminal, signals and buffer of the prompt | holds |
| `askpass` | `MCAskpass.cfg` | Is the password the helper's whole answer; is no event missed, no helper left? | holds |
| `askpass_echild` | `MCAskpassEchild.cfg` | Is a proper answer always accepted? | violated |
| `launch` | `MCLaunch.cfg` | Environment, credentials, argument vector, path search | holds |
| `launch_chdir` | `MCLaunchChdir.cfg` | Does `--chdir` decide the directory? | violated |

The five violated properties each state what a comment or the documentation says;
`PROJECT.json` quotes it under "findings", with the line where the code differs.

Deadlock is not checked: all these programs end.

Bounds and why they are enough:

- `ForkSync` and `PamSession` are finite and have no bounds; every byte, call and
  fault of the code is there. `IOFaults = TRUE` only adds behaviours.
- `Supervisor`: `MaxEvents = 3` stops, continues and signals from outside. Three
  is what the longest entanglement needs: a stop from outside, a continue, and a
  signal in the middle of either. Ends and kills are not counted. `EnvSignals`
  has one signal of each kind the code or the kernel distinguishes: SIGTERM
  (fatal), SIGCHLD (forged), SIGCONT, SIGTSTP. `ExitCodes` has success and a
  failure, `KillSignals` a signal that has a name and one that has none.
  `MaxEvents` bounds the environment, never the program.
- `Authentication`: one or two users and AUTH_GROUP with another group or without,
  ids 0 and 1, one name that is a word and one of digits: enough for names and
  numbers to collide, for ids to be shared by two names, for a primary group to
  be missing, and for a second entry to be hidden by the first. Two messages
  (`PAM_MAX_NUM_MSG = 2`), so that the second can fail after the first was
  answered. Days and ages up to `MaxDay = 2`, so that a sum of two ages can be
  reached, exceeded by a day, and overflow. Four hashes: empty, two of the same
  length, and one of which another is a prefix. The theorems have no such bounds.
- `Prompt`: `MaxInputLen = 2` and `MaxTyped = 4` bytes let a line be shorter than
  the limit, reach it, exceed it by two, and be erased back below it.
  `MaxEvents = 3`: a signal that interrupts, one that arrives until the mask is
  restored, and one between `raise()` and the next prompt. One fatal signal is
  ignored from the start.
- `Askpass`: `MaxInputLen = 1`, `MaxWritten = 3` allow an answer with a line end
  of one and of two bytes and one that is too long, from two writers, in chunks,
  with a byte that is not UTF-8 at any place of them.
- `Launch`: three builds (PAM matters only to the native one), two names (one
  set from the account, one kept from the caller), so that each pair of sources
  can compete; two lines of the file, so that they can name the same variable,
  be listed in either order, and be cut off or preceded by one that is
  unreadable; two directories, so that one can follow the other. The names
  differ from `--setenv` and `--` (`OptionsAssumption`): the argument that
  carries one is `NAME=VALUE`.

## 5. Fairness

Weak fairness throughout, and only for what the operating system schedules:

- `ForkSync!FairSpec`: each side's own steps (`Proceed(s)`), not its failures.
- `Supervisor`: `SupervisorStep`, `ChildStep`, `DeathSignalArrives`. A stopped or
  blocked process has no step enabled, so it is not forced on. Nothing is
  assumed of the command, the shell or operators.
- `Prompt`: `Proceed`; nobody has to type, or to continue a stopped process.
- `Askpass`: `RunasStep`, `ChildStep`, `DeathSignalArrives`; the helper may run,
  or keep silent, for ever.

No liveness property relies on an action of the user. `Launch` and
`Authentication` have no liveness properties: runas's own steps cannot loop there,
and nothing makes a module of PAM stop asking.

## 6. Theorems

`*_proofs.tla` hold the theorems, for all values of the constants that satisfy
the named assumptions, which are only that bounds are natural numbers, flags are
Boolean, signal sets consist of signals, and the names of variables are finitely
many and no options. In each module a type lemma comes
first, then a strengthened invariant with one step per action, then the theorems
that follow from it.

- `ForkSync_proofs`. Inductive invariant: what was sent matches the phase
  (`SentMatchesPhase`), the pipe holds exactly what was sent and not yet read
  (`PipeCarriesStatus`, `ConsumedMeansDecided`), the descriptors held match the
  phase (`OpenMatchesPhase`), and every decision is justified by what the peer
  sent (`DecisionsJustified`). Without the descriptors an end of file could not
  be shown to mean that the peer sent nothing. Theorems: `TypeCorrect`,
  `ReadyBeforeContinue`, `Agreement`, `Refinement` (steps map to steps of the
  gate or stutter).
- `Supervisor_proofs`. The barrier's results are reused through the instance.
  The invariant relates the two program counters to the barrier's phases
  (`ParentPlace`, `ChildPlace`), says when the parent-death signal is armed or
  already sent (`Leashed`), that mask, group and terminal are set before the
  barrier opens (`Prepared`, `LetGo`), that nothing about the child is unseen
  (`Informed`), that the code comes from the fate (`Accounted`), and that the
  terminal is with whom it should be (`TerminalKept`), and that what was reported
  fits what became of the child (`Told`). Theorems: type correctness, the safety
  properties of the run `supervisor`, and `RunRefinement`, that every step is one
  of `CommandRun` or changes nothing of it; `FaithfulExitCode` and
  `HonestSuccess` state two consequences directly: the first also says what runas
  ends with after a signal without a name. Those that depend on waiting not
  failing or on SIGCHLD not being ignored say so.
- `PamSession_proofs`. The invariant counts the calls by place (`Bookkeeping`),
  and carries what has been established on the way to each place (`Clearance`,
  `Accompanied`). Theorems: the safety properties of the transaction alone, without
  the conversations it lets PAM have.
- `Authentication_proofs`. The parts first. `FactsAreClaims`: what the look-ups
  tell `authenticate()` of a caller is what passwd and group, of any length,
  entitle it to; this needs that the first match is found, hence the least of a
  set of natural numbers. `TimeCompareIsEquality`, and `InactivityNeverDecides`:
  the code's third branch on ages is never the one that refuses. `ShadowInv` and
  `ConvInv` are inductive for their modules (`Held`: while messages are looked
  at, exactly the answers given so far are held). Then the whole: `AuthInv` joins
  them with the invariant of `PamSession_proofs`, which the answer of the shadow
  file keeps although no call of PAM was made (`ShadowAnswers`; it needs
  `AskedForReason`, that without a fork nobody is asked for a password who needs
  none). Theorems: all properties of the run `authentication`, for all databases,
  ages, hashes and numbers of messages. The assumption on the databases is only
  that they are lists.
- `Prompt_proofs`. `Places` ties terminal, `saved` and mask to the place in the
  code; `NoSignalLost` and `KeptIsPrefix` (the buffer is the beginning of what
  was typed, the rest is counted in `overflow`) are inductive with it.
  Theorems: all safety properties of `prompt`, for every length of input.

- `Askpass_proofs`. As in `Supervisor_proofs`, runas and the child drive the
  barrier through its own actions only (`ImplementsBarrier`), so that its
  invariant holds too. `Control` ties the places of the two to its phases and to
  the mask (`RunasPlace`, `ChildPlace`), says when the parent-death signal is
  armed or sent (`Leashed`), when SIGCHLD has to be pending (`Noticed`: a child
  that died before the signals were blocked is why runas cannot announce itself)
  and that `status` is the helper's end (`Accounted`). `Books` is an account of
  the bytes: buffer and pipe together are what was written, unless a byte was
  dropped, which `overflow` remembers (`Ledger`). `WholeAnswer` needs both: the
  whole answer is there only when no writer is left, and a password only when
  the helper has ended well. Theorems: all safety properties of `askpass`;
  `WakeupKept` assumes that SIGCHLD was not inherited as ignored.
- `Launch_proofs`, on `Environment` as well. The invariant has independent parts
  that share the types and `Rights`. `Rights`: the credentials at each place of
  `exec()` are those that the calls before it have taken; with `Progress`
  (nothing after `authenticate()` is reached without it) it gives
  `RightsOfTarget` and `OrderIsAllowed`. `Searched`: no directory tried so far
  decided, and `denied` is what they said. `FirstSoFar`: the map has for every
  variable what the first source says, of those merged already (`Merged`), where
  a line of the file is a source of its own; `Unasked` says that the sources to
  come are still empty and that no line read so far was unreadable.
  `NoProviders` passes over the lines behind one that is. `NextProvider` is the
  one lemma about `or_insert()`, and is used for a line, for PAM and twice in
  `set_environment()`. `Told`: the argument vector has the texts given for user
  and group at their places, has neither `--setenv` nor `--` before `Assemble`
  and all of the environment after it, which needs that a sequence of all
  elements of a finite set misses none (`OrderCovers`). Theorems: all properties
  of the run `launch`, for any number of variables, of lines and of directories.

Each of these invariants was model-checked on the instance of its run before it
was proved. With that, every safety property that a run checks is a theorem.
Only model-checked are the liveness properties, since fairness and ENABLED are
beyond the provers used: `BarrierEnds`, `DeadChildEndsSupervisor`,
`StopIsPassedUp`, `FatalSignalIsForwarded`, `OrphanEnds`, `SignalsAct` and
`AskpassEnds`.

## 7. What is not modelled

- A panic in the child that is forked for an askpass helper. It would unwind to
  `catch_unwind()` in `pam_conv_wrap()` and return to PAM in that child.
  `Conversation` has the panic, in the process PAM called; `Askpass` has the
  child's errors, which end it.
- Reuse of process group numbers after an askpass helper was reaped, and a SIGCONT
  that overtakes the stop it answers; see the hazards without a property.
- What the repository's README (lines 193-195) says of a broken ENV_FILE, that a
  file which cannot be read is ignored and malformed entries are skipped, is not
  what the code does with a line that cannot be read or is not UTF-8
  (`modules/env.rs:174`): the lines before it stay in force, those behind it are
  lost. The model has the code's behaviour (`LineFails`), and `FirstSourceWins`
  holds the code to that, not to the documentation.
- That a variable which is not UTF-8 is skipped, as the repository's README
  (lines 139-140) says of ENV_FILE, is true of a name in that file and of
  `--preserve-env`, but with the native executor no command is run at all then:
  `env::vars()` panics (`modules/env.rs:68` and `102`). The model has the panic
  (`Panic` in `Environment`); no run asks about it.
- Which account `systemd-run` or `run0` finds for the text it is given. runas
  itself reads `#1000` as a number and `1000` as a name first
  (`modules/user.rs:130`), and authenticates for what it found; that both mean
  the same account by a text is not shown.
- PAM's modules, `systemd-run`, the kernel's checks of path names: outside this
  program. PAM calls succeed or fail, `execve()` gives one of four answers.
- Parsing of single values (names, numbers, lines of the file), wording of
  messages, zeroing of memory, and the timing of the comparison of hashes.
- `error.rs`, `shared.rs`, `build.rs`, `validate.sh`: no state at run time.
