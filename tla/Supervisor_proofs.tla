-------------------------- MODULE Supervisor_proofs --------------------------
(***************************************************************************)
(* Proofs about the supervisor and its child, for every set of signals and *)
(* exit codes and any number of outside events.  What the barrier between  *)
(* them guarantees is taken from ForkSync_proofs: the two processes drive  *)
(* it only through its own actions.                                        *)
(***************************************************************************)
EXTENDS Supervisor, TLAPS

FP == INSTANCE ForkSync_proofs

(* Where a process stands in the barrier follows from its place in the code. *)
ParentPlace ==
  /\ spc = "fork" /\ sstate # "dead" => phase["parent"] \in {"forked", "closing"}
  /\ spc \in Loop \/ sstate = "dead" => phase["parent"] \notin FS!Undecided
  /\ spc \in Setup \ {"handshake"} => sent["parent"] = "none"

ChildPlace ==
  cstate \in Living =>
    /\ cpc = "fork" => phase["child"] \in {"forked", "closing"}
    /\ cpc \in {"arm", "group"} => phase["child"] = "endpoint"
    /\ cpc = "handshake" => phase["child"] \in {"endpoint", "announced", "waiting"}
    /\ cpc \in {"note", "switch", "rearm", "check", "exec", "command"}
         => phase["child"] = "continue"

(* Once the child has told its parent that it is ready, the death of that  *)
(* parent does not escape it.                                              *)
Leashed ==
  cstate \in Living =>
    /\ cpc \in {"group", "handshake", "note", "switch", "check", "exec"}
         => pdeath = "armed"
    /\ cpc = "command" => pdeath \in {"armed", "elevated"}
    /\ cpc \in {"switch", "rearm", "check"} => noted = "supervisor" \/ doomed
    /\ sstate = "dead" =>
         /\ cpc = "handshake" /\ phase["child"] \in {"announced", "waiting"}
              => doomed
         /\ cpc \in {"note", "switch", "exec"} => doomed
         /\ cpc = "command" => doomed \/ pdeath = "elevated"

(* What the supervisor has set up, and until when. *)
Prepared ==
  /\ spc \in {"foreground", "group", "handshake", "untty", "unmask"} \cup Loop => mask
  /\ spc \in {"group", "handshake", "untty"} \cup Loop => ttou
  /\ spc \in {"handshake"} \cup Loop => grouped
  /\ spc \notin {"exit", "done"} => session

(* The supervisor lets go only of a child that is reaped or was never      *)
(* going to pass the barrier.                                              *)
LetGo ==
  ~ WaitFaults /\ spc \in Release => cstate = "reaped" \/ sent["parent"] = "none"

(* What waitpid() makes of the child's end. *)
Verdict(f) == IF Expressible(f) THEN CodeOf(f) ELSE 1

(* What the supervisor knows of its child when SIGCHLD does reach it. *)
Informed ==
  ~ IgnoreChild =>
    /\ NoLostWakeup
    /\ cstate = "stopped" /\ spc \notin {"suspend", "resume"} => report = "stopped"
    /\ cstate = "reaped" => spc \in Release /\ code = Verdict(fate)

(* What stands behind the exit code. *)
Accounted ==
  /\ cstate \in Living <=> fate = NoFate
  /\ fate = Exited(0) => cpc = "command"
  /\ code = 0 => cpc = "command" /\ fate = Exited(0)

TerminalKept ==
  spc \in {"fork", "install", "foreground", "suspend", "resume"}
            \cup (Release \ {"untty"})
    => tty # "command"

IInv ==
  /\ TypeOK
  /\ ParentPlace /\ ChildPlace
  /\ Leashed
  /\ Prepared /\ LetGo
  /\ Informed
  /\ Accounted
  /\ TerminalKept

-----------------------------------------------------------------------------
(***************************************************************************)
(* The barrier inside the supervisor.                                      *)
(***************************************************************************)
LEMMA IOFaultsIsBoolean == IOFaults \in BOOLEAN
BY ConstantsAssumption

LEMMA SameBarrier ==
  /\ FP!Init <=> FS!Init
  /\ FP!Next <=> FS!Next
  /\ FP!syncVars = fsVars
BY DEF FP!Init, FS!Init, FP!Next, FS!Next, FP!syncVars, fsVars,
  FP!Side, FS!Side, FP!Other, FS!Other, FP!ReadEnd, FS!ReadEnd,
  FP!WriteEnd, FS!WriteEnd, FP!Descriptor, FS!Descriptor,
  FP!Undecided, FS!Undecided, FP!Held, FS!Held, FP!LeaveAs, FS!LeaveAs,
  FP!ClosedFirst, FS!ClosedFirst, FP!SendStatus, FS!SendStatus,
  FP!Proceed, FS!Proceed, FP!CloseOnePeerEnd, FS!CloseOnePeerEnd,
  FP!IntoEndpoint, FS!IntoEndpoint, FP!SendReady, FS!SendReady,
  FP!CloseWriteEnd, FS!CloseWriteEnd, FP!SendBroken, FS!SendBroken,
  FP!ReportFailure, FS!ReportFailure, FP!ReadStatus, FS!ReadStatus,
  FP!ReadEof, FS!ReadEof, FP!IOError, FS!IOError, FP!Vanish, FS!Vanish

(* The two processes drive the barrier through its own actions only. *)
LEMMA BarrierStep == [Next]_vars => [FS!Next]_fsVars
<1> SUFFICES ASSUME [Next]_vars PROVE FS!Next \/ UNCHANGED fsVars
  OBVIOUS
<1> USE DEF FS!Next, FS!Proceed, FS!Side
<1>1. CASE SupervisorStep
  BY <1>1 DEF SupervisorStep, ParentEndpoint, InstallReceiver,
    InstallForeground, ParentGroups, SetupFails, ParentHandshake,
    ReceiveChildSignal, ForwardSignal, WaitFails, ReapChild, ReapUnnamed,
    ChildIsGone, SeeChildStopped, SeeChildContinued, Suspend, Resume,
    NothingToReap, DropForeground, DropReceiver, DropPipe, ClosePam, Exit,
    SupervisorEnds, DropEndpoint
<1>2. CASE ChildStep
  BY <1>2 DEF ChildStep, ChildEndpoint, ArmBeforeBarrier, ChildGroups,
    ChildHandshake, NoteParent, SwitchCredentials, Rearm, CheckParent,
    OrphanKillsItself, Execute, EndAborted, ChildEnds, DropEndpoint
<1>3. CASE DeathSignalArrives
  BY <1>3 DEF DeathSignalArrives, ChildEnds, DropEndpoint
<1>4. CASE Environment
  BY <1>4 DEF Environment, CommandExits, ActOnSignal, ChildKilled, PreludeFails,
    StopChild, ContinueChild, SignalBlocked, SignalUnblocked, StopSupervisor,
    KillSupervisor, SupervisorEnds, ChildEnds, DropEndpoint
<1>5. CASE UNCHANGED vars
  BY <1>5 DEF vars
<1>6. QED
  BY <1>1, <1>2, <1>3, <1>4, <1>5 DEF Next

LEMMA BarrierInvariant == FP!IInv /\ [Next]_vars => FP!IInv'
<1> SUFFICES ASSUME FP!IInv, [Next]_vars PROVE FP!IInv'
  OBVIOUS
<1>1. [FS!Next]_fsVars
  BY BarrierStep
<1>2. FP!Next \/ UNCHANGED FP!syncVars
  BY <1>1, SameBarrier DEF FP!syncVars, fsVars
<1>3. QED
  BY <1>2, FP!StepInvariant, IOFaultsIsBoolean

(* The whole system implements the barrier, hence the gate. *)
THEOREM ImplementsBarrier == Spec => FS!Spec
<1>1. Init => FS!Init
  BY DEF Init
<1>2. QED
  BY <1>1, BarrierStep, PTL DEF Spec, FS!Spec, FS!syncVars, fsVars

LEMMA BarrierRanges ==
  FP!IInv => /\ FS!TypeOK
             /\ phase \in [{"parent", "child"} -> FS!Phase]
             /\ sent \in [{"parent", "child"} -> {"none", "READY", "FAILED"}]
BY DEF FP!IInv, FP!TypeOK, FS!TypeOK, FP!Side, FS!Side, FP!Phase, FS!Phase,
  FP!Status, FS!Status, FP!Descriptor, FS!Descriptor, FP!ReadEnd, FS!ReadEnd,
  FP!WriteEnd, FS!WriteEnd

(* A process may send only while the other one holds its read end, and a   *)
(* side that continues has a peer that reported READY.                     *)
LEMMA BarrierFacts ==
  FP!IInv => /\ phase["parent"] \notin FS!Undecided /\ phase["child"] = "endpoint"
                  => ~ FS!Held(FS!ReadEnd("parent"))
             /\ phase["child"] = "continue" => sent["parent"] = "READY"
BY DEF FP!IInv, FP!OpenMatchesPhase, FP!DecisionsJustified, FP!Side, FP!Other,
  FP!ReadEnd, FP!WriteEnd, FP!Undecided, FS!Side, FS!ReadEnd, FS!Undecided,
  FS!Held

-----------------------------------------------------------------------------
(***************************************************************************)
(* The parts of the invariant, each preserved by every step.               *)
(***************************************************************************)

(* The code and the barrier stay in step. *)
LEMMA PlacesKept ==
  FP!IInv /\ ParentPlace /\ ChildPlace /\ [Next]_vars => (ParentPlace /\ ChildPlace)'
<1> SUFFICES ASSUME FP!IInv, ParentPlace, ChildPlace, [Next]_vars
             PROVE  (ParentPlace /\ ChildPlace)'
  OBVIOUS
<1>1. CASE SupervisorStep
  <2>1. CASE ParentEndpoint
    BY <2>1, BarrierRanges
      DEF ParentEndpoint, At, FS!CloseOnePeerEnd, FS!IntoEndpoint, fsVars,
        supVars, childVars, ParentPlace, ChildPlace, Living, Loop, Setup,
        FS!Undecided
  <2>2. CASE ParentHandshake
    BY <2>2, BarrierRanges
      DEF ParentHandshake, At, FirstTurn, FS!SendReady, FS!SendStatus,
        FS!CloseWriteEnd, FS!ReadStatus, FS!ReadEof, FS!SendBroken,
        FS!IOError, FS!LeaveAs, fsVars, supVars, childVars, ParentPlace,
        ChildPlace, Living, Loop, Setup, FS!Undecided
  <2>3. CASE DropReceiver
    BY <2>3, BarrierRanges
      DEF DropReceiver, At, DropEndpoint, FS!Vanish, FS!LeaveAs, fsVars,
        supVars, childVars, ParentPlace, ChildPlace, Living, Loop, Setup,
        FS!Undecided
  <2>4. CASE DropPipe
    BY <2>4, BarrierRanges
      DEF DropPipe, At, DropEndpoint, FS!Vanish, FS!LeaveAs, fsVars, supVars,
        childVars, ParentPlace, ChildPlace, Living, Loop, Setup, FS!Undecided
  <2>5. CASE Exit
    BY <2>5, BarrierRanges
      DEF Exit, At, SupervisorEnds, DropEndpoint, FS!Vanish, FS!LeaveAs,
        fsVars, supVars, childVars, ParentPlace, ChildPlace, Living, Loop,
        Setup, FS!Undecided
  <2>6. QED
    BY <1>1, <2>1, <2>2, <2>3, <2>4, <2>5, BarrierRanges
      DEF SupervisorStep, InstallReceiver, SetupFails, ReceiveChildSignal,
        WaitFails, ReapChild, ReapUnnamed, ChildIsGone, Suspend, NothingToReap,
        ClosePam, ParentGroups, SeeChildContinued, InstallForeground,
        SeeChildStopped, DropForeground, ForwardSignal, Resume, At,
        GiveTerminal, SignalGroup, WithChildSignal, fsVars, supVars, childVars,
        ParentPlace, ChildPlace, Living, Loop, Setup, FS!Undecided, Prelude
<1>2. CASE ChildStep
  <2>1. CASE ChildEndpoint
    BY <2>1, BarrierRanges
      DEF ChildEndpoint, ChildAt, ChildOnly, FS!CloseOnePeerEnd,
        FS!IntoEndpoint, fsVars, supVars, childVars, ParentPlace, ChildPlace,
        Living, Loop, Setup, FS!Undecided
  <2>2. CASE ChildHandshake
    BY <2>2, BarrierRanges
      DEF ChildHandshake, ChildAt, ChildOnly, AfterBarrier, FS!SendReady,
        FS!SendStatus, FS!CloseWriteEnd, FS!ReadStatus, FS!ReadEof,
        FS!SendBroken, FS!IOError, FS!LeaveAs, fsVars, supVars, childVars,
        ParentPlace, ChildPlace, Living, Loop, Setup, FS!Undecided
  <2>3. QED
    BY <1>2, <2>1, <2>2, BarrierRanges
      DEF ChildStep, ArmBeforeBarrier, ChildGroups, SwitchCredentials, Rearm,
        Execute, NoteParent, CheckParent, OrphanKillsItself, EndAborted,
        ChildAt, ChildOnly, Parent, ChildEnds, WithChildSignal, DropEndpoint,
        FS!Vanish, FS!LeaveAs, fsVars, supVars, childVars, ParentPlace,
        ChildPlace, Living, Loop, Setup, FS!Undecided, Prelude
<1>3. CASE DeathSignalArrives
  BY <1>3, BarrierRanges
    DEF DeathSignalArrives, ChildEnds, WithChildSignal, DropEndpoint,
      FS!Vanish, FS!LeaveAs, fsVars, supVars, childVars, ParentPlace,
      ChildPlace, Living, Loop, Setup, FS!Undecided
<1>4. CASE Environment
  BY <1>4, BarrierRanges
    DEF Environment, CommandExits, ActOnSignal, ChildKilled, PreludeFails,
      StopChild, ContinueChild, SignalBlocked, SignalUnblocked,
      StopSupervisor, KillSupervisor, ChildAt, ChildEnds, WithChildSignal,
      DropEndpoint, FS!Vanish, FS!LeaveAs, ChildStops, Event, SupRest,
      ChildRest, SignalGroup, SupervisorEnds, fsVars, supVars, childVars,
      ParentPlace, ChildPlace, Living, Loop, Setup, FS!Undecided, Prelude
<1>5. CASE UNCHANGED vars
  BY <1>5
    DEF vars, fsVars, supVars, childVars, ParentPlace, ChildPlace, Living,
      Loop, Setup, FS!Undecided
<1>6. QED
  BY <1>1, <1>2, <1>3, <1>4, <1>5 DEF Next

(* No step frees the child of the parent-death signal while it is needed. *)
LEMMA LeashKept ==
  FP!IInv /\ ParentPlace /\ ChildPlace /\ Leashed /\ [Next]_vars => Leashed'
<1> SUFFICES ASSUME FP!IInv, ParentPlace, ChildPlace, Leashed, [Next]_vars
             PROVE  Leashed'
  OBVIOUS
<1>1. CASE SupervisorStep
  <2>1. CASE DropReceiver
    BY <2>1, BarrierRanges
      DEF DropReceiver, At, DropEndpoint, FS!Vanish, FS!LeaveAs, fsVars,
        supVars, childVars, Leashed, Living
  <2>2. CASE Exit
    BY <2>2, BarrierRanges
      DEF Exit, At, SupervisorEnds, DropEndpoint, FS!Vanish, FS!LeaveAs,
        fsVars, supVars, childVars, Leashed, Living
  <2>3. QED
    BY <1>1, <2>1, <2>2, BarrierRanges
      DEF SupervisorStep, ParentEndpoint, InstallReceiver, SetupFails,
        ReceiveChildSignal, WaitFails, ReapChild, ReapUnnamed, ChildIsGone,
        Suspend, NothingToReap, ClosePam, ParentGroups, SeeChildContinued,
        InstallForeground, SeeChildStopped, DropForeground, ParentHandshake,
        ForwardSignal, Resume, DropPipe, At, FS!CloseOnePeerEnd,
        FS!IntoEndpoint, GiveTerminal, FirstTurn, FS!SendReady, FS!SendStatus,
        FS!CloseWriteEnd, FS!ReadStatus, FS!ReadEof, FS!SendBroken, FS!IOError,
        FS!LeaveAs, SignalGroup, WithChildSignal, DropEndpoint, FS!Vanish,
        fsVars, supVars, childVars, Leashed, Living, ChildPlace, Prelude
<1>2. CASE ChildStep
  <2>1. CASE ChildEndpoint
    BY <2>1, BarrierRanges
      DEF ChildEndpoint, ChildAt, ChildOnly, FS!CloseOnePeerEnd,
        FS!IntoEndpoint, fsVars, supVars, childVars, Leashed, Living
  <2>2. CASE SwitchCredentials
    BY <2>2, BarrierRanges
      DEF SwitchCredentials, ChildAt, ChildOnly, fsVars, supVars, childVars,
        Leashed, Living
  <2>3. CASE Execute
    BY <2>3, BarrierRanges
      DEF Execute, ChildAt, ChildOnly, fsVars, supVars, childVars, Leashed,
        Living
  <2>4. CASE NoteParent
    BY <2>4, BarrierRanges
      DEF NoteParent, ChildAt, ChildOnly, Parent, fsVars, supVars, childVars,
        Leashed, Living
  <2>5. CASE CheckParent
    BY <2>5, BarrierRanges
      DEF CheckParent, ChildAt, ChildOnly, Parent, fsVars, supVars, childVars,
        Leashed, Living
  <2>6. CASE ChildHandshake
    BY <2>6, BarrierRanges, BarrierFacts
      DEF ChildHandshake, ChildAt, ChildOnly, AfterBarrier, FS!SendReady,
        FS!SendStatus, FS!CloseWriteEnd, FS!ReadStatus, FS!ReadEof,
        FS!SendBroken, FS!IOError, FS!LeaveAs, fsVars, supVars, childVars,
        Leashed, Living, ParentPlace, ChildPlace, FS!Other
  <2>7. QED
    BY <1>2, <2>1, <2>2, <2>3, <2>4, <2>5, <2>6, BarrierRanges
      DEF ChildStep, ArmBeforeBarrier, ChildGroups, Rearm, OrphanKillsItself,
        EndAborted, ChildAt, ChildOnly, Parent, ChildEnds, WithChildSignal,
        DropEndpoint, FS!Vanish, FS!LeaveAs, fsVars, supVars, childVars,
        Leashed, Living, ChildPlace, Prelude
<1>3. CASE DeathSignalArrives
  BY <1>3, BarrierRanges
    DEF DeathSignalArrives, ChildEnds, WithChildSignal, DropEndpoint,
      FS!Vanish, FS!LeaveAs, fsVars, supVars, childVars, Leashed, Living
<1>4. CASE Environment
  BY <1>4, BarrierRanges
    DEF Environment, CommandExits, ActOnSignal, ChildKilled, PreludeFails,
      StopChild, ContinueChild, SignalBlocked, SignalUnblocked,
      StopSupervisor, KillSupervisor, ChildAt, ChildEnds, WithChildSignal,
      DropEndpoint, FS!Vanish, FS!LeaveAs, ChildStops, Event, SupRest,
      ChildRest, SignalGroup, SupervisorEnds, fsVars, supVars, childVars,
      Leashed, Living, ChildPlace, Prelude
<1>5. CASE UNCHANGED vars
  BY <1>5
    DEF vars, fsVars, supVars, childVars, Leashed, Living
<1>6. QED
  BY <1>1, <1>2, <1>3, <1>4, <1>5 DEF Next

(* The ways to end, and the exit codes made of them. *)
LEMMA FateRange ==
  /\ Exited(1) \in Fates /\ Signaled(SIGKILL) \in Fates
  /\ \A c \in ExitCodes : Exited(c) \in Fates
  /\ \A s \in Fatal \cup KillSignals : Signaled(s) \in Fates
BY ConstantsAssumption DEF Fates, Fatal, SIGHUP, SIGINT, SIGQUIT, SIGKILL,
  SIGALRM, SIGTERM

LEMMA CodeRange ==
  \A f \in Fates \ {NoFate} : CodeOf(f) \in 0..255
BY DEF Fates, CodeOf, Exited, Signaled

(* The supervisor undoes its preparations only after it has left the loop. *)
LEMMA PreparationKept ==
  FP!IInv /\ Prepared /\ [Next]_vars => Prepared'
<1> SUFFICES ASSUME FP!IInv, Prepared, [Next]_vars
             PROVE  Prepared'
  OBVIOUS
<1>1. CASE SupervisorStep
  <2>1. CASE ParentHandshake
    BY <2>1
      DEF ParentHandshake, At, FirstTurn, FS!SendReady, FS!SendStatus,
        FS!CloseWriteEnd, FS!ReadStatus, FS!ReadEof, FS!SendBroken,
        FS!IOError, FS!LeaveAs, fsVars, supVars, childVars, Prepared, Loop,
        Release
  <2>2. CASE DropReceiver
    BY <2>2
      DEF DropReceiver, At, DropEndpoint, FS!Vanish, FS!LeaveAs, fsVars,
        supVars, childVars, Prepared, Loop, Release
  <2>3. QED
    BY <1>1, <2>1, <2>2
      DEF SupervisorStep, ParentEndpoint, InstallReceiver, SetupFails,
        ReceiveChildSignal, WaitFails, ReapChild, ReapUnnamed, ChildIsGone,
        Suspend, NothingToReap, ClosePam, ParentGroups, SeeChildContinued,
        InstallForeground, SeeChildStopped, DropForeground, ForwardSignal,
        Resume, DropPipe, Exit, At, FS!CloseOnePeerEnd, FS!IntoEndpoint,
        GiveTerminal, SignalGroup, WithChildSignal, DropEndpoint, FS!Vanish,
        FS!LeaveAs, SupervisorEnds, fsVars, supVars, childVars, Prepared, Loop,
        Release
<1>2. CASE ChildStep
  BY <1>2
    DEF ChildStep, ChildEndpoint, ArmBeforeBarrier, ChildGroups,
      SwitchCredentials, Rearm, Execute, NoteParent, CheckParent,
      ChildHandshake, OrphanKillsItself, EndAborted, ChildAt, ChildOnly,
      FS!CloseOnePeerEnd, FS!IntoEndpoint, Parent, AfterBarrier, FS!SendReady,
      FS!SendStatus, FS!CloseWriteEnd, FS!ReadStatus, FS!ReadEof,
      FS!SendBroken, FS!IOError, FS!LeaveAs, ChildEnds, WithChildSignal,
      DropEndpoint, FS!Vanish, fsVars, supVars, childVars, Prepared, Loop,
      Release
<1>3. CASE DeathSignalArrives
  BY <1>3
    DEF DeathSignalArrives, ChildEnds, WithChildSignal, DropEndpoint,
      FS!Vanish, FS!LeaveAs, fsVars, supVars, childVars, Prepared, Loop,
      Release
<1>4. CASE Environment
  BY <1>4
    DEF Environment, CommandExits, ActOnSignal, ChildKilled, PreludeFails,
      StopChild, ContinueChild, SignalBlocked, SignalUnblocked,
      StopSupervisor, KillSupervisor, ChildAt, ChildEnds, WithChildSignal,
      DropEndpoint, FS!Vanish, FS!LeaveAs, ChildStops, Event, SupRest,
      ChildRest, SignalGroup, SupervisorEnds, fsVars, supVars, childVars,
      Prepared, Loop, Release
<1>5. CASE UNCHANGED vars
  BY <1>5
    DEF vars, fsVars, supVars, childVars, Prepared, Loop, Release
<1>6. QED
  BY <1>1, <1>2, <1>3, <1>4, <1>5 DEF Next

(* The supervisor leaves its loop only for a child that is reaped. *)
LEMMA LetGoKept ==
  FP!IInv /\ ParentPlace /\ ChildPlace /\ LetGo /\ [Next]_vars => LetGo'
<1> SUFFICES ASSUME FP!IInv, ParentPlace, ChildPlace, LetGo, [Next]_vars
             PROVE  LetGo'
  OBVIOUS
<1>1. CASE SupervisorStep
  <2>1. CASE ParentEndpoint
    BY <2>1, BarrierRanges
      DEF ParentEndpoint, At, FS!CloseOnePeerEnd, FS!IntoEndpoint, fsVars,
        supVars, childVars, LetGo, Release, Loop, Living
  <2>2. CASE SetupFails
    BY <2>2, BarrierRanges
      DEF SetupFails, At, fsVars, supVars, childVars, LetGo, Release, Loop,
        Living, ParentPlace, Setup
  <2>3. CASE ParentGroups
    BY <2>3, BarrierRanges, BarrierFacts
      DEF ParentGroups, At, fsVars, supVars, childVars, LetGo, Release, Loop,
        Living, ParentPlace, ChildPlace, Setup
  <2>4. CASE ParentHandshake
    BY <2>4, BarrierRanges
      DEF ParentHandshake, At, FirstTurn, FS!SendReady, FS!SendStatus,
        FS!CloseWriteEnd, FS!ReadStatus, FS!ReadEof, FS!SendBroken,
        FS!IOError, FS!LeaveAs, fsVars, supVars, childVars, LetGo, Release,
        Loop, Living
  <2>5. QED
    BY <1>1, <2>1, <2>2, <2>3, <2>4, BarrierRanges
      DEF SupervisorStep, InstallReceiver, ReceiveChildSignal, WaitFails,
        ReapChild, ReapUnnamed, ChildIsGone, Suspend, NothingToReap, ClosePam,
        SeeChildContinued, InstallForeground, SeeChildStopped, DropForeground,
        ForwardSignal, Resume, DropReceiver, DropPipe, Exit, At, GiveTerminal,
        SignalGroup, WithChildSignal, DropEndpoint, FS!Vanish, FS!LeaveAs,
        SupervisorEnds, fsVars, supVars, childVars, LetGo, Release, Loop,
        Living
<1>2. CASE ChildStep
  <2>1. CASE ChildEndpoint
    BY <2>1, BarrierRanges
      DEF ChildEndpoint, ChildAt, ChildOnly, FS!CloseOnePeerEnd,
        FS!IntoEndpoint, fsVars, supVars, childVars, LetGo, Release, Loop,
        Living
  <2>2. CASE ChildHandshake
    BY <2>2, BarrierRanges
      DEF ChildHandshake, ChildAt, ChildOnly, AfterBarrier, FS!SendReady,
        FS!SendStatus, FS!CloseWriteEnd, FS!ReadStatus, FS!ReadEof,
        FS!SendBroken, FS!IOError, FS!LeaveAs, fsVars, supVars, childVars,
        LetGo, Release, Loop, Living, FS!Other
  <2>3. QED
    BY <1>2, <2>1, <2>2, BarrierRanges
      DEF ChildStep, ArmBeforeBarrier, ChildGroups, SwitchCredentials, Rearm,
        Execute, NoteParent, CheckParent, OrphanKillsItself, EndAborted,
        ChildAt, ChildOnly, Parent, ChildEnds, WithChildSignal, DropEndpoint,
        FS!Vanish, FS!LeaveAs, fsVars, supVars, childVars, LetGo, Release,
        Loop, Living
<1>3. CASE DeathSignalArrives
  BY <1>3, BarrierRanges
    DEF DeathSignalArrives, ChildEnds, WithChildSignal, DropEndpoint,
      FS!Vanish, FS!LeaveAs, fsVars, supVars, childVars, LetGo, Release, Loop,
      Living
<1>4. CASE Environment
  BY <1>4, BarrierRanges
    DEF Environment, CommandExits, ActOnSignal, ChildKilled, PreludeFails,
      StopChild, ContinueChild, SignalBlocked, SignalUnblocked,
      StopSupervisor, KillSupervisor, ChildAt, ChildEnds, WithChildSignal,
      DropEndpoint, FS!Vanish, FS!LeaveAs, ChildStops, Event, SupRest,
      ChildRest, SignalGroup, SupervisorEnds, fsVars, supVars, childVars,
      LetGo, Release, Loop, Living
<1>5. CASE UNCHANGED vars
  BY <1>5
    DEF vars, fsVars, supVars, childVars, LetGo, Release, Loop, Living
<1>6. QED
  BY <1>1, <1>2, <1>3, <1>4, <1>5 DEF Next

(* Every change of the child's state is seen, or SIGCHLD is pending. *)
LEMMA InformationKept ==
  Prepared /\ ParentPlace /\ Informed /\ [Next]_vars => Informed'
<1> SUFFICES ASSUME Prepared, ParentPlace, Informed, [Next]_vars
             PROVE  Informed'
  OBVIOUS
<1>1. CASE SupervisorStep
  <2>1. CASE ReceiveChildSignal
    BY <2>1
      DEF ReceiveChildSignal, At, fsVars, supVars, childVars, Informed,
        NoLostWakeup, Living, Loop, Release
  <2>2. CASE ReapChild \/ ReapUnnamed
    BY <2>2
      DEF ReapChild, ReapUnnamed, At, fsVars, supVars, childVars, Informed,
        NoLostWakeup, Living, Loop, Release, Verdict
  <2>3. CASE Suspend
    BY <2>3
      DEF Suspend, At, fsVars, supVars, childVars, Informed, NoLostWakeup,
        Living, Loop, Release
  <2>4. CASE NothingToReap
    BY <2>4
      DEF NothingToReap, At, fsVars, supVars, childVars, Informed,
        NoLostWakeup, Living, Loop, Release
  <2>5. CASE ParentHandshake
    BY <2>5
      DEF ParentHandshake, At, FirstTurn, FS!SendReady, FS!SendStatus,
        FS!CloseWriteEnd, FS!ReadStatus, FS!ReadEof, FS!SendBroken,
        FS!IOError, FS!LeaveAs, fsVars, supVars, childVars, Informed,
        NoLostWakeup, Living, Loop, Release
  <2>6. ASSUME NEW s \in RECEIVED_SIGNALS, ForwardSignal(s)
        PROVE  Informed'
    BY <2>6
      DEF ForwardSignal, At, SignalGroup, WithChildSignal, fsVars, supVars,
        childVars, Informed, NoLostWakeup, Living, Loop, Release, Prepared
  <2>7. CASE Resume
    BY <2>7
      DEF Resume, At, SignalGroup, WithChildSignal, GiveTerminal, fsVars,
        supVars, childVars, Informed, NoLostWakeup, Living, Loop, Release
  <2>8. QED
    BY <1>1, <2>1, <2>2, <2>3, <2>4, <2>5, <2>6, <2>7
      DEF SupervisorStep, ParentEndpoint, InstallReceiver, SetupFails,
        WaitFails, ChildIsGone, ClosePam, ParentGroups, SeeChildContinued,
        InstallForeground, SeeChildStopped, DropForeground, DropReceiver,
        DropPipe, Exit, At, FS!CloseOnePeerEnd, FS!IntoEndpoint, GiveTerminal,
        DropEndpoint, FS!Vanish, FS!LeaveAs, SupervisorEnds, fsVars, supVars,
        childVars, Informed, NoLostWakeup, Living, Loop, Release, Prepared,
        SIGCHLD, SIGCONT, SIGTSTP, Setup
<1>2. CASE ChildStep
  BY <1>2
    DEF ChildStep, ChildEndpoint, ArmBeforeBarrier, ChildGroups,
      SwitchCredentials, Rearm, Execute, NoteParent, CheckParent,
      ChildHandshake, OrphanKillsItself, EndAborted, ChildAt, ChildOnly,
      FS!CloseOnePeerEnd, FS!IntoEndpoint, Parent, AfterBarrier, FS!SendReady,
      FS!SendStatus, FS!CloseWriteEnd, FS!ReadStatus, FS!ReadEof,
      FS!SendBroken, FS!IOError, FS!LeaveAs, ChildEnds, WithChildSignal,
      DropEndpoint, FS!Vanish, fsVars, supVars, childVars, Informed,
      NoLostWakeup, Living, Loop, Release, Prepared, SIGCHLD, SIGCONT,
      SIGTSTP, Setup
<1>3. CASE DeathSignalArrives
  BY <1>3
    DEF DeathSignalArrives, ChildEnds, WithChildSignal, DropEndpoint,
      FS!Vanish, FS!LeaveAs, fsVars, supVars, childVars, Informed,
      NoLostWakeup, Living, Loop, Release, Prepared, Setup
<1>4. CASE Environment
  BY <1>4
    DEF Environment, CommandExits, ActOnSignal, ChildKilled, PreludeFails,
      StopChild, ContinueChild, SignalBlocked, SignalUnblocked,
      StopSupervisor, KillSupervisor, ChildAt, ChildEnds, WithChildSignal,
      DropEndpoint, FS!Vanish, FS!LeaveAs, ChildStops, Event, SupRest,
      ChildRest, SignalGroup, SupervisorEnds, fsVars, supVars, childVars,
      Informed, NoLostWakeup, Living, Loop, Release, Prepared, SIGCHLD,
      SIGCONT, SIGTSTP, Setup
<1>5. CASE UNCHANGED vars
  BY <1>5
    DEF vars, fsVars, supVars, childVars, Informed, NoLostWakeup, Living,
      Loop, Release
<1>6. QED
  BY <1>1, <1>2, <1>3, <1>4, <1>5 DEF Next

(* Only an executed command can end with exit code 0. *)
LEMMA AccountKept ==
  ChildTypeOK /\ Accounted /\ [Next]_vars => Accounted'
<1> SUFFICES ASSUME ChildTypeOK, Accounted, [Next]_vars
             PROVE  Accounted'
  OBVIOUS
<1>1. CASE SupervisorStep
  <2>1. CASE ReapChild
    BY <2>1
      DEF ReapChild, At, fsVars, supVars, childVars, Accounted, Living,
        Exited, Signaled, NoFate, ChildTypeOK, Fates, CodeOf
  <2>2. CASE ParentHandshake
    BY <2>2
      DEF ParentHandshake, At, FirstTurn, FS!SendReady, FS!SendStatus,
        FS!CloseWriteEnd, FS!ReadStatus, FS!ReadEof, FS!SendBroken,
        FS!IOError, FS!LeaveAs, fsVars, supVars, childVars, Accounted, Living,
        Exited, Signaled, NoFate
  <2>3. QED
    BY <1>1, <2>1, <2>2
      DEF SupervisorStep, ParentEndpoint, InstallReceiver, SetupFails,
        ReceiveChildSignal, WaitFails, ReapUnnamed, ChildIsGone, Suspend,
        NothingToReap, ClosePam, ParentGroups, SeeChildContinued,
        InstallForeground, SeeChildStopped, DropForeground, ForwardSignal,
        Resume, DropReceiver, DropPipe, Exit, At, FS!CloseOnePeerEnd,
        FS!IntoEndpoint, GiveTerminal, SignalGroup, WithChildSignal,
        DropEndpoint, FS!Vanish, FS!LeaveAs, SupervisorEnds, fsVars, supVars,
        childVars, Accounted, Living, Exited,
        Signaled, NoFate, Prelude
<1>2. CASE ChildStep
  BY <1>2
    DEF ChildStep, ChildEndpoint, ArmBeforeBarrier, ChildGroups,
      SwitchCredentials, Rearm, Execute, NoteParent, CheckParent,
      ChildHandshake, OrphanKillsItself, EndAborted, ChildAt, ChildOnly,
      FS!CloseOnePeerEnd, FS!IntoEndpoint, Parent, AfterBarrier, FS!SendReady,
      FS!SendStatus, FS!CloseWriteEnd, FS!ReadStatus, FS!ReadEof,
      FS!SendBroken, FS!IOError, FS!LeaveAs, ChildEnds, WithChildSignal,
      DropEndpoint, FS!Vanish, fsVars, supVars, childVars, Accounted, Living,
      Exited, Signaled, NoFate, Prelude
<1>3. CASE DeathSignalArrives
  BY <1>3
    DEF DeathSignalArrives, ChildEnds, WithChildSignal, DropEndpoint,
      FS!Vanish, FS!LeaveAs, fsVars, supVars, childVars, Accounted, Living,
      Exited, Signaled, NoFate
<1>4. CASE Environment
  BY <1>4
    DEF Environment, CommandExits, ActOnSignal, ChildKilled, PreludeFails,
      StopChild, ContinueChild, SignalBlocked, SignalUnblocked,
      StopSupervisor, KillSupervisor, ChildAt, ChildEnds, WithChildSignal,
      DropEndpoint, FS!Vanish, FS!LeaveAs, ChildStops, Event, SupRest,
      ChildRest, SignalGroup, SupervisorEnds, fsVars, supVars, childVars,
      Accounted, Living, Exited, Signaled, NoFate, Prelude
<1>5. CASE UNCHANGED vars
  BY <1>5
    DEF vars, fsVars, supVars, childVars, Accounted, Living, Exited, Signaled,
      NoFate
<1>6. QED
  BY <1>1, <1>2, <1>3, <1>4, <1>5 DEF Next

(* The terminal is given back before the supervisor stops or leaves. *)
LEMMA TerminalStays ==
  Prepared /\ TerminalKept /\ [Next]_vars => TerminalKept'
<1> SUFFICES ASSUME Prepared, TerminalKept, [Next]_vars
             PROVE  TerminalKept'
  OBVIOUS
<1>1. CASE SupervisorStep
  <2>1. CASE SeeChildStopped
    BY <2>1
      DEF SeeChildStopped, At, GiveTerminal, fsVars, supVars, childVars,
        TerminalKept, Release, Loop, Prepared
  <2>2. CASE DropForeground
    BY <2>2
      DEF DropForeground, At, GiveTerminal, fsVars, supVars, childVars,
        TerminalKept, Release, Loop, Prepared
  <2>3. CASE ParentHandshake
    BY <2>3
      DEF ParentHandshake, At, FirstTurn, FS!SendReady, FS!SendStatus,
        FS!CloseWriteEnd, FS!ReadStatus, FS!ReadEof, FS!SendBroken,
        FS!IOError, FS!LeaveAs, fsVars, supVars, childVars, TerminalKept,
        Release, Loop
  <2>4. QED
    BY <1>1, <2>1, <2>2, <2>3
      DEF SupervisorStep, ParentEndpoint, InstallReceiver, SetupFails,
        ReceiveChildSignal, WaitFails, ReapChild, ReapUnnamed, ChildIsGone,
        Suspend, NothingToReap, ClosePam, ParentGroups, SeeChildContinued,
        InstallForeground, ForwardSignal, Resume, DropReceiver, DropPipe, Exit,
        At, FS!CloseOnePeerEnd, FS!IntoEndpoint, GiveTerminal, SignalGroup,
        WithChildSignal, DropEndpoint, FS!Vanish, FS!LeaveAs, SupervisorEnds,
        fsVars, supVars, childVars, TerminalKept, Release, Loop
<1>2. CASE ChildStep
  BY <1>2
    DEF ChildStep, ChildEndpoint, ArmBeforeBarrier, ChildGroups,
      SwitchCredentials, Rearm, Execute, NoteParent, CheckParent,
      ChildHandshake, OrphanKillsItself, EndAborted, ChildAt, ChildOnly,
      FS!CloseOnePeerEnd, FS!IntoEndpoint, Parent, AfterBarrier, FS!SendReady,
      FS!SendStatus, FS!CloseWriteEnd, FS!ReadStatus, FS!ReadEof,
      FS!SendBroken, FS!IOError, FS!LeaveAs, ChildEnds, WithChildSignal,
      DropEndpoint, FS!Vanish, fsVars, supVars, childVars, TerminalKept,
      Release, Loop
<1>3. CASE DeathSignalArrives
  BY <1>3
    DEF DeathSignalArrives, ChildEnds, WithChildSignal, DropEndpoint,
      FS!Vanish, FS!LeaveAs, fsVars, supVars, childVars, TerminalKept,
      Release, Loop
<1>4. CASE Environment
  BY <1>4
    DEF Environment, CommandExits, ActOnSignal, ChildKilled, PreludeFails,
      StopChild, ContinueChild, SignalBlocked, SignalUnblocked,
      StopSupervisor, KillSupervisor, ChildAt, ChildEnds, WithChildSignal,
      DropEndpoint, FS!Vanish, FS!LeaveAs, ChildStops, Event, SupRest,
      ChildRest, SignalGroup, SupervisorEnds, fsVars, supVars, childVars,
      TerminalKept, Release, Loop
<1>5. CASE UNCHANGED vars
  BY <1>5
    DEF vars, fsVars, supVars, childVars, TerminalKept, Release, Loop
<1>6. QED
  BY <1>1, <1>2, <1>3, <1>4, <1>5 DEF Next

(* The variables of the supervisor stay in their ranges. *)
LEMMA SupervisorTypesKept ==
  SupervisorTypeOK /\ ChildTypeOK /\ Accounted /\ [Next]_vars => SupervisorTypeOK'
<1> SUFFICES ASSUME SupervisorTypeOK, ChildTypeOK, Accounted, [Next]_vars
             PROVE  SupervisorTypeOK'
  OBVIOUS
<1>1. CASE SupervisorStep
  <2>1. CASE ParentEndpoint
    BY <2>1
      DEF ParentEndpoint, At, FS!CloseOnePeerEnd, FS!IntoEndpoint, fsVars,
        supVars, childVars, SupervisorTypeOK, Loop, Release, Setup
  <2>2. CASE InstallReceiver
    BY <2>2
      DEF InstallReceiver, At, fsVars, supVars, childVars, SupervisorTypeOK,
        Loop, Release, Setup
  <2>3. CASE SetupFails
    BY <2>3
      DEF SetupFails, At, fsVars, supVars, childVars, SupervisorTypeOK, Loop,
        Release, Setup
  <2>4. CASE ReceiveChildSignal
    BY <2>4
      DEF ReceiveChildSignal, At, fsVars, supVars, childVars,
        SupervisorTypeOK, Loop, Release, Setup
  <2>5. CASE WaitFails
    BY <2>5
      DEF WaitFails, At, fsVars, supVars, childVars, SupervisorTypeOK, Loop,
        Release, Setup
  <2>6. CASE ReapChild
    BY <2>6, CodeRange
      DEF ReapChild, At, fsVars, supVars, childVars, SupervisorTypeOK, Loop,
        Release, Setup, ChildTypeOK, Accounted, Living
  <2>7. CASE ReapUnnamed \/ ChildIsGone
    BY <2>7
      DEF ReapUnnamed, ChildIsGone, At, fsVars, supVars, childVars,
        SupervisorTypeOK, Loop, Release, Setup
  <2>8. CASE Suspend
    BY <2>8
      DEF Suspend, At, fsVars, supVars, childVars, SupervisorTypeOK, Loop,
        Release, Setup
  <2>9. CASE ClosePam
    BY <2>9
      DEF ClosePam, At, fsVars, supVars, childVars, SupervisorTypeOK, Loop,
        Release, Setup
  <2>10. CASE ParentGroups
    BY <2>10
      DEF ParentGroups, At, fsVars, supVars, childVars, SupervisorTypeOK,
        Loop, Release, Setup
  <2>11. CASE InstallForeground
    BY <2>11
      DEF InstallForeground, At, GiveTerminal, fsVars, supVars, childVars,
        SupervisorTypeOK, Loop, Release, Setup
  <2>12. CASE SeeChildStopped
    BY <2>12
      DEF SeeChildStopped, At, GiveTerminal, fsVars, supVars, childVars,
        SupervisorTypeOK, Loop, Release, Setup
  <2>13. CASE DropForeground
    BY <2>13
      DEF DropForeground, At, GiveTerminal, fsVars, supVars, childVars,
        SupervisorTypeOK, Loop, Release, Setup
  <2>14. CASE ParentHandshake
    BY <2>14
      DEF ParentHandshake, At, FirstTurn, FS!SendReady, FS!SendStatus,
        FS!CloseWriteEnd, FS!ReadStatus, FS!ReadEof, FS!SendBroken,
        FS!IOError, FS!LeaveAs, fsVars, supVars, childVars, SupervisorTypeOK,
        Loop, Release, Setup
  <2>15. ASSUME NEW s \in RECEIVED_SIGNALS, ForwardSignal(s)
        PROVE  SupervisorTypeOK'
    BY <2>15
      DEF ForwardSignal, At, SignalGroup, WithChildSignal, fsVars, supVars,
        childVars, SupervisorTypeOK, Loop, Release, Setup, RECEIVED_SIGNALS
  <2>16. CASE Resume
    BY <2>16
      DEF Resume, At, SignalGroup, WithChildSignal, GiveTerminal, fsVars,
        supVars, childVars, SupervisorTypeOK, Loop, Release, Setup,
        RECEIVED_SIGNALS
  <2>17. CASE DropReceiver
    BY <2>17
      DEF DropReceiver, At, DropEndpoint, FS!Vanish, FS!LeaveAs, fsVars,
        supVars, childVars, SupervisorTypeOK, Loop, Release, Setup
  <2>18. CASE DropPipe
    BY <2>18
      DEF DropPipe, At, DropEndpoint, FS!Vanish, FS!LeaveAs, fsVars, supVars,
        childVars, SupervisorTypeOK, Loop, Release, Setup
  <2>19. CASE Exit
    BY <2>19
      DEF Exit, At, SupervisorEnds, DropEndpoint, FS!Vanish, FS!LeaveAs,
        fsVars, supVars, childVars, SupervisorTypeOK, Loop, Release, Setup
  <2>20. QED
    BY <1>1, <2>1, <2>2, <2>3, <2>4, <2>5, <2>6, <2>7, <2>8, <2>9, <2>10,
       <2>11, <2>12, <2>13, <2>14, <2>15, <2>16, <2>17, <2>18, <2>19
      DEF SupervisorStep, NothingToReap, SeeChildContinued, At, fsVars,
        supVars, childVars, SupervisorTypeOK, Loop, Release, Setup
<1>2. CASE ChildStep
  <2>1. CASE OrphanKillsItself
    BY <2>1
      DEF OrphanKillsItself, ChildAt, Parent, ChildEnds, WithChildSignal,
        DropEndpoint, FS!Vanish, FS!LeaveAs, fsVars, supVars, childVars,
        SupervisorTypeOK, Loop, Release, Setup, RECEIVED_SIGNALS
  <2>2. CASE EndAborted
    BY <2>2
      DEF EndAborted, ChildAt, ChildEnds, WithChildSignal, DropEndpoint,
        FS!Vanish, FS!LeaveAs, fsVars, supVars, childVars, SupervisorTypeOK,
        Loop, Release, Setup, RECEIVED_SIGNALS
  <2>3. QED
    BY <1>2, <2>1, <2>2
      DEF ChildStep, ChildEndpoint, ArmBeforeBarrier, ChildGroups,
        SwitchCredentials, Rearm, Execute, NoteParent, CheckParent,
        ChildHandshake, ChildAt, ChildOnly, FS!CloseOnePeerEnd,
        FS!IntoEndpoint, Parent, AfterBarrier, FS!SendReady, FS!SendStatus,
        FS!CloseWriteEnd, FS!ReadStatus, FS!ReadEof, FS!SendBroken,
        FS!IOError, FS!LeaveAs, fsVars, supVars, childVars, SupervisorTypeOK,
        Loop, Release, Setup
<1>3. CASE DeathSignalArrives
  BY <1>3
    DEF DeathSignalArrives, ChildEnds, WithChildSignal, DropEndpoint,
      FS!Vanish, FS!LeaveAs, fsVars, supVars, childVars, SupervisorTypeOK,
      Loop, Release, Setup, RECEIVED_SIGNALS
<1>4. CASE Environment
  <2>1. ASSUME NEW s \in EnvSignals, SignalBlocked(s)
        PROVE  SupervisorTypeOK'
    BY <2>1, ConstantsAssumption
      DEF SignalBlocked, Event, fsVars, supVars, childVars, SupervisorTypeOK,
        Loop, Release, Setup, RECEIVED_SIGNALS
  <2>2. ASSUME NEW s \in EnvSignals, SignalUnblocked(s)
        PROVE  SupervisorTypeOK'
    BY <2>2
      DEF SignalUnblocked, Event, SupervisorEnds, DropEndpoint, FS!Vanish,
        FS!LeaveAs, fsVars, supVars, childVars, SupervisorTypeOK, Loop,
        Release, Setup
  <2>3. QED
    BY <1>4, <2>1, <2>2
      DEF Environment, CommandExits, ActOnSignal, ChildKilled, PreludeFails,
        StopChild, ContinueChild, StopSupervisor, KillSupervisor, ChildAt,
        ChildEnds, WithChildSignal, DropEndpoint, FS!Vanish, FS!LeaveAs,
        ChildStops, Event, SupRest, ChildRest, SignalGroup, SupervisorEnds,
        fsVars, supVars, childVars, SupervisorTypeOK, Loop, Release, Setup,
        RECEIVED_SIGNALS
<1>5. CASE UNCHANGED vars
  BY <1>5
    DEF vars, fsVars, supVars, childVars, SupervisorTypeOK, Loop, Release,
      Setup
<1>6. QED
  BY <1>1, <1>2, <1>3, <1>4, <1>5 DEF Next

(* The variables of the child stay in their ranges. *)
LEMMA ChildTypesKept ==
  SupervisorTypeOK /\ ChildTypeOK /\ [Next]_vars => ChildTypeOK'
<1> SUFFICES ASSUME SupervisorTypeOK, ChildTypeOK, [Next]_vars
             PROVE  ChildTypeOK'
  OBVIOUS
<1>1. CASE SupervisorStep
  <2>1. ASSUME NEW s \in RECEIVED_SIGNALS, ForwardSignal(s)
        PROVE  ChildTypeOK'
    BY <2>1, FateRange
      DEF ForwardSignal, At, SignalGroup, WithChildSignal, fsVars, supVars,
        childVars, ChildTypeOK, Living, Prelude
  <2>2. QED
    BY <1>1, <2>1, FateRange
      DEF SupervisorStep, ParentEndpoint, InstallReceiver, SetupFails,
        ReceiveChildSignal, WaitFails, ReapChild, ReapUnnamed, ChildIsGone,
        Suspend, NothingToReap, ClosePam, ParentGroups, SeeChildContinued,
        InstallForeground, SeeChildStopped, DropForeground, ParentHandshake,
        Resume, DropReceiver, DropPipe, Exit, At, FS!CloseOnePeerEnd,
        FS!IntoEndpoint, GiveTerminal, FirstTurn, FS!SendReady, FS!SendStatus,
        FS!CloseWriteEnd, FS!ReadStatus, FS!ReadEof, FS!SendBroken, FS!IOError,
        FS!LeaveAs, SignalGroup, WithChildSignal, DropEndpoint, FS!Vanish,
        SupervisorEnds, fsVars, supVars, childVars, ChildTypeOK, Living, Prelude
<1>2. CASE ChildStep
  <2>1. CASE ChildHandshake
    BY <2>1, FateRange
      DEF ChildHandshake, ChildAt, ChildOnly, AfterBarrier, FS!SendReady,
        FS!SendStatus, FS!CloseWriteEnd, FS!ReadStatus, FS!ReadEof,
        FS!SendBroken, FS!IOError, FS!LeaveAs, fsVars, supVars, childVars,
        ChildTypeOK, Living, Prelude
  <2>2. QED
    BY <1>2, <2>1, FateRange
      DEF ChildStep, ChildEndpoint, ArmBeforeBarrier, ChildGroups,
        SwitchCredentials, Rearm, Execute, NoteParent, CheckParent,
        OrphanKillsItself, EndAborted, ChildAt, ChildOnly, FS!CloseOnePeerEnd,
        FS!IntoEndpoint, Parent, ChildEnds, WithChildSignal, DropEndpoint,
        FS!Vanish, FS!LeaveAs, fsVars, supVars, childVars, ChildTypeOK,
        Living, Prelude
<1>3. CASE DeathSignalArrives
  BY <1>3, FateRange
    DEF DeathSignalArrives, ChildEnds, WithChildSignal, DropEndpoint,
      FS!Vanish, FS!LeaveAs, fsVars, supVars, childVars, ChildTypeOK, Living,
      Prelude
<1>4. CASE Environment
  <2>1. ASSUME NEW c \in ExitCodes, CommandExits(c)
        PROVE  ChildTypeOK'
    BY <2>1, FateRange
      DEF CommandExits, ChildAt, ChildEnds, WithChildSignal, DropEndpoint,
        FS!Vanish, FS!LeaveAs, fsVars, supVars, childVars, ChildTypeOK,
        Living, Prelude
  <2>2. ASSUME NEW s \in RECEIVED_SIGNALS, ActOnSignal(s)
        PROVE  ChildTypeOK'
    BY <2>2, FateRange
      DEF ActOnSignal, ChildStops, ChildEnds, WithChildSignal, DropEndpoint,
        FS!Vanish, FS!LeaveAs, fsVars, supVars, childVars, ChildTypeOK,
        Living, Prelude
  <2>3. CASE ContinueChild
    BY <2>3, FateRange
      DEF ContinueChild, Event, SignalGroup, WithChildSignal, SupRest,
        ChildRest, fsVars, supVars, childVars, ChildTypeOK, Living, Prelude
  <2>4. ASSUME NEW s \in KillSignals, ChildKilled(s)
        PROVE  ChildTypeOK'
    BY <2>4, FateRange
      DEF ChildKilled, ChildEnds, WithChildSignal, DropEndpoint, FS!Vanish,
        FS!LeaveAs, fsVars, supVars, childVars, ChildTypeOK, Living, Prelude
  <2>5. QED
    BY <1>4, <2>1, <2>2, <2>3, <2>4, FateRange
      DEF Environment, PreludeFails, StopChild, SignalBlocked,
        SignalUnblocked, StopSupervisor, KillSupervisor, ChildEnds,
        WithChildSignal, DropEndpoint, FS!Vanish, FS!LeaveAs, Event,
        ChildStops, SupRest, ChildRest, SupervisorEnds, fsVars, supVars,
        childVars, ChildTypeOK, Living, Prelude
<1>5. CASE UNCHANGED vars
  BY <1>5
    DEF vars, fsVars, supVars, childVars, ChildTypeOK, Living, Prelude
<1>6. QED
  BY <1>1, <1>2, <1>3, <1>4, <1>5 DEF Next

(* The bound on outside events is kept. *)
LEMMA EventsBounded ==
  events \in 0..MaxEvents /\ [Next]_vars => (events \in 0..MaxEvents)'
<1> SUFFICES ASSUME events \in 0..MaxEvents, [Next]_vars
             PROVE  (events \in 0..MaxEvents)'
  OBVIOUS
<1>1. CASE SupervisorStep
  BY <1>1, ConstantsAssumption
    DEF SupervisorStep, ParentEndpoint, InstallReceiver, SetupFails,
      ReceiveChildSignal, WaitFails, ReapChild, ReapUnnamed, ChildIsGone,
      Suspend, NothingToReap, ClosePam, ParentGroups, SeeChildContinued,
      InstallForeground, SeeChildStopped, DropForeground, ParentHandshake,
      ForwardSignal, Resume, DropReceiver, DropPipe, Exit, At, GiveTerminal,
      FirstTurn, SignalGroup, WithChildSignal, DropEndpoint, SupervisorEnds,
      fsVars, supVars, childVars
<1>2. CASE ChildStep
  BY <1>2, ConstantsAssumption
    DEF ChildStep, ChildEndpoint, ArmBeforeBarrier, ChildGroups,
      SwitchCredentials, Rearm, Execute, NoteParent, CheckParent,
      ChildHandshake, OrphanKillsItself, EndAborted, ChildAt, ChildOnly,
      Parent, AfterBarrier, ChildEnds, WithChildSignal, DropEndpoint, fsVars,
      supVars, childVars
<1>3. CASE DeathSignalArrives
  BY <1>3, ConstantsAssumption
    DEF DeathSignalArrives, ChildEnds, WithChildSignal, DropEndpoint, fsVars,
      supVars, childVars
<1>4. CASE Environment
  BY <1>4, ConstantsAssumption
    DEF Environment, CommandExits, ActOnSignal, ChildKilled, PreludeFails,
      StopChild, ContinueChild, SignalBlocked, SignalUnblocked,
      StopSupervisor, KillSupervisor, ChildAt, ChildEnds, WithChildSignal,
      DropEndpoint, ChildStops, Event, SupRest, ChildRest, SignalGroup,
      SupervisorEnds, fsVars, supVars, childVars
<1>5. CASE UNCHANGED vars
  BY <1>5
    DEF vars, fsVars, supVars, childVars
<1>6. QED
  BY <1>1, <1>2, <1>3, <1>4, <1>5 DEF Next

-----------------------------------------------------------------------------
(* Right after the fork the invariant holds. *)
LEMMA InitInvariant == Init => FP!IInv /\ IInv
<1> SUFFICES ASSUME Init PROVE FP!IInv /\ IInv
  OBVIOUS
<1>1. FP!IInv
  BY SameBarrier, FP!InitInvariant, IOFaultsIsBoolean DEF Init
<1>2. TypeOK
  <2>1. SupervisorTypeOK
    <3>1. code \in -1..255
      BY DEF Init
    <3>2. spc \in Setup /\ sstate = "running" /\ tty \in {"none", "original"}
      BY DEF Init, Setup
    <3>3. mask = FALSE /\ ttou = FALSE /\ session = TRUE /\ pending = {}
      BY DEF Init
    <3>4. QED
      BY <3>1, <3>2, <3>3 DEF SupervisorTypeOK
  <2>2. ChildTypeOK
    BY DEF Init, ChildTypeOK, Fates, Living, Prelude
  <2>3. QED
    BY <1>1, <2>1, <2>2, BarrierRanges, ConstantsAssumption DEF Init, TypeOK
<1>3. ParentPlace /\ ChildPlace
  BY DEF Init, FS!Init, FS!Side, ParentPlace, ChildPlace, Loop, Setup
<1>4. Leashed /\ Prepared /\ LetGo
  BY DEF Init, Leashed, Prepared, LetGo, Loop, Release
<1>5. Informed /\ TerminalKept
  BY DEF Init, Informed, NoLostWakeup, TerminalKept
<1>6. Accounted
  BY DEF Init, Accounted, Living, NoFate, Exited
<1>7. QED
  BY <1>1, <1>2, <1>3, <1>4, <1>5, <1>6 DEF IInv

(* Every step preserves it, together with the barrier's own invariant. *)
LEMMA StepInvariant == FP!IInv /\ IInv /\ [Next]_vars => FP!IInv' /\ IInv'
<1> SUFFICES ASSUME FP!IInv, IInv, [Next]_vars PROVE FP!IInv' /\ IInv'
  OBVIOUS
<1> USE DEF IInv
<1>1. FP!IInv'
  BY BarrierInvariant
<1>2. TypeOK'
  <2>1. FS!TypeOK'
    BY <1>1 DEF FP!IInv, FP!TypeOK, FS!TypeOK, FP!Side, FS!Side, FP!Phase,
      FS!Phase, FP!Status, FS!Status, FP!Descriptor, FS!Descriptor, FP!ReadEnd,
      FS!ReadEnd, FP!WriteEnd, FS!WriteEnd
  <2>2. SupervisorTypeOK' /\ ChildTypeOK'
    BY SupervisorTypesKept, ChildTypesKept DEF TypeOK
  <2>3. (events \in 0..MaxEvents)'
    BY EventsBounded DEF TypeOK
  <2>4. QED
    BY <2>1, <2>2, <2>3 DEF TypeOK
<1>3. ParentPlace' /\ ChildPlace' /\ Leashed'
  BY PlacesKept, LeashKept
<1>4. Prepared' /\ LetGo'
  BY PreparationKept, LetGoKept
<1>5. Informed' /\ TerminalKept'
  BY InformationKept, TerminalStays
<1>6. Accounted'
  BY AccountKept DEF TypeOK
<1>7. QED
  BY <1>1, <1>2, <1>3, <1>4, <1>5, <1>6

(* The invariant holds in every reachable state. *)
LEMMA Invariant == Spec => [](FP!IInv /\ IInv)
<1>1. QED
  BY InitInvariant, StepInvariant, PTL DEF Spec

-----------------------------------------------------------------------------
(* All variables of supervisor, child and barrier stay in their ranges; exit *)
(* codes fit the byte that process::exit() passes on.                        *)
THEOREM TypeCorrect == Spec => []TypeOK
<1>1. IInv => TypeOK
  BY DEF IInv
<1>2. QED
  BY <1>1, Invariant, PTL

(* As long as waiting for signals does not fail, auth.rs's command runs only *)
(* under a supervisor that has everything in place, and only with the PAM    *)
(* session open.                                                             *)
THEOREM Supervised == ~ WaitFaults => (Spec => []CommandIsWatched)
<1> SUFFICES ASSUME ~ WaitFaults PROVE Spec => []CommandIsWatched
  OBVIOUS
<1>1. FP!IInv /\ IInv => CommandIsWatched
  <2> SUFFICES ASSUME FP!IInv, IInv, Executing, sstate # "dead"
               PROVE  /\ mask /\ ttou /\ grouped /\ session
                      /\ spc \in Loop \cup {"handshake"}
    BY DEF CommandIsWatched
  <2>1. sent["parent"] = "READY"
    BY BarrierFacts DEF IInv, ChildPlace, Executing
  <2>2. spc \in Loop \cup {"handshake"}
    BY <2>1 DEF IInv, TypeOK, SupervisorTypeOK, ParentPlace, LetGo, Executing,
      Living
  <2>3. QED
    BY <2>2 DEF IInv, Prepared, Loop
<1>2. QED
  BY <1>1, Invariant, PTL

(* exec() never leaves a command running behind a dead supervisor: wherever *)
(* the supervisor dies, the child has SIGKILL on its way, unless the kernel *)
(* disarmed the parent-death signal for a set-user-ID program.              *)
THEOREM NoOrphan == Spec => []NoOrphanCommand
<1>1. IInv => NoOrphanCommand
  BY DEF IInv, Leashed, NoOrphanCommand, Executing
<1>2. QED
  BY <1>1, Invariant, PTL

(* watch_process() never sleeps on a state change of the child it has not   *)
(* seen, unless runas was started with SIGCHLD ignored.                     *)
THEOREM WakeupsKept == ~ IgnoreChild => (Spec => []NoLostWakeup)
<1> SUFFICES ASSUME ~ IgnoreChild PROVE Spec => []NoLostWakeup
  OBVIOUS
<1>1. IInv => NoLostWakeup
  BY DEF IInv, Informed
<1>2. QED
  BY <1>1, Invariant, PTL

(* watch_process() signals only the process group of a child not yet reaped. *)
THEOREM ForwardsToOwnChild == ~ IgnoreChild => (Spec => []ForwardOnlyToOwnChild)
<1> SUFFICES ASSUME ~ IgnoreChild PROVE Spec => []ForwardOnlyToOwnChild
  OBVIOUS
<1>1. IInv => ForwardOnlyToOwnChild
  BY DEF IInv, Informed, ForwardOnlyToOwnChild, Loop, Release
<1>2. QED
  BY <1>1, Invariant, PTL

(* The exit code of runas is that of the reaped child, 128 + n after signal *)
(* n or 1 if nix has no name for n, whatever signals and stops came before. *)
THEOREM FaithfulExitCode == ~ IgnoreChild => (Spec => []ExitCodeFaithful)
<1> SUFFICES ASSUME ~ IgnoreChild PROVE Spec => []ExitCodeFaithful
  OBVIOUS
<1>1. IInv => ExitCodeFaithful
  BY DEF IInv, Informed, Accounted, TypeOK, ChildTypeOK, Fates,
    ExitCodeFaithful, Verdict, Expressible, CodeOf, Exited, Signaled, NoFate,
    Living
<1>2. QED
  BY <1>1, Invariant, PTL

(* runas never reports the success of a command that did not succeed. *)
THEOREM HonestSuccess == Spec => []SuccessIsTheCommands
<1>1. IInv => SuccessIsTheCommands
  BY DEF IInv, Accounted, SuccessIsTheCommands
<1>2. QED
  BY <1>1, Invariant, PTL

(* The caller's process group owns the terminal again before runas stops    *)
(* with its child and before it leaves watch_process().                     *)
THEOREM TerminalComesBack == Spec => []TerminalReturned
<1>1. IInv => TerminalReturned
  BY DEF IInv, TerminalKept, TerminalReturned
<1>2. QED
  BY <1>1, Invariant, PTL

-----------------------------------------------------------------------------
(***************************************************************************)
(* The contract of a run.  For it the code has to be told exactly while    *)
(* the supervisor is on its way out, and the child's place has to remember *)
(* that the parent was ready, also after the child's death.                *)
(***************************************************************************)
Told ==
  /\ code = -1 <=> spc \in Setup \cup Loop
  /\ cpc \in {"note", "switch", "rearm", "check", "exec", "command"}
       => sent["parent"] = "READY"

LEMMA ToldKept == FP!IInv /\ IInv /\ Told /\ [Next]_vars => Told'
<1> SUFFICES ASSUME FP!IInv, IInv, Told, [Next]_vars PROVE Told'
  OBVIOUS
<1>1. CASE SupervisorStep
  <2>1. CASE ReapChild
    <3>1. CodeOf(fate) # -1
      BY <2>1, FateRange
        DEF ReapChild, IInv, TypeOK, ChildTypeOK, Accounted, Fates, CodeOf,
          Living, Exited, Signaled, NoFate
    <3>2. QED
      BY <2>1, <3>1 DEF ReapChild, At, fsVars, Told, Setup, Loop
  <2>2. CASE ParentHandshake
    BY <2>2, BarrierRanges
      DEF ParentHandshake, At, FirstTurn, FS!SendReady, FS!SendStatus,
        FS!CloseWriteEnd, FS!ReadStatus, FS!ReadEof, FS!SendBroken,
        FS!IOError, FS!LeaveAs, childVars, Told, Setup, Loop
  <2>3. QED
    BY <1>1, <2>1, <2>2
      DEF SupervisorStep, ParentEndpoint, InstallReceiver, SetupFails,
        ReceiveChildSignal, WaitFails, ReapUnnamed, ChildIsGone, Suspend,
        NothingToReap, ClosePam, ParentGroups, SeeChildContinued,
        InstallForeground, SeeChildStopped, DropForeground, ForwardSignal,
        Resume, DropReceiver, DropPipe, Exit, At, FS!CloseOnePeerEnd,
        FS!IntoEndpoint, GiveTerminal, SignalGroup, WithChildSignal,
        DropEndpoint, FS!Vanish, FS!LeaveAs, SupervisorEnds, fsVars, supVars,
        childVars, Told, Setup, Loop
<1>2. CASE ChildStep
  <2>1. CASE ChildHandshake
    <3>1. phase'["child"] = "continue" => sent'["parent"] = "READY"
      <4>1. FP!IInv'
        BY BarrierInvariant
      <4>2. QED
        BY <4>1 DEF FP!IInv, FP!DecisionsJustified, FP!Side, FP!Other
    <3>2. sent' = sent \/ sent' = [sent EXCEPT !["child"] = "READY"]
      BY <2>1 DEF ChildHandshake, FS!SendReady, FS!SendStatus, FS!CloseWriteEnd,
        FS!ReadStatus, FS!ReadEof, FS!SendBroken, FS!IOError
    <3>3. sent'["parent"] = sent["parent"]
      BY <3>2, BarrierRanges
    <3>4. QED
      BY <2>1, <3>1, <3>3
        DEF ChildHandshake, ChildAt, ChildOnly, AfterBarrier, supVars, Told
  <2>2. QED
    BY <1>2, <2>1
      DEF ChildStep, ChildEndpoint, ArmBeforeBarrier, ChildGroups,
        SwitchCredentials, Rearm, Execute, NoteParent, CheckParent,
        OrphanKillsItself, EndAborted, ChildAt, ChildOnly,
        FS!CloseOnePeerEnd, FS!IntoEndpoint, ChildEnds, DropEndpoint,
        FS!Vanish, FS!LeaveAs, fsVars, supVars, Told
<1>3. CASE DeathSignalArrives
  BY <1>3 DEF DeathSignalArrives, ChildEnds, DropEndpoint, FS!Vanish,
    FS!LeaveAs, fsVars, Told
<1>4. CASE Environment
  BY <1>4
    DEF Environment, CommandExits, ActOnSignal, ChildKilled, PreludeFails,
      StopChild, ContinueChild, SignalBlocked, SignalUnblocked,
      StopSupervisor, KillSupervisor, ChildEnds, DropEndpoint, FS!Vanish,
      FS!LeaveAs, SupRest, ChildRest, SupervisorEnds, fsVars, childVars, Told
<1>5. CASE UNCHANGED vars
  BY <1>5 DEF vars, fsVars, supVars, childVars, Told
<1>6. QED
  BY <1>1, <1>2, <1>3, <1>4, <1>5 DEF Next

(* A child that has ended has a fate that fits a byte. *)
LEMMA FateKnown ==
  ASSUME IInv, cstate \notin Living
  PROVE  \/ \E n \in 0..255 : fate = <<"exited", n>>
         \/ \E n \in 1..127 : fate = <<"signaled", n>>
BY DEF IInv, TypeOK, ChildTypeOK, Accounted, Fates, Exited, Signaled

(* The end of the child is the end of the command, or its failure to start. *)
LEMMA ChildEndsRun ==
  ASSUME IInv, NEW f \in Fates \ {NoFate}, ChildEnds(f)
  PROVE  Run!Fail \/ Run!End
<1>1. cstate \in Living /\ cstate' \notin Living /\ fate' = f
  BY DEF ChildEnds, Living
<1>2. UNCHANGED <<cpc, session, code>>
  BY DEF ChildEnds
<1>3. CASE cpc = "command"
  <2>1. commandBar = <<"running", 0>> /\ commandBar' = f
    BY <1>1, <1>2, <1>3 DEF commandBar
  <2>2. \E how \in {"exited", "signaled"}, n \in 0..255 : f = <<how, n>>
    BY DEF Fates, Exited, Signaled
  <2>3. QED
    BY <1>2, <2>1, <2>2 DEF Run!End
<1>4. CASE cpc # "command"
  BY <1>1, <1>2, <1>4 DEF commandBar, Run!Fail
<1>5. QED
  BY <1>3, <1>4

(* What the run is, read off the supervisor and its child. *)
LEMMA RunShows ==
  ASSUME IInv
  PROVE  /\ cpc # "command" => commandBar[1] \in {"none", "failed"}
         /\ commandBar = <<"running", 0>> <=> cpc = "command" /\ cstate \in Living
         /\ commandBar = <<"none", 0>> <=> cpc # "command" /\ cstate \in Living
<1>1. cstate \notin Living => fate[1] \in {"exited", "signaled"}
  BY FateKnown
<1>2. QED
  BY <1>1 DEF commandBar

LEMMA StepRuns ==
  FP!IInv /\ IInv /\ Told /\ [Next]_vars
    => [Run!Next]_<<session, commandBar, code>>
<1> SUFFICES ASSUME FP!IInv, IInv, Told, [Next]_vars
             PROVE  Run!Next \/ UNCHANGED <<session, commandBar, code>>
  BY Zenon
<1> DEFINE Same == UNCHANGED <<session, commandBar, code>>
<1>1. CASE ReapChild
  <2>1. code = -1 /\ code' = CodeOf(fate) /\ UNCHANGED <<session, commandBar>>
    BY <1>1 DEF ReapChild, At, Told, Loop, commandBar, Living
  <2>2. CASE cpc = "command"
    BY <1>1, <2>1, <2>2, FateKnown
      DEF ReapChild, commandBar, Living, Expressible, CodeOf, Run!Report,
        Run!Next
  <2>3. CASE cpc # "command"
    <3>1. code' \in 1..255
      BY <1>1, <2>1, <2>3, FateKnown
        DEF ReapChild, Living, CodeOf, IInv, Accounted, Exited
    <3>2. QED
      BY <2>1, <2>3, <3>1, RunShows DEF Run!Report, Run!Next
  <2>4. QED
    BY <2>2, <2>3
<1>2. CASE SetupFails \/ ParentGroups
  <2>1. cpc # "command"
    <3>1. spc \in Setup \ {"handshake"}
      BY <1>2 DEF SetupFails, ParentGroups, At, Setup
    <3>2. QED
      BY <3>1 DEF IInv, ParentPlace, Told
  <2>2. UNCHANGED <<session, cpc, cstate, fate>>
    BY <1>2 DEF SetupFails, ParentGroups, childVars
  <2>3. code' = 1 \/ UNCHANGED code
    BY <1>2 DEF SetupFails, ParentGroups
  <2>4. code = -1
    BY <1>2 DEF SetupFails, ParentGroups, At, Told, Setup
  <2>5. QED
    BY <2>1, <2>2, <2>3, <2>4, RunShows DEF commandBar, Run!Report, Run!Next
<1>3. CASE WaitFails \/ ChildIsGone
  <2>1. WaitFaults \/ IgnoreChild
    BY <1>3 DEF WaitFails, ChildIsGone, At, IInv, Informed, Release
  <2>2. code = -1 /\ code' = 1 /\ UNCHANGED <<session, commandBar>>
    BY <1>3 DEF WaitFails, ChildIsGone, At, Told, Loop, childVars, commandBar
  <2>3. QED
    BY <2>1, <2>2 DEF Run!Report, Run!Next
<1>4. CASE ClosePam
  <2>1. session /\ code # -1
    BY <1>4 DEF ClosePam, At, IInv, Prepared, TypeOK, SupervisorTypeOK, Told,
      Setup, Loop
  <2>2. ~ WaitFaults => commandBar # <<"running", 0>>
    BY <1>4, RunShows DEF ClosePam, At, IInv, LetGo, Release, Told, Living
  <2>3. session' = FALSE /\ UNCHANGED <<commandBar, code>>
    BY <1>4 DEF ClosePam, childVars, commandBar
  <2>4. QED
    BY <2>1, <2>2, <2>3, ConstantsAssumption DEF Run!Close, Run!Next
<1>5. CASE Execute
  <2>1. commandBar = <<"none", 0>> /\ commandBar' = <<"running", 0>>
    BY <1>5 DEF Execute, ChildAt, ChildOnly, commandBar, Living
  <2>2. ~ WaitFaults => session /\ code = -1
    <3>1. sent["parent"] = "READY" /\ cstate # "reaped"
      BY <1>5 DEF Execute, ChildAt, Told
    <3>2. ~ WaitFaults => spc \in Setup \cup Loop
      BY <3>1 DEF IInv, LetGo, TypeOK, SupervisorTypeOK
    <3>3. QED
      BY <3>2 DEF IInv, Prepared, Told, Setup, Loop
  <2>3. UNCHANGED <<session, code>>
    BY <1>5 DEF Execute, ChildOnly, supVars
  <2>4. QED
    BY <2>1, <2>2, <2>3, ConstantsAssumption DEF Run!Start, Run!Next
<1>6. ASSUME NEW f \in Fates \ {NoFate}, ChildEnds(f)
      PROVE  Run!Next
  BY <1>6, ChildEndsRun DEF Run!Next
<1>7. CASE ReapUnnamed
  <2>1. code = -1 /\ code' = 1 /\ UNCHANGED <<session, commandBar>>
    BY <1>7 DEF ReapUnnamed, At, Told, Loop, commandBar, Living
  <2>2. CASE cpc = "command"
    <3>1. commandBar[1] = "signaled" /\ commandBar[2] \notin Named
      BY <1>7, <2>2, FateKnown DEF ReapUnnamed, commandBar, Living, Expressible
    <3>2. QED
      BY <2>1, <3>1 DEF Run!Report, Run!Next
  <2>3. CASE cpc # "command"
    BY <2>1, <2>3, RunShows DEF Run!Report, Run!Next
  <2>4. QED
    BY <2>2, <2>3
<1>8. CASE SupervisorStep
  <2>1. CASE ~ (ReapChild \/ ReapUnnamed \/ SetupFails \/ ParentGroups
                 \/ WaitFails \/ ChildIsGone \/ ClosePam)
    BY <1>8, <2>1
      DEF SupervisorStep, ParentEndpoint, InstallReceiver, ParentHandshake,
        ReceiveChildSignal, ForwardSignal, Suspend, NothingToReap,
        SeeChildContinued, InstallForeground, SeeChildStopped, DropForeground,
        Resume, DropReceiver, DropPipe, Exit, At, SignalGroup, SupervisorEnds,
        supVars, childVars, commandBar, Living
  <2>2. QED
    BY <1>1, <1>2, <1>3, <1>4, <1>7, <2>1
<1>9. CASE ChildStep
  <2>1. CASE OrphanKillsItself \/ EndAborted
    BY <1>6, <2>1, FateRange DEF OrphanKillsItself, EndAborted, Exited,
      Signaled, NoFate
  <2>2. CASE ~ (OrphanKillsItself \/ EndAborted \/ Execute)
    BY <1>9, <2>2
      DEF ChildStep, ChildEndpoint, ArmBeforeBarrier, ChildGroups,
        ChildHandshake, AfterBarrier, SwitchCredentials, Rearm, NoteParent,
        CheckParent, ChildAt, ChildOnly, supVars, commandBar
  <2>3. QED
    BY <1>5, <2>1, <2>2
<1>10. CASE DeathSignalArrives
  BY <1>6, <1>10, FateRange DEF DeathSignalArrives, Signaled, NoFate
<1>11. CASE Environment
  <2>1. ASSUME NEW s \in RECEIVED_SIGNALS, ActOnSignal(s)
        PROVE  Run!Next \/ Same
    <3>1. CASE s \in Fatal /\ ChildEnds(Signaled(s))
      BY <1>6, <3>1, FateRange DEF Signaled, NoFate
    <3>2. CASE ~ (s \in Fatal /\ ChildEnds(Signaled(s)))
      BY <2>1, <3>2 DEF ActOnSignal, ChildStops, commandBar, Living
    <3>3. QED
      BY <3>1, <3>2
  <2>2. ASSUME NEW c \in ExitCodes, CommandExits(c)
        PROVE  Run!Next
    BY <1>6, <2>2, FateRange DEF CommandExits, Exited, NoFate
  <2>3. ASSUME NEW s \in KillSignals, ChildKilled(s)
        PROVE  Run!Next
    BY <1>6, <2>3, FateRange DEF ChildKilled, Signaled, NoFate
  <2>4. ASSUME NEW s \in EnvSignals, SignalBlocked(s) \/ SignalUnblocked(s)
        PROVE  Same
    <3>1. UNCHANGED <<session, code, cpc, cstate, fate>>
      <4>1. CASE SignalBlocked(s)
        BY <4>1, Zenon DEF SignalBlocked, childVars
      <4>2. CASE SignalUnblocked(s)
        BY <4>2, Zenon DEF SignalUnblocked, SupervisorEnds, childVars
      <4>3. QED
        BY <2>4, <4>1, <4>2
    <3>2. QED
      BY <3>1 DEF commandBar
  <2>5. CASE StopChild \/ ContinueChild \/ StopSupervisor \/ KillSupervisor
    BY <2>5 DEF StopChild, ContinueChild, StopSupervisor, KillSupervisor,
      ChildStops, SignalGroup, SupRest, ChildRest, SupervisorEnds, childVars,
      commandBar, Living
  <2>6. CASE PreludeFails
    BY <1>6, <2>6, FateRange DEF PreludeFails, Exited, NoFate
  <2>7. QED
    BY <1>11, <2>1, <2>2, <2>3, <2>4, <2>5, <2>6 DEF Environment
<1>12. CASE UNCHANGED vars
  BY <1>12 DEF vars, supVars, childVars, commandBar
<1>13. QED
  BY <1>8, <1>9, <1>10, <1>11, <1>12 DEF Next

(* auth() and watch_process() implement the contract of a run: whoever has *)
(* runas run a command need not know of processes, signals and pipes.      *)
THEOREM RunRefinement == Spec => ImplementsCommandRun
<1>1. Init => Run!Init /\ Told
  BY DEF Init, Run!Init, Told, commandBar, Living, Setup, FS!Init
<1>2. QED
  BY <1>1, Invariant, ToldKept, StepRuns, PTL
    DEF Spec, Run!Spec, ImplementsCommandRun, Run!runVars
=============================================================================
