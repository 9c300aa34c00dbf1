---------------------------- MODULE Askpass_proofs ----------------------------
(***************************************************************************)
(* Proofs about launch_helper(): for every limit on the answer, every      *)
(* number of bytes written and of signals, and every set of signals.  What *)
(* the barrier guarantees is taken from ForkSync_proofs: runas and the     *)
(* child drive it only through its own actions.                            *)
(***************************************************************************)
EXTENDS Askpass, SequenceTheorems, TLAPS

FP == INSTANCE ForkSync_proofs

(* Where runas is in launch_helper() tells where it stands in the barrier  *)
(* and whether the signals are blocked.                                    *)
RunasPlace ==
  /\ pc \in {"fork", "install"} => phase["parent"] = "forked"
  /\ pc = "endpoint" => phase["parent"] \in {"forked", "closing"}
  /\ pc = "handshake" => phase["parent"] \in {"endpoint", "announced", "waiting"}
  /\ pc \in {"read", "reap", "finish"} => phase["parent"] = "continue"
  /\ pc \in {"done", "dead"} => phase["parent"] \notin FS!Undecided
  /\ mask <=> pc \in {"endpoint", "handshake", "read", "reap", "finish"}
  /\ ~ mask => pending = {}

(* The same for the child; a dead one has left the barrier. *)
ChildPlace ==
  /\ cstate \notin Living => phase["child"] \notin FS!Undecided
  /\ cstate \in Living =>
       /\ cpc \in {"prepare", "arm"} => phase["child"] = "forked"
       /\ cpc = "endpoint" => phase["child"] \in {"forked", "closing"}
       /\ cpc = "handshake" => phase["child"] \in {"endpoint", "announced", "waiting"}
       /\ cpc \in {"exec", "helper"} => phase["child"] = "continue"

(* The parent-death signal is armed before the child says that it is       *)
(* ready, and has been sent when runas died later than that.               *)
Leashed ==
  cstate \in Living =>
    /\ cpc \in {"endpoint", "handshake", "exec", "helper"} => pdeath
    /\ pc = "dead" =>
         /\ cpc = "handshake" /\ phase["child"] \in {"announced", "waiting"}
              => doomed
         /\ cpc \in {"exec", "helper"} => doomed

(* A child that dies after runas has said that it is ready leaves SIGCHLD. *)
(* (One that died earlier is the reason why runas could not say so.)       *)
Noticed ==
  ~ IgnoreChild /\ pc \in {"handshake", "read"} /\ cstate = "zombie"
    => \/ phase["parent"] \notin {"announced", "waiting", "continue"}
       \/ "SIGCHLD" \in pending

(* What runas knows of the end of the helper. *)
Accounted ==
  /\ cstate \in Living <=> fate = "alive"
  /\ status # "none" => cstate = "reaped" /\ status = fate
  /\ ~ IgnoreChild /\ cstate = "reaped" => status # "none" \/ pc \in {"done", "dead"}

(* Every byte is in the buffer or still in the pipe, unless some had to be *)
(* dropped, which is not forgotten.                                        *)
Ledger ==
  /\ answer = "none" /\ ~ overflow => buffer \o unread = written
  /\ answer # "none" => pc \in {"done", "dead"}
  /\ eof => unread = <<>> /\ writers = {}
  /\ pc = "finish" => eof /\ status # "none"

Control == RunasPlace /\ ChildPlace /\ Leashed /\ Noticed /\ Accounted

Books == Ledger /\ PasswordIsWholeAnswer

IInv == TypeOK /\ Control /\ Books

-----------------------------------------------------------------------------
(***************************************************************************)
(* The barrier inside launch_helper().                                     *)
(***************************************************************************)
LEMMA IOFaultsIsBoolean == IOFaults \in BOOLEAN
BY ConstantsAssumption

LEMMA SameBarrier ==
  /\ FP!Init <=> FS!Init
  /\ FP!Next <=> FS!Next
  /\ FP!syncVars = fsVars
BY DEF FP!Init, FS!Init, FP!Next, FS!Next, FP!syncVars, fsVars,
  FP!Side, FS!Side, FP!Other, FS!Other, FP!ReadEnd, FS!ReadEnd,
  FP!WriteEnd, FS!WriteEnd, FP!Descriptor, FS!Descriptor,
  FP!Undecided, FS!Undecided, FP!Held, FS!Held, FP!LeaveAs, FS!LeaveAs,
  FP!ClosedFirst, FS!ClosedFirst, FP!SendStatus, FS!SendStatus,
  FP!Proceed, FS!Proceed, FP!CloseOnePeerEnd, FS!CloseOnePeerEnd,
  FP!IntoEndpoint, FS!IntoEndpoint, FP!SendReady, FS!SendReady,
  FP!CloseWriteEnd, FS!CloseWriteEnd, FP!SendBroken, FS!SendBroken,
  FP!ReportFailure, FS!ReportFailure, FP!ReadStatus, FS!ReadStatus,
  FP!ReadEof, FS!ReadEof, FP!IOError, FS!IOError, FP!Vanish, FS!Vanish

(* runas and the child drive the barrier through its own actions only. *)
LEMMA BarrierStep == [Next]_vars => [FS!Next]_fsVars
<1> SUFFICES ASSUME [Next]_vars PROVE FS!Next \/ UNCHANGED fsVars
  OBVIOUS
<1> USE DEF FS!Next, FS!Proceed, FS!Side
<1>1. CASE RunasStep
  BY <1>1 DEF RunasStep, ClosePasswordWrite, Install, ParentEndpoint,
    ParentHandshake, ReadChunk, ReadEndOfFile, ReceiveChildSignal, ForwardSignal,
    ReapHelper, ReapUnnamed, SkipReport, StillAlive, NoChild, Finish, DropEndpoint
<1>2. CASE ChildStep
  BY <1>2 DEF ChildStep, Prepare, Arm, ChildEndpoint, ChildHandshake, Execute,
    EndAborted, ChildEnds, DropEndpoint
<1>3. CASE DeathSignalArrives
  BY <1>3 DEF DeathSignalArrives, ChildEnds, DropEndpoint
<1>4. CASE Environment
  BY <1>4 DEF Environment, CloseOutput, Write, Spawn, HelperExits, ChildKilled,
    ChildFails, StopOrContinueHelper, ActOnSignal, SignalRunas, KillRunas,
    RunasFails, HelperRest, ChildEnds, DropEndpoint
<1>5. CASE UNCHANGED vars
  BY <1>5 DEF vars
<1>6. QED
  BY <1>1, <1>2, <1>3, <1>4, <1>5 DEF Next

LEMMA BarrierInvariant == FP!IInv /\ [Next]_vars => FP!IInv'
<1> SUFFICES ASSUME FP!IInv, [Next]_vars PROVE FP!IInv'
  OBVIOUS
<1>1. [FS!Next]_fsVars
  BY BarrierStep
<1>2. FP!Next \/ UNCHANGED FP!syncVars
  BY <1>1, SameBarrier DEF FP!syncVars, fsVars
<1>3. QED
  BY <1>2, FP!StepInvariant, IOFaultsIsBoolean

(* launch_helper() and its child implement the barrier, hence the gate. *)
THEOREM ImplementsBarrier == Spec => FS!Spec
<1>1. Init => FS!Init
  BY DEF Init
<1>2. QED
  BY <1>1, BarrierStep, PTL DEF Spec, FS!Spec, FS!syncVars, fsVars

LEMMA BarrierRanges ==
  FP!IInv => /\ FS!TypeOK
             /\ phase \in [{"parent", "child"} -> FS!Phase]
BY DEF FP!IInv, FP!TypeOK, FS!TypeOK, FP!Side, FS!Side, FP!Phase, FS!Phase,
  FP!Status, FS!Status, FP!Descriptor, FS!Descriptor, FP!ReadEnd, FS!ReadEnd,
  FP!WriteEnd, FS!WriteEnd

(* A side about to report READY can do so only while the other is there. *)
LEMMA BarrierFacts ==
  FP!IInv => /\ phase["parent"] \notin FS!Undecided /\ phase["child"] = "endpoint"
                  => ~ FS!Held(FS!ReadEnd("parent"))
             /\ phase["child"] \notin FS!Undecided /\ phase["parent"] = "endpoint"
                  => ~ FS!Held(FS!ReadEnd("child"))
BY DEF FP!IInv, FP!OpenMatchesPhase, FP!DecisionsJustified, FP!Side, FP!Other,
  FP!ReadEnd, FP!WriteEnd, FP!Undecided, FS!Side, FS!ReadEnd, FS!Undecided, FS!Held

-----------------------------------------------------------------------------
(***************************************************************************)
(* The parts of the invariant, each preserved by every step.               *)
(***************************************************************************)

(* Everything but the bytes: the places, the death signal, SIGCHLD and the *)
(* status depend on one another and are preserved together.                *)
LEMMA ControlKept == FP!IInv /\ TypeOK /\ Control /\ [Next]_vars => Control'
<1> SUFFICES ASSUME FP!IInv, Control, [Next]_vars, fate # "none" PROVE Control'
  BY DEF TypeOK, ChildTypeOK
<1> USE BarrierRanges DEF Control, RunasPlace, ChildPlace, Leashed, Noticed,
  Accounted, Living, FS!Undecided, fsVars, bufVars, childVars, pipeVars,
  WithChildSignal, Leave, EndTurn
<1>1. CASE RunasStep
  <2>1. CASE ParentEndpoint
    BY <2>1 DEF ParentEndpoint, FS!CloseOnePeerEnd, FS!IntoEndpoint
  <2>2. CASE ParentHandshake
    BY <2>2, BarrierFacts
      DEF ParentHandshake, FS!SendReady, FS!SendStatus, FS!CloseWriteEnd,
        FS!ReadStatus, FS!ReadEof, FS!SendBroken, FS!IOError, FS!LeaveAs, FS!Other
  <2>3. CASE ClosePasswordWrite \/ Install
    BY <2>3 DEF ClosePasswordWrite, Install, DropEndpoint, FS!Vanish, FS!LeaveAs
  <2>4. ASSUME NEW n \in 1..MaxWritten, ReadChunk(n) PROVE Control'
    BY <2>4 DEF ReadChunk
  <2>5. CASE ReadEndOfFile
    BY <2>5 DEF ReadEndOfFile
  <2>6. CASE ReceiveChildSignal
    BY <2>6 DEF ReceiveChildSignal
  <2>7. ASSUME NEW s \in HELPER_SIGNALS, ForwardSignal(s) PROVE Control'
    BY <2>7 DEF ForwardSignal
  <2>8. CASE ReapHelper \/ ReapUnnamed
    BY <2>8 DEF ReapHelper, ReapUnnamed
  <2>9. CASE SkipReport \/ StillAlive \/ NoChild
    BY <2>9 DEF SkipReport, StillAlive, NoChild
  <2>10. CASE Finish
    BY <2>10 DEF Finish
  <2>11. QED
    BY <1>1, <2>1, <2>2, <2>3, <2>4, <2>5, <2>6, <2>7, <2>8, <2>9, <2>10
      DEF RunasStep
<1>2. CASE ChildStep
  <2>1. CASE ChildEndpoint
    BY <2>1 DEF ChildEndpoint, ChildAt, ChildOnly, FS!CloseOnePeerEnd,
      FS!IntoEndpoint
  <2>2. CASE ChildHandshake
    BY <2>2, BarrierFacts
      DEF ChildHandshake, ChildAt, ChildOnly, FS!SendReady, FS!SendStatus,
        FS!CloseWriteEnd, FS!ReadStatus, FS!ReadEof, FS!SendBroken, FS!IOError,
        FS!LeaveAs, FS!Other
  <2>3. CASE Prepare \/ Arm \/ Execute
    BY <2>3 DEF Prepare, Arm, Execute, ChildAt, ChildOnly
  <2>4. CASE EndAborted
    BY <2>4 DEF EndAborted, ChildEnds, DropEndpoint, FS!Vanish, FS!LeaveAs
  <2>5. QED
    BY <1>2, <2>1, <2>2, <2>3, <2>4 DEF ChildStep
<1>3. CASE DeathSignalArrives
  BY <1>3 DEF DeathSignalArrives, ChildEnds, DropEndpoint, FS!Vanish, FS!LeaveAs
<1>4. CASE Environment
  <2>1. CASE KillRunas \/ RunasFails
    BY <2>1 DEF KillRunas, RunasFails, DropEndpoint, FS!Vanish, FS!LeaveAs
  <2>2. CASE \/ \E f \in {"success", "failure"} : HelperExits(f)
             \/ \E f \in {"failure", "nameless"} : ChildKilled(f)
             \/ ChildFails
    BY <2>2 DEF HelperExits, ChildKilled, ChildFails, ChildEnds, DropEndpoint,
      FS!Vanish, FS!LeaveAs
  <2>3. CASE \E s \in HELPER_SIGNALS : ActOnSignal(s)
    BY <2>3 DEF ActOnSignal, ChildEnds, StopNow, HelperRest, DropEndpoint,
      FS!Vanish, FS!LeaveAs
  <2>4. CASE \/ Spawn \/ StopOrContinueHelper
             \/ \E s \in EnvSignals : SignalRunas(s)
             \/ \E w \in {"helper", "offspring"} :
                  CloseOutput(w) \/ \E b \in Byte : Write(w, b)
    BY <2>4 DEF Spawn, StopOrContinueHelper, SignalRunas, CloseOutput, Write,
      StopNow, HelperRest
  <2>5. QED
    BY <1>4, <2>1, <2>2, <2>3, <2>4 DEF Environment
<1>5. CASE UNCHANGED vars
  BY <1>5 DEF vars
<1>6. QED
  BY <1>1, <1>2, <1>3, <1>4, <1>5 DEF Next

-----------------------------------------------------------------------------
(***************************************************************************)
(* Bytes.                                                                  *)
(***************************************************************************)

(* Bytes that move from the front of the pipe to the end of the buffer     *)
(* leave the sequence of both as it is.                                    *)
LEMMA ChunkMoves ==
  ASSUME NEW b \in Seq(Byte), NEW u \in Seq(Byte), NEW n \in 0..Len(u)
  PROVE  /\ SubSeq(u, 1, n) \in Seq(Byte) /\ Len(SubSeq(u, 1, n)) = n
         /\ SubSeq(u, n + 1, Len(u)) \in Seq(Byte)
         /\ b \o SubSeq(u, 1, n) \in Seq(Byte)
         /\ Len(b \o SubSeq(u, 1, n)) = Len(b) + n
         /\ (b \o SubSeq(u, 1, n)) \o SubSeq(u, n + 1, Len(u)) = b \o u
<1> DEFINE front == SubSeq(u, 1, n)
           back  == SubSeq(u, n + 1, Len(u))
<1>1. Len(u) \in Nat /\ \A i \in 1..Len(u) : u[i] \in Byte
  BY LenProperties, ElementOfSeq
<1>2. front \in Seq(Byte) /\ Len(front) = n
  BY <1>1, SubSeqProperties
<1>3. back \in Seq(Byte)
  BY <1>1, SubSeqProperties
<1>4. front \o back = u
  <2>1. /\ 1 \in 1..Len(u) + 1 /\ n \in 1 - 1..Len(u)
        /\ Len(u) \in n..Len(u)
    BY <1>1
  <2>2. front \o back = SubSeq(u, 1, Len(u))
    BY <2>1, ConcatAdjacentSubSeq
  <2>3. QED
    BY <2>2, SubSeqFull
<1> HIDE DEF front, back
<1>5. b \o front \in Seq(Byte) /\ Len(b \o front) = Len(b) + n
  BY <1>2, ConcatProperties
<1>6. (b \o front) \o back = b \o u
  <2>1. front \in Seq(Byte)
    BY <1>2
  <2>2. \A x, y, z \in Seq(Byte) : (x \o y) \o z = x \o (y \o z)
    BY ONLY ConcatAssociative, SMTT(30)
  <2>3. (b \o front) \o back = b \o (front \o back)
    BY <1>3, <2>1, <2>2, Zenon
  <2>4. QED
    BY <1>4, <2>3
<1>7. QED
  BY <1>2, <1>3, <1>5, <1>6 DEF front, back

(* Without its line end the answer is not longer. *)
LEMMA StrippedRange ==
  ASSUME NEW b \in Seq(Byte)
  PROVE  Stripped(b) \in Seq(Byte) /\ Len(Stripped(b)) <= Len(b)
<1>1. Len(b) \in Nat /\ \A i \in 1..Len(b) : b[i] \in Byte
  BY LenProperties, ElementOfSeq
<1>2. ASSUME NEW k \in Nat, k <= Len(b)
      PROVE  SubSeq(b, 1, k) \in Seq(Byte) /\ Len(SubSeq(b, 1, k)) <= Len(b)
  BY <1>1, <1>2, SubSeqProperties
<1>3. CASE ~ (Len(b) > 0 /\ b[Len(b)] = "lf")
  BY <1>1, <1>3 DEF Stripped
<1>4. CASE Len(b) > 0 /\ b[Len(b)] = "lf"
  <2> DEFINE k == IF Len(b) - 1 > 0 /\ b[Len(b) - 1] = "cr"
                  THEN Len(b) - 2 ELSE Len(b) - 1
  <2>1. k \in Nat /\ k <= Len(b)
    BY <1>1, <1>4
  <2>2. Stripped(b) = SubSeq(b, 1, k)
    BY <1>4 DEF Stripped
  <2>3. QED
    BY <1>2, <2>1, <2>2
<1>5. QED
  BY <1>3, <1>4

(* One turn of reading: what is taken fits, and nothing is lost unless     *)
(* overflow says so.                                                       *)
LEMMA TakeKeeps ==
  ASSUME TypeOK, NEW n \in 1..MaxWritten, ReadChunk(n)
  PROVE  /\ buffer' \in Seq(Byte) /\ Len(buffer') <= MaxInputLen + 1
         /\ unread' \in Seq(Byte) /\ overflow' \in BOOLEAN
         /\ ~ overflow' => ~ overflow /\ buffer' \o unread' = buffer \o unread
<1> DEFINE room     == MaxInputLen + 1 - Len(buffer)
           accepted == IF n <= room THEN n ELSE room
<1>1. /\ buffer \in Seq(Byte) /\ unread \in Seq(Byte)
      /\ Len(buffer) \in Nat /\ Len(unread) \in Nat
      /\ Len(buffer) <= MaxInputLen + 1 /\ n \in 1..Len(unread)
      /\ MaxInputLen \in Nat
  BY ConstantsAssumption, LenProperties DEF TypeOK, BytesTypeOK, ReadChunk
<1>2. accepted \in 0..Len(unread) /\ accepted <= room /\ room \in Nat
  BY <1>1
<1>3. /\ buffer' = buffer \o SubSeq(unread, 1, accepted)
      /\ overflow' = (overflow \/ accepted # n)
      /\ unread' = SubSeq(unread, n + 1, Len(unread))
  BY DEF ReadChunk, Take
<1> HIDE DEF accepted
<1>4. buffer' \in Seq(Byte) /\ Len(buffer') = Len(buffer) + accepted
  BY <1>1, <1>2, <1>3, ChunkMoves
<1>5. unread' \in Seq(Byte)
  BY <1>1, <1>3, ChunkMoves
<1>6. accepted = n => buffer' \o unread' = buffer \o unread
  <2>1. (buffer \o SubSeq(unread, 1, n)) \o SubSeq(unread, n + 1, Len(unread))
          = buffer \o unread
    <3>1. n \in 0..Len(unread)
      BY <1>1
    <3>2. QED
      BY <1>1, <3>1, ChunkMoves
  <2>2. SUFFICES ASSUME accepted = n PROVE buffer' \o unread' = buffer \o unread
    OBVIOUS
  <2>3. buffer' = buffer \o SubSeq(unread, 1, n)
    BY <1>3, <2>2, Zenon
  <2>4. QED
    BY <1>3, <2>1, <2>3, Zenon
<1>7. Len(buffer') <= MaxInputLen + 1
  BY <1>1, <1>2, <1>4
<1>8. overflow' \in BOOLEAN /\ (~ overflow' => ~ overflow /\ accepted = n)
  BY <1>3
<1>9. QED
  BY <1>4, <1>5, <1>6, <1>7, <1>8

(* Bytes that are written come after all others. *)
LEMMA WriteKeeps ==
  ASSUME NEW s \in Seq(Byte), NEW t \in Seq(Byte), NEW c \in Byte
  PROVE  /\ Append(t, c) \in Seq(Byte)
         /\ s \o Append(t, c) = Append(s \o t, c)
<1>1. Append(t, c) = t \o <<c>> /\ Append(t, c) \in Seq(Byte) /\ <<c>> \in Seq(Byte)
  BY AppendIsConcat, AppendProperties
<1>2. s \o t \in Seq(Byte) /\ (s \o t) \o <<c>> = s \o (t \o <<c>>)
  BY <1>1, ConcatProperties, ConcatAssociative
<1>3. Append(s \o t, c) = (s \o t) \o <<c>>
  BY <1>2, AppendIsConcat
<1>4. QED
  BY <1>1, <1>2, <1>3, Zenon

(* Steps that touch neither bytes nor answer leave the books alone. *)
LEMMA BooksUntouched ==
  Books /\ UNCHANGED <<pc, bufVars, answer, fate, pipeVars>> => Books'
BY DEF Books, Ledger, PasswordIsWholeAnswer, bufVars, pipeVars

(* Nor does the end of the child, which runas has not heard of yet.        *)
LEMMA EndKeepsBooks ==
  Books /\ Control /\ (\E f \in {"success", "failure", "nameless"} : ChildEnds(f))
    => Books'
<1> SUFFICES ASSUME Books, Control, NEW f, ChildEnds(f) PROVE Books'
  OBVIOUS
<1>1. /\ UNCHANGED <<pc, bufVars, answer, unread, written>>
      /\ writers' \subseteq writers /\ cstate \in Living
  BY DEF ChildEnds
<1>2. Ledger'
  BY <1>1 DEF Books, Ledger, bufVars
<1>3. fate = "alive"
  BY <1>1 DEF Control, Accounted
<1>4. answer # "password"
  BY <1>3 DEF Books, PasswordIsWholeAnswer
<1>5. QED
  BY <1>1, <1>2, <1>4 DEF Books, PasswordIsWholeAnswer

(* No byte gets lost or is counted twice, and the answer is made of them   *)
(* all, once everybody has closed the pipe and the helper has ended.       *)
LEMMA BooksKept == TypeOK /\ Control /\ Books /\ [Next]_vars => Books'
<1> SUFFICES ASSUME TypeOK, Control, Books, [Next]_vars PROVE Books'
  OBVIOUS
<1> USE DEF Books, Ledger, PasswordIsWholeAnswer, bufVars, childVars, pipeVars,
  Leave, EndTurn
<1>1. CASE RunasStep
  <2>1. CASE ParentEndpoint \/ ClosePasswordWrite \/ Install
    BY <2>1 DEF ParentEndpoint, ClosePasswordWrite, Install
  <2>2. CASE ParentHandshake
    BY <2>2 DEF ParentHandshake
  <2>3. ASSUME NEW n \in 1..MaxWritten, ReadChunk(n) PROVE Books'
    BY <2>3, TakeKeeps DEF ReadChunk
  <2>4. CASE ReadEndOfFile
    BY <2>4 DEF ReadEndOfFile
  <2>5. CASE ReceiveChildSignal
    BY <2>5 DEF ReceiveChildSignal
  <2>6. ASSUME NEW s \in HELPER_SIGNALS, ForwardSignal(s) PROVE Books'
    BY <2>6 DEF ForwardSignal
  <2>7. CASE ReapHelper
    BY <2>7 DEF ReapHelper, TypeOK, ChildTypeOK
  <2>12. CASE ReapUnnamed
    BY <2>12 DEF ReapUnnamed
  <2>8. CASE SkipReport
    BY <2>8, BooksUntouched DEF SkipReport
  <2>9. CASE StillAlive \/ NoChild
    BY <2>9 DEF StillAlive, NoChild
  <2>10. CASE Finish
    <3>1. ~ overflow => buffer = written
      <4>1. buffer \o <<>> = buffer
        BY ConcatEmptySeq DEF TypeOK, BytesTypeOK
      <4>2. pc = "finish" /\ answer = "none" /\ unread = <<>>
        BY <2>10 DEF Finish
      <4>3. QED
        BY <4>1, <4>2, Zenon
    <3>2. status = "success" => fate = "success"
      BY DEF Control, Accounted
    <3>3. QED
      BY <2>10, <3>1, <3>2 DEF Finish
  <2>11. QED
    BY <1>1, <2>1, <2>2, <2>3, <2>4, <2>5, <2>6, <2>7, <2>8, <2>9, <2>10, <2>12
      DEF RunasStep
<1>2. CASE ChildStep \/ DeathSignalArrives
  BY <1>2 DEF ChildStep, Prepare, Arm, ChildEndpoint, ChildHandshake, Execute,
    EndAborted, ChildOnly, DeathSignalArrives, ChildEnds, Control, Accounted
<1>3. CASE Environment
  <2>1. CASE KillRunas \/ RunasFails
    BY <2>1 DEF KillRunas, RunasFails
  <2>2. CASE \/ \E f \in {"success", "failure"} : HelperExits(f)
             \/ \E f \in {"failure", "nameless"} : ChildKilled(f)
             \/ ChildFails
    <3>1. \E f \in {"success", "failure", "nameless"} : ChildEnds(f)
      BY <2>2 DEF HelperExits, ChildKilled, ChildFails
    <3>2. QED
      BY <3>1, EndKeepsBooks
  <2>3. ASSUME NEW s \in HELPER_SIGNALS, ActOnSignal(s) PROVE Books'
    <3>1. CASE ChildEnds("failure")
      BY <3>1, EndKeepsBooks
    <3>2. CASE UNCHANGED <<pc, bufVars, answer, fate, pipeVars>>
      BY <3>2, BooksUntouched
    <3>3. QED
      BY <2>3, <3>1, <3>2 DEF ActOnSignal, HelperRest
  <2>4. CASE StopOrContinueHelper \/ \E s \in EnvSignals : SignalRunas(s)
    BY <2>4, BooksUntouched DEF StopOrContinueHelper, SignalRunas, HelperRest
  <2>5. CASE Spawn \/ \E w \in {"helper", "offspring"} : CloseOutput(w)
    BY <2>5 DEF Spawn, CloseOutput, Writer, HelperRest
  <2>6. ASSUME NEW w \in {"helper", "offspring"}, NEW b \in Byte, Write(w, b)
        PROVE  Books'
    <3>1. ~ eof
      BY <2>6 DEF Write, Writer
    <3>2. answer = "none" /\ answer' = "none"
      BY <2>6 DEF Write, HelperRest, TypeOK, RunasTypeOK
    <3>3. buffer \o Append(unread, b) = Append(buffer \o unread, b)
      BY WriteKeeps DEF TypeOK, BytesTypeOK
    <3>4. QED
      BY <2>6, <3>1, <3>2, <3>3 DEF Write, HelperRest
  <2>7. QED
    BY <1>3, <2>1, <2>2, <2>3, <2>4, <2>5, <2>6 DEF Environment
<1>4. CASE UNCHANGED vars
  BY <1>4 DEF vars
<1>5. QED
  BY <1>1, <1>2, <1>3, <1>4 DEF Next

(* The buffer stays within its limit; only three kinds of steps touch it,  *)
(* the pipe or the record of what was written.                             *)
LEMMA BytesTypesKept == TypeOK /\ [Next]_vars => BytesTypeOK'
<1> SUFFICES ASSUME TypeOK, [Next]_vars PROVE BytesTypeOK'
  OBVIOUS
<1>1. ASSUME NEW n \in 1..MaxWritten, ReadChunk(n) PROVE BytesTypeOK'
  BY <1>1, TakeKeeps DEF ReadChunk, TypeOK, BytesTypeOK
<1>2. CASE Finish
  <2>1. /\ Stripped(buffer) \in Seq(Byte) /\ Len(Stripped(buffer)) <= Len(buffer)
        /\ Len(buffer) \in Nat /\ Len(Stripped(buffer)) \in Nat
    BY StrippedRange, LenProperties DEF TypeOK, BytesTypeOK
  <2>2. Len(Stripped(buffer)) <= MaxInputLen + 1
    BY <2>1, ConstantsAssumption DEF TypeOK, BytesTypeOK
  <2>3. QED
    BY <1>2, <2>1, <2>2 DEF Finish, TypeOK, BytesTypeOK
<1>3. ASSUME NEW w, NEW b \in Byte, Write(w, b) PROVE BytesTypeOK'
  BY <1>3, WriteKeeps DEF Write, HelperRest, bufVars, TypeOK, BytesTypeOK
<1>4. CASE UNCHANGED <<buffer, unread, written>>
  BY <1>4 DEF TypeOK, BytesTypeOK
<1>5. CASE RunasStep
  BY <1>1, <1>2, <1>4, <1>5
    DEF RunasStep, ClosePasswordWrite, Install, ParentEndpoint, ParentHandshake,
      ReadEndOfFile, ReceiveChildSignal, ForwardSignal, ReapHelper, ReapUnnamed,
      SkipReport, StillAlive, NoChild, Leave, bufVars, pipeVars
<1>6. CASE ChildStep \/ DeathSignalArrives
  BY <1>4, <1>6
    DEF ChildStep, Prepare, Arm, ChildEndpoint, ChildHandshake, Execute,
      EndAborted, DeathSignalArrives, ChildOnly, ChildEnds, bufVars, pipeVars
<1>7. CASE Environment
  BY <1>3, <1>4, <1>7
    DEF Environment, CloseOutput, Spawn, HelperExits, ChildKilled, ChildFails,
      StopOrContinueHelper, ActOnSignal, SignalRunas, KillRunas, RunasFails,
      HelperRest, ChildEnds, bufVars, pipeVars
<1>8. CASE UNCHANGED vars
  BY <1>4, <1>8 DEF vars, bufVars, pipeVars
<1>9. QED
  BY <1>5, <1>6, <1>7, <1>8 DEF Next

LEMMA RunasUntouched ==
  RunasTypeOK /\ UNCHANGED <<pc, mask, pending, bufVars, answer, events>>
    => RunasTypeOK'
BY DEF RunasTypeOK, bufVars

(* The variables of runas stay in their ranges. *)
LEMMA RunasTypesKept == TypeOK /\ Control /\ [Next]_vars => RunasTypeOK'
<1> SUFFICES ASSUME RunasTypeOK, ChildTypeOK, Control, [Next]_vars PROVE RunasTypeOK'
  BY DEF TypeOK
<1> USE DEF RunasTypeOK, bufVars, Leave, EndTurn, WithChildSignal, HELPER_SIGNALS
<1>1. CASE RunasStep
  <2>1. CASE ParentEndpoint \/ ClosePasswordWrite \/ Install
    BY <2>1 DEF ParentEndpoint, ClosePasswordWrite, Install
  <2>2. CASE ParentHandshake
    BY <2>2 DEF ParentHandshake
  <2>3. ASSUME NEW n \in 1..MaxWritten, ReadChunk(n) PROVE RunasTypeOK'
    BY <2>3 DEF ReadChunk, Take
  <2>4. CASE ReadEndOfFile \/ ReceiveChildSignal
    BY <2>4 DEF ReadEndOfFile, ReceiveChildSignal
  <2>5. ASSUME NEW s \in HELPER_SIGNALS, ForwardSignal(s) PROVE RunasTypeOK'
    BY <2>5 DEF ForwardSignal
  <2>6. CASE ReapHelper
    <3>1. fate \in {"success", "failure"}
      BY <2>6 DEF ReapHelper, ChildTypeOK, Control, Accounted, Living
    <3>2. QED
      BY <2>6, <3>1 DEF ReapHelper
  <2>7. CASE ReapUnnamed \/ SkipReport \/ StillAlive \/ NoChild
    BY <2>7 DEF ReapUnnamed, SkipReport, StillAlive, NoChild
  <2>8. CASE Finish
    BY <2>8 DEF Finish
  <2>9. QED
    BY <1>1, <2>1, <2>2, <2>3, <2>4, <2>5, <2>6, <2>7, <2>8 DEF RunasStep
<1>2. CASE ChildStep \/ DeathSignalArrives
  <2>1. CASE EndAborted \/ DeathSignalArrives
    BY <2>1 DEF EndAborted, DeathSignalArrives, ChildEnds
  <2>2. CASE Prepare \/ Arm \/ ChildEndpoint \/ ChildHandshake \/ Execute
    BY <2>2, RunasUntouched DEF Prepare, Arm, ChildEndpoint, ChildHandshake, Execute,
      ChildOnly
  <2>3. QED
    BY <1>2, <2>1, <2>2 DEF ChildStep
<1>3. CASE Environment
  <2>1. CASE KillRunas \/ RunasFails
    BY <2>1 DEF KillRunas, RunasFails
  <2>2. CASE \/ \E f \in {"success", "failure"} : HelperExits(f)
             \/ \E f \in {"failure", "nameless"} : ChildKilled(f)
             \/ ChildFails
    BY <2>2 DEF HelperExits, ChildKilled, ChildFails, ChildEnds
  <2>3. ASSUME NEW s \in HELPER_SIGNALS, ActOnSignal(s) PROVE RunasTypeOK'
    BY <2>3 DEF ActOnSignal, ChildEnds, StopNow, HelperRest
  <2>4. Event => events' \in 0..MaxEvents
    BY ConstantsAssumption DEF Event
  <2>5. CASE StopOrContinueHelper
    BY <2>4, <2>5 DEF StopOrContinueHelper, StopNow, HelperRest
  <2>6. ASSUME NEW s \in EnvSignals, SignalRunas(s) PROVE RunasTypeOK'
    <3>1. s \in HELPER_SIGNALS
      BY ConstantsAssumption
    <3>2. QED
      BY <2>4, <2>6, <3>1 DEF SignalRunas, HelperRest
  <2>7. CASE \/ Spawn
             \/ \E w \in {"helper", "offspring"} :
                  CloseOutput(w) \/ \E b \in Byte : Write(w, b)
    BY <2>7, RunasUntouched DEF Spawn, CloseOutput, Write, HelperRest
  <2>8. QED
    BY <1>3, <2>1, <2>2, <2>3, <2>5, <2>6, <2>7 DEF Environment
<1>4. CASE UNCHANGED vars
  BY <1>4 DEF vars
<1>5. QED
  BY <1>1, <1>2, <1>3, <1>4 DEF Next

LEMMA ChildUntouched ==
  ChildTypeOK /\ UNCHANGED childVars /\ writers' \subseteq writers \cup {"offspring"}
    => ChildTypeOK'
BY DEF ChildTypeOK, childVars

(* So do those of the child. *)
LEMMA ChildTypesKept == TypeOK /\ [Next]_vars => ChildTypeOK'
<1> SUFFICES ASSUME ChildTypeOK, [Next]_vars PROVE ChildTypeOK'
  BY DEF TypeOK
<1>0. ASSUME NEW f \in {"success", "failure", "nameless"}, ChildEnds(f)
      PROVE  ChildTypeOK'
  BY <1>0 DEF ChildTypeOK, ChildEnds, Living
<1>1. CASE RunasStep
  <2>1. CASE UNCHANGED childVars /\ writers' \subseteq writers \cup {"offspring"}
    BY <2>1, ChildUntouched
  <2>2. ASSUME NEW s \in HELPER_SIGNALS, ForwardSignal(s) PROVE ChildTypeOK'
    BY <2>2 DEF ForwardSignal, pipeVars, ChildTypeOK, Living
  <2>3. CASE ReapHelper \/ ReapUnnamed \/ SkipReport
    BY <2>3 DEF ReapHelper, ReapUnnamed, SkipReport, Leave, pipeVars, ChildTypeOK
  <2>4. QED
    BY <1>1, <2>1, <2>2, <2>3
      DEF RunasStep, ClosePasswordWrite, Install, ParentEndpoint, ParentHandshake,
        ReadChunk, ReadEndOfFile, ReceiveChildSignal, StillAlive, NoChild, Finish,
        Leave, pipeVars
<1>2. CASE ChildStep
  <2>1. CASE Prepare \/ Arm \/ Execute
    BY <2>1 DEF Prepare, Arm, Execute, ChildOnly, pipeVars, ChildTypeOK
  <2>2. CASE ChildEndpoint \/ ChildHandshake
    BY <2>2 DEF ChildEndpoint, ChildHandshake, ChildOnly, pipeVars, ChildTypeOK
  <2>3. QED
    BY <1>0, <1>2, <2>1, <2>2 DEF ChildStep, EndAborted
<1>3. CASE Environment
  <2>1. CASE UNCHANGED childVars /\ writers' \subseteq writers \cup {"offspring"}
    BY <2>1, ChildUntouched
  <2>2. ASSUME NEW s \in HELPER_SIGNALS, ActOnSignal(s) PROVE ChildTypeOK'
    BY <1>0, <2>2 DEF ActOnSignal, StopNow, pipeVars, ChildTypeOK, Living
  <2>3. CASE StopOrContinueHelper
    BY <2>3 DEF StopOrContinueHelper, StopNow, pipeVars, ChildTypeOK, Living
  <2>4. CASE KillRunas
    BY <2>4 DEF KillRunas, ChildTypeOK, Living
  <2>5. QED
    BY <1>0, <1>3, <2>1, <2>2, <2>3, <2>4
      DEF Environment, CloseOutput, Write, Spawn, HelperExits, ChildKilled,
        ChildFails, SignalRunas, RunasFails, Leave, pipeVars
<1>4. CASE UNCHANGED vars
  BY <1>4, ChildUntouched DEF vars, pipeVars
<1>5. QED
  BY <1>0, <1>1, <1>2, <1>3, <1>4 DEF Next, DeathSignalArrives

-----------------------------------------------------------------------------
(***************************************************************************)
(* The invariant and what follows from it.                                 *)
(***************************************************************************)
LEMMA InitInvariant == Init => FP!IInv /\ IInv
<1> SUFFICES ASSUME Init PROVE FP!IInv /\ IInv
  OBVIOUS
<1>1. FP!IInv
  BY SameBarrier, FP!InitInvariant, IOFaultsIsBoolean DEF Init
<1>2. <<>> \in Seq(Byte) /\ Len(<<>>) = 0 /\ <<>> \o <<>> = <<>>
  BY EmptySeq, ConcatEmptySeq
<1>3. TypeOK
  <2>1. FS!TypeOK
    BY <1>1, BarrierRanges
  <2>2. RunasTypeOK
    <3>1. 0 \in 0..MaxEvents
      BY ConstantsAssumption
    <3>2. QED
      BY <3>1 DEF Init, RunasTypeOK
  <2>5. ChildTypeOK
    BY DEF Init, ChildTypeOK, Living
  <2>3. BytesTypeOK
    BY <1>2, ConstantsAssumption DEF Init, BytesTypeOK
  <2>4. QED
    BY <2>1, <2>2, <2>3, <2>5 DEF TypeOK
<1>4. Control
  BY DEF Init, FS!Init, FS!Side, FS!Undecided, Control, RunasPlace, ChildPlace,
    Leashed, Noticed, Accounted, Living
<1>5. Books
  BY <1>2 DEF Init, Books, Ledger, PasswordIsWholeAnswer
<1>6. QED
  BY <1>1, <1>3, <1>4, <1>5 DEF IInv

LEMMA StepInvariant == FP!IInv /\ IInv /\ [Next]_vars => (FP!IInv /\ IInv)'
<1> SUFFICES ASSUME FP!IInv, IInv, [Next]_vars PROVE (FP!IInv /\ IInv)'
  OBVIOUS
<1>1. FP!IInv'
  BY BarrierInvariant
<1>2. FS!TypeOK'
  BY <1>1, BarrierRanges, PTL
<1>3. TypeOK'
  BY <1>2, BytesTypesKept, RunasTypesKept, ChildTypesKept
    DEF IInv, TypeOK
<1>4. QED
  BY <1>1, <1>3, ControlKept, BooksKept DEF IInv

LEMMA Invariant == Spec => [](FP!IInv /\ IInv)
BY InitInvariant, StepInvariant, PTL DEF Spec

(* Every variable keeps its range; in particular the buffer never takes    *)
(* more than one byte beyond MAX_INPUT_LEN.                                *)
THEOREM TypeCorrect == Spec => []TypeOK
BY Invariant, PTL DEF IInv

(* A password that launch_helper() returns is what a helper that ended     *)
(* well, and whoever inherited its pipe, have written, all of it, without  *)
(* the line end: for every limit and every number of bytes.                *)
THEOREM WholeAnswer == Spec => []PasswordIsWholeAnswer
BY Invariant, PTL DEF IInv, Books

(* While runas waits for the pipe, the end of the helper is known or       *)
(* announced by a pending SIGCHLD, although the helper may be dead before  *)
(* the signals are blocked; unless runas was started with SIGCHLD ignored. *)
THEOREM WakeupKept == ~ IgnoreChild => (Spec => []NoLostWakeup)
<1> SUFFICES ASSUME ~ IgnoreChild PROVE Spec => []NoLostWakeup
  OBVIOUS
<1>1. IInv => NoLostWakeup
  <2> SUFFICES ASSUME IInv, pc = "read", "SIGCHLD" \notin pending, cstate \notin Living
               PROVE  status # "none"
    BY DEF NoLostWakeup
  <2>1. phase["parent"] = "continue"
    BY DEF IInv, Control, RunasPlace
  <2>2. cstate = "reaped"
    BY <2>1 DEF IInv, TypeOK, ChildTypeOK, Control, Noticed
  <2>3. QED
    BY <2>2 DEF IInv, Control, Accounted
<1>2. QED
  BY <1>1, Invariant, PTL

(* When runas is killed, wherever it and the child are, no helper runs on  *)
(* unless SIGKILL is on its way to it.                                     *)
THEOREM HelperIsLeashed == Spec => []NoOrphanHelper
<1>1. IInv => NoOrphanHelper
  BY DEF IInv, Control, Leashed, NoOrphanHelper
<1>2. QED
  BY <1>1, Invariant, PTL

=============================================================================
