--------------------------- MODULE ForkSync_proofs ---------------------------
(***************************************************************************)
(* Proofs about the barrier of modules/fork_sync.rs: both sides agree, and *)
(* the barrier implements the gate of StartGate, with and without I/O      *)
(* faults and for every interleaving of the two processes.                 *)
(***************************************************************************)
EXTENDS ForkSync, SequenceTheorems, TLAPS

(* The phases in which a side has not yet closed the end it writes to. *)
BeforeClose == {"forked", "closing", "endpoint", "announced"}

(* What a side has sent follows from how far it has come. *)
SentMatchesPhase ==
  \A s \in Side :
    /\ phase[s] \in {"forked", "closing", "endpoint"} => sent[s] = "none"
    /\ phase[s] \in {"announced", "waiting", "continue", "abort"}
         => sent[s] = "READY"
    /\ sent[s] = "FAILED" => phase[s] = "failed"

(* A pipe carries at most the one byte that was sent into it ... *)
PipeCarriesStatus ==
  \A s \in Side : pipe[s] = <<>> \/ (sent[s] # "none" /\ pipe[s] = <<sent[s]>>)

(* ... and if that byte has left the pipe, the peer has acted on it. *)
ConsumedMeansDecided ==
  \A s \in Side :
    sent[s] # "none" /\ pipe[s] = <<>>
      => phase[Other(s)] = IF sent[s] = "READY" THEN "continue" ELSE "abort"

(* Which descriptors a side holds follows from how far it has come. *)
OpenMatchesPhase ==
  \A s \in Side :
    /\ phase[s] = "forked" => open[s] = Descriptor
    /\ phase[s] = "closing" => open[s] = Descriptor \ {ClosedFirst(s)}
    /\ phase[s] \in {"endpoint", "announced"}
         => open[s] = {ReadEnd(s), WriteEnd(s)}
    /\ phase[s] = "waiting" => open[s] = {ReadEnd(s)}
    /\ phase[s] \notin Undecided => open[s] = {}

(* No end of file while a side may still write. *)
WriterHoldsEnd ==
  \A s \in Side : phase[s] \in BeforeClose => WriteEnd(s) \in open[s]

(* What each conclusion rests on. *)
DecisionsJustified ==
  \A s \in Side :
    /\ phase[s] = "continue" => sent[Other(s)] = "READY"
    /\ phase[s] = "abort" => /\ sent[Other(s)] # "READY"
                             /\ phase[Other(s)] \notin Undecided

IInv ==
  /\ TypeOK
  /\ SentMatchesPhase
  /\ PipeCarriesStatus
  /\ ConsumedMeansDecided
  /\ OpenMatchesPhase
  /\ DecisionsJustified

-----------------------------------------------------------------------------
LEMMA OtherSide ==
  \A s \in Side : Other(s) \in Side /\ Other(s) # s /\ Other(Other(s)) = s
BY DEF Side, Other

LEMMA EndsAreDistinct ==
  \A s, t \in Side :
    /\ WriteEnd(s) \in Descriptor /\ ReadEnd(s) \in Descriptor
    /\ WriteEnd(s) # ReadEnd(t)
    /\ WriteEnd(s) = WriteEnd(t) => s = t
    /\ ReadEnd(s) = ReadEnd(t) => s = t
    /\ ClosedFirst(s) \in {ReadEnd(Other(s)), WriteEnd(Other(s))}
BY DEF Side, Other, WriteEnd, ReadEnd, Descriptor, ClosedFirst

LEMMA WritersHold == OpenMatchesPhase => WriterHoldsEnd
BY EndsAreDistinct, OtherSide
  DEF OpenMatchesPhase, WriterHoldsEnd, BeforeClose

LEMMA OneByte ==
  ASSUME NEW b
  PROVE  /\ Append(<<>>, b) = <<b>>
         /\ Head(<<b>>) = b
         /\ Tail(<<b>>) = <<>>
         /\ <<b>> # <<>>
OBVIOUS

(* The barrier starts in a state that satisfies the invariant. *)
LEMMA InitInvariant == Init => IInv
<1> SUFFICES ASSUME Init PROVE IInv
  OBVIOUS
<1>1. TypeOK
  BY DEF Init, TypeOK, Phase, Status
<1>2. SentMatchesPhase /\ PipeCarriesStatus /\ ConsumedMeansDecided
  BY DEF Init, SentMatchesPhase, PipeCarriesStatus, ConsumedMeansDecided
<1>3. OpenMatchesPhase
  BY DEF Init, OpenMatchesPhase, Undecided
<1>4. DecisionsJustified
  BY DEF Init, DecisionsJustified
<1>5. QED
  BY <1>1, <1>2, <1>3, <1>4 DEF IInv

(* Every step, stuttering included, preserves it. *)
LEMMA StepInvariant == IInv /\ [Next]_syncVars => IInv'
<1> SUFFICES ASSUME IInv, [Next]_syncVars PROVE IInv'
  OBVIOUS
<1> USE OtherSide DEF Undecided, BeforeClose
<1>w. WriterHoldsEnd
  BY WritersHold DEF IInv
<1>t. TypeOK /\ DOMAIN open = Side /\ DOMAIN pipe = Side
      /\ DOMAIN sent = Side /\ DOMAIN phase = Side
  BY DEF IInv, TypeOK
<1>1. ASSUME NEW s \in Side, CloseOnePeerEnd(s) PROVE IInv'
  <2>1. TypeOK'
    BY <1>1, <1>t DEF CloseOnePeerEnd, TypeOK, Phase
  <2>2. OpenMatchesPhase'
    BY <1>1, <1>t, EndsAreDistinct
      DEF IInv, CloseOnePeerEnd, OpenMatchesPhase
  <2>3. (SentMatchesPhase /\ PipeCarriesStatus /\ ConsumedMeansDecided)'
    BY <1>1, <1>t DEF IInv, CloseOnePeerEnd, SentMatchesPhase,
                      PipeCarriesStatus, ConsumedMeansDecided
  <2>4. DecisionsJustified'
    BY <1>1, <1>t DEF IInv, CloseOnePeerEnd, DecisionsJustified
  <2>5. QED
    BY <2>1, <2>2, <2>3, <2>4 DEF IInv
<1>2. ASSUME NEW s \in Side, IntoEndpoint(s) PROVE IInv'
  <2>1. TypeOK'
    BY <1>2, <1>t, EndsAreDistinct DEF IntoEndpoint, TypeOK, Phase
  <2>2. OpenMatchesPhase'
    BY <1>2, <1>t DEF IInv, IntoEndpoint, OpenMatchesPhase
  <2>3. (SentMatchesPhase /\ PipeCarriesStatus /\ ConsumedMeansDecided)'
    BY <1>2, <1>t DEF IInv, IntoEndpoint, SentMatchesPhase,
                      PipeCarriesStatus, ConsumedMeansDecided
  <2>4. DecisionsJustified'
    BY <1>2, <1>t DEF IInv, IntoEndpoint, DecisionsJustified
  <2>5. QED
    BY <2>1, <2>2, <2>3, <2>4 DEF IInv
<1>3. ASSUME NEW s \in Side, SendReady(s) PROVE IInv'
  <2>1. TypeOK'
    BY <1>3, <1>t, OneByte DEF SendReady, SendStatus, TypeOK, Phase, Status
  <2>2. OpenMatchesPhase'
    BY <1>3, <1>t DEF IInv, SendReady, SendStatus, OpenMatchesPhase
  <2>a. pipe' = [pipe EXCEPT ![s] = <<"READY">>]
    BY <1>3, <1>t, OneByte DEF IInv, SendReady, SendStatus, PipeCarriesStatus
  <2>3. (SentMatchesPhase /\ PipeCarriesStatus /\ ConsumedMeansDecided)'
    <3>1. SentMatchesPhase'
      BY <1>3, <1>t DEF IInv, SendReady, SendStatus, SentMatchesPhase
    <3>2. PipeCarriesStatus'
      BY <1>3, <1>t, <2>a DEF IInv, SendReady, SendStatus, PipeCarriesStatus
    <3>3. ConsumedMeansDecided'
      BY <1>3, <1>t, <2>a, OneByte
        DEF IInv, SendReady, SendStatus, ConsumedMeansDecided, DecisionsJustified
    <3>4. QED
      BY <3>1, <3>2, <3>3
  <2>4. DecisionsJustified'
    BY <1>3, <1>t, OneByte DEF IInv, SendReady, SendStatus, DecisionsJustified,
      SentMatchesPhase, PipeCarriesStatus, ConsumedMeansDecided
  <2>5. QED
    BY <2>1, <2>2, <2>3, <2>4 DEF IInv
<1>4. ASSUME NEW s \in Side, CloseWriteEnd(s) PROVE IInv'
  <2>1. TypeOK'
    BY <1>4, <1>t DEF CloseWriteEnd, TypeOK, Phase, Status
  <2>2. OpenMatchesPhase'
    BY <1>4, <1>t, EndsAreDistinct DEF IInv, CloseWriteEnd, OpenMatchesPhase
  <2>3. (SentMatchesPhase /\ PipeCarriesStatus /\ ConsumedMeansDecided)'
    BY <1>4, <1>t DEF IInv, CloseWriteEnd, SentMatchesPhase,
      PipeCarriesStatus, ConsumedMeansDecided
  <2>4. DecisionsJustified'
    BY <1>4, <1>t DEF IInv, CloseWriteEnd, DecisionsJustified,
      SentMatchesPhase, PipeCarriesStatus, ConsumedMeansDecided
  <2>5. QED
    BY <2>1, <2>2, <2>3, <2>4 DEF IInv
<1>5. ASSUME NEW s \in Side, SendBroken(s) PROVE IInv'
  <2>1. TypeOK'
    BY <1>5, <1>t DEF SendBroken, LeaveAs, TypeOK, Phase, Status
  <2>2. OpenMatchesPhase'
    BY <1>5, <1>t DEF IInv, SendBroken, LeaveAs, OpenMatchesPhase
  <2>3. (SentMatchesPhase /\ PipeCarriesStatus /\ ConsumedMeansDecided)'
    BY <1>5, <1>t DEF IInv, SendBroken, LeaveAs, SentMatchesPhase,
      PipeCarriesStatus, ConsumedMeansDecided
  <2>4. DecisionsJustified'
    BY <1>5, <1>t DEF IInv, SendBroken, LeaveAs, DecisionsJustified,
      SentMatchesPhase, PipeCarriesStatus, ConsumedMeansDecided
  <2>5. QED
    BY <2>1, <2>2, <2>3, <2>4 DEF IInv
<1>6. ASSUME NEW s \in Side, ReportFailure(s) PROVE IInv'
  <2>1. TypeOK'
    BY <1>6, <1>t, OneByte DEF ReportFailure, SendStatus, LeaveAs, TypeOK, Phase, Status
  <2>2. OpenMatchesPhase'
    BY <1>6, <1>t DEF IInv, ReportFailure, SendStatus, LeaveAs, OpenMatchesPhase
  <2>a. pipe' = [pipe EXCEPT ![s] = <<"FAILED">>]
    BY <1>6, <1>t, OneByte DEF IInv, ReportFailure, SendStatus, PipeCarriesStatus
  <2>3. (SentMatchesPhase /\ PipeCarriesStatus /\ ConsumedMeansDecided)'
    <3>1. SentMatchesPhase'
      BY <1>6, <1>t DEF IInv, ReportFailure, SendStatus, LeaveAs, SentMatchesPhase
    <3>2. PipeCarriesStatus'
      BY <1>6, <1>t, <2>a DEF IInv, ReportFailure, SendStatus, LeaveAs, PipeCarriesStatus
    <3>3. ConsumedMeansDecided'
      BY <1>6, <1>t, <2>a, OneByte
        DEF IInv, ReportFailure, SendStatus, LeaveAs, ConsumedMeansDecided, DecisionsJustified
    <3>4. QED
      BY <3>1, <3>2, <3>3
  <2>4. DecisionsJustified'
    BY <1>6, <1>t, OneByte DEF IInv, ReportFailure, SendStatus, LeaveAs, DecisionsJustified,
      SentMatchesPhase, PipeCarriesStatus, ConsumedMeansDecided
  <2>5. QED
    BY <2>1, <2>2, <2>3, <2>4 DEF IInv
<1>7. ASSUME NEW s \in Side, ReadStatus(s) PROVE IInv'
  <2>a. pipe' = [pipe EXCEPT ![Other(s)] = <<>>]
    <3>1. pipe[Other(s)] = <<sent[Other(s)]>>
      BY <1>7 DEF IInv, ReadStatus, PipeCarriesStatus
    <3>2. Tail(pipe[Other(s)]) = <<>>
      BY <3>1, OneByte
    <3>3. QED
      BY <1>7, <3>2 DEF ReadStatus
  <2>1. TypeOK'
    BY <1>7, <1>t, <2>a DEF ReadStatus, LeaveAs, TypeOK, Phase, Status
  <2>2. OpenMatchesPhase'
    BY <1>7, <1>t DEF IInv, ReadStatus, LeaveAs, OpenMatchesPhase
  <2>3. (SentMatchesPhase /\ PipeCarriesStatus /\ ConsumedMeansDecided)'
    BY <1>7, <1>t, <2>a, OneByte DEF IInv, ReadStatus, LeaveAs, SentMatchesPhase,
      PipeCarriesStatus, ConsumedMeansDecided
  <2>4. DecisionsJustified'
    BY <1>7, <1>t, OneByte DEF IInv, ReadStatus, LeaveAs, DecisionsJustified,
      SentMatchesPhase, PipeCarriesStatus, ConsumedMeansDecided
  <2>5. QED
    BY <2>1, <2>2, <2>3, <2>4 DEF IInv
<1>8. ASSUME NEW s \in Side, ReadEof(s) PROVE IInv'
  <2>1. TypeOK'
    BY <1>8, <1>t DEF ReadEof, LeaveAs, Held, TypeOK, Phase, Status
  <2>2. OpenMatchesPhase'
    BY <1>8, <1>t DEF IInv, ReadEof, LeaveAs, Held, OpenMatchesPhase, OpenMatchesPhase
  <2>3. (SentMatchesPhase /\ PipeCarriesStatus /\ ConsumedMeansDecided)'
    BY <1>8, <1>t DEF IInv, ReadEof, LeaveAs, Held, SentMatchesPhase,
      PipeCarriesStatus, ConsumedMeansDecided
  <2>4. DecisionsJustified'
    BY <1>8, <1>t, <1>w DEF IInv, ReadEof, LeaveAs, Held, WriterHoldsEnd, DecisionsJustified,
      SentMatchesPhase, PipeCarriesStatus, ConsumedMeansDecided
  <2>5. QED
    BY <2>1, <2>2, <2>3, <2>4 DEF IInv
<1>9. ASSUME NEW s \in Side, IOError(s) PROVE IInv'
  <2>1. TypeOK'
    BY <1>9, <1>t DEF IOError, LeaveAs, TypeOK, Phase, Status
  <2>2. OpenMatchesPhase'
    BY <1>9, <1>t DEF IInv, IOError, LeaveAs, OpenMatchesPhase
  <2>3. (SentMatchesPhase /\ PipeCarriesStatus /\ ConsumedMeansDecided)'
    BY <1>9, <1>t DEF IInv, IOError, LeaveAs, SentMatchesPhase,
      PipeCarriesStatus, ConsumedMeansDecided
  <2>4. DecisionsJustified'
    BY <1>9, <1>t DEF IInv, IOError, LeaveAs, DecisionsJustified,
      SentMatchesPhase, PipeCarriesStatus, ConsumedMeansDecided
  <2>5. QED
    BY <2>1, <2>2, <2>3, <2>4 DEF IInv
<1>10. ASSUME NEW s \in Side, Vanish(s) PROVE IInv'
  <2>1. TypeOK'
    BY <1>10, <1>t DEF Vanish, LeaveAs, TypeOK, Phase, Status
  <2>2. OpenMatchesPhase'
    BY <1>10, <1>t DEF IInv, Vanish, LeaveAs, OpenMatchesPhase
  <2>3. (SentMatchesPhase /\ PipeCarriesStatus /\ ConsumedMeansDecided)'
    BY <1>10, <1>t DEF IInv, Vanish, LeaveAs, SentMatchesPhase,
      PipeCarriesStatus, ConsumedMeansDecided
  <2>4. DecisionsJustified'
    BY <1>10, <1>t DEF IInv, Vanish, LeaveAs, DecisionsJustified,
      SentMatchesPhase, PipeCarriesStatus, ConsumedMeansDecided
  <2>5. QED
    BY <2>1, <2>2, <2>3, <2>4 DEF IInv
<1>11. ASSUME UNCHANGED syncVars PROVE IInv'
  BY <1>11, <1>t DEF IInv, syncVars, TypeOK, SentMatchesPhase, PipeCarriesStatus,
    ConsumedMeansDecided, OpenMatchesPhase, DecisionsJustified
<1>12. QED
  BY <1>1, <1>2, <1>3, <1>4, <1>5, <1>6, <1>7, <1>8, <1>9, <1>10, <1>11
    DEF Next, Proceed

(* The invariant holds in every reachable state. *)
LEMMA Invariant == Spec => []IInv
<1>1. QED
  BY InitInvariant, StepInvariant, PTL DEF Spec

-----------------------------------------------------------------------------
(* The variables of the barrier keep the ranges fork_sync.rs gives them, *)
(* status bytes included: the EPROTO branch is never taken.              *)
THEOREM TypeCorrect == Spec => []TypeOK
<1>1. IInv => TypeOK
  BY DEF IInv
<1>2. QED
  BY <1>1, Invariant, PTL

(* A side continues only for a peer that reported READY. *)
THEOREM ReadyBeforeContinue == Spec => []ContinueOnlyAfterReady
<1>1. IInv => ContinueOnlyAfterReady
  BY DEF IInv, DecisionsJustified, ContinueOnlyAfterReady
<1>2. QED
  BY <1>1, Invariant, PTL

(* No crash and no interleaving splits the decision. *)
THEOREM Agreement == Spec => []NoSplitDecision
<1>1. IInv => NoSplitDecision
  BY OtherSide DEF IInv, DecisionsJustified, SentMatchesPhase, NoSplitDecision
<1>2. QED
  BY <1>1, Invariant, PTL

-----------------------------------------------------------------------------
(* Each step of the barrier is a step of the gate or leaves it alone. *)
LEMMA StepRefines == IInv /\ [Next]_syncVars => [Gate!Next]_(Gate!gateVars)
<1> SUFFICES ASSUME IInv, [Next]_syncVars
             PROVE  Gate!Next \/ UNCHANGED <<promisedBar, decisionBar>>
  BY DEF Gate!gateVars
<1> USE OtherSide
<1>t. TypeOK /\ DOMAIN open = Side /\ DOMAIN pipe = Side
      /\ DOMAIN sent = Side /\ DOMAIN phase = Side
  BY DEF IInv, TypeOK
<1>s. Gate!Side = Side /\ \A s \in Side : Gate!Other(s) = Other(s)
  BY DEF Side, Gate!Side, Other, Gate!Other
<1>1. ASSUME NEW s \in Side, SendReady(s)
      PROVE  Gate!Promise(s)
  BY <1>1, <1>t DEF SendReady, SendStatus, Gate!Promise, promisedBar, decisionBar,
    Undecided
<1>2. ASSUME NEW s \in Side, ReadStatus(s)
      PROVE  Gate!Continue(s) \/ Gate!Abort(s)
  <2>1. sent[s] = "READY" /\ pipe[Other(s)] = <<sent[Other(s)]>>
    BY <1>2 DEF IInv, ReadStatus, SentMatchesPhase, PipeCarriesStatus
  <2>2. CASE sent[Other(s)] = "READY"
    BY <1>2, <1>t, <1>s, <2>1, <2>2, OneByte
      DEF ReadStatus, LeaveAs, Gate!Continue, promisedBar, decisionBar, Undecided
  <2>3. CASE sent[Other(s)] # "READY"
    <3>1. phase[Other(s)] = "failed"
      BY <1>2, <1>t, <2>1, <2>3
        DEF IInv, TypeOK, Status, ReadStatus, SentMatchesPhase, PipeCarriesStatus
    <3>2. QED
      BY <1>2, <1>t, <1>s, <2>1, <2>3, <3>1, OneByte
        DEF ReadStatus, LeaveAs, Gate!Abort, promisedBar, decisionBar, Undecided
  <2>4. QED
    BY <2>2, <2>3
<1>3. ASSUME NEW s \in Side, ReadEof(s)
      PROVE  Gate!Abort(s)
  <2>1. sent[s] = "READY"
    BY <1>3 DEF IInv, ReadEof, SentMatchesPhase
  <2>2. phase[Other(s)] \notin BeforeClose
    BY <1>3, WritersHold DEF IInv, ReadEof, Held, WriterHoldsEnd
  <2>3. sent[Other(s)] # "READY"
    BY <1>3 DEF IInv, ReadEof, ConsumedMeansDecided
  <2>4. phase[Other(s)] \in {"error", "failed", "gone"}
    BY <1>t, <2>2, <2>3
      DEF IInv, SentMatchesPhase, TypeOK, Phase, BeforeClose
  <2>5. QED
    BY <1>3, <1>t, <1>s, <2>1, <2>3, <2>4
      DEF ReadEof, LeaveAs, Gate!Abort, promisedBar, decisionBar, Undecided
<1>4. ASSUME NEW s \in Side, SendBroken(s) \/ ReportFailure(s) \/ IOError(s) \/ Vanish(s)
      PROVE  Gate!Withdraw(s)
  <2>1. /\ phase[s] \in Undecided
        /\ \E q \in {"error", "failed", "gone"} : phase' = [phase EXCEPT ![s] = q]
    BY <1>4 DEF SendBroken, ReportFailure, IOError, Vanish, LeaveAs, Undecided
  <2>2. sent' = sent \/ (sent[s] = "none" /\ sent' = [sent EXCEPT ![s] = "FAILED"])
    BY <1>4 DEF SendBroken, ReportFailure, SendStatus, IOError, Vanish
  <2>3. promisedBar' = promisedBar
    BY <1>t, <2>2 DEF promisedBar
  <2>4. decisionBar[s] = "undecided" /\ decisionBar' = [decisionBar EXCEPT ![s] = "none"]
    BY <1>t, <2>1 DEF decisionBar, Undecided
  <2>5. QED
    BY <2>3, <2>4 DEF Gate!Withdraw
<1>5. ASSUME NEW s \in Side, CloseOnePeerEnd(s) \/ IntoEndpoint(s) \/ CloseWriteEnd(s)
      PROVE  UNCHANGED <<promisedBar, decisionBar>>
  BY <1>5, <1>t DEF CloseOnePeerEnd, IntoEndpoint, CloseWriteEnd, promisedBar,
    decisionBar, Undecided
<1>6. ASSUME UNCHANGED syncVars
      PROVE  UNCHANGED <<promisedBar, decisionBar>>
  BY <1>6 DEF syncVars, promisedBar, decisionBar
<1>7. QED
  BY <1>s, <1>1, <1>2, <1>3, <1>4, <1>5, <1>6 DEF Next, Proceed, Gate!Next

(* The pipes of fork_sync.rs implement the gate: whatever a caller could   *)
(* conclude from ready_and_wait() it could conclude from the gate.         *)
THEOREM Refinement == Spec => ImplementsGate
<1>1. Init => Gate!Init
  BY DEF Init, Gate!Init, promisedBar, decisionBar, Side, Gate!Side, Undecided
<1>2. QED
  BY <1>1, Invariant, StepRefines, PTL DEF Spec, Gate!Spec, ImplementsGate
=============================================================================
