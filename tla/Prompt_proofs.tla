---------------------------- MODULE Prompt_proofs ----------------------------
(***************************************************************************)
(* Proofs of the invariants of Prompt, for every set of signals, every     *)
(* limit and every number of bytes and interruptions.                      *)
(*                                                                         *)
(* Places ties the mask, the terminal and the outcome to the place in the  *)
(* code.  KeptIsPrefix is why the overflow counter works: what is kept is  *)
(* the beginning of what was typed, what is counted is the rest, and there *)
(* is a rest only when the buffer is full.                                 *)
(***************************************************************************)
EXTENDS Prompt, TLAPS

Masked == {"hide", "write", "read", "restore", "unmask"}

Places ==
  /\ mask <=> pc \in Masked
  /\ mask => proc \notin {"stopped", "dead"}
  /\ ~ mask => pending = {}
  /\ saved => pc \in {"write", "read", "restore"}
  /\ term = "hidden" => saved
  /\ pc \in {"hide", "write", "read"} => outcome = "none"
  /\ pc \in {"restore", "unmask"} => outcome # "none"
  /\ pc = "raise" => outcome \in PROMPT_SIGNALS
  /\ outcome = "password" =>
       pc \in {"restore", "unmask", "done"} /\ overflow = 0

KeptIsPrefix ==
  /\ Len(buffer) + overflow = Len(text)
  /\ \A i \in 1..Len(buffer) : buffer[i] = text[i]
  /\ overflow # 0 => Len(buffer) = MaxInputLen

IInv == TypeOK /\ Places /\ NoSignalLost /\ KeptIsPrefix

-----------------------------------------------------------------------------
LEMMA Bounds == MaxInputLen \in Nat /\ MaxTyped \in Nat /\ MaxEvents \in Nat
BY ConstantsAssumption

(* Appending and cutting off keep the kept part a prefix. *)
LEMMA PushKeepsPrefix ==
  ASSUME TypeOK, KeptIsPrefix, NEW c \in Char, Push(c), text' = Append(text, c)
  PROVE  /\ KeptIsPrefix'
         /\ buffer' \in Seq(Char) /\ overflow' \in Nat /\ text' \in Seq(Char)
         /\ Len(buffer') <= MaxInputLen
<1> USE Bounds DEF TypeOK
<1>1. /\ text' \in Seq(Char) /\ Len(text') = Len(text) + 1
      /\ \A i \in 1..Len(text) : text'[i] = text[i]
      /\ text'[Len(text) + 1] = c
  OBVIOUS
<1>2. CASE Len(buffer) < MaxInputLen
  <2>1. overflow = 0 /\ Len(text) = Len(buffer)
    BY <1>2 DEF KeptIsPrefix
  <2>4. buffer' = Append(buffer, c) /\ overflow' = overflow
    BY <1>2 DEF Push
  <2>2. /\ buffer' \in Seq(Char) /\ Len(buffer') = Len(buffer) + 1
        /\ \A i \in 1..Len(buffer) : buffer'[i] = buffer[i]
        /\ buffer'[Len(buffer) + 1] = c
    BY <2>4
  <2>3. \A i \in 1..Len(buffer') : buffer'[i] = text'[i]
    <3> SUFFICES ASSUME NEW i \in 1..Len(buffer') PROVE buffer'[i] = text'[i]
      OBVIOUS
    <3>1. CASE i \in 1..Len(buffer)
      BY <1>1, <2>1, <2>2, <3>1 DEF KeptIsPrefix
    <3>2. CASE i = Len(buffer) + 1
      BY <1>1, <2>1, <2>2, <3>2
    <3>3. i \in 1..Len(buffer) + 1
      BY <2>2
    <3>4. Len(buffer) \in Nat
      OBVIOUS
    <3>5. i \in 1..Len(buffer) \/ i = Len(buffer) + 1
      <4> HIDE DEF TypeOK
      <4> QED BY <3>3, <3>4
    <3> QED BY <3>1, <3>2, <3>5
  <2>5. Len(buffer') + overflow' = Len(text') /\ overflow' = 0
    BY <1>1, <2>1, <2>2, <2>4
  <2>6. Len(buffer') <= MaxInputLen
    BY <1>2, <2>2
  <2> QED BY <1>1, <2>2, <2>3, <2>5, <2>6 DEF KeptIsPrefix
<1>3. CASE ~ (Len(buffer) < MaxInputLen)
  <2>1. buffer' = buffer /\ overflow' = overflow + 1
    BY <1>3 DEF Push
  <2>2. \A i \in 1..Len(buffer) : i \in 1..Len(text)
    BY DEF KeptIsPrefix
  <2>3. \A i \in 1..Len(buffer) : buffer[i] = text'[i]
    BY <1>1, <2>2 DEF KeptIsPrefix
  <2>4. Len(buffer) = MaxInputLen
    BY <1>3
  <2>5. Len(buffer') + overflow' = Len(text')
    BY <1>1, <2>1 DEF KeptIsPrefix
  <2> QED BY <1>1, <2>1, <2>3, <2>4, <2>5 DEF KeptIsPrefix
<1> QED BY <1>2, <1>3

LEMMA EraseKeepsPrefix ==
  ASSUME TypeOK, KeptIsPrefix, Erase,
         text' = IF text = <<>> THEN <<>> ELSE SubSeq(text, 1, Len(text) - 1)
  PROVE  /\ KeptIsPrefix'
         /\ buffer' \in Seq(Char) /\ overflow' \in Nat /\ text' \in Seq(Char)
         /\ Len(buffer') <= MaxInputLen
<1>1. CASE overflow # 0
  <2>1. text # <<>> BY <1>1 DEF TypeOK, KeptIsPrefix
  <2> QED BY <1>1, <2>1, ConstantsAssumption DEF TypeOK, KeptIsPrefix, Erase
<1>2. CASE overflow = 0 /\ buffer # <<>>
  <2>1. Len(buffer) = Len(text) /\ Len(buffer) >= 1
    BY <1>2 DEF TypeOK, KeptIsPrefix
  <2>2. /\ text' \in Seq(Char) /\ Len(text') = Len(text) - 1
        /\ \A i \in 1..Len(text) - 1 : text'[i] = text[i]
    BY <2>1 DEF TypeOK
  <2>3. /\ buffer' \in Seq(Char) /\ Len(buffer') = Len(buffer) - 1
        /\ \A i \in 1..Len(buffer) - 1 : buffer'[i] = buffer[i]
        /\ overflow' = overflow
    <3>1. buffer' = SubSeq(buffer, 1, Len(buffer) - 1) /\ overflow' = overflow
      BY <1>2 DEF Erase
    <3>2. buffer \in Seq(Char)
      BY DEF TypeOK
    <3>3. /\ SubSeq(buffer, 1, Len(buffer) - 1) \in Seq(Char)
          /\ Len(SubSeq(buffer, 1, Len(buffer) - 1)) = Len(buffer) - 1
          /\ \A i \in 1..Len(buffer) - 1 :
               SubSeq(buffer, 1, Len(buffer) - 1)[i] = buffer[i]
      BY <2>1, <3>2
    <3>4. QED
      BY <3>1, <3>3
  <2>4. \A i \in 1..Len(buffer') : buffer'[i] = text'[i]
    BY <2>1, <2>2, <2>3 DEF KeptIsPrefix
  <2> QED
    BY <1>2, <2>1, <2>2, <2>3, <2>4, ConstantsAssumption DEF TypeOK, KeptIsPrefix
<1>3. CASE overflow = 0 /\ buffer = <<>>
  <2>1. text = <<>> BY <1>3 DEF TypeOK, KeptIsPrefix
  <2> QED BY <1>3, <2>1, ConstantsAssumption DEF TypeOK, KeptIsPrefix, Erase
<1> QED BY <1>1, <1>2, <1>3 DEF TypeOK

(* Equal length and equal bytes: nothing counted means nothing is missing. *)
LEMMA NothingCounted ==
  ASSUME TypeOK, KeptIsPrefix, overflow = 0
  PROVE  buffer = text
<1>1. Len(buffer) = Len(text) BY DEF TypeOK, KeptIsPrefix
<1>2. \A i \in 1..Len(buffer) : buffer[i] = text[i] BY DEF KeptIsPrefix
<1> QED BY <1>1, <1>2 DEF TypeOK

LEMMA Initially == Init => IInv
<1> SUFFICES ASSUME Init PROVE IInv OBVIOUS
<1> USE ConstantsAssumption DEF Init
<1>1. TypeOK
  <2>1. buffer \in Seq(Char) /\ text \in Seq(Char) /\ Len(buffer) <= MaxInputLen
    BY Bounds
  <2>2. saved \in BOOLEAN /\ mask \in BOOLEAN
    OBVIOUS
  <2>3. events \in 0..MaxEvents
    BY Bounds
  <2> QED BY <2>1, <2>2, <2>3 DEF TypeOK
<1>2. Places BY DEF Places, Masked
<1>3. NoSignalLost BY DEF NoSignalLost
<1>4. KeptIsPrefix BY DEF KeptIsPrefix
<1> QED BY <1>1, <1>2, <1>3, <1>4 DEF IInv

LEMMA Inductive == IInv /\ [Next]_vars => IInv'
<1> SUFFICES ASSUME IInv, [Next]_vars PROVE IInv' OBVIOUS
<1> USE ConstantsAssumption DEF IInv
<1>1. CASE Install
  <2>1. TypeOK'
    BY <1>1 DEF Install, At, TypeOK, Places,
       PROMPT_SIGNALS, editVars, sigVars
  <2>2. Places'
    BY <1>1 DEF Install, At, Places, TypeOK, Masked,
       PROMPT_SIGNALS, editVars, sigVars
  <2>3. NoSignalLost'
    BY <1>1 DEF Install, At, NoSignalLost, Places, TypeOK, Masked,
       PROMPT_SIGNALS, editVars, sigVars
  <2>4. KeptIsPrefix'
    BY <1>1 DEF Install, At, KeptIsPrefix,
       PROMPT_SIGNALS, editVars, sigVars
  <2> QED BY <2>1, <2>2, <2>3, <2>4
<1>2. CASE InstallFails
  <2>1. TypeOK'
    BY <1>2 DEF InstallFails, At, TypeOK, Places,
       PROMPT_SIGNALS, editVars, sigVars
  <2>2. Places'
    BY <1>2 DEF InstallFails, At, Places, TypeOK, Masked,
       PROMPT_SIGNALS, editVars, sigVars
  <2>3. NoSignalLost'
    BY <1>2 DEF InstallFails, At, NoSignalLost, Places, TypeOK, Masked,
       PROMPT_SIGNALS, editVars, sigVars
  <2>4. KeptIsPrefix'
    BY <1>2 DEF InstallFails, At, KeptIsPrefix,
       PROMPT_SIGNALS, editVars, sigVars
  <2> QED BY <2>1, <2>2, <2>3, <2>4
<1>3. CASE HideInput
  <2>1. TypeOK'
    BY <1>3 DEF HideInput, Leave, At, TypeOK, Places,
       PROMPT_SIGNALS, editVars, sigVars
  <2>2. Places'
    BY <1>3 DEF HideInput, Leave, At, Places, TypeOK, Masked,
       PROMPT_SIGNALS, editVars, sigVars
  <2>3. NoSignalLost'
    BY <1>3 DEF HideInput, Leave, At, NoSignalLost, Places, TypeOK, Masked,
       PROMPT_SIGNALS, editVars, sigVars
  <2>4. KeptIsPrefix'
    BY <1>3 DEF HideInput, Leave, At, KeptIsPrefix,
       PROMPT_SIGNALS, editVars, sigVars
  <2> QED BY <2>1, <2>2, <2>3, <2>4
<1>4. CASE WriteMessage
  <2>1. TypeOK'
    BY <1>4 DEF WriteMessage, Leave, At, TypeOK, Places,
       PROMPT_SIGNALS, editVars, sigVars
  <2>2. Places'
    BY <1>4 DEF WriteMessage, Leave, At, Places, TypeOK, Masked,
       PROMPT_SIGNALS, editVars, sigVars
  <2>3. NoSignalLost'
    BY <1>4 DEF WriteMessage, Leave, At, NoSignalLost, Places, TypeOK, Masked,
       PROMPT_SIGNALS, editVars, sigVars
  <2>4. KeptIsPrefix'
    BY <1>4 DEF WriteMessage, Leave, At, KeptIsPrefix,
       PROMPT_SIGNALS, editVars, sigVars
  <2> QED BY <2>1, <2>2, <2>3, <2>4
<1>5. CASE ReadEnd
  <2>1. TypeOK'
    BY <1>5 DEF ReadEnd, Reading, Leave, At, TypeOK, Places,
       PROMPT_SIGNALS, editVars, sigVars
  <2>2. Places'
    BY <1>5 DEF ReadEnd, Reading, Leave, At, Places, TypeOK, Masked,
       PROMPT_SIGNALS, editVars, sigVars
  <2>3. NoSignalLost'
    BY <1>5 DEF ReadEnd, Reading, Leave, At, NoSignalLost, Places, TypeOK, Masked,
       PROMPT_SIGNALS, editVars, sigVars
  <2>4. KeptIsPrefix'
    BY <1>5 DEF ReadEnd, Reading, Leave, At, KeptIsPrefix,
       PROMPT_SIGNALS, editVars, sigVars
  <2> QED BY <2>1, <2>2, <2>3, <2>4
<1>6. CASE ReadFails
  <2>1. TypeOK'
    BY <1>6 DEF ReadFails, Leave, At, TypeOK, Places,
       PROMPT_SIGNALS, editVars, sigVars
  <2>2. Places'
    BY <1>6 DEF ReadFails, Leave, At, Places, TypeOK, Masked,
       PROMPT_SIGNALS, editVars, sigVars
  <2>3. NoSignalLost'
    BY <1>6 DEF ReadFails, Leave, At, NoSignalLost, Places, TypeOK, Masked,
       PROMPT_SIGNALS, editVars, sigVars
  <2>4. KeptIsPrefix'
    BY <1>6 DEF ReadFails, Leave, At, KeptIsPrefix,
       PROMPT_SIGNALS, editVars, sigVars
  <2> QED BY <2>1, <2>2, <2>3, <2>4
<1>7. CASE DropPrompt
  <2>1. TypeOK'
    BY <1>7 DEF DropPrompt, At, TypeOK, Places,
       PROMPT_SIGNALS, editVars, sigVars
  <2>2. Places'
    BY <1>7 DEF DropPrompt, At, Places, TypeOK, Masked,
       PROMPT_SIGNALS, editVars, sigVars
  <2>3. NoSignalLost'
    BY <1>7 DEF DropPrompt, At, NoSignalLost, Places, TypeOK, Masked,
       PROMPT_SIGNALS, editVars, sigVars
  <2>4. KeptIsPrefix'
    BY <1>7 DEF DropPrompt, At, KeptIsPrefix,
       PROMPT_SIGNALS, editVars, sigVars
  <2> QED BY <2>1, <2>2, <2>3, <2>4
<1>8. CASE DropReceiver
  <2>1. TypeOK'
    BY <1>8 DEF DropReceiver, LetThrough, AfterPrompt, At, TypeOK, Places,
       PROMPT_SIGNALS, editVars, sigVars
  <2>2. Places'
    BY <1>8 DEF DropReceiver, LetThrough, AfterPrompt, At, Places, TypeOK, Masked,
       PROMPT_SIGNALS, editVars, sigVars
  <2>3. NoSignalLost'
    BY <1>8 DEF DropReceiver, LetThrough, AfterPrompt, At, NoSignalLost, Places, TypeOK, Masked,
       PROMPT_SIGNALS, editVars, sigVars
  <2>4. KeptIsPrefix'
    BY <1>8 DEF DropReceiver, LetThrough, AfterPrompt, At, KeptIsPrefix,
       PROMPT_SIGNALS, editVars, sigVars
  <2> QED BY <2>1, <2>2, <2>3, <2>4
<1>9. CASE Raise
  <2>1. TypeOK'
    BY <1>9 DEF Raise, LetThrough, At, TypeOK, Places,
       PROMPT_SIGNALS, editVars, sigVars
  <2>2. Places'
    BY <1>9 DEF Raise, LetThrough, At, Places, TypeOK, Masked,
       PROMPT_SIGNALS, editVars, sigVars
  <2>3. NoSignalLost'
    BY <1>9 DEF Raise, LetThrough, At, NoSignalLost, Places, TypeOK, Masked,
       PROMPT_SIGNALS, editVars, sigVars
  <2>4. KeptIsPrefix'
    BY <1>9 DEF Raise, LetThrough, At, KeptIsPrefix,
       PROMPT_SIGNALS, editVars, sigVars
  <2> QED BY <2>1, <2>2, <2>3, <2>4
<1>10. CASE Resume
  <2>1. TypeOK'
    BY <1>10 DEF Resume, At, TypeOK, Places,
       PROMPT_SIGNALS, editVars, sigVars
  <2>2. Places'
    BY <1>10 DEF Resume, At, Places, TypeOK, Masked,
       PROMPT_SIGNALS, editVars, sigVars
  <2>3. NoSignalLost'
    BY <1>10 DEF Resume, At, NoSignalLost, Places, TypeOK, Masked,
       PROMPT_SIGNALS, editVars, sigVars
  <2>4. KeptIsPrefix'
    BY <1>10 DEF Resume, At, KeptIsPrefix,
       PROMPT_SIGNALS, editVars, sigVars
  <2> QED BY <2>1, <2>2, <2>3, <2>4
<1>11. ASSUME NEW s \in PROMPT_SIGNALS, Interrupt(s) PROVE IInv'
  <2>1. TypeOK'
    BY <1>11 DEF Interrupt, Leave, At, TypeOK, Places,
       PROMPT_SIGNALS, editVars, sigVars
  <2>2. Places'
    BY <1>11 DEF Interrupt, Leave, At, Places, TypeOK, Masked,
       PROMPT_SIGNALS, editVars, sigVars
  <2>3. NoSignalLost'
    BY <1>11 DEF Interrupt, Leave, At, NoSignalLost, Places, TypeOK, Masked,
       PROMPT_SIGNALS, editVars, sigVars
  <2>4. KeptIsPrefix'
    BY <1>11 DEF Interrupt, Leave, At, KeptIsPrefix,
       PROMPT_SIGNALS, editVars, sigVars
  <2> QED BY <2>1, <2>2, <2>3, <2>4
<1>12. ASSUME NEW s \in PROMPT_SIGNALS, Arrive(s) PROVE IInv'
  <2>1. TypeOK'
    BY <1>12 DEF Arrive, LetThrough, At, TypeOK, Places,
       PROMPT_SIGNALS, editVars, sigVars
  <2>2. Places'
    BY <1>12 DEF Arrive, LetThrough, At, Places, TypeOK, Masked,
       PROMPT_SIGNALS, editVars, sigVars
  <2>3. NoSignalLost'
    BY <1>12 DEF Arrive, LetThrough, At, NoSignalLost, Places, TypeOK, Masked,
       PROMPT_SIGNALS, editVars, sigVars
  <2>4. KeptIsPrefix'
    BY <1>12 DEF Arrive, LetThrough, At, KeptIsPrefix,
       PROMPT_SIGNALS, editVars, sigVars
  <2> QED BY <2>1, <2>2, <2>3, <2>4
<1>13. ASSUME NEW c \in Char, ReadByte(c) PROVE IInv'
  <2>1. /\ KeptIsPrefix'
        /\ buffer' \in Seq(Char) /\ overflow' \in Nat /\ text' \in Seq(Char)
        /\ Len(buffer') <= MaxInputLen
    BY <1>13, PushKeepsPrefix DEF ReadByte
  <2>2. TypeOK'
    BY <1>13, <2>1 DEF ReadByte, TypeOK, sigVars
  <2>3. Places'
    BY <1>13 DEF ReadByte, Reading, At, Places, sigVars
  <2>4. NoSignalLost'
    BY <1>13 DEF ReadByte, NoSignalLost, sigVars
  <2> QED BY <2>1, <2>2, <2>3, <2>4
<1>14. CASE ReadErase
  <2>1. /\ KeptIsPrefix'
        /\ buffer' \in Seq(Char) /\ overflow' \in Nat /\ text' \in Seq(Char)
        /\ Len(buffer') <= MaxInputLen
    BY <1>14, EraseKeepsPrefix DEF ReadErase
  <2>2. TypeOK'
    BY <1>14, <2>1 DEF ReadErase, TypeOK, sigVars
  <2>3. Places'
    BY <1>14 DEF ReadErase, Reading, At, Places, sigVars
  <2>4. NoSignalLost'
    BY <1>14 DEF ReadErase, NoSignalLost, sigVars
  <2> QED BY <2>1, <2>2, <2>3, <2>4
<1>15. CASE ArriveUnheld
  <2>1. TypeOK'
    BY <1>15, Bounds DEF ArriveUnheld, TypeOK, editVars
  <2>2. Places'
    BY <1>15 DEF ArriveUnheld, Places, editVars
  <2>3. NoSignalLost' /\ KeptIsPrefix'
    BY <1>15 DEF ArriveUnheld, NoSignalLost, KeptIsPrefix, editVars
  <2> QED BY <2>1, <2>2, <2>3
<1>16. CASE UNCHANGED vars
  BY <1>16 DEF vars, editVars, sigVars, TypeOK, Places, NoSignalLost, KeptIsPrefix
<1> QED
  BY <1>1, <1>2, <1>3, <1>4, <1>5, <1>6, <1>7, <1>8, <1>9, <1>10, <1>11, <1>12,
     <1>13, <1>14, <1>15, <1>16
     DEF Next, Proceed, Type

THEOREM Invariance == Spec => []IInv
BY Initially, Inductive, PTL DEF Spec

-----------------------------------------------------------------------------
(* The type invariant; with it the buffer never grows past MAX_INPUT_LEN. *)
THEOREM TypeCorrect == Spec => []TypeOK
BY Invariance, PTL DEF IInv

(* No signal that is held back leaves the terminal hidden behind it. *)
THEOREM TerminalRestored == Spec => []TerminalComesBack
<1>1. IInv => TerminalComesBack
  BY DEF IInv, TypeOK, Places, Masked, TerminalComesBack
<1> QED BY <1>1, Invariance, PTL

(* A signal that was held back is pending or about to be raised. *)
THEOREM SignalsKept == Spec => []NoSignalLost
BY Invariance, PTL DEF IInv

(* The password returned is the line typed, for every limit and any editing. *)
THEOREM PasswordCorrect == Spec => []PasswordIsWhatWasTyped
<1>1. IInv => PasswordIsWhatWasTyped
  BY NothingCounted DEF IInv, Places, PasswordIsWhatWasTyped
<1> QED BY <1>1, Invariance, PTL
=============================================================================
