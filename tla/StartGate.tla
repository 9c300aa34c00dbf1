----------------------------- MODULE StartGate ------------------------------
(***************************************************************************)
(* What the two sides of a fork may rely on when they synchronise before   *)
(* going their own ways: the contract behind modules/fork_sync.rs, without *)
(* pipes, bytes or descriptors.                                            *)
(*                                                                         *)
(* Each side promises at most once that it is initialised.  A side goes on *)
(* only when both have promised, and a side that has promised aborts only  *)
(* when the other withdrew without promising.  A side may withdraw (die,   *)
(* fail, hit an error) at any time before it has decided, even after its   *)
(* promise: a promise says "I was ready", not "I am still alive".          *)
(***************************************************************************)

VARIABLES
  promised,   \* which sides have said that they are ready
  decision    \* what each side concluded

gateVars == <<promised, decision>>

Side == {"parent", "child"}

Other(s) == IF s = "parent" THEN "child" ELSE "parent"

Init ==
  /\ promised = [s \in Side |-> FALSE]
  /\ decision = [s \in Side |-> "undecided"]

(* Side s reports that it is initialised. *)
Promise(s) ==
  /\ decision[s] = "undecided"
  /\ ~ promised[s]
  /\ promised' = [promised EXCEPT ![s] = TRUE]
  /\ UNCHANGED decision

(* Side s leaves without a decision, whatever the reason. *)
Withdraw(s) ==
  /\ decision[s] = "undecided"
  /\ decision' = [decision EXCEPT ![s] = "none"]
  /\ UNCHANGED promised

Continue(s) ==
  /\ decision[s] = "undecided"
  /\ promised[s] /\ promised[Other(s)]
  /\ decision' = [decision EXCEPT ![s] = "continue"]
  /\ UNCHANGED promised

Abort(s) ==
  /\ decision[s] = "undecided"
  /\ promised[s] /\ ~ promised[Other(s)]
  /\ decision[Other(s)] = "none"
  /\ decision' = [decision EXCEPT ![s] = "abort"]
  /\ UNCHANGED promised

Next == \E s \in Side : Promise(s) \/ Withdraw(s) \/ Continue(s) \/ Abort(s)

Spec == Init /\ [][Next]_gateVars
=============================================================================
