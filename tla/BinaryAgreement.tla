-------------------------- MODULE BinaryAgreement --------------------------
(***************************************************************************)
(* What the binary agreement promises to the epoch that uses it: every     *)
(* correct node outputs at most once, all output the same value, and the   *)
(* value was proposed by one of them.  The nodes decide one at a time, in  *)
(* any order; nothing says here how, nor that they all do.                 *)
(***************************************************************************)
CONSTANT Correct

VARIABLES
  proposed,    \* the values the correct nodes have put in
  decision     \* decision[n]: {} until node n outputs, then {its output}

Init ==
  /\ proposed = {}
  /\ decision = [n \in Correct |-> {}]

Propose(v) ==
  /\ proposed' = proposed \cup {v}
  /\ UNCHANGED decision

Decide(n, v) ==
  /\ decision[n] = {}
  /\ v \in proposed
  /\ \A k \in Correct : decision[k] \subseteq {v}
  /\ decision' = [decision EXCEPT ![n] = {v}]
  /\ UNCHANGED proposed

Next ==
  \E v \in BOOLEAN : Propose(v) \/ \E n \in Correct : Decide(n, v)

Spec == Init /\ [][Next]_<<proposed, decision>>
=============================================================================
