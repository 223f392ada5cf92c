------------------------------ MODULE BAEpoch ------------------------------
(***************************************************************************)
(* One epoch of the binary agreement, as the I/O automaton of type BAEpoch *)
(* in pika/ba.go.  The module has no variables: a BAEpoch is a record, and *)
(* its methods are operators that take the record to the next one.         *)
(*                                                                         *)
(* Each pair of a []bool and its counter (rcvdVTrue and nVTrue, ...) is    *)
(* the set of the nodes marked in the slice; the counter, which the code   *)
(* increments exactly when it marks a node, is the set's cardinality.      *)
(***************************************************************************)
EXTENDS ProtocolParams

(***************************************************************************)
(* The state of a BAEpoch.  rcvdV[v] are the nodes that sent us Viable(v), *)
(* rcvdA[v] those whose first Agreement had value v (rcvdA and valueA of   *)
(* the code), sentV the values v with sentVTrue / sentVFalse set.  sentA   *)
(* holds the value of the Agreement we sent; the code keeps only the flag. *)
(***************************************************************************)
EpochState ==
  [rcvdV   : [BOOLEAN -> SUBSET Node],
   rcvdA   : [BOOLEAN -> SUBSET Node],
   sentV   : SUBSET BOOLEAN,
   sentA   : SUBSET BOOLEAN,
   believe : SUBSET BOOLEAN,
   cand    : SUBSET BOOLEAN,
   e       : BOOLEAN,
   termed  : BOOLEAN]

NewBAEpoch ==
  [rcvdV   |-> [v \in BOOLEAN |-> {}],
   rcvdA   |-> [v \in BOOLEAN |-> {}],
   sentV   |-> {},
   sentA   |-> {},
   believe |-> {},
   cand    |-> {},
   e       |-> FALSE,
   termed  |-> FALSE]

(***************************************************************************)
(* A BAEpochMessage, without its destination: every one is broadcast, to   *)
(* the sender too.                                                         *)
(***************************************************************************)
Viable(n, v) == [type |-> "viable", from |-> n, value |-> v]
Agreement(n, v) == [type |-> "agreement", from |-> n, value |-> v]

EpochMessage == [type : {"viable", "agreement"}, from : Node, value : BOOLEAN]

-----------------------------------------------------------------------------
(***************************************************************************)
(* Viable(v) relays Viable(v) on F+1, and on 2F+1 makes us believe in v    *)
(* and cast our one Agreement.                                             *)
(***************************************************************************)
HandleViableVoting(b, from, v) ==   \* mutant: votes for every value it believes
  LET heard == b.rcvdV[v] \cup {from} IN
  [b EXCEPT
     !.rcvdV[v] = heard,
     !.sentV    = IF Cardinality(heard) >= F + 1 THEN @ \cup {v} ELSE @,
     !.believe  = IF Cardinality(heard) >= 2 * F + 1 THEN @ \cup {v} ELSE @,
     !.sentA    = IF Cardinality(heard) >= 2 * F + 1 THEN @ \cup {v} ELSE @]

HandleViableRelaying(b, from, v) ==   \* mutant: relays on F
  LET heard == b.rcvdV[v] \cup {from} IN
  [b EXCEPT
     !.rcvdV[v] = heard,
     !.sentV    = IF Cardinality(heard) >= F THEN @ \cup {v} ELSE @,
     !.believe  = IF Cardinality(heard) >= 2 * F + 1 THEN @ \cup {v} ELSE @,
     !.sentA    = IF Cardinality(heard) >= 2 * F + 1 /\ @ = {} THEN {v} ELSE @]

HandleViable(b, from, v) ==
  LET heard == b.rcvdV[v] \cup {from} IN
  [b EXCEPT
     !.rcvdV[v] = heard,
     !.sentV    = IF Cardinality(heard) >= F + 1 THEN @ \cup {v} ELSE @,
     !.believe  = IF Cardinality(heard) >= 2 * F + 1 THEN @ \cup {v} ELSE @,
     !.sentA    = IF Cardinality(heard) >= 2 * F + 1 /\ @ = {} THEN {v} ELSE @]

\* Only the first Agreement of a node counts.
HandleAgreement(b, from, v) ==
  IF \E w \in BOOLEAN : from \in b.rcvdA[w]
  THEN b
  ELSE [b EXCEPT !.rcvdA[v] = @ \cup {from}]

\* The Agreements whose value we believe in, by sender.
Counted(b) == UNION {b.rcvdA[v] : v \in b.believe}

(***************************************************************************)
(* The scan that ends BAEpoch.Recv: the believed values of the Agreements  *)
(* received become candidates, and the epoch terminates on N-F of them.    *)
(***************************************************************************)
SettleEarly(b) ==   \* mutant: enough Agreements for belief, not for intersection
  [b EXCEPT !.cand   = @ \cup {v \in b.believe : b.rcvdA[v] # {}},
            !.termed = Cardinality(Counted(b)) >= F + 1]

SettleLate(b) ==   \* mutant: asks for one Agreement more than N-F
  [b EXCEPT !.cand   = @ \cup {v \in b.believe : b.rcvdA[v] # {}},
            !.termed = Cardinality(Counted(b)) > N - F]

Settle(b) ==
  [b EXCEPT !.cand   = @ \cup {v \in b.believe : b.rcvdA[v] # {}},
            !.termed = Cardinality(Counted(b)) >= N - F]

\* BAEpoch.Recv: a terminated epoch ignores every message.
EpochRecv(b, m) ==
  CASE b.termed -> b
    [] ~b.termed /\ m.type = "viable" ->
         Settle(HandleViable(b, m.from, m.value))
    [] ~b.termed /\ m.type = "agreement" ->
         Settle(HandleAgreement(b, m.from, m.value))

\* SetEstimation and Init: a Viable(e) that was already relayed is not resent.
SetEstimation(b, est) == [b EXCEPT !.e = est]

EpochInit(b) == IF b.termed THEN b ELSE [b EXCEPT !.sentV = @ \cup {b.e}]

(***************************************************************************)
(* What node n broadcasts when its epoch goes from b to c.                 *)
(***************************************************************************)
Sent(n, b, c) ==
  {Viable(n, v) : v \in c.sentV \ b.sentV}
    \cup {Agreement(n, v) : v \in c.sentA \ b.sentA}
=============================================================================
