--------------------------- MODULE ProtocolParams ---------------------------
(***************************************************************************)
(* The parameters that every protocol instance of package pika is given    *)
(* (type ProtocolParams of pika/protocol.go).  Logging and the database    *)
(* key are left out; ID is the node an operator or action is applied to.   *)
(***************************************************************************)
EXTENDS Integers, FiniteSets

CONSTANTS
  Node,    \* the participants, ProtocolParams.N of them
  F        \* the number of faulty nodes tolerated, ProtocolParams.F

N == Cardinality(Node)

(***************************************************************************)
(* main.go refuses to start with F = 0 or N < 3F+1.                        *)
(***************************************************************************)
ASSUME NodeAssumption == IsFiniteSet(Node)
ASSUME FaultAssumption == F \in Nat \ {0} /\ N >= 3 * F + 1
=============================================================================
