----------------------------- MODULE PikaEpoch -----------------------------
(***************************************************************************)
(* One epoch of the ledger at one node: type PikaEpoch of pika/pika.go,    *)
(* its N VIDs and N BAs.  Like BAEpoch, a record and the methods as        *)
(* operators on it.                                                        *)
(*                                                                         *)
(* VIDs and BAs have modules of their own.  Here a child is what its       *)
(* parent sees of it: how far the dispersal is and whether the block is    *)
(* there, what was put into the BA and what came out.  What a child does   *)
(* on a message is an argument of RecvVID and RecvBA.                      *)
(***************************************************************************)
EXTENDS ProtocolParams

CONSTANT NoBlock     \* the nil of a block that is not there

References == [Node -> Nat]
Block == References \cup {NoBlock}

ASSUME NoBlockAssumption == NoBlock \notin References

(***************************************************************************)
(* dispersed, vtermed: the VIDs for which PayloadDispersed and Terminated  *)
(* hold; refs: the References of the blocks that are decoded; input and    *)
(* output of each BA are empty until given (bInit of the code is input     *)
(* being non-empty).  retrieved caches whether the block is decoded, which *)
(* stays true, and is not kept.                                            *)
(***************************************************************************)
PikaEpochState ==
  [dispersed      : SUBSET Node,
   vtermed        : SUBSET Node,
   refs           : [Node -> Block],
   input          : [Node -> {{}, {TRUE}, {FALSE}}],
   output         : [Node -> {{}, {TRUE}, {FALSE}}],
   requested      : SUBSET Node,
   released       : SUBSET Node,
   outputted      : SUBSET Node,
   requestStarted : BOOLEAN,
   termed         : BOOLEAN,
   hptermed       : BOOLEAN]

NewPikaEpoch ==
  [dispersed      |-> {},
   vtermed        |-> {},
   refs           |-> [i \in Node |-> NoBlock],
   input          |-> [i \in Node |-> {}],
   output         |-> [i \in Node |-> {}],
   requested      |-> {},
   released       |-> {},
   outputted      |-> {},
   requestStarted |-> FALSE,
   termed         |-> FALSE,
   hptermed       |-> FALSE]

-----------------------------------------------------------------------------
Decoded(p) == {i \in Node : p.refs[i] # NoBlock}   \* PayloadRetrieved
Accepted(p) == {i \in Node : p.output[i] = {TRUE}}
AllBATerm(p) == \A i \in Node : p.output[i] # {}

Release(p, S) == [p EXCEPT !.released = @ \cup S]
Request(p, S) == [p EXCEPT !.requested = @ \cup S]

\* Release, and Request if the requests of this epoch have been started.
Retrieve(p, i) ==
  LET q == Release(p, {i}) IN IF p.requestStarted THEN Request(q, {i}) ELSE q

\* A BA is given only its first input.
InputBA(p, S, v) ==
  [p EXCEPT !.input = [i \in Node |-> IF i \in S /\ @[i] = {} THEN {v} ELSE @[i]]]

\* Called once for an epoch: the blocks released so far are requested.
StartRequesting(p) ==
  IF p.requestStarted THEN p
  ELSE Request([p EXCEPT !.requestStarted = TRUE], p.released)

(***************************************************************************)
(* The end of Recv: with all BAs terminated the fate of the epoch is       *)
(* sealed (hptermed), and with all accepted blocks decoded it terminates.  *)
(***************************************************************************)
ConcludeOnBAs(p) ==   \* mutant: does not wait for the blocks
  IF AllBATerm(p) THEN [p EXCEPT !.hptermed = TRUE, !.termed = TRUE] ELSE p

Conclude(p) ==
  IF AllBATerm(p)
  THEN [p EXCEPT !.hptermed = TRUE, !.termed = @ \/ Accepted(p) \subseteq Decoded(p)]
  ELSE p

\* A block that is there stays as it is.
Decode(p, i, block) ==
  [p EXCEPT !.refs[i] = IF @ = NoBlock THEN block ELSE @]

(***************************************************************************)
(* Recv with a message for VID i, which then is dispersed or terminated    *)
(* (or not) and has decoded the block (or not: NoBlock).                   *)
(***************************************************************************)
RecvVID(p, i, isDispersed, isTermed, block) ==
  LET q == Decode([p EXCEPT !.dispersed = IF isDispersed THEN @ \cup {i} ELSE @,
                            !.vtermed = IF isTermed THEN @ \cup {i} ELSE @],
                  i, block)
  IN Conclude(IF i \in q.vtermed THEN Retrieve(InputBA(q, {i}, TRUE), i) ELSE q)

(***************************************************************************)
(* Recv with a message for BA i, which then has terminated with the output *)
(* in out, or has not if out is empty.  N-F blocks accepted: the other BAs *)
(* get FALSE.                                                              *)
(***************************************************************************)
InputFalseOnAny(p) == InputBA(p, Node, FALSE)   \* mutant: on the first output

InputFalseOnAll(p) ==   \* mutant: when all the blocks are accepted
  IF Cardinality(Accepted(p)) >= N THEN InputBA(p, Node, FALSE) ELSE p

InputFalse(p) ==
  IF Cardinality(Accepted(p)) >= N - F THEN InputBA(p, Node, FALSE) ELSE p

RecvBA(p, i, out) ==
  IF p.output[i] # {} \/ out = {} THEN Conclude(p)
  ELSE LET q == [p EXCEPT !.output[i] = out]
       IN Conclude(InputFalse(IF out = {TRUE} THEN Retrieve(q, i) ELSE q))

InitEpochTrusting(p, id, refs) ==   \* mutant: TRUE into all the BAs
  InputBA(Release(Decode(p, id, refs), Node), Node, TRUE)

(***************************************************************************)
(* Init at node id, with its own block: the block is dispersed, chunks of  *)
(* all blocks may be released, and TRUE goes into the node's own BA.       *)
(***************************************************************************)
InitEpoch(p, id, refs) ==
  InputBA(Release(Decode(p, id, refs), Node), {id}, TRUE)

ConfirmUntilFew(p) ==   \* mutant: the F largest may all be of faulty nodes
  LET level(i, j) == IF j \in Accepted(p) THEN p.refs[j][i] ELSE 0
      levels(i) == {level(i, j) : j \in Node}
      support(i, l) == {j \in Node : level(i, j) >= l}
  IN [i \in Node |->
        CHOOSE l \in levels(i) :
          /\ Cardinality(support(i, l)) >= F
          /\ \A k \in levels(i) : k > l => Cardinality(support(i, k)) < F]

ConfirmUntilMany(p) ==   \* mutant: one correct node rejected is too many
  LET level(i, j) == IF j \in Accepted(p) THEN p.refs[j][i] ELSE 0
      levels(i) == {level(i, j) : j \in Node}
      support(i, l) == {j \in Node : level(i, j) >= l}
  IN [i \in Node |->
        CHOOSE l \in levels(i) :
          /\ Cardinality(support(i, l)) >= N - F
          /\ \A k \in levels(i) : k > l => Cardinality(support(i, k)) < N - F]

(***************************************************************************)
(* ConfirmUntil: for every node the (F+1)-largest reference to it, the     *)
(* blocks that are not accepted counting as references to epoch 0.         *)
(***************************************************************************)
ConfirmUntil(p) ==
  LET level(i, j) == IF j \in Accepted(p) THEN p.refs[j][i] ELSE 0
      levels(i) == {level(i, j) : j \in Node}
      support(i, l) == {j \in Node : level(i, j) >= l}
  IN [i \in Node |->
        CHOOSE l \in levels(i) :
          /\ Cardinality(support(i, l)) >= F + 1
          /\ \A k \in levels(i) : k > l => Cardinality(support(i, k)) < F + 1]
=============================================================================
