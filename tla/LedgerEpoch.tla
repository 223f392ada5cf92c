---------------------------- MODULE LedgerEpoch ----------------------------
(***************************************************************************)
(* One epoch of the ledger on all the correct nodes.  The VIDs and BAs     *)
(* of the epoch do what VID and BinaryAgreement promise, at any time the   *)
(* promises allow: this module is about what PikaEpoch makes of them.      *)
(***************************************************************************)
EXTENDS PikaEpoch

CONSTANT Faulty      \* the nodes that may crash, equivocate or lie

Correct == Node \ Faulty

ASSUME FaultyAssumption ==
  /\ Faulty \subseteq Node
  /\ Cardinality(Faulty) <= F

VARIABLES
  epoch,     \* the PikaEpoch of every correct node
  inited     \* the correct nodes that have called Init

vars == <<epoch, inited>>

\* What the blocks refer to matters only across epochs.
NoReferences == [i \in Node |-> 0]

Init ==
  /\ epoch = [n \in Correct |-> NewPikaEpoch]
  /\ inited = {}

\* Pika.initNextEpoch reaches this epoch.
Start(n) ==
  /\ n \notin inited
  /\ inited' = inited \cup {n}
  /\ epoch' = [epoch EXCEPT ![n] = InitEpoch(@, n, NoReferences)]

\* Pika starts the requests of this epoch.
StartRequest(n) ==
  /\ epoch' = [epoch EXCEPT ![n] = StartRequesting(@)]
  /\ UNCHANGED inited

(***************************************************************************)
(* A dispersal ends nowhere before it has started, and the block is there  *)
(* for nobody but its proposer before that.                                *)
(***************************************************************************)
Dispersing(i) == i \in Faulty \/ i \in inited

VIDStep(n, i) ==
  \E isDispersed, isTermed \in BOOLEAN : \E block \in {NoBlock, NoReferences} :
    /\ isTermed => isDispersed \/ i \in epoch[n].dispersed
    /\ isDispersed \/ block # NoBlock => Dispersing(i)
    /\ epoch' = [epoch EXCEPT ![n] = RecvVID(@, i, isDispersed, isTermed, block)]
    /\ UNCHANGED inited

(***************************************************************************)
(* Validity and agreement of the BA for block i.                           *)
(***************************************************************************)
Proposed(i) == UNION {epoch[k].input[i] : k \in Correct}
Decided(i) == UNION {epoch[k].output[i] : k \in Correct}

BAStep(n, i) ==
  \E out \in {{}} \cup {{v} : v \in Proposed(i)} :
    /\ out # {} => Decided(i) \subseteq out
    /\ epoch' = [epoch EXCEPT ![n] = RecvBA(@, i, out)]
    /\ UNCHANGED inited

Next ==
  \E n \in Correct :
    \/ Start(n)
    \/ StartRequest(n)
    \/ \E i \in Node : VIDStep(n, i) \/ BAStep(n, i)

Spec == Init /\ [][Next]_vars

-----------------------------------------------------------------------------
(***************************************************************************)
(* What VID and BA promise to do in the end: a dispersal of a correct node *)
(* terminates everywhere, and so does one that has terminated somewhere; a *)
(* block that has been requested then arrives; a BA terminates when every  *)
(* correct node has put something in, or one has terminated.               *)
(***************************************************************************)
VIDEnds(n, i) ==
  /\ i \in inited \/ \E k \in Correct : i \in epoch[k].vtermed
  /\ i \notin epoch[n].vtermed
  /\ epoch' = [epoch EXCEPT ![n] = RecvVID(@, i, TRUE, TRUE, NoBlock)]
  /\ UNCHANGED inited

BlockArrives(n, i) ==
  /\ i \in epoch[n].requested
  /\ i \in inited \/ \E k \in Correct : i \in epoch[k].vtermed
  /\ i \notin Decoded(epoch[n])
  /\ epoch' = [epoch EXCEPT ![n] = RecvVID(@, i, FALSE, FALSE, NoReferences)]
  /\ UNCHANGED inited

BAEnds(n, i) ==
  /\ epoch[n].output[i] = {}
  /\ Decided(i) # {} \/ \A k \in Correct : epoch[k].input[i] # {}
  /\ BAStep(n, i) /\ epoch'[n].output[i] # {}

Due ==
  \E n \in Correct :
    \/ Start(n)
    \/ StartRequest(n)
    \/ \E i \in Node : VIDEnds(n, i) \/ BlockArrives(n, i) \/ BAEnds(n, i)

\* There are finitely many such steps, so none of them waits for ever.
Fairness == WF_vars(Due)

-----------------------------------------------------------------------------
TypeOK ==
  /\ epoch \in [Correct -> PikaEpochState]
  /\ inited \subseteq Correct

(***************************************************************************)
(* pika.go:55-56: an epoch whose BAs have all terminated accepts at least  *)
(* N-F blocks, though a node gives FALSE to some BAs as soon as it has     *)
(* seen N-F others output TRUE.                                            *)
(***************************************************************************)
AcceptsEnough ==
  \A n \in Correct :
    AllBATerm(epoch[n]) => Cardinality(Accepted(epoch[n])) >= N - F

(***************************************************************************)
(* An accepted block can be retrieved: it has been dispersed by a correct  *)
(* node, or as far as a correct node can tell.                             *)
(***************************************************************************)
AcceptedIsDispersed ==
  \A n \in Correct : \A i \in Accepted(epoch[n]) :
    i \in inited \/ \E k \in Correct : i \in epoch[k].vtermed

(***************************************************************************)
(* A terminated epoch has the blocks that ConfirmUntil will look into, and *)
(* an output of every BA, at the nodes that were not waiting for them too. *)
(***************************************************************************)
TermedIsComplete ==
  \A n \in Correct :
    epoch[n].termed => AllBATerm(epoch[n]) /\ Accepted(epoch[n]) \subseteq Decoded(epoch[n])

(***************************************************************************)
(* Every correct node terminates the epoch, whatever the faulty nodes      *)
(* disperse or withhold.                                                   *)
(***************************************************************************)
EpochEnds == <>(\A n \in Correct : epoch[n].termed)
=============================================================================
