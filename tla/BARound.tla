------------------------------ MODULE BARound ------------------------------
(***************************************************************************)
(* One epoch of the binary agreement run by all the nodes: every correct   *)
(* node drives a BAEpoch, and the messages travel through an asynchronous  *)
(* network that may delay and reorder them.                                *)
(*                                                                         *)
(* Messages are never removed from msgs.  BAEpoch.Recv is idempotent (each *)
(* handler first looks whether it has heard from the sender), so handling  *)
(* a message again is a stutter, and "delivered once" and "delivered at    *)
(* least once" are the same system.                                        *)
(***************************************************************************)
EXTENDS BAEpoch

CONSTANTS
  Faulty,      \* the nodes that may crash, equivocate or lie
  FaultyMsg    \* what the faulty nodes may ever say, to whom they choose

Correct == Node \ Faulty

ASSUME FaultyAssumption ==
  /\ Faulty \subseteq Node
  /\ Cardinality(Faulty) <= F
  /\ FaultyMsg \subseteq {m \in EpochMessage : m.from \in Faulty}

VARIABLES
  epoch,    \* the BAEpoch of every correct node
  inited,   \* the correct nodes whose estimation has been set and sent
  msgs      \* the messages broadcast by the correct nodes

vars == <<epoch, inited, msgs>>

Init ==
  /\ epoch = [n \in Correct |-> NewBAEpoch]
  /\ inited = {}
  /\ msgs = {}

\* Node n moves its epoch to c and broadcasts what that step sends.
Advance(n, c) ==
  /\ epoch' = [epoch EXCEPT ![n] = c]
  /\ msgs' = msgs \cup Sent(n, epoch[n], c)

\* The BA of node n sets the estimation of the epoch and initialises it.
Start(n, est) ==
  /\ n \notin inited
  /\ inited' = inited \cup {n}
  /\ Advance(n, EpochInit(SetEstimation(epoch[n], est)))

\* A message of a correct or of a faulty node reaches node n.
Recv(n, m) ==
  /\ m \in msgs \cup FaultyMsg
  /\ Advance(n, EpochRecv(epoch[n], m))
  /\ UNCHANGED inited

Next ==
  \E n \in Correct :
    \/ \E est \in BOOLEAN : Start(n, est)
    \/ \E m \in msgs \cup FaultyMsg : Recv(n, m)

Spec == Init /\ [][Next]_vars

-----------------------------------------------------------------------------
TypeOK ==
  /\ epoch \in [Correct -> EpochState]
  /\ inited \subseteq Correct
  /\ msgs \subseteq {m \in EpochMessage : m.from \in Correct}

(***************************************************************************)
(* A correct node casts at most one Agreement in an epoch, whatever the    *)
(* order in which the two values gather their 2F+1 Viables.                *)
(***************************************************************************)
OneAgreement ==
  \A n \in Correct :
    ~(Agreement(n, TRUE) \in msgs /\ Agreement(n, FALSE) \in msgs)

(***************************************************************************)
(* Faulty nodes cannot make a value up: a correct node believes in v only  *)
(* when some correct node started the epoch with estimation v.             *)
(***************************************************************************)
JustifiedBelief ==
  \A n \in Correct : \A v \in epoch[n].believe :
    \E k \in inited : epoch[k].e = v

(***************************************************************************)
(* The property BA.checkOutput rests on: two correct nodes that terminate  *)
(* the epoch with a single candidate have the same one.                    *)
(***************************************************************************)
SingleCandidatesAgree ==
  \A n, k \in Correct : \A v, w \in BOOLEAN :
    /\ epoch[n].termed /\ epoch[n].cand = {v}
    /\ epoch[k].termed /\ epoch[k].cand = {w}
    => v = w
=============================================================================
