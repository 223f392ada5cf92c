--------------------------- MODULE MCLedgerEpoch ---------------------------
(***************************************************************************)
(* LedgerEpoch on four nodes.  The VIDs and BAs of the blocks in Quick do  *)
(* what they can at every node before anything else happens; the others    *)
(* take their time.  In one scene the faulty node is silent, and blocks    *)
(* arrive at any time; in the other its dispersal may end at some node     *)
(* first, and the blocks arrive when nothing else is left to do.           *)
(***************************************************************************)
EXTENDS LedgerEpoch

CONSTANTS
  n1, n2, n3, n4,
  Quick        \* the blocks whose dispersal and agreement are quick

VARIABLE scene

mcvars == <<vars, scene>>

\* Nothing is left to wait for but blocks.
Settled ==
  /\ inited = Correct
  /\ \A n \in Correct :
       AllBATerm(epoch[n]) /\ inited \cup UNION {epoch[k].vtermed : k \in Correct} \subseteq epoch[n].vtermed

\* The VID of a faulty node may end at any one node, and then at the others.
VIDMayEnd(n, i) ==
  /\ scene = "astray" /\ i \in Faulty
  /\ i \notin epoch[n].vtermed
  /\ epoch' = [epoch EXCEPT ![n] = RecvVID(@, i, TRUE, TRUE, NoBlock)]
  /\ UNCHANGED inited

\* A BA may terminate before it has everybody's input.
BAMayEnd(n, i) == epoch[n].output[i] = {} /\ BAStep(n, i) /\ epoch'[n].output[i] # {}

Retrieval(n, i) == BlockArrives(n, i) \/ (StartRequest(n) /\ ~epoch[n].requestStarted)

Step(n, i) ==
  \/ VIDEnds(n, i)
  \/ VIDMayEnd(n, i)
  \/ BAMayEnd(n, i)
  \/ scene = "silent" /\ Retrieval(n, i)

Quickly == {x \in Correct \X Quick : ENABLED Step(x[1], x[2])}
Late == {x \in Correct \X Node : ENABLED Retrieval(x[1], x[2])}

First(X) == CHOOSE x \in X : TRUE

MCNext ==
  /\ IF scene = "astray" /\ Settled
     THEN LET x == First(Late) IN Late # {} /\ Retrieval(x[1], x[2])
     ELSE LET x == First(Quickly) IN
          \/ Quickly # {} /\ Step(x[1], x[2])
          \/ Quickly = {} /\ \E n \in Correct : Start(n) \/ \E i \in Node \ Quick : Step(n, i)
  /\ UNCHANGED scene

MCInit == Init /\ scene \in {"astray", "silent"}
MCSpec == MCInit /\ [][MCNext]_mcvars
MCFairSpec == MCSpec /\ WF_mcvars(Due /\ UNCHANGED scene)
=============================================================================
