------------------------------- MODULE MCPika -------------------------------
(***************************************************************************)
(* Pika at the first of four nodes.  The VIDs and BAs of the epochs and    *)
(* nodes in Slow take their time; the others do what they can before       *)
(* anything else happens.  Nothing happens in an epoch that is more than   *)
(* Ahead epochs beyond the ones the node has started.                      *)
(***************************************************************************)
EXTENDS Pika

CONSTANTS n1, n2, n3, n4, Slow, Ahead

MCNodeAt == <<n1, n2, n3, n4>>

Refer(a, b, c, d) == (n1 :> a) @@ (n2 :> b) @@ (n3 :> c) @@ (n4 :> d)

All(x) == Refer(x, x, x, x)

\* Blocks of two epochs: n4 is faulty and refers to anything.
TwoEpochs ==
  [e \in 0..1 |->
    IF e = 0 THEN [i \in Node |-> IF i = n1 THEN {} ELSE {All(0)}]
    ELSE (n1 :> {}) @@ (n2 :> {Refer(1, 1, 1, 0), All(1)}) @@ (n3 :> {All(1)})
           @@ (n4 :> {All(0), All(7)})]

\* n4 disperses, perhaps, in the first epoch and is silent in the second.
ThenSilent == [TwoEpochs EXCEPT ![1][n4] = {}]

SlowSilent == {<<0, n4>>, <<1, n2>>, <<1, n4>>}

\* Four epochs, in which the level confirmed of n3 may go back and up again.
FourEpochs ==
  [e \in 0..3 |-> (n1 :> {}) @@ (n2 :> {All(e)}) @@ (n3 :> {All(e)})
     @@ (n4 :> {All(IF e = 3 THEN 7 ELSE 0)})]

SlowBack == {<<0, n3>>, <<2, n2>>}

-----------------------------------------------------------------------------
Ep(e) == AllocateUntil(pika, e).epochs[e]

VIDMayEnd(e, i) ==
  /\ i \notin Ep(e).vtermed
  /\ \/ VIDStep(e, i, TRUE, TRUE, NoBlock)
     \/ <<e, i>> \in Slow /\ i \notin Ep(e).dispersed /\ VIDStep(e, i, TRUE, FALSE, NoBlock)

BAMayEnd(e, i) ==
  /\ Ep(e).output[i] = {}
  /\ \/ BAStep(e, i, {TRUE})
     \/ <<e, i>> \in Slow /\ BAStep(e, i, {FALSE})

Step(e, i) == VIDMayEnd(e, i) \/ BlockArrives(e, i) \/ BAMayEnd(e, i)

Within == {x \in Entry : x[1] < pika.firstUninited + Ahead}

\* Something is left for a quick VID or BA to do.
Ready(e, i) ==
  /\ IsProposed(pika, e, i)
  /\ \/ i \notin Ep(e).vtermed
     \/ Ep(e).output[i] = {}
     \/ i # self /\ i \in Ep(e).requested \ Decoded(Ep(e))

Pending == {x \in Within \ Slow : Ready(x[1], x[2])}

MCNext ==
  \/ /\ Pending # {}
     /\ LET x == CHOOSE y \in Pending : TRUE IN Step(x[1], x[2])
  \/ /\ Pending = {}
     /\ \/ Start
        \/ Tick
        \/ \E x \in Within \cap Slow : Step(x[1], x[2])

MCSpec == Init /\ [][MCNext]_vars

\* Due, of what MCNext lets happen: the quick steps are due themselves if the
\* quick nodes are correct.
DueWithin ==
  \/ Start
  \/ InitDue
  \/ \E x \in Within :
       VIDEnds(x[1], x[2]) \/ BlockArrives(x[1], x[2]) \/ BAEnds(x[1], x[2])

MCFairSpec == MCSpec /\ WF_vars(DueWithin)
=============================================================================
