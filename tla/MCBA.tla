-------------------------------- MODULE MCBA --------------------------------
(***************************************************************************)
(* BA on four nodes, over the network of MCBARound: one stream from each   *)
(* node, delivered in order, a node's own messages first.                  *)
(***************************************************************************)
EXTENDS BA, Sequences, TLC

CONSTANTS
  n1, n2, n3, n4,
  MaxEpoch,     \* no step allocates an epoch beyond this one
  Plots         \* Plots[p].input[n]: the inputs that node n may be given,
                \* Plots[p].reaches[n]: the faulty node's messages that n may get

VARIABLES
  plot,     \* what the faulty node is up to: one of the plots
  stream,   \* stream[n]: the messages of node n, in the order sent
  got       \* got[n][k]: how many messages of stream[k] node n has handled

mcvars == <<plot, vars, stream, got>>

Input(n) == Plots[plot].input[n]
Reaches(n) == Plots[plot].reaches[n]

StreamInit ==
  /\ Init
  /\ plot \in DOMAIN Plots
  /\ stream = [n \in Correct |-> <<>>]
  /\ got = [n \in Correct |-> [k \in Correct |-> 0]]

(***************************************************************************)
(* What n sends in this step, by epoch, a Viable before an Agreement and   *)
(* the Term last.                                                          *)
(***************************************************************************)
InOrder(new) ==
  LET asSeq(S) == IF S = {} THEN <<>> ELSE <<CHOOSE m \in S : TRUE>>
      about(i, t) == asSeq({m \in new : m.epoch = i /\ m.msg.type = t})
      upTo[i \in -1..MaxEpoch] ==
        IF i = -1 THEN <<>>
        ELSE upTo[i - 1] \o about(i, "viable") \o about(i, "agreement")
  IN upTo[MaxEpoch] \o asSeq({m \in new : m.msg.type = "term"})

Flush(n) ==
  \E new \in {msgs' \ msgs} : stream' = [stream EXCEPT ![n] = @ \o InOrder(new)]

Bounded(n) == ba'[n].last <= MaxEpoch
Pending(n, k) == got[n][k] < Len(stream[k])
LoopbackDone(n) == ba[n].termed \/ ~Pending(n, n)

FromPeer(n, k) ==
  /\ Pending(n, k)
  /\ Recv(n, stream[k][got[n][k] + 1])
  /\ got' = [got EXCEPT ![n][k] = @ + 1]
  /\ Flush(n)
  /\ Bounded(n)

MCPropose(n) ==
  /\ \E v \in Input(n) : Propose(n, v)
  /\ Flush(n)
  /\ UNCHANGED got

CorrectStep(n) ==
  \/ FromPeer(n, n)
  \/ LoopbackDone(n) /\ MCPropose(n)
  \/ LoopbackDone(n) /\ \E k \in Correct \ {n} : FromPeer(n, k)

\* The faulty node is quicker than the others.
FromFaulty(n) ==
  /\ LoopbackDone(n)
  /\ \A k \in Correct \ {n} : got[n][k] = 0
  /\ \E m \in Reaches(n) : Recv(n, m)
  /\ Flush(n)
  /\ UNCHANGED got
  /\ Bounded(n)

MCNext ==
  \E n \in Correct : (CorrectStep(n) \/ FromFaulty(n)) /\ UNCHANGED plot

MCSpec == StreamInit /\ [][MCNext]_mcvars

\* There are finitely many messages: fairness delivers every one of them.
\* Nothing is asked of the plot in which the nodes may be split.
MCFairSpec ==
  MCSpec /\ WF_mcvars(plot # "split" /\ \E n \in Correct : CorrectStep(n) /\ UNCHANGED plot)

-----------------------------------------------------------------------------
Ids == <<n1, n2, n3, n4>>
In(i, m) == [epoch |-> i, msg |-> m]

AnyInput == (n1 :> {TRUE}) @@ (n2 :> {FALSE}) @@ (n3 :> {TRUE, FALSE})
MixedInput == (n1 :> {TRUE}) @@ (n2 :> {TRUE}) @@ (n3 :> {FALSE})

Said == UNION {Plots[p].reaches[n] : p \in DOMAIN Plots, n \in Correct}

\* n4 helps n1 to decide in epoch 0 and the others to see two candidates.
Splitting ==
  [input   |-> MixedInput,
   reaches |-> (n1 :> {In(0, Agreement(n4, TRUE))})
                 @@ (n2 :> {In(0, Viable(n4, FALSE))}) @@ (n3 :> {In(0, Viable(n4, FALSE))})]

\* n4 claims to have terminated and decided FALSE, or is silent.
Claiming ==
  [input   |-> AnyInput,
   reaches |-> (n1 :> {In(0, Agreement(n4, TRUE))})
                 @@ (n2 :> {}) @@ (n3 :> {In(0, Term(n4, FALSE))})]

\* n4 helps n1 to decide in epoch 0, and n2 to believe in what n1 does not.
Parting ==
  [input   |-> MixedInput,
   reaches |-> (n1 :> {In(0, Agreement(n4, TRUE))})
                 @@ (n2 :> {In(0, Viable(n4, FALSE))}) @@ (n3 :> {})]

SplitOrClaim == [split |-> Splitting, claim |-> Claiming]
Part == [part |-> Parting]

(***************************************************************************)
(* Termination, where the faulty node casts no vote for a value that the   *)
(* correct nodes might not come to believe (ba.go:201).                    *)
(***************************************************************************)
Terminates == plot = "claim" => Termination
=============================================================================
