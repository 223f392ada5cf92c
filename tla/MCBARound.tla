----------------------------- MODULE MCBARound -----------------------------
(***************************************************************************)
(* BARound on four nodes, over the network pikad builds: the messages of   *)
(* high priority from one node to another share one QUIC stream, so they   *)
(* arrive in the order sent (outgoingPeer.connect), and a node handles the *)
(* messages it sends itself before the next one from the network           *)
(* (Node.loopbackMsgs).  The faulty node n4 keeps to neither rule.         *)
(***************************************************************************)
EXTENDS BARound, Sequences, TLC

CONSTANTS
  n1, n2, n3, n4,
  Estimate,     \* Estimate[n]: the values node n may start the epoch with
  Reaches       \* Reaches[n]: the messages of the faulty nodes that n may get

VARIABLES
  stream,   \* stream[n]: the messages of node n, in the order sent
  got       \* got[n][k]: how many messages of stream[k] node n has handled

mcvars == <<vars, stream, got>>

StreamInit ==
  /\ Init
  /\ stream = [n \in Correct |-> <<>>]
  /\ got = [n \in Correct |-> [k \in Correct |-> 0]]

\* What n sends in this step; handleViable sends a Viable before an Agreement.
Flush(n) ==
  LET ofType(t) == {m \in msgs' \ msgs : m.type = t}
      asSeq(S) == IF S = {} THEN <<>> ELSE <<CHOOSE m \in S : TRUE>>
  IN stream' = [stream EXCEPT
                  ![n] = @ \o asSeq(ofType("viable")) \o asSeq(ofType("agreement"))]

Pending(n, k) == got[n][k] < Len(stream[k])

FromPeer(n, k) ==
  /\ Pending(n, k)
  /\ Recv(n, stream[k][got[n][k] + 1])
  /\ got' = [got EXCEPT ![n][k] = @ + 1]
  /\ Flush(n)

MCStart(n) ==
  /\ \E est \in Estimate[n] : Start(n, est)
  /\ Flush(n)
  /\ UNCHANGED got

\* A terminated epoch ignores its input: those steps are left out.
CorrectStep(n) ==
  \/ FromPeer(n, n)
  \/ ~Pending(n, n) /\ MCStart(n)
  \/ ~Pending(n, n) /\ ~epoch[n].termed /\ \E k \in Correct \ {n} : FromPeer(n, k)

FromFaulty(n) ==
  /\ ~Pending(n, n)
  /\ ~epoch[n].termed
  /\ \E m \in Reaches[n] : Recv(n, m)
  /\ Flush(n)
  /\ UNCHANGED got

MCNext == \E n \in Correct : CorrectStep(n) \/ FromFaulty(n)

MCSpec == StreamInit /\ [][MCNext]_mcvars

-----------------------------------------------------------------------------
LastEstimate == (n1 :> {TRUE}) @@ (n2 :> {TRUE}) @@ (n3 :> {TRUE, FALSE})
Lies == {Viable(n4, FALSE), Agreement(n4, FALSE)}
Everywhere == [n \in Correct |-> FaultyMsg]
=============================================================================
