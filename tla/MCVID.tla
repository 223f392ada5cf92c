------------------------------- MODULE MCVID -------------------------------
(***************************************************************************)
(* VID on a few nodes, over the network pikad builds: the Echoes, Readys   *)
(* and requests from one node to another share a stream and arrive in the  *)
(* order sent, Disperses and chunks have streams of their own, and a node  *)
(* handles what it sends itself first.  The faulty node keeps to no order. *)
(***************************************************************************)
EXTENDS VID, Sequences, TLC

CONSTANTS n1, n2, n3, n4   \* of which n4 is faulty

VARIABLE link   \* link[k][n]: the signals from k that n has not handled yet

mcvars == <<vars, link>>

(***************************************************************************)
(* Two plots: n4 disperses, to some nodes only, and nobody retrieves; or a *)
(* correct node disperses while n4 hurries to help, and all retrieve.      *)
(***************************************************************************)
Lie(flags) == [is |-> flags, from |-> n4, to |-> Node]
Nothing == [n \in Correct |-> {}]

\* n4 sends chunks to n1 and n2, and perhaps to n3.
Partial ==
  (n1 :> {Lie({"disperse", "ready", "echo"})})
    @@ (n2 :> {Lie({"disperse", "ready"}), Lie({"echo"})})
    @@ (n3 :> {Lie({"echo", "ready"}), Lie({"disperse"})})

\* n4 gives n2 a chunk unasked.
Giver == [Nothing EXCEPT ![n2] = {Lie({"echo", "ready", "respond"})}]

Said == UNION {Partial[n] \cup Giver[n] : n \in Correct}

\* The messages of n4 that n may get; in the second plot before all signals.
Reaches == IF initID = n4 THEN Partial ELSE Giver

\* The nodes that request the payload and release their chunk, and those of them
\* that may do it before the VID terminates.
Retrieving == IF initID = n4 THEN {} ELSE Correct
Early == {n2}

LinkInit ==
  /\ Init /\ initID \in {n1, n4}
  /\ link = [k \in Correct |-> [n \in Correct |-> <<>>]]

Signals == {"request", "ready", "echo"}

\* l with the signals that n sends in this step, in the order VID.Recv sends
\* them: a request, then a Ready, then an Echo.
Posted(l, n) ==
  LET new == msgs' \ msgs
      signal(f, k) == {m \in new : f \in m.is /\ m.is \subseteq Signals /\ k \in m.to}
      asSeq(S) == IF S = {} THEN <<>> ELSE <<CHOOSE m \in S : TRUE>>
  IN [l EXCEPT ![n] = [k \in Correct |-> @[k] \o asSeq(signal("request", k))
                                              \o asSeq(signal("ready", k))
                                              \o asSeq(signal("echo", k))]]

FromLink(n, k) ==
  /\ link[k][n] # <<>>
  /\ Recv(n, Head(link[k][n]))
  /\ link' = Posted([link EXCEPT ![k][n] = Tail(@)], n)

\* A Disperse or a chunk that is not ignored (nor stopped by our Cancel).
Awaited(n) ==
  {m \in msgs :
     /\ n \in m.to
     /\ \/ "disperse" \in m.is /\ vid[n].core /\ ~vid[n].ourChunk
        \/ "respond" \in m.is /\ vid[n].pstate /\ m.from \notin vid[n].chunks}

FromStream(n, m) ==
  /\ Recv(n, m)
  /\ link' = Posted(link, n)

\* PikaEpoch releases and then requests: when the VID terminates, or before
\* when a BA has output true, which takes no message of the VID.
Retrieve(n) ==
  /\ n \in Retrieving
  /\ n \in Early \/ Terminated(vid[n])
  /\ ReleaseChunk(n) \/ (vid[n].canRelease /\ RequestPayload(n))
  /\ link' = Posted(link, n)

RetrieveDone(n) ==
  n \in Retrieving /\ Terminated(vid[n]) =>
    vid[n].canRelease /\ (vid[n].pstate => vid[n].scheduled)

LoopbackDone(n) ==
  /\ link[n][n] = <<>>
  /\ \A m \in Awaited(n) : m.from # n
  /\ RetrieveDone(n)

CorrectStep(n) ==
  \/ FromLink(n, n)
  \/ \E m \in Awaited(n) : m.from = n /\ FromStream(n, m)
  \/ Retrieve(n)
  \/ /\ LoopbackDone(n)
     /\ \/ \E k \in Correct \ {n} : FromLink(n, k)
        \/ \E m \in Awaited(n) : FromStream(n, m)
        \/ Start(n) /\ UNCHANGED link

FromFaulty(n) ==
  /\ LoopbackDone(n)
  /\ initID # n4 => vid[n].echos \subseteq {n} /\ vid[n].readys \subseteq {initID}
  /\ \E m \in Reaches[n] : FromStream(n, m)

MCNext == \E n \in Correct : CorrectStep(n) \/ FromFaulty(n)

MCSpec == LinkInit /\ [][MCNext]_mcvars

(***************************************************************************)
(* QUIC delivers what the correct nodes send, and every epoch is started,  *)
(* requested and released in the end.  There are finitely many such steps. *)
(***************************************************************************)
MCFairSpec == MCSpec /\ WF_mcvars(\E n \in Correct : CorrectStep(n))

=============================================================================
