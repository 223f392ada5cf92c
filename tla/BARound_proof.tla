---------------------------- MODULE BARound_proof ----------------------------
(***************************************************************************)
(* Proofs about BARound, for any number of nodes and any faulty set.       *)
(***************************************************************************)
EXTENDS BARound, ProtocolParams_proof

(***************************************************************************)
(* What a record says is backed by messages: what a node has heard from a  *)
(* correct node was sent, what it sent is on record, it voted once, its    *)
(* beliefs and its end have the quorums, and a Viable of a correct node    *)
(* goes back to the estimation of a correct node.                          *)
(***************************************************************************)
Heard(n) ==
  \A v \in BOOLEAN : \A k \in Correct :
    /\ k \in epoch[n].rcvdV[v] => Viable(k, v) \in msgs
    /\ k \in epoch[n].rcvdA[v] => Agreement(k, v) \in msgs

Voted(n) ==
  /\ \A v \in BOOLEAN : Agreement(n, v) \in msgs => v \in epoch[n].sentA
  /\ \A v, w \in epoch[n].sentA : v = w

BelievedOn(b) == \A v \in b.believe : Cardinality(b.rcvdV[v]) >= F + 1

Settled(b) ==
  /\ \A v \in b.believe : b.rcvdA[v] # {} => v \in b.cand
  /\ b.termed => Cardinality(Counted(b)) >= N - F

Estimated(v) == \E k \in inited : epoch[k].e = v

JustifiedViable ==
  \A n \in Correct : \A v \in BOOLEAN : Viable(n, v) \in msgs => Estimated(v)

IInv ==
  /\ TypeOK
  /\ \A n \in Correct : 
       /\ Heard(n)
       /\ Voted(n)
       /\ BelievedOn(epoch[n])
       /\ Settled(epoch[n])
  /\ JustifiedViable

-----------------------------------------------------------------------------
(***************************************************************************)
(* Thresholds: F+1 nodes include a correct one, and two sets of N-F nodes  *)
(* share a correct one.                                                    *)
(***************************************************************************)
LEMMA CorrectWitness ==
  ASSUME NEW A \in SUBSET Node, Cardinality(A) >= F + 1
  PROVE  \E p \in Correct : p \in A
BY FaultyAssumption, OneIsCorrect DEF Correct

LEMMA QuorumsMeet ==
  ASSUME NEW A \in SUBSET Node, NEW B \in SUBSET Node,
         Cardinality(A) >= N - F, Cardinality(B) >= N - F
  PROVE  \E p \in Correct : p \in A /\ p \in B
BY FaultyAssumption, QuorumsIntersect DEF Correct

(***************************************************************************)
(* The handlers keep a record a record.                                    *)
(***************************************************************************)
LEMMA SettleTyped ==
  ASSUME NEW c \in EpochState
  PROVE  Settle(c) \in EpochState
<1> DEFINE k == c.cand \cup {v \in c.believe : c.rcvdA[v] # {}}
           t == Cardinality(Counted(c)) >= N - F
<1>1. t \in BOOLEAN
  OBVIOUS
<1>2. k \in SUBSET BOOLEAN
  BY DEF EpochState
<1>3. Settle(c) = [c EXCEPT !.cand = k, !.termed = t]
  BY Zenon DEF Settle
<1> HIDE DEF k, t
<1> QED
  BY <1>1, <1>2, <1>3 DEF EpochState

LEMMA HandleViableTyped ==
  ASSUME NEW b \in EpochState, NEW k \in Node, NEW v \in BOOLEAN
  PROVE  HandleViable(b, k, v) \in EpochState
<1> DEFINE heard == b.rcvdV[v] \cup {k}
           rv == [b.rcvdV EXCEPT ![v] = heard]
           sv == IF Cardinality(heard) >= F + 1 THEN b.sentV \cup {v} ELSE b.sentV
           bl == IF Cardinality(heard) >= 2 * F + 1 THEN b.believe \cup {v} ELSE b.believe
           sa == IF Cardinality(heard) >= 2 * F + 1 /\ b.sentA = {} THEN {v} ELSE b.sentA
<1>1. rv \in [BOOLEAN -> SUBSET Node]
  BY DEF EpochState
<1>2. sv \in SUBSET BOOLEAN /\ bl \in SUBSET BOOLEAN /\ sa \in SUBSET BOOLEAN
  BY DEF EpochState
<1>3. HandleViable(b, k, v)
        = [b EXCEPT !.rcvdV = rv, !.sentV = sv, !.believe = bl, !.sentA = sa]
  BY DEF HandleViable
<1> HIDE DEF rv, sv, bl, sa
<1> QED
  BY <1>1, <1>2, <1>3 DEF EpochState

LEMMA HandleAgreementTyped ==
  ASSUME NEW b \in EpochState, NEW k \in Node, NEW v \in BOOLEAN
  PROVE  HandleAgreement(b, k, v) \in EpochState
BY DEF HandleAgreement, EpochState

(***************************************************************************)
(* What HandleViable, HandleAgreement and Settle do to each part of the    *)
(* record, in the terms of the invariant.                                  *)
(***************************************************************************)
LEMMA HandleViableFacts ==
  ASSUME NEW b \in EpochState, NEW k \in Node, NEW v \in BOOLEAN,
         NEW c, c = HandleViable(b, k, v)
  PROVE  /\ c.rcvdV = [b.rcvdV EXCEPT ![v] = @ \cup {k}]
         /\ c.rcvdA = b.rcvdA /\ c.e = b.e
         /\ c.sentV \subseteq b.sentV \cup {v}
         /\ v \in c.sentV \ b.sentV => Cardinality(c.rcvdV[v]) >= F + 1
         /\ b.sentA \subseteq c.sentA
         /\ b.sentA = {} => c.sentA \subseteq {v}
         /\ b.sentA # {} => c.sentA = b.sentA
         /\ c.believe \subseteq b.believe \cup {v}
         /\ v \in c.believe \ b.believe => Cardinality(c.rcvdV[v]) >= 2 * F + 1
BY DEF HandleViable, EpochState

LEMMA HandleAgreementFacts ==
  ASSUME NEW b \in EpochState, NEW k \in Node, NEW v \in BOOLEAN,
         NEW c, c = HandleAgreement(b, k, v)
  PROVE  /\ \A w \in BOOLEAN : c.rcvdA[w] \subseteq b.rcvdA[w] \cup {k}
         /\ \A w \in BOOLEAN : w # v => c.rcvdA[w] = b.rcvdA[w]
         /\ c.rcvdV = b.rcvdV /\ c.e = b.e /\ c.sentV = b.sentV
         /\ c.sentA = b.sentA /\ c.believe = b.believe
BY DEF HandleAgreement, EpochState

LEMMA SettleFacts ==
  ASSUME NEW b \in EpochState, NEW c, c = Settle(b)
  PROVE  /\ c.rcvdV = b.rcvdV /\ c.rcvdA = b.rcvdA /\ c.e = b.e
         /\ c.sentV = b.sentV /\ c.sentA = b.sentA /\ c.believe = b.believe
         /\ Settled(c)
<1> DEFINE k == b.cand \cup {v \in b.believe : b.rcvdA[v] # {}}
           t == Cardinality(Counted(b)) >= N - F
<1>1. c = [b EXCEPT !.cand = k, !.termed = t]
  BY Zenon DEF Settle
<1>2. /\ c.rcvdV = b.rcvdV /\ c.rcvdA = b.rcvdA /\ c.e = b.e
      /\ c.sentV = b.sentV /\ c.sentA = b.sentA /\ c.believe = b.believe
      /\ c.cand = k
  <2> HIDE DEF k, t
  <2> QED BY <1>1 DEF EpochState
<1>3. c.termed = t
  <2> HIDE DEF k, t
  <2> QED BY <1>1, Zenon DEF EpochState
<1>4. Counted(c) = Counted(b)
  BY <1>2 DEF Counted
<1>5. c.termed => Cardinality(Counted(c)) >= N - F
  BY <1>3, <1>4, Zenon
<1> QED
  BY <1>2, <1>5 DEF Settled

\* rcvdV only grows, and so do the quorums counted in it.
LEMMA BelievedOnGrows ==
  ASSUME NEW b \in EpochState, NEW c \in EpochState,
         \A v \in BOOLEAN : b.rcvdV[v] \subseteq c.rcvdV[v],
         \A v \in c.believe \ b.believe : Cardinality(c.rcvdV[v]) >= F + 1,
         BelievedOn(b)
  PROVE  BelievedOn(c)
<1> SUFFICES ASSUME NEW v \in c.believe PROVE Cardinality(c.rcvdV[v]) >= F + 1
  BY DEF BelievedOn
<1>1. v \in BOOLEAN
  BY DEF EpochState
<1>2. CASE v \in b.believe
  <2>1. b.rcvdV[v] \in SUBSET c.rcvdV[v] /\ c.rcvdV[v] \in SUBSET Node
    BY <1>1 DEF EpochState
  <2>2. Cardinality(b.rcvdV[v]) <= Cardinality(c.rcvdV[v])
    BY <2>1, SubsetFinite, FS_Subset
  <2>3. Cardinality(b.rcvdV[v]) >= F + 1
    BY <1>2 DEF BelievedOn
  <2>4. Cardinality(b.rcvdV[v]) \in Nat /\ Cardinality(c.rcvdV[v]) \in Nat
    BY <2>1, SubsetFinite
  <2> QED
    BY <2>2, <2>3, <2>4, FaultAssumption
<1>3. CASE v \notin b.believe
  BY <1>3
<1> QED
  BY <1>2, <1>3

(***************************************************************************)
(* One call of BAEpoch.Recv, as the invariant sees it.                     *)
(***************************************************************************)
LEMMA RecvFacts ==
  ASSUME NEW b \in EpochState, NEW m \in EpochMessage,
         BelievedOn(b), Settled(b), \A v, w \in b.sentA : v = w,
         NEW c, c = EpochRecv(b, m)
  PROVE  /\ c \in EpochState /\ c.e = b.e
         /\ \A v \in BOOLEAN : \A k \in c.rcvdV[v] : k \in b.rcvdV[v] \/ m = Viable(k, v)
         /\ \A v \in BOOLEAN : \A k \in c.rcvdA[v] : k \in b.rcvdA[v] \/ m = Agreement(k, v)
         /\ \A v \in c.sentV : v \in b.sentV \/ Cardinality(c.rcvdV[v]) >= F + 1
         /\ b.sentA \subseteq c.sentA
         /\ \A v, w \in c.sentA : v = w
         /\ BelievedOn(c)
         /\ Settled(c)
<1>1. m.from \in Node /\ m.value \in BOOLEAN /\ m.type \in {"viable", "agreement"}
      /\ m = [type |-> m.type, from |-> m.from, value |-> m.value]
  BY DEF EpochMessage
<1>2. CASE b.termed
  BY <1>2 DEF EpochRecv
<1>3. CASE ~b.termed /\ m.type = "viable"
  <2> DEFINE d == HandleViable(b, m.from, m.value)
  <2>1. c = Settle(d)
    BY <1>3 DEF EpochRecv
  <2>2. d \in EpochState
    BY <1>1, HandleViableTyped
  <2>3. /\ d.rcvdV = [b.rcvdV EXCEPT ![m.value] = @ \cup {m.from}]
        /\ d.rcvdA = b.rcvdA /\ d.e = b.e
        /\ d.sentV \subseteq b.sentV \cup {m.value}
        /\ m.value \in d.sentV \ b.sentV => Cardinality(d.rcvdV[m.value]) >= F + 1
        /\ b.sentA \subseteq d.sentA
        /\ b.sentA = {} => d.sentA \subseteq {m.value}
        /\ b.sentA # {} => d.sentA = b.sentA
        /\ d.believe \subseteq b.believe \cup {m.value}
        /\ m.value \in d.believe \ b.believe => Cardinality(d.rcvdV[m.value]) >= 2 * F + 1
    BY <1>1, HandleViableFacts
  <2> HIDE DEF d
  <2>4. /\ c.rcvdV = d.rcvdV /\ c.rcvdA = d.rcvdA /\ c.e = d.e
        /\ c.sentV = d.sentV /\ c.sentA = d.sentA /\ c.believe = d.believe
        /\ Settled(c) /\ c \in EpochState
    BY <2>1, <2>2, SettleFacts, SettleTyped
  <2>5. Cardinality(d.rcvdV[m.value]) \in Nat
    BY <1>1, <2>2, SubsetFinite DEF EpochState
  <2>6. \A v \in c.believe \ b.believe : Cardinality(c.rcvdV[v]) >= F + 1
    BY <2>3, <2>4, <2>5, FaultAssumption
  <2>7. \A v \in BOOLEAN : b.rcvdV[v] \subseteq c.rcvdV[v]
    BY <2>3, <2>4, <1>1 DEF EpochState
  <2>8. BelievedOn(c)
    BY <2>4, <2>6, <2>7, BelievedOnGrows
  <2>9. \A v \in BOOLEAN : \A k \in c.rcvdV[v] : k \in b.rcvdV[v] \/ m = Viable(k, v)
    BY <1>1, <1>3, <2>3, <2>4 DEF Viable, EpochState
  <2>10. \A v, w \in c.sentA : v = w
    BY <2>3, <2>4
  <2> QED
    BY <2>3, <2>4, <2>8, <2>9, <2>10
<1>4. CASE ~b.termed /\ m.type = "agreement"
  <2> DEFINE d == HandleAgreement(b, m.from, m.value)
  <2>1. c = Settle(d)
    BY <1>4 DEF EpochRecv
  <2>2. d \in EpochState
    BY <1>1, HandleAgreementTyped
  <2>3. /\ \A w \in BOOLEAN : d.rcvdA[w] \subseteq b.rcvdA[w] \cup {m.from}
        /\ \A w \in BOOLEAN : w # m.value => d.rcvdA[w] = b.rcvdA[w]
        /\ d.rcvdV = b.rcvdV /\ d.e = b.e /\ d.sentV = b.sentV
        /\ d.sentA = b.sentA /\ d.believe = b.believe
    BY <1>1, HandleAgreementFacts
  <2> HIDE DEF d
  <2>4. /\ c.rcvdV = d.rcvdV /\ c.rcvdA = d.rcvdA /\ c.e = d.e
        /\ c.sentV = d.sentV /\ c.sentA = d.sentA /\ c.believe = d.believe
        /\ Settled(c) /\ c \in EpochState
    BY <2>1, <2>2, SettleFacts, SettleTyped
  <2>5. \A v \in BOOLEAN : \A k \in c.rcvdA[v] : k \in b.rcvdA[v] \/ m = Agreement(k, v)
    BY <1>1, <1>4, <2>3, <2>4 DEF Agreement
  <2>6. BelievedOn(c)
    BY <2>3, <2>4 DEF BelievedOn
  <2> QED
    BY <2>3, <2>4, <2>5, <2>6
<1> QED
  BY <1>1, <1>2, <1>3, <1>4

\* SetEstimation and Init: a Viable for the estimation, nothing else moves.
LEMMA StartFacts ==
  ASSUME NEW b \in EpochState, NEW est \in BOOLEAN,
         NEW c, c = EpochInit(SetEstimation(b, est))
  PROVE  /\ c \in EpochState /\ c.e = est
         /\ c.rcvdV = b.rcvdV /\ c.rcvdA = b.rcvdA /\ c.believe = b.believe
         /\ c.cand = b.cand /\ c.termed = b.termed /\ c.sentA = b.sentA
         /\ c.sentV \subseteq b.sentV \cup {est}
BY DEF EpochInit, SetEstimation, EpochState

(***************************************************************************)
(* What Sent adds to the network.                                          *)
(***************************************************************************)
LEMMA SentFacts ==
  ASSUME NEW b \in EpochState, NEW c \in EpochState, NEW n \in Correct
  PROVE  /\ Sent(n, b, c) \subseteq {m \in EpochMessage : m.from \in Correct}
         /\ \A k, v : Viable(k, v) \in Sent(n, b, c) => k = n /\ v \in c.sentV \ b.sentV
         /\ \A k, v : Agreement(k, v) \in Sent(n, b, c) => k = n /\ v \in c.sentA \ b.sentA
<1>1. c.sentV \subseteq BOOLEAN /\ c.sentA \subseteq BOOLEAN /\ n \in Node
  BY DEF EpochState, Correct
<1>2. \A k, l, v, w : Viable(k, v) # Agreement(l, w)
  BY DEF Viable, Agreement
<1>3. \A k, l, v, w : Viable(k, v) = Viable(l, w) => k = l /\ v = w
  BY DEF Viable
<1>4. \A k, l, v, w : Agreement(k, v) = Agreement(l, w) => k = l /\ v = w
  BY DEF Agreement
<1>5. \A v \in BOOLEAN : Viable(n, v) \in EpochMessage /\ Viable(n, v).from = n
  BY <1>1 DEF Viable, EpochMessage
<1>6. \A v \in BOOLEAN : Agreement(n, v) \in EpochMessage /\ Agreement(n, v).from = n
  BY <1>1 DEF Agreement, EpochMessage
<1>7. Sent(n, b, c) \subseteq {m \in EpochMessage : m.from \in Correct}
  BY <1>1, <1>5, <1>6, Zenon DEF Sent
<1>8. \A k, v : Viable(k, v) \in Sent(n, b, c) => k = n /\ v \in c.sentV \ b.sentV
  BY <1>2, <1>3, Zenon DEF Sent
<1>9. \A k, v : Agreement(k, v) \in Sent(n, b, c) => k = n /\ v \in c.sentA \ b.sentA
  BY <1>2, <1>4, Zenon DEF Sent
<1> QED
  BY <1>7, <1>8, <1>9

LEMMA InitHolds == Init => IInv
<1> SUFFICES ASSUME Init PROVE IInv
  OBVIOUS
<1>1. NewBAEpoch \in EpochState
  BY DEF NewBAEpoch, EpochState
<1>2. \A n \in Correct : epoch[n] = NewBAEpoch
  BY DEF Init
<1>3. TypeOK
  BY <1>1 DEF Init, TypeOK
<1>4. \A n \in Correct : Heard(n) /\ Voted(n)
  BY <1>2 DEF Init, Heard, Voted, NewBAEpoch
<1>5. \A n \in Correct : BelievedOn(epoch[n]) /\ Settled(epoch[n])
  BY <1>2 DEF BelievedOn, Settled, NewBAEpoch
<1> QED
  BY <1>3, <1>4, <1>5 DEF Init, IInv, JustifiedViable

(***************************************************************************)
(* The step from b to c of node n, whoever causes it, keeps the invariant  *)
(* when what is new in c is accounted for.                                 *)
(***************************************************************************)
LEMMA AdvanceKeeps ==
  ASSUME IInv, NEW n \in Correct, NEW c \in EpochState, Advance(n, c),
         inited \subseteq inited', inited' \subseteq Correct,
         \A k \in inited : k = n => c.e = epoch[n].e,
         \A v \in BOOLEAN : \A k \in Correct :
           /\ k \in c.rcvdV[v] => Viable(k, v) \in msgs
           /\ k \in c.rcvdA[v] => Agreement(k, v) \in msgs,
         \A v \in c.sentV \ epoch[n].sentV :
           Estimated(v) \/ (n \in inited' /\ c.e = v),
         epoch[n].sentA \subseteq c.sentA,
         \A v, w \in c.sentA : v = w,
         BelievedOn(c), Settled(c)
  PROVE  IInv'
<1> DEFINE b == epoch[n]
<1>1. TypeOK /\ b \in EpochState
  BY DEF IInv, TypeOK
<1>2. /\ epoch' = [epoch EXCEPT ![n] = c]
      /\ msgs' = msgs \cup Sent(n, b, c)
      /\ epoch'[n] = c
      /\ \A k \in Correct : k # n => epoch'[k] = epoch[k]
  BY <1>1 DEF Advance, TypeOK
<1>3. /\ Sent(n, b, c) \subseteq {m \in EpochMessage : m.from \in Correct}
      /\ \A k, v : Viable(k, v) \in Sent(n, b, c) => k = n /\ v \in c.sentV \ b.sentV
      /\ \A k, v : Agreement(k, v) \in Sent(n, b, c) => k = n /\ v \in c.sentA \ b.sentA
  BY <1>1, SentFacts
<1> HIDE DEF b
<1>4. TypeOK'
  BY <1>1, <1>2, <1>3 DEF TypeOK
<1>5. ASSUME NEW k \in Correct
      PROVE  Heard(k)' /\ Voted(k)' /\ BelievedOn(epoch'[k]) /\ Settled(epoch'[k])
  <2>1. Heard(k) /\ Voted(k) /\ BelievedOn(epoch[k]) /\ Settled(epoch[k])
    BY DEF IInv
  <2>2. CASE k = n
    <3>1. Heard(n)'
      BY <1>2 DEF Heard
    <3>2. \A v \in BOOLEAN : Agreement(n, v) \in msgs' => v \in c.sentA
      BY <1>2, <1>3, <2>1, <2>2 DEF Voted, b
    <3> QED
      BY <1>2, <2>2, <3>1, <3>2 DEF Voted
  <2>3. CASE k # n
    <3>1. epoch'[k] = epoch[k]
      BY <1>2, <2>3
    <3>2. Heard(k)'
      BY <1>2, <2>1, <3>1 DEF Heard
    <3>3. Voted(k)'
      BY <1>2, <1>3, <2>1, <2>3, <3>1 DEF Voted
    <3> QED
      BY <2>1, <3>1, <3>2, <3>3
  <2> QED
    BY <2>2, <2>3
<1>6. JustifiedViable'
  <2> SUFFICES ASSUME NEW k \in Correct, NEW v \in BOOLEAN, Viable(k, v) \in msgs'
               PROVE  Estimated(v)'
    BY DEF JustifiedViable
  <2>1. Estimated(v) => Estimated(v)'
    <3> SUFFICES ASSUME NEW j \in inited, epoch[j].e = v PROVE Estimated(v)'
      BY DEF Estimated
    <3>1. j \in Correct /\ j \in inited'
      BY <1>1 DEF TypeOK
    <3>2. epoch'[j].e = v
      BY <1>2, <3>1 DEF b
    <3> QED
      BY <3>1, <3>2 DEF Estimated
  <2>2. CASE Viable(k, v) \in msgs
    BY <2>1, <2>2 DEF IInv, JustifiedViable
  <2>3. CASE Viable(k, v) \in Sent(n, b, c)
    <3>1. k = n /\ v \in c.sentV \ epoch[n].sentV
      BY <1>3, <2>3 DEF b
    <3>2. CASE Estimated(v)
      BY <2>1, <3>2
    <3>3. CASE n \in inited' /\ c.e = v
      BY <1>2, <3>3 DEF Estimated
    <3> QED
      BY <3>1, <3>2, <3>3
  <2> QED
    BY <1>2, <2>2, <2>3
<1> QED
  BY <1>4, <1>5, <1>6 DEF IInv

LEMMA StartKeeps ==
  ASSUME IInv, NEW n \in Correct, NEW est \in BOOLEAN, Start(n, est)
  PROVE  IInv'
<1> DEFINE b == epoch[n]
           c == EpochInit(SetEstimation(b, est))
<1>1. b \in EpochState /\ inited \subseteq Correct
  BY DEF IInv, TypeOK
<1>2. /\ c \in EpochState /\ c.e = est
      /\ c.rcvdV = b.rcvdV /\ c.rcvdA = b.rcvdA /\ c.believe = b.believe
      /\ c.cand = b.cand /\ c.termed = b.termed /\ c.sentA = b.sentA
      /\ c.sentV \subseteq b.sentV \cup {est}
  BY <1>1, StartFacts
<1>3. Heard(n) /\ Voted(n) /\ BelievedOn(b) /\ Settled(b)
  BY DEF IInv
<1>4. Advance(n, c) /\ n \notin inited /\ inited' = inited \cup {n}
  BY DEF Start
<1> HIDE DEF c
<1>5. BelievedOn(c) /\ Settled(c)
  BY <1>2, <1>3 DEF BelievedOn, Settled, Counted
<1>6. \A v \in BOOLEAN : \A k \in Correct :
        /\ k \in c.rcvdV[v] => Viable(k, v) \in msgs
        /\ k \in c.rcvdA[v] => Agreement(k, v) \in msgs
  BY <1>2, <1>3 DEF Heard
<1>7. \A v \in c.sentV \ b.sentV : n \in inited' /\ c.e = v
  BY <1>2, <1>4
<1>8. b.sentA \subseteq c.sentA /\ \A v, w \in c.sentA : v = w
  BY <1>2, <1>3 DEF Voted
<1> QED
  BY <1>1, <1>2, <1>4, <1>5, <1>6, <1>7, <1>8, AdvanceKeeps

LEMMA RecvKeeps ==
  ASSUME IInv, NEW n \in Correct, NEW m, Recv(n, m)
  PROVE  IInv'
<1> DEFINE b == epoch[n]
           c == EpochRecv(b, m)
<1>1. b \in EpochState /\ inited \subseteq Correct
      /\ msgs \subseteq {x \in EpochMessage : x.from \in Correct}
  BY DEF IInv, TypeOK
<1>2. Heard(n) /\ Voted(n) /\ BelievedOn(b) /\ Settled(b)
  BY DEF IInv
<1>3. m \in EpochMessage /\ (m.from \in Correct => m \in msgs)
  BY <1>1, FaultyAssumption DEF Recv, Correct
<1>4. Advance(n, c) /\ inited' = inited
  BY DEF Recv
<1>5. \A v, w \in b.sentA : v = w
  BY <1>2 DEF Voted
<1>6. /\ c \in EpochState /\ c.e = b.e
      /\ \A v \in BOOLEAN : \A k \in c.rcvdV[v] : k \in b.rcvdV[v] \/ m = Viable(k, v)
      /\ \A v \in BOOLEAN : \A k \in c.rcvdA[v] : k \in b.rcvdA[v] \/ m = Agreement(k, v)
      /\ \A v \in c.sentV : v \in b.sentV \/ Cardinality(c.rcvdV[v]) >= F + 1
      /\ b.sentA \subseteq c.sentA
      /\ \A v, w \in c.sentA : v = w
      /\ BelievedOn(c)
      /\ Settled(c)
  BY <1>1, <1>2, <1>3, <1>5, RecvFacts
<1> HIDE DEF c
<1>7. ASSUME NEW v \in BOOLEAN, NEW k \in Correct
      PROVE  /\ k \in c.rcvdV[v] => Viable(k, v) \in msgs
             /\ k \in c.rcvdA[v] => Agreement(k, v) \in msgs
  <2>1. m = Viable(k, v) \/ m = Agreement(k, v) => m.from = k
    BY DEF Viable, Agreement
  <2> QED
    BY <1>2, <1>3, <1>6, <2>1 DEF Heard
<1>8. ASSUME NEW v \in c.sentV \ b.sentV
      PROVE  Estimated(v)
  <2>1. v \in BOOLEAN /\ c.rcvdV[v] \in SUBSET Node /\ Cardinality(c.rcvdV[v]) >= F + 1
    BY <1>6 DEF EpochState
  <2>2. PICK k \in Correct : k \in c.rcvdV[v]
    BY <2>1, CorrectWitness
  <2> QED
    BY <1>7, <2>1, <2>2 DEF IInv, JustifiedViable
<1> QED
  BY <1>1, <1>4, <1>6, <1>7, <1>8, AdvanceKeeps

LEMMA NextKeeps == IInv /\ [Next]_vars => IInv'
<1> SUFFICES ASSUME IInv, [Next]_vars PROVE IInv'
  OBVIOUS
<1>1. CASE UNCHANGED vars
  BY <1>1 DEF vars, IInv, TypeOK, Heard, Voted, BelievedOn, Settled, JustifiedViable,
              Estimated
<1>2. CASE Next
  BY <1>2, StartKeeps, RecvKeeps DEF Next
<1> QED
  BY <1>1, <1>2

THEOREM Invariance == Spec => []IInv
BY InitHolds, NextKeeps, PTL DEF Spec

-----------------------------------------------------------------------------
(***************************************************************************)
(* The state of every BAEpoch and every message keep their types.          *)
(***************************************************************************)
THEOREM TypeCorrect == Spec => []TypeOK
BY Invariance, PTL DEF IInv

(***************************************************************************)
(* A correct node votes for one value in an epoch.                         *)
(***************************************************************************)
THEOREM VotesOnce == Spec => []OneAgreement
<1>1. IInv => OneAgreement
  BY DEF IInv, Voted, OneAgreement
<1> QED
  BY <1>1, Invariance, PTL

(***************************************************************************)
(* A value believed in was the estimation of a correct node.               *)
(***************************************************************************)
THEOREM BeliefsJustified == Spec => []JustifiedBelief
<1>1. IInv => JustifiedBelief
  <2> SUFFICES ASSUME IInv, NEW n \in Correct, NEW v \in epoch[n].believe
               PROVE  Estimated(v)
    BY DEF JustifiedBelief, Estimated
  <2>1. v \in BOOLEAN /\ epoch[n].rcvdV[v] \in SUBSET Node
    BY DEF IInv, TypeOK, EpochState
  <2>2. PICK k \in Correct : k \in epoch[n].rcvdV[v]
    BY <2>1, CorrectWitness DEF IInv, BelievedOn
  <2> QED
    BY <2>1, <2>2 DEF IInv, Heard, JustifiedViable
<1> QED
  BY <1>1, Invariance, PTL

(***************************************************************************)
(* Two correct nodes that end the epoch with one candidate have the same:  *)
(* each has N-F Agreements for it, and a correct node is behind both.      *)
(***************************************************************************)
THEOREM CandidatesAgree == Spec => []SingleCandidatesAgree
<1>1. ASSUME IInv, NEW n \in Correct, NEW v \in BOOLEAN,
             epoch[n].termed, epoch[n].cand = {v}
      PROVE  /\ epoch[n].rcvdA[v] \in SUBSET Node
             /\ Cardinality(epoch[n].rcvdA[v]) >= N - F
  <2>1. epoch[n] \in EpochState /\ Settled(epoch[n])
    BY <1>1 DEF IInv, TypeOK
  <2>2. epoch[n].rcvdA[v] \in SUBSET Node
    BY <2>1 DEF EpochState
  <2>3. Counted(epoch[n]) \in SUBSET epoch[n].rcvdA[v]
    BY <1>1, <2>1 DEF Counted, Settled
  <2>4. Cardinality(Counted(epoch[n])) >= N - F
    BY <1>1, <2>1 DEF Settled
  <2>5. Cardinality(Counted(epoch[n])) <= Cardinality(epoch[n].rcvdA[v])
    BY <2>2, <2>3, SubsetFinite, FS_Subset
  <2>6. Cardinality(Counted(epoch[n])) \in Nat /\ Cardinality(epoch[n].rcvdA[v]) \in Nat
    BY <2>2, <2>3, SubsetFinite
  <2> QED
    BY <2>2, <2>4, <2>5, <2>6, NIsNat, FaultAssumption
<1>2. IInv => SingleCandidatesAgree
  <2> SUFFICES ASSUME IInv, NEW n \in Correct, NEW k \in Correct,
                      NEW v \in BOOLEAN, NEW w \in BOOLEAN,
                      epoch[n].termed, epoch[n].cand = {v},
                      epoch[k].termed, epoch[k].cand = {w}
               PROVE  v = w
    BY DEF SingleCandidatesAgree
  <2>1. PICK p \in Correct : p \in epoch[n].rcvdA[v] /\ p \in epoch[k].rcvdA[w]
    BY <1>1, QuorumsMeet
  <2>2. Agreement(p, v) \in msgs /\ Agreement(p, w) \in msgs
    BY <2>1 DEF IInv, Heard
  <2> QED
    BY <2>2 DEF IInv, Voted
<1> QED
  BY <1>2, Invariance, PTL
=============================================================================
