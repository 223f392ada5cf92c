------------------------------ MODULE BA_proof ------------------------------
(***************************************************************************)
(* Proofs about BA, for any number of nodes and any faulty set: the types, *)
(* that a Term binds the later epochs, and that the nodes implement the    *)
(* abstract binary agreement.                                              *)
(***************************************************************************)
EXTENDS BA, ProtocolParams_proof

(***************************************************************************)
(* What the messages M of the correct nodes say.  A node that has left     *)
(* with value v stands for v in every later epoch.                         *)
(***************************************************************************)
About(i, m) == [epoch |-> i, msg |-> m]

Left(M, k, i, v) == \E j \in 0..(i - 1) : About(j, Term(k, v)) \in M
Supports(M, k, i, v) == About(i, Viable(k, v)) \in M \/ Left(M, k, i, v)
VotesFor(M, k, i, v) == About(i, Agreement(k, v)) \in M \/ Left(M, k, i, v)

Backed(M, i, v) == \E k \in Correct : Supports(M, k, i, v)
Bound(M, i, v) == \E k \in Correct : Left(M, k, i, v)

\* N-F nodes, the correct ones of which voted for v.
Ended(M, i, v) ==
  \E Q \in SUBSET Node :
    Cardinality(Q) >= N - F /\ \A k \in Q \cap Correct : VotesFor(M, k, i, v)

(***************************************************************************)
(* The values a correct node may carry into epoch i: an input, or what the *)
(* epoch before allows.                                                    *)
(***************************************************************************)
Opened(M, P, i, v) ==
  \/ i = 0 /\ v \in P
  \/ i > 0 /\ v = Coin(i - 1) /\ Backed(M, i - 1, v)
  \/ i > 0 /\ v # Coin(i - 1) /\ Ended(M, i - 1, v)

(***************************************************************************)
(* Every message of a correct node is justified by earlier ones.           *)
(***************************************************************************)
Justified(M, P, i, m) ==
  /\ m.type = "viable" => Opened(M, P, i, m.value) \/ Bound(M, i, m.value)
  /\ m.type = "agreement" => Backed(M, i, m.value)
  /\ m.type = "term" => m.value = Coin(i) /\ Ended(M, i, m.value)

MessagesJustified(M, P) == \A x \in M : Justified(M, P, x.epoch, x.msg)

OneVoteEach(M) ==
  \A k \in Correct : \A x, y \in M :
    x.epoch = y.epoch /\ x.msg.type = "agreement" /\ y.msg.type = "agreement"
    /\ x.msg.from = k /\ y.msg.from = k => x.msg.value = y.msg.value

(***************************************************************************)
(* The record b of epoch i at a correct node, given the messages M: what   *)
(* the node has heard from correct nodes was said, its own messages are    *)
(* justified, and beliefs, candidates and the end have their quorums.      *)
(***************************************************************************)
Heard(M, i, b) ==
  \A v \in BOOLEAN : \A k \in Correct :
    /\ k \in b.rcvdV[v] => Supports(M, k, i, v)
    /\ k \in b.rcvdA[v] => VotesFor(M, k, i, v)

Spoken(M, P, i, b) ==
  /\ \A v \in b.sentV : Opened(M, P, i, v) \/ Bound(M, i, v)
  /\ \A v \in b.sentA : Backed(M, i, v)
  /\ \A v, w \in b.sentA : v = w

Counting(b) ==
  /\ \A v \in b.believe : Cardinality(b.rcvdV[v]) >= 2 * F + 1
  /\ b.cand = {v \in b.believe : b.rcvdA[v] # {}}
  /\ b.termed => Cardinality(Counted(b)) >= N - F

EpochGood(M, P, i, b) ==
  b \in EpochState /\ Heard(M, i, b) /\ Spoken(M, P, i, b) /\ Counting(b)

(***************************************************************************)
(* The state s of a node n that has not terminated.                        *)
(***************************************************************************)
TermsHeard(M, s) ==
  \A k \in Node :
    /\ s.term[k].epoch <= s.last
    /\ k \in Correct /\ s.term[k] # NoTerm
         => About(s.term[k].epoch, Term(k, s.term[k].value)) \in M

Remembers(M, n, s) ==
  \A x \in M : x.msg.from = n /\ x.msg.type = "agreement"
                 => x.epoch <= s.last /\ x.msg.value \in s.epochs[x.epoch].sentA

Running(M, P, s) ==
  /\ s.last \in Nat
  /\ s \in BAStateUpTo(s.last)
  /\ ~s.termed
  /\ \A i \in 0..s.last : EpochGood(M, P, i, s.epochs[i])
  /\ TermsHeard(M, s)
  /\ s.epochNum = 0 \/ s.epochNum < s.firstUninited

Finished(M, n, s) ==
  /\ s = [NewBA EXCEPT !.termed = TRUE, !.output = s.output]
  /\ s.output \in BOOLEAN
  /\ \E x \in M : x.msg = Term(n, s.output)

IInv ==
  /\ proposed \subseteq BOOLEAN
  /\ msgs \subseteq {x \in BAMessage : x.msg.from \in Correct}
  /\ MessagesJustified(msgs, proposed)
  /\ OneVoteEach(msgs)
  /\ DOMAIN ba = Correct
  /\ \A n \in Correct :
       IF ba[n].termed THEN Finished(msgs, n, ba[n])
                       ELSE Running(msgs, proposed, ba[n]) /\ Remembers(msgs, n, ba[n])

-----------------------------------------------------------------------------
(***************************************************************************)
(* The messages alone: a Term binds all later epochs, whatever the faulty  *)
(* nodes do.                                                               *)
(***************************************************************************)
SaidByCorrect(M) == M \subseteq {x \in BAMessage : x.msg.from \in Correct}

TermsLock(M) ==
  \A t, m \in M : t.msg.type = "term" /\ m.epoch > t.epoch => m.msg.value = t.msg.value

LEMMA CoinType == \A i \in Nat : Coin(i) \in BOOLEAN
BY DEF Coin

LEMMA CoinAlternates ==
  ASSUME NEW i \in Nat, NEW v \in BOOLEAN, v # Coin(i)
  PROVE  v = Coin(i + 1)
BY DEF Coin

LEMMA QuorumsMeet ==
  ASSUME NEW A \in SUBSET Node, NEW B \in SUBSET Node,
         Cardinality(A) >= N - F, Cardinality(B) >= N - F
  PROVE  \E p \in Correct : p \in A /\ p \in B
BY FaultyAssumption, QuorumsIntersect DEF Correct

LEMMA QuorumHasCorrect ==
  ASSUME NEW A \in SUBSET Node, Cardinality(A) >= F + 1
  PROVE  \E p \in Correct : p \in A
BY FaultyAssumption, OneIsCorrect DEF Correct

\* The message of a correct node behind Left, Supports and VotesFor.
LEMMA LeftMessage ==
  ASSUME NEW M, NEW k, NEW i \in Nat, NEW v, Left(M, k, i, v)
  PROVE  \E x \in M : x.epoch \in Nat /\ x.epoch < i /\ x.msg.type = "term"
                        /\ x.msg.value = v /\ x.msg.from = k
<1>1. PICK j \in 0..(i - 1) : About(j, Term(k, v)) \in M
  BY DEF Left
<1> QED
  BY <1>1 DEF About, Term

LEMMA EndedHasVoter ==
  ASSUME NEW M, NEW i, NEW v, Ended(M, i, v)
  PROVE  \E k \in Correct : VotesFor(M, k, i, v)
<1>1. PICK Q \in SUBSET Node :
        Cardinality(Q) >= N - F /\ \A k \in Q \cap Correct : VotesFor(M, k, i, v)
  BY DEF Ended
<1>2. \E k \in Correct : k \in Q
  BY <1>1, QuorumsMeet
<1> QED
  BY <1>1, <1>2

LEMMA BackedMessage ==
  ASSUME NEW M, NEW i \in Nat, NEW v, Backed(M, i, v)
  PROVE  \/ \E x \in M : x.epoch = i /\ x.msg.type = "viable" /\ x.msg.value = v
         \/ Bound(M, i, v)
BY DEF Backed, Supports, Bound, About, Viable

LEMMA EndedMessage ==
  ASSUME NEW M, NEW i \in Nat, NEW v, Ended(M, i, v)
  PROVE  \/ \E x \in M : x.epoch = i /\ x.msg.type = "agreement" /\ x.msg.value = v
         \/ Bound(M, i, v)
<1>1. PICK k \in Correct : VotesFor(M, k, i, v)
  BY EndedHasVoter
<1> QED
  BY <1>1 DEF VotesFor, Bound, About, Agreement

LEMMA BoundMessage ==
  ASSUME NEW M, NEW i \in Nat, NEW v, Bound(M, i, v)
  PROVE  \E x \in M : x.epoch \in Nat /\ x.epoch < i /\ x.msg.type = "term" /\ x.msg.value = v
BY LeftMessage DEF Bound

\* Two values cannot both end an epoch that nothing else has bound.
LEMMA EndsOnce ==
  ASSUME NEW M, OneVoteEach(M), NEW i \in Nat, NEW v, NEW w,
         Ended(M, i, v), Ended(M, i, w)
  PROVE  v = w \/ Bound(M, i, v) \/ Bound(M, i, w)
<1>1. PICK Q \in SUBSET Node :
        Cardinality(Q) >= N - F /\ \A k \in Q \cap Correct : VotesFor(M, k, i, v)
  BY DEF Ended
<1>2. PICK R \in SUBSET Node :
        Cardinality(R) >= N - F /\ \A k \in R \cap Correct : VotesFor(M, k, i, w)
  BY DEF Ended
<1>3. PICK k \in Correct : k \in Q /\ k \in R
  BY <1>1, <1>2, QuorumsMeet
<1>4. VotesFor(M, k, i, v) /\ VotesFor(M, k, i, w)
  BY <1>1, <1>2, <1>3
<1>5. CASE About(i, Agreement(k, v)) \in M /\ About(i, Agreement(k, w)) \in M
  BY <1>5 DEF OneVoteEach, About, Agreement
<1> QED
  BY <1>4, <1>5 DEF VotesFor, Bound

(***************************************************************************)
(* The first epoch in which a message goes against an earlier Term: each   *)
(* kind of message would need a message like it, or a Term, before.        *)
(***************************************************************************)
LEMMA JustifiedLock ==
  ASSUME NEW M, NEW P, SaidByCorrect(M), MessagesJustified(M, P), OneVoteEach(M)
  PROVE  TermsLock(M)
<1> DEFINE Against(j) ==
             \E t, m \in M : /\ t.msg.type = "term" /\ t.epoch < j
                             /\ m.epoch = j /\ m.msg.value # t.msg.value
           S == {j \in Nat : Against(j)}
<1>1. \A x \in M : /\ x.epoch \in Nat /\ x.msg.value \in BOOLEAN
                   /\ x.msg.type \in {"viable", "agreement", "term"}
  BY DEF SaidByCorrect, BAMessage, EpochMessage, TermMessage
<1>2. SUFFICES ASSUME S # {} PROVE FALSE
  <2> SUFFICES ASSUME NEW t \in M, NEW m \in M, t.msg.type = "term", m.epoch > t.epoch,
                      m.msg.value # t.msg.value
               PROVE  FALSE
    BY DEF TermsLock
  <2>1. m.epoch \in S
    BY <1>1
  <2> QED
    BY <2>1, <1>2
<1>3. PICK j \in S : \A k \in S : j <= k
  <2> HIDE DEF S
  <2>1. S \in SUBSET Nat
    BY DEF S
  <2> QED
    BY <2>1, <1>2, LeastExists
<1>4. PICK t \in M, m \in M : /\ t.msg.type = "term" /\ t.epoch < j
                              /\ m.epoch = j /\ m.msg.value # t.msg.value
  OBVIOUS
<1>5. \A x, y \in M : x.msg.type = "term" /\ x.epoch < y.epoch /\ y.epoch < j
                        => y.msg.value = x.msg.value
  BY <1>1, <1>3
<1> DEFINE i == t.epoch
           v == t.msg.value
           w == m.msg.value
<1>6. i \in Nat /\ j \in Nat /\ i < j /\ v \in BOOLEAN /\ w \in BOOLEAN /\ v # w
  BY <1>1, <1>4
<1>7. v = Coin(i) /\ Ended(M, i, v)
  BY <1>4 DEF MessagesJustified, Justified
<1> HIDE DEF Against, S
\* No Term of an earlier epoch is for w.
<1>8. \A x \in M : x.msg.type = "term" /\ x.epoch < j => x.msg.value = v
  <2> SUFFICES ASSUME NEW x \in M, x.msg.type = "term", x.epoch < j, x.msg.value # v
               PROVE  FALSE
    OBVIOUS
  <2>1. x.epoch \in Nat /\ x.msg.value = Coin(x.epoch)
    BY <1>1 DEF MessagesJustified, Justified
  <2>2. x.epoch # i
    BY <2>1, <1>7
  <2> QED
    BY <1>4, <1>5, <1>6, <2>1, <2>2
<1>9. \A k \in Nat : k <= j => ~Bound(M, k, w)
  <2> SUFFICES ASSUME NEW k \in Nat, k <= j, Bound(M, k, w) PROVE FALSE
    OBVIOUS
  <2>1. \E x \in M : x.epoch \in Nat /\ x.epoch < k /\ x.msg.type = "term" /\ x.msg.value = w
    BY BoundMessage
  <2> QED
    BY <2>1, <1>6, <1>8
\* No message between the two is for w.
<1>10. \A x \in M : i < x.epoch /\ x.epoch < j => x.msg.value # w
  BY <1>4, <1>5, <1>6
<1>11. ~Opened(M, P, j, w)
  <2> SUFFICES ASSUME Opened(M, P, j, w) PROVE FALSE
    OBVIOUS
  <2>1. j - 1 \in Nat /\ j - 1 >= i /\ j - 1 < j /\ j > 0
    BY <1>6
  <2>2. ~Bound(M, j - 1, w)
    BY <1>6, <1>9, <2>1
  <2>3. CASE w = Coin(j - 1) /\ Backed(M, j - 1, w)
    <3>1. j - 1 # i
      BY <2>3, <1>6, <1>7
    <3>2. \E x \in M : x.epoch = j - 1 /\ x.msg.type = "viable" /\ x.msg.value = w
      BY <2>1, <2>2, <2>3, BackedMessage
    <3> QED
      BY <3>1, <3>2, <2>1, <1>6, <1>10
  <2>4. CASE Ended(M, j - 1, w)
    <3>1. CASE j - 1 = i
      <4>1. ~Bound(M, i, v)
        <5> SUFFICES ASSUME Bound(M, i, v) PROVE FALSE
          OBVIOUS
        <5>1. Ended(M, i, w)
          BY <2>4, <3>1
        <5>2. PICK k \in Correct : VotesFor(M, k, i, w)
          BY <5>1, EndedHasVoter
        <5>3. \E x \in M : x.epoch = i /\ x.msg.type = "agreement" /\ x.msg.value = w
          BY <5>1, <1>6, <1>9, EndedMessage
        <5>4. \E x \in M : x.epoch \in Nat /\ x.epoch < i /\ x.msg.type = "term" /\ x.msg.value = v
          BY <1>6, BoundMessage
        <5> QED
          BY <5>3, <5>4, <1>5, <1>6
      <4>2. ~Bound(M, i, w)
        BY <1>6, <1>9
      <4> QED
        BY <4>1, <4>2, <2>4, <3>1, <1>6, <1>7, EndsOnce
    <3>2. CASE j - 1 # i
      <4>1. \E x \in M : x.epoch = j - 1 /\ x.msg.type = "agreement" /\ x.msg.value = w
        BY <2>1, <2>2, <2>4, EndedMessage
      <4> QED
        BY <4>1, <3>2, <2>1, <1>6, <1>10
    <3> QED
      BY <3>1, <3>2
  <2> QED
    BY <2>1, <2>3, <2>4 DEF Opened
<1>12. \A x \in M : x.epoch = j /\ x.msg.type = "viable" => x.msg.value # w
  BY <1>6, <1>9, <1>11 DEF MessagesJustified, Justified
<1>13. ~Backed(M, j, w)
  BY <1>6, <1>9, <1>12, BackedMessage
<1>14. \A x \in M : x.epoch = j /\ x.msg.type = "agreement" => x.msg.value # w
  BY <1>13 DEF MessagesJustified, Justified
<1>15. ~Ended(M, j, w)
  BY <1>6, <1>9, <1>14, EndedMessage
<1> QED
  BY <1>1, <1>4, <1>12, <1>14, <1>15 DEF MessagesJustified, Justified

\* Terms of the same epoch carry its coin, so all Terms agree.
LEMMA TermsAgree ==
  ASSUME NEW M, NEW P, SaidByCorrect(M), MessagesJustified(M, P), OneVoteEach(M),
         NEW s \in M, NEW t \in M, s.msg.type = "term", t.msg.type = "term"
  PROVE  s.msg.value = t.msg.value
<1>1. TermsLock(M)
  BY JustifiedLock
<1>2. s.epoch \in Nat /\ t.epoch \in Nat
  BY DEF SaidByCorrect, BAMessage
<1>3. s.epoch = t.epoch => s.msg.value = t.msg.value
  BY DEF MessagesJustified, Justified
<1> QED
  BY <1>1, <1>2, <1>3 DEF TermsLock

(***************************************************************************)
(* The first epoch with a message for a value nobody put in: each kind of  *)
(* message would need another before.                                      *)
(***************************************************************************)
LEMMA JustifiedValues ==
  ASSUME NEW M, NEW P, SaidByCorrect(M), MessagesJustified(M, P)
  PROVE  \A x \in M : x.msg.value \in P
<1> DEFINE S == {j \in Nat : \E x \in M : x.epoch = j /\ x.msg.value \notin P}
<1>1. \A x \in M : /\ x.epoch \in Nat
                   /\ x.msg.type \in {"viable", "agreement", "term"}
  BY DEF SaidByCorrect, BAMessage, EpochMessage, TermMessage
<1>2. SUFFICES ASSUME S # {} PROVE FALSE
  BY <1>1, <1>2
<1>3. PICK j \in S : \A k \in S : j <= k
  <2> HIDE DEF S
  <2>1. S \in SUBSET Nat
    BY DEF S
  <2> QED
    BY <2>1, <1>2, LeastExists
<1>4. PICK m \in M : m.epoch = j /\ m.msg.value \notin P
  OBVIOUS
<1> DEFINE w == m.msg.value
<1>5. \A x \in M : x.epoch < j => x.msg.value # w
  BY <1>1, <1>3, <1>4
<1>6. j \in Nat /\ w \notin P
  BY <1>4
<1> HIDE DEF S
<1>7. \A k \in Nat : k <= j => ~Bound(M, k, w)
  BY <1>5, <1>6, BoundMessage
<1>8. ~Opened(M, P, j, w)
  <2> SUFFICES ASSUME Opened(M, P, j, w), j > 0 PROVE FALSE
    BY <1>6 DEF Opened
  <2>1. j - 1 \in Nat /\ j - 1 < j /\ j - 1 <= j
    BY <1>6
  <2>2. ~Backed(M, j - 1, w)
    BY <2>1, <1>5, <1>7, BackedMessage
  <2>3. ~Ended(M, j - 1, w)
    BY <2>1, <1>5, <1>7, EndedMessage
  <2> QED
    BY <1>6, <2>2, <2>3 DEF Opened
<1>9. \A x \in M : x.epoch = j /\ x.msg.type = "viable" => x.msg.value # w
  BY <1>6, <1>7, <1>8 DEF MessagesJustified, Justified
<1>10. ~Backed(M, j, w)
  BY <1>6, <1>7, <1>9, BackedMessage
<1>11. \A x \in M : x.epoch = j /\ x.msg.type = "agreement" => x.msg.value # w
  BY <1>10 DEF MessagesJustified, Justified
<1>12. ~Ended(M, j, w)
  BY <1>6, <1>7, <1>11, EndedMessage
<1> QED
  BY <1>1, <1>4, <1>9, <1>11, <1>12 DEF MessagesJustified, Justified

-----------------------------------------------------------------------------
(***************************************************************************)
(* The record of an epoch.  The handlers keep it a record.                 *)
(***************************************************************************)
LEMMA HandleViableFacts ==
  ASSUME NEW b \in EpochState, NEW k \in Node, NEW v \in BOOLEAN,
         NEW c, c = HandleViable(b, k, v)
  PROVE  /\ c \in EpochState
         /\ c.rcvdV = [b.rcvdV EXCEPT ![v] = @ \cup {k}]
         /\ c.rcvdA = b.rcvdA /\ c.cand = b.cand
         /\ c.sentV \subseteq b.sentV \cup {v}
         /\ v \in c.sentV \ b.sentV => Cardinality(c.rcvdV[v]) >= F + 1
         /\ b.sentA \subseteq c.sentA
         /\ b.sentA = {} => c.sentA \subseteq {v}
         /\ b.sentA # {} => c.sentA = b.sentA
         /\ v \in c.sentA \ b.sentA => Cardinality(c.rcvdV[v]) >= 2 * F + 1
         /\ b.believe \subseteq c.believe
         /\ c.believe \subseteq b.believe \cup {v}
         /\ v \in c.believe \ b.believe => Cardinality(c.rcvdV[v]) >= 2 * F + 1
<1> DEFINE heard == b.rcvdV[v] \cup {k}
           rv == [b.rcvdV EXCEPT ![v] = heard]
           sv == IF Cardinality(heard) >= F + 1 THEN b.sentV \cup {v} ELSE b.sentV
           bl == IF Cardinality(heard) >= 2 * F + 1 THEN b.believe \cup {v} ELSE b.believe
           sa == IF Cardinality(heard) >= 2 * F + 1 /\ b.sentA = {} THEN {v} ELSE b.sentA
<1>1. rv \in [BOOLEAN -> SUBSET Node] /\ rv[v] = heard
  BY DEF EpochState
<1>2. sv \in SUBSET BOOLEAN /\ bl \in SUBSET BOOLEAN /\ sa \in SUBSET BOOLEAN
  BY DEF EpochState
<1>3. c = [b EXCEPT !.rcvdV = rv, !.sentV = sv, !.believe = bl, !.sentA = sa]
  BY DEF HandleViable
<1>4. /\ c \in EpochState
      /\ c.rcvdV = rv /\ c.sentV = sv /\ c.believe = bl /\ c.sentA = sa
      /\ c.rcvdA = b.rcvdA /\ c.cand = b.cand
  <2> HIDE DEF rv, sv, bl, sa
  <2> QED
    BY <1>1, <1>2, <1>3 DEF EpochState
<1> QED
  BY <1>1, <1>4

LEMMA HandleAgreementFacts ==
  ASSUME NEW b \in EpochState, NEW k \in Node, NEW v \in BOOLEAN,
         NEW c, c = HandleAgreement(b, k, v)
  PROVE  /\ c \in EpochState
         /\ \A w \in BOOLEAN : b.rcvdA[w] \subseteq c.rcvdA[w]
         /\ \A w \in BOOLEAN : c.rcvdA[w] \subseteq b.rcvdA[w] \cup {k}
         /\ \A w \in BOOLEAN : w # v => c.rcvdA[w] = b.rcvdA[w]
         /\ c.rcvdV = b.rcvdV /\ c.cand = b.cand /\ c.sentV = b.sentV
         /\ c.sentA = b.sentA /\ c.believe = b.believe
BY DEF HandleAgreement, EpochState

LEMMA SettleFacts ==
  ASSUME NEW b \in EpochState, NEW c, c = Settle(b)
  PROVE  /\ c \in EpochState
         /\ c.rcvdV = b.rcvdV /\ c.rcvdA = b.rcvdA
         /\ c.sentV = b.sentV /\ c.sentA = b.sentA /\ c.believe = b.believe
         /\ c.cand = b.cand \cup {v \in b.believe : b.rcvdA[v] # {}}
         /\ c.termed => Cardinality(Counted(c)) >= N - F
<1> DEFINE k == b.cand \cup {v \in b.believe : b.rcvdA[v] # {}}
           t == Cardinality(Counted(b)) >= N - F
<1>1. t \in BOOLEAN
  OBVIOUS
<1>2. k \in SUBSET BOOLEAN
  BY DEF EpochState
<1>3. c = [b EXCEPT !.cand = k, !.termed = t]
  BY Zenon DEF Settle
<1>4. /\ c \in EpochState
      /\ c.rcvdV = b.rcvdV /\ c.rcvdA = b.rcvdA
      /\ c.sentV = b.sentV /\ c.sentA = b.sentA /\ c.believe = b.believe
      /\ c.cand = k
  <2> HIDE DEF k, t
  <2> QED
    BY <1>1, <1>2, <1>3 DEF EpochState
<1>5. c.termed = t
  <2> HIDE DEF k, t
  <2> QED
    BY <1>3, Zenon DEF EpochState
<1>6. Counted(c) = Counted(b)
  BY <1>4 DEF Counted
<1>7. c.termed => Cardinality(Counted(c)) >= N - F
  BY <1>5, <1>6, Zenon
<1> QED
  BY <1>4, <1>7

(***************************************************************************)
(* One call of BAEpoch.Recv.                                               *)
(***************************************************************************)
LEMMA RecvFacts ==
  ASSUME NEW b \in EpochState, NEW m \in EpochMessage,
         Counting(b), \A v, w \in b.sentA : v = w,
         NEW c, c = EpochRecv(b, m)
  PROVE  /\ c \in EpochState
         /\ \A v \in BOOLEAN : \A k \in c.rcvdV[v] : k \in b.rcvdV[v] \/ m = Viable(k, v)
         /\ \A v \in BOOLEAN : \A k \in c.rcvdA[v] : k \in b.rcvdA[v] \/ m = Agreement(k, v)
         /\ \A v \in c.sentV : v \in b.sentV \/ Cardinality(c.rcvdV[v]) >= F + 1
         /\ \A v \in c.sentA : v \in b.sentA \/ Cardinality(c.rcvdV[v]) >= 2 * F + 1
         /\ b.sentA \subseteq c.sentA
         /\ \A v, w \in c.sentA : v = w
         /\ Counting(c)
<1>1. m.from \in Node /\ m.value \in BOOLEAN /\ m.type \in {"viable", "agreement"}
      /\ m = [type |-> m.type, from |-> m.from, value |-> m.value]
  BY DEF EpochMessage
<1>2. CASE b.termed
  BY <1>2 DEF EpochRecv
<1>3. CASE ~b.termed /\ m.type = "viable"
  <2> DEFINE d == HandleViable(b, m.from, m.value)
  <2>1. c = Settle(d)
    BY <1>3 DEF EpochRecv
  <2>2. /\ d \in EpochState
        /\ d.rcvdV = [b.rcvdV EXCEPT ![m.value] = @ \cup {m.from}]
        /\ d.rcvdA = b.rcvdA /\ d.cand = b.cand
        /\ d.sentV \subseteq b.sentV \cup {m.value}
        /\ m.value \in d.sentV \ b.sentV => Cardinality(d.rcvdV[m.value]) >= F + 1
        /\ b.sentA \subseteq d.sentA
        /\ b.sentA = {} => d.sentA \subseteq {m.value}
        /\ b.sentA # {} => d.sentA = b.sentA
        /\ m.value \in d.sentA \ b.sentA => Cardinality(d.rcvdV[m.value]) >= 2 * F + 1
        /\ b.believe \subseteq d.believe
        /\ d.believe \subseteq b.believe \cup {m.value}
        /\ m.value \in d.believe \ b.believe => Cardinality(d.rcvdV[m.value]) >= 2 * F + 1
    BY <1>1, HandleViableFacts
  <2> HIDE DEF d
  <2>3. /\ c.rcvdV = d.rcvdV /\ c.rcvdA = d.rcvdA
        /\ c.sentV = d.sentV /\ c.sentA = d.sentA /\ c.believe = d.believe
        /\ c.cand = d.cand \cup {v \in d.believe : d.rcvdA[v] # {}}
        /\ c.termed => Cardinality(Counted(c)) >= N - F
        /\ c \in EpochState
    BY <2>1, <2>2, SettleFacts
  <2>4. \A v \in BOOLEAN : b.rcvdV[v] \subseteq c.rcvdV[v]
    BY <2>2, <2>3, <1>1 DEF EpochState
  <2>5. \A v \in c.believe : Cardinality(c.rcvdV[v]) >= 2 * F + 1
    <3> SUFFICES ASSUME NEW v \in c.believe, v \in b.believe
                 PROVE  Cardinality(c.rcvdV[v]) >= 2 * F + 1
      BY <2>2, <2>3
    <3>1. v \in BOOLEAN /\ Cardinality(b.rcvdV[v]) >= 2 * F + 1
      BY DEF Counting, EpochState
    <3>2. b.rcvdV[v] \in SUBSET c.rcvdV[v] /\ c.rcvdV[v] \in SUBSET Node
      BY <3>1, <2>3, <2>4 DEF EpochState
    <3>3. Cardinality(b.rcvdV[v]) <= Cardinality(c.rcvdV[v])
      BY <3>2, SubsetCardinality
    <3>4. Cardinality(b.rcvdV[v]) \in Nat /\ Cardinality(c.rcvdV[v]) \in Nat
      BY <3>2, SubsetFinite
    <3> QED
      BY <3>1, <3>3, <3>4, FaultAssumption
  <2>6. c.cand = {v \in c.believe : c.rcvdA[v] # {}}
    BY <2>2, <2>3 DEF Counting
  <2>7. \A v \in BOOLEAN : \A k \in c.rcvdV[v] : k \in b.rcvdV[v] \/ m = Viable(k, v)
    BY <1>1, <1>3, <2>2, <2>3 DEF Viable, EpochState
  <2>8. \A v, w \in c.sentA : v = w
    BY <2>2, <2>3
  <2>9. Counting(c)
    BY <2>3, <2>5, <2>6 DEF Counting
  <2> QED
    BY <2>2, <2>3, <2>7, <2>8, <2>9
<1>4. CASE ~b.termed /\ m.type = "agreement"
  <2> DEFINE d == HandleAgreement(b, m.from, m.value)
  <2>1. c = Settle(d)
    BY <1>4 DEF EpochRecv
  <2>2. /\ d \in EpochState
        /\ \A w \in BOOLEAN : b.rcvdA[w] \subseteq d.rcvdA[w]
        /\ \A w \in BOOLEAN : d.rcvdA[w] \subseteq b.rcvdA[w] \cup {m.from}
        /\ \A w \in BOOLEAN : w # m.value => d.rcvdA[w] = b.rcvdA[w]
        /\ d.rcvdV = b.rcvdV /\ d.cand = b.cand /\ d.sentV = b.sentV
        /\ d.sentA = b.sentA /\ d.believe = b.believe
    BY <1>1, HandleAgreementFacts
  <2> HIDE DEF d
  <2>3. /\ c.rcvdV = d.rcvdV /\ c.rcvdA = d.rcvdA
        /\ c.sentV = d.sentV /\ c.sentA = d.sentA /\ c.believe = d.believe
        /\ c.cand = d.cand \cup {v \in d.believe : d.rcvdA[v] # {}}
        /\ c.termed => Cardinality(Counted(c)) >= N - F
        /\ c \in EpochState
    BY <2>1, <2>2, SettleFacts
  <2>4. \A v \in BOOLEAN : \A k \in c.rcvdA[v] : k \in b.rcvdA[v] \/ m = Agreement(k, v)
    BY <1>1, <1>4, <2>2, <2>3 DEF Agreement
  <2>5. c.cand = {v \in c.believe : c.rcvdA[v] # {}}
    <3>1. b.cand = {v \in b.believe : b.rcvdA[v] # {}} /\ b.believe \subseteq BOOLEAN
      BY DEF Counting, EpochState
    <3>2. \A v \in b.cand : v \in c.believe /\ c.rcvdA[v] # {}
      BY <3>1, <2>2, <2>3
    <3> QED
      BY <3>2, <2>2, <2>3
  <2>6. Counting(c)
    BY <2>2, <2>3, <2>5 DEF Counting
  <2> QED
    BY <2>2, <2>3, <2>4, <2>6
<1> QED
  BY <1>1, <1>2, <1>3, <1>4

(***************************************************************************)
(* More messages and inputs take nothing back.                             *)
(***************************************************************************)
LEMMA MessagesMonotone ==
  ASSUME NEW M, NEW M2, M \subseteq M2, NEW P, NEW P2, P \subseteq P2, NEW i, NEW v
  PROVE  /\ \A k : Left(M, k, i, v) => Left(M2, k, i, v)
         /\ \A k : Supports(M, k, i, v) => Supports(M2, k, i, v)
         /\ \A k : VotesFor(M, k, i, v) => VotesFor(M2, k, i, v)
         /\ Backed(M, i, v) => Backed(M2, i, v)
         /\ Bound(M, i, v) => Bound(M2, i, v)
         /\ Ended(M, i, v) => Ended(M2, i, v)
<1>1. \A k, j, w : Left(M, k, j, w) => Left(M2, k, j, w)
  BY DEF Left
<1>2. \A k, j, w : Supports(M, k, j, w) => Supports(M2, k, j, w)
  BY <1>1 DEF Supports
<1>3. \A k, j, w : VotesFor(M, k, j, w) => VotesFor(M2, k, j, w)
  BY <1>1 DEF VotesFor
<1>4. Ended(M, i, v) => Ended(M2, i, v)
  BY <1>3 DEF Ended
<1> QED
  BY <1>1, <1>2, <1>3, <1>4 DEF Backed, Bound

LEMMA OpenedMonotone ==
  ASSUME NEW M, NEW M2, M \subseteq M2, NEW P, NEW P2, P \subseteq P2, NEW i, NEW v,
         Opened(M, P, i, v)
  PROVE  Opened(M2, P2, i, v)
<1>1. Backed(M, i - 1, v) => Backed(M2, i - 1, v)
  BY MessagesMonotone
<1>2. Ended(M, i - 1, v) => Ended(M2, i - 1, v)
  BY MessagesMonotone
<1> QED
  BY <1>1, <1>2 DEF Opened

LEMMA JustifiedMonotone ==
  ASSUME NEW M, NEW M2, M \subseteq M2, NEW P, NEW P2, P \subseteq P2, NEW i, NEW m,
         Justified(M, P, i, m)
  PROVE  Justified(M2, P2, i, m)
BY MessagesMonotone, OpenedMonotone DEF Justified

LEMMA EpochGoodMonotone ==
  ASSUME NEW M, NEW M2, M \subseteq M2, NEW P, NEW P2, P \subseteq P2, NEW i, NEW b,
         EpochGood(M, P, i, b)
  PROVE  EpochGood(M2, P2, i, b)
<1>1. Heard(M2, i, b)
  BY MessagesMonotone DEF EpochGood, Heard
<1>2. Spoken(M2, P2, i, b)
  BY MessagesMonotone, OpenedMonotone DEF EpochGood, Spoken
<1> QED
  BY <1>1, <1>2 DEF EpochGood

(***************************************************************************)
(* The record of an epoch stays good: when it is made, when a message is   *)
(* handled, when a Term is applied, when it starts.                        *)
(***************************************************************************)
LEMMA NewIsGood ==
  ASSUME NEW M, NEW P, NEW i
  PROVE  EpochGood(M, P, i, NewBAEpoch)
<1>1. NewBAEpoch \in EpochState
  BY DEF NewBAEpoch, EpochState
<1>2. Counting(NewBAEpoch)
  BY DEF NewBAEpoch, Counting
<1> QED
  BY <1>1, <1>2 DEF NewBAEpoch, EpochGood, Heard, Spoken

LEMMA RecvKeeps ==
  ASSUME NEW M, NEW P, MessagesJustified(M, P), NEW i \in Nat,
         NEW b, EpochGood(M, P, i, b), NEW m \in EpochMessage,
         m.from \in Correct /\ m.type = "viable" => Supports(M, m.from, i, m.value),
         m.from \in Correct /\ m.type = "agreement" => VotesFor(M, m.from, i, m.value),
         NEW c, c = EpochRecv(b, m)
  PROVE  /\ EpochGood(M, P, i, c)
         /\ b.sentA \subseteq c.sentA
         /\ \A v \in BOOLEAN : \A k \in c.rcvdV[v] : k \in b.rcvdV[v] \/ m = Viable(k, v)
<1>1. b \in EpochState /\ Counting(b) /\ \A v, w \in b.sentA : v = w
  BY DEF EpochGood, Spoken
<1>2. /\ c \in EpochState
      /\ \A v \in BOOLEAN : \A k \in c.rcvdV[v] : k \in b.rcvdV[v] \/ m = Viable(k, v)
      /\ \A v \in BOOLEAN : \A k \in c.rcvdA[v] : k \in b.rcvdA[v] \/ m = Agreement(k, v)
      /\ \A v \in c.sentV : v \in b.sentV \/ Cardinality(c.rcvdV[v]) >= F + 1
      /\ \A v \in c.sentA : v \in b.sentA \/ Cardinality(c.rcvdV[v]) >= 2 * F + 1
      /\ b.sentA \subseteq c.sentA
      /\ \A v, w \in c.sentA : v = w
      /\ Counting(c)
  BY <1>1, RecvFacts
<1>3. Heard(M, i, c)
  <2>1. \A k \in Correct : \A v \in BOOLEAN : m = Viable(k, v) => Supports(M, k, i, v)
    BY DEF Viable
  <2>2. \A k \in Correct : \A v \in BOOLEAN : m = Agreement(k, v) => VotesFor(M, k, i, v)
    BY DEF Agreement
  <2> QED
    BY <1>2, <2>1, <2>2 DEF EpochGood, Heard
<1>4. \A v \in BOOLEAN : Cardinality(c.rcvdV[v]) >= F + 1 => Backed(M, i, v)
  <2> SUFFICES ASSUME NEW v \in BOOLEAN, Cardinality(c.rcvdV[v]) >= F + 1
               PROVE  Backed(M, i, v)
    OBVIOUS
  <2>1. c.rcvdV[v] \in SUBSET Node
    BY <1>2 DEF EpochState
  <2>2. \E k \in Correct : k \in c.rcvdV[v]
    BY <2>1, QuorumHasCorrect
  <2> QED
    BY <2>2, <1>3 DEF Heard, Backed
<1>5. \A v : Backed(M, i, v) => Opened(M, P, i, v) \/ Bound(M, i, v)
  BY BackedMessage DEF MessagesJustified, Justified
<1>6. \A v \in BOOLEAN : Cardinality(c.rcvdV[v]) >= 2 * F + 1 => Cardinality(c.rcvdV[v]) >= F + 1
  <2> SUFFICES ASSUME NEW v \in BOOLEAN
               PROVE  Cardinality(c.rcvdV[v]) \in Nat
    BY FaultAssumption
  <2> QED
    BY <1>2, SubsetFinite DEF EpochState
<1>7. c.sentV \subseteq BOOLEAN /\ c.sentA \subseteq BOOLEAN
  BY <1>2 DEF EpochState
<1>8. \A v \in c.sentV : Opened(M, P, i, v) \/ Bound(M, i, v)
  BY <1>2, <1>4, <1>5, <1>7 DEF EpochGood, Spoken
<1>9. \A v \in c.sentA : Backed(M, i, v)
  BY <1>2, <1>4, <1>6, <1>7 DEF EpochGood, Spoken
<1> QED
  BY <1>2, <1>3, <1>8, <1>9 DEF EpochGood, Spoken

LEMMA InsertKeeps ==
  ASSUME NEW M, NEW P, MessagesJustified(M, P), NEW i \in Nat,
         NEW b, EpochGood(M, P, i, b), NEW k \in Node, NEW v \in BOOLEAN,
         k \in Correct => Left(M, k, i, v),
         NEW c, c = InsertTerm(b, k, v)
  PROVE  /\ EpochGood(M, P, i, c)
         /\ b.sentA \subseteq c.sentA
         /\ \A w \in BOOLEAN : \A l \in c.rcvdV[w] :
              l \in b.rcvdV[w] \/ (l = k /\ w = v)
<1> DEFINE d == EpochRecv(b, Viable(k, v))
<1>1. Viable(k, v) \in EpochMessage /\ Agreement(k, v) \in EpochMessage
  BY DEF Viable, Agreement, EpochMessage
<1>2. /\ Viable(k, v).from = k /\ Viable(k, v).value = v /\ Viable(k, v).type = "viable"
      /\ Agreement(k, v).from = k /\ Agreement(k, v).value = v
      /\ Agreement(k, v).type = "agreement"
  BY DEF Viable, Agreement
<1>3. k \in Correct => Supports(M, k, i, v) /\ VotesFor(M, k, i, v)
  BY DEF Supports, VotesFor
<1>4. /\ EpochGood(M, P, i, d) /\ b.sentA \subseteq d.sentA
      /\ \A w \in BOOLEAN : \A l \in d.rcvdV[w] :
           l \in b.rcvdV[w] \/ Viable(k, v) = Viable(l, w)
  BY <1>1, <1>2, <1>3, RecvKeeps
<1>5. c = EpochRecv(d, Agreement(k, v))
  BY DEF InsertTerm
<1> HIDE DEF d
<1>6. /\ EpochGood(M, P, i, c) /\ d.sentA \subseteq c.sentA
      /\ \A w \in BOOLEAN : \A l \in c.rcvdV[w] :
           l \in d.rcvdV[w] \/ Agreement(k, v) = Viable(l, w)
  BY <1>1, <1>2, <1>3, <1>4, <1>5, RecvKeeps
<1>7. \A w, l : Agreement(k, v) # Viable(l, w)
  BY DEF Agreement, Viable
<1>8. \A w, l : Viable(k, v) = Viable(l, w) => l = k /\ w = v
  BY DEF Viable
<1> QED
  BY <1>4, <1>6, <1>7, <1>8

LEMMA EstimationKeeps ==
  ASSUME NEW M, NEW P, NEW i, NEW b, EpochGood(M, P, i, b), NEW est \in BOOLEAN,
         NEW c, c = SetEstimation(b, est)
  PROVE  EpochGood(M, P, i, c) /\ c.sentA = b.sentA /\ c.e = est
         /\ c.termed = b.termed /\ c.cand = b.cand
<1>1. /\ c \in EpochState /\ c.e = est
      /\ c.rcvdV = b.rcvdV /\ c.rcvdA = b.rcvdA /\ c.believe = b.believe
      /\ c.cand = b.cand /\ c.termed = b.termed
      /\ c.sentA = b.sentA /\ c.sentV = b.sentV
  BY DEF SetEstimation, EpochState, EpochGood
<1>2. Counted(c) = Counted(b)
  BY <1>1 DEF Counted
<1> QED
  BY <1>1, <1>2 DEF EpochGood, Heard, Spoken, Counting

LEMMA StartKeeps ==
  ASSUME NEW M, NEW P, NEW i, NEW b, EpochGood(M, P, i, b),
         Opened(M, P, i, b.e),
         NEW c, c = EpochInit(b)
  PROVE  EpochGood(M, P, i, c) /\ c.sentA = b.sentA /\ c.termed = b.termed
<1>1. /\ c \in EpochState
      /\ c.rcvdV = b.rcvdV /\ c.rcvdA = b.rcvdA /\ c.believe = b.believe
      /\ c.cand = b.cand /\ c.termed = b.termed
      /\ c.sentA = b.sentA /\ c.sentV \subseteq b.sentV \cup {b.e}
  BY DEF EpochInit, EpochState, EpochGood
<1>2. Counted(c) = Counted(b)
  BY <1>1 DEF Counted
<1> QED
  BY <1>1, <1>2 DEF EpochGood, Heard, Spoken, Counting

(***************************************************************************)
(* What the end of an epoch says: the value that is no candidate lost, and *)
(* the next estimation is open.                                            *)
(***************************************************************************)
LEMMA LoserEnds ==
  ASSUME NEW M, NEW P, NEW i, NEW b, EpochGood(M, P, i, b), b.termed,
         NEW v \in BOOLEAN, NEW w \in BOOLEAN, v # w, w \notin b.cand
  PROVE  Ended(M, i, v)
<1>1. b \in EpochState /\ Heard(M, i, b) /\ Counting(b)
  BY DEF EpochGood
<1>2. Counted(b) \subseteq b.rcvdA[v]
  <2> SUFFICES ASSUME NEW k, NEW u \in b.believe, k \in b.rcvdA[u] PROVE u = v
    BY DEF Counted
  <2>1. u \in BOOLEAN /\ u \in b.cand
    BY <1>1 DEF Counting, EpochState
  <2> QED
    BY <2>1
<1>3. b.rcvdA[v] \in SUBSET Node
  BY <1>1 DEF EpochState
<1>4. Cardinality(Counted(b)) <= Cardinality(b.rcvdA[v])
  BY <1>2, <1>3, SubsetCardinality
<1>5. Cardinality(Counted(b)) >= N - F
  BY <1>1 DEF Counting
<1>6. Cardinality(Counted(b)) \in Nat /\ Cardinality(b.rcvdA[v]) \in Nat
  BY <1>2, <1>3, SubsetFinite
<1>7. Cardinality(b.rcvdA[v]) >= N - F
  BY <1>4, <1>5, <1>6, NIsNat, FaultAssumption
<1>8. \A k \in b.rcvdA[v] \cap Correct : VotesFor(M, k, i, v)
  BY <1>1 DEF Heard
<1> QED
  BY <1>3, <1>7, <1>8 DEF Ended

LEMMA CandidateBacked ==
  ASSUME NEW M, NEW P, NEW i, NEW b, EpochGood(M, P, i, b), NEW v \in b.cand
  PROVE  v \in BOOLEAN /\ \E k \in Correct : k \in b.rcvdV[v] /\ Supports(M, k, i, v)
<1>1. v \in BOOLEAN /\ v \in b.believe
  BY DEF EpochGood, EpochState, Counting
<1>2. b.rcvdV[v] \in SUBSET Node /\ Cardinality(b.rcvdV[v]) >= 2 * F + 1
  BY <1>1 DEF EpochGood, EpochState, Counting
<1>3. Cardinality(b.rcvdV[v]) >= F + 1
  BY <1>2, SubsetFinite, FaultAssumption
<1>4. \E k \in Correct : k \in b.rcvdV[v]
  BY <1>2, <1>3, QuorumHasCorrect
<1> QED
  BY <1>1, <1>4 DEF EpochGood, Heard

LEMMA EstimateOpens ==
  ASSUME NEW M, NEW P, NEW i \in Nat, NEW b, EpochGood(M, P, i, b), b.termed
  PROVE  Estimate(b, i) \in BOOLEAN /\ Opened(M, P, i + 1, Estimate(b, i))
<1>1. Coin(i) \in BOOLEAN /\ (~Coin(i)) \in BOOLEAN /\ i + 1 > 0 /\ (i + 1) - 1 = i
  BY CoinType
<1>2. CASE Coin(i) \in b.cand
  <2>1. Backed(M, i, Coin(i))
    BY <1>2, CandidateBacked DEF Backed
  <2>2. Estimate(b, i) = Coin(i)
    BY <1>2, Zenon DEF Estimate
  <2> QED
    BY <1>1, <2>1, <2>2 DEF Opened
<1>3. CASE Coin(i) \notin b.cand
  <2> DEFINE w == ~Coin(i)
  <2>1. w # Coin(i) /\ w \in BOOLEAN
    BY <1>1
  <2>2. Estimate(b, i) = w
    BY <1>3, Zenon DEF Estimate
  <2> HIDE DEF w
  <2>3. Ended(M, i, w)
    BY <1>1, <1>3, <2>1, LoserEnds
  <2> QED
    BY <1>1, <2>1, <2>2, <2>3 DEF Opened
<1> QED
  BY <1>2, <1>3

LEMMA DecisionEnds ==
  ASSUME NEW M, NEW P, NEW i \in Nat, NEW b, EpochGood(M, P, i, b), Decides(b, i)
  PROVE  Ended(M, i, Coin(i))
<1> DEFINE w == ~Coin(i)
<1>1. Coin(i) \in BOOLEAN /\ w \in BOOLEAN /\ w # Coin(i)
  BY CoinType
<1>2. b.termed /\ b.cand = {Coin(i)}
  BY DEF Decides
<1> HIDE DEF w
<1> QED
  BY <1>1, <1>2, LoserEnds

(***************************************************************************)
(* An epoch that allocateEpochs makes.  NewEpoch applies the Terms one     *)
(* after the other, so what they all keep holds in the end.                *)
(***************************************************************************)
TermsBacked(M, term) ==
  \A k \in Correct :
    term[k] # NoTerm => About(term[k].epoch, Term(k, term[k].value)) \in M

WithTerm(term, i, k, b) ==
  IF term[NodeAt[k]].epoch # -1 /\ term[NodeAt[k]].epoch < i
  THEN InsertTerm(b, NodeAt[k], term[NodeAt[k]].value)
  ELSE b

Applies(term, i, m, f) ==
  f = [k \in 0..m |-> IF k = 0 THEN NewBAEpoch ELSE WithTerm(term, i, k, f[k - 1])]

LEMMA AppliesExists ==
  ASSUME NEW term, NEW i, NEW m \in Nat
  PROVE  \E f : Applies(term, i, m, f)
<1> DEFINE S == {l \in Nat : ~\E f : Applies(term, i, l, f)}
<1>1. SUFFICES ASSUME S # {} PROVE FALSE
  OBVIOUS
<1>2. PICK l \in S : \A k \in S : l <= k
  <2> HIDE DEF S
  <2>1. S \in SUBSET Nat
    BY DEF S
  <2> QED
    BY <2>1, <1>1, LeastExists
<1>3. l # 0
  <2> DEFINE f == [k \in 0..0 |-> NewBAEpoch]
  <2>1. Applies(term, i, 0, f)
    BY DEF Applies
  <2> QED
    BY <2>1
<1>4. l - 1 \in Nat /\ l - 1 \notin S
  BY <1>2, <1>3
<1>5. PICK f : Applies(term, i, l - 1, f)
  BY <1>4
<1> DEFINE g == [k \in 0..l |-> IF k = l THEN WithTerm(term, i, l, f[l - 1]) ELSE f[k]]
<1>6. Applies(term, i, l, g)
  <2>1. \A k \in 0..(l - 1) : g[k] = f[k]
    BY <1>4
  <2>2. \A k \in 0..(l - 1) :
          f[k] = IF k = 0 THEN NewBAEpoch ELSE WithTerm(term, i, k, f[k - 1])
    BY <1>5 DEF Applies
  <2>3. \A k \in 1..l : g[k - 1] = f[k - 1]
    BY <1>4, <2>1
  <2>4. \A k \in 0..l : g[k] = IF k = 0 THEN NewBAEpoch ELSE WithTerm(term, i, k, g[k - 1])
    <3> SUFFICES ASSUME NEW k \in 0..l
                 PROVE g[k] = IF k = 0 THEN NewBAEpoch ELSE WithTerm(term, i, k, g[k - 1])
      OBVIOUS
    <3>1. CASE k = l
      BY <3>1, <1>3, <1>4, <2>3
    <3>2. CASE k # l
      <4>1. k \in 0..(l - 1)
        BY <3>2, <1>4
      <4>2. CASE k = 0
        BY <4>1, <4>2, <2>1, <2>2
      <4>3. CASE k # 0
        <5>1. k \in 1..l /\ g[k - 1] = f[k - 1]
          BY <4>1, <4>3, <2>3
        <5> QED
          BY <4>1, <4>3, <5>1, <2>1, <2>2
      <4> QED
        BY <4>2, <4>3
    <3> QED
      BY <3>1, <3>2
  <2>5. g = [k \in 0..l |-> g[k]]
    OBVIOUS
  <2> HIDE DEF g
  <2> QED
    BY <2>4, <2>5 DEF Applies
<1> QED
  BY <1>2, <1>6

LEMMA NewEpochApplies ==
  ASSUME NEW term, NEW i
  PROVE  \E f : Applies(term, i, N, f) /\ NewEpoch(term, i) = f[N]
<1> DEFINE f == CHOOSE g : Applies(term, i, N, g)
<1>1. Applies(term, i, N, f)
  BY NIsNat, AppliesExists
<1>2. NewEpoch(term, i) = f[N]
  BY DEF NewEpoch, Applies, WithTerm
<1> QED
  BY <1>1, <1>2

LEMMA NewEpochGood ==
  ASSUME NEW M, NEW P, MessagesJustified(M, P), NEW i \in Nat,
         NEW term \in [Node -> TermStatus], TermsBacked(M, term)
  PROVE  /\ EpochGood(M, P, i, NewEpoch(term, i))
         /\ \A v \in BOOLEAN : \A k \in NewEpoch(term, i).rcvdV[v] :
              k \in Correct => Left(M, k, i, v)
<1> DEFINE Good(b) == /\ EpochGood(M, P, i, b)
                      /\ \A v \in BOOLEAN : \A k \in b.rcvdV[v] :
                           k \in Correct => Left(M, k, i, v)
<1>1. Good(NewBAEpoch)
  BY NewIsGood DEF NewBAEpoch
<1>2. ASSUME NEW k \in 1..N, NEW b, Good(b)
      PROVE  Good(WithTerm(term, i, k, b))
  <2> DEFINE n == NodeAt[k]
             t == term[NodeAt[k]]
  <2>1. n \in Node /\ t \in TermStatus
    BY NodeAtAssumption
  <2>2. CASE t.epoch # -1 /\ t.epoch < i
    <3>1. t.epoch \in 0..(i - 1) /\ t # NoTerm /\ t.value \in BOOLEAN
      BY <2>1, <2>2 DEF TermStatus, NoTerm
    <3>2. n \in Correct => Left(M, n, i, t.value)
      BY <3>1 DEF TermsBacked, Left
    <3> DEFINE c == InsertTerm(b, n, t.value)
    <3>3. WithTerm(term, i, k, b) = c
      BY <2>2 DEF WithTerm
    <3>4. /\ EpochGood(M, P, i, c)
          /\ \A w \in BOOLEAN : \A l \in c.rcvdV[w] :
               l \in b.rcvdV[w] \/ (l = n /\ w = t.value)
      <4> HIDE DEF n, t
      <4> QED
        BY <1>2, <2>1, <3>1, <3>2, InsertKeeps
    <3> HIDE DEF c, n, t
    <3> QED
      BY <1>2, <3>2, <3>3, <3>4
  <2>3. CASE ~(t.epoch # -1 /\ t.epoch < i)
    <3>1. WithTerm(term, i, k, b) = b
      BY <2>3 DEF WithTerm
    <3> HIDE DEF Good
    <3> QED
      BY <1>2, <3>1
  <2> QED
    BY <2>2, <2>3
<1>3. PICK f : Applies(term, i, N, f) /\ NewEpoch(term, i) = f[N]
  BY NewEpochApplies
<1>4. \A k \in 0..N :
        f[k] = IF k = 0 THEN NewBAEpoch ELSE WithTerm(term, i, k, f[k - 1])
  BY <1>3 DEF Applies
<1> HIDE DEF Good
<1>5. Good(f[N])
  <2> DEFINE S == {l \in 0..N : ~Good(f[l])}
  <2>1. SUFFICES ASSUME S # {} PROVE FALSE
    BY NIsNat
  <2>2. PICK l \in S : \A k \in S : l <= k
    <3>1. S \in SUBSET Nat
      BY NIsNat
    <3> HIDE DEF S
    <3> QED
      BY <3>1, <2>1, LeastExists
  <2>3. l # 0
    BY <1>1, <1>4, NIsNat
  <2>4. l - 1 \in 0..N /\ l - 1 \notin S /\ l \in 1..N
    BY <2>2, <2>3, NIsNat
  <2>5. Good(f[l - 1])
    BY <2>4
  <2>6. f[l] = WithTerm(term, i, l, f[l - 1])
    BY <1>4, <2>3, <2>4
  <2> QED
    BY <1>2, <2>2, <2>4, <2>5, <2>6
<1> QED
  BY <1>3, <1>5 DEF Good

\* Once it is after all the Terms, which epoch it is makes no difference.
LEMMA NewEpochSame ==
  ASSUME NEW term \in [Node -> TermStatus], NEW i \in Nat, NEW j \in Nat,
         \A k \in Node : term[k].epoch < i /\ term[k].epoch < j
  PROVE  NewEpoch(term, i) = NewEpoch(term, j)
<1>1. PICK f : Applies(term, i, N, f) /\ NewEpoch(term, i) = f[N]
  BY NewEpochApplies
<1>2. PICK g : Applies(term, j, N, g) /\ NewEpoch(term, j) = g[N]
  BY NewEpochApplies
<1>3. \A k \in 1..N : \A b : WithTerm(term, i, k, b) = WithTerm(term, j, k, b)
  BY NodeAtAssumption DEF WithTerm
<1>4. \A k \in 0..N :
        f[k] = IF k = 0 THEN NewBAEpoch ELSE WithTerm(term, i, k, f[k - 1])
  BY <1>1 DEF Applies
<1>5. \A k \in 0..N :
        g[k] = IF k = 0 THEN NewBAEpoch ELSE WithTerm(term, j, k, g[k - 1])
  BY <1>2 DEF Applies
<1> DEFINE S == {l \in 0..N : f[l] # g[l]}
<1>6. SUFFICES ASSUME S # {} PROVE FALSE
  BY <1>1, <1>2, NIsNat
<1>7. PICK l \in S : \A k \in S : l <= k
  <2>1. S \in SUBSET Nat
    BY NIsNat
  <2> HIDE DEF S
  <2> QED
    BY <2>1, <1>6, LeastExists
<1>8. l # 0
  BY <1>4, <1>5, NIsNat
<1>9. l - 1 \in 0..N /\ l - 1 \notin S /\ l \in 1..N
  BY <1>7, <1>8, NIsNat
<1>10. f[l - 1] = g[l - 1]
  BY <1>9
<1>11. /\ f[l] = WithTerm(term, i, l, f[l - 1])
       /\ g[l] = WithTerm(term, j, l, g[l - 1])
  BY <1>4, <1>5, <1>8, <1>9
<1> QED
  BY <1>3, <1>7, <1>9, <1>10, <1>11

-----------------------------------------------------------------------------
(***************************************************************************)
(* The state of a running node stays good through the steps of BA.Recv.    *)
(***************************************************************************)
Grows(s, t) ==
  /\ s.last <= t.last
  /\ \A i \in 0..s.last : s.epochs[i].sentA \subseteq t.epochs[i].sentA

LEMMA EpochAtGood ==
  ASSUME NEW M, NEW P, MessagesJustified(M, P), NEW s, Running(M, P, s), NEW i \in Nat
  PROVE  EpochGood(M, P, i, EpochAt(s, i))
<1>1. s.term \in [Node -> TermStatus] /\ TermsBacked(M, s.term)
  BY DEF Running, BAStateUpTo, TermsHeard, TermsBacked, Correct
<1>2. CASE i <= s.last
  BY <1>2 DEF Running, EpochAt
<1>3. CASE ~(i <= s.last)
  BY <1>1, <1>3, NewEpochGood DEF EpochAt
<1> QED
  BY <1>2, <1>3

LEMMA AllocateKeeps ==
  ASSUME NEW M, NEW P, MessagesJustified(M, P), NEW s, Running(M, P, s),
         NEW i \in Nat, NEW t, t = Allocate(s, i)
  PROVE  Running(M, P, t) /\ Grows(s, t) /\ i <= t.last
<1>1. s.last \in Nat /\ s \in BAStateUpTo(s.last)
  BY DEF Running
<1>2. CASE i <= s.last
  BY <1>1, <1>2 DEF Allocate, Grows
<1>3. CASE ~(i <= s.last)
  <2> DEFINE ep == [j \in 0..i |-> EpochAt(s, j)]
  <2>1. \A j \in 0..i : EpochGood(M, P, j, ep[j])
    BY EpochAtGood
  <2>2. ep \in [0..i -> EpochState]
    BY EpochAtGood DEF EpochGood
  <2>3. \A j \in 0..s.last : ep[j] = s.epochs[j]
    BY <1>1, <1>3 DEF EpochAt
  <2>4. t = [s EXCEPT !.epochs = ep, !.last = i]
    BY <1>3 DEF Allocate
  <2> HIDE DEF ep
  <2>5. /\ t.epochs = ep /\ t.last = i /\ t.epochNum = s.epochNum
        /\ t.firstUninited = s.firstUninited /\ t.term = s.term
        /\ t.termed = s.termed /\ t \in BAStateUpTo(i)
    <3>1. s.epochNum \in 0..i /\ s.firstUninited \in 0..(i + 1)
      BY <1>1, <1>3 DEF BAStateUpTo
    <3> QED
      BY <1>1, <2>2, <2>4, <3>1 DEF BAStateUpTo
  <2>6. TermsHeard(M, t)
    <3>1. \A k \in Node : s.term[k].epoch \in Int
      BY <1>1 DEF BAStateUpTo, TermStatus
    <3> QED
      BY <1>1, <1>3, <2>5, <3>1 DEF Running, TermsHeard
  <2> QED
    BY <1>1, <1>3, <2>1, <2>3, <2>5, <2>6 DEF Running, Grows
<1> QED
  BY <1>2, <1>3

LEMMA HandleEpochKeeps ==
  ASSUME NEW M, NEW P, MessagesJustified(M, P), NEW s, Running(M, P, s),
         NEW i \in 0..s.last, NEW m \in EpochMessage,
         m.from \in Correct => About(i, m) \in M,
         NEW t, t = HandleEpoch(s, i, m)
  PROVE  Running(M, P, t) /\ Grows(s, t)
<1>1. s.last \in Nat /\ s \in BAStateUpTo(s.last) /\ i \in Nat
  BY DEF Running
<1> DEFINE c == EpochRecv(s.epochs[i], m)
<1>2. m.type = "viable" => m = Viable(m.from, m.value)
  BY DEF Viable, EpochMessage
<1>3. m.type = "agreement" => m = Agreement(m.from, m.value)
  BY DEF Agreement, EpochMessage
<1>4. EpochGood(M, P, i, c) /\ s.epochs[i].sentA \subseteq c.sentA
  <2>1. EpochGood(M, P, i, s.epochs[i])
    BY DEF Running
  <2>2. m.from \in Correct /\ m.type = "viable" => Supports(M, m.from, i, m.value)
    BY <1>2 DEF Supports
  <2>3. m.from \in Correct /\ m.type = "agreement" => VotesFor(M, m.from, i, m.value)
    BY <1>3 DEF VotesFor
  <2> QED
    BY <1>1, <2>1, <2>2, <2>3, RecvKeeps
<1> DEFINE ep == [s.epochs EXCEPT ![i] = c]
<1>5. t = [s EXCEPT !.epochs = ep]
  BY DEF HandleEpoch
<1> HIDE DEF c
<1>6. /\ ep \in [0..s.last -> EpochState]
      /\ \A j \in 0..s.last : ep[j] = IF j = i THEN c ELSE s.epochs[j]
  BY <1>1, <1>4 DEF BAStateUpTo, EpochGood
<1> HIDE DEF ep
<1>7. /\ t.epochs = ep /\ t.last = s.last /\ t.epochNum = s.epochNum
      /\ t.firstUninited = s.firstUninited /\ t.term = s.term
      /\ t.termed = s.termed /\ t \in BAStateUpTo(s.last)
  BY <1>1, <1>5, <1>6 DEF BAStateUpTo
<1> QED
  BY <1>1, <1>4, <1>6, <1>7 DEF Running, TermsHeard, Grows

LEMMA HandleTermKeeps ==
  ASSUME NEW M, NEW P, MessagesJustified(M, P), NEW s, Running(M, P, s),
         NEW i \in 0..s.last, NEW m \in TermMessage,
         m.from \in Correct => About(i, m) \in M,
         NEW t, t = HandleTerm(s, i, m)
  PROVE  Running(M, P, t) /\ Grows(s, t)
<1>1. s.last \in Nat /\ s \in BAStateUpTo(s.last) /\ i \in Nat
  BY DEF Running
<1>2. m.from \in Node /\ m.value \in BOOLEAN /\ m = Term(m.from, m.value)
  BY DEF TermMessage, Term
<1>3. CASE s.term[m.from] # NoTerm
  <2>1. t = s
    BY <1>3 DEF HandleTerm
  <2> QED
    BY <2>1, <1>1 DEF Grows
<1>4. CASE s.term[m.from] = NoTerm
  <2> DEFINE ep == [j \in 0..s.last |->
                      IF j > i THEN InsertTerm(s.epochs[j], m.from, m.value)
                               ELSE s.epochs[j]]
             tm == [s.term EXCEPT ![m.from] = [epoch |-> i, value |-> m.value]]
  <2>1. t = [s EXCEPT !.term = tm, !.epochs = ep]
    BY <1>4 DEF HandleTerm
  <2>2. ASSUME NEW j \in 0..s.last
        PROVE  EpochGood(M, P, j, ep[j]) /\ s.epochs[j].sentA \subseteq ep[j].sentA
    <3>1. EpochGood(M, P, j, s.epochs[j]) /\ j \in Nat
      BY <1>1 DEF Running
    <3>2. CASE j > i
      <4>1. m.from \in Correct => Left(M, m.from, j, m.value)
        BY <1>1, <1>2, <3>1, <3>2 DEF Left
      <4> QED
        BY <1>2, <3>1, <3>2, <4>1, InsertKeeps
    <3>3. CASE ~(j > i)
      BY <3>1, <3>3
    <3> QED
      BY <3>2, <3>3
  <2>3. ep \in [0..s.last -> EpochState]
    BY <2>2 DEF EpochGood
  <2>4. /\ tm \in [Node -> TermStatus]
        /\ \A k \in Node : tm[k] = IF k = m.from THEN [epoch |-> i, value |-> m.value]
                                                 ELSE s.term[k]
    BY <1>1, <1>2 DEF BAStateUpTo, TermStatus
  <2> HIDE DEF ep, tm
  <2>5. /\ t.epochs = ep /\ t.last = s.last /\ t.epochNum = s.epochNum
        /\ t.firstUninited = s.firstUninited /\ t.term = tm
        /\ t.termed = s.termed /\ t \in BAStateUpTo(s.last)
    BY <1>1, <2>1, <2>3, <2>4 DEF BAStateUpTo
  <2>6. TermsHeard(M, t)
    <3> SUFFICES ASSUME NEW k \in Node
                 PROVE  /\ tm[k].epoch <= s.last
                        /\ k \in Correct /\ tm[k] # NoTerm
                             => About(tm[k].epoch, Term(k, tm[k].value)) \in M
      BY <2>5 DEF TermsHeard
    <3>1. CASE k = m.from
      <4>1. tm[k].epoch = i /\ tm[k].value = m.value
        BY <2>4, <3>1
      <4> QED
        BY <1>1, <1>2, <3>1, <4>1
    <3>2. CASE k # m.from
      BY <2>4, <3>2 DEF Running, TermsHeard
    <3> QED
      BY <3>1, <3>2
  <2> QED
    BY <1>1, <2>2, <2>5, <2>6 DEF Running, Grows
<1> QED
  BY <1>3, <1>4

LEMMA HandleKeeps ==
  ASSUME NEW M, NEW P, SaidByCorrect(M), MessagesJustified(M, P),
         NEW s, Running(M, P, s), NEW m \in M \cup FaultyMsg,
         NEW t, t = Handle(s, m)
  PROVE  Running(M, P, t) /\ Grows(s, t)
<1> DEFINE a == Allocate(s, m.epoch)
<1>1. m \in BAMessage /\ (m.msg.from \in Correct => m \in M)
  BY FaultyAssumption DEF SaidByCorrect, Correct
<1>2. m.epoch \in Nat /\ m = About(m.epoch, m.msg)
      /\ m.msg \in EpochMessage \cup TermMessage
  BY <1>1 DEF BAMessage, About
<1>3. Running(M, P, a) /\ Grows(s, a) /\ m.epoch \in 0..a.last
  <2>1. Running(M, P, a) /\ Grows(s, a) /\ m.epoch <= a.last
    BY <1>2, AllocateKeeps
  <2> HIDE DEF a
  <2> QED
    BY <2>1, <1>2 DEF Running
<1>4. Running(M, P, t) /\ Grows(a, t)
  <2>1. CASE m.msg.type = "term"
    <3>1. m.msg \in TermMessage
      BY <1>2, <2>1 DEF EpochMessage
    <3>2. t = HandleTerm(a, m.epoch, m.msg)
      BY <2>1 DEF Handle
    <3> HIDE DEF a
    <3> QED
      BY <1>1, <1>2, <1>3, <3>1, <3>2, HandleTermKeeps
  <2>2. CASE m.msg.type # "term"
    <3>1. m.msg \in EpochMessage
      BY <1>2, <2>2 DEF TermMessage
    <3>2. t = HandleEpoch(a, m.epoch, m.msg)
      BY <2>2 DEF Handle
    <3> HIDE DEF a
    <3> QED
      BY <1>1, <1>2, <1>3, <3>1, <3>2, HandleEpochKeeps
  <2> QED
    BY <2>1, <2>2
<1>5. Grows(s, t)
  <2> HIDE DEF a
  <2>1. s.last \in Nat /\ a.last \in Nat /\ t.last \in Nat
    BY <1>3, <1>4 DEF Running
  <2> QED
    BY <2>1, <1>3, <1>4 DEF Grows
<1> QED
  BY <1>4, <1>5

(***************************************************************************)
(* The loop that ends BA.Recv ends: of the two epochs after the last, each *)
(* made of the same Terms, one has the only candidate for its coin.        *)
(***************************************************************************)
LEMMA FreshEpochStops ==
  ASSUME NEW M, NEW P, SaidByCorrect(M), MessagesJustified(M, P), OneVoteEach(M),
         NEW s, Running(M, P, s)
  PROVE  ~Passed(s, s.last + 1) \/ ~Passed(s, s.last + 2)
<1> DEFINE i == s.last + 1
           b == NewEpoch(s.term, i)
<1>1. /\ s.last \in Nat /\ i \in Nat /\ i + 1 = s.last + 2
      /\ s.term \in [Node -> TermStatus] /\ TermsBacked(M, s.term)
  BY DEF Running, BAStateUpTo, TermsHeard, TermsBacked, Correct
<1>2. NewEpoch(s.term, i + 1) = b
  <2>1. \A k \in Node : s.term[k].epoch < i + 1 /\ s.term[k].epoch < i
    <3>1. \A k \in Node : s.term[k].epoch \in Int /\ s.term[k].epoch <= s.last
      BY <1>1 DEF Running, TermsHeard, TermStatus
    <3> QED
      BY <1>1, <3>1
  <2>2. i + 1 \in Nat
    BY <1>1
  <2> HIDE DEF i
  <2> QED
    BY <1>1, <2>1, <2>2, NewEpochSame
<1>3. EpochAt(s, i) = b /\ EpochAt(s, i + 1) = b
  BY <1>1, <1>2 DEF EpochAt
<1>4. /\ EpochGood(M, P, i, b)
      /\ \A v \in BOOLEAN : \A k \in b.rcvdV[v] : k \in Correct => Left(M, k, i, v)
  BY <1>1, NewEpochGood
<1> HIDE DEF i, b
<1> SUFFICES ASSUME Passed(s, i), Passed(s, i + 1) PROVE FALSE
  BY <1>1 DEF i
<1>5. b.termed /\ ~(b.cand = {Coin(i)}) /\ ~(b.cand = {Coin(i + 1)})
  BY <1>3 DEF Passed, Decides
<1>6. b.cand # {}
  <2> SUFFICES ASSUME b.cand = {} PROVE FALSE
    OBVIOUS
  <2>1. Counted(b) = {}
    BY <1>4 DEF EpochGood, Counting, Counted
  <2>2. Cardinality(Counted(b)) = 0
    BY <2>1, FS_EmptySet
  <2>3. Cardinality(Counted(b)) >= N - F
    BY <1>4, <1>5 DEF EpochGood, Counting
  <2> QED
    BY <2>2, <2>3, NIsNat, FaultAssumption
<1>7. b.cand \subseteq BOOLEAN
  BY <1>4 DEF EpochGood, EpochState
<1>8. \A v \in b.cand : \E x \in M : x.msg.type = "term" /\ x.msg.value = v
  <2> SUFFICES ASSUME NEW v \in b.cand
               PROVE  \E x \in M : x.msg.type = "term" /\ x.msg.value = v
    OBVIOUS
  <2>1. v \in BOOLEAN /\ \E k \in Correct : k \in b.rcvdV[v]
    BY <1>4, CandidateBacked
  <2>2. \E k \in Correct : Left(M, k, i, v)
    BY <1>4, <2>1
  <2> QED
    BY <1>1, <2>2, LeftMessage
<1>9. \A v, w \in b.cand : v = w
  BY <1>8, TermsAgree
<1>10. PICK v \in b.cand : b.cand = {v}
  BY <1>6, <1>9
<1>11. v \in BOOLEAN
  BY <1>7
<1>12. v = Coin(i) \/ v = Coin(i + 1)
  BY <1>1, <1>11, CoinAlternates
<1> QED
  BY <1>5, <1>10, <1>12

LEMMA StopFacts ==
  ASSUME NEW M, NEW P, SaidByCorrect(M), MessagesJustified(M, P), OneVoteEach(M),
         NEW s, Running(M, P, s)
  PROVE  /\ Stop(s) \in s.epochNum..(s.last + 2)
         /\ ~Passed(s, Stop(s))
         /\ \A j \in s.epochNum..(Stop(s) - 1) : Passed(s, j)
<1>1. s.last \in Nat /\ s.epochNum \in Nat /\ s.epochNum <= s.last
  BY DEF Running, BAStateUpTo
<1> DEFINE S == {i \in Nat : i >= s.epochNum /\ ~Passed(s, i)}
<1>2. \E i \in S : i <= s.last + 2
  BY <1>1, FreshEpochStops
<1>3. PICK i \in S : \A k \in S : i <= k
  <2> HIDE DEF S
  <2>1. S \in SUBSET Nat
    BY DEF S
  <2> QED
    BY <2>1, <1>2, LeastExists
<1>4. /\ i \in s.epochNum..(s.last + 2)
      /\ ~Passed(s, i)
      /\ \A j \in s.epochNum..(i - 1) : Passed(s, j)
  BY <1>1, <1>2, <1>3
<1> QED
  BY <1>4 DEF Stop

LEMMA CarriedFacts ==
  ASSUME NEW M, NEW P, MessagesJustified(M, P), NEW s, Running(M, P, s),
         NEW i \in Nat, s.epochNum <= i,
         \A j \in s.epochNum..(i - 1) : Passed(s, j),
         NEW last \in Nat, last = (IF i > s.last THEN i ELSE s.last),
         NEW c, c = Carried(s, i)
  PROVE  /\ c \in [0..last -> EpochState]
         /\ \A j \in 0..last :
              /\ EpochGood(M, P, j, c[j])
              /\ c[j].sentA = EpochAt(s, j).sentA
              /\ c[j].termed = EpochAt(s, j).termed
              /\ c[j].cand = EpochAt(s, j).cand
         /\ s.epochNum < i => Opened(M, P, i, c[i].e)
<1>1. s.last \in Nat /\ s.epochNum \in Nat
  BY DEF Running, BAStateUpTo
<1>2. DOMAIN c = 0..last /\ c = [j \in DOMAIN c |-> c[j]]
  BY DEF Carried
<1>3. ASSUME NEW j \in 0..last, s.epochNum < j, j <= i
      PROVE  /\ EpochGood(M, P, j, c[j])
             /\ c[j].sentA = EpochAt(s, j).sentA
             /\ c[j].termed = EpochAt(s, j).termed
             /\ c[j].cand = EpochAt(s, j).cand
             /\ Opened(M, P, j, c[j].e)
  <2> DEFINE est == Estimate(EpochAt(s, j - 1), j - 1)
             b == EpochAt(s, j)
  <2>1. j \in Nat /\ j - 1 \in Nat /\ j - 1 \in s.epochNum..(i - 1) /\ (j - 1) + 1 = j
    BY <1>1, <1>3
  <2>2. c[j] = SetEstimation(b, est)
    BY <1>3 DEF Carried
  <2>3. EpochAt(s, j - 1).termed
    BY <2>1 DEF Passed
  <2>4. EpochGood(M, P, j - 1, EpochAt(s, j - 1))
    BY <2>1, EpochAtGood
  <2>5. est \in BOOLEAN /\ Opened(M, P, j, est)
    <3>1. est \in BOOLEAN /\ Opened(M, P, (j - 1) + 1, est)
      BY <2>1, <2>3, <2>4, EstimateOpens
    <3> HIDE DEF est
    <3> QED
      BY <2>1, <3>1
  <2>6. EpochGood(M, P, j, b)
    BY <2>1, EpochAtGood
  <2> HIDE DEF est, b
  <2>7. /\ EpochGood(M, P, j, c[j])
        /\ c[j].sentA = b.sentA /\ c[j].e = est
        /\ c[j].termed = b.termed /\ c[j].cand = b.cand
    BY <2>2, <2>5, <2>6, EstimationKeeps
  <2> QED
    BY <2>5, <2>7 DEF b
<1>4. ASSUME NEW j \in 0..last, ~(s.epochNum < j /\ j <= i)
      PROVE  c[j] = EpochAt(s, j) /\ EpochGood(M, P, j, c[j])
  <2>1. c[j] = EpochAt(s, j)
    BY <1>4 DEF Carried
  <2> QED
    BY <2>1, EpochAtGood
<1>5. \A j \in 0..last :
        /\ EpochGood(M, P, j, c[j])
        /\ c[j].sentA = EpochAt(s, j).sentA
        /\ c[j].termed = EpochAt(s, j).termed
        /\ c[j].cand = EpochAt(s, j).cand
  BY <1>3, <1>4
<1>6. c \in [0..last -> EpochState]
  BY <1>2, <1>5 DEF EpochGood
<1>7. s.epochNum < i => Opened(M, P, i, c[i].e)
  <2>1. i \in 0..last /\ i <= i
    BY <1>1
  <2> QED
    BY <2>1, <1>3
<1> QED
  BY <1>5, <1>6, <1>7

LEMMA ProceedKeeps ==
  ASSUME NEW M, NEW P, SaidByCorrect(M), MessagesJustified(M, P), OneVoteEach(M),
         NEW s, Running(M, P, s), NEW t, t = Proceed(s)
  PROVE  /\ t.last \in Nat /\ t \in BAStateUpTo(t.last)
         /\ Grows(s, t)
         /\ \A i \in 0..t.last : EpochGood(M, P, i, t.epochs[i])
         /\ t.termed => t.output = Coin(t.epochNum) /\ Ended(M, t.epochNum, t.output)
         /\ ~t.termed => Running(M, P, t)
<1> DEFINE i == Stop(s)
           c == Carried(s, i)
           last == IF i > s.last THEN i ELSE s.last
           start == ~c[i].termed /\ i >= s.firstUninited /\ i # 0
           ep == IF start THEN [c EXCEPT ![i] = EpochInit(@)] ELSE c
           fu == IF start THEN i + 1 ELSE s.firstUninited
           tm == c[i].termed
           out == c[i].termed /\ Coin(i)
<1>1. /\ s.last \in Nat /\ s.epochNum \in Nat /\ s.epochNum <= s.last
      /\ s.firstUninited \in 0..(s.last + 1) /\ s \in BAStateUpTo(s.last)
  BY DEF Running, BAStateUpTo
<1>2. /\ i \in s.epochNum..(s.last + 2)
      /\ ~Passed(s, i)
      /\ \A j \in s.epochNum..(i - 1) : Passed(s, j)
  BY StopFacts
<1>3. t = [s EXCEPT !.epochNum = i, !.last = last, !.epochs = ep,
                    !.firstUninited = fu, !.termed = tm, !.output = out]
  BY Zenon DEF Proceed
<1> HIDE DEF i
<1>4. i \in Nat /\ s.epochNum <= i /\ last \in Nat /\ s.last <= last /\ i <= last
  BY <1>1, <1>2
<1>5. /\ c \in [0..last -> EpochState]
      /\ \A j \in 0..last :
           /\ EpochGood(M, P, j, c[j])
           /\ c[j].sentA = EpochAt(s, j).sentA
           /\ c[j].termed = EpochAt(s, j).termed
           /\ c[j].cand = EpochAt(s, j).cand
      /\ s.epochNum < i => Opened(M, P, i, c[i].e)
  <2> HIDE DEF c
  <2> QED
    BY <1>2, <1>4, CarriedFacts DEF c
<1> HIDE DEF c
<1>6. i \in 0..last /\ c[i] \in EpochState
  BY <1>4, <1>5
<1>7. start => s.epochNum < i
  BY <1>1, <1>4 DEF Running
<1>8. /\ ep \in [0..last -> EpochState]
      /\ \A j \in 0..last : EpochGood(M, P, j, ep[j]) /\ ep[j].sentA = EpochAt(s, j).sentA
  <2>1. CASE start
    <3> DEFINE d == EpochInit(c[i])
    <3>1. EpochGood(M, P, i, d) /\ d.sentA = c[i].sentA
      BY <1>5, <1>6, <1>7, <2>1, StartKeeps
    <3>2. ep = [c EXCEPT ![i] = d]
      BY <2>1
    <3> HIDE DEF d, ep
    <3>3. d \in EpochState
      BY <3>1 DEF EpochGood
    <3>4. ep \in [0..last -> EpochState]
          /\ \A j \in 0..last : ep[j] = IF j = i THEN d ELSE c[j]
      BY <1>5, <1>6, <3>2, <3>3
    <3> QED
      BY <1>5, <1>6, <3>1, <3>4
  <2>2. CASE ~start
    BY <1>5, <2>2
  <2> QED
    BY <2>1, <2>2
<1>9. fu \in 0..(last + 1)
  BY <1>1, <1>4
<1>10. tm \in BOOLEAN /\ out \in BOOLEAN
  BY <1>6 DEF EpochState
<1>11. tm => out = Coin(i)
  BY <1>4, CoinType
<1>12. tm => Ended(M, i, Coin(i))
  <2> SUFFICES ASSUME tm PROVE Ended(M, i, Coin(i))
    OBVIOUS
  <2>1. EpochAt(s, i).termed
    BY <1>5, <1>6
  <2>2. Decides(EpochAt(s, i), i)
    BY <1>2, <2>1 DEF Passed
  <2> QED
    BY <1>4, <2>2, EpochAtGood, DecisionEnds
<1>13. ~tm => i = 0 \/ i < fu
  BY <1>1, <1>4
<1>14. \A j \in 0..s.last : EpochAt(s, j) = s.epochs[j]
  BY <1>1 DEF EpochAt
<1> HIDE DEF last, ep, fu, tm, out
<1>15. /\ t.epochNum = i /\ t.last = last /\ t.epochs = ep /\ t.firstUninited = fu
       /\ t.term = s.term
       /\ t \in BAStateUpTo(last)
  <2>1. t = [epochNum |-> i, firstUninited |-> fu, term |-> s.term, last |-> last,
             epochs |-> ep, termed |-> tm, output |-> out]
    BY <1>1, <1>3 DEF BAStateUpTo
  <2>2. s.term \in [Node -> TermStatus] /\ i \in 0..last
    BY <1>1, <1>4 DEF BAStateUpTo
  <2>3. ep \in [0..last -> EpochState]
    BY <1>8
  <2> QED
    BY <2>1, <2>2, <2>3, <1>9, <1>10 DEF BAStateUpTo
<1>16. t.termed = tm /\ t.output = out
  BY <1>1, <1>3, Zenon DEF BAStateUpTo
<1>17. Grows(s, t)
  BY <1>1, <1>4, <1>8, <1>14, <1>15 DEF Grows
<1>18. \A j \in 0..t.last : EpochGood(M, P, j, t.epochs[j])
  BY <1>8, <1>15
<1>19. t.termed => t.output = Coin(t.epochNum) /\ Ended(M, t.epochNum, t.output)
  <2> SUFFICES ASSUME tm PROVE out = Coin(i) /\ Ended(M, i, out)
    BY <1>15, <1>16, Zenon
  <2>1. out = Coin(i)
    BY <1>11
  <2> QED
    BY <2>1, <1>12, Zenon
<1>20. ~t.termed => Running(M, P, t)
  <2> SUFFICES ASSUME ~t.termed PROVE Running(M, P, t)
    OBVIOUS
  <2>1. TermsHeard(M, t)
    <3>1. \A k \in Node : s.term[k].epoch \in Int
      BY <1>1 DEF BAStateUpTo, TermStatus
    <3> QED
      BY <1>1, <1>4, <1>15, <3>1 DEF Running, TermsHeard
  <2>2. ~tm
    BY <1>16, Zenon
  <2> QED
    BY <1>4, <1>13, <1>15, <1>18, <2>1, <2>2 DEF Running
<1> QED
  BY <1>4, <1>15, <1>17, <1>18, <1>19, <1>20

-----------------------------------------------------------------------------
(***************************************************************************)
(* What a step of node n adds to the messages.                             *)
(***************************************************************************)
LEMMA SentFacts ==
  ASSUME NEW n \in Correct, NEW s, s.last \in Nat,
         NEW t, t.last \in Nat, t \in BAStateUpTo(t.last)
  PROVE  /\ \A x \in BASent(n, s, t) :
              /\ x \in BAMessage /\ x.msg.from = n
              /\ \/ /\ x.msg.type = "viable" /\ x.epoch \in 0..t.last
                    /\ x.msg.value \in t.epochs[x.epoch].sentV
                 \/ /\ x.msg.type = "agreement" /\ x.epoch \in 0..t.last
                    /\ x.msg.value \in t.epochs[x.epoch].sentA
                 \/ /\ x.msg.type = "term" /\ t.termed
                    /\ x.epoch = t.epochNum /\ x.msg.value = t.output
         /\ t.termed => About(t.epochNum, Term(n, t.output)) \in BASent(n, s, t)
<1>1. /\ t.epochs \in [0..t.last -> EpochState] /\ t.epochNum \in Nat
      /\ t.output \in BOOLEAN /\ n \in Node
  BY DEF BAStateUpTo, Correct
<1>2. ASSUME NEW i \in 0..t.last, NEW b, NEW m \in Sent(n, b, t.epochs[i])
      PROVE  /\ m \in EpochMessage /\ m.from = n
             /\ \/ m.type = "viable" /\ m.value \in t.epochs[i].sentV
                \/ m.type = "agreement" /\ m.value \in t.epochs[i].sentA
  <2>1. t.epochs[i].sentV \subseteq BOOLEAN /\ t.epochs[i].sentA \subseteq BOOLEAN
    BY <1>1 DEF EpochState
  <2>2. \/ \E v \in t.epochs[i].sentV : m = Viable(n, v)
        \/ \E v \in t.epochs[i].sentA : m = Agreement(n, v)
    BY <1>2 DEF Sent
  <2> QED
    BY <1>1, <2>1, <2>2 DEF Viable, Agreement, EpochMessage
<1> DEFINE Of(i) == {[epoch |-> i, msg |-> m] :
               m \in Sent(n, IF i <= s.last THEN s.epochs[i] ELSE NewBAEpoch, t.epochs[i])}
           A == UNION {Of(i) : i \in 0..t.last}
           B == {[epoch |-> i, msg |-> Term(n, t.output)] :
                   i \in IF t.termed THEN {t.epochNum} ELSE {}}
<1>3. BASent(n, s, t) = A \cup B
  BY DEF BASent
<1>4. \A x \in A : \E i \in 0..t.last : \E b : \E m \in Sent(n, b, t.epochs[i]) : x = About(i, m)
  BY Zenon DEF About
<1>5. \A x \in B : t.termed /\ x = About(t.epochNum, Term(n, t.output))
  BY Zenon DEF About
<1>6. t.termed => About(t.epochNum, Term(n, t.output)) \in B
  BY Zenon DEF About
<1> HIDE DEF A, B
<1>7. ASSUME NEW x \in BASent(n, s, t)
      PROVE  \/ \E i \in 0..t.last : \E b : \E m \in Sent(n, b, t.epochs[i]) : x = About(i, m)
             \/ t.termed /\ x = About(t.epochNum, Term(n, t.output))
  BY <1>3, <1>4, <1>5
<1>8. ASSUME NEW x \in BASent(n, s, t)
      PROVE  /\ x \in BAMessage /\ x.msg.from = n
             /\ \/ /\ x.msg.type = "viable" /\ x.epoch \in 0..t.last
                   /\ x.msg.value \in t.epochs[x.epoch].sentV
                \/ /\ x.msg.type = "agreement" /\ x.epoch \in 0..t.last
                   /\ x.msg.value \in t.epochs[x.epoch].sentA
                \/ /\ x.msg.type = "term" /\ t.termed
                   /\ x.epoch = t.epochNum /\ x.msg.value = t.output
  <2>1. CASE \E i \in 0..t.last : \E b : \E m \in Sent(n, b, t.epochs[i]) : x = About(i, m)
    <3>0. PICK i \in 0..t.last :
            \E b : \E m \in Sent(n, b, t.epochs[i]) : x = About(i, m)
      BY <2>1
    <3>1. PICK b : \E m \in Sent(n, b, t.epochs[i]) : x = About(i, m)
      BY <3>0
    <3>2. PICK m \in Sent(n, b, t.epochs[i]) : x = About(i, m)
      BY <3>1
    <3>3. x = [epoch |-> i, msg |-> m] /\ x.epoch = i /\ x.msg = m /\ i \in Nat
      BY <3>2 DEF About
    <3> QED
      BY <1>2, <3>3 DEF BAMessage
  <2>2. CASE t.termed /\ x = About(t.epochNum, Term(n, t.output))
    BY <1>1, <2>2 DEF About, Term, BAMessage, TermMessage
  <2> QED
    BY <1>7, <2>1, <2>2
<1>9. t.termed => About(t.epochNum, Term(n, t.output)) \in BASent(n, s, t)
  BY <1>3, <1>6
<1> QED
  BY <1>8, <1>9

LEMMA RunningMonotone ==
  ASSUME NEW M, NEW M2, M \subseteq M2, NEW P, NEW P2, P \subseteq P2, NEW s,
         Running(M, P, s)
  PROVE  Running(M2, P2, s)
BY EpochGoodMonotone DEF Running, TermsHeard

(***************************************************************************)
(* The step of node n from its state to t, whoever causes it, keeps the    *)
(* invariant when t is good with the messages and inputs there are.        *)
(***************************************************************************)
LEMMA BecomeKeeps ==
  ASSUME IInv, NEW n \in Correct, ~ba[n].termed,
         NEW P \in SUBSET BOOLEAN, proposed \subseteq P, proposed' = P,
         NEW t, t.last \in Nat, t \in BAStateUpTo(t.last), Grows(ba[n], t),
         \A i \in 0..t.last : EpochGood(msgs, P, i, t.epochs[i]),
         t.termed => t.output = Coin(t.epochNum) /\ Ended(msgs, t.epochNum, t.output),
         ~t.termed => Running(msgs, P, t),
         Become(n, t)
  PROVE  IInv'
<1> DEFINE new == BASent(n, ba[n], t)
           M2 == msgs \cup new
<1>1. /\ ba' = [ba EXCEPT ![n] = Settled(t)] /\ msgs' = M2 /\ msgs \subseteq M2
  BY DEF Become
<1>2. /\ Running(msgs, proposed, ba[n]) /\ Remembers(msgs, n, ba[n])
      /\ ba[n].last \in Nat
  BY DEF IInv, Running
<1>3. /\ \A x \in new :
              /\ x \in BAMessage /\ x.msg.from = n
              /\ \/ /\ x.msg.type = "viable" /\ x.epoch \in 0..t.last
                    /\ x.msg.value \in t.epochs[x.epoch].sentV
                 \/ /\ x.msg.type = "agreement" /\ x.epoch \in 0..t.last
                    /\ x.msg.value \in t.epochs[x.epoch].sentA
                 \/ /\ x.msg.type = "term" /\ t.termed
                    /\ x.epoch = t.epochNum /\ x.msg.value = t.output
      /\ t.termed => About(t.epochNum, Term(n, t.output)) \in new
  BY <1>2, SentFacts
<1> HIDE DEF new
<1>4. SaidByCorrect(M2)
  BY <1>3 DEF IInv, SaidByCorrect
<1>5. MessagesJustified(M2, P)
  <2>1. \A x \in msgs : Justified(M2, P, x.epoch, x.msg)
    BY <1>1, JustifiedMonotone DEF IInv, MessagesJustified
  <2>2. \A x \in new : Justified(msgs, P, x.epoch, x.msg)
    BY <1>3 DEF EpochGood, Spoken, Justified
  <2>3. \A x \in new : Justified(M2, P, x.epoch, x.msg)
    BY <1>1, <2>2, JustifiedMonotone
  <2> QED
    BY <2>1, <2>3 DEF MessagesJustified
<1>6. \A x \in M2 : x.msg.from = n /\ x.msg.type = "agreement"
                      => x.epoch \in 0..t.last /\ x.msg.value \in t.epochs[x.epoch].sentA
  <2>1. ASSUME NEW x \in msgs, x.msg.from = n, x.msg.type = "agreement"
        PROVE  x.epoch \in 0..t.last /\ x.msg.value \in t.epochs[x.epoch].sentA
    <3>1. x.epoch \in Nat
      BY DEF IInv, BAMessage
    <3>2. x.epoch <= ba[n].last /\ x.msg.value \in ba[n].epochs[x.epoch].sentA
      BY <1>2, <2>1 DEF Remembers
    <3> QED
      BY <1>2, <3>1, <3>2 DEF Grows
  <2> QED
    BY <1>3, <2>1
<1>7. OneVoteEach(M2)
  <2> SUFFICES ASSUME NEW x \in M2, NEW y \in M2, x.epoch = y.epoch,
                      x.msg.type = "agreement", y.msg.type = "agreement",
                      x.msg.from = y.msg.from, x.msg.from \in Correct
               PROVE  x.msg.value = y.msg.value
    BY DEF OneVoteEach
  <2>1. CASE x.msg.from = n
    <3>1. x.epoch \in 0..t.last /\ Spoken(msgs, P, x.epoch, t.epochs[x.epoch])
      BY <1>6, <2>1 DEF EpochGood
    <3>2. /\ x.msg.value \in t.epochs[x.epoch].sentA
          /\ y.msg.value \in t.epochs[x.epoch].sentA
      BY <1>6, <2>1
    <3> QED
      BY <3>1, <3>2 DEF Spoken
  <2>2. CASE x.msg.from # n
    <3>1. x \in msgs /\ y \in msgs
      BY <1>3, <2>2
    <3> QED
      BY <3>1 DEF IInv, OneVoteEach
  <2> QED
    BY <2>1, <2>2
<1>8. DOMAIN ba' = Correct /\ \A k \in Correct : ba'[k] = IF k = n THEN Settled(t) ELSE ba[k]
  BY <1>1 DEF IInv
<1>9. ASSUME NEW k \in Correct
      PROVE  IF ba'[k].termed THEN Finished(M2, k, ba'[k])
                              ELSE Running(M2, P, ba'[k]) /\ Remembers(M2, k, ba'[k])
  <2>1. CASE k # n
    <3>1. ba'[k] = ba[k]
      BY <1>8, <2>1
    <3>2. ba[k].termed => Finished(M2, k, ba[k])
      BY DEF IInv, Finished
    <3>3. ~ba[k].termed => Running(M2, P, ba[k])
      BY RunningMonotone DEF IInv
    <3>4. ~ba[k].termed => Remembers(M2, k, ba[k])
      BY <1>3, <2>1 DEF IInv, Remembers
    <3> QED
      BY <3>1, <3>2, <3>3, <3>4, Zenon
  <2>2. CASE k = n /\ t.termed
    <3> DEFINE o == t.output
               d == [NewBA EXCEPT !.termed = TRUE, !.output = o]
    <3>1. ba'[k] = d
      BY <1>8, <2>2, Zenon DEF Settled
    <3>2. o \in BOOLEAN
      BY DEF BAStateUpTo
    <3>3. \E x \in M2 : x.msg = Term(n, o)
      <4>1. About(t.epochNum, Term(n, t.output)).msg = Term(n, t.output)
        BY DEF About
      <4> QED
        BY <1>3, <2>2, <4>1
    <3> HIDE DEF o
    <3>4. d.output = o /\ d.termed
      BY DEF NewBA
    <3>5. Finished(M2, k, d)
      BY <2>2, <3>2, <3>3, <3>4, Zenon DEF Finished
    <3> HIDE DEF d
    <3> QED
      BY <3>1, <3>4, <3>5, Zenon
  <2>3. CASE k = n /\ ~t.termed
    <3>1. ba'[k] = t
      BY <1>8, <2>3, Zenon DEF Settled
    <3>2. Running(M2, P, t)
      BY <1>1, <2>3, RunningMonotone
    <3>3. Remembers(M2, k, t)
      BY <1>6, <2>3 DEF Remembers
    <3> QED
      BY <2>3, <3>1, <3>2, <3>3, Zenon
  <2> QED
    BY <2>1, <2>2, <2>3
<1> HIDE DEF M2
<1> QED
  BY <1>1, <1>4, <1>5, <1>7, <1>8, <1>9 DEF IInv, SaidByCorrect

-----------------------------------------------------------------------------
LEMMA InitHolds == Init => IInv
<1> SUFFICES ASSUME Init PROVE IInv
  OBVIOUS
<1>1. ba = [n \in Correct |-> NewBA] /\ proposed = {} /\ msgs = {}
  BY DEF Init
<1>2. NewBA.last = 0 /\ NewBA \in BAStateUpTo(0) /\ NewBA.termed = FALSE
      /\ NewBA.epochNum = 0 /\ \A i \in 0..0 : NewBA.epochs[i] = NewBAEpoch
      /\ \A k \in Node : NewBA.term[k] = NoTerm
  BY DEF NewBA, BAStateUpTo, TermStatus, NoTerm, NewBAEpoch, EpochState
<1>3. Running({}, {}, NewBA)
  <2>1. TermsHeard({}, NewBA)
    BY <1>2 DEF TermsHeard, NoTerm, Correct
  <2> QED
    BY <1>2, <2>1, NewIsGood DEF Running
<1>4. \A n \in Correct : Remembers({}, n, NewBA)
  BY DEF Remembers
<1>5. MessagesJustified({}, {}) /\ OneVoteEach({})
  BY DEF MessagesJustified, OneVoteEach
<1>6. DOMAIN ba = Correct /\ \A n \in Correct : ba[n] = NewBA
  BY <1>1
<1>7. \A n \in Correct :
        IF ba[n].termed THEN Finished(msgs, n, ba[n])
                        ELSE Running(msgs, proposed, ba[n]) /\ Remembers(msgs, n, ba[n])
  <2>1. ~NewBA.termed
    BY <1>2
  <2> QED
    BY <1>1, <1>3, <1>4, <1>6, <2>1, Zenon
<1> QED
  BY <1>1, <1>5, <1>6, <1>7 DEF IInv

LEMMA ProposeKeeps ==
  ASSUME IInv, NEW n \in Correct, NEW v \in BOOLEAN, Propose(n, v)
  PROVE  IInv'
<1> DEFINE s == ba[n]
           c == EpochInit(SetEstimation(s.epochs[0], v))
           ep == [s.epochs EXCEPT ![0] = c]
           t == [s EXCEPT !.epochs[0] = EpochInit(SetEstimation(@, v)), !.firstUninited = 1]
           P == proposed \cup {v}
<1>1. ~s.termed /\ s.firstUninited = 0 /\ proposed' = P /\ Become(n, t)
  BY DEF Propose
<1>2. /\ Running(msgs, proposed, s)
      /\ proposed \subseteq P /\ P \in SUBSET BOOLEAN /\ v \in P
  BY <1>1 DEF IInv
<1>3. Running(msgs, P, s)
  BY <1>2, RunningMonotone
<1> HIDE DEF P, s
<1>4. s.last \in Nat /\ s \in BAStateUpTo(s.last) /\ 0 \in 0..s.last /\ s.epochNum = 0
  BY <1>1, <1>2 DEF Running, BAStateUpTo
<1>5. EpochGood(msgs, P, 0, c) /\ c.sentA = s.epochs[0].sentA
  <2> DEFINE d == SetEstimation(s.epochs[0], v)
  <2>1. EpochGood(msgs, P, 0, s.epochs[0])
    BY <1>3, <1>4 DEF Running
  <2>2. EpochGood(msgs, P, 0, d) /\ d.sentA = s.epochs[0].sentA /\ d.e = v
    BY <2>1, EstimationKeeps
  <2>3. Opened(msgs, P, 0, v)
    BY <1>2 DEF Opened
  <2> HIDE DEF d
  <2> QED
    BY <2>2, <2>3, StartKeeps DEF d
<1>6. t = [s EXCEPT !.epochs = ep, !.firstUninited = 1]
  BY <1>4 DEF BAStateUpTo
<1> HIDE DEF c
<1>7. /\ ep \in [0..s.last -> EpochState]
      /\ \A j \in 0..s.last : ep[j] = IF j = 0 THEN c ELSE s.epochs[j]
  BY <1>4, <1>5 DEF BAStateUpTo, EpochGood
<1> HIDE DEF ep, t
<1>8. /\ t.epochs = ep /\ t.last = s.last /\ t.epochNum = 0
      /\ t.firstUninited = 1 /\ t.term = s.term
      /\ t \in BAStateUpTo(s.last)
  <2>1. 1 \in 0..(s.last + 1)
    BY <1>4
  <2> QED
    BY <1>4, <1>6, <1>7, <2>1 DEF BAStateUpTo
<1>9. ~t.termed
  <2>1. t.termed = s.termed
    BY <1>4, <1>6 DEF BAStateUpTo
  <2> QED
    BY <1>1, <2>1
<1>10. Running(msgs, P, t) /\ Grows(s, t)
  BY <1>3, <1>4, <1>5, <1>7, <1>8, <1>9 DEF Running, TermsHeard, Grows
<1>11. /\ t.last \in Nat /\ t \in BAStateUpTo(t.last) /\ Grows(ba[n], t)
       /\ \A i \in 0..t.last : EpochGood(msgs, P, i, t.epochs[i])
       /\ ~ba[n].termed
  BY <1>1, <1>10 DEF Running, s
<1> QED
  BY <1>1, <1>2, <1>9, <1>10, <1>11, BecomeKeeps

LEMMA RecvMessageKeeps ==
  ASSUME IInv, NEW n \in Correct, NEW m \in msgs \cup FaultyMsg, Recv(n, m)
  PROVE  IInv'
<1> DEFINE h == Handle(ba[n], m)
           t == Proceed(h)
<1>1. ~ba[n].termed /\ Become(n, t) /\ proposed' = proposed
  BY DEF Recv
<1>2. /\ Running(msgs, proposed, ba[n]) /\ SaidByCorrect(msgs)
      /\ MessagesJustified(msgs, proposed) /\ OneVoteEach(msgs)
      /\ proposed \in SUBSET BOOLEAN
  BY <1>1 DEF IInv, SaidByCorrect
<1>3. Running(msgs, proposed, h) /\ Grows(ba[n], h)
  BY <1>2, HandleKeeps
<1> HIDE DEF h
<1>4. /\ t.last \in Nat /\ t \in BAStateUpTo(t.last)
      /\ Grows(h, t)
      /\ \A i \in 0..t.last : EpochGood(msgs, proposed, i, t.epochs[i])
      /\ t.termed => t.output = Coin(t.epochNum) /\ Ended(msgs, t.epochNum, t.output)
      /\ ~t.termed => Running(msgs, proposed, t)
  BY <1>2, <1>3, ProceedKeeps
<1> HIDE DEF t
<1>5. Grows(ba[n], t)
  <2>1. ba[n].last \in Nat /\ h.last \in Nat
    BY <1>2, <1>3 DEF Running
  <2> QED
    BY <1>3, <1>4, <2>1 DEF Grows
<1> QED
  BY <1>1, <1>2, <1>4, <1>5, BecomeKeeps

LEMMA NextKeeps == IInv /\ [Next]_vars => IInv'
<1> SUFFICES ASSUME IInv, [Next]_vars PROVE IInv'
  OBVIOUS
<1>1. CASE Next
  BY <1>1, ProposeKeeps, RecvMessageKeeps DEF Next
<1>2. CASE UNCHANGED vars
  BY <1>2 DEF vars, IInv
<1> QED
  BY <1>1, <1>2

LEMMA Inductive == Spec => []IInv
<1> QED
  BY InitHolds, NextKeeps, PTL DEF Spec

LEMMA Typed == IInv => TypeOK
<1> SUFFICES ASSUME IInv PROVE TypeOK
  OBVIOUS
<1>1. ASSUME NEW n \in Correct
      PROVE  ba[n].last \in Nat /\ ba[n] \in BAStateUpTo(ba[n].last)
  <2>1. CASE ~ba[n].termed
    BY <2>1 DEF IInv, Running
  <2>2. CASE ba[n].termed
    <3> DEFINE o == ba[n].output
               yes == TRUE
               d == [NewBA EXCEPT !.termed = yes, !.output = o]
    <3>1. ba[n] = d /\ o \in BOOLEAN /\ yes \in BOOLEAN
      BY <2>2 DEF IInv, Finished
    <3> HIDE DEF o, yes
    <3>2. NewBA.last = 0 /\ NewBA \in BAStateUpTo(0)
      BY DEF NewBA, BAStateUpTo, TermStatus, NoTerm, NewBAEpoch, EpochState
    <3> HIDE DEF d
    <3>3. d.last = 0 /\ d \in BAStateUpTo(0)
      BY <3>1, <3>2 DEF d, BAStateUpTo
    <3> QED
      BY <3>1, <3>3
  <2> QED
    BY <2>1, <2>2
<1> QED
  BY <1>1 DEF IInv, TypeOK

(***************************************************************************)
(* Every state is well typed, and no correct node ever goes against the    *)
(* Term of a correct node in a later epoch: a node that has left may be    *)
(* counted for its value ever after (ba.go, insertTermMessage).            *)
(***************************************************************************)
THEOREM LocksLater == Spec => []TermLocksLater
<1>1. IInv => TermLocksLater
  <2> SUFFICES ASSUME IInv PROVE TermLocksLater
    OBVIOUS
  <2>1. TermsLock(msgs)
    BY JustifiedLock DEF IInv, SaidByCorrect
  <2> QED
    BY <2>1, Typed DEF TermLocksLater, TermsLock
<1> QED
  BY <1>1, Inductive, PTL

-----------------------------------------------------------------------------
(***************************************************************************)
(* The outputs are those of the abstract agreement.                        *)
(***************************************************************************)
LEMMA OutputsAgree ==
  ASSUME NEW M, NEW P, SaidByCorrect(M), MessagesJustified(M, P), OneVoteEach(M),
         NEW k, NEW n, NEW s, NEW t, Finished(M, k, s), Finished(M, n, t)
  PROVE  s.output = t.output /\ t.output \in P
<1>1. PICK x \in M : x.msg = Term(k, s.output)
  BY DEF Finished
<1>2. PICK y \in M : y.msg = Term(n, t.output)
  BY DEF Finished
<1>3. /\ x.msg.type = "term" /\ x.msg.value = s.output
      /\ y.msg.type = "term" /\ y.msg.value = t.output
  BY <1>1, <1>2 DEF Term
<1> QED
  BY <1>3, TermsAgree, JustifiedValues

Decision == [n \in Correct |-> IF ba[n].termed THEN {ba[n].output} ELSE {}]

LEMMA StepRefines ==
  ASSUME IInv, IInv', [Next]_vars
  PROVE  [Abstract!Next]_<<proposed, Decision>>
<1>1. CASE UNCHANGED vars
  BY <1>1 DEF vars, Decision
<1>2. ASSUME NEW n \in Correct, NEW v \in BOOLEAN, Propose(n, v)
      PROVE  Abstract!Propose(v)
  <2>1. ~ba[n].termed /\ proposed' = proposed \cup {v}
    BY <1>2 DEF Propose
  <2> DEFINE t == [ba[n] EXCEPT !.epochs[0] = EpochInit(SetEstimation(@, v)),
                                !.firstUninited = 1]
  <2>2. ba' = [ba EXCEPT ![n] = Settled(t)]
    BY <1>2 DEF Propose, Become
  <2>3. ~t.termed
    BY <2>1 DEF IInv, Running, BAStateUpTo
  <2> HIDE DEF t
  <2>4. ba' = [ba EXCEPT ![n] = t]
    BY <2>2, <2>3 DEF Settled
  <2>5. \A k \in Correct : ba'[k] = IF k = n THEN t ELSE ba[k]
    BY <2>4 DEF IInv
  <2>6. \A k \in Correct : (IF ba'[k].termed THEN {ba'[k].output} ELSE {})
                             = (IF ba[k].termed THEN {ba[k].output} ELSE {})
    BY <2>1, <2>3, <2>5
  <2> QED
    BY <2>1, <2>6 DEF Abstract!Propose
<1>3. ASSUME NEW n \in Correct, NEW m \in msgs \cup FaultyMsg, Recv(n, m)
      PROVE  \/ \E v \in BOOLEAN : Abstract!Decide(n, v)
             \/ UNCHANGED <<proposed, Decision>>
  <2>1. ~ba[n].termed /\ proposed' = proposed
    BY <1>3 DEF Recv
  <2>2. \A k \in Correct : k # n => ba'[k] = ba[k]
    BY <1>3 DEF Recv, Become, IInv
  <2>3. CASE ~ba'[n].termed
    <3>1. \A k \in Correct : (IF ba'[k].termed THEN {ba'[k].output} ELSE {})
                               = (IF ba[k].termed THEN {ba[k].output} ELSE {})
      BY <2>1, <2>2, <2>3
    <3> QED
      BY <2>1, <3>1 DEF Decision
  <2>4. CASE ba'[n].termed
    <3>1. /\ ba'[n].output \in proposed'
          /\ \A k \in Correct : ba'[k].termed => ba'[k].output = ba'[n].output
      <4>1. SaidByCorrect(msgs') /\ MessagesJustified(msgs', proposed') /\ OneVoteEach(msgs')
        BY DEF IInv, SaidByCorrect
      <4>2. \A k \in Correct : ba'[k].termed => Finished(msgs', k, ba'[k])
        BY DEF IInv
      <4> QED
        BY <2>4, <4>1, <4>2, OutputsAgree
    <3>2. PICK v \in BOOLEAN : v = ba'[n].output
      BY <3>1 DEF IInv
    <3>3. Decision[n] = {}
      BY <2>1 DEF Decision
    <3>4. \A k \in Correct : Decision[k] \subseteq {v}
      BY <2>1, <2>2, <3>1, <3>2 DEF Decision
    <3>5. Decision' = [Decision EXCEPT ![n] = {v}]
      BY <2>2, <2>4, <3>2 DEF Decision
    <3>6. Abstract!Decide(n, v)
      BY <2>1, <3>1, <3>2, <3>3, <3>4, <3>5, Zenon DEF Abstract!Decide, Decision
    <3> QED
      BY <3>6
  <2> QED
    BY <2>3, <2>4
<1> QED
  BY <1>1, <1>2, <1>3 DEF Next, Abstract!Next

(***************************************************************************)
(* The nodes implement the abstract binary agreement, whoever the faulty   *)
(* nodes are and whatever they say: a correct node outputs at most once,   *)
(* in whichever epoch, all output the same value, and it is the input of   *)
(* one of them.                                                            *)
(***************************************************************************)
THEOREM Implements == Spec => ImplementsAgreement
<1>1. Init => Abstract!Init
  BY DEF Init, Abstract!Init, NewBA
<1>2. IInv /\ IInv' /\ [Next]_vars => [Abstract!Next]_<<proposed, Decision>>
  BY StepRefines
<1> QED
  BY <1>1, <1>2, Inductive, PTL DEF Spec, ImplementsAgreement, Abstract!Spec, Decision
=============================================================================
