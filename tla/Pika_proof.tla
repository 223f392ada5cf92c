------------------------------ MODULE Pika_proof ------------------------------
(***************************************************************************)
(* Proofs about Pika and its epochs: what ConfirmUntil makes of references *)
(* that may lie, and that the log is the ledger its epochs confirm, for    *)
(* any number of nodes and epochs, any blocks, any pipeline, parallelism   *)
(* and window.                                                             *)
(***************************************************************************)
EXTENDS Pika, SequenceTheorems, ProtocolParams_proof

\* The reference to node i of the block of j, of those that count.
Level(p, i, j) == IF j \in Accepted(p) THEN p.refs[j][i] ELSE 0
Levels(p, i) == {Level(p, i, j) : j \in Node}
Support(p, i, l) == {j \in Node : Level(p, i, j) >= l}

\* An epoch that has all the blocks that ConfirmUntil looks into, as one that
\* has terminated (LedgerEpoch, TermedIsComplete).
HasAccepted(p) == p \in PikaEpochState /\ Accepted(p) \subseteq Decoded(p)

-----------------------------------------------------------------------------
LEMMA LevelIsNat ==
  ASSUME NEW p, HasAccepted(p), NEW i \in Node, NEW j \in Node
  PROVE  Level(p, i, j) \in Nat
<1>1. CASE j \in Accepted(p)
  <2>1. p.refs[j] \in References
    BY <1>1 DEF HasAccepted, PikaEpochState, Block, Decoded
  <2> QED
    BY <1>1, <2>1 DEF Level, References
<1>2. CASE j \notin Accepted(p)
  BY <1>2 DEF Level
<1> QED
  BY <1>1, <1>2

\* Of the sets of nodes in a family, one has no strict subset there.
LEMMA SmallestExists ==
  ASSUME NEW T \in SUBSET (SUBSET Node), T # {}
  PROVE  \E A \in T : \A B \in T : B \subseteq A => B = A
<1>1. FiniteSubsetsOf(Node) = SUBSET Node
  BY NodeAssumption, FS_FiniteSubsetsOfFinite
<1>2. IsWellFoundedOn(StrictSubsetOrdering(Node), SUBSET Node)
  BY <1>1, FS_StrictSubsetOrderingWellFounded
<1>3. PICK A \in T : \A B \in T : ~(<<B, A>> \in StrictSubsetOrdering(Node))
  BY <1>2, WFMin
<1> QED
  BY <1>3 DEF StrictSubsetOrdering

\* Some level has enough support, and of these there is a highest.
LEMMA LevelExists ==
  ASSUME NEW p, HasAccepted(p), NEW i \in Node
  PROVE  \E l \in Levels(p, i) :
           /\ Cardinality(Support(p, i, l)) >= F + 1
           /\ \A k \in Levels(p, i) : k > l => Cardinality(Support(p, i, k)) < F + 1
<1>1. Levels(p, i) \in SUBSET Nat
  BY LevelIsNat DEF Levels
<1>2. Levels(p, i) # {}
  <2>1. Node # {}
    BY NodeAssumption, FaultAssumption, FS_EmptySet DEF N
  <2> QED
    BY <2>1 DEF Levels
<1> DEFINE C == {l \in Levels(p, i) : Cardinality(Support(p, i, l)) >= F + 1}
<1>3. C # {}
  <2>1. PICK l \in Levels(p, i) : \A k \in Levels(p, i) : l <= k
    BY <1>1, <1>2, LeastExists
  <2>2. Support(p, i, l) = Node
    BY <1>1, <2>1 DEF Support, Levels
  <2>3. Cardinality(Support(p, i, l)) >= F + 1
    BY <2>2, NIsNat, FaultAssumption DEF N
  <2> QED
    BY <2>3
<1>4. PICK l \in C : \A k \in C : Support(p, i, k) \subseteq Support(p, i, l)
                                    => Support(p, i, k) = Support(p, i, l)
  <2> DEFINE T == {Support(p, i, k) : k \in C}
  <2>1. T \in SUBSET (SUBSET Node) /\ T # {}
    BY <1>3 DEF Support
  <2>2. PICK A \in T : \A B \in T : B \subseteq A => B = A
    BY <2>1, SmallestExists
  <2> QED
    BY <2>2
<1>5. ASSUME NEW k \in Levels(p, i), k > l PROVE ~(Cardinality(Support(p, i, k)) >= F + 1)
  <2> SUFFICES ASSUME k \in C PROVE FALSE
    OBVIOUS
  <2>1. PICK j \in Node : Level(p, i, j) = l
    BY DEF Levels
  <2>2. j \in Support(p, i, l) /\ j \notin Support(p, i, k)
    BY <1>1, <1>5, <2>1 DEF Support
  <2>3. Support(p, i, k) \subseteq Support(p, i, l)
    BY <1>1, <1>5, LevelIsNat DEF Support
  <2> QED
    BY <1>4, <2>2, <2>3
<1>6. \A k \in Levels(p, i) : Cardinality(Support(p, i, k)) \in Nat
  BY SubsetFinite DEF Support
<1> QED
  BY <1>4, <1>5, <1>6, FaultAssumption

\* ConfirmUntil chooses it.
LEMMA ConfirmUntilIs ==
  ASSUME NEW p, HasAccepted(p), NEW i \in Node
  PROVE  /\ ConfirmUntil(p)[i] \in Levels(p, i)
         /\ Cardinality(Support(p, i, ConfirmUntil(p)[i])) >= F + 1
         /\ \A k \in Levels(p, i) :
              k > ConfirmUntil(p)[i] => Cardinality(Support(p, i, k)) < F + 1
<1> DEFINE Highest(l) ==
             /\ Cardinality(Support(p, i, l)) >= F + 1
             /\ \A k \in Levels(p, i) : k > l => Cardinality(Support(p, i, k)) < F + 1
<1>1. ConfirmUntil(p)[i] = CHOOSE l \in Levels(p, i) : Highest(l)
  BY DEF ConfirmUntil, Levels, Support, Level
<1>2. \E l \in Levels(p, i) : Highest(l)
  BY LevelExists
<1> HIDE DEF Highest
<1>3. ConfirmUntil(p)[i] \in Levels(p, i) /\ Highest(ConfirmUntil(p)[i])
  BY <1>1, <1>2
<1> QED
  BY <1>3 DEF Highest

-----------------------------------------------------------------------------
(***************************************************************************)
(* Two nodes that have accepted the same blocks confirm the same levels,   *)
(* whatever else differs in what they hold of the epoch.                   *)
(***************************************************************************)
THEOREM ConfirmAgrees ==
  ASSUME NEW p, NEW q, Accepted(p) = Accepted(q),
         \A j \in Accepted(p) : p.refs[j] = q.refs[j]
  PROVE  ConfirmUntil(p) = ConfirmUntil(q)
<1>1. \A i, j \in Node : Level(p, i, j) = Level(q, i, j)
  BY DEF Level
<1>2. \A i \in Node : Levels(p, i) = Levels(q, i)
  BY <1>1 DEF Levels
<1>3. \A i \in Node : \A l : Support(p, i, l) = Support(q, i, l)
  BY <1>1 DEF Support
<1> DEFINE Until(r) ==
      [i \in Node |->
         CHOOSE l \in Levels(r, i) :
           /\ Cardinality(Support(r, i, l)) >= F + 1
           /\ \A k \in Levels(r, i) : k > l => Cardinality(Support(r, i, k)) < F + 1]
<1>4. ConfirmUntil(p) = Until(p) /\ ConfirmUntil(q) = Until(q)
  BY DEF ConfirmUntil, Levels, Support, Level
<1>5. Until(p) = Until(q)
  BY <1>2, <1>3
<1> QED
  BY <1>4, <1>5

(***************************************************************************)
(* Nothing is confirmed on the word of the faulty nodes alone: some        *)
(* correct node's accepted block refers as far (so the blocks can be       *)
(* retrieved, and the levels are of epochs that exist).                    *)
(***************************************************************************)
THEOREM ConfirmedIsVouched ==
  ASSUME NEW p, HasAccepted(p), NEW i \in Node,
         NEW Bad \in SUBSET Node, Cardinality(Bad) <= F, ConfirmUntil(p)[i] # 0
  PROVE  \E j \in Accepted(p) \ Bad : p.refs[j][i] >= ConfirmUntil(p)[i]
<1> DEFINE c == ConfirmUntil(p)[i]
<1>1. c \in Nat /\ Cardinality(Support(p, i, c)) >= F + 1
  BY ConfirmUntilIs, LevelIsNat DEF Levels
<1>2. PICK j \in Support(p, i, c) : j \notin Bad
  BY <1>1, OneIsCorrect DEF Support
<1>3. j \in Node /\ Level(p, i, j) >= c
  BY <1>2 DEF Support
<1>4. j \in Accepted(p)
  BY <1>1, <1>3 DEF Level
<1> QED
  BY <1>2, <1>3, <1>4 DEF Level

(***************************************************************************)
(* No censorship: what all correct nodes' accepted blocks refer to is      *)
(* confirmed, if N-F blocks are accepted (LedgerEpoch, AcceptsEnough), for *)
(* then F+1 of them are of correct nodes.                                  *)
(***************************************************************************)
THEOREM ReferredIsConfirmed ==
  ASSUME NEW p, HasAccepted(p), NEW i \in Node, NEW l \in Nat,
         NEW Bad \in SUBSET Node, Cardinality(Bad) <= F,
         Cardinality(Accepted(p)) >= N - F,
         \A j \in Accepted(p) \ Bad : p.refs[j][i] >= l
  PROVE  ConfirmUntil(p)[i] >= l
<1> DEFINE X == Accepted(p) \ Bad
           c == ConfirmUntil(p)[i]
           S == {Level(p, i, j) : j \in X}
<1>1. c \in Nat
  BY ConfirmUntilIs, LevelIsNat DEF Levels
<1> SUFFICES ASSUME c < l PROVE FALSE
  BY <1>1
<1>2. Accepted(p) \in SUBSET Node /\ X \in SUBSET Node
  BY DEF Accepted
<1>3. Cardinality(X) >= F + 1
  <2>1. Cardinality(X) >= N - 2 * F
    BY <1>2, MostAreCorrect
  <2> QED
    BY <1>2, <2>1, SubsetFinite, NIsNat, FaultAssumption
<1>4. S \in SUBSET Nat /\ S # {}
  <2>1. X # {}
    BY <1>3, FS_EmptySet, FaultAssumption
  <2> QED
    BY <1>2, <2>1, LevelIsNat
<1>5. PICK m \in S : \A k \in S : m <= k
  BY <1>4, LeastExists
<1>6. m \in Levels(p, i) /\ m >= l
  BY <1>2, <1>5 DEF Levels, Level
<1>7. X \in SUBSET Support(p, i, m) /\ Support(p, i, m) \in SUBSET Node
  BY <1>2, <1>4, <1>5, LevelIsNat DEF Support
<1>8. Cardinality(X) <= Cardinality(Support(p, i, m))
  BY <1>7, SubsetCardinality
<1>9. Cardinality(Support(p, i, m)) < F + 1
  <2>1. m > c
    BY <1>1, <1>4, <1>5, <1>6
  <2> QED
    BY <1>6, <2>1, ConfirmUntilIs
<1> QED
  BY <1>2, <1>3, <1>7, <1>8, <1>9, SubsetFinite, FaultAssumption

-----------------------------------------------------------------------------
(***************************************************************************)
(* Epoch e at the node.  A terminated epoch has all its outputs and all    *)
(* accepted blocks; a block of another node is one it may disperse, the    *)
(* node's own refers to earlier epochs, and at most F blocks are rejected. *)
(***************************************************************************)
Rejected(p) == {i \in Node : p.output[i] = {FALSE}}

EpochOK(e, p) ==
  /\ p \in PikaEpochState
  /\ p.termed => AllBATerm(p) /\ Accepted(p) \subseteq Decoded(p)
  /\ \A j \in Node \ {self} : p.refs[j] \in Blocks[e][j] \cup {NoBlock}
  /\ p.refs[self] # NoBlock => \A k \in Node : p.refs[self][k] <= e
  /\ Cardinality(Rejected(p)) <= F

StateOK(s) ==
  /\ s.len \in 1..(maxEpoch + 1)
  /\ s \in PikaStateUpTo(s.len)
  /\ \A e \in 0..(s.len - 1) : EpochOK(e, s.epochs[e])

(***************************************************************************)
(* The log: what the epochs that are output confirm, in the order of the   *)
(* first epoch that confirms a block, the ID of its node, its own epoch.   *)
(***************************************************************************)
ConfirmedBy(s, e) ==
  {b \in Entry : \/ b[1] < ConfirmUntil(s.epochs[e])[b[2]]
                 \/ b[1] = e /\ b[2] \in Accepted(s.epochs[e])}

FirstBy(s, b, d) ==
  /\ d \in 0..(s.firstUnoutput - 1) /\ b \in ConfirmedBy(s, d)
  /\ \A c \in 0..(d - 1) : b \notin ConfirmedBy(s, c)

Id(i) == CHOOSE k \in 1..N : NodeAt[k] = i

Before(s, b, c) ==
  \E d, f \in 0..(s.firstUnoutput - 1) :
    /\ FirstBy(s, b, d) /\ FirstBy(s, c, f)
    /\ \/ d < f
       \/ d = f /\ Id(b[2]) < Id(c[2])
       \/ d = f /\ b[2] = c[2] /\ b[1] < c[1]

LogGood(s) ==
  /\ \A e \in 0..(s.firstUnoutput - 1) : s.epochs[e].termed
  /\ \A b \in Entry : b \in ToSet(s.log)
                        <=> \E d \in 0..(s.firstUnoutput - 1) : b \in ConfirmedBy(s, d)
  /\ \A lv \in 0..(s.len - 1) : \A i \in Node :
       i \in s.epochs[lv].outputted <=> <<lv, i>> \in ToSet(s.log)
  /\ \A b \in ToSet(s.log) : b[1] < s.len /\ b[2] \in Decoded(s.epochs[b[1]])
  /\ \A j, k \in 1..Len(s.log) : j < k => Before(s, s.log[j], s.log[k])

Good(s) == StateOK(s) /\ LogGood(s)

IInv == Good(pika) /\ started \in BOOLEAN

-----------------------------------------------------------------------------
(***************************************************************************)
(* What happens to an epoch at the node: an epoch that is right stays      *)
(* right, and what it has decided, printed or decoded is kept.             *)
(***************************************************************************)
EpochGrows(p, q) ==
  /\ Decoded(p) \subseteq Decoded(q)
  /\ q.outputted = p.outputted
  /\ p.termed => /\ q.termed /\ q.output = p.output
                 /\ \A j \in Accepted(p) : q.refs[j] = p.refs[j]

EpochKept(e, p, q) == EpochOK(e, q) /\ EpochGrows(p, q)

\* q differs from p in the progress of VIDs, requests and inputs at most.
SameBlocks(p, q) ==
  /\ q \in PikaEpochState /\ q.refs = p.refs /\ q.output = p.output
  /\ q.termed = p.termed /\ q.outputted = p.outputted

LEMMA SameBlocksKept ==
  ASSUME NEW e \in Nat, NEW p, NEW q, EpochOK(e, p), SameBlocks(p, q)
  PROVE  EpochKept(e, p, q)
<1>1. Decoded(q) = Decoded(p) /\ Accepted(q) = Accepted(p) /\ Rejected(q) = Rejected(p)
  BY DEF SameBlocks, Decoded, Accepted, Rejected
<1>2. AllBATerm(q) <=> AllBATerm(p)
  BY DEF SameBlocks, AllBATerm
<1> QED
  BY <1>1, <1>2 DEF EpochKept, EpochOK, EpochGrows, SameBlocks

LEMMA KeptTrans ==
  ASSUME NEW e \in Nat, NEW p, NEW q, NEW r, EpochKept(e, p, q), EpochKept(e, q, r)
  PROVE  EpochKept(e, p, r)
<1>1. p.termed => Accepted(p) = Accepted(q)
  BY DEF EpochKept, EpochGrows, Accepted
<1> QED
  BY <1>1 DEF EpochKept, EpochGrows

LEMMA RequestSame ==
  ASSUME NEW p \in PikaEpochState, NEW S \in SUBSET Node
  PROVE  SameBlocks(p, Request(p, S))
BY DEF SameBlocks, Request, PikaEpochState

LEMMA ReleaseSame ==
  ASSUME NEW p \in PikaEpochState, NEW S \in SUBSET Node
  PROVE  SameBlocks(p, Release(p, S))
BY DEF SameBlocks, Release, PikaEpochState

LEMMA RetrieveSame ==
  ASSUME NEW p \in PikaEpochState, NEW i \in Node
  PROVE  SameBlocks(p, Retrieve(p, i))
<1> DEFINE q == Release(p, {i})
<1>1. SameBlocks(p, q)
  BY ReleaseSame
<1>2. SameBlocks(q, Request(q, {i}))
  BY <1>1, RequestSame DEF SameBlocks
<1>3. Retrieve(p, i) = q \/ Retrieve(p, i) = Request(q, {i})
  BY DEF Retrieve
<1> HIDE DEF q
<1> QED
  BY <1>1, <1>2, <1>3 DEF SameBlocks

LEMMA InputSame ==
  ASSUME NEW p \in PikaEpochState, NEW S \in SUBSET Node, NEW v \in BOOLEAN
  PROVE  SameBlocks(p, InputBA(p, S, v))
<1> DEFINE g == [i \in Node |-> IF i \in S /\ p.input[i] = {} THEN {v} ELSE p.input[i]]
<1>1. g \in [Node -> {{}, {TRUE}, {FALSE}}]
  <2>1. {v} \in {{}, {TRUE}, {FALSE}}
    OBVIOUS
  <2> QED
    BY <2>1 DEF PikaEpochState
<1>2. InputBA(p, S, v) = [p EXCEPT !.input = g]
  BY DEF InputBA
<1> HIDE DEF g
<1> QED
  BY <1>1, <1>2 DEF SameBlocks, PikaEpochState

LEMMA StartRequestingSame ==
  ASSUME NEW p \in PikaEpochState
  PROVE  SameBlocks(p, StartRequesting(p))
<1> DEFINE q == [p EXCEPT !.requestStarted = TRUE]
<1>1. SameBlocks(p, q) /\ SameBlocks(p, p)
  BY DEF SameBlocks, PikaEpochState
<1>2. p.released \in SUBSET Node
  BY DEF PikaEpochState
<1>3. SameBlocks(q, Request(q, p.released))
  BY <1>1, <1>2, RequestSame DEF SameBlocks
<1>4. StartRequesting(p) = p \/ StartRequesting(p) = Request(q, p.released)
  BY DEF StartRequesting
<1> HIDE DEF q
<1> QED
  BY <1>1, <1>3, <1>4 DEF SameBlocks

LEMMA ConcludeKept ==
  ASSUME NEW e \in Nat, NEW p, EpochOK(e, p)
  PROVE  EpochKept(e, p, Conclude(p))
<1> DEFINE q == Conclude(p)
           done == p.termed \/ Accepted(p) \subseteq Decoded(p)
<1>0. p \in PikaEpochState
  BY DEF EpochOK
<1>1. SameBlocks(p, p)
  BY <1>0 DEF SameBlocks
<1>2. CASE ~AllBATerm(p)
  BY <1>1, <1>2, SameBlocksKept DEF Conclude
<1>3. CASE AllBATerm(p)
  <2>1. q = [p EXCEPT !.hptermed = TRUE, !.termed = done]
    BY <1>3 DEF Conclude
  <2>2. /\ q \in PikaEpochState /\ q.refs = p.refs /\ q.output = p.output
        /\ q.outputted = p.outputted
    BY <1>0, <2>1 DEF PikaEpochState
  <2>3. q.termed <=> done
    BY <1>0, <2>1, Zenon DEF PikaEpochState
  <2> HIDE DEF q
  <2>4. Decoded(q) = Decoded(p) /\ Accepted(q) = Accepted(p) /\ Rejected(q) = Rejected(p)
    BY <2>2 DEF Decoded, Accepted, Rejected
  <2>5. AllBATerm(q)
    BY <1>3, <2>2 DEF AllBATerm
  <2>6. q.termed => Accepted(q) \subseteq Decoded(q)
    BY <2>3, <2>4 DEF EpochOK
  <2>7. p.termed => q.termed
    BY <2>3
  <2>8. EpochOK(e, q)
    BY <2>2, <2>4, <2>5, <2>6 DEF EpochOK
  <2>9. EpochGrows(p, q)
    BY <2>2, <2>4, <2>7 DEF EpochGrows
  <2> QED
    BY <2>8, <2>9 DEF EpochKept, q
<1> QED
  BY <1>2, <1>3

LEMMA DecodeKept ==
  ASSUME NEW e \in Nat, NEW p, EpochOK(e, p), NEW i \in Node, NEW block \in Block,
         i = self => block = NoBlock \/ \A k \in Node : block[k] <= e,
         i # self => block \in Blocks[e][i] \cup {NoBlock}
  PROVE  EpochKept(e, p, Decode(p, i, block))
<1> DEFINE new == IF p.refs[i] = NoBlock THEN block ELSE p.refs[i]
           q == Decode(p, i, block)
<1>0. p \in PikaEpochState
  BY DEF EpochOK
<1>1. new \in Block
  BY <1>0 DEF PikaEpochState
<1>2. q = [p EXCEPT !.refs[i] = new]
  BY DEF Decode
<1> HIDE DEF new
<1>3. /\ q \in PikaEpochState /\ q.output = p.output /\ q.termed = p.termed
      /\ q.outputted = p.outputted /\ q.refs = [p.refs EXCEPT ![i] = new]
  <2> DEFINE r == [p.refs EXCEPT ![i] = new]
  <2>1. q = [p EXCEPT !.refs = r]
    BY <1>2
  <2>2. r \in [Node -> Block]
    BY <1>0, <1>1 DEF PikaEpochState
  <2> HIDE DEF r, q
  <2>3. /\ q \in PikaEpochState /\ q.output = p.output /\ q.termed = p.termed
        /\ q.outputted = p.outputted /\ q.refs = r
    BY <1>0, <2>1, <2>2 DEF PikaEpochState
  <2> QED
    BY <2>3 DEF r
<1> HIDE DEF q
<1>4. \A j \in Node : q.refs[j] = IF j = i THEN new ELSE p.refs[j]
  BY <1>0, <1>3 DEF PikaEpochState
<1>5. \A j \in Decoded(p) : q.refs[j] = p.refs[j]
  BY <1>4 DEF Decoded, new
<1>6. Decoded(p) \subseteq Decoded(q)
  BY <1>5 DEF Decoded
<1>7. Accepted(q) = Accepted(p) /\ Rejected(q) = Rejected(p) /\ AllBATerm(q) = AllBATerm(p)
  BY <1>3 DEF Accepted, Rejected, AllBATerm
<1>8. \A j \in Node \ {self} : q.refs[j] \in Blocks[e][j] \cup {NoBlock}
  BY <1>4 DEF EpochOK, new
<1>9. q.refs[self] # NoBlock => \A k \in Node : q.refs[self][k] <= e
  BY <1>4, PikaAssumption DEF EpochOK, new, Correct
<1>10. EpochOK(e, q)
  BY <1>3, <1>6, <1>7, <1>8, <1>9 DEF EpochOK
<1>11. EpochGrows(p, q)
  BY <1>3, <1>5, <1>6 DEF EpochGrows, EpochOK
<1> QED
  BY <1>10, <1>11 DEF EpochKept, q

-----------------------------------------------------------------------------
\* Init of an epoch, with References to earlier epochs.
LEMMA InitEpochKept ==
  ASSUME NEW e \in Nat, NEW p, EpochOK(e, p), NEW refs \in References,
         \A k \in Node : refs[k] <= e
  PROVE  EpochKept(e, p, InitEpoch(p, self, refs))
<1>1. self \in Node /\ refs \in Block
  BY PikaAssumption DEF Correct, Block
<1> DEFINE q == Decode(p, self, refs)
           r == Release(q, Node)
<1>2. EpochKept(e, p, q)
  BY <1>1, DecodeKept
<1>3. q \in PikaEpochState /\ EpochOK(e, q)
  BY <1>2 DEF EpochKept, EpochOK
<1> HIDE DEF q
<1>4. SameBlocks(q, r)
  BY <1>3, ReleaseSame
<1>5. EpochKept(e, q, r)
  BY <1>3, <1>4, SameBlocksKept
<1>6. r \in PikaEpochState /\ EpochOK(e, r)
  BY <1>5 DEF EpochKept, EpochOK
<1> HIDE DEF r
<1>7. SameBlocks(r, InputBA(r, {self}, TRUE))
  BY <1>1, <1>6, InputSame
<1>8. EpochKept(e, r, InputBA(r, {self}, TRUE))
  BY <1>6, <1>7, SameBlocksKept
<1>9. EpochKept(e, p, r)
  BY <1>2, <1>5, KeptTrans
<1> QED
  BY <1>8, <1>9, KeptTrans DEF InitEpoch, q, r

-----------------------------------------------------------------------------
\* Recv with a message for VID i.
LEMMA RecvVIDKept ==
  ASSUME NEW e \in Nat, NEW p, EpochOK(e, p), NEW i \in Node,
         NEW isDispersed \in BOOLEAN, NEW isTermed \in BOOLEAN, NEW block \in Block,
         i = self => block = NoBlock,
         i # self => block \in Blocks[e][i] \cup {NoBlock}
  PROVE  EpochKept(e, p, RecvVID(p, i, isDispersed, isTermed, block))
<1> DEFINE D == IF isDispersed THEN p.dispersed \cup {i} ELSE p.dispersed
           V == IF isTermed THEN p.vtermed \cup {i} ELSE p.vtermed
           o == [p EXCEPT !.dispersed = D, !.vtermed = V]
           q == Decode(o, i, block)
           r == Retrieve(InputBA(q, {i}, TRUE), i)
           s == IF i \in q.vtermed THEN r ELSE q
<1>0. p \in PikaEpochState
  BY DEF EpochOK
<1>1. RecvVID(p, i, isDispersed, isTermed, block) = Conclude(s)
  BY DEF RecvVID
<1>2. SameBlocks(p, o)
  <2>1. D \in SUBSET Node /\ V \in SUBSET Node
    BY <1>0 DEF PikaEpochState
  <2> HIDE DEF D, V
  <2> QED
    BY <1>0, <2>1 DEF SameBlocks, PikaEpochState
<1> HIDE DEF o
<1>3. EpochKept(e, p, o)
  BY <1>2, SameBlocksKept
<1>4. EpochKept(e, o, q)
  <2>1. EpochOK(e, o)
    BY <1>3 DEF EpochKept
  <2> QED
    BY <2>1, DecodeKept
<1>5. q \in PikaEpochState /\ EpochOK(e, q)
  BY <1>4 DEF EpochKept, EpochOK
<1> HIDE DEF q
<1>6. EpochKept(e, q, r)
  <2> DEFINE u == InputBA(q, {i}, TRUE)
  <2>1. SameBlocks(q, u)
    BY <1>5, InputSame
  <2> HIDE DEF u
  <2>2. u \in PikaEpochState
    BY <2>1 DEF SameBlocks
  <2>3. SameBlocks(u, Retrieve(u, i))
    BY <2>2, RetrieveSame
  <2>4. SameBlocks(q, Retrieve(u, i))
    BY <2>1, <2>3 DEF SameBlocks
  <2> QED
    BY <1>5, <2>4, SameBlocksKept DEF u
<1> HIDE DEF r
<1>7. SameBlocks(q, q)
  BY <1>5 DEF SameBlocks
<1>8. EpochKept(e, q, s)
  BY <1>5, <1>6, <1>7, SameBlocksKept
<1> HIDE DEF s
<1>9. EpochKept(e, s, Conclude(s))
  BY <1>8, ConcludeKept DEF EpochKept
<1>10. EpochKept(e, p, s)
  BY <1>3, <1>4, <1>8, KeptTrans
<1> QED
  BY <1>1, <1>9, <1>10, KeptTrans

\* Recv with a message for BA i; at most F BAs may output FALSE.
LEMMA RecvBAKept ==
  ASSUME NEW e \in Nat, NEW p, EpochOK(e, p), NEW i \in Node,
         NEW out \in {{}, {TRUE}, {FALSE}},
         FALSE \in out => Cardinality(Rejected(p) \cup {i}) <= F
  PROVE  EpochKept(e, p, RecvBA(p, i, out))
<1>0. p \in PikaEpochState
  BY DEF EpochOK
<1>1. CASE p.output[i] # {} \/ out = {}
  BY <1>1, ConcludeKept DEF RecvBA
<1>2. CASE p.output[i] = {} /\ out # {}
  <2> DEFINE q == [p EXCEPT !.output[i] = out]
             r == IF out = {TRUE} THEN Retrieve(q, i) ELSE q
             t == InputFalse(r)
  <2>1. RecvBA(p, i, out) = Conclude(t)
    BY <1>2 DEF RecvBA
  <2>2. q = [p EXCEPT !.output = [p.output EXCEPT ![i] = out]]
    OBVIOUS
  <2> DEFINE g == [p.output EXCEPT ![i] = out]
  <2>3. g \in [Node -> {{}, {TRUE}, {FALSE}}] /\ \A j \in Node : g[j] = IF j = i THEN out ELSE p.output[j]
    BY <1>0 DEF PikaEpochState
  <2> HIDE DEF g, q
  <2>4. /\ q \in PikaEpochState /\ q.refs = p.refs /\ q.termed = p.termed
        /\ q.outputted = p.outputted /\ q.output = g
    BY <1>0, <2>2, <2>3 DEF PikaEpochState, g
  <2>5. ~p.termed
    BY <1>2 DEF EpochOK, AllBATerm
  <2>6. Decoded(q) = Decoded(p)
    BY <2>4 DEF Decoded
  <2>7. Cardinality(Rejected(q)) <= F
    <3>1. CASE FALSE \in out
      <4>1. Rejected(q) \in SUBSET (Rejected(p) \cup {i}) /\ Rejected(p) \cup {i} \in SUBSET Node
        BY <2>3, <2>4 DEF Rejected
      <4>2. Cardinality(Rejected(q)) <= Cardinality(Rejected(p) \cup {i})
        BY <4>1, SubsetCardinality
      <4>3. Cardinality(Rejected(q)) \in Nat /\ Cardinality(Rejected(p) \cup {i}) \in Nat
        BY <4>1, SubsetFinite
      <4> QED
        BY <3>1, <4>2, <4>3, FaultAssumption
    <3>2. CASE FALSE \notin out
      <4>1. out = {TRUE}
        BY <1>2, <3>2
      <4>2. out # {FALSE} /\ p.output[i] # {FALSE}
        BY <1>2, <4>1
      <4>3. Rejected(q) = Rejected(p)
        BY <2>3, <2>4, <4>2 DEF Rejected
      <4> QED
        BY <4>3 DEF EpochOK
    <3> QED
      BY <3>1, <3>2
  <2>8. EpochKept(e, p, q)
    <3>1. EpochOK(e, q)
      BY <2>4, <2>5, <2>7 DEF EpochOK
    <3>2. EpochGrows(p, q)
      BY <2>4, <2>5, <2>6 DEF EpochGrows
    <3> QED
      BY <3>1, <3>2 DEF EpochKept
  <2>9. SameBlocks(q, r)
    <3>1. SameBlocks(q, q) /\ SameBlocks(q, Retrieve(q, i))
      BY <2>4, RetrieveSame DEF SameBlocks
    <3> QED
      BY <3>1
  <2> HIDE DEF r
  <2>10. SameBlocks(r, t)
    <3>1. r \in PikaEpochState
      BY <2>9 DEF SameBlocks
    <3>2. SameBlocks(r, r) /\ SameBlocks(r, InputBA(r, Node, FALSE))
      BY <3>1, InputSame DEF SameBlocks
    <3>3. t = r \/ t = InputBA(r, Node, FALSE)
      BY DEF InputFalse
    <3> HIDE DEF t
    <3> QED
      BY <3>2, <3>3
  <2> HIDE DEF t
  <2>11. SameBlocks(q, t)
    BY <2>9, <2>10 DEF SameBlocks
  <2>12. EpochKept(e, q, t)
    BY <2>8, <2>11, SameBlocksKept DEF EpochKept
  <2>13. EpochKept(e, t, Conclude(t))
    BY <2>12, ConcludeKept DEF EpochKept
  <2>14. EpochKept(e, p, t)
    BY <2>8, <2>12, KeptTrans
  <2> QED
    BY <2>1, <2>13, <2>14, KeptTrans
<1> QED
  BY <1>1, <1>2

LEMMA NewPikaEpochOK ==
  ASSUME NEW e \in Nat
  PROVE  EpochOK(e, NewPikaEpoch) /\ NewPikaEpoch.outputted = {}
<1>1. NewPikaEpoch \in PikaEpochState
  BY DEF NewPikaEpoch, PikaEpochState, Block
<1>2. Rejected(NewPikaEpoch) = {}
  <2>1. {} # {FALSE}
    OBVIOUS
  <2> QED
    BY <2>1 DEF NewPikaEpoch, Rejected
<1>3. Cardinality(Rejected(NewPikaEpoch)) <= F
  BY <1>2, FS_EmptySet, FaultAssumption
<1>4. ~NewPikaEpoch.termed /\ \A j \in Node : NewPikaEpoch.refs[j] = NoBlock
  BY DEF NewPikaEpoch
<1>5. self \in Node
  BY PikaAssumption DEF Correct
<1>6. NewPikaEpoch.outputted = {}
  BY DEF NewPikaEpoch
<1> HIDE DEF NewPikaEpoch
<1> QED
  BY <1>1, <1>3, <1>4, <1>5, <1>6 DEF EpochOK

-----------------------------------------------------------------------------
(***************************************************************************)
(* Steps that print nothing: epochs are added and grow.  What the epochs   *)
(* that are output confirm stays, and with it the order of the log.        *)
(***************************************************************************)
Quiet(s, t) ==
  /\ t.log = s.log /\ t.firstUnoutput = s.firstUnoutput /\ s.len <= t.len
  /\ \A e \in 0..(s.len - 1) : EpochGrows(s.epochs[e], t.epochs[e])
  /\ \A e \in s.len..(t.len - 1) : t.epochs[e].outputted = {}

LEMMA Fields ==
  ASSUME NEW s, StateOK(s)
  PROVE  /\ s.len \in Nat \ {0} /\ s.len <= maxEpoch + 1 /\ maxEpoch \in Nat
         /\ s.firstUnoutput \in 0..s.len /\ s.firstUninited \in 0..s.len
         /\ s.numDispersed \in Nat /\ s.numContinuousDispersed \in Nat
         /\ s.log \in Seq(Entry)
         /\ s.epochs \in [0..(s.len - 1) -> PikaEpochState]
         /\ \A e \in 0..(s.len - 1) : s.epochs[e] \in PikaEpochState /\ EpochOK(e, s.epochs[e])
<1>1. maxEpoch \in Nat
  BY PikaAssumption
<1> QED
  BY <1>1 DEF StateOK, PikaStateUpTo

\* The epochs that are output confirm the same in s and in t.
SameLedger(s, t) ==
  \A d \in 0..(s.firstUnoutput - 1) : ConfirmedBy(t, d) = ConfirmedBy(s, d)

LEMMA SameLedgerOrder ==
  ASSUME NEW s, NEW t, SameLedger(s, t), s.firstUnoutput \in Nat, t.firstUnoutput \in Nat,
         s.firstUnoutput <= t.firstUnoutput
  PROVE  /\ \A b : \A d \in 0..(s.firstUnoutput - 1) : FirstBy(s, b, d) <=> FirstBy(t, b, d)
         /\ \A b, c : Before(s, b, c) => Before(t, b, c)
<1>1. ASSUME NEW b, NEW d \in 0..(s.firstUnoutput - 1)
      PROVE  FirstBy(s, b, d) <=> FirstBy(t, b, d)
  <2>1. \A c \in 0..d : ConfirmedBy(t, c) = ConfirmedBy(s, c)
    BY DEF SameLedger
  <2>2. d \in 0..(t.firstUnoutput - 1) /\ d \in 0..d
    OBVIOUS
  <2>3. \A c \in 0..(d - 1) : c \in 0..d
    OBVIOUS
  <2> QED
    BY <2>1, <2>2, <2>3 DEF FirstBy
<1>2. \A d \in 0..(s.firstUnoutput - 1) : d \in 0..(t.firstUnoutput - 1)
  OBVIOUS
<1> QED
  BY <1>1, <1>2 DEF Before

LEMMA QuietKeeps ==
  ASSUME NEW s, NEW t, StateOK(s), LogGood(s), StateOK(t), Quiet(s, t)
  PROVE  LogGood(t)
<1> DEFINE n == s.firstUnoutput
<1>1. n \in 0..s.len /\ s.len \in Nat /\ t.len \in Nat /\ t.firstUnoutput = n /\ t.log = s.log
      /\ s.len <= t.len
  BY Fields DEF Quiet
<1>2. ASSUME NEW d \in 0..(n - 1)
      PROVE  t.epochs[d].termed /\ ConfirmedBy(t, d) = ConfirmedBy(s, d)
  <2>1. d \in 0..(s.len - 1)
    BY <1>1
  <2>2. s.epochs[d].termed
    BY DEF LogGood
  <2>3. /\ t.epochs[d].termed /\ t.epochs[d].output = s.epochs[d].output
        /\ \A j \in Accepted(s.epochs[d]) : t.epochs[d].refs[j] = s.epochs[d].refs[j]
    BY <2>1, <2>2 DEF Quiet, EpochGrows
  <2>4. Accepted(s.epochs[d]) = Accepted(t.epochs[d])
    BY <2>3 DEF Accepted
  <2>5. ConfirmUntil(s.epochs[d]) = ConfirmUntil(t.epochs[d])
    BY <2>3, <2>4, ConfirmAgrees
  <2> QED
    BY <2>3, <2>4, <2>5 DEF ConfirmedBy
<1>3. SameLedger(s, t)
  BY <1>2 DEF SameLedger
<1>4. \A b, c : Before(s, b, c) => Before(t, b, c)
  BY <1>1, <1>3, SameLedgerOrder
<1>5. \A lv \in 0..(t.len - 1) : \A i \in Node :
        i \in t.epochs[lv].outputted <=> <<lv, i>> \in ToSet(t.log)
  <2> SUFFICES ASSUME NEW lv \in 0..(t.len - 1), NEW i \in Node
               PROVE i \in t.epochs[lv].outputted <=> <<lv, i>> \in ToSet(s.log)
    BY <1>1
  <2>1. CASE lv < s.len
    <3>1. lv \in 0..(s.len - 1)
      BY <1>1, <2>1
    <3>2. t.epochs[lv].outputted = s.epochs[lv].outputted
      BY <3>1 DEF Quiet, EpochGrows
    <3> QED
      BY <3>1, <3>2 DEF LogGood
  <2>2. CASE ~(lv < s.len)
    <3>1. lv \in s.len..(t.len - 1)
      BY <1>1, <2>2
    <3>2. t.epochs[lv].outputted = {}
      BY <3>1 DEF Quiet
    <3>3. <<lv, i>> \notin ToSet(s.log)
      BY <2>2 DEF LogGood
    <3> QED
      BY <3>2, <3>3
  <2> QED
    BY <2>1, <2>2
<1>6. ASSUME NEW b \in ToSet(t.log)
      PROVE  b[1] < t.len /\ b[2] \in Decoded(t.epochs[b[1]])
  <2>1. b \in Entry
    BY Fields, <1>1 DEF ToSet
  <2>2. b[1] < s.len /\ b[2] \in Decoded(s.epochs[b[1]])
    BY <1>1 DEF LogGood
  <2>3. b[1] \in 0..(s.len - 1)
    BY <1>1, <2>1, <2>2 DEF Entry, Epoch
  <2>4. Decoded(s.epochs[b[1]]) \subseteq Decoded(t.epochs[b[1]])
    BY <2>3 DEF Quiet, EpochGrows
  <2> QED
    BY <1>1, <2>2, <2>3, <2>4
<1>7. \A b \in Entry : b \in ToSet(t.log)
                        <=> \E d \in 0..(t.firstUnoutput - 1) : b \in ConfirmedBy(t, d)
  BY <1>1, <1>2 DEF LogGood
<1>8. \A j, k \in 1..Len(t.log) : j < k => Before(t, t.log[j], t.log[k])
  BY <1>1, <1>4 DEF LogGood
<1> QED
  BY <1>1, <1>2, <1>5, <1>6, <1>7, <1>8 DEF LogGood

-----------------------------------------------------------------------------
\* The epochs of t are those of s, kept.
LEMMA MapGood ==
  ASSUME NEW s, Good(s), NEW t, t.len = s.len, t \in PikaStateUpTo(s.len),
         t.log = s.log, t.firstUnoutput = s.firstUnoutput,
         \A e \in 0..(s.len - 1) : EpochKept(e, s.epochs[e], t.epochs[e])
  PROVE  Good(t)
<1>1. StateOK(t)
  BY DEF StateOK, Good, EpochKept
<1>2. s.len \in Nat
  BY Fields DEF Good
<1>3. Quiet(s, t)
  BY <1>2 DEF Quiet, EpochKept
<1> QED
  BY <1>1, <1>3, QuietKeeps DEF Good

LEMMA AllocateGood ==
  ASSUME NEW s, Good(s), NEW e \in Epoch
  PROVE  LET t == AllocateUntil(s, e)
         IN  /\ Good(t) /\ e < t.len /\ t.firstUninited = s.firstUninited
<1> DEFINE t == AllocateUntil(s, e)
<1>0. StateOK(s) /\ e \in Nat /\ e <= maxEpoch /\ maxEpoch \in Nat
  BY PikaAssumption DEF Good, Epoch
<1>1. CASE e < s.len
  BY <1>1 DEF AllocateUntil
<1>2. CASE ~(e < s.len)
  <2> DEFINE E == [i \in 0..e |-> IF i < s.len THEN s.epochs[i] ELSE NewPikaEpoch]
  <2>1. t = [s EXCEPT !.len = e + 1, !.epochs = E]
    BY <1>2 DEF AllocateUntil
  <2>2. \A i \in 0..e : EpochOK(i, E[i])
    BY <1>0, Fields, NewPikaEpochOK
  <2>3. E \in [0..e -> PikaEpochState]
    BY <2>2 DEF EpochOK
  <2>4. \A i \in 0..(s.len - 1) : E[i] = s.epochs[i]
    BY <1>0, <1>2, Fields
  <2>5. \A i \in s.len..e : E[i].outputted = {}
    BY <1>0, NewPikaEpochOK, Fields
  <2> HIDE DEF E
  <2>6. /\ t.len = e + 1 /\ t.epochs = E /\ t.log = s.log /\ t.firstUnoutput = s.firstUnoutput
        /\ t.firstUninited = s.firstUninited
    BY <1>0, <2>1 DEF StateOK, PikaStateUpTo
  <2>7. t \in PikaStateUpTo(e + 1)
    <3>1. s.firstUnoutput \in 0..(e + 1) /\ s.firstUninited \in 0..(e + 1) /\ (e + 1) - 1 = e
      BY <1>0, <1>2, Fields
    <3>2. E \in [0..((e + 1) - 1) -> PikaEpochState]
      BY <2>3, <3>1
    <3>3. s \in PikaStateUpTo(s.len)
      BY <1>0 DEF StateOK
    <3> HIDE DEF t
    <3> QED
      BY <2>1, <3>1, <3>2, <3>3 DEF PikaStateUpTo
  <2> HIDE DEF t
  <2>8. StateOK(t)
    BY <1>0, <2>2, <2>6, <2>7 DEF StateOK
  <2>9. Quiet(s, t)
    <3>1. s.len <= t.len
      BY <1>0, <1>2, <2>6, Fields
    <3> QED
      BY <1>0, <2>4, <2>5, <2>6, <3>1 DEF Quiet, EpochGrows
  <2> QED
    BY <1>0, <2>6, <2>8, <2>9, QuietKeeps DEF Good, t
<1> QED
  BY <1>1, <1>2

\* The epochs of a state replaced by E.
LEMMA SetEpochs ==
  ASSUME NEW s, Good(s), NEW E \in [0..(s.len - 1) -> PikaEpochState],
         \A e \in 0..(s.len - 1) : EpochKept(e, s.epochs[e], E[e])
  PROVE  LET t == [s EXCEPT !.epochs = E]
         IN  Good(t) /\ t.len = s.len /\ t.firstUninited = s.firstUninited
<1> DEFINE t == [s EXCEPT !.epochs = E]
<1>1. s \in PikaStateUpTo(s.len)
  BY DEF Good, StateOK
<1>2. /\ t \in PikaStateUpTo(s.len) /\ t.len = s.len /\ t.log = s.log
      /\ t.firstUnoutput = s.firstUnoutput /\ t.epochs = E /\ t.firstUninited = s.firstUninited
  BY <1>1 DEF PikaStateUpTo
<1> HIDE DEF t
<1> QED
  BY <1>2, MapGood DEF t

LEMMA StartRequestsGood ==
  ASSUME NEW s, Good(s)
  PROVE  Good(StartRequests(s))
<1> DEFINE E == [e \in 0..(s.len - 1) |->
                   IF InWindow(s, e) THEN StartRequesting(s.epochs[e]) ELSE s.epochs[e]]
<1>1. StartRequests(s) = [s EXCEPT !.epochs = E]
  BY DEF StartRequests
<1>2. ASSUME NEW e \in 0..(s.len - 1)
      PROVE  E[e] \in PikaEpochState /\ EpochKept(e, s.epochs[e], E[e])
  <2> DEFINE p == s.epochs[e]
  <2>1. e \in Nat /\ p \in PikaEpochState /\ EpochOK(e, p)
    BY Fields DEF Good
  <2>2. E[e] = StartRequesting(p) \/ E[e] = p
    OBVIOUS
  <2> HIDE DEF E, p
  <2>3. SameBlocks(p, E[e])
    <3>1. SameBlocks(p, p) /\ SameBlocks(p, StartRequesting(p))
      BY <2>1, StartRequestingSame DEF SameBlocks
    <3> QED
      BY <2>2, <3>1
  <2>4. EpochKept(e, p, E[e])
    BY <2>1, <2>3, SameBlocksKept
  <2> QED
    BY <2>3, <2>4 DEF SameBlocks, p
<1>3. E \in [0..(s.len - 1) -> PikaEpochState]
  BY <1>2
<1> HIDE DEF E
<1> QED
  BY <1>1, <1>2, <1>3, SetEpochs

LEMMA RequestRefBlocksGood ==
  ASSUME NEW s, Good(s)
  PROVE  Good(RequestRefBlocks(s))
<1> DEFINE ready == {e \in s.firstUnoutput..(s.len - 1) : InWindow(s, e) /\ s.epochs[e].termed}
           until == [e \in ready |-> ConfirmUntil(s.epochs[e])]
           S(lv) == {i \in Node : \E e \in ready : lv < until[e][i]}
           E == [lv \in 0..(s.len - 1) |-> Request(s.epochs[lv], S(lv))]
<1>1. RequestRefBlocks(s) = [s EXCEPT !.epochs = E]
  BY DEF RequestRefBlocks
<1>2. ASSUME NEW e \in 0..(s.len - 1)
      PROVE  E[e] \in PikaEpochState /\ EpochKept(e, s.epochs[e], E[e])
  <2> DEFINE p == s.epochs[e]
  <2>1. e \in Nat /\ p \in PikaEpochState /\ EpochOK(e, p)
    BY Fields DEF Good
  <2>2. S(e) \in SUBSET Node
    OBVIOUS
  <2>3. E[e] = Request(p, S(e))
    OBVIOUS
  <2> HIDE DEF E, p, S
  <2>4. SameBlocks(p, E[e])
    BY <2>1, <2>2, <2>3, RequestSame
  <2>5. EpochKept(e, p, E[e])
    BY <2>1, <2>4, SameBlocksKept
  <2> QED
    BY <2>4, <2>5 DEF SameBlocks, p
<1>3. E \in [0..(s.len - 1) -> PikaEpochState]
  BY <1>2
<1> HIDE DEF E
<1> QED
  BY <1>1, <1>2, <1>3, SetEpochs

\* One epoch received a message, and is counted.
LEMMA CountGood ==
  ASSUME NEW s, Good(s), NEW e \in 0..(s.len - 1), NEW q, EpochKept(e, s.epochs[e], q)
  PROVE  Good(Count([s EXCEPT !.epochs[e] = q], s.epochs[e], q))
<1> DEFINE E == [s.epochs EXCEPT ![e] = q]
           u == [s EXCEPT !.epochs = E]
           t == Count(u, s.epochs[e], q)
           p == s.epochs[e]
           above == {d \in u.numContinuousDispersed..(u.len - 1) : u.epochs[d].hptermed}
           nd == IF q.hptermed /\ ~p.hptermed THEN u.numDispersed + 1 ELSE u.numDispersed
           nc == IF above = {} THEN u.numContinuousDispersed
                 ELSE CHOOSE c \in above : \A d \in above : d <= c
<1>1. u = [s EXCEPT !.epochs[e] = q]
  OBVIOUS
<1>2. StateOK(s)
  BY DEF Good
<1>3. ASSUME NEW d \in 0..(s.len - 1)
      PROVE  E[d] \in PikaEpochState /\ EpochKept(d, s.epochs[d], E[d])
  <2>1. d \in Nat /\ s.epochs[d] \in PikaEpochState /\ EpochOK(d, s.epochs[d])
    BY <1>2, Fields
  <2>2. E[d] = IF d = e THEN q ELSE s.epochs[d]
    BY <1>2, Fields
  <2>3. EpochKept(d, s.epochs[d], s.epochs[d])
    BY <2>1, SameBlocksKept DEF SameBlocks
  <2>4. EpochKept(d, s.epochs[d], E[d])
    BY <2>2, <2>3
  <2> QED
    BY <2>4 DEF EpochKept, EpochOK
<1>4. E \in [0..(s.len - 1) -> PikaEpochState]
  <2>1. DOMAIN E = 0..(s.len - 1) /\ E = [d \in DOMAIN s.epochs |-> E[d]]
    BY <1>2, Fields
  <2> QED
    BY <1>2, <1>3, <2>1, Fields
<1> HIDE DEF E
<1>5. Good(u) /\ u.len = s.len
  BY <1>3, <1>4, SetEpochs
<1> HIDE DEF u
<1>6. t = [u EXCEPT !.numDispersed = nd, !.numContinuousDispersed = nc]
  BY DEF Count
<1>7. nd \in Nat /\ nc \in Nat
  <2>1. u.numDispersed \in Nat /\ u.numContinuousDispersed \in Nat /\ u.len \in Nat
    BY <1>5, Fields DEF Good
  <2>2. CASE above # {}
    <3>1. above \in SUBSET Nat /\ \A c \in above : c < u.len
      BY <2>1
    <3> HIDE DEF above
    <3> DEFINE D == {u.len - c : c \in above}
    <3>2. D \in SUBSET Nat /\ D # {}
      <4>1. \A c \in above : u.len - c \in Nat
        BY <2>1, <3>1
      <4> QED
        BY <2>2, <4>1
    <3> HIDE DEF D
    <3>3. PICK x \in D : \A y \in D : x <= y
      BY <3>2, LeastExists
    <3>4. PICK c \in above : x = u.len - c
      BY DEF D
    <3>5. \A d \in above : u.len - d \in D
      BY DEF D
    <3>6. \A d \in above : d <= c
      BY <2>1, <3>1, <3>3, <3>4, <3>5
    <3>7. nc \in above
      BY <2>2, <3>4, <3>6
    <3>8. nc \in Nat
      BY <3>1, <3>7
    <3> QED
      BY <2>1, <3>8
  <2>3. CASE above = {}
    BY <2>1, <2>3
  <2> QED
    BY <2>1, <2>2, <2>3
<1> HIDE DEF nd, nc, t
<1>8. u \in PikaStateUpTo(u.len)
  BY <1>5 DEF Good, StateOK
<1>9. /\ t \in PikaStateUpTo(u.len) /\ t.len = u.len /\ t.log = u.log
      /\ t.firstUnoutput = u.firstUnoutput /\ t.epochs = u.epochs
  BY <1>6, <1>7, <1>8 DEF PikaStateUpTo
<1>10. \A d \in 0..(u.len - 1) : EpochKept(d, u.epochs[d], t.epochs[d])
  <2> SUFFICES ASSUME NEW d \in 0..(u.len - 1) PROVE EpochKept(d, u.epochs[d], u.epochs[d])
    BY <1>9
  <2>1. d \in Nat /\ u.epochs[d] \in PikaEpochState /\ EpochOK(d, u.epochs[d])
    BY <1>5, Fields DEF Good
  <2> QED
    BY <2>1, SameBlocksKept DEF SameBlocks
<1>11. Good(t)
  BY <1>5, <1>9, <1>10, MapGood
<1> QED
  BY <1>1, <1>11 DEF t

-----------------------------------------------------------------------------
\* A reference is to an epoch before the one that is started.
LEMMA ReferenceBounded ==
  ASSUME NEW s, StateOK(s), NEW i \in Node
  PROVE  Reference(s, i) \in Nat /\ Reference(s, i) <= s.firstUninited
<1> DEFINE e == FirstUndispersed(s, i)
           First(x) == /\ x < s.len => i \notin s.epochs[x].dispersed
                       /\ \A d \in 0..(x - 1) : i \in s.epochs[d].dispersed
<1>1. s.len \in Nat /\ s.firstUninited \in Nat
  BY Fields
<1>2. \E x \in 0..s.len : First(x)
  <2> DEFINE S == {x \in 0..s.len : x < s.len => i \notin s.epochs[x].dispersed}
  <2>1. S \in SUBSET Nat /\ s.len \in S
    BY <1>1
  <2>2. PICK x \in S : \A y \in S : x <= y
    <3> HIDE DEF S
    <3> QED
      BY <2>1, LeastExists
  <2>3. ASSUME NEW d \in 0..(x - 1) PROVE i \in s.epochs[d].dispersed
    <3>1. d \notin S /\ d \in 0..s.len
      BY <1>1, <2>2
    <3> QED
      BY <3>1
  <2> QED
    BY <2>2, <2>3
<1> HIDE DEF First
<1>3. e = CHOOSE x \in 0..s.len : First(x)
  BY DEF FirstUndispersed, First
<1>4. e \in 0..s.len
  BY <1>2, <1>3
<1> HIDE DEF e
<1>5. \/ Reference(s, i) = 0
      \/ Reference(s, i) = s.firstUninited
      \/ Reference(s, i) = e /\ ~(e > s.firstUninited)
  BY DEF Reference, e
<1> QED
  BY <1>1, <1>4, <1>5

LEMMA InitNextEpochGood ==
  ASSUME NEW s, Good(s), CanInitNext(s)
  PROVE  Good(InitNextEpoch(s))
<1> DEFINE e == s.firstUninited
           a == AllocateUntil(s, e)
           refs == [i \in Node |-> Reference(s, i)]
           q == InitEpoch(a.epochs[e], self, refs)
           E == [a.epochs EXCEPT ![e] = q]
           t == InitNextEpoch(s)
<1>1. e \in Epoch /\ e \in Nat
  BY Fields, PikaAssumption DEF Good, CanInitNext, Epoch
<1>2. refs \in References /\ \A k \in Node : refs[k] <= e
  BY ReferenceBounded DEF Good, References
<1> HIDE DEF refs
<1>3. Good(a) /\ e < a.len
  BY <1>1, AllocateGood
<1>4. t = [a EXCEPT !.epochs = E, !.firstUninited = e + 1]
  BY DEF InitNextEpoch, refs
<1> HIDE DEF a, e, t
<1>5. StateOK(a) /\ e \in 0..(a.len - 1)
  BY <1>1, <1>3, Fields DEF Good
<1>6. EpochKept(e, a.epochs[e], q)
  BY <1>1, <1>2, <1>5, Fields, InitEpochKept
<1> HIDE DEF q
<1>7. ASSUME NEW d \in 0..(a.len - 1)
      PROVE  E[d] \in PikaEpochState /\ EpochKept(d, a.epochs[d], E[d])
  <2>1. d \in Nat /\ a.epochs[d] \in PikaEpochState /\ EpochOK(d, a.epochs[d])
    BY <1>5, Fields
  <2>2. E[d] = IF d = e THEN q ELSE a.epochs[d]
    BY <1>5, Fields
  <2>3. EpochKept(d, a.epochs[d], a.epochs[d])
    BY <2>1, SameBlocksKept DEF SameBlocks
  <2>4. EpochKept(d, a.epochs[d], E[d])
    BY <1>6, <2>2, <2>3
  <2> QED
    BY <2>4 DEF EpochKept, EpochOK
<1>8. E \in [0..(a.len - 1) -> PikaEpochState]
  <2>1. DOMAIN E = 0..(a.len - 1) /\ E = [d \in DOMAIN a.epochs |-> E[d]]
    BY <1>5, Fields
  <2> QED
    BY <1>5, <1>7, <2>1, Fields
<1> HIDE DEF E
<1>9. e + 1 \in 0..a.len
  BY <1>5, Fields
<1>10. a \in PikaStateUpTo(a.len)
  BY <1>5 DEF StateOK
<1>11. /\ t \in PikaStateUpTo(a.len) /\ t.len = a.len /\ t.log = a.log
       /\ t.firstUnoutput = a.firstUnoutput /\ t.epochs = E
  BY <1>4, <1>8, <1>9, <1>10 DEF PikaStateUpTo
<1>12. Good(t)
  BY <1>3, <1>7, <1>11, MapGood
<1> QED
  BY <1>12 DEF t

-----------------------------------------------------------------------------
(***************************************************************************)
(* The loop around InitNextEpoch: f[k] are the states after k epochs, as   *)
(* the recursion in InitEpochs has it.                                     *)
(***************************************************************************)
After(s, m, f) ==
  f = [k \in 0..m |->
         IF k = 0 THEN {s} ELSE {InitNextEpoch(t) : t \in {u \in f[k - 1] : CanInitNext(u)}}]

LEMMA AfterExists ==
  ASSUME NEW s, NEW m \in Nat
  PROVE  \E f : After(s, m, f)
<1> DEFINE S == {l \in Nat : ~\E f : After(s, l, f)}
           Following(T) == {InitNextEpoch(t) : t \in {u \in T : CanInitNext(u)}}
<1>1. SUFFICES ASSUME S # {} PROVE FALSE
  OBVIOUS
<1>2. PICK l \in S : \A k \in S : l <= k
  <2> HIDE DEF S
  <2>1. S \in SUBSET Nat
    BY DEF S
  <2> QED
    BY <2>1, <1>1, LeastExists
<1>3. l # 0
  <2> DEFINE f == [k \in 0..0 |-> {s}]
  <2>1. After(s, 0, f)
    BY DEF After
  <2> QED
    BY <2>1
<1>4. l - 1 \in Nat /\ l - 1 \notin S
  BY <1>2, <1>3
<1>5. PICK f : After(s, l - 1, f)
  BY <1>4
<1> DEFINE g == [k \in 0..l |-> IF k = l THEN Following(f[l - 1]) ELSE f[k]]
<1>6. After(s, l, g)
  <2>1. \A k \in 0..(l - 1) : g[k] = f[k]
    BY <1>4
  <2>2. \A k \in 0..(l - 1) : f[k] = IF k = 0 THEN {s} ELSE Following(f[k - 1])
    BY <1>5 DEF After
  <2>3. g[l] = Following(f[l - 1]) /\ g[l - 1] = f[l - 1]
    BY <1>4
  <2>4. g = [k \in 0..l |-> g[k]]
    OBVIOUS
  <2> HIDE DEF g, Following
  <2>5. \A k \in 0..l : g[k] = IF k = 0 THEN {s} ELSE Following(g[k - 1])
    <3> SUFFICES ASSUME NEW k \in 0..l
                 PROVE g[k] = IF k = 0 THEN {s} ELSE Following(g[k - 1])
      OBVIOUS
    <3>1. CASE k = l
      BY <3>1, <1>3, <2>3
    <3>2. CASE k # l
      <4>1. k \in 0..(l - 1)
        BY <3>2, <1>4
      <4>2. CASE k = 0
        BY <4>1, <4>2, <2>1, <2>2
      <4>3. CASE k # 0
        <5>1. k - 1 \in 0..(l - 1)
          BY <4>1, <4>3
        <5>2. g[k - 1] = f[k - 1] /\ g[k] = f[k]
          BY <4>1, <5>1, <2>1
        <5> QED
          BY <4>1, <4>3, <5>2, <2>2
      <4> QED
        BY <4>2, <4>3
    <3> QED
      BY <3>1, <3>2
  <2> QED
    BY <2>4, <2>5 DEF After, Following
<1> QED
  BY <1>2, <1>6

LEMMA InitEpochsGood ==
  ASSUME NEW s, Good(s), NEW t \in InitEpochs(s)
  PROVE  Good(t)
<1> DEFINE m == maxEpoch + 1
           f == CHOOSE g : After(s, m, g)
<1>0. m \in Nat
  BY PikaAssumption
<1>1. After(s, m, f)
  BY <1>0, AfterExists
<1>2. InitEpochs(s) = UNION {f[k] : k \in 0..m}
  BY DEF InitEpochs, After
<1> HIDE DEF f, m
<1> DEFINE S == {k \in 0..m : ~\A u \in f[k] : Good(u)}
<1>3. SUFFICES ASSUME S # {} PROVE FALSE
  BY <1>2
<1>4. PICK k \in S : \A d \in S : k <= d
  <2>1. S \in SUBSET Nat
    OBVIOUS
  <2> HIDE DEF S
  <2> QED
    BY <2>1, <1>3, LeastExists
<1>5. PICK u \in f[k] : ~Good(u)
  BY <1>4
<1>6. k # 0
  BY <1>1, <1>4, <1>5 DEF After
<1>7. k - 1 \in 0..m /\ k - 1 \notin S
  BY <1>0, <1>4, <1>6
<1>8. PICK v \in f[k - 1] : CanInitNext(v) /\ u = InitNextEpoch(v)
  <2>1. f[k] = {InitNextEpoch(v) : v \in {w \in f[k - 1] : CanInitNext(w)}}
    BY <1>1, <1>4, <1>6 DEF After
  <2> QED
    BY <1>5, <2>1
<1>9. Good(v)
  BY <1>7, <1>8
<1> QED
  BY <1>5, <1>8, <1>9, InitNextEpochGood

-----------------------------------------------------------------------------
(***************************************************************************)
(* Sequences in the order of a relation R: one after the other, and        *)
(* FlattenSeq of many, whose recursion g is unfolded.                      *)
(***************************************************************************)
Ordered(q, R) == \A j, k \in 1..Len(q) : j < k => <<q[j], q[k]>> \in R

LEMMA ConcatOrdered ==
  ASSUME NEW S, NEW R, NEW q \in Seq(S), NEW r \in Seq(S), Ordered(q, R), Ordered(r, R),
         \A a \in ToSet(q), b \in ToSet(r) : <<a, b>> \in R
  PROVE  /\ q \o r \in Seq(S)
         /\ Ordered(q \o r, R)
         /\ ToSet(q \o r) = ToSet(q) \cup ToSet(r)
<1> DEFINE m == Len(q)
           n == Len(r)
           c == q \o r
<1>1. m \in Nat /\ n \in Nat /\ c \in Seq(S) /\ Len(c) = m + n
  OBVIOUS
<1>2. \A k \in 1..(m + n) : c[k] = IF k <= m THEN q[k] ELSE r[k - m]
  OBVIOUS
<1>3. /\ DOMAIN q = 1..m /\ DOMAIN r = 1..n /\ DOMAIN c = 1..(m + n)
  BY <1>1
<1>4. ToSet(q) = {q[k] : k \in 1..m} /\ ToSet(r) = {r[k] : k \in 1..n}
      /\ ToSet(c) = {c[k] : k \in 1..(m + n)}
  BY <1>3 DEF ToSet
<1> HIDE DEF c, m, n
<1>5. ASSUME NEW j \in 1..(m + n), NEW k \in 1..(m + n), j < k
      PROVE <<c[j], c[k]>> \in R
  <2>1. CASE k <= m
    <3>1. c[j] = q[j] /\ c[k] = q[k] /\ j \in 1..m /\ k \in 1..m
      BY <1>1, <1>2, <1>5, <2>1
    <3> QED
      BY <1>5, <3>1 DEF Ordered, m
  <2>2. CASE j <= m /\ ~(k <= m)
    <3>1. c[j] = q[j] /\ c[k] = r[k - m] /\ j \in 1..m /\ k - m \in 1..n
      BY <1>1, <1>2, <1>5, <2>2
    <3> QED
      BY <1>4, <3>1
  <2>3. CASE ~(j <= m)
    <3>1. c[j] = r[j - m] /\ c[k] = r[k - m] /\ j - m \in 1..n /\ k - m \in 1..n /\ j - m < k - m
      BY <1>1, <1>2, <1>5, <2>3
    <3> QED
      BY <3>1 DEF Ordered, n
  <2> QED
    BY <2>1, <2>2, <2>3
<1>6. Ordered(c, R)
  BY <1>1, <1>5 DEF Ordered
<1>7. ToSet(c) \subseteq ToSet(q) \cup ToSet(r)
  <2> SUFFICES ASSUME NEW k \in 1..(m + n) PROVE c[k] \in ToSet(q) \cup ToSet(r)
    BY <1>4
  <2>1. CASE k <= m
    BY <1>1, <1>2, <1>4, <2>1
  <2>2. CASE ~(k <= m)
    <3>1. k - m \in 1..n
      BY <1>1, <2>2
    <3> QED
      BY <1>2, <1>4, <2>2, <3>1
  <2> QED
    BY <2>1, <2>2
<1>8. ToSet(q) \cup ToSet(r) \subseteq ToSet(c)
  <2>1. ASSUME NEW k \in 1..m PROVE q[k] \in ToSet(c)
    <3>1. k \in 1..(m + n) /\ k <= m
      BY <1>1
    <3> QED
      BY <1>2, <1>4, <3>1
  <2>2. ASSUME NEW k \in 1..n PROVE r[k] \in ToSet(c)
    <3>1. k + m \in 1..(m + n) /\ ~(k + m <= m) /\ (k + m) - m = k
      BY <1>1
    <3>2. c[k + m] = r[k]
      BY <1>2, <3>1
    <3> QED
      BY <1>4, <3>1, <3>2
  <2> QED
    BY <1>4, <2>1, <2>2
<1> QED
  BY <1>1, <1>6, <1>7, <1>8 DEF c

Flattened(f, m, g) ==
  g = [i \in 1..m |-> IF i = 1 THEN f[i] ELSE g[i - 1] \o f[i]]

LEMMA FlattenedExists ==
  ASSUME NEW f, NEW m \in Nat
  PROVE  \E g : Flattened(f, m, g)
<1> DEFINE S == {l \in Nat : ~\E g : Flattened(f, l, g)}
<1>1. SUFFICES ASSUME S # {} PROVE FALSE
  OBVIOUS
<1>2. PICK l \in S : \A k \in S : l <= k
  <2> HIDE DEF S
  <2>1. S \in SUBSET Nat
    BY DEF S
  <2> QED
    BY <2>1, <1>1, LeastExists
<1>3. l # 0
  <2> DEFINE h == [i \in 1..0 |-> f[i]]
  <2>1. Flattened(f, 0, h)
    BY DEF Flattened
  <2> QED
    BY <2>1
<1>4. l - 1 \in Nat /\ l - 1 \notin S
  BY <1>2, <1>3
<1>5. PICK g : Flattened(f, l - 1, g)
  BY <1>4
<1> DEFINE last == IF l = 1 THEN f[l] ELSE g[l - 1] \o f[l]
           h == [k \in 1..l |-> IF k = l THEN last ELSE g[k]]
<1>6. Flattened(f, l, h)
  <2>1. \A k \in 1..(l - 1) : h[k] = g[k]
    BY <1>4
  <2>2. \A k \in 1..(l - 1) : g[k] = IF k = 1 THEN f[k] ELSE g[k - 1] \o f[k]
    BY <1>5 DEF Flattened
  <2>3. h[l] = last
    BY <1>3, <1>4
  <2>4. h = [k \in 1..l |-> h[k]]
    OBVIOUS
  <2> HIDE DEF h
  <2>5. \A k \in 1..l : h[k] = IF k = 1 THEN f[k] ELSE h[k - 1] \o f[k]
    <3> SUFFICES ASSUME NEW k \in 1..l
                 PROVE h[k] = IF k = 1 THEN f[k] ELSE h[k - 1] \o f[k]
      OBVIOUS
    <3>1. CASE k = 1
      BY <3>1, <1>4, <2>1, <2>2, <2>3
    <3>2. CASE k # 1
      <4>1. k - 1 \in 1..(l - 1)
        BY <3>2, <1>4
      <4>2. h[k - 1] = g[k - 1]
        BY <4>1, <2>1
      <4>3. CASE k = l
        BY <3>2, <4>2, <4>3, <2>3
      <4>4. CASE k # l
        <5>1. k \in 1..(l - 1)
          BY <4>4, <1>4
        <5> QED
          BY <3>2, <4>2, <5>1, <2>1, <2>2
      <4> QED
        BY <4>3, <4>4
    <3> QED
      BY <3>1, <3>2
  <2> QED
    BY <2>4, <2>5 DEF Flattened
<1> QED
  BY <1>2, <1>6

\* m sequences over S, all of one before all of the next.
InRow(S, R, m, f) ==
  /\ m \in Nat /\ f \in [1..m -> Seq(S)]
  /\ \A k \in 1..m : Ordered(f[k], R)
  /\ \A j, k \in 1..m : j < k => \A a \in ToSet(f[j]), b \in ToSet(f[k]) : <<a, b>> \in R

LEMMA FlattenOrdered ==
  ASSUME NEW S, NEW R, NEW m, NEW f, InRow(S, R, m, f)
  PROVE  /\ FlattenSeq(f) \in Seq(S)
         /\ Ordered(FlattenSeq(f), R)
         /\ \A b : b \in ToSet(FlattenSeq(f)) <=> \E k \in 1..m : b \in ToSet(f[k])
<1>a. /\ m \in Nat /\ f \in [1..m -> Seq(S)]
      /\ \A k \in 1..m : Ordered(f[k], R)
  BY DEF InRow
<1>b. \A j, k \in 1..m : j < k => \A a \in ToSet(f[j]), b \in ToSet(f[k]) : <<a, b>> \in R
  BY DEF InRow
<1>0. Len(f) = m /\ f \in Seq(Seq(S))
  BY <1>a
<1>1. CASE m = 0
  <2>1. FlattenSeq(f) = f
    BY <1>0, <1>1 DEF FlattenSeq
  <2>2. f = << >>
    BY <1>0, <1>1
  <2> QED
    BY <1>1, <2>1, <2>2 DEF Ordered, ToSet
<1>2. CASE m # 0
  <2> DEFINE g == CHOOSE h : Flattened(f, m, h)
             To(k) == /\ g[k] \in Seq(S)
                      /\ Ordered(g[k], R)
                      /\ \A b : b \in ToSet(g[k]) <=> \E j \in 1..k : b \in ToSet(f[j])
  <2>1. Flattened(f, m, g)
    BY <1>a, FlattenedExists
  <2>2. FlattenSeq(f) = g[m]
    BY <1>0, <1>2 DEF FlattenSeq, Flattened
  <2> HIDE DEF g
  <2>3. ASSUME NEW k \in 1..m PROVE g[k] = IF k = 1 THEN f[k] ELSE g[k - 1] \o f[k]
    BY <2>1 DEF Flattened
  <2> DEFINE C == {k \in 1..m : ~To(k)}
  <2>4. C = {}
    <3> SUFFICES ASSUME C # {} PROVE FALSE
      OBVIOUS
    <3>1. PICK k \in C : \A d \in C : k <= d
      <4>1. C \in SUBSET Nat
        BY <1>a
      <4> HIDE DEF C
      <4> QED
        BY <4>1, LeastExists
    <3>2. k \in 1..m /\ ~To(k)
      BY <3>1
    <3>3. CASE k = 1
      <4>1. g[1] = f[1] /\ f[1] \in Seq(S) /\ Ordered(f[1], R)
        BY <1>a, <2>3, <3>2, <3>3
      <4>2. \A b : b \in ToSet(g[1]) <=> \E j \in 1..1 : b \in ToSet(f[j])
        BY <4>1
      <4> QED
        BY <3>2, <3>3, <4>1, <4>2
    <3>4. CASE k # 1
      <4>1. k - 1 \in 1..m /\ k - 1 \notin C
        <5>1. k - 1 \in 1..m /\ ~(k <= k - 1)
          BY <1>a, <3>2, <3>4
        <5> HIDE DEF C
        <5> QED
          BY <3>1, <5>1
      <4>2. To(k - 1)
        BY <4>1
      <4>3. g[k] = g[k - 1] \o f[k]
        BY <2>3, <3>2, <3>4
      <4>4. f[k] \in Seq(S) /\ Ordered(f[k], R) /\ g[k - 1] \in Seq(S) /\ Ordered(g[k - 1], R)
        BY <1>a, <3>2, <4>2
      <4>5. \A b : b \in ToSet(g[k - 1]) <=> \E j \in 1..(k - 1) : b \in ToSet(f[j])
        BY <4>2
      <4> HIDE DEF To, C
      <4>6. \A a \in ToSet(g[k - 1]), b \in ToSet(f[k]) : <<a, b>> \in R
        <5> SUFFICES ASSUME NEW a \in ToSet(g[k - 1]), NEW b \in ToSet(f[k]) PROVE <<a, b>> \in R
          OBVIOUS
        <5>1. PICK j \in 1..(k - 1) : a \in ToSet(f[j])
          BY <4>5
        <5>2. j \in 1..m /\ j < k
          BY <1>a, <3>2
        <5> QED
          BY <1>b, <3>2, <5>1, <5>2
      <4>7. /\ g[k] \in Seq(S) /\ Ordered(g[k], R)
            /\ ToSet(g[k]) = ToSet(g[k - 1]) \cup ToSet(f[k])
        BY <4>3, <4>4, <4>6, ConcatOrdered
      <4>8. \A j : j \in 1..k <=> j \in 1..(k - 1) \/ j = k
        BY <1>a, <3>2
      <4>9. \A b : b \in ToSet(g[k]) <=> \E j \in 1..k : b \in ToSet(f[j])
        BY <4>5, <4>7, <4>8
      <4> QED
        BY <3>2, <4>7, <4>9 DEF To
    <3> QED
      BY <3>3, <3>4
  <2>5. To(m)
    <3>1. m \in 1..m
      BY <1>a, <1>2
    <3> HIDE DEF To
    <3> QED
      BY <2>4, <3>1
  <2> QED
    BY <2>2, <2>5
<1> QED
  BY <1>1, <1>2

-----------------------------------------------------------------------------
\* A terminated epoch confirms no levels beyond its own.
LEMMA UntilBounded ==
  ASSUME NEW s, StateOK(s), NEW e \in 0..(s.len - 1), s.epochs[e].termed, NEW i \in Node
  PROVE  ConfirmUntil(s.epochs[e])[i] \in Nat /\ ConfirmUntil(s.epochs[e])[i] <= e
<1> DEFINE p == s.epochs[e]
           u == ConfirmUntil(p)[i]
<1>1. EpochOK(e, p) /\ e \in Nat /\ e \in Epoch
  BY Fields DEF Epoch
<1> HIDE DEF p
<1>2. HasAccepted(p)
  BY <1>1 DEF EpochOK, HasAccepted, p
<1>3. u \in Nat
  BY <1>2, ConfirmUntilIs, LevelIsNat DEF Levels
<1>4. CASE u # 0
  <2>1. Faulty \in SUBSET Node /\ Cardinality(Faulty) <= F
    BY PikaAssumption
  <2>2. PICK j \in Accepted(p) \ Faulty : p.refs[j][i] >= u
    BY <1>2, <1>4, <2>1, ConfirmedIsVouched
  <2>3. j \in Correct /\ j \in Node /\ p.refs[j] # NoBlock
    BY <1>2, <2>2 DEF Correct, Accepted, HasAccepted, Decoded
  <2>4. p.refs[j] \in References
    BY <1>2, <2>3 DEF HasAccepted, PikaEpochState, Block
  <2>5. p.refs[j][i] \in Nat
    BY <2>4 DEF References
  <2>6. p.refs[j][i] <= e
    <3>1. CASE j = self
      BY <1>1, <2>3, <3>1 DEF EpochOK
    <3>2. CASE j # self
      <4>1. p.refs[j] \in Blocks[e][j]
        BY <1>1, <2>3, <3>2 DEF EpochOK
      <4>2. \A b \in Blocks[e][j] : \A k \in Node : b[k] <= e
        BY <1>1, <2>3, <3>2, PikaAssumption
      <4> QED
        BY <4>1, <4>2
    <3> QED
      BY <3>1, <3>2
  <2> QED
    BY <1>1, <1>3, <2>2, <2>5, <2>6 DEF p
<1>5. CASE u = 0
  BY <1>1, <1>5 DEF p
<1> QED
  BY <1>4, <1>5

LEMMA RetrievedBelow ==
  ASSUME NEW s, StateOK(s), NEW i \in Node
  PROVE  /\ FirstUnretrieved(s, i) \in 0..s.len
         /\ \A d \in 0..(FirstUnretrieved(s, i) - 1) : i \in Decoded(s.epochs[d])
<1> DEFINE First(x) == /\ x < s.len => i \notin Decoded(s.epochs[x])
                       /\ \A d \in 0..(x - 1) : i \in Decoded(s.epochs[d])
<1>1. s.len \in Nat
  BY Fields
<1>2. \E x \in 0..s.len : First(x)
  <2> DEFINE S == {x \in 0..s.len : x < s.len => i \notin Decoded(s.epochs[x])}
  <2>1. S \in SUBSET Nat /\ s.len \in S
    BY <1>1
  <2>2. PICK x \in S : \A y \in S : x <= y
    <3> HIDE DEF S
    <3> QED
      BY <2>1, LeastExists
  <2>3. ASSUME NEW d \in 0..(x - 1) PROVE i \in Decoded(s.epochs[d])
    <3>1. d \notin S /\ d \in 0..s.len
      BY <1>1, <2>2
    <3> QED
      BY <3>1
  <2> QED
    BY <2>2, <2>3
<1>3. FirstUnretrieved(s, i) = CHOOSE x \in 0..s.len : First(x)
  BY DEF FirstUnretrieved
<1> HIDE DEF First
<1>4. FirstUnretrieved(s, i) \in 0..s.len /\ First(FirstUnretrieved(s, i))
  BY <1>2, <1>3
<1> QED
  BY <1>4 DEF First

\* The block to be printed, if it has not been.
LEMMA ProbeIs ==
  ASSUME NEW s, NEW b \in Entry, NEW R
  PROVE  /\ Probe(s, b) \in Seq(Entry)
         /\ Ordered(Probe(s, b), R)
         /\ \A c : c \in ToSet(Probe(s, b)) <=> c = b /\ Unoutput(s, b)
<1>1. CASE Unoutput(s, b)
  <2>1. Probe(s, b) = <<b>>
    BY <1>1 DEF Probe
  <2>2. <<b>> \in Seq(Entry) /\ Len(<<b>>) = 1 /\ DOMAIN <<b>> = 1..1 /\ <<b>>[1] = b
    OBVIOUS
  <2>3. Ordered(<<b>>, R)
    BY <2>2 DEF Ordered
  <2>4. ToSet(<<b>>) = {b}
    BY <2>2 DEF ToSet
  <2> QED
    BY <1>1, <2>1, <2>2, <2>3, <2>4
<1>2. CASE ~Unoutput(s, b)
  <2>1. Probe(s, b) = << >>
    BY <1>2 DEF Probe
  <2>2. << >> \in Seq(Entry) /\ Ordered(<< >>, R) /\ ToSet(<< >>) = {}
    BY DEF Ordered, ToSet
  <2> QED
    BY <1>2, <2>1, <2>2
<1> QED
  BY <1>1, <1>2

\* An epoch that PrintProbes is called for, and the blocks it prints.
MayPrint(s, e) ==
  /\ Good(s) /\ e = s.firstUnoutput /\ e < s.len
  /\ s.epochs[e].termed /\ BlocksReady(s, e)

NewBlocks(s, e) == ConfirmedBy(s, e) \ ToSet(s.log)

\* The blocks of one node, in the order of their epochs.
SameNode == {x \in Entry \X Entry : x[1][2] = x[2][2] /\ x[1][1] < x[2][1]}

LEMMA ProbesOfIs ==
  ASSUME NEW s, NEW e, MayPrint(s, e), NEW i \in Node
  PROVE  /\ ProbesOf(s, e, i) \in Seq(Entry)
         /\ Ordered(ProbesOf(s, e, i), SameNode)
         /\ \A b : b \in ToSet(ProbesOf(s, e, i)) <=> b \in NewBlocks(s, e) /\ b[2] = i
<1> DEFINE u == ConfirmUntil(s.epochs[e])[i]
           from == LastLevels(s, e)[i]
           n == IF u >= from THEN u - from ELSE 0
           f == [k \in 1..n |-> Probe(s, <<from + k - 1, i>>)]
           own == IF i \in Accepted(s.epochs[e]) THEN Probe(s, <<e, i>>) ELSE << >>
<1>1. /\ StateOK(s) /\ LogGood(s) /\ e \in 0..(s.len - 1) /\ e \in Nat /\ e \in Epoch
      /\ s.len \in Nat /\ e = s.firstUnoutput
  BY Fields DEF MayPrint, Good, Epoch
<1>2. u \in Nat /\ u <= e
  BY <1>1, UntilBounded DEF MayPrint
<1>3. /\ from \in Nat
      /\ \A lv \in 0..(from - 1) : <<lv, i>> \in Entry => <<lv, i>> \in ToSet(s.log)
  <2>1. CASE e = 0
    BY <2>1 DEF LastLevels
  <2>2. CASE e # 0
    <3>1. e - 1 \in 0..(s.firstUnoutput - 1) /\ e - 1 \in 0..(s.len - 1)
      BY <1>1, <2>2
    <3>2. from = ConfirmUntil(s.epochs[e - 1])[i]
      BY <2>2 DEF LastLevels
    <3>3. s.epochs[e - 1].termed
      BY <1>1, <3>1 DEF LogGood
    <3>4. from \in Nat
      BY <1>1, <3>1, <3>2, <3>3, UntilBounded
    <3>5. ASSUME NEW lv \in 0..(from - 1), <<lv, i>> \in Entry
          PROVE  <<lv, i>> \in ToSet(s.log)
      <4>1. <<lv, i>> \in ConfirmedBy(s, e - 1)
        BY <3>2, <3>4, <3>5 DEF ConfirmedBy
      <4> QED
        BY <1>1, <3>1, <3>5, <4>1 DEF LogGood
    <3> QED
      BY <3>4, <3>5
  <2> QED
    BY <2>1, <2>2
<1>4. ProbesOf(s, e, i) = FlattenSeq(f) \o own
  <2>1. 1..(u - from) = 1..n
    BY <1>2, <1>3
  <2>2. f = [k \in 1..(u - from) |-> Probe(s, <<from + k - 1, i>>)]
    BY <2>1
  <2> QED
    BY <2>2 DEF ProbesOf
<1> HIDE DEF u, from
<1>5. n \in Nat /\ (n > 0 => from + n = u)
  BY <1>2, <1>3
<1>6. \A k \in 1..n : /\ from + k - 1 \in Nat /\ from + k - 1 < u /\ from + k - 1 >= from
                      /\ <<from + k - 1, i>> \in Entry
  <2> SUFFICES ASSUME NEW k \in 1..n
               PROVE  /\ from + k - 1 \in Nat /\ from + k - 1 < u /\ from + k - 1 >= from
                      /\ <<from + k - 1, i>> \in Entry
    OBVIOUS
  <2>1. from + k - 1 \in Nat /\ from + k - 1 < u /\ from + k - 1 >= from
    BY <1>2, <1>3, <1>5
  <2>2. from + k - 1 \in Epoch
    BY <1>1, <1>2, <2>1, PikaAssumption DEF Epoch
  <2> QED
    BY <2>1, <2>2 DEF Entry
<1> HIDE DEF n
<1>7. /\ FlattenSeq(f) \in Seq(Entry)
      /\ Ordered(FlattenSeq(f), SameNode)
      /\ \A b : b \in ToSet(FlattenSeq(f)) <=> \E k \in 1..n : b \in ToSet(f[k])
  <2>0. \A k \in 1..n : f[k] = Probe(s, <<from + k - 1, i>>)
    OBVIOUS
  <2>1. f \in [1..n -> Seq(Entry)] /\ \A k \in 1..n : Ordered(f[k], SameNode)
    BY <1>6, ProbeIs
  <2>2. ASSUME NEW j \in 1..n, NEW k \in 1..n, j < k,
               NEW a \in ToSet(f[j]), NEW b \in ToSet(f[k])
        PROVE  <<a, b>> \in SameNode
    <3>1. a = <<from + j - 1, i>> /\ b = <<from + k - 1, i>> /\ a \in Entry /\ b \in Entry
      <4>1. a \in ToSet(Probe(s, <<from + j - 1, i>>)) /\ <<from + j - 1, i>> \in Entry
        BY <1>6, <2>0, <2>2
      <4>2. b \in ToSet(Probe(s, <<from + k - 1, i>>)) /\ <<from + k - 1, i>> \in Entry
        BY <1>6, <2>0, <2>2
      <4>3. a = <<from + j - 1, i>>
        BY <4>1, ProbeIs
      <4>4. b = <<from + k - 1, i>>
        BY <4>2, ProbeIs
      <4> QED
        BY <4>1, <4>2, <4>3, <4>4
    <3>2. from + j - 1 < from + k - 1
      BY <1>3, <2>2
    <3> QED
      BY <3>1, <3>2 DEF SameNode
  <2>3. \A j, k \in 1..n : j < k =>
          \A a \in ToSet(f[j]), b \in ToSet(f[k]) : <<a, b>> \in SameNode
    BY <2>2
  <2> HIDE DEF f
  <2>4. InRow(Entry, SameNode, n, f)
    BY <1>5, <2>1, <2>3 DEF InRow
  <2> QED
    BY <2>4, FlattenOrdered
<1>8. <<e, i>> \in Entry
  BY <1>1 DEF Entry
<1>9. /\ own \in Seq(Entry) /\ Ordered(own, SameNode)
      /\ \A b : b \in ToSet(own) <=> /\ b = <<e, i>> /\ i \in Accepted(s.epochs[e])
                                     /\ Unoutput(s, <<e, i>>)
  <2>1. << >> \in Seq(Entry) /\ Ordered(<< >>, SameNode) /\ ToSet(<< >>) = {}
    BY DEF Ordered, ToSet
  <2>2. CASE i \in Accepted(s.epochs[e])
    BY <1>8, <2>2, ProbeIs
  <2>3. CASE i \notin Accepted(s.epochs[e])
    BY <2>1, <2>3
  <2> QED
    BY <2>2, <2>3
<1>10. \A b : b \in ToSet(FlattenSeq(f))
                <=> \E k \in 1..n : b = <<from + k - 1, i>> /\ Unoutput(s, <<from + k - 1, i>>)
  <2>1. ASSUME NEW k \in 1..n, NEW b
        PROVE  b \in ToSet(f[k])
                 <=> b = <<from + k - 1, i>> /\ Unoutput(s, <<from + k - 1, i>>)
    <3>1. f[k] = Probe(s, <<from + k - 1, i>>) /\ <<from + k - 1, i>> \in Entry
      BY <1>6
    <3> HIDE DEF f
    <3> QED
      BY <3>1, ProbeIs
  <2> HIDE DEF f
  <2> QED
    BY <1>7, <2>1
<1> DEFINE q == FlattenSeq(f)
<1> HIDE DEF f, own, q
<1>11. \A a \in ToSet(q), b \in ToSet(own) : <<a, b>> \in SameNode
  <2> SUFFICES ASSUME NEW a \in ToSet(q), NEW b \in ToSet(own) PROVE <<a, b>> \in SameNode
    OBVIOUS
  <2>1. b = <<e, i>>
    BY <1>9
  <2>2. PICK k \in 1..n : a = <<from + k - 1, i>>
    BY <1>10 DEF q
  <2>3. from + k - 1 < e
    <3>1. from + k - 1 \in Nat /\ from + k - 1 < u
      BY <1>6
    <3> QED
      BY <1>1, <1>2, <3>1
  <2> QED
    BY <1>6, <1>8, <2>1, <2>2, <2>3 DEF SameNode
<1>12. /\ q \o own \in Seq(Entry) /\ Ordered(q \o own, SameNode)
       /\ ToSet(q \o own) = ToSet(q) \cup ToSet(own)
  BY <1>7, <1>9, <1>11, ConcatOrdered DEF q
<1>13. ASSUME NEW lv \in Nat, <<lv, i>> \in Entry, lv <= e
       PROVE  Unoutput(s, <<lv, i>>) <=> <<lv, i>> \notin ToSet(s.log)
  <2>1. lv \in 0..(s.len - 1)
    BY <1>1, <1>13
  <2> QED
    BY <1>1, <2>1 DEF LogGood, Unoutput
<1>14. ASSUME NEW b \in ToSet(q \o own)
       PROVE  b \in NewBlocks(s, e) /\ b[2] = i
  <2>1. CASE b \in ToSet(q)
    <3>1. PICK k \in 1..n : b = <<from + k - 1, i>> /\ Unoutput(s, <<from + k - 1, i>>)
      BY <1>10, <2>1 DEF q
    <3> DEFINE lv == from + k - 1
    <3>2. lv \in Nat /\ lv < u /\ <<lv, i>> \in Entry
      BY <1>6
    <3> HIDE DEF lv
    <3>3. lv <= e
      BY <1>1, <1>2, <3>2
    <3>4. b = <<lv, i>> /\ b \notin ToSet(s.log)
      BY <1>13, <3>1, <3>2, <3>3 DEF lv
    <3>5. b \in ConfirmedBy(s, e)
      BY <3>2, <3>4 DEF ConfirmedBy, u
    <3> QED
      BY <3>4, <3>5 DEF NewBlocks
  <2>2. CASE b \in ToSet(own)
    <3>1. b = <<e, i>> /\ i \in Accepted(s.epochs[e]) /\ Unoutput(s, <<e, i>>)
      BY <1>9, <2>2
    <3>2. b \notin ToSet(s.log)
      BY <1>1, <1>8, <1>13, <3>1
    <3>3. b \in ConfirmedBy(s, e)
      BY <1>8, <3>1 DEF ConfirmedBy
    <3> QED
      BY <3>1, <3>2, <3>3 DEF NewBlocks
  <2> QED
    BY <1>12, <2>1, <2>2
<1>15. ASSUME NEW b \in NewBlocks(s, e), b[2] = i
       PROVE  b \in ToSet(q \o own)
  <2>1. b \in Entry /\ b \in ConfirmedBy(s, e) /\ b \notin ToSet(s.log)
    BY DEF NewBlocks, ConfirmedBy
  <2>2. b = <<b[1], i>> /\ b[1] \in Nat
    BY <1>15, <2>1 DEF Entry, Epoch
  <2>3. CASE b[1] < u
    <3>1. b[1] >= from
      BY <1>3, <2>1, <2>2
    <3>2. b[1] - from + 1 \in 1..n /\ from + (b[1] - from + 1) - 1 = b[1]
      BY <1>2, <1>3, <2>2, <2>3, <3>1 DEF n
    <3>3. Unoutput(s, <<b[1], i>>)
      BY <1>1, <1>2, <1>13, <2>1, <2>2, <2>3
    <3>4. b \in ToSet(q)
      BY <1>10, <2>2, <3>2, <3>3 DEF q
    <3> QED
      BY <1>12, <3>4
  <2>4. CASE ~(b[1] < u)
    <3>1. b[1] = e /\ i \in Accepted(s.epochs[e])
      BY <1>15, <2>1, <2>4 DEF ConfirmedBy, u
    <3>2. Unoutput(s, <<e, i>>)
      BY <1>1, <1>8, <1>13, <2>1, <2>2, <3>1
    <3>3. b \in ToSet(own)
      BY <1>9, <2>2, <3>1, <3>2
    <3> QED
      BY <1>12, <3>3
  <2> QED
    BY <2>3, <2>4
<1> QED
  BY <1>4, <1>12, <1>14, <1>15 DEF q

-----------------------------------------------------------------------------
(***************************************************************************)
(* PrintProbes goes through the nodes in the order of their IDs, and what  *)
(* it prints is what the epoch confirms and has not been printed.          *)
(***************************************************************************)
LEMMA IdIs ==
  ASSUME NEW k \in 1..N
  PROVE  Id(NodeAt[k]) = k
<1> DEFINE D == 1..N
<1>1. NodeAt \in [D -> Node] /\ \A n \in Node : \E j \in D : NodeAt[j] = n
  BY PikaAssumption
<1>2. NodeAt \in Surjection(D, Node)
  BY <1>1 DEF Surjection
<1>3. IsFiniteSet(D) /\ Cardinality(D) = Cardinality(Node)
  BY NIsNat, FS_Interval DEF N
<1>4. NodeAt \in Injection(D, Node)
  BY <1>2, <1>3, FS_SurjSameCardinalityImpliesInj
<1>5. \A j \in D : NodeAt[j] = NodeAt[k] => j = k
  BY <1>4 DEF Injection, IsInjective
<1> QED
  BY <1>5 DEF Id

\* The blocks of one epoch's output: node by node, each in the order of epochs.
ByNode ==
  {x \in Entry \X Entry : \/ Id(x[1][2]) < Id(x[2][2])
                          \/ x[1][2] = x[2][2] /\ x[1][1] < x[2][1]}

Probes(s, e) == FlattenSeq([k \in 1..N |-> ProbesOf(s, e, NodeAt[k])])

LEMMA ProbesAre ==
  ASSUME NEW s, NEW e, MayPrint(s, e)
  PROVE  /\ Probes(s, e) \in Seq(Entry)
         /\ Ordered(Probes(s, e), ByNode)
         /\ ToSet(Probes(s, e)) = NewBlocks(s, e)
<1> DEFINE f == [k \in 1..N |-> ProbesOf(s, e, NodeAt[k])]
<1>1. N \in Nat /\ \A k \in 1..N : NodeAt[k] \in Node
  BY NIsNat, PikaAssumption
<1>2. ASSUME NEW k \in 1..N
      PROVE  /\ f[k] \in Seq(Entry) /\ Ordered(f[k], SameNode)
             /\ \A b : b \in ToSet(f[k]) <=> b \in NewBlocks(s, e) /\ b[2] = NodeAt[k]
  <2>1. f[k] = ProbesOf(s, e, NodeAt[k]) /\ NodeAt[k] \in Node
    BY <1>1
  <2> HIDE DEF f
  <2> QED
    BY <2>1, ProbesOfIs
<1>3. SameNode \subseteq ByNode
  BY DEF SameNode, ByNode
<1>4. \A k \in 1..N : Ordered(f[k], ByNode)
  <2> HIDE DEF f
  <2> QED
    BY <1>2, <1>3 DEF Ordered
<1>5. \A b \in NewBlocks(s, e) : b \in Entry
  BY DEF NewBlocks, ConfirmedBy
<1>6. \A j, k \in 1..N : j < k => \A a \in ToSet(f[j]), b \in ToSet(f[k]) : <<a, b>> \in ByNode
  <2> HIDE DEF f
  <2> SUFFICES ASSUME NEW j \in 1..N, NEW k \in 1..N, j < k,
                      NEW a \in ToSet(f[j]), NEW b \in ToSet(f[k])
               PROVE  <<a, b>> \in ByNode
    OBVIOUS
  <2>1. a \in Entry /\ b \in Entry /\ a[2] = NodeAt[j] /\ b[2] = NodeAt[k]
    BY <1>2, <1>5
  <2>2. Id(a[2]) = j /\ Id(b[2]) = k
    BY <2>1, IdIs
  <2> QED
    BY <2>1, <2>2 DEF ByNode
<1>7. f \in [1..N -> Seq(Entry)]
  BY <1>2
<1>8. Probes(s, e) = FlattenSeq(f)
  BY DEF Probes
<1> HIDE DEF f
<1>9. InRow(Entry, ByNode, N, f)
  BY <1>1, <1>4, <1>6, <1>7 DEF InRow
<1>10. /\ Probes(s, e) \in Seq(Entry) /\ Ordered(Probes(s, e), ByNode)
       /\ \A b : b \in ToSet(Probes(s, e)) <=> \E k \in 1..N : b \in ToSet(f[k])
  BY <1>8, <1>9, FlattenOrdered
<1>11. ToSet(Probes(s, e)) = NewBlocks(s, e)
  <2>1. ASSUME NEW b \in NewBlocks(s, e) PROVE b \in ToSet(Probes(s, e))
    <3>1. b[2] \in Node
      BY <1>5 DEF Entry
    <3>2. PICK k \in 1..N : NodeAt[k] = b[2]
      BY <3>1, PikaAssumption
    <3> QED
      BY <1>2, <1>10, <3>2
  <2>2. ASSUME NEW b \in ToSet(Probes(s, e)) PROVE b \in NewBlocks(s, e)
    BY <1>2, <1>10, <2>2
  <2> QED
    BY <2>1, <2>2
<1> QED
  BY <1>10, <1>11

\* An epoch whose outputted blocks are marked is otherwise as it was.
LEMMA MarkKept ==
  ASSUME NEW e \in Nat, NEW p, EpochOK(e, p), NEW S \in SUBSET Node
  PROVE  LET q == MarkOutput(p, S)
         IN  /\ EpochOK(e, q) /\ q.outputted = p.outputted \cup S /\ q.termed = p.termed
             /\ Decoded(q) = Decoded(p) /\ Accepted(q) = Accepted(p)
             /\ ConfirmUntil(q) = ConfirmUntil(p)
<1> DEFINE q == MarkOutput(p, S)
<1>0. p \in PikaEpochState
  BY DEF EpochOK
<1>1. /\ q \in PikaEpochState /\ q.refs = p.refs /\ q.output = p.output
      /\ q.termed = p.termed /\ q.outputted = p.outputted \cup S
  BY <1>0 DEF PikaEpochState, MarkOutput
<1> HIDE DEF q
<1>2. /\ Decoded(q) = Decoded(p) /\ Accepted(q) = Accepted(p) /\ Rejected(q) = Rejected(p)
      /\ AllBATerm(q) = AllBATerm(p)
  BY <1>1 DEF Decoded, Accepted, Rejected, AllBATerm
<1>3. ConfirmUntil(q) = ConfirmUntil(p)
  BY <1>1, <1>2, ConfirmAgrees
<1>4. EpochOK(e, q)
  BY <1>1, <1>2 DEF EpochOK
<1> QED
  BY <1>1, <1>2, <1>3, <1>4 DEF q

\* The state that PrintProbes makes.
LEMMA PrintProbesIs ==
  ASSUME NEW s, NEW e, MayPrint(s, e)
  PROVE  LET t == PrintProbes(s, e)
         IN  /\ StateOK(t) /\ t.len = s.len /\ t.firstUnoutput = e + 1
             /\ t.log = s.log \o Probes(s, e)
             /\ \A lv \in 0..(s.len - 1) :
                  /\ Decoded(t.epochs[lv]) = Decoded(s.epochs[lv])
                  /\ t.epochs[lv].termed = s.epochs[lv].termed
                  /\ t.epochs[lv].outputted =
                       s.epochs[lv].outputted \cup {b[2] : b \in {c \in NewBlocks(s, e) : c[1] = lv}}
                  /\ ConfirmedBy(t, lv) = ConfirmedBy(s, lv)
<1> DEFINE t == PrintProbes(s, e)
           B == NewBlocks(s, e)
           M(lv) == {b[2] : b \in {c \in B : c[1] = lv}}
           E == [lv \in 0..(s.len - 1) |-> MarkOutput(s.epochs[lv], M(lv))]
<1>1. /\ StateOK(s) /\ s \in PikaStateUpTo(s.len) /\ s.len \in Nat /\ s.log \in Seq(Entry)
      /\ e \in 0..(s.len - 1)
  BY Fields DEF MayPrint, Good, StateOK
<1>2. ToSet(Probes(s, e)) = B /\ Probes(s, e) \in Seq(Entry)
  BY ProbesAre
<1>3. t = [s EXCEPT !.log = s.log \o Probes(s, e), !.epochs = E, !.firstUnoutput = e + 1]
  <2>1. B = ToSet(FlattenSeq([k \in 1..N |-> ProbesOf(s, e, NodeAt[k])]))
    BY <1>2 DEF Probes
  <2> DEFINE St(X) ==
        [s EXCEPT !.log = s.log \o Probes(s, e),
                  !.epochs = [lv \in 0..(s.len - 1) |->
                                MarkOutput(s.epochs[lv], {b[2] : b \in {c \in X : c[1] = lv}})],
                  !.firstUnoutput = e + 1]
             X == ToSet(FlattenSeq([k \in 1..N |-> ProbesOf(s, e, NodeAt[k])]))
  <2>2. t = St(X)
    BY DEF PrintProbes, Probes
  <2>3. St(B) = [s EXCEPT !.log = s.log \o Probes(s, e), !.epochs = E, !.firstUnoutput = e + 1]
    OBVIOUS
  <2>4. B = X
    BY <2>1
  <2> HIDE DEF B, X, St, t
  <2>5. St(X) = St(B)
    BY <2>4
  <2> QED
    BY <2>2, <2>3, <2>5
<1>4. \A lv : M(lv) \in SUBSET Node
  BY DEF NewBlocks, ConfirmedBy, Entry
<1> HIDE DEF M, t
<1>5. ASSUME NEW lv \in 0..(s.len - 1)
      PROVE  /\ EpochOK(lv, E[lv]) /\ E[lv].outputted = s.epochs[lv].outputted \cup M(lv)
             /\ E[lv].termed = s.epochs[lv].termed
             /\ Decoded(E[lv]) = Decoded(s.epochs[lv]) /\ Accepted(E[lv]) = Accepted(s.epochs[lv])
             /\ ConfirmUntil(E[lv]) = ConfirmUntil(s.epochs[lv])
  <2> DEFINE p == s.epochs[lv]
             q == MarkOutput(p, M(lv))
  <2>1. lv \in Nat /\ EpochOK(lv, p)
    BY <1>1, Fields
  <2>2. E[lv] = q
    OBVIOUS
  <2> HIDE DEF p, E
  <2>3. /\ EpochOK(lv, q) /\ q.outputted = p.outputted \cup M(lv) /\ q.termed = p.termed
        /\ Decoded(q) = Decoded(p) /\ Accepted(q) = Accepted(p)
        /\ ConfirmUntil(q) = ConfirmUntil(p)
    BY <1>4, <2>1, MarkKept
  <2> QED
    BY <2>2, <2>3 DEF p
<1>6. E \in [0..(s.len - 1) -> PikaEpochState]
  BY <1>5 DEF EpochOK
<1> HIDE DEF E
<1>7. s.log \o Probes(s, e) \in Seq(Entry)
  BY <1>1, <1>2
<1> DEFINE L == s.log \o Probes(s, e)
<1>8. e + 1 \in 0..s.len
  BY <1>1
<1>9. /\ t \in PikaStateUpTo(s.len) /\ t.len = s.len /\ t.log = L
      /\ t.firstUnoutput = e + 1 /\ t.epochs = E
  <2>1. L \in Seq(Entry) /\ t = [s EXCEPT !.log = L, !.epochs = E, !.firstUnoutput = e + 1]
    BY <1>3, <1>7
  <2> HIDE DEF L
  <2> QED
    BY <1>1, <1>6, <1>8, <2>1 DEF PikaStateUpTo
<1>10. StateOK(t)
  BY <1>1, <1>5, <1>9 DEF StateOK
<1>11. \A lv \in 0..(s.len - 1) : ConfirmedBy(t, lv) = ConfirmedBy(s, lv)
  BY <1>5, <1>9 DEF ConfirmedBy
<1> QED
  BY <1>5, <1>9, <1>10, <1>11 DEF t, M

LEMMA PrintProbesGood ==
  ASSUME NEW s, NEW e, MayPrint(s, e)
  PROVE  Good(PrintProbes(s, e)) /\ PrintProbes(s, e).len = s.len
<1> DEFINE t == PrintProbes(s, e)
           B == NewBlocks(s, e)
           P == Probes(s, e)
           R == {x \in Entry \X Entry : Before(t, x[1], x[2])}
<1>1. /\ StateOK(s) /\ LogGood(s) /\ s.len \in Nat /\ s.log \in Seq(Entry)
      /\ e \in 0..(s.len - 1) /\ e \in Nat /\ e = s.firstUnoutput
  BY Fields DEF MayPrint, Good
<1>2. P \in Seq(Entry) /\ Ordered(P, ByNode) /\ ToSet(P) = B
  BY ProbesAre
<1>3. StateOK(t) /\ t.len = s.len /\ t.firstUnoutput = e + 1 /\ t.log = s.log \o P
  BY PrintProbesIs
<1>4. \A lv \in 0..(s.len - 1) :
        /\ Decoded(t.epochs[lv]) = Decoded(s.epochs[lv])
        /\ t.epochs[lv].termed = s.epochs[lv].termed
        /\ t.epochs[lv].outputted = s.epochs[lv].outputted \cup {b[2] : b \in {c \in B : c[1] = lv}}
        /\ ConfirmedBy(t, lv) = ConfirmedBy(s, lv)
  BY PrintProbesIs
<1> HIDE DEF t, P
<1>5. B \subseteq Entry /\ B \subseteq ConfirmedBy(s, e)
  BY DEF NewBlocks, ConfirmedBy
<1>6. SameLedger(s, t)
  BY <1>1, <1>4 DEF SameLedger
<1>7. /\ \A b : \A d \in 0..(e - 1) : FirstBy(s, b, d) <=> FirstBy(t, b, d)
      /\ \A b, c : Before(s, b, c) => Before(t, b, c)
  BY <1>1, <1>3, <1>6, SameLedgerOrder
<1>8. \A d \in 0..e : ConfirmedBy(t, d) = ConfirmedBy(s, d) /\ t.epochs[d].termed
  <2> SUFFICES ASSUME NEW d \in 0..e
               PROVE  ConfirmedBy(t, d) = ConfirmedBy(s, d) /\ t.epochs[d].termed
    OBVIOUS
  <2>1. d \in 0..(s.len - 1)
    BY <1>1
  <2>2. s.epochs[d].termed
    BY <1>1 DEF MayPrint, LogGood
  <2> QED
    BY <1>4, <2>1, <2>2
<1>9. \A b \in B : FirstBy(t, b, e)
  <2> SUFFICES ASSUME NEW b \in B PROVE FirstBy(t, b, e)
    OBVIOUS
  <2>1. b \in ConfirmedBy(t, e) /\ e \in 0..(t.firstUnoutput - 1)
    BY <1>1, <1>3, <1>5, <1>8
  <2>2. ASSUME NEW c \in 0..(e - 1) PROVE b \notin ConfirmedBy(t, c)
    <3>1. c \in 0..e /\ b \in Entry /\ b \notin ToSet(s.log)
      BY <1>1, <1>5 DEF NewBlocks
    <3> QED
      BY <1>1, <1>8, <3>1 DEF LogGood
  <2> QED
    BY <2>1, <2>2 DEF FirstBy
<1>10. \A b \in ToSet(s.log) : b \in Entry /\ \E d \in 0..(e - 1) : FirstBy(t, b, d)
  <2> SUFFICES ASSUME NEW b \in ToSet(s.log)
               PROVE  b \in Entry /\ \E d \in 0..(e - 1) : FirstBy(s, b, d)
    BY <1>7
  <2>1. b \in Entry
    BY <1>1 DEF ToSet
  <2> DEFINE D == {d \in 0..(e - 1) : b \in ConfirmedBy(s, d)}
  <2>2. D \in SUBSET Nat /\ D # {}
    BY <1>1, <2>1 DEF LogGood
  <2>3. PICK d \in D : \A c \in D : d <= c
    <3> HIDE DEF D
    <3> QED
      BY <2>2, LeastExists
  <2>4. \A c \in 0..(d - 1) : b \notin ConfirmedBy(s, c)
    <3> SUFFICES ASSUME NEW c \in 0..(d - 1), b \in ConfirmedBy(s, c) PROVE FALSE
      OBVIOUS
    <3>1. d \in 0..(e - 1)
      BY <2>3
    <3>2. c \in 0..(e - 1) /\ ~(d <= c)
      BY <1>1, <3>1
    <3> QED
      BY <2>3, <3>2
  <2>5. FirstBy(s, b, d)
    BY <1>1, <2>3, <2>4 DEF FirstBy
  <2> QED
    BY <2>1, <2>3, <2>5
<1>11. Ordered(s.log, R)
  <2> SUFFICES ASSUME NEW j \in 1..Len(s.log), NEW k \in 1..Len(s.log), j < k
               PROVE  <<s.log[j], s.log[k]>> \in R
    BY DEF Ordered
  <2>1. Before(s, s.log[j], s.log[k])
    BY <1>1 DEF LogGood
  <2>2. s.log[j] \in Entry /\ s.log[k] \in Entry
    BY <1>1
  <2> QED
    BY <1>7, <2>1, <2>2
<1>12. Ordered(P, R)
  <2> SUFFICES ASSUME NEW j \in 1..Len(P), NEW k \in 1..Len(P), j < k
               PROVE  <<P[j], P[k]>> \in R
    BY DEF Ordered
  <2>1. P[j] \in Entry /\ P[k] \in Entry
    BY <1>2
  <2>2. P[j] \in B /\ P[k] \in B
    BY <1>2 DEF ToSet
  <2>3. <<P[j], P[k]>> \in ByNode
    BY <1>2 DEF Ordered
  <2>4. \/ Id(P[j][2]) < Id(P[k][2])
        \/ P[j][2] = P[k][2] /\ P[j][1] < P[k][1]
    BY <2>3 DEF ByNode
  <2>5. FirstBy(t, P[j], e) /\ FirstBy(t, P[k], e) /\ e \in 0..(t.firstUnoutput - 1)
    BY <1>1, <1>3, <1>9, <2>2
  <2>6. Before(t, P[j], P[k])
    BY <2>4, <2>5 DEF Before
  <2> QED
    BY <2>1, <2>6
<1>13. \A a \in ToSet(s.log), b \in ToSet(P) : <<a, b>> \in R
  <2> SUFFICES ASSUME NEW a \in ToSet(s.log), NEW b \in ToSet(P) PROVE <<a, b>> \in R
    OBVIOUS
  <2>1. b \in B /\ b \in Entry /\ FirstBy(t, b, e)
    BY <1>2, <1>5, <1>9
  <2>2. a \in Entry
    BY <1>10
  <2>3. PICK d \in 0..(e - 1) : FirstBy(t, a, d)
    BY <1>10
  <2>4. d \in 0..(t.firstUnoutput - 1) /\ e \in 0..(t.firstUnoutput - 1) /\ d < e
    BY <1>1, <1>3
  <2>5. Before(t, a, b)
    BY <2>1, <2>3, <2>4 DEF Before
  <2> QED
    BY <2>1, <2>2, <2>5
<1>14. Ordered(t.log, R) /\ ToSet(t.log) = ToSet(s.log) \cup B
  <2> HIDE DEF R
  <2> QED
    BY <1>1, <1>2, <1>3, <1>11, <1>12, <1>13, ConcatOrdered
<1>15. \A j, k \in 1..Len(t.log) : j < k => Before(t, t.log[j], t.log[k])
  BY <1>14 DEF Ordered
<1> HIDE DEF R
<1>16. \A b \in Entry : b \in ToSet(t.log) <=> \E d \in 0..e : b \in ConfirmedBy(t, d)
  <2> SUFFICES ASSUME NEW b \in Entry
               PROVE  b \in ToSet(s.log) \cup B <=> \E d \in 0..e : b \in ConfirmedBy(s, d)
    BY <1>8, <1>14
  <2>1. b \in ToSet(s.log) <=> \E d \in 0..(e - 1) : b \in ConfirmedBy(s, d)
    BY <1>1 DEF LogGood
  <2>2. b \in ToSet(s.log) \cup B <=> b \in ToSet(s.log) \/ b \in ConfirmedBy(s, e)
    BY DEF NewBlocks
  <2>3. \A d : d \in 0..e <=> d \in 0..(e - 1) \/ d = e
    BY <1>1
  <2> QED
    BY <2>1, <2>2, <2>3
<1>17. \A lv \in 0..(t.len - 1) : \A i \in Node :
         i \in t.epochs[lv].outputted <=> <<lv, i>> \in ToSet(t.log)
  <2> SUFFICES ASSUME NEW lv \in 0..(s.len - 1), NEW i \in Node
               PROVE  i \in t.epochs[lv].outputted <=> <<lv, i>> \in ToSet(s.log) \cup B
    BY <1>3, <1>14
  <2>1. i \in s.epochs[lv].outputted <=> <<lv, i>> \in ToSet(s.log)
    BY <1>1 DEF LogGood
  <2>2. i \in {b[2] : b \in {c \in B : c[1] = lv}} <=> <<lv, i>> \in B
    BY <1>5 DEF Entry
  <2>3. t.epochs[lv].outputted = s.epochs[lv].outputted \cup {b[2] : b \in {c \in B : c[1] = lv}}
    BY <1>4
  <2> QED
    BY <2>1, <2>2, <2>3
<1>18. \A b \in ToSet(t.log) : b[1] < t.len /\ b[2] \in Decoded(t.epochs[b[1]])
  <2> SUFFICES ASSUME NEW b \in ToSet(s.log) \cup B
               PROVE  b[1] < s.len /\ b[2] \in Decoded(t.epochs[b[1]])
    BY <1>3, <1>14
  <2>1. b \in Entry /\ b[1] \in Nat /\ b[2] \in Node
    BY <1>5, <1>10 DEF Entry, Epoch
  <2>2. b[1] < s.len /\ b[2] \in Decoded(s.epochs[b[1]])
    <3>1. CASE b \in ToSet(s.log)
      BY <1>1, <3>1 DEF LogGood
    <3>2. CASE b \in B
      <4> DEFINE u == ConfirmUntil(s.epochs[e])[b[2]]
                 r == FirstUnretrieved(s, b[2])
      <4>1. u \in Nat /\ u <= e
        BY <1>1, <2>1, UntilBounded DEF MayPrint
      <4>2. CASE b[1] < u
        <5>1. r >= u
          BY <2>1 DEF MayPrint, BlocksReady
        <5>2. r \in Int /\ \A d \in 0..(r - 1) : b[2] \in Decoded(s.epochs[d])
          BY <1>1, <2>1, RetrievedBelow
        <5> HIDE DEF u, r
        <5>3. b[1] \in 0..(r - 1)
          BY <2>1, <4>1, <4>2, <5>1, <5>2
        <5> QED
          BY <1>1, <2>1, <4>1, <4>2, <5>2, <5>3
      <4>3. CASE ~(b[1] < u)
        <5>1. b[1] = e /\ b[2] \in Accepted(s.epochs[e])
          BY <1>5, <3>2, <4>3 DEF ConfirmedBy
        <5>2. Accepted(s.epochs[e]) \subseteq Decoded(s.epochs[e])
          BY <1>1, Fields DEF MayPrint, EpochOK
        <5> QED
          BY <1>1, <5>1, <5>2
      <4> QED
        BY <4>2, <4>3
    <3> QED
      BY <3>1, <3>2
  <2>3. b[1] \in 0..(s.len - 1)
    BY <1>1, <2>1, <2>2
  <2> QED
    BY <1>4, <2>2, <2>3
<1>19. (t.firstUnoutput - 1) = e
  BY <1>1, <1>3
<1>20. LogGood(t)
  BY <1>8, <1>15, <1>16, <1>17, <1>18, <1>19 DEF LogGood
<1> QED
  BY <1>3, <1>20 DEF Good, t

-----------------------------------------------------------------------------
(***************************************************************************)
(* The loop of the output: f[k] is the state when epochs 0..k-1 have been  *)
(* looked at, as the recursion in OutputEpochs has it.                     *)
(***************************************************************************)
OutputEpoch(t, e) ==
  IF t.firstUnoutput = e /\ t.epochs[e].termed /\ BlocksReady(t, e) THEN PrintProbes(t, e) ELSE t

OutputUntil(s, m, f) ==
  f = [k \in 0..m |-> IF k <= s.firstUnoutput THEN s ELSE OutputEpoch(f[k - 1], k - 1)]

LEMMA OutputExists ==
  ASSUME NEW s, s.firstUnoutput \in Nat, NEW m \in Nat
  PROVE  \E f : OutputUntil(s, m, f)
<1> DEFINE S == {l \in Nat : ~\E f : OutputUntil(s, l, f)}
<1>1. SUFFICES ASSUME S # {} PROVE FALSE
  OBVIOUS
<1>2. PICK l \in S : \A k \in S : l <= k
  <2> HIDE DEF S
  <2>1. S \in SUBSET Nat
    BY DEF S
  <2> QED
    BY <2>1, <1>1, LeastExists
<1>3. l # 0
  <2> DEFINE f == [k \in 0..0 |-> s]
  <2>1. OutputUntil(s, 0, f)
    BY DEF OutputUntil
  <2> QED
    BY <2>1
<1>4. l - 1 \in Nat /\ l - 1 \notin S
  BY <1>2, <1>3
<1>5. PICK f : OutputUntil(s, l - 1, f)
  BY <1>4
<1> DEFINE last == IF l <= s.firstUnoutput THEN s ELSE OutputEpoch(f[l - 1], l - 1)
           g == [k \in 0..l |-> IF k = l THEN last ELSE f[k]]
<1>6. OutputUntil(s, l, g)
  <2>1. \A k \in 0..(l - 1) : g[k] = f[k]
    BY <1>4
  <2>2. \A k \in 0..(l - 1) :
          f[k] = IF k <= s.firstUnoutput THEN s ELSE OutputEpoch(f[k - 1], k - 1)
    BY <1>5 DEF OutputUntil
  <2>3. g[l] = last /\ g[l - 1] = f[l - 1]
    BY <1>4
  <2>4. g = [k \in 0..l |-> g[k]]
    OBVIOUS
  <2> HIDE DEF g
  <2>5. \A k \in 0..l : g[k] = IF k <= s.firstUnoutput THEN s ELSE OutputEpoch(g[k - 1], k - 1)
    <3> SUFFICES ASSUME NEW k \in 0..l
                 PROVE g[k] = IF k <= s.firstUnoutput THEN s ELSE OutputEpoch(g[k - 1], k - 1)
      OBVIOUS
    <3>1. CASE k = l
      BY <3>1, <2>3
    <3>2. CASE k # l
      <4>1. k \in 0..(l - 1)
        BY <3>2, <1>4
      <4>2. CASE k <= s.firstUnoutput
        BY <4>1, <4>2, <2>1, <2>2
      <4>3. CASE ~(k <= s.firstUnoutput)
        <5>1. k - 1 \in 0..(l - 1)
          BY <4>1, <4>3
        <5>2. g[k - 1] = f[k - 1] /\ g[k] = f[k]
          BY <4>1, <5>1, <2>1
        <5> QED
          BY <4>1, <4>3, <5>2, <2>2
      <4> QED
        BY <4>2, <4>3
    <3> QED
      BY <3>1, <3>2
  <2> QED
    BY <2>4, <2>5 DEF OutputUntil
<1> QED
  BY <1>2, <1>6

LEMMA OutputEpochsGood ==
  ASSUME NEW s, Good(s)
  PROVE  Good(OutputEpochs(s))
<1> DEFINE m == s.len
           f == CHOOSE g : OutputUntil(s, m, g)
           To(k) == Good(f[k]) /\ f[k].len = m
<1>0. m \in Nat /\ s.firstUnoutput \in Nat
  BY Fields DEF Good
<1>1. OutputUntil(s, m, f)
  BY <1>0, OutputExists
<1>2. OutputEpochs(s) = f[m]
  BY DEF OutputEpochs, OutputUntil, OutputEpoch
<1> HIDE DEF f
<1>3. ASSUME NEW k \in 0..m
      PROVE  f[k] = IF k <= s.firstUnoutput THEN s ELSE OutputEpoch(f[k - 1], k - 1)
  BY <1>1 DEF OutputUntil
<1> DEFINE S == {k \in 0..m : ~To(k)}
<1>4. S = {}
  <2> SUFFICES ASSUME S # {} PROVE FALSE
    OBVIOUS
  <2>1. PICK k \in S : \A d \in S : k <= d
    <3>1. S \in SUBSET Nat
      OBVIOUS
    <3> HIDE DEF S
    <3> QED
      BY <3>1, LeastExists
  <2>2. k \in 0..m /\ ~To(k)
    BY <2>1
  <2>3. CASE k <= s.firstUnoutput
    <3>1. f[k] = s
      BY <1>3, <2>2, <2>3
    <3> QED
      BY <2>2, <3>1
  <2>4. CASE ~(k <= s.firstUnoutput)
    <3> DEFINE t == f[k - 1]
    <3>1. k - 1 \in 0..m /\ k - 1 \notin S
      <4>1. k - 1 \in 0..m /\ ~(k <= k - 1)
        BY <1>0, <2>2, <2>4
      <4> HIDE DEF S
      <4> QED
        BY <2>1, <4>1
    <3>2. Good(t) /\ t.len = m
      BY <3>1
    <3>3. f[k] = OutputEpoch(t, k - 1)
      BY <1>3, <2>2, <2>4
    <3> HIDE DEF t
    <3>4. Good(f[k]) /\ f[k].len = m
      <4>1. CASE /\ t.firstUnoutput = k - 1 /\ t.epochs[k - 1].termed /\ BlocksReady(t, k - 1)
        <5>1. k - 1 < t.len
          BY <1>0, <2>2, <3>2
        <5>2. MayPrint(t, k - 1)
          BY <3>2, <4>1, <5>1 DEF MayPrint
        <5>3. f[k] = PrintProbes(t, k - 1)
          BY <3>3, <4>1 DEF OutputEpoch
        <5> QED
          BY <3>2, <5>2, <5>3, PrintProbesGood
      <4>2. CASE ~(/\ t.firstUnoutput = k - 1 /\ t.epochs[k - 1].termed /\ BlocksReady(t, k - 1))
        <5>1. f[k] = t
          BY <3>3, <4>2 DEF OutputEpoch
        <5> QED
          BY <3>2, <5>1
      <4> QED
        BY <4>1, <4>2
    <3> QED
      BY <2>2, <3>4
  <2> QED
    BY <2>3, <2>4
<1>5. m \in 0..m
  BY <1>0
<1>6. Good(f[m])
  BY <1>4, <1>5
<1> QED
  BY <1>2, <1>6

-----------------------------------------------------------------------------
\* What Recv does after the message, and the actions.
LEMMA GoOnGood ==
  ASSUME NEW s, Good(s), NEW r, r = StartRequests(s), NEW t \in InitEpochs(RequestRefBlocks(r))
  PROVE  Good(OutputEpochs(t))
<1>1. Good(r)
  BY StartRequestsGood
<1>2. Good(RequestRefBlocks(r))
  BY <1>1, RequestRefBlocksGood
<1>3. Good(t)
  BY <1>2, InitEpochsGood
<1> QED
  BY <1>3, OutputEpochsGood

LEMMA RecvEpochGood ==
  ASSUME NEW a, Good(a), NEW e \in 0..(a.len - 1), NEW q, EpochKept(e, a.epochs[e], q),
         RecvEpoch(a, e, q)
  PROVE  Good(pika') /\ started' = started
<1> DEFINE s == Count([a EXCEPT !.epochs[e] = q], a.epochs[e], q)
<1>1. Good(s)
  BY CountGood
<1> HIDE DEF s
<1>2. GoOn(s) /\ started' = started
  BY DEF RecvEpoch, s
<1>3. PICK r \in {StartRequests(s)} : \E t \in InitEpochs(RequestRefBlocks(r)) :
              pika' = OutputEpochs(t)
  BY <1>2 DEF GoOn
<1>4. PICK t \in InitEpochs(RequestRefBlocks(r)) : pika' = OutputEpochs(t)
  BY <1>3
<1>5. r = StartRequests(s)
  BY <1>3
<1>6. Good(OutputEpochs(t))
  BY <1>1, <1>4, <1>5, GoOnGood
<1> QED
  BY <1>2, <1>4, <1>6

LEMMA NewPikaGood == Good(NewPika)
<1> DEFINE s == NewPika
<1>1. /\ s.len = 1 /\ s.epochs = [e \in {0} |-> NewPikaEpoch] /\ s.numDispersed = 0
      /\ s.numContinuousDispersed = 0 /\ s.firstUninited = 0 /\ s.firstUnoutput = 0
      /\ s.log = << >>
  BY DEF NewPika
<1>2. maxEpoch \in Nat
  BY PikaAssumption
<1>3. EpochOK(0, NewPikaEpoch) /\ NewPikaEpoch.outputted = {}
  BY NewPikaEpochOK
<1>4. 0..(1 - 1) = {0} /\ 0 \in 0..1
  OBVIOUS
<1>5. s.epochs \in [0..(1 - 1) -> PikaEpochState]
  BY <1>1, <1>3, <1>4 DEF EpochOK
<1>6. s \in PikaStateUpTo(1)
  BY <1>1, <1>5 DEF PikaStateUpTo, NewPika
<1>7. \A e \in 0..(s.len - 1) : e = 0 /\ s.epochs[e] = NewPikaEpoch
  BY <1>1, <1>4
<1> HIDE DEF s
<1>8. StateOK(s)
  BY <1>1, <1>2, <1>3, <1>6, <1>7 DEF StateOK
<1>9. ToSet(s.log) = {} /\ Len(s.log) = 0
  BY <1>1 DEF ToSet
<1>10. LogGood(s)
  BY <1>1, <1>3, <1>7, <1>9 DEF LogGood
<1> QED
  BY <1>8, <1>10 DEF Good, s

LEMMA VIDStepGood ==
  ASSUME IInv, NEW e \in Epoch, NEW i \in Node,
         NEW isDispersed \in BOOLEAN, NEW isTermed \in BOOLEAN, NEW block,
         VIDStep(e, i, isDispersed, isTermed, block)
  PROVE  IInv'
<1> DEFINE a == AllocateUntil(pika, e)
           q == RecvVID(a.epochs[e], i, isDispersed, isTermed, block)
<1>1. Good(a) /\ e < a.len /\ e \in Nat
  BY AllocateGood DEF IInv, Epoch
<1>2. block \in Proposals(pika, e, i) \cup {NoBlock} /\ RecvEpoch(a, e, q)
  BY DEF VIDStep
<1> HIDE DEF a
<1>3. e \in 0..(a.len - 1) /\ EpochOK(e, a.epochs[e])
  BY <1>1, Fields DEF Good
<1>4. /\ i = self => block = NoBlock
      /\ i # self => block \in Blocks[e][i] \cup {NoBlock}
  BY <1>2 DEF Proposals
<1>5. block \in Block
  <2>1. Blocks[e][i] \subseteq References
    BY PikaAssumption
  <2> QED
    BY <1>4, <2>1 DEF Block
<1>6. EpochKept(e, a.epochs[e], q)
  BY <1>1, <1>3, <1>4, <1>5, RecvVIDKept
<1> HIDE DEF q
<1>7. Good(pika') /\ started' = started
  BY <1>1, <1>2, <1>3, <1>6, RecvEpochGood
<1> QED
  BY <1>7 DEF IInv

LEMMA BAStepGood ==
  ASSUME IInv, NEW e \in Epoch, NEW i \in Node, NEW out \in {{}, {TRUE}, {FALSE}},
         BAStep(e, i, out)
  PROVE  IInv'
<1> DEFINE a == AllocateUntil(pika, e)
           q == RecvBA(a.epochs[e], i, out)
<1>1. Good(a) /\ e < a.len /\ e \in Nat
  BY AllocateGood DEF IInv, Epoch
<1>2. (FALSE \in out => Cardinality(Lost(a, e) \cup {i}) <= F) /\ RecvEpoch(a, e, q)
  BY DEF BAStep
<1> HIDE DEF a
<1>3. e \in 0..(a.len - 1) /\ EpochOK(e, a.epochs[e])
  BY <1>1, Fields DEF Good
<1>4. FALSE \in out => Cardinality(Rejected(a.epochs[e]) \cup {i}) <= F
  <2> DEFINE A == Rejected(a.epochs[e]) \cup {i}
             B == Lost(a, e) \cup {i}
  <2>1. A \in SUBSET B /\ B \in SUBSET Node
    BY DEF Rejected, Lost
  <2>2. Cardinality(A) <= Cardinality(B)
    BY <2>1, SubsetCardinality
  <2>3. Cardinality(A) \in Nat /\ Cardinality(B) \in Nat
    BY <2>1, SubsetFinite
  <2> HIDE DEF A, B
  <2>4. FALSE \in out => Cardinality(B) <= F
    BY <1>2 DEF B
  <2>5. FALSE \in out => Cardinality(A) <= F
    BY <2>2, <2>3, <2>4, FaultAssumption
  <2> QED
    BY <2>5 DEF A
<1>5. EpochKept(e, a.epochs[e], q)
  BY <1>1, <1>3, <1>4, RecvBAKept
<1> HIDE DEF q
<1>6. Good(pika') /\ started' = started
  BY <1>1, <1>2, <1>3, <1>5, RecvEpochGood
<1> QED
  BY <1>6 DEF IInv

LEMMA StepGood == IInv /\ [Next]_vars => IInv'
<1> SUFFICES ASSUME IInv, [Next]_vars PROVE IInv'
  OBVIOUS
<1>1. CASE Start
  <2>1. PICK t \in InitEpochs(pika) : pika' = t
    BY <1>1 DEF Start
  <2>2. Good(t)
    BY <2>1, InitEpochsGood DEF IInv
  <2>3. started' = TRUE
    BY <1>1 DEF Start
  <2> QED
    BY <2>1, <2>2, <2>3 DEF IInv
<1>2. CASE Tick
  <2>1. GoOn(pika) /\ started' = started
    BY <1>2 DEF Tick
  <2>2. PICK r \in {StartRequests(pika)} : \E t \in InitEpochs(RequestRefBlocks(r)) :
                pika' = OutputEpochs(t)
    BY <2>1 DEF GoOn
  <2>3. PICK t \in InitEpochs(RequestRefBlocks(r)) : pika' = OutputEpochs(t)
    BY <2>2
  <2>4. Good(pika) /\ r = StartRequests(pika)
    BY <2>2 DEF IInv
  <2>5. Good(OutputEpochs(t))
    BY <2>3, <2>4, GoOnGood
  <2> QED
    BY <2>1, <2>3, <2>5 DEF IInv
<1>3. ASSUME NEW e \in Epoch, NEW i \in Node, NEW isDispersed \in BOOLEAN,
             NEW isTermed \in BOOLEAN, NEW block \in Blocks[e][i] \cup {NoBlock},
             VIDStep(e, i, isDispersed, isTermed, block)
      PROVE  IInv'
  BY <1>3, VIDStepGood
<1>4. ASSUME NEW e \in Epoch, NEW i \in Node, NEW out \in {{}, {TRUE}, {FALSE}},
             BAStep(e, i, out)
      PROVE  IInv'
  BY <1>4, BAStepGood
<1>5. CASE UNCHANGED vars
  BY <1>5 DEF vars, IInv
<1> QED
  BY <1>1, <1>2, <1>3, <1>4, <1>5 DEF Next

LEMMA Inductive == Spec => []IInv
<1>1. Init => IInv
  BY NewPikaGood DEF Init, IInv
<1> QED
  BY <1>1, StepGood, PTL DEF Spec

-----------------------------------------------------------------------------
(***************************************************************************)
(* The Pika of a node is of its type, and no terminated epoch confirms     *)
(* levels beyond its own, whatever the faulty nodes refer to.              *)
(***************************************************************************)
THEOREM Bounded == Spec => []LevelsBounded
<1>1. IInv => LevelsBounded
  <2> SUFFICES ASSUME IInv PROVE LevelsBounded
    OBVIOUS
  <2>1. StateOK(pika) /\ started \in BOOLEAN
    BY DEF IInv, Good
  <2>2. pika \in PikaStateUpTo(pika.len)
    BY <2>1 DEF StateOK
  <2>3. \A e \in 0..(pika.len - 1) :
          pika.epochs[e].termed => \A i \in Node : ConfirmUntil(pika.epochs[e])[i] <= e
    BY <2>1, UntilBounded
  <2> QED
    BY <2>1, <2>2, <2>3 DEF LevelsBounded
<1> QED
  BY <1>1, Inductive, PTL

(***************************************************************************)
(* A block in the log is one the node has decoded: PrintProbes never meets *)
(* a block that is not there.                                              *)
(***************************************************************************)
THEOREM OutputThere == Spec => []OutputIsThere
<1>1. IInv => OutputIsThere
  BY DEF IInv, Good, LogGood, OutputIsThere
<1> QED
  BY <1>1, Inductive, PTL

(***************************************************************************)
(* What all correct nodes' blocks of an epoch refer to is in the log once  *)
(* that epoch has been output: of the N-F blocks it accepts, all but F are *)
(* of correct nodes (ReferredIsConfirmed).                                 *)
(***************************************************************************)
THEOREM NoCensorship == Spec => []ReferredIsOutput
<1>1. IInv => ReferredIsOutput
  <2> DEFINE top == Min({pika.firstUnoutput, pika.firstUninited})
  <2> SUFFICES ASSUME IInv, NEW e \in 0..(top - 1), NEW b \in Entry,
                      \A j \in Correct : RefersTo(e, j, b)
               PROVE  b \in ToSet(pika.log)
    BY DEF ReferredIsOutput
  <2>1. StateOK(pika) /\ LogGood(pika)
    BY DEF IInv, Good
  <2>2. pika.firstUnoutput \in 0..pika.len /\ pika.firstUninited \in 0..pika.len /\ pika.len \in Nat
    BY <2>1, Fields
  <2>3. top \in {pika.firstUnoutput, pika.firstUninited} /\ top <= pika.firstUnoutput
    BY <2>2 DEF Min
  <2> HIDE DEF top
  <2>4. e \in 0..(pika.firstUnoutput - 1) /\ e \in 0..(pika.len - 1)
    BY <2>2, <2>3
  <2> DEFINE p == pika.epochs[e]
             i == b[2]
             l == b[1] + 1
  <2>5. EpochOK(e, p) /\ p.termed
    BY <2>1, <2>4, Fields DEF LogGood
  <2>6. i \in Node /\ l \in Nat /\ b[1] \in Nat
    BY DEF Entry, Epoch
  <2>7. HasAccepted(p) /\ AllBATerm(p) /\ Cardinality(Rejected(p)) <= F
    BY <2>5 DEF EpochOK, HasAccepted
  <2>8. Faulty \in SUBSET Node /\ Cardinality(Faulty) <= F
    BY PikaAssumption
  <2>9. \A j \in Node \ {self} : p.refs[j] \in Blocks[e][j] \cup {NoBlock}
    BY <2>5 DEF EpochOK
  <2>10. \A j \in Correct : RefersTo(e, j, b)
    OBVIOUS
  <2>11. \A j \in Correct : j # self => \A r \in Blocks[e][j] : r[i] > b[1]
    BY <2>10 DEF RefersTo
  <2>12. self \in Correct => p.refs[self][i] > b[1]
    BY <2>10 DEF RefersTo
  <2> HIDE DEF p, i, l
  <2>13. Cardinality(Accepted(p)) >= N - F
    <3>1. p.output \in [Node -> {{}, {TRUE}, {FALSE}}]
      BY <2>7 DEF HasAccepted, PikaEpochState
    <3>2. Accepted(p) = Node \ Rejected(p)
      <4>1. \A j \in Node : p.output[j] = {TRUE} \/ p.output[j] = {FALSE}
        BY <2>7, <3>1 DEF AllBATerm
      <4>2. {TRUE} # {FALSE}
        OBVIOUS
      <4> QED
        BY <4>1, <4>2 DEF Accepted, Rejected
    <3>3. Rejected(p) \in SUBSET Node
      BY DEF Rejected
    <3>4. Cardinality(Node \ Rejected(p)) = Cardinality(Node) - Cardinality(Node \cap Rejected(p))
      BY <3>3, SubsetFinite, NodeAssumption, FS_Difference
    <3>5. Node \cap Rejected(p) = Rejected(p) /\ Cardinality(Rejected(p)) \in Nat
      BY <3>3, SubsetFinite
    <3> QED
      BY <2>7, <3>2, <3>4, <3>5, NIsNat, FaultAssumption DEF N
  <2>14. ASSUME NEW j \in Accepted(p) \ Faulty PROVE p.refs[j][i] >= l
    <3>1. j \in Correct /\ j \in Node /\ p.refs[j] # NoBlock
      BY <2>7 DEF Correct, Accepted, HasAccepted, Decoded
    <3>2. p.refs[j] \in References
      BY <2>7, <3>1 DEF HasAccepted, PikaEpochState, Block
    <3>3. p.refs[j][i] \in Nat
      BY <2>6, <3>2 DEF References
    <3>4. p.refs[j][i] > b[1]
      <4>1. CASE j = self
        BY <2>12, <3>1, <4>1
      <4>2. CASE j # self
        BY <2>9, <2>11, <3>1, <4>2
      <4> QED
        BY <4>1, <4>2
    <3> QED
      BY <2>6, <3>3, <3>4 DEF l
  <2>15. ConfirmUntil(p)[i] >= l
    BY <2>6, <2>7, <2>8, <2>13, <2>14, ReferredIsConfirmed
  <2>16. ConfirmUntil(p)[i] \in Nat
    BY <2>1, <2>4, <2>5, <2>6, UntilBounded DEF p
  <2>17. b \in ConfirmedBy(pika, e)
    <3>1. b[1] < ConfirmUntil(p)[i]
      BY <2>6, <2>15, <2>16 DEF l
    <3> QED
      BY <3>1 DEF ConfirmedBy, p, i
  <2> QED
    BY <2>1, <2>4, <2>17 DEF LogGood
<1> QED
  BY <1>1, Inductive, PTL

(***************************************************************************)
(* The log is a function of what the epochs that are output confirm: all   *)
(* of it, in order of the confirming epoch, the ID, the own epoch.         *)
(***************************************************************************)
THEOREM OneLedger == Spec => []LogIsOrder
<1>1. IInv => LogIsOrder
  <2> DEFINE last == pika.firstUnoutput - 1
             confirms == UNION {{e} \X Confirmed(e) : e \in 0..last}
             place(b) == <<Min({c[1] : c \in {d \in confirms : d[2] = b}}), Id(b[2]), b[1]>>
             precedes(p, q) ==
               \E k \in 1..3 : p[k] < q[k] /\ \A j \in 1..(k - 1) : p[j] = q[j]
             log == pika.log
  <2> SUFFICES ASSUME IInv
               PROVE  /\ ToSet(log) = {c[2] : c \in confirms}
                      /\ \A k \in 2..Len(log) : precedes(place(log[k - 1]), place(log[k]))
    BY DEF LogIsOrder, Id
  <2>1. StateOK(pika) /\ LogGood(pika)
    BY DEF IInv, Good
  <2>2. pika.firstUnoutput \in 0..pika.len /\ pika.len \in Nat /\ log \in Seq(Entry)
        /\ pika.len <= maxEpoch + 1 /\ maxEpoch \in Nat
    BY <2>1, Fields
  <2>3. ASSUME NEW e \in 0..last PROVE Confirmed(e) = ConfirmedBy(pika, e)
    <3> DEFINE u == ConfirmUntil(pika.epochs[e])
    <3>1. e \in 0..(pika.len - 1) /\ pika.epochs[e].termed /\ e \in Epoch
      BY <2>1, <2>2 DEF LogGood, Epoch
    <3>2. \A i \in Node : u[i] \in Nat /\ u[i] <= e
      BY <2>1, <3>1, UntilBounded
    <3>3. Accepted(pika.epochs[e]) \subseteq Node
      BY DEF Accepted
    <3> HIDE DEF u
    <3>4. \A i \in Node : \A lv \in 0..(u[i] - 1) : <<lv, i>> \in Entry /\ lv < u[i]
      <4> SUFFICES ASSUME NEW i \in Node, NEW lv \in 0..(u[i] - 1)
                   PROVE  lv \in 0..maxEpoch /\ lv < u[i]
        BY DEF Entry, Epoch
      <4> QED
        BY <2>2, <3>1, <3>2
    <3>5. Confirmed(e) = (UNION {(0..(u[i] - 1)) \X {i} : i \in Node})
                           \cup ({e} \X Accepted(pika.epochs[e]))
      BY DEF Confirmed, u
    <3>6. ConfirmedBy(pika, e) =
            {b \in Entry : \/ b[1] < u[b[2]]
                           \/ b[1] = e /\ b[2] \in Accepted(pika.epochs[e])}
      BY DEF ConfirmedBy, u
    <3>7. ASSUME NEW b \in Confirmed(e) PROVE b \in ConfirmedBy(pika, e)
      <4>1. CASE b \in {e} \X Accepted(pika.epochs[e])
        BY <3>1, <3>3, <3>6, <4>1 DEF Entry
      <4>2. CASE b \in UNION {(0..(u[i] - 1)) \X {i} : i \in Node}
        <5>1. PICK i \in Node : b \in (0..(u[i] - 1)) \X {i}
          BY <4>2
        <5>2. b = <<b[1], i>> /\ b[1] \in 0..(u[i] - 1) /\ b[2] = i
          BY <5>1
        <5>3. b \in Entry /\ b[1] < u[i]
          BY <3>4, <5>2
        <5> QED
          BY <3>6, <5>2, <5>3
      <4> QED
        BY <3>5, <3>7, <4>1, <4>2
    <3>8. ASSUME NEW b \in ConfirmedBy(pika, e) PROVE b \in Confirmed(e)
      <4>1. b \in Entry /\ b = <<b[1], b[2]>> /\ b[1] \in Nat /\ b[2] \in Node
        BY <3>6 DEF Entry, Epoch
      <4>2. CASE b[1] < u[b[2]]
        <5>1. b[1] \in 0..(u[b[2]] - 1)
          BY <3>2, <4>1, <4>2
        <5>2. b \in (0..(u[b[2]] - 1)) \X {b[2]}
          BY <4>1, <5>1
        <5> QED
          BY <3>5, <4>1, <5>2
      <4>3. CASE b[1] = e /\ b[2] \in Accepted(pika.epochs[e])
        BY <3>5, <4>1, <4>3
      <4> QED
        BY <3>6, <4>2, <4>3
    <3> QED
      BY <3>7, <3>8
  <2>4. \A x : x \in confirms <=> \E e \in 0..last : \E b \in ConfirmedBy(pika, e) : x = <<e, b>>
    BY <2>3
  <2> HIDE DEF confirms
  <2>5. ToSet(log) = {c[2] : c \in confirms}
    <3>1. \A b \in ToSet(log) : b \in Entry
      BY <2>2 DEF ToSet
    <3>2. \A e : \A b \in ConfirmedBy(pika, e) : b \in Entry
      BY DEF ConfirmedBy
    <3>3. \A b \in Entry : b \in ToSet(log) <=> \E d \in 0..last : b \in ConfirmedBy(pika, d)
      BY <2>1 DEF LogGood
    <3>4. ASSUME NEW b \in ToSet(log) PROVE b \in {c[2] : c \in confirms}
      <4>1. PICK d \in 0..last : b \in ConfirmedBy(pika, d)
        BY <3>1, <3>3
      <4>2. <<d, b>> \in confirms /\ <<d, b>>[2] = b
        BY <2>4, <4>1
      <4> QED
        BY <4>2
    <3>5. ASSUME NEW c \in confirms PROVE c[2] \in ToSet(log)
      <4>1. PICK d \in 0..last : \E b \in ConfirmedBy(pika, d) : c = <<d, b>>
        BY <2>4
      <4>2. c[2] \in ConfirmedBy(pika, d)
        BY <4>1
      <4> QED
        BY <3>2, <3>3, <4>2
    <3> QED
      BY <3>4, <3>5
  <2>6. ASSUME NEW b, NEW d, FirstBy(pika, b, d) PROVE place(b)[1] = d
    <3> DEFINE M == {c[1] : c \in {x \in confirms : x[2] = b}}
    <3>1. d \in 0..last /\ b \in ConfirmedBy(pika, d)
          /\ \A c \in 0..(d - 1) : b \notin ConfirmedBy(pika, c)
      BY <2>6 DEF FirstBy
    <3>2. \A x : x \in M <=> x \in 0..last /\ b \in ConfirmedBy(pika, x)
      <4>1. ASSUME NEW x \in M PROVE x \in 0..last /\ b \in ConfirmedBy(pika, x)
        <5>1. PICK c \in confirms : c[2] = b /\ x = c[1]
          OBVIOUS
        <5>2. PICK d2 \in 0..last : \E a \in ConfirmedBy(pika, d2) : c = <<d2, a>>
          BY <2>4
        <5> QED
          BY <5>1, <5>2
      <4>2. ASSUME NEW x \in 0..last, b \in ConfirmedBy(pika, x) PROVE x \in M
        <5>1. <<x, b>> \in confirms /\ <<x, b>>[1] = x /\ <<x, b>>[2] = b
          BY <2>4, <4>2
        <5> QED
          BY <5>1
      <4> HIDE DEF M
      <4> QED
        BY <4>1, <4>2
    <3> HIDE DEF M
    <3>3. d \in M /\ \A y \in M : d <= y
      BY <2>2, <3>1, <3>2
    <3>4. \A x \in M : x \in Int
      BY <3>2
    <3>5. Min(M) = d
      BY <3>3, <3>4 DEF Min
    <3> QED
      BY <3>5 DEF M
  <2>7. ASSUME NEW k \in 2..Len(log) PROVE precedes(place(log[k - 1]), place(log[k]))
    <3> DEFINE b == log[k - 1]
               c == log[k]
               p == place(b)
               q == place(c)
    <3>1. k - 1 \in 1..Len(log) /\ k \in 1..Len(log) /\ k - 1 < k
      BY <2>2
    <3>2. Before(pika, b, c)
      BY <2>1, <3>1 DEF LogGood
    <3> HIDE DEF b, c, place
    <3>3. PICK d, f \in 0..last :
            /\ FirstBy(pika, b, d) /\ FirstBy(pika, c, f)
            /\ \/ d < f
               \/ d = f /\ Id(b[2]) < Id(c[2])
               \/ d = f /\ b[2] = c[2] /\ b[1] < c[1]
      BY <3>2 DEF Before
    <3>4. p[1] = d /\ q[1] = f
      BY <2>6, <3>3
    <3>5. /\ p[2] = Id(b[2]) /\ p[3] = b[1] /\ q[2] = Id(c[2]) /\ q[3] = c[1]
      BY DEF place
    <3> HIDE DEF p, q
    <3>6. CASE d < f
      <4>1. p[1] < q[1] /\ \A j \in 1..(1 - 1) : p[j] = q[j]
        BY <3>4, <3>6
      <4> QED
        BY <4>1 DEF p, q, b, c
    <3>7. CASE d = f /\ Id(b[2]) < Id(c[2])
      <4>1. p[2] < q[2] /\ \A j \in 1..(2 - 1) : p[j] = q[j]
        BY <3>4, <3>5, <3>7
      <4> QED
        BY <4>1 DEF p, q, b, c
    <3>8. CASE d = f /\ b[2] = c[2] /\ b[1] < c[1]
      <4>1. p[3] < q[3] /\ p[1] = q[1] /\ p[2] = q[2]
        BY <3>4, <3>5, <3>8
      <4>2. \A j \in 1..(3 - 1) : j = 1 \/ j = 2
        OBVIOUS
      <4>3. \A j \in 1..(3 - 1) : p[j] = q[j]
        BY <4>1, <4>2
      <4> QED
        BY <4>1, <4>3 DEF p, q, b, c
    <3> QED
      BY <3>3, <3>6, <3>7, <3>8
  <2> QED
    BY <2>5, <2>7
<1> QED
  BY <1>1, Inductive, PTL
=============================================================================
