------------------------ MODULE ProtocolParams_proof ------------------------
(***************************************************************************)
(* Quorum facts that follow from N >= 3F+1, for any set of up to F faulty  *)
(* nodes.                                                                  *)
(***************************************************************************)
EXTENDS ProtocolParams, FiniteSetTheorems, TLAPS

\* What replaces induction in the proofs: a least counterexample.
LEMMA LeastExists ==
  ASSUME NEW S \in SUBSET Nat, S # {}
  PROVE  \E x \in S : \A y \in S : x <= y
<1>1. PICK x \in S : \A y \in S : ~(<<y, x>> \in OpToRel(<, Nat))
  BY NatLessThanWellFounded, WFMin
<1>2. \A y \in S : ~(y < x)
  BY <1>1 DEF OpToRel
<1> QED
  BY <1>2

LEMMA NIsNat == N \in Nat
BY NodeAssumption, FS_CardinalityType DEF N

LEMMA SubsetFinite ==
  ASSUME NEW A \in SUBSET Node
  PROVE  IsFiniteSet(A) /\ Cardinality(A) \in Nat
BY NodeAssumption, FS_Subset, FS_CardinalityType

LEMMA SubsetCardinality ==
  ASSUME NEW B \in SUBSET Node, NEW A \in SUBSET B
  PROVE  Cardinality(A) <= Cardinality(B)
BY SubsetFinite, FS_Subset

\* Of F+1 nodes, one is correct.
LEMMA OneIsCorrect ==
  ASSUME NEW Bad \in SUBSET Node, Cardinality(Bad) <= F,
         NEW A \in SUBSET Node, Cardinality(A) >= F + 1
  PROVE  \E p \in A : p \notin Bad
<1> SUFFICES ASSUME A \in SUBSET Bad PROVE FALSE
  OBVIOUS
<1>1. Cardinality(A) <= Cardinality(Bad)
  BY SubsetCardinality
<1> QED
  BY <1>1, SubsetFinite, FaultAssumption

\* Of N-F nodes, N-2F are correct.
LEMMA MostAreCorrect ==
  ASSUME NEW Bad \in SUBSET Node, Cardinality(Bad) <= F,
         NEW A \in SUBSET Node, Cardinality(A) >= N - F
  PROVE  Cardinality(A \ Bad) >= N - 2 * F
<1>1. IsFiniteSet(A) /\ IsFiniteSet(Bad)
  BY SubsetFinite
<1>2. Cardinality(A \ Bad) = Cardinality(A) - Cardinality(A \cap Bad)
  BY <1>1, FS_Difference
<1>3. Cardinality(A \cap Bad) <= Cardinality(Bad)
  BY SubsetCardinality
<1>4. A \cap Bad \in SUBSET Node
  OBVIOUS
<1> QED
  BY <1>2, <1>3, <1>4, SubsetFinite, NIsNat, FaultAssumption

\* Two sets of N-F nodes share a correct one.
LEMMA QuorumsIntersect ==
  ASSUME NEW Bad \in SUBSET Node, Cardinality(Bad) <= F,
         NEW A \in SUBSET Node, NEW B \in SUBSET Node,
         Cardinality(A) >= N - F, Cardinality(B) >= N - F
  PROVE  \E p \in A \cap B : p \notin Bad
<1>1. Cardinality(A \cup B) = Cardinality(A) + Cardinality(B) - Cardinality(A \cap B)
  BY SubsetFinite, FS_Union
<1>2. A \cup B \in SUBSET Node /\ A \cap B \in SUBSET Node
  OBVIOUS
<1>3. Cardinality(A \cup B) <= N
  BY <1>2, NodeAssumption, FS_Subset DEF N
<1>4. Cardinality(A \cap B) >= F + 1
  BY <1>1, <1>2, <1>3, SubsetFinite, NIsNat, FaultAssumption
<1> QED
  BY <1>2, <1>4, OneIsCorrect
=============================================================================
