---------------------------- MODULE Daemon_proof ----------------------------
(***************************************************************************)
(* Proofs about the parts of the daemon: the server keeps the order of     *)
(* what the protocol makes and loses nothing of it, a connection keeps the *)
(* streams of the newest epochs open, loses only what is not wanted and    *)
(* keeps signals in order, and the block generator neither loses a         *)
(* transaction nor logs what was not sent.                                 *)
(***************************************************************************)
EXTENDS MCDaemon, SequenceTheorems, FiniteSetTheorems, TLAPS

-----------------------------------------------------------------------------
(***************************************************************************)
(* Sequences.  FlattenSeq is a recursive function on the indices; two of   *)
(* them agree as far as their sequences do.                                *)
(***************************************************************************)
LEMMA Least ==
  ASSUME NEW S \in SUBSET Nat, S # {}
  PROVE  \E x \in S : \A y \in S : x <= y
<1>1. PICK x \in S : \A y \in S : ~(<<y, x>> \in OpToRel(<, Nat))
  BY NatLessThanWellFounded, WFMin
<1>2. \A y \in S : ~(y < x)
  BY <1>1 DEF OpToRel
<1> QED
  BY <1>2

Associates(a, b, c) == (a \o b) \o c = a \o (b \o c)

LEMMA SeqAssociates ==
  ASSUME NEW T, NEW a \in Seq(T), NEW b \in Seq(T), NEW c \in Seq(T)
  PROVE  Associates(a, b, c)
BY ConcatAssociative DEF Associates

Flattens(f, m, g) ==
  g = [i \in 1..m |-> IF i = 1 THEN f[i] ELSE g[i - 1] \o f[i]]

LEMMA FlattensExists ==
  ASSUME NEW f, NEW m \in Nat
  PROVE  \E g : Flattens(f, m, g)
<1> DEFINE S == {l \in Nat : ~\E g : Flattens(f, l, g)}
<1>1. SUFFICES ASSUME S # {} PROVE FALSE
  OBVIOUS
<1>2. PICK l \in S : \A k \in S : l <= k
  <2>1. S \in SUBSET Nat
    OBVIOUS
  <2> HIDE DEF S
  <2> QED
    BY <1>1, <2>1, Least
<1>3. l \in Nat /\ ~\E g : Flattens(f, l, g)
  BY <1>2
<1>4. l # 0 /\ l - 1 \in Nat /\ \E g : Flattens(f, l - 1, g)
  <2>1. l # 0
    <3> DEFINE h == [i \in 1..0 |-> f[i]]
    <3>1. Flattens(f, 0, h)
      BY DEF Flattens
    <3> QED
      BY <1>3, <3>1
  <2>2. l - 1 \in Nat /\ ~(l <= l - 1)
    BY <1>3, <2>1
  <2>3. l - 1 \notin S
    BY <1>2, <2>2
  <2> QED
    BY <2>1, <2>2, <2>3
<1>5. PICK g : Flattens(f, l - 1, g)
  BY <1>4
<1> DEFINE last == IF l = 1 THEN f[l] ELSE g[l - 1] \o f[l]
           h == [k \in 1..l |-> IF k = l THEN last ELSE g[k]]
<1>6. Flattens(f, l, h)
  <2>1. \A k \in 1..(l - 1) : h[k] = g[k]
    BY <1>4
  <2>2. \A k \in 1..(l - 1) : g[k] = IF k = 1 THEN f[k] ELSE g[k - 1] \o f[k]
    BY <1>5 DEF Flattens
  <2>3. h[l] = last
    BY <1>3, <1>4
  <2>4. h = [k \in 1..l |-> h[k]]
    OBVIOUS
  <2> HIDE DEF h
  <2>5. \A k \in 1..l : h[k] = IF k = 1 THEN f[k] ELSE h[k - 1] \o f[k]
    <3> SUFFICES ASSUME NEW k \in 1..l
                 PROVE h[k] = IF k = 1 THEN f[k] ELSE h[k - 1] \o f[k]
      OBVIOUS
    <3>1. CASE k = 1
      BY <3>1, <1>4, <2>1, <2>2, <2>3
    <3>2. CASE k # 1
      <4>1. k - 1 \in 1..(l - 1)
        BY <3>2, <1>4
      <4>2. h[k - 1] = g[k - 1]
        BY <4>1, <2>1
      <4>3. CASE k = l
        BY <3>2, <4>2, <4>3, <2>3
      <4>4. CASE k # l
        <5>1. k \in 1..(l - 1)
          BY <4>4, <1>4
        <5> QED
          BY <3>2, <4>2, <5>1, <2>1, <2>2
      <4> QED
        BY <4>3, <4>4
    <3> QED
      BY <3>1, <3>2
  <2> QED
    BY <2>4, <2>5 DEF Flattens
<1> QED
  BY <1>3, <1>6

\* What FlattenSeq is: the last of a row g that adds one sequence at a time.
LEMMA FlattenIs ==
  ASSUME NEW S, NEW f \in Seq(Seq(S))
  PROVE  \E g : /\ Flattens(f, Len(f), g)
                /\ \A k \in 1..Len(f) :
                     g[k] \in Seq(S) /\ g[k] = IF k = 1 THEN f[k] ELSE g[k - 1] \o f[k]
                /\ FlattenSeq(f) = IF Len(f) = 0 THEN <<>> ELSE g[Len(f)]
<1> DEFINE m == Len(f)
           g == CHOOSE h : Flattens(f, m, h)
<1>1. m \in Nat /\ \A k \in 1..m : f[k] \in Seq(S)
  OBVIOUS
<1>2. Flattens(f, m, g)
  BY <1>1, FlattensExists
<1>3. FlattenSeq(f) = IF m = 0 THEN f ELSE g[m]
  BY <1>1 DEF FlattenSeq, Flattens
<1>4. m = 0 => f = <<>>
  OBVIOUS
<1> HIDE DEF g, m
<1>5. \A k \in 1..m : g[k] = IF k = 1 THEN f[k] ELSE g[k - 1] \o f[k]
  BY <1>2 DEF Flattens
<1> DEFINE C == {k \in 1..m : g[k] \notin Seq(S)}
<1>6. C = {}
  <2> SUFFICES ASSUME C # {} PROVE FALSE
    OBVIOUS
  <2>1. PICK k \in C : \A d \in C : k <= d
    <3>1. C \in SUBSET Nat
      BY <1>1
    <3> HIDE DEF C
    <3> QED
      BY <3>1, Least
  <2>2. k \in 1..m /\ g[k] \notin Seq(S)
    BY <2>1
  <2>3. k # 1
    BY <1>1, <1>5, <2>2
  <2>4. k - 1 \in 1..m /\ ~(k <= k - 1)
    BY <1>1, <2>2, <2>3
  <2>5. g[k - 1] \in Seq(S)
    BY <2>1, <2>4
  <2>6. g[k] = g[k - 1] \o f[k]
    BY <1>5, <2>2, <2>3
  <2> QED
    BY <1>1, <2>2, <2>5, <2>6
<1> QED
  BY <1>2, <1>3, <1>4, <1>5, <1>6 DEF m

LEMMA AppendIs ==
  ASSUME NEW T, NEW q \in Seq(T), NEW y \in T
  PROVE  /\ DOMAIN Append(q, y) = 1..(Len(q) + 1)
         /\ Append(q, y) = [n \in 1..(Len(q) + 1) |-> Append(q, y)[n]]
         /\ Append(q, y)[Len(q) + 1] = y
         /\ \A n \in 1..Len(q) : Append(q, y)[n] = q[n]
<1> DEFINE r == Append(q, y)
<1>1. /\ r \in Seq(T) /\ Len(r) = Len(q) + 1
      /\ \A n \in 1..Len(q) : r[n] = q[n]
      /\ r[Len(q) + 1] = y
  BY AppendProperties
<1> HIDE DEF r
<1>2. DOMAIN r = 1..Len(r) /\ r = [n \in 1..Len(r) |-> r[n]]
  BY <1>1
<1> QED
  BY <1>1, <1>2 DEF r

\* One more at the end.
LEMMA FlattenAppend ==
  ASSUME NEW S, NEW f \in Seq(Seq(S)), NEW x \in Seq(S)
  PROVE  /\ FlattenSeq(f) \in Seq(S)
         /\ FlattenSeq(Append(f, x)) = FlattenSeq(f) \o x
<1> DEFINE e == Append(f, x)
           m == Len(f)
<1>1. e \in Seq(Seq(S)) /\ Len(e) = m + 1 /\ m \in Nat
  OBVIOUS
<1>2. e[m + 1] = x /\ \A k \in 1..m : e[k] = f[k]
  OBVIOUS
<1> HIDE DEF e
<1>3. PICK g : /\ Flattens(f, m, g)
               /\ \A k \in 1..m :
                    g[k] \in Seq(S) /\ g[k] = IF k = 1 THEN f[k] ELSE g[k - 1] \o f[k]
               /\ FlattenSeq(f) = IF m = 0 THEN <<>> ELSE g[m]
  BY FlattenIs
<1>4. PICK h : /\ Flattens(e, Len(e), h)
               /\ \A k \in 1..Len(e) :
                    h[k] \in Seq(S) /\ h[k] = IF k = 1 THEN e[k] ELSE h[k - 1] \o e[k]
               /\ FlattenSeq(e) = IF Len(e) = 0 THEN <<>> ELSE h[Len(e)]
  BY <1>1, FlattenIs
<1>5. \A k \in 1..(m + 1) : h[k] = IF k = 1 THEN e[k] ELSE h[k - 1] \o e[k]
  BY <1>1, <1>4
<1>6. FlattenSeq(e) = h[m + 1]
  BY <1>1, <1>4
<1> HIDE DEF m
<1> DEFINE C == {k \in 1..m : g[k] # h[k]}
<1>7. C = {}
  <2> SUFFICES ASSUME C # {} PROVE FALSE
    OBVIOUS
  <2>1. PICK k \in C : \A d \in C : k <= d
    <3>1. C \in SUBSET Nat
      BY <1>1
    <3> HIDE DEF C
    <3> QED
      BY <3>1, Least
  <2>2. k \in 1..m /\ k \in 1..(m + 1) /\ g[k] # h[k] /\ e[k] = f[k]
    BY <1>1, <1>2, <2>1
  <2>3. k # 1
    BY <1>3, <1>5, <2>2
  <2>4. k - 1 \in 1..m /\ ~(k <= k - 1)
    BY <1>1, <2>2, <2>3
  <2>5. g[k - 1] = h[k - 1]
    BY <2>1, <2>4
  <2>6. g[k] = g[k - 1] \o f[k]
    BY <1>3, <2>2, <2>3
  <2>7. h[k] = h[k - 1] \o e[k]
    BY <1>5, <2>2, <2>3
  <2> QED
    BY <2>2, <2>5, <2>6, <2>7
<1>8. CASE m = 0
  <2>1. h[1] = x
    BY <1>2, <1>5, <1>8
  <2> QED
    BY <1>3, <1>6, <1>8, <2>1 DEF e
<1>9. CASE m # 0
  <2>1. h[m + 1] = h[m] \o x
    <3>1. m + 1 \in 1..(m + 1) /\ m + 1 # 1 /\ (m + 1) - 1 = m
      BY <1>1, <1>9
    <3>2. h[m + 1] = h[(m + 1) - 1] \o e[m + 1]
      BY <1>5, <3>1
    <3> QED
      BY <1>2, <3>1, <3>2
  <2>2. m \in 1..m
    BY <1>1, <1>9
  <2>3. h[m] = g[m] /\ g[m] \in Seq(S)
    BY <1>3, <1>7, <2>2
  <2> QED
    BY <1>3, <1>6, <1>9, <2>1, <2>3 DEF e
<1> QED
  BY <1>8, <1>9

\* The elements of s that are in R, in order.
Pick(s, R) == FlattenSeq([n \in DOMAIN s |-> IF s[n] \in R THEN <<s[n]>> ELSE <<>>])

LEMMA PickEmpty == \A R : Pick(<<>>, R) = <<>>
<1> SUFFICES ASSUME NEW R PROVE Pick(<<>>, R) = <<>>
  OBVIOUS
<1> DEFINE f == [n \in DOMAIN <<>> |-> IF <<>>[n] \in R THEN <<<<>>[n]>> ELSE <<>>]
<1>1. f = <<>> /\ Len(f) = 0
  OBVIOUS
<1> QED
  BY <1>1 DEF Pick, FlattenSeq

LEMMA PickAppend ==
  ASSUME NEW S, NEW R, NEW s \in Seq(S), NEW x \in S
  PROVE  /\ Pick(s, R) \in Seq(S)
         /\ Pick(Append(s, x), R) = IF x \in R THEN Append(Pick(s, R), x) ELSE Pick(s, R)
<1> DEFINE f(t) == [n \in DOMAIN t |-> IF t[n] \in R THEN <<t[n]>> ELSE <<>>]
           y == IF x \in R THEN <<x>> ELSE <<>>
           t == Append(s, x)
<1>1. f(s) \in Seq(Seq(S)) /\ Len(f(s)) = Len(s) /\ y \in Seq(S) /\ Len(s) \in Nat
  <2>1. DOMAIN s = 1..Len(s) /\ Len(s) \in Nat /\ \A n \in 1..Len(s) : s[n] \in S
    OBVIOUS
  <2>2. f(s) \in [1..Len(s) -> Seq(S)]
    BY <2>1
  <2> HIDE DEF f
  <2> QED
    BY <2>1, <2>2
<1>2. f(t) = Append(f(s), y)
  <2>1. DOMAIN t = 1..(Len(s) + 1) /\ t[Len(s) + 1] = x /\ \A n \in 1..Len(s) : t[n] = s[n]
    OBVIOUS
  <2>2. DOMAIN s = 1..Len(s)
    OBVIOUS
  <2>3. \A n \in 1..Len(s) : f(t)[n] = f(s)[n]
    BY <2>1, <2>2
  <2>4. f(t)[Len(s) + 1] = y
    BY <1>1, <2>1
  <2>5. DOMAIN f(t) = 1..(Len(s) + 1) /\ f(t) = [n \in 1..(Len(s) + 1) |-> f(t)[n]]
    BY <2>1
  <2> HIDE DEF f, y, t
  <2>6. /\ DOMAIN Append(f(s), y) = 1..(Len(s) + 1)
        /\ Append(f(s), y) = [n \in 1..(Len(s) + 1) |-> Append(f(s), y)[n]]
        /\ Append(f(s), y)[Len(s) + 1] = y
        /\ \A n \in 1..Len(s) : Append(f(s), y)[n] = f(s)[n]
    <3> DEFINE q == f(s)
               T == Seq(S)
    <3>1. q \in Seq(T) /\ y \in T /\ Len(q) = Len(s)
      BY <1>1
    <3> HIDE DEF q, T
    <3>2. /\ DOMAIN Append(q, y) = 1..(Len(q) + 1)
          /\ Append(q, y) = [n \in 1..(Len(q) + 1) |-> Append(q, y)[n]]
          /\ Append(q, y)[Len(q) + 1] = y
          /\ \A n \in 1..Len(q) : Append(q, y)[n] = q[n]
      BY <3>1, AppendIs
    <3> QED
      BY <3>1, <3>2 DEF q
  <2>7. \A n \in 1..(Len(s) + 1) : f(t)[n] = Append(f(s), y)[n]
    <3> SUFFICES ASSUME NEW n \in 1..(Len(s) + 1) PROVE f(t)[n] = Append(f(s), y)[n]
      OBVIOUS
    <3>1. n \in 1..Len(s) \/ n = Len(s) + 1
      BY <1>1
    <3> QED
      BY <2>3, <2>4, <2>6, <3>1
  <2> QED
    BY <2>5, <2>6, <2>7
<1>3. FlattenSeq(f(s)) \in Seq(S) /\ FlattenSeq(f(t)) = FlattenSeq(f(s)) \o y
  <2> HIDE DEF f, y, t
  <2> QED
    BY <1>1, <1>2, FlattenAppend
<1>4. Pick(s, R) = FlattenSeq(f(s)) /\ Pick(t, R) = FlattenSeq(f(t))
  BY DEF Pick
<1>5. Pick(s, R) \o y = IF x \in R THEN Append(Pick(s, R), x) ELSE Pick(s, R)
  <2> HIDE DEF f
  <2> QED
    BY <1>3, <1>4
<1> HIDE DEF f, y
<1> QED
  BY <1>3, <1>4, <1>5

LEMMA PickHead ==
  ASSUME NEW S, NEW R, NEW s \in Seq(S), s # <<>>
  PROVE  Pick(s, R) = (IF Head(s) \in R THEN <<Head(s)>> ELSE <<>>) \o Pick(Tail(s), R)
<1> DEFINE First(q) == IF Head(q) \in R THEN <<Head(q)>> ELSE <<>>
           Fails(q) == Pick(q, R) # First(q) \o Pick(Tail(q), R)
           C == {n \in Nat : \E q \in Seq(S) : q # <<>> /\ Len(q) = n /\ Fails(q)}
<1> SUFFICES ASSUME C # {} PROVE FALSE
  OBVIOUS
<1>1. PICK n \in C : \A d \in C : n <= d
  <2>1. C \in SUBSET Nat
    OBVIOUS
  <2> HIDE DEF C
  <2> QED
    BY <2>1, Least
<1>2. PICK q \in Seq(S) : q # <<>> /\ Len(q) = n /\ Fails(q)
  BY <1>1
<1> HIDE DEF C
<1>a. PICK r \in Seq(S) : \E x \in S : q = Append(r, x)
  BY <1>2, SequenceEmptyOrAppend
<1>b. PICK x \in S : q = Append(r, x)
  BY <1>a
<1>3. r \in Seq(S) /\ x \in S /\ q = Append(r, x) /\ Len(r) = n - 1 /\ n \in Nat \ {0}
  BY <1>2, <1>b
<1>4. /\ Pick(r, R) \in Seq(S)
      /\ Pick(q, R) = IF x \in R THEN Append(Pick(r, R), x) ELSE Pick(r, R)
  BY <1>3, PickAppend
<1>5. CASE r = <<>>
  <2>1. Head(q) = x /\ Tail(q) = <<>>
    BY <1>3, <1>5
  <2>2. Pick(q, R) = IF x \in R THEN <<x>> ELSE <<>>
    <3>1. Pick(r, R) = <<>> /\ Append(<<>>, x) = <<x>>
      BY <1>5, PickEmpty
    <3> QED
      BY <1>4, <3>1
  <2>3. First(q) \o <<>> = First(q)
    BY <1>3, <2>1
  <2>4. Pick(Tail(q), R) = <<>>
    BY <2>1, PickEmpty
  <2> QED
    BY <1>2, <2>1, <2>2, <2>3, <2>4
<1>6. CASE r # <<>>
  <2>1. Head(q) = Head(r) /\ Tail(q) = Append(Tail(r), x) /\ Tail(r) \in Seq(S) /\ Head(r) \in S
    BY <1>3, <1>6
  <2>2. ~Fails(r)
    <3>1. n - 1 \in Nat /\ ~(n <= n - 1) /\ n - 1 \notin C
      BY <1>1, <1>3
    <3> QED
      BY <1>3, <1>6, <3>1 DEF C
  <2>3. /\ Pick(Tail(r), R) \in Seq(S)
        /\ Pick(Tail(q), R) = IF x \in R THEN Append(Pick(Tail(r), R), x) ELSE Pick(Tail(r), R)
    <3>1. /\ Pick(Tail(r), R) \in Seq(S)
          /\ Pick(Append(Tail(r), x), R) = IF x \in R THEN Append(Pick(Tail(r), R), x) ELSE Pick(Tail(r), R)
      BY <2>1, PickAppend
    <3> QED
      BY <2>1, <3>1
  <2>4. First(r) = First(q) /\ First(r) \in Seq(S)
    BY <2>1
  <2>5. Pick(r, R) = First(r) \o Pick(Tail(r), R)
    BY <2>2
  <2> HIDE DEF First
  <2>6. Append(First(r) \o Pick(Tail(r), R), x) = First(r) \o Append(Pick(Tail(r), R), x)
    <3>1. First(r) \in Seq(S) /\ Pick(Tail(r), R) \in Seq(S) /\ x \in S
      BY <1>3, <2>3, <2>4
    <3> QED
      <4> SUFFICES ASSUME NEW a \in Seq(S), NEW b \in Seq(S)
                   PROVE  Append(a \o b, x) = a \o Append(b, x)
        BY <3>1
      <4> QED
        <5>1. a \o b \in Seq(S) /\ <<x>> \in Seq(S)
          BY <3>1
        <5>2. Append(a \o b, x) = (a \o b) \o <<x>> /\ Append(b, x) = b \o <<x>>
          BY <3>1, <5>1, AppendIsConcat
        <5> QED
          <6>1. (a \o b) \o <<x>> = a \o (b \o <<x>>)
            <7>1. Associates(a, b, <<x>>)
              BY <5>1, SeqAssociates
            <7> QED
              BY <7>1 DEF Associates
          <6> HIDE DEF First, Fails
          <6> QED
            BY <5>2, <6>1
  <2>7. Pick(q, R) = First(q) \o Pick(Tail(q), R)
    BY <1>4, <2>3, <2>4, <2>5, <2>6
  <2> QED
    BY <1>2, <2>7
<1> QED
  BY <1>5, <1>6

-----------------------------------------------------------------------------
\* How often an element occurs in a sequence.
At(s, k) == {n \in 1..Len(s) : s[n] = k}

LEMMA HoldsIs ==
  ASSUME NEW S, NEW s \in Seq(S), NEW k
  PROVE  /\ Holds(s, k) = Cardinality(At(s, k)) /\ IsFiniteSet(At(s, k))
         /\ Holds(s, k) \in Nat
         /\ Holds(s, k) = 0 <=> \A n \in 1..Len(s) : s[n] # k
<1>1. DOMAIN s = 1..Len(s) /\ Len(s) \in Nat
  OBVIOUS
<1>2. IsFiniteSet(1..Len(s)) /\ At(s, k) \in SUBSET (1..Len(s))
  BY <1>1, FS_Interval DEF At
<1>3. IsFiniteSet(At(s, k))
  BY <1>2, FS_Subset
<1>4. Holds(s, k) = Cardinality(At(s, k))
  BY <1>1 DEF Holds, At
<1>5. Cardinality(At(s, k)) \in Nat /\ (Cardinality(At(s, k)) = 0 <=> At(s, k) = {})
  BY <1>3, FS_CardinalityType, FS_EmptySet
<1>6. At(s, k) = {} <=> \A n \in 1..Len(s) : s[n] # k
  BY DEF At
<1> QED
  BY <1>3, <1>4, <1>5, <1>6

LEMMA HoldsConcat ==
  ASSUME NEW S, NEW s \in Seq(S), NEW t \in Seq(S), NEW k
  PROVE  Holds(s \o t, k) = Holds(s, k) + Holds(t, k)
<1> DEFINE l == Len(s)
           A == At(s, k)
           B == At(t, k)
           C == {n \in (l + 1)..(l + Len(t)) : t[n - l] = k}
           f == [n \in B |-> n + l]
<1>1. /\ s \o t \in Seq(S) /\ Len(s \o t) = l + Len(t) /\ l \in Nat /\ Len(t) \in Nat
      /\ \A n \in 1..(l + Len(t)) : (s \o t)[n] = IF n <= l THEN s[n] ELSE t[n - l]
  BY ConcatProperties
<1>2. At(s \o t, k) = A \cup C /\ A \cap C = {}
  BY <1>1 DEF At
<1>3. IsFiniteSet(A) /\ IsFiniteSet(B) /\ Holds(s, k) = Cardinality(A) /\ Holds(t, k) = Cardinality(B)
  BY HoldsIs
<1>4. Holds(s \o t, k) = Cardinality(At(s \o t, k))
  BY <1>1, HoldsIs
<1>5. ExistsBijection(B, C)
  <2>1. f \in [B -> C]
    BY <1>1 DEF At
  <2>2. \A a, b \in B : f[a] = f[b] => a = b
    BY <1>1 DEF At
  <2>3. \A c \in C : \E b \in B : f[b] = c
    <3> SUFFICES ASSUME NEW c \in C PROVE \E b \in B : f[b] = c
      OBVIOUS
    <3>1. c - l \in B /\ f[c - l] = c
      BY <1>1 DEF At
    <3> QED
      BY <3>1
  <2> HIDE DEF B, C, f
  <2> QED
    BY <2>1, <2>2, <2>3 DEF ExistsBijection, Bijection, Injection, Surjection, IsInjective
<1> HIDE DEF A, B, C
<1>6. IsFiniteSet(C) /\ Cardinality(C) = Cardinality(B)
  BY <1>3, <1>5, FS_Bijection
<1>7. Cardinality(A \cup C) = Cardinality(A) + Cardinality(C) - Cardinality(A \cap C)
  BY <1>3, <1>6, FS_Union
<1>8. Cardinality(A \cap C) = 0 /\ Cardinality(A) \in Nat /\ Cardinality(C) \in Nat
  BY <1>2, <1>3, <1>6, FS_EmptySet, FS_CardinalityType
<1> QED
  BY <1>2, <1>3, <1>4, <1>6, <1>7, <1>8

LEMMA HoldsFew ==
  ASSUME NEW x, NEW k
  PROVE  Holds(<<>>, k) = 0 /\ Holds(<<x>>, k) = IF x = k THEN 1 ELSE 0
<1>1. {n \in DOMAIN <<>> : <<>>[n] = k} = {}
  OBVIOUS
<1>2. {n \in DOMAIN <<x>> : <<x>>[n] = k} = IF x = k THEN {1} ELSE {}
  OBVIOUS
<1> QED
  BY <1>1, <1>2, FS_EmptySet, FS_Singleton DEF Holds

LEMMA HoldsAppend ==
  ASSUME NEW S, NEW s \in Seq(S), NEW x \in S, NEW k
  PROVE  Holds(Append(s, x), k) = Holds(s, k) + (IF x = k THEN 1 ELSE 0)
<1>1. Append(s, x) = s \o <<x>> /\ <<x>> \in Seq(S)
  BY AppendIsConcat
<1>2. Holds(s \o <<x>>, k) = Holds(s, k) + Holds(<<x>>, k)
  BY <1>1, HoldsConcat
<1> QED
  BY <1>1, <1>2, HoldsFew

LEMMA HoldsHead ==
  ASSUME NEW S, NEW s \in Seq(S), s # <<>>, NEW k
  PROVE  Holds(s, k) = (IF Head(s) = k THEN 1 ELSE 0) + Holds(Tail(s), k)
<1>1. <<Head(s)>> \in Seq(S) /\ Tail(s) \in Seq(S) /\ s = <<Head(s)>> \o Tail(s)
  OBVIOUS
<1> DEFINE h == <<Head(s)>>
           t == Tail(s)
<1>2. Holds(h, k) = IF Head(s) = k THEN 1 ELSE 0
  BY HoldsFew
<1>3. h \in Seq(S) /\ t \in Seq(S) /\ s = h \o t
  BY <1>1
<1> HIDE DEF h, t
<1>4. Holds(h \o t, k) = Holds(h, k) + Holds(t, k)
  BY <1>3, HoldsConcat
<1>5. Holds(s, k) = Holds(h, k) + Holds(t, k)
  BY <1>3, <1>4
<1> QED
  BY <1>2, <1>5 DEF t

-----------------------------------------------------------------------------
(***************************************************************************)
(* The server.                                                             *)
(***************************************************************************)
Goroutine == {"loop", "ticker"}
Msgs == [to : Node, by : {"init", "tick", "loop"}]
Ids == 1..Len(made)
StageOver(Q) ==
  [pc : {"init", "wait", "loopback", "send"}, queue : Q, out : Q, event : BOOLEAN]
Stage == StageOver(Seq(Ids))

ServerTyped ==
  /\ made \in Seq(Msgs) /\ Len(made) <= MaxMsgs
  /\ heard \subseteq Ids
  /\ goroutine \in [Goroutine -> Stage]
  /\ incoming \in 0..InCap
  /\ sendChan \in Seq(Ids) /\ pushed \in Seq(Ids)
  /\ dialed \subseteq Peers /\ newPeer \in Seq(Peers) /\ outgoing \subseteq Peers
  /\ buffer \in [Node -> Seq(Ids)] /\ transmit \in [Node -> Seq(Ids)]
  /\ termReported \in BOOLEAN /\ statechan = IF termReported THEN 1 ELSE 0

\* What a goroutine holds between two calls: nothing.
Resting ==
  \A g \in Goroutine :
    /\ goroutine[g].pc \in {"init", "wait", "send"} => goroutine[g].queue = <<>>
    /\ goroutine[g].pc \in {"init", "wait"} => goroutine[g].out = <<>>

Emptied == \A p \in outgoing : buffer[p] = <<>>

ServerSound == ServerTyped /\ Resting /\ Emptied

-----------------------------------------------------------------------------
\* What a call makes.
Makes ==
  /\ made' \in Seq(Msgs) /\ Len(made') <= MaxMsgs
  /\ Len(made) \in Nat /\ Len(made') \in Nat /\ Len(made) <= Len(made')
  /\ \A k \in Ids : made'[k] = made[k]
  /\ New \in Seq(1..Len(made')) /\ Len(New) = Len(made') - Len(made)
  /\ \A k \in 1..Len(New) : New[k] = Len(made) + k

LEMMA CallMakes ==
  ASSUME ServerTyped, NEW by \in {"init", "tick", "loop"}, Call(by)
  PROVE  Makes
<1>1. made \in Seq(Msgs) /\ Len(made) \in Nat
  BY DEF ServerTyped
<1>2. PICK dests \in {<<>>} \cup {<<p>> : p \in Node} \cup (Node \X Node) :
        /\ Len(made) + Len(dests) <= MaxMsgs
        /\ made' = made \o [k \in DOMAIN dests |-> [to |-> dests[k], by |-> by]]
  BY DEF Call
<1> DEFINE more == [k \in DOMAIN dests |-> [to |-> dests[k], by |-> by]]
<1>3. dests \in Seq(Node)
  <2>1. CASE dests = <<>>
    BY <2>1
  <2>2. CASE \E p \in Node : dests = <<p>>
    BY <2>2
  <2>3. CASE dests \in Node \X Node
    <3>1. PICK p \in Node, q \in Node : dests = <<p, q>>
      BY <2>3
    <3> QED
      BY <3>1
  <2> QED
    BY <1>2, <2>1, <2>2, <2>3
<1>4. more \in Seq(Msgs) /\ Len(more) = Len(dests) /\ Len(more) \in Nat
  <2>1. DOMAIN dests = 1..Len(dests) /\ Len(dests) \in Nat /\ \A k \in 1..Len(dests) : dests[k] \in Node
    BY <1>3
  <2>2. more \in [1..Len(dests) -> Msgs]
    BY <2>1 DEF Msgs
  <2> HIDE DEF more
  <2> QED
    BY <2>1, <2>2
<1>5. made' = made \o more
  BY <1>2
<1> HIDE DEF more
<1>6. /\ made' \in Seq(Msgs) /\ Len(made') = Len(made) + Len(more)
      /\ \A k \in Ids : made'[k] = made[k]
  <2>1. /\ made \o more \in Seq(Msgs) /\ Len(made \o more) = Len(made) + Len(more)
        /\ \A k \in 1..(Len(made) + Len(more)) :
             (made \o more)[k] = IF k <= Len(made) THEN made[k] ELSE more[k - Len(made)]
    BY <1>1, <1>4
  <2> QED
    BY <1>1, <1>4, <1>5, <2>1 DEF Ids
<1>7. New \in [1..(Len(made') - Len(made)) -> 1..Len(made')]
  BY <1>1, <1>4, <1>6 DEF New
<1>8. /\ New \in Seq(1..Len(made')) /\ Len(New) = Len(made') - Len(made)
  <2> DEFINE m == Len(made') - Len(made)
             l == 1..Len(made')
  <2>1. m \in Nat /\ New \in [1..m -> l]
    BY <1>1, <1>4, <1>6, <1>7
  <2> HIDE DEF m, l
  <2>2. New \in Seq(l) /\ Len(New) = m
    BY <2>1
  <2> QED
    BY <2>2 DEF m, l
<1>9. \A k \in 1..Len(New) : New[k] = Len(made) + k
  BY <1>8 DEF New
<1>10. Len(made') <= MaxMsgs /\ Len(made') \in Nat /\ Len(made) <= Len(made')
  BY <1>1, <1>2, <1>4, <1>6, Capacities
<1> QED
  BY <1>1, <1>6, <1>8, <1>9, <1>10 DEF Makes

\* Messages are known from when they are made.
LEMMA KnownStays ==
  ASSUME Makes
  PROVE  Ids \subseteq Ids' /\ Seq(Ids) \subseteq Seq(Ids')
<1>1. Ids \subseteq Ids'
  BY DEF Makes, Ids
<1>2. \A q \in Seq(Ids) : q \in Seq(Ids')
  BY <1>1, SeqMonotonic
<1> QED
  BY <1>1, <1>2

\* What becomes of the rest when goroutine g has called the protocol.
LEMMA CallTyped ==
  ASSUME ServerSound, Makes, NEW g \in Goroutine, NEW st \in Stage', Become(g, st),
         st.pc \in {"init", "wait", "send"} => st.queue = <<>>,
         st.pc \in {"init", "wait"} => st.out = <<>>,
         heard' \subseteq Ids', incoming' \in 0..InCap,
         UNCHANGED <<sendChan, pushed>>, Elsewhere
  PROVE  ServerSound'
<1>1. Ids \subseteq Ids' /\ Seq(Ids) \subseteq Seq(Ids')
  BY KnownStays
<1> DEFINE St == goroutine
<1>2. /\ goroutine' = [goroutine EXCEPT ![g] = st]
      /\ goroutine \in [Goroutine -> Stage]
  BY DEF Become, ServerSound, ServerTyped
<1>3. \A x \in Stage : x \in Stage'
  BY <1>1 DEF Stage, StageOver
<1>4. goroutine' \in [Goroutine -> Stage']
  BY <1>2, <1>3
<1>5. /\ sendChan' \in Seq(Ids') /\ pushed' \in Seq(Ids')
      /\ buffer' \in [Node -> Seq(Ids')] /\ transmit' \in [Node -> Seq(Ids')]
  BY <1>1 DEF ServerSound, ServerTyped, Elsewhere, dispatching
<1>6. ServerTyped'
  BY <1>4, <1>5 DEF ServerSound, ServerTyped, Elsewhere, connecting, dispatching, reporting, Makes, Goroutine
<1>7. Resting'
  BY <1>2 DEF ServerSound, Resting
<1>8. Emptied'
  BY DEF ServerSound, Emptied, Elsewhere, dispatching
<1> QED
  BY <1>6, <1>7, <1>8 DEF ServerSound

\* What the next goroutine to go on has in hand.
LEMMA StageOf ==
  ASSUME ServerTyped, NEW g \in Goroutine
  PROVE  /\ goroutine[g] \in Stage
         /\ goroutine[g].queue \in Seq(Ids) /\ goroutine[g].out \in Seq(Ids)
         /\ goroutine[g].event \in BOOLEAN
         /\ goroutine[g].pc \in {"init", "wait", "loopback", "send"}
BY DEF ServerTyped, Stage, StageOver

LEMMA OwnIsThere ==
  ASSUME NEW S, NEW q \in Seq(S), OwnFrom(q) # 0
  PROVE  OwnFrom(q) \in 1..Len(q) /\ Dest(q[OwnFrom(q)]) = self
<1> DEFINE I == {i \in 1..Len(q) : Dest(q[i]) = self}
<1>1. OwnFrom(q) = IF I # {} THEN CHOOSE x \in I : \A y \in I : x <= y ELSE 0
  BY DEF OwnFrom, SelectInSeq, Min
<1>2. I \in SUBSET Nat
  OBVIOUS
<1> HIDE DEF I
<1>3. \E x \in I : \A y \in I : x <= y
  BY <1>1, <1>2, Least
<1>4. OwnFrom(q) \in I
  BY <1>1, <1>3
<1> QED
  BY <1>4 DEF I

LEMMA InitProtocolSound ==
  ASSUME ServerSound, InitProtocol
  PROVE  Makes /\ ServerSound'
<1>1. Makes
  BY CallMakes DEF InitProtocol, ServerSound
<1> DEFINE st == [Idle EXCEPT !.pc = "loopback", !.queue = New]
<1>2. st \in Stage' /\ st.pc = "loopback"
  <2> DEFINE Q == Seq(Ids')
             W == New
  <2>1. W \in Q /\ <<>> \in Q
    BY <1>1 DEF Makes, Ids
  <2>2. Stage' = StageOver(Q)
    BY DEF Stage, StageOver
  <2> HIDE DEF Q, W
  <2>3. [Idle EXCEPT !.pc = "loopback", !.queue = W] \in StageOver(Q)
    BY <2>1 DEF Idle, StageOver
  <2> QED
    BY <2>2, <2>3 DEF W, Idle
<1>3. Become("ticker", st) /\ UNCHANGED <<heard, incoming, sendChan, pushed>> /\ Elsewhere
  BY DEF InitProtocol
<1>4. heard' \subseteq Ids' /\ incoming' \in 0..InCap
  BY <1>1, <1>3, KnownStays DEF ServerSound, ServerTyped
<1> HIDE DEF st
<1> QED
  BY <1>1, <1>2, <1>3, <1>4, CallTyped DEF Goroutine

LEMMA TickSound ==
  ASSUME ServerSound, Tick
  PROVE  Makes /\ ServerSound'
<1>1. Makes
  BY CallMakes DEF Tick, ServerSound
<1> DEFINE st == [Idle EXCEPT !.pc = "send", !.out = New]
<1>2. st \in Stage' /\ st.pc = "send" /\ st.queue = <<>>
  <2> DEFINE Q == Seq(Ids')
             W == New
  <2>1. W \in Q /\ <<>> \in Q
    BY <1>1 DEF Makes, Ids
  <2>2. Stage' = StageOver(Q)
    BY DEF Stage, StageOver
  <2> HIDE DEF Q, W
  <2>3. [Idle EXCEPT !.pc = "send", !.out = W] \in StageOver(Q)
    BY <2>1 DEF Idle, StageOver
  <2> QED
    BY <2>2, <2>3 DEF W, Idle
<1>3. Become("ticker", st) /\ UNCHANGED <<heard, incoming, sendChan, pushed>> /\ Elsewhere
  BY DEF Tick
<1>4. heard' \subseteq Ids' /\ incoming' \in 0..InCap
  BY <1>1, <1>3, KnownStays DEF ServerSound, ServerTyped
<1> HIDE DEF st
<1> QED
  BY <1>1, <1>2, <1>3, <1>4, CallTyped DEF Goroutine

LEMMA ReceiveSound ==
  ASSUME ServerSound, Receive
  PROVE  Makes /\ ServerSound'
<1>1. Makes
  BY CallMakes DEF Receive, ServerSound
<1>2. PICK e \in BOOLEAN :
        Become("loop", [Idle EXCEPT !.pc = "loopback", !.queue = New, !.event = e])
  BY DEF Receive
<1> DEFINE st == [Idle EXCEPT !.pc = "loopback", !.queue = New, !.event = e]
<1>3. st \in Stage' /\ st.pc = "loopback"
  <2> DEFINE Q == Seq(Ids')
             W == New
  <2>1. W \in Q /\ <<>> \in Q
    BY <1>1 DEF Makes, Ids
  <2>2. Stage' = StageOver(Q)
    BY DEF Stage, StageOver
  <2> HIDE DEF Q, W
  <2>3. [Idle EXCEPT !.pc = "loopback", !.queue = W, !.event = e] \in StageOver(Q)
    BY <2>1 DEF Idle, StageOver
  <2> QED
    BY <2>2, <2>3 DEF W, Idle
<1>4. /\ Become("loop", st) /\ UNCHANGED <<heard, sendChan, pushed>> /\ Elsewhere
      /\ incoming > 0 /\ incoming' = incoming - 1
  BY <1>2 DEF Receive
<1>5. heard' \subseteq Ids' /\ incoming' \in 0..InCap
  BY <1>1, <1>4, KnownStays, Capacities DEF ServerSound, ServerTyped
<1> HIDE DEF st
<1> QED
  BY <1>1, <1>3, <1>4, <1>5, CallTyped DEF Goroutine

\* The queue in three parts: what is in front of the own message, it, the rest.
LEMMA Parts ==
  ASSUME NEW S, NEW q \in Seq(S), NEW n \in 1..Len(q)
  PROVE  /\ SubSeq(q, 1, n - 1) \in Seq(S) /\ SubSeq(q, n + 1, Len(q)) \in Seq(S)
         /\ q[n] \in S
         /\ q = SubSeq(q, 1, n - 1) \o (<<q[n]>> \o SubSeq(q, n + 1, Len(q)))
<1>1. /\ SubSeq(q, 1, n - 1) \in Seq(S) /\ SubSeq(q, n + 1, Len(q)) \in Seq(S)
      /\ q[n] \in S
  OBVIOUS
<1>2. SubSeq(q, n, Len(q)) = <<q[n]>> \o SubSeq(q, n + 1, Len(q))
  <2>1. n \in 1..Len(q) /\ Len(q) \in n..Len(q)
    OBVIOUS
  <2> QED
    BY <2>1, SubSeqRecursiveFirst
<1>3. q = SubSeq(q, 1, n - 1) \o SubSeq(q, n, Len(q))
  <2> DEFINE a == SubSeq(q, 1, n - 1)
             b == SubSeq(q, n, Len(q))
  <2>1. a \in Seq(S) /\ Len(a) = n - 1 /\ \A i \in 1..(n - 1) : a[i] = q[i]
    OBVIOUS
  <2>2. b \in Seq(S) /\ Len(b) = Len(q) - n + 1 /\ \A i \in 1..(Len(q) - n + 1) : b[i] = q[n + i - 1]
    OBVIOUS
  <2> HIDE DEF a, b
  <2>3. a \o b \in Seq(S) /\ Len(a \o b) = Len(q)
    BY <2>1, <2>2
  <2>4. \A i \in 1..Len(q) : (a \o b)[i] = q[i]
    <3> SUFFICES ASSUME NEW i \in 1..Len(q) PROVE (a \o b)[i] = q[i]
      OBVIOUS
    <3>1. n \in Nat /\ Len(q) \in Nat
      OBVIOUS
    <3>2. (a \o b)[i] = IF i <= n - 1 THEN a[i] ELSE b[i - (n - 1)]
      BY <2>1, <2>2, <3>1
    <3>3. CASE i <= n - 1
      BY <2>1, <3>1, <3>2, <3>3
    <3>4. CASE ~(i <= n - 1)
      <4>1. i - (n - 1) \in 1..(Len(q) - n + 1) /\ n + (i - (n - 1)) - 1 = i
        BY <3>1, <3>4
      <4> QED
        BY <2>2, <3>2, <3>4, <4>1
    <3> QED
      BY <3>3, <3>4
  <2>5. a \o b = q
    BY <2>3, <2>4, SeqEqual
  <2> QED
    BY <2>5 DEF a, b
<1> QED
  BY <1>1, <1>2, <1>3

LEMMA LoopbackSound ==
  ASSUME ServerSound, NEW g \in Goroutine, Loopback(g)
  PROVE  Makes /\ ServerSound'
<1> DEFINE old == goroutine[g]
           n == OwnFrom(old.queue)
           front == SubSeq(old.queue, 1, n - 1)
           rest == SubSeq(old.queue, n + 1, Len(old.queue))
<1>1. Makes
  <2>1. Call(IF g = "loop" THEN "loop" ELSE "init")
    BY DEF Loopback
  <2> QED
    BY <2>1, CallMakes DEF ServerSound
<1>2. PICK e \in BOOLEAN :
        Become(g, [old EXCEPT !.out = @ \o front, !.queue = rest \o New, !.event = @ \/ e])
  BY DEF Loopback
<1> DEFINE st == [old EXCEPT !.out = @ \o front, !.queue = rest \o New, !.event = @ \/ e]
<1>3. /\ old \in Stage /\ old.queue \in Seq(Ids) /\ old.out \in Seq(Ids)
      /\ old.event \in BOOLEAN /\ old.pc = "loopback" /\ n # 0
  BY StageOf DEF ServerSound, Loopback
<1>4. n \in 1..Len(old.queue)
  BY <1>3, OwnIsThere
<1>5. front \in Seq(Ids) /\ rest \in Seq(Ids) /\ old.queue[n] \in Ids
  <2> DEFINE q == old.queue
  <2>1. q \in Seq(Ids) /\ n \in 1..Len(q)
    BY <1>3, <1>4
  <2> HIDE DEF q, n, old
  <2>2. SubSeq(q, 1, n - 1) \in Seq(Ids) /\ SubSeq(q, n + 1, Len(q)) \in Seq(Ids) /\ q[n] \in Ids
    BY <2>1, Parts
  <2> QED
    BY <2>2 DEF q
<1>6. /\ heard' = heard \cup {old.queue[n]}
      /\ UNCHANGED <<incoming, sendChan, pushed>> /\ Elsewhere
  BY DEF Loopback
<1>7. Seq(Ids) \subseteq Seq(Ids') /\ Ids \subseteq Ids'
  BY <1>1, KnownStays
<1>8. New \in Seq(Ids')
  BY <1>1 DEF Makes, Ids
<1> HIDE DEF front, rest, n
<1>9. old.out \o front \in Seq(Ids') /\ rest \o New \in Seq(Ids')
  BY <1>3, <1>5, <1>7, <1>8
<1>10. st \in Stage' /\ st.pc = "loopback"
  BY <1>3, <1>9 DEF Stage, StageOver
<1>11. heard' \subseteq Ids' /\ incoming' \in 0..InCap
  BY <1>5, <1>6, <1>7 DEF ServerSound, ServerTyped
<1>12. Become(g, st)
  BY <1>2
<1> HIDE DEF st
<1> QED
  BY <1>1, <1>6, <1>10, <1>11, <1>12, CallTyped

\* Steps in which no call is made.
LEMMA QuietTyped ==
  ASSUME ServerSound, UNCHANGED made, NEW g \in Goroutine, NEW st \in Stage, Become(g, st),
         st.pc \in {"init", "wait", "send"} => st.queue = <<>>,
         st.pc \in {"init", "wait"} => st.out = <<>>
  PROVE  goroutine' \in [Goroutine -> Stage'] /\ Resting' /\ Ids' = Ids
BY DEF ServerSound, ServerTyped, Resting, Become, Stage, StageOver, Ids

LEMMA LoopbackEndsSound ==
  ASSUME ServerSound, NEW g \in Goroutine, LoopbackEnds(g)
  PROVE  ServerSound'
<1> DEFINE old == goroutine[g]
           st == [old EXCEPT !.pc = "send", !.queue = <<>>, !.out = @ \o old.queue]
<1>1. /\ old \in Stage /\ old.queue \in Seq(Ids) /\ old.out \in Seq(Ids)
      /\ old.event \in BOOLEAN
  BY StageOf DEF ServerSound
<1>2. st \in Stage /\ st.pc = "send" /\ st.queue = <<>>
  <2> DEFINE Q == Seq(Ids)
             o == old
             r == o.out \o o.queue
  <2>1. r \in Q /\ <<>> \in Q /\ o \in StageOver(Q)
    BY <1>1 DEF Stage
  <2>2. st = [o EXCEPT !.pc = "send", !.queue = <<>>, !.out = r]
    BY DEF st
  <2> HIDE DEF Q, o, r, st
  <2> QED
    BY <2>1, <2>2 DEF Q, Stage, StageOver
<1>3. /\ Become(g, st)
      /\ UNCHANGED <<calling, incoming, sendChan, pushed>> /\ Elsewhere
  BY DEF LoopbackEnds
<1> HIDE DEF st
<1>4. goroutine' \in [Goroutine -> Stage'] /\ Resting' /\ Ids' = Ids
  BY <1>2, <1>3, QuietTyped DEF calling
<1> QED
  BY <1>3, <1>4
  DEF ServerSound, ServerTyped, Emptied, Elsewhere, calling, connecting, dispatching, reporting

LEMMA PushSound ==
  ASSUME ServerSound, NEW g \in Goroutine, Push(g)
  PROVE  ServerSound'
<1> DEFINE old == goroutine[g]
           st == [old EXCEPT !.out = Tail(@)]
<1>1. /\ old \in Stage /\ old.queue \in Seq(Ids) /\ old.out \in Seq(Ids) /\ old.out # <<>>
      /\ old.event \in BOOLEAN /\ old.pc = "send" /\ old.queue = <<>>
  BY StageOf DEF ServerSound, Resting, Push
<1>2. Head(old.out) \in Ids /\ Tail(old.out) \in Seq(Ids)
  BY <1>1
<1>3. st \in Stage /\ st.pc = "send" /\ st.queue = <<>>
  BY <1>1, <1>2 DEF Stage, StageOver
<1>4. /\ Become(g, st)
      /\ sendChan' = Append(sendChan, Head(old.out)) /\ pushed' = Append(pushed, Head(old.out))
      /\ UNCHANGED <<calling, incoming>> /\ Elsewhere
  BY DEF Push
<1> HIDE DEF st
<1>5. goroutine' \in [Goroutine -> Stage'] /\ Resting' /\ Ids' = Ids
  BY <1>3, <1>4, QuietTyped DEF calling
<1>6. sendChan' \in Seq(Ids) /\ pushed' \in Seq(Ids)
  BY <1>2, <1>4 DEF ServerSound, ServerTyped
<1> QED
  BY <1>4, <1>5, <1>6
  DEF ServerSound, ServerTyped, Emptied, Elsewhere, calling, connecting, dispatching, reporting

LEMMA FinishSound ==
  ASSUME ServerSound, NEW g \in Goroutine, Finish(g)
  PROVE  ServerSound'
<1>1. Idle \in Stage /\ Idle.queue = <<>> /\ Idle.out = <<>>
  BY DEF Idle, Stage, StageOver
<1>2. goroutine' \in [Goroutine -> Stage'] /\ Resting' /\ Ids' = Ids
  BY <1>1, QuietTyped DEF Finish, calling
<1>3. termReported' \in BOOLEAN /\ statechan' = IF termReported' THEN 1 ELSE 0
  <2>1. \/ termReported' = TRUE /\ statechan' = statechan + 1 /\ ~termReported
        \/ UNCHANGED reporting
    BY DEF Finish
  <2>2. termReported \in BOOLEAN /\ statechan = IF termReported THEN 1 ELSE 0
    BY DEF ServerSound, ServerTyped
  <2>3. CASE UNCHANGED reporting
    BY <2>2, <2>3 DEF reporting
  <2>4. CASE termReported' = TRUE /\ statechan' = statechan + 1 /\ ~termReported
    <3>1. statechan = 0
      BY <2>2, <2>4
    <3> QED
      BY <3>1, <2>4
  <2> QED
    BY <2>1, <2>3, <2>4
<1> QED
  BY <1>2, <1>3
  DEF Finish, ServerSound, ServerTyped, Emptied, calling, connecting, dispatching

LEMMA ArriveSound ==
  ASSUME ServerSound, Arrive
  PROVE  ServerSound'
<1>1. incoming' \in 0..InCap
  BY Capacities DEF Arrive, ServerSound, ServerTyped
<1> QED
  BY <1>1
  DEF Arrive, ServerSound, ServerTyped, Resting, Emptied, Elsewhere, calling, connecting,
      dispatching, reporting, Stage, Ids

LEMMA DialSound ==
  ASSUME ServerSound, NEW p \in Peers, Dial(p)
  PROVE  ServerSound'
<1>1. newPeer' \in Seq(Peers) /\ dialed' \subseteq Peers
  BY DEF Dial, ServerSound, ServerTyped
<1> QED
  BY <1>1
  DEF Dial, ServerSound, ServerTyped, Resting, Emptied, calling, dispatching, reporting, Stage, Ids

LEMMA RegisterSound ==
  ASSUME ServerSound, Register
  PROVE  ServerSound'
<1> DEFINE p == Head(newPeer)
           moved == transmit[p] \o buffer[p]
<1>1. p \in Peers /\ p \in Node /\ Tail(newPeer) \in Seq(Peers)
  BY DEF Register, ServerSound, ServerTyped, Peers
<1>2. /\ outgoing' = outgoing \cup {p}
      /\ transmit' = [transmit EXCEPT ![p] = moved]
      /\ buffer' = [buffer EXCEPT ![p] = <<>>]
      /\ newPeer' = Tail(newPeer)
  BY DEF Register
<1>3. moved \in Seq(Ids)
  BY <1>1 DEF ServerSound, ServerTyped
<1> HIDE DEF p, moved
<1>4. outgoing' \subseteq Peers /\ newPeer' \in Seq(Peers)
  BY <1>1, <1>2 DEF ServerSound, ServerTyped
<1>5. buffer' \in [Node -> Seq(Ids)] /\ transmit' \in [Node -> Seq(Ids)]
  BY <1>1, <1>2, <1>3 DEF ServerSound, ServerTyped
<1>6. Emptied'
  BY <1>1, <1>2 DEF ServerSound, ServerTyped, Emptied, Peers
<1> QED
  BY <1>4, <1>5, <1>6
  DEF Register, ServerSound, ServerTyped, Resting, calling, reporting, Stage, Ids

\* The dispatcher's message.
LEMMA Dispatched ==
  ASSUME ServerSound, Dispatch
  PROVE  /\ sendChan # <<>> /\ Head(sendChan) \in Ids /\ Dest(Head(sendChan)) \in Node
         /\ sendChan' = Tail(sendChan) /\ Tail(sendChan) \in Seq(Ids)
<1>1. sendChan \in Seq(Ids) /\ sendChan # <<>> /\ sendChan' = Tail(sendChan)
  BY DEF Dispatch, ServerSound, ServerTyped
<1>2. Head(sendChan) \in Ids /\ Tail(sendChan) \in Seq(Ids)
  BY <1>1
<1>3. made \in Seq(Msgs)
  BY DEF ServerSound, ServerTyped
<1>4. made[Head(sendChan)] \in Msgs
  BY <1>2, <1>3 DEF Ids
<1> QED
  BY <1>1, <1>2, <1>4 DEF Dest, Msgs

LEMMA DispatchSound ==
  ASSUME ServerSound, Dispatch
  PROVE  ServerSound'
<1> DEFINE m == Head(sendChan)
           p == Dest(m)
<1>1. m \in Ids /\ p \in Node /\ sendChan' = Tail(sendChan) /\ Tail(sendChan) \in Seq(Ids)
  BY Dispatched
<1>2. \/ /\ p \in outgoing
         /\ transmit' = [transmit EXCEPT ![p] = Append(@, m)] /\ UNCHANGED buffer
      \/ /\ p \notin outgoing
         /\ buffer' = [buffer EXCEPT ![p] = Append(@, m)] /\ UNCHANGED transmit
  BY DEF Dispatch
<1> HIDE DEF m, p
<1>3. buffer \in [Node -> Seq(Ids)] /\ transmit \in [Node -> Seq(Ids)]
  BY DEF ServerSound, ServerTyped
<1>4. Append(buffer[p], m) \in Seq(Ids) /\ Append(transmit[p], m) \in Seq(Ids)
  BY <1>1, <1>3
<1>5. buffer' \in [Node -> Seq(Ids)] /\ transmit' \in [Node -> Seq(Ids)]
  BY <1>1, <1>2, <1>3, <1>4
<1>6. outgoing' = outgoing /\ Emptied'
  BY <1>1, <1>2, <1>3 DEF Dispatch, ServerSound, ServerTyped, Emptied, Peers
<1> QED
  BY <1>1, <1>5, <1>6
  DEF Dispatch, ServerSound, ServerTyped, Resting, calling, connecting, reporting, Stage, Ids

-----------------------------------------------------------------------------
(***************************************************************************)
(* InLine.  What is handed to a connection, kept for it, and on its way to *)
(* the dispatcher is, in this order, what has been sent to it.             *)
(***************************************************************************)
DestOf(p) == {k \in Ids : Dest(k) = p}

LEMMA ToIs ==
  ASSUME NEW s \in Seq(Ids), NEW p
  PROVE  To(s, p) = Pick(s, DestOf(p)) /\ To(s, p) \in Seq(Ids)
<1>1. \A n \in DOMAIN s : s[n] \in DestOf(p) <=> Dest(s[n]) = p
  BY DEF DestOf
<1>2. [n \in DOMAIN s |-> IF Dest(s[n]) = p THEN <<s[n]>> ELSE <<>>]
        = [n \in DOMAIN s |-> IF s[n] \in DestOf(p) THEN <<s[n]>> ELSE <<>>]
  BY <1>1
<1>3. To(s, p) = Pick(s, DestOf(p))
  BY <1>2 DEF To, Pick
<1>4. CASE s = <<>>
  BY <1>3, <1>4, PickEmpty
<1>5. CASE s # <<>>
  <2>1. Head(s) \in Ids
    BY <1>5
  <2> QED
    BY <1>3, <2>1, PickAppend
<1> QED
  BY <1>3, <1>4, <1>5

LEMMA LineKept ==
  ASSUME ServerTyped, InLine, UNCHANGED <<transmit, buffer, sendChan, pushed>>,
         \A k \in Ids : Dest(k)' = Dest(k)
  PROVE  InLine'
<1>1. sendChan \in Seq(Ids) /\ pushed \in Seq(Ids)
  BY DEF ServerTyped
<1>2. ASSUME NEW p PROVE To(sendChan, p)' = To(sendChan, p) /\ To(pushed, p)' = To(pushed, p)
  <2>1. (\A n \in DOMAIN sendChan : Dest(sendChan[n])' = Dest(sendChan[n]))
    BY <1>1
  <2>2. (\A n \in DOMAIN pushed : Dest(pushed[n])' = Dest(pushed[n]))
    BY <1>1
  <2>3. [n \in DOMAIN sendChan |-> IF Dest(sendChan[n]) = p THEN <<sendChan[n]>> ELSE <<>>]'
          = [n \in DOMAIN sendChan |-> IF Dest(sendChan[n]) = p THEN <<sendChan[n]>> ELSE <<>>]
    BY <2>1
  <2>4. [n \in DOMAIN pushed |-> IF Dest(pushed[n]) = p THEN <<pushed[n]>> ELSE <<>>]'
          = [n \in DOMAIN pushed |-> IF Dest(pushed[n]) = p THEN <<pushed[n]>> ELSE <<>>]
    BY <2>2
  <2> QED
    BY <2>3, <2>4 DEF To
<1> QED
  BY <1>2 DEF InLine

\* A call changes no message.
LEMMA MakesKeeps ==
  ASSUME Makes
  PROVE  \A k \in Ids : Dest(k)' = Dest(k)
BY DEF Makes, Dest

LEMMA PushInLine ==
  ASSUME ServerSound, InLine, NEW g \in Goroutine, Push(g)
  PROVE  InLine'
<1> DEFINE x == Head(goroutine[g].out)
<1>1. goroutine[g].out \in Seq(Ids) /\ goroutine[g].out # <<>>
  BY StageOf DEF ServerSound, Push
<1>2. x \in Ids
  BY <1>1
<1>3. /\ sendChan' = Append(sendChan, x) /\ pushed' = Append(pushed, x)
      /\ UNCHANGED <<made, transmit, buffer>>
  BY DEF Push, calling, Elsewhere, dispatching
<1> HIDE DEF x
<1>4. /\ sendChan \in Seq(Ids) /\ pushed \in Seq(Ids)
      /\ buffer \in [Node -> Seq(Ids)] /\ transmit \in [Node -> Seq(Ids)]
  BY DEF ServerSound, ServerTyped
<1> SUFFICES ASSUME NEW p \in Peers
             PROVE  (transmit[p] \o buffer[p] \o To(sendChan, p) = To(pushed, p))'
  BY DEF InLine
<1>5. transmit[p] \o buffer[p] \o To(sendChan, p) = To(pushed, p)
  BY DEF InLine
<1>6. /\ To(sendChan, p) = Pick(sendChan, DestOf(p)) /\ To(sendChan, p) \in Seq(Ids)
      /\ To(pushed, p) = Pick(pushed, DestOf(p)) /\ To(pushed, p) \in Seq(Ids)
  BY <1>4, ToIs
<1> DEFINE D == DestOf(p)
           sc == Append(sendChan, x)
           pu == Append(pushed, x)
<1>7. sc \in Seq(Ids) /\ pu \in Seq(Ids)
  BY <1>2, <1>4
<1>8. To(sc, p) = Pick(sc, D) /\ To(pu, p) = Pick(pu, D)
  <2> HIDE DEF sc, pu
  <2> QED
    BY <1>7, ToIs
<1>9. To(sendChan, p)' = To(sc, p) /\ To(pushed, p)' = To(pu, p)
  BY <1>3 DEF To, Dest
<1> DEFINE y == IF x \in D THEN <<x>> ELSE <<>>
<1>10. Pick(sc, D) = Pick(sendChan, D) \o y /\ Pick(pu, D) = Pick(pushed, D) \o y
  <2> HIDE DEF D
  <2>1. /\ Pick(sendChan, D) \in Seq(Ids) /\ Pick(pushed, D) \in Seq(Ids)
        /\ Pick(sc, D) = IF x \in D THEN Append(Pick(sendChan, D), x) ELSE Pick(sendChan, D)
        /\ Pick(pu, D) = IF x \in D THEN Append(Pick(pushed, D), x) ELSE Pick(pushed, D)
    BY <1>2, <1>4, PickAppend
  <2> QED
    BY <1>2, <2>1
<1>11. /\ p \in Node /\ transmit[p] \in Seq(Ids) /\ buffer[p] \in Seq(Ids) /\ y \in Seq(Ids)
  BY <1>2, <1>4 DEF Peers
<1> HIDE DEF sc, pu, y, D
<1> DEFINE t == transmit[p] \o buffer[p]
           u == Pick(sendChan, D)
<1>12. t \in Seq(Ids) /\ u \in Seq(Ids)
  BY <1>6, <1>11 DEF D
<1>13. t \o u = Pick(pushed, D)
  BY <1>5, <1>6 DEF D
<1>14. t' = t
  BY <1>3
<1>15. (t \o u) \o y = t \o (u \o y)
  <2> HIDE DEF t, u
  <2>1. Associates(t, u, y)
    BY <1>11, <1>12, SeqAssociates
  <2> QED
    BY <2>1 DEF Associates
<1> QED
  BY <1>8, <1>9, <1>10, <1>13, <1>14, <1>15

LEMMA RegisterInLine ==
  ASSUME ServerSound, InLine, Register
  PROVE  InLine'
<1> DEFINE q == Head(newPeer)
           moved == transmit[q] \o buffer[q]
<1>1. q \in Peers /\ q \in Node
  BY DEF Register, ServerSound, ServerTyped, Peers
<1>2. /\ transmit' = [transmit EXCEPT ![q] = moved]
      /\ buffer' = [buffer EXCEPT ![q] = <<>>]
      /\ UNCHANGED <<made, sendChan, pushed>>
  BY DEF Register, calling
<1>3. /\ sendChan \in Seq(Ids) /\ pushed \in Seq(Ids)
      /\ buffer \in [Node -> Seq(Ids)] /\ transmit \in [Node -> Seq(Ids)]
  BY DEF ServerSound, ServerTyped
<1>4. ASSUME NEW p PROVE To(sendChan, p)' = To(sendChan, p) /\ To(pushed, p)' = To(pushed, p)
  BY <1>2 DEF To, Dest
<1>5. moved \in Seq(Ids) /\ moved \o <<>> = moved
  <2>1. moved \in Seq(Ids)
    BY <1>1, <1>3
  <2> HIDE DEF moved
  <2> QED
    BY <2>1
<1>6. moved = transmit[q] \o buffer[q]
  OBVIOUS
<1> HIDE DEF q, moved
<1>7. ASSUME NEW p \in Peers
      PROVE  transmit'[p] \o buffer'[p] = transmit[p] \o buffer[p]
  <2>1. CASE p = q
    BY <1>1, <1>2, <1>3, <1>5, <1>6, <2>1
  <2>2. CASE p # q
    BY <1>1, <1>2, <1>3, <1>7, <2>2 DEF Peers
  <2> QED
    BY <2>1, <2>2
<1> QED
  BY <1>4, <1>7 DEF InLine

LEMMA DispatchInLine ==
  ASSUME ServerSound, InLine, Dispatch
  PROVE  InLine'
<1> DEFINE m == Head(sendChan)
           q == Dest(m)
           tail == Tail(sendChan)
<1>1. /\ m \in Ids /\ q \in Node /\ sendChan' = tail /\ tail \in Seq(Ids)
      /\ sendChan # <<>>
  BY Dispatched
<1>2. /\ \/ /\ q \in outgoing
            /\ transmit' = [transmit EXCEPT ![q] = Append(@, m)] /\ UNCHANGED buffer
         \/ /\ q \notin outgoing
            /\ buffer' = [buffer EXCEPT ![q] = Append(@, m)] /\ UNCHANGED transmit
      /\ UNCHANGED <<made, pushed>>
  BY DEF Dispatch, calling
<1>3. /\ sendChan \in Seq(Ids) /\ pushed \in Seq(Ids)
      /\ buffer \in [Node -> Seq(Ids)] /\ transmit \in [Node -> Seq(Ids)]
      /\ \A p \in outgoing : buffer[p] = <<>>
  BY DEF ServerSound, ServerTyped, Emptied
<1>4. ASSUME NEW p PROVE To(sendChan, p)' = To(tail, p) /\ To(pushed, p)' = To(pushed, p)
  BY <1>1, <1>2 DEF To, Dest
<1> SUFFICES ASSUME NEW p \in Peers
             PROVE  (transmit[p] \o buffer[p] \o To(sendChan, p) = To(pushed, p))'
  BY DEF InLine
<1> DEFINE y == IF q = p THEN <<m>> ELSE <<>>
<1>5. To(sendChan, p) = y \o To(tail, p) /\ To(tail, p) \in Seq(Ids) /\ y \in Seq(Ids)
  <2>1. To(sendChan, p) = Pick(sendChan, DestOf(p)) /\ To(tail, p) = Pick(tail, DestOf(p))
        /\ To(tail, p) \in Seq(Ids)
    <3> HIDE DEF tail
    <3> QED
      BY <1>1, <1>3, ToIs
  <2>2. Pick(sendChan, DestOf(p)) =
          (IF Head(sendChan) \in DestOf(p) THEN <<Head(sendChan)>> ELSE <<>>) \o Pick(tail, DestOf(p))
    BY <1>1, <1>3, PickHead
  <2>3. m \in DestOf(p) <=> q = p
    BY <1>1 DEF DestOf
  <2>4. y \in Seq(Ids)
    BY <1>1
  <2> QED
    BY <2>1, <2>2, <2>3, <2>4
<1>6. transmit[p] \o buffer[p] \o To(sendChan, p) = To(pushed, p)
  BY DEF InLine
<1>7. /\ p \in Node /\ transmit[p] \in Seq(Ids) /\ buffer[p] \in Seq(Ids)
  BY <1>3 DEF Peers
<1>8. transmit'[p] \o buffer'[p] = (transmit[p] \o buffer[p]) \o y
  <2> HIDE DEF m, q, tail
  <2>1. CASE p # q
    <3>1. transmit'[p] = transmit[p] /\ buffer'[p] = buffer[p] /\ y = <<>>
      BY <1>1, <1>2, <1>3, <1>7, <2>1
    <3>2. transmit[p] \o buffer[p] \in Seq(Ids)
      BY <1>7
    <3>3. (transmit[p] \o buffer[p]) \o <<>> = transmit[p] \o buffer[p]
      BY <3>2, ConcatEmptySeq
    <3> QED
      BY <3>1, <3>3
  <2>2. CASE p = q
    <3> DEFINE a == transmit[p]
               b == buffer[p]
               z == <<m>>
    <3>0. a \in Seq(Ids) /\ b \in Seq(Ids) /\ z \in Seq(Ids) /\ y = z
      <4>1. a \in Seq(Ids) /\ b \in Seq(Ids)
        BY <1>7
      <4>2. y = z
        BY <1>1, <2>2
      <4>3. z \in Seq(Ids)
        BY <1>1
      <4> QED
        BY <4>1, <4>2, <4>3
    <3>1. Append(a, m) = a \o z /\ Append(b, m) = b \o z
      BY <1>1, <3>0
    <3>2. CASE p \in outgoing
      <4>1. transmit'[p] = a \o z /\ buffer'[p] = b /\ b = <<>>
        BY <1>1, <1>2, <1>3, <1>7, <2>2, <3>1, <3>2
      <4>2. a \o z \in Seq(Ids)
        BY <3>0
      <4> HIDE DEF a, b, z
      <4>3. (a \o z) \o <<>> = a \o z /\ a \o <<>> = a
        BY <3>0, <4>2
      <4> QED
        BY <3>0, <4>1, <4>3 DEF a, b
    <3>3. CASE p \notin outgoing
      <4>1. transmit'[p] = a /\ buffer'[p] = b \o z
        BY <1>1, <1>2, <1>3, <1>7, <2>2, <3>1, <3>3
      <4> HIDE DEF a, b, z
      <4>2. (a \o b) \o z = a \o (b \o z)
        <5>1. Associates(a, b, z)
          BY <3>0, SeqAssociates
        <5> QED
          BY <5>1 DEF Associates
      <4> QED
        BY <3>0, <4>1, <4>2 DEF a, b
    <3> QED
      BY <3>2, <3>3
  <2> QED
    BY <2>1, <2>2
<1> DEFINE t == transmit[p] \o buffer[p]
           u == To(tail, p)
<1>9. t \in Seq(Ids) /\ u \in Seq(Ids)
  BY <1>5, <1>7
<1> HIDE DEF t, u, y
<1>10. (t \o y) \o u = t \o (y \o u)
  <2>1. Associates(t, y, u)
    BY <1>5, <1>9, SeqAssociates
  <2> QED
    BY <2>1 DEF Associates
<1> QED
  BY <1>4, <1>5, <1>6, <1>8, <1>10 DEF t, u

-----------------------------------------------------------------------------
\* A call leaves the lines as they are.
LEMMA CallInLine ==
  ASSUME ServerSound, InLine, Makes, UNCHANGED <<sendChan, pushed>>, Elsewhere
  PROVE  InLine'
BY LineKept, MakesKeeps DEF ServerSound, Elsewhere, dispatching

LEMMA ServerStep ==
  ASSUME ServerSound, [Next]_vars
  PROVE  ServerSound' /\ (InLine => InLine')
<1>1. CASE InitProtocol
  BY <1>1, InitProtocolSound, CallInLine DEF InitProtocol
<1>2. CASE Tick
  BY <1>2, TickSound, CallInLine DEF Tick
<1>3. CASE Receive
  BY <1>3, ReceiveSound, CallInLine DEF Receive
<1>4. ASSUME NEW g \in Goroutine, Works(g) PROVE ServerSound' /\ (InLine => InLine')
  <2>1. CASE Loopback(g)
    BY <2>1, LoopbackSound, CallInLine DEF Loopback
  <2>2. CASE LoopbackEnds(g)
    BY <2>2, LoopbackEndsSound, LineKept
    DEF LoopbackEnds, Elsewhere, dispatching, ServerSound, calling, Dest
  <2>3. CASE Push(g)
    BY <2>3, PushSound, PushInLine
  <2>4. CASE Finish(g)
    BY <2>4, FinishSound, LineKept DEF Finish, dispatching, ServerSound, calling, Dest
  <2> QED
    BY <1>4, <2>1, <2>2, <2>3, <2>4 DEF Works
<1>5. CASE Arrive
  BY <1>5, ArriveSound, LineKept
  DEF Arrive, Elsewhere, dispatching, ServerSound, calling, Dest
<1>6. ASSUME NEW p \in Peers, Dial(p) PROVE ServerSound' /\ (InLine => InLine')
  BY <1>6, DialSound, LineKept DEF Dial, dispatching, ServerSound, calling, Dest
<1>7. CASE Register
  BY <1>7, RegisterSound, RegisterInLine
<1>8. CASE Dispatch
  BY <1>8, DispatchSound, DispatchInLine
<1>9. CASE UNCHANGED vars
  <2>1. ServerSound'
    BY <1>9
    DEF vars, calling, connecting, dispatching, reporting, ServerSound, ServerTyped, Resting,
        Emptied, Stage, Ids
  <2>2. InLine => InLine'
    BY <1>9, LineKept DEF vars, calling, dispatching, ServerSound, Dest
  <2> QED
    BY <2>1, <2>2
<1> QED
  BY <1>1, <1>2, <1>3, <1>4, <1>5, <1>6, <1>7, <1>8, <1>9 DEF Next, Goroutine

LEMMA ServerInit ==
  ASSUME Init
  PROVE  ServerSound /\ InLine
<1>1. Idle \in Stage /\ [Idle EXCEPT !.pc = "init"] \in Stage
  <2> DEFINE Q == Seq(Ids)
  <2>1. <<>> \in Q /\ Stage = StageOver(Q)
    BY DEF Stage
  <2> HIDE DEF Q
  <2>2. Idle \in StageOver(Q) /\ [Idle EXCEPT !.pc = "init"] \in StageOver(Q)
    BY <2>1 DEF Idle, StageOver
  <2> QED
    BY <2>1, <2>2
<1>2. ServerTyped
  <2>1. made \in Seq(Msgs) /\ Len(made) <= MaxMsgs /\ incoming \in 0..InCap
    BY Capacities DEF Init
  <2>2. goroutine \in [Goroutine -> Stage]
    <3>1. goroutine = [loop |-> Idle, ticker |-> [Idle EXCEPT !.pc = "init"]]
      BY DEF Init
    <3> DEFINE a == Idle
               b == [Idle EXCEPT !.pc = "init"]
    <3>2. a \in Stage /\ b \in Stage /\ goroutine = [loop |-> a, ticker |-> b]
      BY <1>1, <3>1
    <3> HIDE DEF a, b
    <3> QED
      BY <3>2 DEF Goroutine
  <2>3. termReported \in BOOLEAN /\ statechan = IF termReported THEN 1 ELSE 0
    BY DEF Init
  <2> QED
    BY <2>1, <2>2, <2>3 DEF Init, ServerTyped
<1>3. Resting /\ Emptied
  BY DEF Init, Resting, Emptied, Goroutine, Idle
<1>4. InLine
  <2>1. \A p : To(<<>>, p) = <<>>
    <3> SUFFICES ASSUME NEW p PROVE To(<<>>, p) = <<>>
      OBVIOUS
    <3>1. <<>> \in Seq(Ids)
      OBVIOUS
    <3> QED
      BY <3>1, ToIs, PickEmpty
  <2>2. <<>> \o <<>> \o <<>> = <<>>
    OBVIOUS
  <2> QED
    BY <2>1, <2>2 DEF Init, InLine, Peers
<1> QED
  BY <1>2, <1>3, <1>4 DEF ServerSound

\* The state of the server is sound, and the lines are in order.
THEOREM ServerHolds == Spec => [](ServerSound /\ InLine)
<1>1. Init => ServerSound /\ InLine
  BY ServerInit
<1>2. ServerSound /\ InLine /\ [Next]_vars => (ServerSound /\ InLine)'
  BY ServerStep
<1> QED
  BY <1>1, <1>2, PTL DEF Spec

(***************************************************************************)
(* Every connection gets its messages in the order in which they were put  *)
(* into the channel to the dispatcher, whenever it comes up.               *)
(***************************************************************************)
THEOREM SentInOrder == Spec => []InLine
<1>1. ServerSound /\ InLine => InLine
  OBVIOUS
<1> QED
  BY <1>1, ServerHolds, PTL

-----------------------------------------------------------------------------
(***************************************************************************)
(* InOnePlace.  A call makes each of its new messages once; a step that    *)
(* moves a message takes it from where it was.                             *)
(***************************************************************************)
Bit(k) == IF k \in heard THEN 1 ELSE 0
InHand(g, k) == Holds(goroutine[g].queue, k) + Holds(goroutine[g].out, k)
Further(k) ==
  Holds(sendChan, k) + Holds(buffer[Dest(k)], k) + Holds(transmit[Dest(k)], k)

LEMMA DestIsNode ==
  ASSUME ServerTyped, NEW k \in Ids
  PROVE  Dest(k) \in Node
<1>1. made \in Seq(Msgs)
  BY DEF ServerTyped
<1>2. made[k] \in Msgs
  BY <1>1 DEF Ids
<1> QED
  BY <1>2 DEF Dest, Msgs

Summed ==
  \A k \in Ids :
    /\ Dest(k) \in Node
    /\ Bit(k) \in Nat /\ Further(k) \in Nat
    /\ \A g \in Goroutine : InHand(g, k) \in Nat
    /\ \A g, h \in Goroutine :
         g # h => Places(k) = Bit(k) + InHand(g, k) + InHand(h, k) + Further(k)

LEMMA PlacesAre == ServerTyped => Summed
<1> SUFFICES ASSUME ServerTyped, NEW k \in Ids
             PROVE  /\ Dest(k) \in Node
                    /\ Bit(k) \in Nat /\ Further(k) \in Nat
                    /\ \A g \in Goroutine : InHand(g, k) \in Nat
                    /\ \A g, h \in Goroutine :
                         g # h => Places(k) = Bit(k) + InHand(g, k) + InHand(h, k) + Further(k)
  BY DEF Summed
<1>1. ASSUME NEW g \in Goroutine
      PROVE  /\ Holds(goroutine[g].queue, k) \in Nat /\ Holds(goroutine[g].out, k) \in Nat
  BY StageOf, HoldsIs
<1>2. Dest(k) \in Node
  BY DestIsNode
<1>3. /\ Holds(sendChan, k) \in Nat
      /\ Holds(buffer[Dest(k)], k) \in Nat /\ Holds(transmit[Dest(k)], k) \in Nat
  <2>1. sendChan \in Seq(Ids) /\ buffer[Dest(k)] \in Seq(Ids) /\ transmit[Dest(k)] \in Seq(Ids)
    BY <1>2 DEF ServerTyped
  <2> QED
    BY <2>1, HoldsIs
<1>4. Bit(k) \in Nat
  BY DEF Bit
<1>5. Holds(goroutine["loop"].queue, k) \in Nat /\ Holds(goroutine["loop"].out, k) \in Nat
  BY <1>1 DEF Goroutine
<1>6. Holds(goroutine["ticker"].queue, k) \in Nat /\ Holds(goroutine["ticker"].out, k) \in Nat
  BY <1>1 DEF Goroutine
<1>7. Places(k) = Bit(k) + (Holds(goroutine["loop"].queue, k) + Holds(goroutine["loop"].out, k))
        + (Holds(goroutine["ticker"].queue, k) + Holds(goroutine["ticker"].out, k))
        + Holds(sendChan, k) + Holds(buffer[Dest(k)], k) + Holds(transmit[Dest(k)], k)
  BY DEF Places, Bit
<1>8. /\ Bit(k) \in Nat /\ Further(k) \in Nat
      /\ InHand("loop", k) \in Nat /\ InHand("ticker", k) \in Nat
      /\ Places(k) = Bit(k) + InHand("loop", k) + InHand("ticker", k) + Further(k)
  BY <1>3, <1>4, <1>5, <1>6, <1>7 DEF InHand, Further
<1>9. \A g \in Goroutine : InHand(g, k) \in Nat
  BY <1>8 DEF Goroutine
<1>10. ASSUME NEW g \in Goroutine, NEW h \in Goroutine, g # h
       PROVE  Places(k) = Bit(k) + InHand(g, k) + InHand(h, k) + Further(k)
  <2>1. (g = "loop" /\ h = "ticker") \/ (g = "ticker" /\ h = "loop")
    BY <1>10 DEF Goroutine
  <2> QED
    BY <1>8, <2>1
<1> QED
  BY <1>2, <1>8, <1>9, <1>10

LEMMA PlacesLater ==
  ASSUME ServerTyped'
  PROVE  Summed'
<1>1. (ServerTyped => Summed)'
  BY PlacesAre, PTL
<1> QED
  BY <1>1

LEMMA NotThereYet ==
  ASSUME ServerTyped, NEW k, k \notin Ids, NEW s \in Seq(Ids)
  PROVE  Holds(s, k) = 0
<1>1. \A n \in 1..Len(s) : s[n] # k
  OBVIOUS
<1> QED
  BY <1>1, HoldsIs

\* What a call has made: each of the new messages, once.
LEMMA NewHolds ==
  ASSUME ServerTyped, Makes, NEW k \in Ids'
  PROVE  Holds(New, k) = IF k \in Ids THEN 0 ELSE 1
<1>1. /\ New \in Seq(Ids') /\ Len(New) = Len(made') - Len(made)
      /\ \A n \in 1..Len(New) : New[n] = Len(made) + n
      /\ Len(made) \in Nat /\ Len(made') \in Nat
  BY DEF Makes, Ids
<1> HIDE DEF New
<1>2. CASE k \in Ids
  <2>1. \A n \in 1..Len(New) : New[n] # k
    BY <1>1, <1>2 DEF Ids
  <2> QED
    BY <1>1, <1>2, <2>1, HoldsIs
<1>3. CASE k \notin Ids
  <2>1. At(New, k) = {k - Len(made)}
    <3> DEFINE l == Len(made)
               a == New
    <3>1. k \in 1..Len(made') /\ k > l /\ l \in Nat /\ Len(made') \in Nat
          /\ Len(a) = Len(made') - l /\ \A n \in 1..Len(a) : a[n] = l + n
      BY <1>1, <1>3 DEF Ids
    <3> HIDE DEF l, a
    <3>2. k - l \in 1..Len(a)
      BY <3>1
    <3>3. ASSUME NEW n \in 1..Len(a) PROVE a[n] = k <=> n = k - l
      <4>1. a[n] = l + n /\ n \in Int /\ k \in Int
        BY <3>1
      <4> QED
        BY <3>1, <4>1
    <3> QED
      BY <3>2, <3>3 DEF l, a, At
  <2>2. Holds(New, k) = Cardinality(At(New, k))
    BY <1>1, HoldsIs
  <2> QED
    BY <1>3, <2>1, <2>2, FS_Singleton
<1> QED
  BY <1>2, <1>3

\* A step of goroutine g; the rest of what it does is given by what it holds.
LEMMA GoroutineStep ==
  ASSUME ServerTyped, ServerTyped', InOnePlace, Makes,
         NEW g \in Goroutine, NEW st, Become(g, st),
         UNCHANGED <<buffer, transmit>>,
         \A k \in Ids :
           Bit(k)' + (Holds(st.queue, k) + Holds(st.out, k)) + Holds(sendChan', k)
             = Bit(k) + InHand(g, k) + Holds(sendChan, k),
         \A k \in Ids' \ Ids :
           Bit(k)' + (Holds(st.queue, k) + Holds(st.out, k)) + Holds(sendChan', k) = 1
  PROVE  InOnePlace'
<1>1. SUFFICES ASSUME NEW k \in Ids' PROVE Places(k)' = 1
  <2>1. DOMAIN made' = Ids'
    BY DEF ServerTyped, Ids
  <2> QED
    BY <2>1 DEF InOnePlace
<1>2. PICK h \in Goroutine : g # h /\ {g, h} = {"loop", "ticker"}
  BY DEF Goroutine
<1>3. goroutine'[g] = st /\ goroutine'[h] = goroutine[h]
  BY <1>2 DEF Become, ServerTyped
<1>4. /\ Bit(k)' \in Nat /\ Further(k)' \in Nat /\ Dest(k)' \in Node
      /\ InHand(g, k)' \in Nat /\ InHand(h, k)' \in Nat
      /\ Places(k)' = Bit(k)' + InHand(g, k)' + InHand(h, k)' + Further(k)'
  BY <1>2, PlacesLater DEF Summed, Goroutine
<1>5. /\ InHand(g, k)' = Holds(st.queue, k) + Holds(st.out, k)
      /\ InHand(h, k)' = InHand(h, k)
  BY <1>3 DEF InHand
<1>6. Dest(k)' \in Node
  BY <1>4
<1> DEFINE d == Dest(k)'
<1>7. /\ Further(k)' = Holds(sendChan', k) + Holds(buffer[d], k) + Holds(transmit[d], k)
      /\ buffer[d] \in Seq(Ids) /\ transmit[d] \in Seq(Ids) /\ sendChan' \in Seq(Ids')
  BY <1>6 DEF Further, ServerTyped
<1>8. Holds(buffer[d], k) \in Nat /\ Holds(transmit[d], k) \in Nat /\ Holds(sendChan', k) \in Nat
  BY <1>7, HoldsIs
<1>9. CASE k \in Ids
  <2>1. /\ Bit(k) \in Nat /\ Further(k) \in Nat /\ InHand(g, k) \in Nat /\ InHand(h, k) \in Nat
        /\ Places(k) = Bit(k) + InHand(g, k) + InHand(h, k) + Further(k)
    BY <1>2, <1>9, PlacesAre DEF Summed
  <2>2. Places(k) = 1
    BY <1>9 DEF InOnePlace, ServerTyped, Ids
  <2>3. Dest(k) = d
    BY <1>9, MakesKeeps
  <2>4. Further(k) = Holds(sendChan, k) + Holds(buffer[d], k) + Holds(transmit[d], k)
        /\ Holds(sendChan, k) \in Nat
    <3>1. sendChan \in Seq(Ids)
      BY DEF ServerTyped
    <3> QED
      BY <2>3, <3>1, HoldsIs DEF Further
  <2>5. Bit(k)' + InHand(g, k)' + Holds(sendChan', k) = Bit(k) + InHand(g, k) + Holds(sendChan, k)
    BY <1>5, <1>9
  <2> DEFINE ig == InHand(g, k)'
             ih == InHand(h, k)'
             b == Holds(buffer[d], k)
             t == Holds(transmit[d], k)
             c == Holds(sendChan', k)
             e == Bit(k)'
  <2>6. /\ ig \in Nat /\ ih \in Nat /\ b \in Nat /\ t \in Nat /\ c \in Nat /\ e \in Nat
        /\ ih = InHand(h, k)
    BY <1>4, <1>5, <1>8
  <2>7. Places(k)' = e + ig + ih + (c + b + t)
    BY <1>4, <1>7
  <2>8. e + ig + c = Bit(k) + InHand(g, k) + Holds(sendChan, k)
    BY <2>5
  <2>9. 1 = Bit(k) + InHand(g, k) + ih + (Holds(sendChan, k) + b + t)
    BY <2>1, <2>2, <2>4, <2>6
  <2> HIDE DEF d, ig, ih, b, t, c, e
  <2> QED
    BY <2>1, <2>4, <2>6, <2>7, <2>8, <2>9
<1>10. CASE k \notin Ids
  <2>1. Holds(buffer[d], k) = 0 /\ Holds(transmit[d], k) = 0
    BY <1>7, <1>10, NotThereYet
  <2>2. InHand(h, k) = 0
    BY <1>10, StageOf, NotThereYet DEF InHand
  <2>3. Bit(k)' + InHand(g, k)' + Holds(sendChan', k) = 1
    BY <1>5, <1>10
  <2> HIDE DEF d
  <2> QED
    BY <1>4, <1>5, <1>7, <1>8, <2>1, <2>2, <2>3
<1> QED
  BY <1>9, <1>10

\* The steps in which the protocol is called, for what g then holds.
LEMMA CallOnePlace ==
  ASSUME ServerSound, ServerSound', InOnePlace, Makes,
         NEW g \in Goroutine, NEW st, Become(g, st),
         UNCHANGED <<sendChan, pushed>>, Elsewhere,
         \A k \in Ids' :
           Bit(k)' + (Holds(st.queue, k) + Holds(st.out, k))
             = (IF k \in Ids THEN Bit(k) + InHand(g, k) ELSE 0) + Holds(New, k)
  PROVE  InOnePlace'
<1>1. ServerTyped /\ ServerTyped' /\ UNCHANGED <<buffer, transmit>> /\ sendChan \in Seq(Ids)
  BY DEF ServerSound, ServerTyped, Elsewhere, dispatching
<1> DEFINE inHand(k) == Holds(st.queue, k) + Holds(st.out, k)
<1>2. ASSUME NEW k \in Ids
      PROVE  Bit(k)' + inHand(k) + Holds(sendChan', k) = Bit(k) + InHand(g, k) + Holds(sendChan, k)
  <2>1. k \in Ids' /\ Holds(New, k) = 0
    BY <1>1, KnownStays, NewHolds
  <2>2. Bit(k)' + inHand(k) = Bit(k) + InHand(g, k) + 0
    BY <2>1
  <2>3. Bit(k) \in Nat /\ InHand(g, k) \in Nat
    BY <1>1, PlacesAre DEF Summed
  <2> HIDE DEF inHand
  <2>4. Bit(k)' + inHand(k) = Bit(k) + InHand(g, k)
    BY <2>2, <2>3
  <2> QED
    BY <2>4
<1>3. ASSUME NEW k \in Ids' \ Ids
      PROVE  Bit(k)' + inHand(k) + Holds(sendChan', k) = 1
  <2>1. Holds(New, k) = 1
    BY <1>1, NewHolds
  <2>2. Holds(sendChan', k) = 0
    BY <1>1, NotThereYet
  <2>3. Bit(k)' + inHand(k) = 1
    BY <2>1
  <2> HIDE DEF inHand
  <2> QED
    BY <2>2, <2>3
<1> QED
  BY <1>1, <1>2, <1>3, GoroutineStep

LEMMA InitProtocolOnePlace ==
  ASSUME ServerSound, InOnePlace, InitProtocol
  PROVE  InOnePlace'
<1> DEFINE st == [Idle EXCEPT !.pc = "loopback", !.queue = New]
           t == "ticker"
<1>1. Makes /\ ServerSound' /\ ServerTyped
  BY InitProtocolSound DEF ServerSound
<1>2. /\ Become(t, st) /\ UNCHANGED <<sendChan, pushed>> /\ Elsewhere /\ heard' = heard
      /\ t \in Goroutine /\ goroutine[t].queue = <<>> /\ goroutine[t].out = <<>>
  BY DEF InitProtocol, ServerSound, Resting, Goroutine
<1>3. st.queue = New /\ st.out = <<>>
  BY DEF Idle
<1> HIDE DEF st, t
<1>4. ASSUME NEW k \in Ids'
      PROVE  Bit(k)' + (Holds(st.queue, k) + Holds(st.out, k))
               = (IF k \in Ids THEN Bit(k) + InHand(t, k) ELSE 0) + Holds(New, k)
  <2>1. Holds(<<>>, k) = 0 /\ Holds(New, k) \in Nat
    <3>1. Holds(<<>>, k) = 0
      BY HoldsFew
    <3>2. Holds(New, k) \in Nat
      BY <1>1, NewHolds
    <3> QED
      BY <3>1, <3>2
  <2>2. InHand(t, k) = 0
    BY <1>2, <2>1 DEF InHand
  <2>3. /\ Bit(k)' = Bit(k) /\ Bit(k) \in Nat
        /\ k \notin Ids => Bit(k) = 0
    BY <1>1, <1>2 DEF Bit, ServerTyped
  <2> QED
    BY <1>3, <2>1, <2>2, <2>3
<1> QED
  BY <1>1, <1>2, <1>4, CallOnePlace

LEMMA TickOnePlace ==
  ASSUME ServerSound, InOnePlace, Tick
  PROVE  InOnePlace'
<1> DEFINE st == [Idle EXCEPT !.pc = "send", !.out = New]
           t == "ticker"
<1>1. Makes /\ ServerSound' /\ ServerTyped
  BY TickSound DEF ServerSound
<1>2. /\ Become(t, st) /\ UNCHANGED <<sendChan, pushed>> /\ Elsewhere /\ heard' = heard
      /\ t \in Goroutine /\ goroutine[t].queue = <<>> /\ goroutine[t].out = <<>>
  BY DEF Tick, ServerSound, Resting, Goroutine
<1>3. st.out = New /\ st.queue = <<>>
  BY DEF Idle
<1> HIDE DEF st, t
<1>4. ASSUME NEW k \in Ids'
      PROVE  Bit(k)' + (Holds(st.queue, k) + Holds(st.out, k))
               = (IF k \in Ids THEN Bit(k) + InHand(t, k) ELSE 0) + Holds(New, k)
  <2>1. Holds(<<>>, k) = 0 /\ Holds(New, k) \in Nat
    <3>1. Holds(<<>>, k) = 0
      BY HoldsFew
    <3>2. Holds(New, k) \in Nat
      BY <1>1, NewHolds
    <3> QED
      BY <3>1, <3>2
  <2>2. InHand(t, k) = 0
    BY <1>2, <2>1 DEF InHand
  <2>3. /\ Bit(k)' = Bit(k) /\ Bit(k) \in Nat
        /\ k \notin Ids => Bit(k) = 0
    BY <1>1, <1>2 DEF Bit, ServerTyped
  <2> QED
    BY <1>3, <2>1, <2>2, <2>3
<1> QED
  BY <1>1, <1>2, <1>4, CallOnePlace

LEMMA ReceiveOnePlace ==
  ASSUME ServerSound, InOnePlace, Receive
  PROVE  InOnePlace'
<1>0. PICK e \in BOOLEAN :
        Become("loop", [Idle EXCEPT !.pc = "loopback", !.queue = New, !.event = e])
  BY DEF Receive
<1> DEFINE st == [Idle EXCEPT !.pc = "loopback", !.queue = New, !.event = e]
           t == "loop"
<1>1. Makes /\ ServerSound' /\ ServerTyped
  BY ReceiveSound DEF ServerSound
<1>2. /\ Become(t, st) /\ UNCHANGED <<sendChan, pushed>> /\ Elsewhere /\ heard' = heard
      /\ t \in Goroutine /\ goroutine[t].queue = <<>> /\ goroutine[t].out = <<>>
  BY <1>0 DEF Receive, ServerSound, Resting, Goroutine
<1>3. st.queue = New /\ st.out = <<>>
  BY DEF Idle
<1> HIDE DEF st, t
<1>4. ASSUME NEW k \in Ids'
      PROVE  Bit(k)' + (Holds(st.queue, k) + Holds(st.out, k))
               = (IF k \in Ids THEN Bit(k) + InHand(t, k) ELSE 0) + Holds(New, k)
  <2>1. Holds(<<>>, k) = 0 /\ Holds(New, k) \in Nat
    <3>1. Holds(<<>>, k) = 0
      BY HoldsFew
    <3>2. Holds(New, k) \in Nat
      BY <1>1, NewHolds
    <3> QED
      BY <3>1, <3>2
  <2>2. InHand(t, k) = 0
    BY <1>2, <2>1 DEF InHand
  <2>3. /\ Bit(k)' = Bit(k) /\ Bit(k) \in Nat
        /\ k \notin Ids => Bit(k) = 0
    BY <1>1, <1>2 DEF Bit, ServerTyped
  <2> QED
    BY <1>3, <2>1, <2>2, <2>3
<1> QED
  BY <1>1, <1>2, <1>4, CallOnePlace

LEMMA LoopbackOnePlace ==
  ASSUME ServerSound, InOnePlace, NEW g \in Goroutine, Loopback(g)
  PROVE  InOnePlace'
<1> DEFINE old == goroutine[g]
           q == old.queue
           n == OwnFrom(q)
           front == SubSeq(q, 1, n - 1)
           rest == SubSeq(q, n + 1, Len(q))
           x == q[n]
<1>1. Makes /\ ServerSound' /\ ServerTyped
  BY LoopbackSound DEF ServerSound
<1>2. PICK e \in BOOLEAN :
        Become(g, [old EXCEPT !.out = @ \o front, !.queue = rest \o New, !.event = @ \/ e])
  BY DEF Loopback
<1> DEFINE st == [old EXCEPT !.out = @ \o front, !.queue = rest \o New, !.event = @ \/ e]
<1>3. /\ old \in Stage /\ q \in Seq(Ids) /\ old.out \in Seq(Ids) /\ n # 0
      /\ heard' = heard \cup {x}
      /\ UNCHANGED <<sendChan, pushed>> /\ Elsewhere
  BY <1>1, StageOf DEF Loopback
<1>4. n \in 1..Len(q)
  BY <1>3, OwnIsThere
<1>5. st.queue = rest \o New /\ st.out = old.out \o front
  BY <1>3 DEF Stage, StageOver
<1>6. Become(g, st)
  BY <1>2
<1>7. InHand(g, x) = Holds(q, x) + Holds(old.out, x)
  BY DEF InHand
<1>8. \A k : InHand(g, k) = Holds(q, k) + Holds(old.out, k)
  BY DEF InHand
<1> HIDE DEF st, n, q, old
<1>9. /\ front \in Seq(Ids) /\ rest \in Seq(Ids) /\ x \in Ids
      /\ q = front \o (<<x>> \o rest)
  BY <1>3, <1>4, Parts
<1>10. New \in Seq(Ids') /\ Seq(Ids) \subseteq Seq(Ids') /\ Ids \subseteq Ids'
  BY <1>1, KnownStays DEF Makes, Ids
<1> HIDE DEF front, rest, x
<1>11. ASSUME NEW k \in Ids'
       PROVE  Bit(k)' + (Holds(st.queue, k) + Holds(st.out, k))
                = (IF k \in Ids THEN Bit(k) + InHand(g, k) ELSE 0) + Holds(New, k)
  <2> DEFINE f == Holds(front, k)
             r == Holds(rest, k)
             o == Holds(old.out, k)
             w == Holds(New, k)
             b == IF x = k THEN 1 ELSE 0
  <2>1. f \in Nat /\ r \in Nat /\ o \in Nat /\ w \in Nat
    BY <1>3, <1>9, <1>10, HoldsIs
  <2>2. Holds(st.queue, k) = r + w
    <3>1. rest \in Seq(Ids') /\ New \in Seq(Ids')
      BY <1>9, <1>10
    <3>2. Holds(rest \o New, k) = Holds(rest, k) + Holds(New, k)
      BY <3>1, HoldsConcat
    <3> QED
      BY <1>5, <3>2
  <2>3. Holds(st.out, k) = o + f
    <3> DEFINE out == old.out
    <3>1. out \in Seq(Ids) /\ front \in Seq(Ids)
      BY <1>3, <1>9
    <3> HIDE DEF out
    <3>2. Holds(out \o front, k) = Holds(out, k) + Holds(front, k)
      BY <3>1, HoldsConcat
    <3> QED
      BY <1>5, <3>2 DEF out
  <2>4. Holds(q, k) = f + (b + r)
    <3> DEFINE own == <<x>>
    <3>1. own \in Seq(Ids) /\ own \o rest \in Seq(Ids) /\ Holds(own, k) = b
      BY <1>9, HoldsFew
    <3> HIDE DEF own
    <3> DEFINE tail == own \o rest
    <3>2. /\ own \in Seq(Ids) /\ rest \in Seq(Ids)
          /\ front \in Seq(Ids) /\ tail \in Seq(Ids)
      BY <1>9, <3>1
    <3>3. Holds(own \o rest, k) = Holds(own, k) + Holds(rest, k)
      BY <3>2, HoldsConcat
    <3> HIDE DEF tail
    <3>4. Holds(front \o tail, k) = Holds(front, k) + Holds(tail, k)
      BY <3>2, HoldsConcat
    <3>5. Holds(tail, k) = b + r
      BY <3>1, <3>3 DEF tail
    <3>6. q = front \o tail
      BY <1>9 DEF tail, own
    <3> QED
      BY <3>4, <3>5, <3>6
  <2>5. CASE k \in Ids
    <3>1. Bit(k)' = Bit(k) + b /\ Bit(k) \in Nat
      <4>1. CASE x = k
        <5>1. PICK h \in Goroutine : g # h
          BY DEF Goroutine
        <5>2. /\ Bit(k) \in Nat /\ Further(k) \in Nat /\ InHand(g, k) \in Nat /\ InHand(h, k) \in Nat
              /\ Places(k) = Bit(k) + InHand(g, k) + InHand(h, k) + Further(k)
          BY <1>1, <2>5, <5>1, PlacesAre DEF Summed
        <5>3. Places(k) = 1
          BY <1>1, <2>5 DEF InOnePlace, ServerTyped, Ids
        <5>4. InHand(g, k) = f + (b + r) + o /\ b = 1
          BY <1>8, <2>4, <4>1
        <5>5. Bit(k) = 0
          <6> HIDE DEF f, r, o, b
          <6> QED
            BY <2>1, <5>2, <5>3, <5>4
        <5>6. Bit(k)' = 1
          BY <1>3, <4>1 DEF Bit
        <5> QED
          BY <5>4, <5>5, <5>6
      <4>2. CASE x # k
        BY <1>3, <4>2 DEF Bit
      <4> QED
        BY <4>1, <4>2
    <3>2. InHand(g, k) = f + (b + r) + o
      BY <1>8, <2>4
    <3>3. b \in Nat /\ Holds(New, k) = w
      OBVIOUS
    <3> HIDE DEF f, r, o, w, b
    <3> QED
      BY <2>1, <2>2, <2>3, <2>5, <3>1, <3>2, <3>3
  <2>6. CASE k \notin Ids
    <3>1. f = 0 /\ r = 0 /\ o = 0
      BY <1>1, <1>3, <1>9, <2>6, NotThereYet
    <3>2. Bit(k)' = 0
      BY <1>1, <1>3, <1>9, <2>6 DEF Bit, ServerTyped
    <3>3. Holds(New, k) = w
      OBVIOUS
    <3> HIDE DEF f, r, o, w
    <3> QED
      BY <2>1, <2>2, <2>3, <2>6, <3>1, <3>2, <3>3
  <2> QED
    BY <2>5, <2>6
<1> QED
  BY <1>1, <1>3, <1>6, <1>11, CallOnePlace

\* The steps of a goroutine in which nothing is made.
LEMMA NothingMade ==
  ASSUME ServerTyped, UNCHANGED made
  PROVE  Makes /\ Ids' = Ids /\ \A k : Holds(New, k) = 0
<1>1. made \in Seq(Msgs) /\ Len(made) <= MaxMsgs /\ Len(made) \in Nat
  BY DEF ServerTyped
<1>2. New = <<>>
  <2>1. Len(made') - Len(made) = 0
    BY <1>1
  <2>2. [k \in 1..0 |-> Len(made) + k] = <<>>
    OBVIOUS
  <2> QED
    BY <2>1, <2>2 DEF New
<1>3. \A k : Holds(New, k) = 0
  BY <1>2, HoldsFew
<1>4. Ids' = Ids
  BY DEF Ids
<1> HIDE DEF New
<1>5. New \in Seq(1..Len(made')) /\ Len(New) = 0
  BY <1>2
<1> QED
  BY <1>1, <1>3, <1>4, <1>5 DEF Makes, Ids

LEMMA LoopbackEndsOnePlace ==
  ASSUME ServerSound, InOnePlace, NEW g \in Goroutine, LoopbackEnds(g)
  PROVE  InOnePlace'
<1> DEFINE old == goroutine[g]
           st == [old EXCEPT !.pc = "send", !.queue = <<>>, !.out = @ \o old.queue]
<1>1. /\ ServerTyped /\ old \in Stage /\ old.queue \in Seq(Ids) /\ old.out \in Seq(Ids)
      /\ UNCHANGED made /\ heard' = heard
      /\ Become(g, st) /\ UNCHANGED <<sendChan, pushed>> /\ Elsewhere
  BY StageOf DEF LoopbackEnds, ServerSound, calling
<1>2. st.queue = <<>> /\ st.out = old.out \o old.queue
  BY <1>1 DEF Stage, StageOver
<1>3. \A k : InHand(g, k) = Holds(old.queue, k) + Holds(old.out, k)
  BY DEF InHand
<1> HIDE DEF st, old
<1>4. Makes /\ Ids' = Ids /\ \A k : Holds(New, k) = 0
  BY <1>1, NothingMade
<1>5. ASSUME NEW k \in Ids'
      PROVE  Bit(k)' + (Holds(st.queue, k) + Holds(st.out, k))
               = (IF k \in Ids THEN Bit(k) + InHand(g, k) ELSE 0) + Holds(New, k)
  <2> DEFINE a == Holds(old.queue, k)
             b == Holds(old.out, k)
  <2>1. a \in Nat /\ b \in Nat
    BY <1>1, HoldsIs
  <2>2. Holds(st.out, k) = b + a
    BY <1>1, <1>2, HoldsConcat
  <2>3. Holds(st.queue, k) = 0
    BY <1>2, HoldsFew
  <2>4. Bit(k)' = Bit(k) /\ Bit(k) \in Nat
    BY <1>1 DEF Bit
  <2>5. InHand(g, k) = a + b
    BY <1>3
  <2> HIDE DEF a, b
  <2> QED
    BY <1>4, <2>1, <2>2, <2>3, <2>4, <2>5
<1>6. ServerSound'
  BY LoopbackEndsSound
<1> QED
  BY <1>1, <1>4, <1>5, <1>6, CallOnePlace

LEMMA PushOnePlace ==
  ASSUME ServerSound, InOnePlace, NEW g \in Goroutine, Push(g)
  PROVE  InOnePlace'
<1> DEFINE old == goroutine[g]
           st == [old EXCEPT !.out = Tail(@)]
           x == Head(old.out)
<1>1. /\ ServerTyped /\ old \in Stage /\ old.queue \in Seq(Ids) /\ old.out \in Seq(Ids)
      /\ old.out # <<>> /\ UNCHANGED made /\ heard' = heard /\ Become(g, st)
      /\ sendChan' = Append(sendChan, x) /\ sendChan \in Seq(Ids)
      /\ UNCHANGED <<buffer, transmit>>
  BY StageOf DEF Push, ServerSound, ServerTyped, calling, Elsewhere, dispatching
<1>2. st.queue = old.queue /\ st.out = Tail(old.out)
  BY <1>1 DEF Stage, StageOver
<1>3. \A k : InHand(g, k) = Holds(old.queue, k) + Holds(old.out, k)
  BY DEF InHand
<1>4. x \in Ids /\ Tail(old.out) \in Seq(Ids)
  BY <1>1
<1> HIDE DEF st
<1>5. Makes /\ Ids' = Ids
  BY <1>1, NothingMade
<1>6. ASSUME NEW k \in Ids
      PROVE  Bit(k)' + (Holds(st.queue, k) + Holds(st.out, k)) + Holds(sendChan', k)
               = Bit(k) + InHand(g, k) + Holds(sendChan, k)
  <2> DEFINE a == Holds(old.queue, k)
             b == Holds(Tail(old.out), k)
             c == Holds(sendChan, k)
             y == IF x = k THEN 1 ELSE 0
  <2>1. a \in Nat /\ b \in Nat /\ c \in Nat /\ y \in Nat
    <3> HIDE DEF old, x
    <3> QED
      BY <1>1, <1>4, HoldsIs
  <2>2. Holds(old.out, k) = y + b
    <3> DEFINE o == old.out
    <3>1. o \in Seq(Ids) /\ o # <<>>
      BY <1>1
    <3> HIDE DEF o
    <3>2. Holds(o, k) = (IF Head(o) = k THEN 1 ELSE 0) + Holds(Tail(o), k)
      BY <3>1, HoldsHead
    <3> QED
      BY <3>2 DEF o
  <2>3. Holds(sendChan', k) = c + y
    <3> HIDE DEF x
    <3> QED
      BY <1>1, <1>4, HoldsAppend
  <2>4. Bit(k)' = Bit(k) /\ Bit(k) \in Nat
    BY <1>1 DEF Bit
  <2>5. InHand(g, k) = a + (y + b) /\ Holds(st.queue, k) = a /\ Holds(st.out, k) = b
    BY <1>2, <1>3, <2>2
  <2> HIDE DEF a, b, c, y
  <2>6. Holds(sendChan, k) = c
    BY DEF c
  <2> QED
    BY <2>1, <2>3, <2>4, <2>5, <2>6
<1>7. ServerTyped'
  BY PushSound DEF ServerSound
<1>8. Ids' \ Ids = {}
  BY <1>5
<1> HIDE DEF old, x
<1> QED
  BY <1>1, <1>5, <1>6, <1>7, <1>8, GoroutineStep

LEMMA FinishOnePlace ==
  ASSUME ServerSound, InOnePlace, NEW g \in Goroutine, Finish(g)
  PROVE  InOnePlace'
<1>1. /\ ServerTyped /\ goroutine[g].queue = <<>> /\ goroutine[g].out = <<>>
      /\ UNCHANGED made /\ heard' = heard /\ Become(g, Idle)
      /\ UNCHANGED <<sendChan, buffer, transmit>>
  BY DEF Finish, ServerSound, Resting, calling, dispatching
<1>2. Idle.queue = <<>> /\ Idle.out = <<>>
  BY DEF Idle
<1>3. Makes /\ Ids' = Ids
  BY <1>1, NothingMade
<1>4. ASSUME NEW k \in Ids
      PROVE  Bit(k)' + (Holds(Idle.queue, k) + Holds(Idle.out, k)) + Holds(sendChan', k)
               = Bit(k) + InHand(g, k) + Holds(sendChan, k)
  BY <1>1, <1>2 DEF Bit, InHand
<1>5. ServerTyped'
  BY FinishSound DEF ServerSound
<1>6. Ids' \ Ids = {}
  BY <1>3
<1> QED
  BY <1>1, <1>3, <1>4, <1>5, <1>6, GoroutineStep

\* The steps of the dispatcher move a message on its way.
LEMMA FurtherKept ==
  ASSUME ServerSound, ServerSound', InOnePlace, UNCHANGED <<made, heard, goroutine>>,
         \A k \in Ids : Further(k)' = Further(k)
  PROVE  InOnePlace'
<1>1. ServerTyped /\ ServerTyped' /\ Ids' = Ids
  BY DEF ServerSound, Ids
<1>2. Summed /\ Summed'
  BY <1>1, PlacesAre, PlacesLater
<1>3. SUFFICES ASSUME NEW k \in Ids PROVE Places(k)' = 1
  <2>1. DOMAIN made' = Ids
    BY DEF ServerSound, ServerTyped, Ids
  <2> QED
    BY <2>1 DEF InOnePlace
<1>4. Places(k) = 1
  <2>1. DOMAIN made = Ids
    BY DEF ServerSound, ServerTyped, Ids
  <2> QED
    BY <2>1 DEF InOnePlace
<1>5. PICK g, h \in Goroutine : g # h
  BY DEF Goroutine
<1>6. /\ Places(k)' = Bit(k)' + InHand(g, k)' + InHand(h, k)' + Further(k)'
      /\ Places(k) = Bit(k) + InHand(g, k) + InHand(h, k) + Further(k)
  BY <1>1, <1>2, <1>5 DEF Summed
<1>7. Bit(k)' = Bit(k) /\ InHand(g, k)' = InHand(g, k) /\ InHand(h, k)' = InHand(h, k)
  BY DEF Bit, InHand
<1> QED
  BY <1>4, <1>6, <1>7

LEMMA RegisterOnePlace ==
  ASSUME ServerSound, InOnePlace, Register
  PROVE  InOnePlace'
<1> DEFINE q == Head(newPeer)
           moved == transmit[q] \o buffer[q]
<1>1. q \in Peers /\ q \in Node
  BY DEF Register, ServerSound, ServerTyped, Peers
<1>2. /\ transmit' = [transmit EXCEPT ![q] = moved]
      /\ buffer' = [buffer EXCEPT ![q] = <<>>]
      /\ UNCHANGED <<made, heard, goroutine, sendChan>>
  BY DEF Register, calling
<1>3. /\ ServerTyped
      /\ buffer \in [Node -> Seq(Ids)] /\ transmit \in [Node -> Seq(Ids)]
  BY DEF ServerSound, ServerTyped
<1> HIDE DEF q
<1>4. ASSUME NEW k \in Ids PROVE Further(k)' = Further(k)
  <2> DEFINE d == Dest(k)
             a == transmit[d]
             b == buffer[d]
  <2>1. d \in Node /\ Dest(k)' = d
    BY <1>2, <1>3, DestIsNode DEF Dest
  <2>2. a \in Seq(Ids) /\ b \in Seq(Ids)
    BY <1>3, <2>1
  <2>3. Holds(a, k) \in Nat /\ Holds(b, k) \in Nat /\ Holds(<<>>, k) = 0
        /\ Holds(a \o b, k) = Holds(a, k) + Holds(b, k)
    <3> HIDE DEF a, b
    <3>1. Holds(a, k) \in Nat /\ Holds(b, k) \in Nat
      BY <2>2, HoldsIs
    <3>2. Holds(<<>>, k) = 0
      BY HoldsFew
    <3>3. Holds(a \o b, k) = Holds(a, k) + Holds(b, k)
      BY <2>2, HoldsConcat
    <3> QED
      BY <3>1, <3>2, <3>3
  <2>4. Further(k) = Holds(sendChan, k) + Holds(b, k) + Holds(a, k)
    BY DEF Further
  <2>5. Further(k)' = Holds(sendChan, k) + Holds(buffer'[d], k) + Holds(transmit'[d], k)
    BY <1>2, <2>1 DEF Further
  <2>6. CASE d = q
    <3>1. transmit'[d] = a \o b /\ buffer'[d] = <<>>
      BY <1>1, <1>2, <1>3, <2>6
    <3>2. Holds(sendChan, k) \in Nat
      BY <1>3, HoldsIs DEF ServerTyped
    <3> HIDE DEF a, b, d
    <3> QED
      BY <2>3, <2>4, <2>5, <3>1, <3>2
  <2>7. CASE d # q
    <3>1. transmit'[d] = a /\ buffer'[d] = b
      BY <1>1, <1>2, <1>3, <2>1, <2>7
    <3> QED
      BY <2>4, <2>5, <3>1
  <2> QED
    BY <2>6, <2>7
<1>5. ServerSound'
  BY RegisterSound
<1> QED
  BY <1>2, <1>4, <1>5, FurtherKept

LEMMA DispatchOnePlace ==
  ASSUME ServerSound, InOnePlace, Dispatch
  PROVE  InOnePlace'
<1> DEFINE m == Head(sendChan)
           q == Dest(m)
           tail == Tail(sendChan)
<1>1. /\ m \in Ids /\ q \in Node /\ sendChan' = tail /\ tail \in Seq(Ids)
      /\ sendChan # <<>>
  BY Dispatched
<1>2. /\ \/ transmit' = [transmit EXCEPT ![q] = Append(@, m)] /\ UNCHANGED buffer
         \/ buffer' = [buffer EXCEPT ![q] = Append(@, m)] /\ UNCHANGED transmit
      /\ UNCHANGED <<made, heard, goroutine>>
  BY DEF Dispatch, calling
<1>3. /\ ServerTyped /\ sendChan \in Seq(Ids)
      /\ buffer \in [Node -> Seq(Ids)] /\ transmit \in [Node -> Seq(Ids)]
  BY DEF ServerSound, ServerTyped
<1>4. ASSUME NEW k \in Ids PROVE Further(k)' = Further(k)
  <2> DEFINE d == Dest(k)
             y == IF m = k THEN 1 ELSE 0
             a == transmit[d]
             b == buffer[d]
             c == Holds(tail, k)
  <2>1. d \in Node /\ Dest(k)' = d
    BY <1>2, <1>3, DestIsNode DEF Dest
  <2>2. a \in Seq(Ids) /\ b \in Seq(Ids)
    BY <1>3, <2>1
  <2>3. Holds(sendChan, k) = y + c
    BY <1>1, <1>3, HoldsHead
  <2>4. m = k => q = d
    OBVIOUS
  <2> HIDE DEF m, q, tail
  <2>5. Holds(a, k) \in Nat /\ Holds(b, k) \in Nat /\ c \in Nat /\ y \in Nat
    <3> HIDE DEF a, b
    <3> QED
      BY <1>1, <2>2, HoldsIs
  <2>6. Holds(Append(a, m), k) = Holds(a, k) + y /\ Holds(Append(b, m), k) = Holds(b, k) + y
    <3> HIDE DEF a, b
    <3> QED
      BY <1>1, <2>2, HoldsAppend
  <2>7. Further(k) = (y + c) + Holds(b, k) + Holds(a, k)
    BY <2>3 DEF Further
  <2>8. Further(k)' = c + Holds(buffer'[d], k) + Holds(transmit'[d], k)
    BY <1>1, <2>1 DEF Further
  <2>9. CASE d = q
    <3>1. \/ transmit'[d] = Append(a, m) /\ buffer'[d] = b
          \/ buffer'[d] = Append(b, m) /\ transmit'[d] = a
      BY <1>1, <1>2, <1>3, <2>9
    <3>2. CASE transmit'[d] = Append(a, m) /\ buffer'[d] = b
      <4>1. Further(k)' = c + Holds(b, k) + (Holds(a, k) + y)
        BY <2>6, <2>8, <3>2
      <4> HIDE DEF a, b, c, d, y
      <4> QED
        BY <2>5, <2>7, <4>1
    <3>3. CASE buffer'[d] = Append(b, m) /\ transmit'[d] = a
      <4>1. Further(k)' = c + (Holds(b, k) + y) + Holds(a, k)
        BY <2>6, <2>8, <3>3
      <4> HIDE DEF a, b, c, d, y
      <4> QED
        BY <2>5, <2>7, <4>1
    <3> QED
      BY <3>1, <3>2, <3>3
  <2>10. CASE d # q
    <3>1. transmit'[d] = a /\ buffer'[d] = b
      BY <1>1, <1>2, <1>3, <2>1, <2>10
    <3>2. y = 0
      BY <2>4, <2>10
    <3> HIDE DEF a, b, c, d, y
    <3> QED
      BY <2>5, <2>7, <2>8, <3>1, <3>2
  <2> QED
    BY <2>9, <2>10
<1>5. ServerSound'
  BY DispatchSound
<1> QED
  BY <1>2, <1>4, <1>5, FurtherKept

LEMMA RestOnePlace ==
  ASSUME InOnePlace, UNCHANGED <<made, heard, goroutine, sendChan, buffer, transmit>>
  PROVE  InOnePlace'
BY DEF InOnePlace, Places, Dest

LEMMA PlaceStep ==
  ASSUME ServerSound, InOnePlace, [Next]_vars
  PROVE  InOnePlace'
<1>1. ASSUME NEW g \in Goroutine, Works(g) PROVE InOnePlace'
  BY <1>1, LoopbackOnePlace, LoopbackEndsOnePlace, PushOnePlace, FinishOnePlace DEF Works
<1>2. CASE Arrive
  BY <1>2, RestOnePlace DEF Arrive, Elsewhere, dispatching, calling
<1>3. ASSUME NEW p \in Peers, Dial(p) PROVE InOnePlace'
  BY <1>3, RestOnePlace DEF Dial, dispatching, calling
<1>4. CASE UNCHANGED vars
  BY <1>4, RestOnePlace DEF vars, calling, dispatching
<1> QED
  BY <1>1, <1>2, <1>3, <1>4, InitProtocolOnePlace, TickOnePlace, ReceiveOnePlace,
     RegisterOnePlace, DispatchOnePlace
  DEF Next, Goroutine

(***************************************************************************)
(* Whatever the goroutines do to each other, a message is in one place.    *)
(***************************************************************************)
THEOREM NoneMissing == Spec => []InOnePlace
<1>1. Init => InOnePlace
  BY DEF Init, InOnePlace
<1>2. ServerSound /\ InOnePlace /\ [Next]_vars => InOnePlace'
  BY PlaceStep
<1>3. Spec => []ServerSound
  BY ServerHolds, PTL
<1> QED
  BY <1>1, <1>2, <1>3, PTL DEF Spec

-----------------------------------------------------------------------------
(***************************************************************************)
(* A connection: the streams that are open.  They are above all others     *)
(* that have been, and as long as there are fewer than MaxStreams, they    *)
(* are all.                                                                *)
(***************************************************************************)
StreamOver(Q) == [session : P!Session, epoch : Nat, queue : Q, wire : Q, open : BOOLEAN]
Stream == StreamOver(Seq(Message))

Lp(strs) == {k \in DOMAIN strs : strs[k].session = "lp"}
Seen(strs) == {strs[k].epoch : k \in Lp(strs)}
Opened(strs) == {strs[k].epoch : k \in P!Active(strs)}

OnePerEpoch(strs) ==
  \A j, k \in P!Active(strs) : strs[j].epoch = strs[k].epoch => j = k

Above(T, S) == \A x \in T, y \in S : y > x => y \in T

Newest(strs) ==
  /\ strs \in Seq(Stream)
  /\ OnePerEpoch(strs)
  /\ Above(Opened(strs), Seen(strs))
  /\ Cardinality(P!Active(strs)) <= MaxStreams
  /\ Cardinality(P!Active(strs)) < MaxStreams => Opened(strs) = Seen(strs)

LEMMA StreamsFinite ==
  ASSUME NEW strs \in Seq(Stream)
  PROVE  /\ DOMAIN strs = 1..Len(strs) /\ Len(strs) \in Nat
         /\ P!Active(strs) \in SUBSET Lp(strs) /\ Lp(strs) \in SUBSET (1..Len(strs))
         /\ IsFiniteSet(P!Active(strs)) /\ IsFiniteSet(Lp(strs))
         /\ Opened(strs) \subseteq Seen(strs) /\ Seen(strs) \subseteq Nat
         /\ IsFiniteSet(Seen(strs)) /\ IsFiniteSet(Opened(strs))
         /\ \A k \in DOMAIN strs : strs[k] \in Stream
<1>1. DOMAIN strs = 1..Len(strs) /\ Len(strs) \in Nat /\ \A k \in DOMAIN strs : strs[k] \in Stream
  OBVIOUS
<1>2. P!Active(strs) \in SUBSET Lp(strs) /\ Lp(strs) \in SUBSET (1..Len(strs))
  BY <1>1 DEF P!Active, Lp
<1>3. IsFiniteSet(Lp(strs)) /\ IsFiniteSet(P!Active(strs))
  <2>1. IsFiniteSet(1..Len(strs))
    BY <1>1, FS_Interval
  <2> QED
    BY <1>2, <2>1, FS_Subset
<1>4. Opened(strs) \subseteq Seen(strs)
  BY <1>2 DEF Opened, Seen
<1>5. Seen(strs) \subseteq Nat
  BY <1>1, <1>2 DEF Seen, Lp, Stream, StreamOver
<1>6. IsFiniteSet(Seen(strs)) /\ IsFiniteSet(Opened(strs))
  <2> DEFINE f == [k \in Lp(strs) |-> strs[k].epoch]
  <2>1. f \in Surjection(Lp(strs), Seen(strs))
    BY DEF Seen, Surjection
  <2>2. IsFiniteSet(Seen(strs))
    BY <1>3, <2>1, FS_Surjection
  <2> QED
    BY <1>4, <2>2, FS_Subset
<1> QED
  BY <1>1, <1>2, <1>3, <1>4, <1>5, <1>6

LEMMA OpenedCount ==
  ASSUME NEW strs \in Seq(Stream), OnePerEpoch(strs)
  PROVE  Cardinality(Opened(strs)) = Cardinality(P!Active(strs))
<1> DEFINE A == P!Active(strs)
           f == [k \in A |-> strs[k].epoch]
<1>1. f \in Bijection(A, Opened(strs))
  <2>1. f \in Surjection(A, Opened(strs))
    BY DEF Opened, Surjection
  <2>2. f \in Injection(A, Opened(strs))
    BY <2>1 DEF OnePerEpoch, Injection, IsInjective, Surjection
  <2> QED
    BY <2>1, <2>2 DEF Bijection
<1>2. ExistsBijection(A, Opened(strs))
  BY <1>1 DEF ExistsBijection
<1>3. IsFiniteSet(A)
  BY StreamsFinite
<1> QED
  BY <1>2, <1>3, FS_Bijection

LEMMA SameCardinality == \A X : P!Cardinality(X) = Cardinality(X)
BY Zenon DEF P!Cardinality, Cardinality

LEMMA NewestShows ==
  ASSUME Newest(streams)
  PROVE  NewestOpen
<1> DEFINE A == P!Active(streams)
           T == Opened(streams)
           S == Seen(streams)
           K == MaxStreams
<1>1. /\ IsFiniteSet(A) /\ IsFiniteSet(T) /\ IsFiniteSet(S) /\ T \subseteq S /\ S \subseteq Nat
      /\ Cardinality(T) = Cardinality(A) /\ Above(T, S)
      /\ Cardinality(A) <= K /\ (Cardinality(A) < K => T = S) /\ K \in Nat
  BY StreamsFinite, OpenedCount, Carries DEF Newest
<1>2. /\ Cardinality(A) \in Nat /\ Cardinality(S) \in Nat /\ Cardinality(T) \in Nat
      /\ Cardinality(T) <= Cardinality(S)
  <2> HIDE DEF A, T, S
  <2> QED
    BY <1>1, FS_CardinalityType, FS_Subset
<1>3. NewestOpen <=> /\ Cardinality(A) = P!Min({K, Cardinality(S)})
                     /\ T = {x \in S : Cardinality({d \in S : d > x}) < K}
  <2> DEFINE seen == {streams[k].epoch : k \in {k \in DOMAIN streams : streams[k].session = "lp"}}
             open == {streams[k].epoch : k \in P!Active(streams)}
  <2>1. seen = S /\ open = T
    BY DEF Opened, Seen, Lp
  <2>2. NewestOpen <=> /\ P!Cardinality(A) = P!Min({K, P!Cardinality(seen)})
                       /\ open = {e \in seen : P!Cardinality({d \in seen : d > e}) < K}
    BY DEF NewestOpen, P!NewestOpen
  <2>3. \A X : P!Cardinality(X) = Cardinality(X)
    BY SameCardinality
  <2> HIDE DEF seen, open, A, T, S, K
  <2>4. {e \in seen : P!Cardinality({d \in seen : d > e}) < K}
          = {e \in seen : Cardinality({d \in seen : d > e}) < K}
    BY <2>3
  <2> QED
    BY <2>1, <2>2, <2>3, <2>4
<1> HIDE DEF A, T, S, K
<1>4. Cardinality(A) = P!Min({K, Cardinality(S)})
  <2>1. Cardinality(A) \in {K, Cardinality(S)} /\ \A y \in {K, Cardinality(S)} : Cardinality(A) <= y
    BY <1>1, <1>2
  <2>2. \A z \in {K, Cardinality(S)} :
          (\A y \in {K, Cardinality(S)} : z <= y) => z = Cardinality(A)
    BY <1>1, <1>2
  <2> QED
    BY <2>1, <2>2 DEF P!Min
<1>5. ASSUME NEW x \in S
      PROVE  x \in T <=> Cardinality({d \in S : d > x}) < K
  <2> DEFINE D == {d \in S : d > x}
  <2>1. IsFiniteSet(D) /\ Cardinality(D) \in Nat
    <3>1. D \in SUBSET S
      OBVIOUS
    <3> HIDE DEF D
    <3> QED
      BY <1>1, <3>1, FS_Subset, FS_CardinalityType
  <2>2. CASE x \in T
    <3>1. D \subseteq T \ {x}
      <4> SUFFICES ASSUME NEW d \in S, d > x PROVE d \in T \ {x}
        OBVIOUS
      <4>1. d \in Nat /\ x \in Nat /\ d # x
        BY <1>1
      <4>2. d \in T
        BY <1>1, <2>2 DEF Above
      <4> QED
        BY <4>1, <4>2
    <3>2. IsFiniteSet(T \ {x}) /\ Cardinality(T \ {x}) = Cardinality(T) - 1
      BY <1>1, <2>2, FS_RemoveElement
    <3> HIDE DEF D
    <3>3. Cardinality(D) <= Cardinality(T) - 1
      BY <3>1, <3>2, FS_Subset
    <3>4. Cardinality(D) < K
      BY <1>1, <1>2, <2>1, <3>3
    <3> QED
      BY <2>2, <3>4 DEF D
  <2>3. CASE x \notin T
    <3>1. T \subseteq D
      BY <1>1, <2>3 DEF Above
    <3> HIDE DEF D
    <3>2. Cardinality(T) <= Cardinality(D)
      BY <2>1, <3>1, FS_Subset
    <3>3. Cardinality(T) = K
      BY <1>1, <1>2, <2>3
    <3>4. ~(Cardinality(D) < K)
      BY <1>1, <1>2, <2>1, <3>2, <3>3
    <3> QED
      BY <2>3, <3>4 DEF D
  <2> QED
    BY <2>2, <2>3
<1> QED
  BY <1>1, <1>3, <1>4, <1>5

\* What does not open or close a stream.
SameStreams(strs, next) ==
  /\ next \in Seq(Stream) /\ DOMAIN next = DOMAIN strs
  /\ \A k \in DOMAIN strs :
       /\ next[k].session = strs[k].session /\ next[k].epoch = strs[k].epoch
       /\ next[k].open = strs[k].open

LEMMA SameNewest ==
  ASSUME NEW strs, NEW next, Newest(strs), SameStreams(strs, next)
  PROVE  Newest(next) /\ P!Active(next) = P!Active(strs)
<1>1. P!Active(next) = P!Active(strs) /\ Lp(next) = Lp(strs)
  BY DEF P!Active, Lp, SameStreams
<1>2. Opened(next) = Opened(strs) /\ Seen(next) = Seen(strs)
  BY <1>1 DEF Opened, Seen, SameStreams, P!Active, Lp
<1>3. OnePerEpoch(next)
  BY <1>1 DEF OnePerEpoch, Newest, SameStreams, P!Active
<1> QED
  BY <1>1, <1>2, <1>3 DEF Newest, SameStreams

\* A new stream at the end, if the epoch has none that is open.
LEMMA StreamAdded ==
  ASSUME NEW strs \in Seq(Stream), OnePerEpoch(strs), NEW st \in Stream,
         st.session = "lp", st.open, st.epoch \notin Opened(strs)
  PROVE  LET next == Append(strs, st) IN
         /\ next \in Seq(Stream) /\ OnePerEpoch(next)
         /\ Opened(next) = Opened(strs) \cup {st.epoch}
         /\ Seen(next) = Seen(strs) \cup {st.epoch}
         /\ Cardinality(P!Active(next)) = Cardinality(P!Active(strs)) + 1
<1> DEFINE next == Append(strs, st)
           l == Len(strs)
<1>1. /\ next \in Seq(Stream) /\ DOMAIN next = 1..(l + 1) /\ DOMAIN strs = 1..l /\ l \in Nat
      /\ next[l + 1] = st /\ \A k \in 1..l : next[k] = strs[k]
  <2>1. next \in Seq(Stream) /\ DOMAIN strs = 1..l /\ l \in Nat
    BY DEF Stream, StreamOver
  <2>2. DOMAIN next = 1..(l + 1) /\ next[l + 1] = st /\ \A k \in 1..l : next[k] = strs[k]
    BY AppendIs
  <2> QED
    BY <2>1, <2>2
<1> HIDE DEF next
<1>2. /\ P!Active(next) = P!Active(strs) \cup {l + 1} /\ l + 1 \notin P!Active(strs)
      /\ Lp(next) = Lp(strs) \cup {l + 1}
  BY <1>1 DEF P!Active, Lp
<1>3. \A k \in Lp(strs) : next[k] = strs[k]
  BY <1>1 DEF Lp
<1>4. \A k \in P!Active(strs) : next[k] = strs[k] /\ strs[k].epoch # st.epoch
  BY <1>1 DEF P!Active, Opened
<1>5. Opened(next) = Opened(strs) \cup {st.epoch}
  BY <1>1, <1>2, <1>4 DEF Opened
<1>6. Seen(next) = Seen(strs) \cup {st.epoch}
  BY <1>1, <1>2, <1>3 DEF Seen
<1>7. OnePerEpoch(next)
  BY <1>1, <1>2, <1>4 DEF OnePerEpoch
<1>8. Cardinality(P!Active(next)) = Cardinality(P!Active(strs)) + 1
  <2>1. IsFiniteSet(P!Active(strs))
    BY StreamsFinite
  <2> QED
    BY <1>2, <2>1, FS_AddElement
<1> QED
  BY <1>1, <1>5, <1>6, <1>7, <1>8 DEF next

\* Of too many the lowest is closed.
LEMMA StreamClosed ==
  ASSUME NEW strs \in Seq(Stream), OnePerEpoch(strs), P!Active(strs) # {}
  PROVE  LET first == CHOOSE k \in P!Active(strs) :
                        \A j \in P!Active(strs) : strs[k].epoch <= strs[j].epoch
             next == [strs EXCEPT ![first].open = FALSE]
         IN
         /\ next \in Seq(Stream) /\ OnePerEpoch(next)
         /\ first \in P!Active(strs) /\ \A e \in Opened(strs) : strs[first].epoch <= e
         /\ Opened(next) = Opened(strs) \ {strs[first].epoch}
         /\ Seen(next) = Seen(strs)
         /\ Cardinality(P!Active(next)) = Cardinality(P!Active(strs)) - 1
<1> DEFINE first == CHOOSE k \in P!Active(strs) :
                      \A j \in P!Active(strs) : strs[k].epoch <= strs[j].epoch
           next == [strs EXCEPT ![first].open = FALSE]
<1>1. first \in P!Active(strs) /\ \A j \in P!Active(strs) : strs[first].epoch <= strs[j].epoch
  <2>1. Opened(strs) \in SUBSET Nat /\ Opened(strs) # {}
    BY StreamsFinite DEF Opened
  <2>2. PICK e \in Opened(strs) : \A d \in Opened(strs) : e <= d
    BY <2>1, Least
  <2>3. PICK k \in P!Active(strs) : strs[k].epoch = e
    BY <2>2 DEF Opened
  <2>4. \A j \in P!Active(strs) : strs[k].epoch <= strs[j].epoch
    BY <2>2, <2>3 DEF Opened
  <2> QED
    BY <2>3, <2>4
<1> HIDE DEF first
<1>2. /\ first \in DOMAIN strs /\ strs[first].session = "lp" /\ strs[first].open
      /\ DOMAIN strs = 1..Len(strs) /\ \A k \in DOMAIN strs : strs[k] \in Stream
  BY <1>1, StreamsFinite DEF P!Active
<1> DEFINE closed == [strs[first] EXCEPT !.open = FALSE]
<1>3. /\ closed \in Stream /\ closed.session = strs[first].session
      /\ closed.epoch = strs[first].epoch /\ closed.open = FALSE
  BY <1>2 DEF Stream, StreamOver
<1>4. next = [strs EXCEPT ![first] = closed]
  OBVIOUS
<1> HIDE DEF next, closed
<1>5. /\ next \in Seq(Stream) /\ DOMAIN next = DOMAIN strs /\ next[first] = closed
      /\ \A k \in DOMAIN strs : k # first => next[k] = strs[k]
  BY <1>2, <1>3, <1>4
<1>6. P!Active(next) = P!Active(strs) \ {first} /\ Lp(next) = Lp(strs)
  BY <1>2, <1>3, <1>5 DEF P!Active, Lp
<1>7. \A k \in Lp(strs) : next[k].epoch = strs[k].epoch
  BY <1>2, <1>3, <1>5 DEF Lp
<1>8. Seen(next) = Seen(strs)
  BY <1>6, <1>7 DEF Seen
<1>9. P!Active(strs) \subseteq Lp(strs)
  BY DEF P!Active, Lp
<1>10. Opened(next) = Opened(strs) \ {strs[first].epoch}
  BY <1>1, <1>6, <1>7, <1>9 DEF Opened, OnePerEpoch
<1>11. OnePerEpoch(next)
  BY <1>6, <1>7, <1>9 DEF OnePerEpoch
<1>12. Cardinality(P!Active(next)) = Cardinality(P!Active(strs)) - 1
  <2>1. IsFiniteSet(P!Active(strs))
    BY StreamsFinite
  <2> QED
    BY <1>1, <1>6, <2>1, FS_RemoveElement
<1>13. \A e \in Opened(strs) : strs[first].epoch <= e
  BY <1>1 DEF Opened
<1> QED
  BY <1>1, <1>5, <1>8, <1>10, <1>11, <1>12, <1>13 DEF first, next

LEMMA OwnStream ==
  ASSUME Newest(streams), NEW m \in Message,
         {k \in P!Active(streams) : streams[k].epoch = m.epoch} # {}
  PROVE  SameStreams(streams, P!Enqueued(m))
<1> DEFINE own == {k \in P!Active(streams) : streams[k].epoch = m.epoch}
           c == CHOOSE k \in own : TRUE
<1>1. c \in own
  OBVIOUS
<1>2. c \in DOMAIN streams /\ streams \in Seq(Stream) /\ streams[c] \in Stream
      /\ DOMAIN streams = 1..Len(streams)
  BY <1>1, StreamsFinite DEF P!Active, Newest
<1>3. P!Enqueued(m) = [streams EXCEPT ![c].queue = Append(@, m)]
  BY DEF P!Enqueued
<1> HIDE DEF c
<1> DEFINE q == Append(streams[c].queue, m)
           longer == [streams[c] EXCEPT !.queue = q]
<1>4. P!Enqueued(m) = [streams EXCEPT ![c] = longer]
  BY <1>3
<1>5. q \in Seq(Message)
  BY <1>2 DEF Stream, StreamOver
<1> HIDE DEF q
<1>6. /\ longer \in Stream /\ longer.session = streams[c].session
      /\ longer.epoch = streams[c].epoch /\ longer.open = streams[c].open
  BY <1>2, <1>5 DEF Stream, StreamOver
<1> HIDE DEF longer
<1> QED
  BY <1>2, <1>4, <1>6 DEF SameStreams

LEMMA NewStreamIs ==
  ASSUME NEW m \in Message
  PROVE  LET st == [P!NewStream("lp", m.epoch) EXCEPT !.queue = <<m>>] IN
         st \in Stream /\ st.session = "lp" /\ st.open /\ st.epoch = m.epoch
<1> DEFINE Q == Seq(Message)
           one == <<m>>
           e == m.epoch
<1>1. one \in Q /\ <<>> \in Q /\ e \in Nat
  BY Carries
<1>2. Stream = StreamOver(Q)
  BY DEF Stream
<1> HIDE DEF Q, one, e
<1> DEFINE st == [P!NewStream("lp", e) EXCEPT !.queue = one]
<1>3. st \in StreamOver(Q) /\ st.session = "lp" /\ st.open /\ st.epoch = e
  BY <1>1 DEF P!NewStream, StreamOver, P!Session
<1> QED
  BY <1>2, <1>3 DEF one, e

LEMMA PriorityNewest ==
  ASSUME Newest(streams), P!HandleEpochPriority, lpchan \in Seq(Message)
  PROVE  Newest(streams')
<1> DEFINE m == Head(lpchan)
           strs == P!Enqueued(m)
           K == MaxStreams
<1>1. m \in Message /\ streams' = P!Trimmed(strs)
  BY DEF P!HandleEpochPriority
<1> HIDE DEF m
<1>2. P!Cardinality(P!Active(strs)) = Cardinality(P!Active(strs))
  BY SameCardinality
<1>3. CASE {k \in P!Active(streams) : streams[k].epoch = m.epoch} # {}
  <2>1. SameStreams(streams, strs)
    BY <1>1, <1>3, OwnStream
  <2> HIDE DEF strs
  <2>2. Newest(strs)
    BY <2>1, SameNewest
  <2>3. P!Trimmed(strs) = strs
    BY <1>2, <2>2 DEF P!Trimmed, Newest
  <2> QED
    BY <1>1, <2>2, <2>3
<1>4. CASE {k \in P!Active(streams) : streams[k].epoch = m.epoch} = {}
  <2> DEFINE st == [P!NewStream("lp", m.epoch) EXCEPT !.queue = <<m>>]
             A == P!Active(streams)
             e == m.epoch
             T == Opened(streams)
             S == Seen(streams)
  <2>1. st \in Stream /\ st.session = "lp" /\ st.open /\ st.epoch = e
    BY <1>1, NewStreamIs
  <2>2. strs = Append(streams, st)
    BY <1>4 DEF P!Enqueued
  <2> HIDE DEF st
  <2>3. e \notin T
    BY <1>4 DEF Opened
  <2>4. /\ streams \in Seq(Stream) /\ OnePerEpoch(streams) /\ Above(T, S)
        /\ Cardinality(A) <= K /\ (Cardinality(A) < K => T = S)
    BY DEF Newest
  <2>5. /\ strs \in Seq(Stream) /\ OnePerEpoch(strs)
        /\ Opened(strs) = T \cup {e} /\ Seen(strs) = S \cup {e}
        /\ Cardinality(P!Active(strs)) = Cardinality(A) + 1
    <3> HIDE DEF strs, A, T, S, e
    <3>1. /\ Append(streams, st) \in Seq(Stream) /\ OnePerEpoch(Append(streams, st))
          /\ Opened(Append(streams, st)) = Opened(streams) \cup {st.epoch}
          /\ Seen(Append(streams, st)) = Seen(streams) \cup {st.epoch}
          /\ Cardinality(P!Active(Append(streams, st))) = Cardinality(P!Active(streams)) + 1
      BY <2>1, <2>3, <2>4, StreamAdded DEF T
    <3> QED
      BY <2>1, <2>2, <3>1 DEF A, T, S
  <2>6. /\ T \subseteq S /\ S \subseteq Nat /\ e \in Nat /\ Cardinality(A) \in Nat /\ K \in Nat
    BY <1>1, <2>4, StreamsFinite, FS_CardinalityType, Carries
  <2> HIDE DEF strs, A, T, S, e, K
  <2>7. CASE Cardinality(P!Active(strs)) <= K
    <3>1. P!Trimmed(strs) = strs
      BY <1>2, <2>7 DEF P!Trimmed, K
    <3>2. T = S
      BY <2>4, <2>5, <2>6, <2>7
    <3>3. Newest(strs)
      BY <2>5, <2>7, <3>2 DEF Newest, Above, K
    <3> QED
      BY <1>1, <3>1, <3>3
  <2>8. CASE ~(Cardinality(P!Active(strs)) <= K)
    <3> DEFINE first == CHOOSE k \in P!Active(strs) :
                          \A j \in P!Active(strs) : strs[k].epoch <= strs[j].epoch
               final == [strs EXCEPT ![first].open = FALSE]
               f == strs[first].epoch
    <3>1. P!Trimmed(strs) = final
      BY <1>2, <2>8 DEF P!Trimmed, K
    <3>2. P!Active(strs) # {}
      <4>1. T \cup {e} # {}
        OBVIOUS
      <4>2. Opened(strs) # {}
        BY <2>5, <4>1
      <4> QED
        BY <4>2 DEF Opened
    <3>3. /\ final \in Seq(Stream) /\ OnePerEpoch(final)
          /\ first \in P!Active(strs) /\ \A d \in Opened(strs) : f <= d
          /\ Opened(final) = Opened(strs) \ {f}
          /\ Seen(final) = Seen(strs)
          /\ Cardinality(P!Active(final)) = Cardinality(P!Active(strs)) - 1
      BY <2>5, <3>2, StreamClosed
    <3>4. f \in T \cup {e}
      BY <2>5, <3>3 DEF Opened
    <3> HIDE DEF final, f, first
    <3>5. Opened(final) = (T \cup {e}) \ {f} /\ Seen(final) = S \cup {e}
      BY <2>5, <3>3
    <3>6. \A d \in T \cup {e} : f <= d
      BY <2>5, <3>3
    <3>7. Above((T \cup {e}) \ {f}, S \cup {e})
      <4> SUFFICES ASSUME NEW x \in (T \cup {e}) \ {f}, NEW y \in S \cup {e}, y > x
                   PROVE  y \in (T \cup {e}) \ {f}
        BY DEF Above
      <4>1. x \in Nat /\ y \in Nat /\ f \in Nat
        BY <2>6, <3>4
      <4>2. f <= x /\ y # f
        BY <3>6, <4>1
      <4>3. CASE x \in T
        BY <2>4, <4>2, <4>3 DEF Above
      <4>4. CASE x = e
        <5>1. f \in T /\ f < y
          BY <3>4, <4>1, <4>2, <4>4
        <5>2. y \in S
          BY <4>1, <4>4
        <5> QED
          BY <2>4, <4>2, <5>1, <5>2 DEF Above
      <4> QED
        BY <4>3, <4>4
    <3>8. Cardinality(P!Active(final)) = K
      BY <2>4, <2>5, <2>6, <2>8, <3>3
    <3>9. Newest(final)
      <4>1. Above(Opened(final), Seen(final))
        BY <3>5, <3>7
      <4>2. /\ Cardinality(P!Active(final)) <= MaxStreams
            /\ ~(Cardinality(P!Active(final)) < MaxStreams)
        BY <2>6, <3>8 DEF K
      <4> QED
        BY <3>3, <4>1, <4>2 DEF Newest
    <3> QED
      BY <1>1, <3>1, <3>9
  <2> QED
    BY <2>7, <2>8
<1> QED
  BY <1>3, <1>4

PeerSound == Newest(streams) /\ lpchan \in Seq(Message) /\ channel \in Seq(Message)

\* A stream whose queue and wire change is still the same stream.
LEMMA StreamChanged ==
  ASSUME NEW strs \in Seq(Stream), NEW k, NEW st \in Stream,
         k \in DOMAIN strs =>
           st.session = strs[k].session /\ st.epoch = strs[k].epoch /\ st.open = strs[k].open
  PROVE  SameStreams(strs, [strs EXCEPT ![k] = st])
<1> DEFINE next == [strs EXCEPT ![k] = st]
<1>1. next \in Seq(Stream)
  <2> DEFINE T == Stream
  <2>1. strs \in [1..Len(strs) -> T] /\ Len(strs) \in Nat /\ st \in T
    OBVIOUS
  <2> HIDE DEF T
  <2>2. next \in [1..Len(strs) -> T]
    BY <2>1
  <2> HIDE DEF next
  <2>3. next \in Seq(T)
    BY <2>1, <2>2
  <2> QED
    BY <2>3 DEF T
<1>2. DOMAIN next = DOMAIN strs
  OBVIOUS
<1>3. \A j \in DOMAIN strs : next[j] = IF j = k THEN st ELSE strs[j]
  OBVIOUS
<1> HIDE DEF next
<1>4. SameStreams(strs, next)
  BY <1>1, <1>2, <1>3 DEF SameStreams
<1> QED
  BY <1>4 DEF next

LEMMA PeerStep ==
  ASSUME PeerSound, [P!Next]_(P!vars)
  PROVE  PeerSound'
<1> DEFINE Q == Seq(Message)
<1>1. /\ streams \in Seq(Stream) /\ Newest(streams) /\ lpchan \in Q /\ channel \in Q
      /\ DOMAIN streams = 1..Len(streams)
      /\ \A k \in DOMAIN streams : streams[k] \in Stream
  BY StreamsFinite DEF PeerSound, Newest
<1>2. ASSUME NEW k \in DOMAIN streams
      PROVE  streams[k].queue \in Q /\ streams[k].wire \in Q
  BY <1>1 DEF Stream, StreamOver
<1>4. CASE \E m \in Message : P!Transmit(m)
  BY <1>1, <1>4 DEF P!Transmit, PeerSound
<1>5. CASE P!SortHigh
  <2> DEFINE m == Head(channel)
             k == P!StreamOf(m)
             x == Append(streams[k].queue, m)
             st == [streams[k] EXCEPT !.queue = x]
  <2>1. /\ channel # <<>> /\ channel' = Tail(channel) /\ lpchan' = lpchan
        /\ streams' = [streams EXCEPT ![k].queue = x]
    BY <1>5 DEF P!SortHigh
  <2>2. m \in Message /\ channel' \in Q /\ lpchan' \in Q
    BY <1>1, <2>1
  <2>3. streams' = [streams EXCEPT ![k] = st]
    BY <2>1
  <2>4. CASE k \in DOMAIN streams
    <3>1. x \in Q
      BY <1>2, <2>2, <2>4
    <3> HIDE DEF x
    <3>2. st \in Stream /\ st.session = streams[k].session
          /\ st.epoch = streams[k].epoch /\ st.open = streams[k].open
      BY <1>1, <2>4, <3>1 DEF Stream, StreamOver
    <3> HIDE DEF st, k
    <3>3. SameStreams(streams, streams')
      BY <1>1, <2>3, <3>2, StreamChanged
    <3> QED
      BY <1>1, <2>2, <3>3, SameNewest DEF PeerSound
  <2>5. CASE k \notin DOMAIN streams
    <3>1. streams' = streams
      BY <1>1, <2>3, <2>5
    <3> QED
      BY <1>1, <2>2, <3>1 DEF PeerSound
  <2> QED
    BY <2>4, <2>5
<1>6. CASE P!SortLow
  <2>1. /\ channel # <<>> /\ channel' = Tail(channel) /\ streams' = streams
        /\ lpchan' = lpchan \/ lpchan' = Append(lpchan, Head(channel))
    BY <1>6 DEF P!SortLow
  <2>2. channel' \in Q /\ lpchan' \in Q
    <3>1. channel \in Q /\ lpchan \in Q
      BY <1>1
    <3>2. Head(channel) \in Message /\ Tail(channel) \in Q
      BY <2>1, <3>1 DEF Q
    <3>3. Append(lpchan, Head(channel)) \in Q
      BY <3>1, <3>2 DEF Q
    <3> QED
      BY <2>1, <3>1, <3>2, <3>3
  <2> QED
    BY <1>1, <2>1, <2>2 DEF PeerSound
<1>7. CASE P!HandleEpochPriority
  <2>1. lpchan # <<>> /\ lpchan' = Tail(lpchan) /\ channel' = channel
    BY <1>7 DEF P!HandleEpochPriority
  <2>2. lpchan' \in Q
    BY <1>1, <2>1
  <2>3. Newest(streams')
    BY <1>1, <1>7, PriorityNewest
  <2> QED
    BY <1>1, <2>1, <2>2, <2>3 DEF PeerSound
<1>8. ASSUME NEW k \in DOMAIN streams, P!Handle(k) PROVE PeerSound'
  <2> DEFINE m == Head(streams[k].queue)
             x == Tail(streams[k].queue)
             y == IF P!Unwanted(m) THEN streams[k].wire ELSE Append(streams[k].wire, m)
             st == [streams[k] EXCEPT !.queue = x, !.wire = y]
  <2>1. /\ streams[k].queue # <<>> /\ lpchan' = lpchan /\ channel' = channel
        /\ streams' = [streams EXCEPT ![k].queue = x, ![k].wire = y]
    BY <1>8 DEF P!Handle
  <2>2. x \in Q /\ y \in Q
    BY <1>2, <2>1
  <2> HIDE DEF x, y
  <2>3. streams' = [streams EXCEPT ![k] = st]
    BY <1>1, <2>1
  <2>4. st \in Stream /\ st.session = streams[k].session
        /\ st.epoch = streams[k].epoch /\ st.open = streams[k].open
    BY <1>1, <2>2 DEF Stream, StreamOver
  <2> HIDE DEF st
  <2>5. SameStreams(streams, streams')
    BY <1>1, <2>3, <2>4, StreamChanged
  <2> QED
    BY <1>1, <2>1, <2>5, SameNewest DEF PeerSound
<1>9. ASSUME NEW k \in DOMAIN streams, P!Receive(k) PROVE PeerSound'
  <2> DEFINE y == Tail(streams[k].wire)
             st == [streams[k] EXCEPT !.wire = y]
  <2>1. /\ streams[k].wire # <<>> /\ lpchan' = lpchan /\ channel' = channel
        /\ streams' = [streams EXCEPT ![k].wire = y]
    BY <1>9 DEF P!Receive
  <2>2. y \in Q
    BY <1>2, <2>1
  <2> HIDE DEF y
  <2>3. streams' = [streams EXCEPT ![k] = st]
    BY <1>1, <2>1
  <2>4. st \in Stream /\ st.session = streams[k].session
        /\ st.epoch = streams[k].epoch /\ st.open = streams[k].open
    BY <1>1, <2>2 DEF Stream, StreamOver
  <2> HIDE DEF st
  <2>5. SameStreams(streams, streams')
    BY <1>1, <2>3, <2>4, StreamChanged
  <2> QED
    BY <1>1, <2>1, <2>5, SameNewest DEF PeerSound
<1>10. CASE \E s \in P!Session : P!AcceptPeer(s)
  BY <1>1, <1>10 DEF P!AcceptPeer, P!sending, PeerSound
<1>11. CASE \E m \in P!Chunk : P!RecvCancel(m.epoch, m.idx)
  BY <1>1, <1>11 DEF P!RecvCancel, P!sending, PeerSound
<1>12. CASE UNCHANGED P!vars
  BY <1>1, <1>12 DEF P!vars, P!sending, PeerSound
<1> QED
  BY <1>4, <1>5, <1>6, <1>7, <1>8, <1>9, <1>10, <1>11, <1>12 DEF P!Next

LEMMA PeerInit ==
  ASSUME P!Init
  PROVE  PeerSound
<1> DEFINE strs == <<P!NewStream("signal", 0), P!NewStream("hp", 0)>>
<1>1. strs \in Seq(Stream)
  <2> DEFINE Q == Seq(Message)
             a == P!NewStream("signal", 0)
             b == P!NewStream("hp", 0)
  <2>1. <<>> \in Q /\ Stream = StreamOver(Q)
    BY DEF Stream
  <2> HIDE DEF Q
  <2>2. a \in StreamOver(Q) /\ b \in StreamOver(Q)
    BY <2>1 DEF P!NewStream, StreamOver, P!Session
  <2> HIDE DEF a, b
  <2> QED
    BY <2>1, <2>2 DEF a, b
<1>2. P!Active(strs) = {} /\ Lp(strs) = {}
  BY DEF P!Active, Lp, P!NewStream
<1>3. streams = strs /\ lpchan = <<>> /\ channel = <<>>
  BY DEF P!Init
<1> HIDE DEF strs
<1>4. Opened(strs) = {} /\ Seen(strs) = {} /\ OnePerEpoch(strs)
  BY <1>2 DEF Opened, Seen, OnePerEpoch
<1>5. Cardinality(P!Active(strs)) = 0
  BY <1>2, FS_EmptySet
<1> QED
  BY <1>1, <1>3, <1>4, <1>5, Carries DEF PeerSound, Newest, Above

(***************************************************************************)
(* Whatever the order in which chunks of epochs come, the streams that are *)
(* open are those of the newest epochs.                                    *)
(***************************************************************************)
THEOREM OldestCloses == P!Spec => []NewestOpen
<1>1. P!Init => PeerSound
  BY PeerInit
<1>2. PeerSound /\ [P!Next]_(P!vars) => PeerSound'
  BY PeerStep
<1>3. PeerSound => NewestOpen
  BY NewestShows DEF PeerSound
<1> QED
  BY <1>1, <1>2, <1>3, PTL DEF P!Spec

-----------------------------------------------------------------------------
(***************************************************************************)
(* The block generator: where a transaction is.                            *)
(***************************************************************************)
SpotsOf(q, bs, L, t) == ({0} \X G!At(q, t)) \cup UNION {{k} \X G!At(bs[k], t) : k \in L}

LEMMA SpotIs ==
  ASSUME NEW q, NEW bs, NEW L, NEW t, NEW z
  PROVE  z \in SpotsOf(q, bs, L, t) <=>
           \/ \E n \in DOMAIN q : z = <<0, n>> /\ q[n] = t
           \/ \E j \in L : \E n \in DOMAIN bs[j] : z = <<j, n>> /\ bs[j][n] = t
<1>1. z \in {0} \X G!At(q, t) <=> \E n \in DOMAIN q : z = <<0, n>> /\ q[n] = t
  BY DEF G!At
<1>2. ASSUME NEW j \in L
      PROVE  z \in {j} \X G!At(bs[j], t) <=> \E n \in DOMAIN bs[j] : z = <<j, n>> /\ bs[j][n] = t
  BY DEF G!At
<1>3. z \in UNION {{k} \X G!At(bs[k], t) : k \in L} <=> \E j \in L : z \in {j} \X G!At(bs[j], t)
  OBVIOUS
<1> QED
  BY <1>1, <1>2, <1>3 DEF SpotsOf

\* A block k, new or not, takes the first of the queue; no other is changed.
Moves(q, bs, L, take, rest, bs2, k) ==
  /\ q \in Seq(Nat) /\ take \in 0..Len(q) /\ L \subseteq Nat \ {0} /\ k \in Nat \ {0}
  /\ \A j \in L : bs[j] \in Seq(Nat)
  /\ rest = SubSeq(q, take + 1, Len(q))
  /\ \A j \in L \ {k} : bs2[j] = bs[j]
  /\ bs2[k] = (IF k \in L THEN bs[k] ELSE <<>>) \o SubSeq(q, 1, take)

LEMMA MovedIs ==
  ASSUME NEW q, NEW bs, NEW L, NEW take, NEW rest, NEW bs2, NEW k,
         Moves(q, bs, L, take, rest, bs2, k)
  PROVE  \E l \in Nat :
           /\ l = Len(IF k \in L THEN bs[k] ELSE <<>>)
           /\ DOMAIN bs2[k] = 1..(l + take) /\ DOMAIN q = 1..Len(q) /\ Len(q) \in Nat
           /\ k \in L => DOMAIN bs[k] = 1..l
           /\ \A n \in 1..l : k \in L /\ bs2[k][n] = bs[k][n]
           /\ \A n \in 1..take : bs2[k][l + n] = q[n]
           /\ DOMAIN rest = 1..(Len(q) - take)
           /\ \A n \in 1..(Len(q) - take) : rest[n] = q[take + n]
<1> DEFINE old == IF k \in L THEN bs[k] ELSE <<>>
           part == SubSeq(q, 1, take)
           l == Len(old)
<1>1. old \in Seq(Nat) /\ q \in Seq(Nat) /\ take \in 0..Len(q) /\ Len(q) \in Nat
  BY DEF Moves
<1>2. part \in Seq(Nat) /\ Len(part) = take /\ \A n \in 1..take : part[n] = q[n]
  BY <1>1
<1>3. DOMAIN q = 1..Len(q) /\ l \in Nat /\ (k \in L => DOMAIN bs[k] = 1..l)
  BY <1>1
<1>4. bs2[k] = old \o part /\ rest = SubSeq(q, take + 1, Len(q))
  BY DEF Moves
<1>5. DOMAIN rest = 1..(Len(q) - take) /\ \A n \in 1..(Len(q) - take) : rest[n] = q[take + n]
  BY <1>1, <1>4
<1>6. \A n \in 1..l : k \in L /\ old[n] = bs[k][n]
  OBVIOUS
<1> HIDE DEF old, part
<1>7. /\ DOMAIN (old \o part) = 1..(l + take)
      /\ \A n \in 1..l : (old \o part)[n] = old[n]
      /\ \A n \in 1..take : (old \o part)[l + n] = part[n]
  <2>0. old \in Seq(Nat) /\ part \in Seq(Nat) /\ Len(part) = take
    BY <1>1, <1>2
  <2>a. /\ old \o part \in Seq(Nat) /\ Len(old \o part) = Len(old) + Len(part)
        /\ \A n \in 1..(Len(old) + Len(part)) :
             (old \o part)[n] = IF n <= Len(old) THEN old[n] ELSE part[n - Len(old)]
    BY <2>0, ConcatProperties
  <2>1. old \o part \in Seq(Nat) /\ Len(old \o part) = l + take
    BY <2>0, <2>a
  <2>2. \A n \in 1..(l + take) : (old \o part)[n] = IF n <= l THEN old[n] ELSE part[n - l]
    BY <2>0, <2>a
  <2>3. ASSUME NEW n \in 1..take PROVE (old \o part)[l + n] = part[n]
    <3>1. l + n \in 1..(l + take) /\ ~(l + n <= l) /\ (l + n) - l = n
      BY <1>1, <1>3
    <3> QED
      BY <2>2, <3>1
  <2>4. \A n \in 1..l : (old \o part)[n] = old[n]
    BY <1>1, <1>3, <2>2
  <2> DEFINE r == old \o part
  <2>5. DOMAIN r = 1..(l + take)
    <3>1. r \in Seq(Nat) /\ Len(r) = l + take
      BY <2>1
    <3> HIDE DEF r
    <3> QED
      BY <3>1
  <2> QED
    BY <2>3, <2>4, <2>5
<1> HIDE DEF l
<1>8. /\ DOMAIN bs2[k] = 1..(l + take)
      /\ \A n \in 1..l : k \in L /\ bs2[k][n] = bs[k][n]
      /\ \A n \in 1..take : bs2[k][l + n] = q[n]
  BY <1>2, <1>4, <1>6, <1>7
<1>9. l = Len(IF k \in L THEN bs[k] ELSE <<>>)
  BY DEF l, old
<1> QED
  BY <1>1, <1>3, <1>5, <1>8, <1>9

Once(S) == \E x : S = {x}

LEMMA MovedOnce ==
  ASSUME NEW q, NEW bs, NEW L, NEW take, NEW rest, NEW bs2, NEW k, NEW t,
         Moves(q, bs, L, take, rest, bs2, k), Once(SpotsOf(q, bs, L, t))
  PROVE  Once(SpotsOf(rest, bs2, L \cup {k}, t))
<1> DEFINE A == SpotsOf(q, bs, L, t)
           B == SpotsOf(rest, bs2, L \cup {k}, t)
<1>1. PICK l \in Nat :
           /\ l = Len(IF k \in L THEN bs[k] ELSE <<>>)
           /\ DOMAIN bs2[k] = 1..(l + take) /\ DOMAIN q = 1..Len(q) /\ Len(q) \in Nat
           /\ k \in L => DOMAIN bs[k] = 1..l
           /\ \A n \in 1..l : k \in L /\ bs2[k][n] = bs[k][n]
           /\ \A n \in 1..take : bs2[k][l + n] = q[n]
           /\ DOMAIN rest = 1..(Len(q) - take)
           /\ \A n \in 1..(Len(q) - take) : rest[n] = q[take + n]
  BY MovedIs
<1>2. /\ take \in 0..Len(q) /\ L \subseteq Nat \ {0} /\ k \in Nat \ {0} /\ Len(q) \in Nat
      /\ \A j \in L \ {k} : bs2[j] = bs[j]
  BY <1>1 DEF Moves
<1>3. ASSUME NEW z
      PROVE  z \in A <=>
           \/ \E n \in DOMAIN q : z = <<0, n>> /\ q[n] = t
           \/ \E j \in L : \E n \in DOMAIN bs[j] : z = <<j, n>> /\ bs[j][n] = t
  <2> DEFINE M1 == L
  <2>1. z \in SpotsOf(q, bs, M1, t) <=>
           \/ \E n \in DOMAIN q : z = <<0, n>> /\ q[n] = t
           \/ \E j \in M1 : \E n \in DOMAIN bs[j] : z = <<j, n>> /\ bs[j][n] = t
    <3> HIDE DEF M1
    <3> QED
      BY SpotIs
  <2> QED
    BY <2>1
<1> DEFINE M2 == L \cup {k}
<1>4. ASSUME NEW z
      PROVE  z \in B <=>
           \/ \E n \in DOMAIN rest : z = <<0, n>> /\ rest[n] = t
           \/ \E j \in M2 : \E n \in DOMAIN bs2[j] : z = <<j, n>> /\ bs2[j][n] = t
  <2>1. z \in SpotsOf(rest, bs2, M2, t) <=>
           \/ \E n \in DOMAIN rest : z = <<0, n>> /\ rest[n] = t
           \/ \E j \in M2 : \E n \in DOMAIN bs2[j] : z = <<j, n>> /\ bs2[j][n] = t
    <3> HIDE DEF M2
    <3> QED
      BY SpotIs
  <2> QED
    BY <2>1
<1> HIDE DEF A, B
<1>5. PICK x : A = {x}
  BY DEF A, Once
\* Where it was before.
<1>6. ASSUME NEW z \in B
      PROVE  \/ \E n \in 1..(Len(q) - take) : z = <<0, n>> /\ x = <<0, take + n>>
             \/ \E n \in 1..take : z = <<k, l + n>> /\ x = <<0, n>>
             \/ \E j \in L, n \in Nat : z = <<j, n>> /\ x = z /\ (j = k => n <= l)
  <2>1. CASE \E n \in DOMAIN rest : z = <<0, n>> /\ rest[n] = t
    <3>1. PICK n \in 1..(Len(q) - take) : z = <<0, n>> /\ rest[n] = t
      BY <1>1, <2>1
    <3>2. take + n \in DOMAIN q /\ q[take + n] = t
      BY <1>1, <1>2, <3>1
    <3>3. <<0, take + n>> \in A
      BY <1>3, <3>2
    <3> QED
      BY <1>5, <3>1, <3>3
  <2>2. CASE \E j \in L \cup {k} : \E n \in DOMAIN bs2[j] : z = <<j, n>> /\ bs2[j][n] = t
    <3>1. PICK j \in L \cup {k} : \E n \in DOMAIN bs2[j] : z = <<j, n>> /\ bs2[j][n] = t
      BY <2>2
    <3>2. PICK n \in DOMAIN bs2[j] : z = <<j, n>> /\ bs2[j][n] = t
      BY <3>1
    <3>3. CASE j # k
      <4>1. j \in L /\ bs2[j] = bs[j]
        BY <1>2, <3>1, <3>3
      <4>2. z \in A
        BY <1>3, <3>2, <4>1
      <4>3. n \in Nat
        <5>1. bs[j] \in Seq(Nat)
          BY <4>1 DEF Moves
        <5> QED
          BY <3>2, <4>1, <5>1
      <4> QED
        BY <1>5, <3>2, <3>3, <4>1, <4>2, <4>3
    <3>4. CASE j = k
      <4>1. n \in 1..(l + take)
        BY <1>1, <3>2, <3>4
      <4>2. CASE n <= l
        <5>1. n \in 1..l /\ k \in L /\ bs[k][n] = t /\ n \in DOMAIN bs[k]
          BY <1>1, <3>2, <3>4, <4>1, <4>2
        <5>2. z \in A
          BY <1>3, <3>2, <3>4, <5>1
        <5> QED
          BY <1>5, <3>2, <3>4, <4>2, <5>1, <5>2
      <4>3. CASE ~(n <= l)
        <5>1. n - l \in 1..take /\ l + (n - l) = n
          BY <1>1, <1>2, <4>1, <4>3
        <5>2. q[n - l] = t
          BY <1>1, <3>2, <3>4, <5>1
        <5>3. n - l \in DOMAIN q
          BY <1>1, <1>2, <5>1
        <5>4. <<0, n - l>> \in A
          BY <1>3, <5>2, <5>3
        <5> QED
          BY <1>5, <3>2, <3>4, <5>1, <5>4
      <4> QED
        BY <4>2, <4>3
    <3> QED
      BY <3>3, <3>4
  <2> QED
    BY <1>4, <2>1, <2>2
<1>7. ASSUME NEW y \in B, NEW z \in B
      PROVE  y = z
  <2>1. CASE \E n \in 1..(Len(q) - take) : y = <<0, n>> /\ x = <<0, take + n>>
    <3>1. PICK n \in 1..(Len(q) - take) : y = <<0, n>> /\ x = <<0, take + n>>
      BY <2>1
    <3>2. ASSUME NEW i \in 1..(Len(q) - take), z = <<0, i>>, x = <<0, take + i>>
          PROVE  y = z
      <4>1. take + i = take + n
        BY <3>1, <3>2
      <4>2. i = n
        BY <1>2, <4>1
      <4> QED
        BY <3>1, <3>2, <4>2
    <3>3. ASSUME NEW i \in 1..take, x = <<0, i>> PROVE FALSE
      <4>1. i = take + n
        BY <3>1, <3>3
      <4> QED
        BY <1>2, <4>1
    <3>4. ASSUME NEW j \in L, NEW i, x = <<j, i>> PROVE FALSE
      <4>1. j = 0
        BY <3>1, <3>4
      <4> QED
        BY <1>2, <4>1
    <3> QED
      BY <1>6, <3>2, <3>3, <3>4
  <2>2. CASE \E n \in 1..take : y = <<k, l + n>> /\ x = <<0, n>>
    <3>1. PICK n \in 1..take : y = <<k, l + n>> /\ x = <<0, n>>
      BY <2>2
    <3>2. ASSUME NEW i \in 1..(Len(q) - take), z = <<0, i>>, x = <<0, take + i>>
          PROVE  FALSE
      <4>1. take + i = n
        BY <3>1, <3>2
      <4> QED
        BY <1>2, <4>1
    <3>3. ASSUME NEW i \in 1..take, z = <<k, l + i>>, x = <<0, i>> PROVE y = z
      <4>1. i = n
        BY <3>1, <3>3
      <4> QED
        BY <3>1, <3>3, <4>1
    <3>4. ASSUME NEW j \in L, NEW i, x = <<j, i>> PROVE FALSE
      <4>1. j = 0
        BY <3>1, <3>4
      <4> QED
        BY <1>2, <4>1
    <3> QED
      BY <1>6, <3>2, <3>3, <3>4
  <2>3. CASE \E j \in L, n \in Nat : y = <<j, n>> /\ x = y /\ (j = k => n <= l)
    <3>1. PICK j \in L, n \in Nat : y = <<j, n>> /\ x = y
      BY <2>3
    <3>2. ASSUME NEW i, x = <<0, i>> PROVE FALSE
      <4>1. j = 0
        BY <3>1, <3>2
      <4> QED
        BY <1>2, <4>1
    <3> QED
      BY <1>6, <3>1, <3>2
  <2> QED
    BY <1>6, <2>1, <2>2, <2>3
<1>8. B # {}
  <2>1. x \in A
    BY <1>5
  <2>2. CASE \E n \in DOMAIN q : x = <<0, n>> /\ q[n] = t
    <3>1. PICK n \in DOMAIN q : q[n] = t
      BY <2>2
    <3>2. CASE n <= take
      <4>0. n \in 1..take
        BY <1>1, <1>2, <3>1, <3>2
      <4>1. bs2[k][l + n] = t /\ l + n \in DOMAIN bs2[k]
        <5>1. bs2[k][l + n] = q[n]
          BY <1>1, <4>0
        <5>2. l + n \in 1..(l + take)
          BY <1>1, <1>2, <4>0
        <5> QED
          BY <1>1, <3>1, <5>1, <5>2
      <4>2. <<k, l + n>> \in B
        BY <1>4, <4>1
      <4> QED
        BY <4>2
    <3>3. CASE ~(n <= take)
      <4>1. n - take \in 1..(Len(q) - take) /\ take + (n - take) = n
        BY <1>1, <1>2, <3>1, <3>3
      <4>2. rest[n - take] = t /\ n - take \in DOMAIN rest
        BY <1>1, <3>1, <4>1
      <4>3. <<0, n - take>> \in B
        BY <1>4, <4>2
      <4> QED
        BY <4>3
    <3> QED
      BY <3>2, <3>3
  <2>3. CASE \E j \in L : \E n \in DOMAIN bs[j] : x = <<j, n>> /\ bs[j][n] = t
    <3>1. PICK j \in L : \E n \in DOMAIN bs[j] : bs[j][n] = t
      BY <2>3
    <3>2. PICK n \in DOMAIN bs[j] : bs[j][n] = t
      BY <3>1
    <3>3. n \in DOMAIN bs2[j] /\ bs2[j][n] = t
      <4>1. CASE j # k
        BY <1>2, <3>2, <4>1
      <4>2. CASE j = k
        <5>1. n \in 1..l
          BY <1>1, <3>2, <4>2
        <5>2. n \in 1..(l + take)
          BY <1>1, <1>2, <5>1
        <5> QED
          BY <1>1, <3>2, <4>2, <5>1, <5>2
      <4> QED
        BY <4>1, <4>2
    <3>4. <<j, n>> \in B
      BY <1>4, <3>3
    <3> QED
      BY <3>4
  <2> QED
    BY <1>3, <2>1, <2>2, <2>3
<1>9. PICK y : y \in B
  BY <1>8
<1>10. B = {y}
  BY <1>7, <1>9
<1> QED
  BY <1>10 DEF B, Once

(***************************************************************************)
(* What the block generator keeps.                                         *)
(***************************************************************************)
GenTyped ==
  /\ config \in Config
  /\ inserted \in Nat /\ queue \in Seq(1..inserted)
  /\ blocks \in Seq(Seq(1..inserted)) /\ \A k \in DOMAIN blocks : Len(blocks[k]) <= BlockTxs
  /\ payload \in Seq(DOMAIN blocks)
  /\ sent \in Seq(Seq(Nat)) /\ Len(sent) = Len(payload)
  /\ output \in [0..maxEpoch -> {{}, {TRUE}, {FALSE}}] /\ firstUnoutput \in Nat

\* Under the flags that repeat every rejected block an epoch is started, without
\* references, when the BAs of the one before have ended.
Decided ==
  G!Reproposes /\ ~config.chained =>
    \A e \in 0..maxEpoch : e + 1 < Len(payload) => output[e] # {}

\* Under all flags a block is proposed again only when it has been rejected.
GenOrder ==
  /\ Len(payload) <= maxEpoch + 1
  /\ \A e \in 0..maxEpoch : e < firstUnoutput => output[e] # {}
  /\ Decided
  /\ config.infBacklog => inserted = 0
  /\ \A d, e \in DOMAIN payload :
       d < e /\ payload[d] = payload[e] => ~config.chained /\ output[d - 1] = {FALSE}

Single == G!Reproposes => \A t \in 1..inserted : Once(G!Spots(t))

GenSound == GenTyped /\ GenOrder

LEMMA FlagsAre ==
  ASSUME NEW c \in Config
  PROVE  /\ c.chained \in BOOLEAN /\ c.coupledValidity \in BOOLEAN /\ c.infBacklog \in BOOLEAN
         /\ c.pipeline \in Nat /\ c.parallelism \in Nat
  BY Generates

LEMMA MinIs ==
  ASSUME NEW m \in Nat, NEW n \in Nat
  PROVE  G!Min({m, n}) \in 0..n /\ G!Min({m, n}) <= m
<1>1. \E x \in {m, n} : \A y \in {m, n} : x <= y
  OBVIOUS
<1>2. G!Min({m, n}) \in {m, n} /\ \A y \in {m, n} : G!Min({m, n}) <= y
  BY <1>1 DEF G!Min
<1> QED
  BY <1>2

NewBlock(take) ==
  /\ take \in 0..Len(queue) /\ take <= BlockTxs
  /\ \/ ~G!Reproposes \/ config.chained \/ config.infBacklog \/ Len(payload) = 0
     \/ output[Len(payload) - 1] # {FALSE}
  /\ blocks' = Append(blocks, SubSeq(queue, 1, take))
  /\ payload' = Append(payload, Len(blocks) + 1)
  /\ sent' = Append(sent, SubSeq(queue, 1, take))
  /\ queue' = SubSeq(queue, take + 1, Len(queue))

Filled(k, take) ==
  /\ take \in 0..Len(queue) /\ Len(blocks[k]) + take <= BlockTxs
  /\ Len(payload) # 0 /\ k = payload[Len(payload)]
  /\ ~config.chained /\ output[Len(payload) - 1] = {FALSE}
  /\ blocks' = [blocks EXCEPT ![k] = @ \o SubSeq(queue, 1, take)]
  /\ payload' = Append(payload, k)
  /\ sent' = Append(sent, blocks[k] \o SubSeq(queue, 1, take))
  /\ queue' = SubSeq(queue, take + 1, Len(queue))

LEMMA TakeIs ==
  ASSUME GenTyped, G!TakeBlock(Len(payload)),
         \/ config.chained \/ config.infBacklog \/ Len(payload) = 0
         \/ output[Len(payload) - 1] # {FALSE}
  PROVE  \E take : NewBlock(take)
<1> DEFINE n == Len(queue)
<1>1. /\ queue \in Seq(1..inserted) /\ n \in Nat /\ BlockTxs \in Nat /\ Len(blocks) \in Nat
      /\ config.infBacklog \in BOOLEAN
  BY Generates, FlagsAre DEF GenTyped
<1>2. CASE config.infBacklog
  <2>1. /\ blocks' = Append(blocks, <<>>) /\ payload' = Append(payload, Len(blocks) + 1)
        /\ sent' = Append(sent, Append(blocks, <<>>)[Len(blocks) + 1]) /\ queue' = queue
    BY <1>2 DEF G!TakeBlock, G!Propose
  <2>2. SubSeq(queue, 1, 0) = <<>> /\ SubSeq(queue, 0 + 1, Len(queue)) = queue
    BY <1>1
  <2>3. Append(blocks, <<>>)[Len(blocks) + 1] = <<>>
    BY <1>1 DEF GenTyped
  <2>4. 0 \in 0..Len(queue) /\ 0 <= BlockTxs
    BY <1>1
  <2>5. NewBlock(0)
    BY <1>2, <2>1, <2>2, <2>3, <2>4 DEF NewBlock
  <2> QED
    BY <2>5
<1>3. CASE ~config.infBacklog
  <2> DEFINE take == G!Min({BlockTxs, Len(queue)})
             part == SubSeq(queue, 1, take)
  <2>1. take \in 0..Len(queue) /\ take <= BlockTxs
    BY <1>1, MinIs
  <2> DEFINE d == G!Dequeue(BlockTxs)
  <2>2. d[1] = part /\ d[2] = SubSeq(queue, take + 1, Len(queue))
    BY DEF G!Dequeue
  <2>7. G!Propose(Len(payload), Append(blocks, d[1]), Len(blocks) + 1, d[2])
    BY <1>3 DEF G!TakeBlock
  <2> HIDE DEF take, part, d
  <2>3. /\ blocks' = Append(blocks, part) /\ payload' = Append(payload, Len(blocks) + 1)
        /\ sent' = Append(sent, Append(blocks, part)[Len(blocks) + 1])
        /\ queue' = SubSeq(queue, take + 1, Len(queue))
    BY <2>2, <2>7 DEF G!Propose
  <2>4. Append(blocks, part)[Len(blocks) + 1] = part
    BY <1>1 DEF GenTyped
  <2>5. part = SubSeq(queue, 1, take)
    BY DEF part
  <2>6. NewBlock(take)
    BY <2>1, <2>3, <2>4, <2>5 DEF NewBlock
  <2> QED
    BY <2>6
<1> QED
  BY <1>1, <1>2, <1>3

\* The output that an epoch needs to be started is there.
Timely ==
  G!Reproposes /\ ~config.chained => Len(payload) = 0 \/ output[Len(payload) - 1] # {}

LEMMA InitNextIs ==
  ASSUME GenSound, G!InitNextEpoch
  PROVE  /\ Len(payload) <= maxEpoch /\ Timely
         /\ (\E take : NewBlock(take)) \/ (\E k, take : Filled(k, take))
<1> DEFINE e == Len(payload)
<1>1. /\ queue \in Seq(1..inserted) /\ Len(queue) \in Nat /\ BlockTxs \in Nat /\ e \in Nat
      /\ Len(blocks) \in Nat /\ maxEpoch \in Nat /\ firstUnoutput \in Nat
      /\ config.chained \in BOOLEAN /\ config.coupledValidity \in BOOLEAN
      /\ config.infBacklog \in BOOLEAN /\ config.pipeline \in Nat
  BY Generates, FlagsAre DEF GenSound, GenTyped
<1>2. /\ G!CanInitNext(e) /\ ~G!Overtakes(e)
      /\ IF G!MustBeEmpty(e) THEN G!EmptyBlock(e)
         ELSE IF ~config.chained /\ G!Rejected(e) THEN G!FillBlock(e)
         ELSE G!TakeBlock(e)
  BY DEF G!InitNextEpoch, G!firstUninited
<1>3. /\ e <= maxEpoch
      /\ e = 0 \/ config.pipeline = 0 \/ e - firstUnoutput < config.pipeline
  <2>1. CASE e = 0
    BY <1>1, <2>1
  <2>2. CASE e # 0
    BY <1>2, <2>2 DEF G!CanInitNext
  <2> QED
    BY <2>1, <2>2
<1>5. G!MustBeEmpty(e) => ~G!Reproposes \/ config.chained
  <2>1. SUFFICES ASSUME config.coupledValidity, ~G!NonEmpty(e), config.pipeline \in 1..3
                 PROVE  FALSE
    BY <1>1 DEF G!MustBeEmpty, G!Reproposes
  <2>2. e # 0 /\ ~(e - firstUnoutput <= 2)
    BY <2>1 DEF G!NonEmpty
  <2> HIDE DEF e
  <2> QED
    BY <1>1, <1>3, <2>1, <2>2
<1>6. Timely
  BY <1>2, <1>5 DEF Timely, G!Overtakes
<1>4. (\E take : NewBlock(take)) \/ (\E k, take : Filled(k, take))
  <2>1. CASE G!MustBeEmpty(e)
    <3>1. ~G!Reproposes \/ config.chained
      BY <1>5, <2>1
    <3>2. /\ blocks' = Append(blocks, <<>>) /\ payload' = Append(payload, Len(blocks) + 1)
          /\ sent' = Append(sent, Append(blocks, <<>>)[Len(blocks) + 1]) /\ queue' = queue
      BY <1>2, <2>1 DEF G!EmptyBlock, G!Propose
    <3>3. SubSeq(queue, 1, 0) = <<>> /\ SubSeq(queue, 0 + 1, Len(queue)) = queue
      BY <1>1
    <3>4. Append(blocks, <<>>)[Len(blocks) + 1] = <<>>
      BY <1>1 DEF GenSound, GenTyped
    <3>5. 0 \in 0..Len(queue) /\ 0 <= BlockTxs
      BY <1>1
    <3>6. NewBlock(0)
      BY <3>1, <3>2, <3>3, <3>4, <3>5 DEF NewBlock
    <3> QED
      BY <3>6
  <2>2. CASE ~G!MustBeEmpty(e)
    <3>1. CASE ~config.chained /\ G!Rejected(e)
      <4>1. G!FillBlock(e) /\ e # 0 /\ output[e - 1] = {FALSE}
        BY <1>2, <2>2, <3>1 DEF G!Rejected
      <4>2. CASE config.infBacklog
        <5>1. G!TakeBlock(e)
          BY <4>1, <4>2 DEF G!FillBlock
        <5> QED
          BY <4>2, <5>1, TakeIs DEF GenSound
      <4>3. CASE ~config.infBacklog
        <5> DEFINE k == payload[Len(payload)]
                   room == BlockTxs - Len(blocks[k])
                   take == G!Min({room, Len(queue)})
                   part == SubSeq(queue, 1, take)
        <5>1. k = G!ObjectOf(e - 1) /\ k \in DOMAIN blocks
          <6>1. e \in DOMAIN payload /\ (e - 1) + 1 = e
            BY <1>1, <4>1 DEF GenSound, GenTyped
          <6> QED
            BY <6>1 DEF GenSound, GenTyped, G!ObjectOf
        <5> HIDE DEF k
        <5>2. blocks[k] \in Seq(1..inserted) /\ Len(blocks[k]) <= BlockTxs
          BY <5>1 DEF GenSound, GenTyped
        <5>3. room \in Nat
          BY <1>1, <5>2
        <5>4. take \in 0..Len(queue) /\ take <= room
          <6> HIDE DEF room
          <6> QED
            BY <1>1, <5>3, MinIs
        <5>5. Len(blocks[k]) + take <= BlockTxs
          <6>1. Len(blocks[k]) \in Nat
            BY <5>2
          <6> HIDE DEF take
          <6> QED
            BY <1>1, <5>4, <6>1
        <5> DEFINE d == G!Dequeue(room)
        <5>6. d[1] = part /\ d[2] = SubSeq(queue, take + 1, Len(queue))
          BY DEF G!Dequeue
        <5>11. G!Propose(e, [blocks EXCEPT ![k] = @ \o d[1]], k, d[2])
          BY <4>1, <4>3, <5>1 DEF G!FillBlock
        <5> HIDE DEF take, part, d
        <5>7. /\ blocks' = [blocks EXCEPT ![k] = @ \o part]
              /\ payload' = Append(payload, k)
              /\ sent' = Append(sent, [blocks EXCEPT ![k] = @ \o part][k])
              /\ queue' = SubSeq(queue, take + 1, Len(queue))
          BY <5>6, <5>11 DEF G!Propose
        <5>8. [blocks EXCEPT ![k] = @ \o part][k] = blocks[k] \o part
          BY <5>1
        <5>9. part = SubSeq(queue, 1, take) /\ k = payload[Len(payload)]
          BY DEF part, k
        <5>10. Filled(k, take)
          BY <3>1, <4>1, <5>4, <5>5, <5>7, <5>8, <5>9 DEF Filled
        <5> QED
          BY <5>10
      <4> QED
        BY <4>2, <4>3
    <3>2. CASE ~(~config.chained /\ G!Rejected(e))
      <4>1. G!TakeBlock(e)
        BY <1>2, <2>2, <3>2
      <4>2. \/ config.chained \/ config.infBacklog \/ Len(payload) = 0
            \/ output[Len(payload) - 1] # {FALSE}
        BY <1>1, <3>2 DEF G!Rejected
      <4> QED
        BY <4>1, <4>2, TakeIs DEF GenSound
    <3> QED
      BY <3>1, <3>2
  <2> QED
    BY <2>1, <2>2
<1> QED
  BY <1>3, <1>4, <1>6

(***************************************************************************)
(* Which blocks may still be confirmed.                                    *)
(***************************************************************************)
LiveOf(c, p, o) ==
  {p[e + 1] : e \in {e \in 0..(Len(p) - 1) : c.chained \/ o[e] # {FALSE} \/ e = Len(p) - 1}}

Holding(c, p, o, e) == c.chained \/ o[e - 1] # {FALSE} \/ e = Len(p)

LEMMA LiveIs ==
  ASSUME NEW c, NEW p, NEW o, NEW z, Len(p) \in Nat
  PROVE  z \in LiveOf(c, p, o) <=> \E e \in 1..Len(p) : z = p[e] /\ Holding(c, p, o, e)
<1>1. Len(p) \in Nat
  OBVIOUS
<1>2. ASSUME z \in LiveOf(c, p, o)
      PROVE  \E e \in 1..Len(p) : z = p[e] /\ Holding(c, p, o, e)
  <2>1. PICK e \in 0..(Len(p) - 1) :
          z = p[e + 1] /\ (c.chained \/ o[e] # {FALSE} \/ e = Len(p) - 1)
    BY <1>2 DEF LiveOf
  <2>2. e + 1 \in 1..Len(p) /\ (e + 1) - 1 = e /\ (e = Len(p) - 1 => e + 1 = Len(p))
    BY <1>1
  <2> QED
    BY <2>1, <2>2 DEF Holding
<1>3. ASSUME NEW e \in 1..Len(p), z = p[e], Holding(c, p, o, e)
      PROVE  z \in LiveOf(c, p, o)
  <2>1. e - 1 \in 0..(Len(p) - 1) /\ (e - 1) + 1 = e /\ (e = Len(p) => e - 1 = Len(p) - 1)
    BY <1>1
  <2> QED
    BY <1>3, <2>1 DEF LiveOf, Holding
<1> QED
  BY <1>2, <1>3

\* A new epoch: its block is live, and the block before it is the same or lives on.
Follows(c, p, o, k) == c.chained \/ Len(p) = 0 \/ o[Len(p) - 1] # {FALSE} \/ k = p[Len(p)]

LEMMA LiveGrows ==
  ASSUME NEW c, NEW p, NEW o, NEW k \in Nat, p \in Seq(Nat), Follows(c, p, o, k)
  PROVE  LiveOf(c, Append(p, k), o) = LiveOf(c, p, o) \cup {k}
<1> DEFINE r == Append(p, k)
<1>1. r \in Seq(Nat) /\ Len(r) = Len(p) + 1 /\ Len(p) \in Nat /\ r[Len(p) + 1] = k
      /\ \A e \in 1..Len(p) : r[e] = p[e]
  OBVIOUS
<1> HIDE DEF r
<1> SUFFICES ASSUME NEW z
             PROVE  z \in LiveOf(c, r, o) <=> z \in LiveOf(c, p, o) \cup {k}
  BY DEF r
<1>2. z \in LiveOf(c, r, o) <=>
        \E e \in 1..Len(r) : z = r[e] /\ Holding(c, r, o, e)
  BY <1>1, LiveIs
<1>3. z \in LiveOf(c, p, o) <=>
        \E e \in 1..Len(p) : z = p[e] /\ Holding(c, p, o, e)
  BY <1>1, LiveIs
<1>4. ASSUME NEW e \in 1..Len(r), z = r[e], Holding(c, r, o, e)
      PROVE  z \in LiveOf(c, p, o) \cup {k}
  <2>1. CASE e = Len(p) + 1
    BY <1>1, <1>4, <2>1
  <2>2. CASE e # Len(p) + 1
    <3>1. e \in 1..Len(p) /\ e # Len(r)
      BY <1>1, <2>2
    <3> QED
      BY <1>1, <1>3, <1>4, <3>1 DEF Holding
  <2> QED
    BY <2>1, <2>2
<1>5. ASSUME NEW e \in 1..Len(p), z = p[e], Holding(c, p, o, e)
      PROVE  z \in LiveOf(c, r, o)
  <2>1. e \in 1..Len(r) /\ r[e] = p[e]
    BY <1>1
  <2>2. CASE c.chained \/ o[e - 1] # {FALSE}
    BY <1>2, <1>5, <2>1, <2>2 DEF Holding
  <2>3. CASE ~(c.chained \/ o[e - 1] # {FALSE})
    <3>0. e = Len(p) /\ ~c.chained /\ ~(o[e - 1] # {FALSE})
      BY <1>5, <2>3 DEF Holding
    <3>1. Len(p) # 0 /\ k = p[Len(p)]
      <4>1. Len(p) # 0
        BY <1>1
      <4>2. o[Len(p) - 1] = {FALSE}
        BY <3>0
      <4> QED
        BY <3>0, <4>1, <4>2, Zenon DEF Follows
    <3>2. z = r[Len(r)] /\ Len(r) \in 1..Len(r)
      BY <1>1, <1>5, <3>0, <3>1
    <3> QED
      BY <1>2, <3>2 DEF Holding
  <2> QED
    BY <2>2, <2>3
<1>6. k \in LiveOf(c, r, o)
  <2>1. Len(r) \in 1..Len(r) /\ r[Len(r)] = k
    BY <1>1
  <2>2. k \in LiveOf(c, r, o) <=>
          \E e \in 1..Len(r) : k = r[e] /\ Holding(c, r, o, e)
    BY <1>1, LiveIs
  <2> QED
    BY <2>1, <2>2 DEF Holding
<1> QED
  BY <1>2, <1>3, <1>4, <1>5, <1>6

\* The end of a BA: without references nothing is rejected but the last block.
LEMMA LiveOutput ==
  ASSUME NEW c, NEW p, NEW o, NEW o2, p \in Seq(Nat), NEW e \in Nat, NEW b,
         \A d \in Nat : d # e => o2[d] = o[d], o[e] = {},
         c.chained \/ Len(p) <= e + 1
  PROVE  LiveOf(c, p, o2) = LiveOf(c, p, o)
<1> SUFFICES ASSUME NEW z
             PROVE  z \in LiveOf(c, p, o2) <=> z \in LiveOf(c, p, o)
  OBVIOUS
<1>0. Len(p) \in Nat
  OBVIOUS
<1>1. z \in LiveOf(c, p, o2) <=>
        \E d \in 1..Len(p) : z = p[d] /\ Holding(c, p, o2, d)
  BY <1>0, LiveIs
<1>2. z \in LiveOf(c, p, o) <=>
        \E d \in 1..Len(p) : z = p[d] /\ Holding(c, p, o, d)
  BY <1>0, LiveIs
<1>3. ASSUME NEW d \in 1..Len(p)
      PROVE  Holding(c, p, o2, d)
               <=> Holding(c, p, o, d)
  <2>1. CASE d - 1 # e
    <3>1. d - 1 \in Nat
      BY <1>0
    <3>2. o2[d - 1] = o[d - 1]
      BY <2>1, <3>1
    <3> QED
      BY <3>2 DEF Holding
  <2>2. CASE d - 1 = e
    <3>1. Len(p) \in Nat /\ d = e + 1
      BY <2>2
    <3>2. c.chained \/ d = Len(p)
      BY <3>1
    <3> QED
      BY <3>2 DEF Holding
  <2> QED
    BY <2>1, <2>2
<1> QED
  BY <1>1, <1>2, <1>3

LEMMA SpotsAre ==
  \A t : G!Spots(t) = SpotsOf(queue, blocks, LiveOf(config, payload, output), t)
  BY DEF G!Spots, SpotsOf, G!Live, LiveOf, G!ObjectOf, G!firstUninited

LEMMA LiveBlocks ==
  ASSUME GenTyped, NEW k \in LiveOf(config, payload, output)
  PROVE  k \in DOMAIN blocks
<1>1. payload \in Seq(Nat) /\ DOMAIN payload = 1..Len(payload)
  <2>1. DOMAIN blocks \subseteq Nat
    BY DEF GenTyped
  <2> QED
    BY <2>1 DEF GenTyped
<1>2. PICK e \in 1..Len(payload) : k = payload[e]
  BY <1>1, LiveIs
<1> QED
  BY <1>1, <1>2 DEF GenTyped

LEMMA Parting ==
  ASSUME NEW X, NEW q \in Seq(X), NEW take \in 0..Len(q)
  PROVE  /\ SubSeq(q, 1, take) \in Seq(X) /\ Len(SubSeq(q, 1, take)) = take
         /\ SubSeq(q, take + 1, Len(q)) \in Seq(X)
  OBVIOUS

LEMMA Adding ==
  ASSUME NEW X, NEW bs \in Seq(X), NEW b \in X
  PROVE  /\ Append(bs, b) \in Seq(X) /\ DOMAIN bs = 1..Len(bs) /\ Len(bs) \in Nat
         /\ DOMAIN Append(bs, b) = 1..(Len(bs) + 1)
         /\ Append(bs, b)[Len(bs) + 1] = b
         /\ \A j \in DOMAIN bs : Append(bs, b)[j] = bs[j]
<1> DEFINE r == Append(bs, b)
<1>1. r \in Seq(X) /\ Len(r) = Len(bs) + 1 /\ DOMAIN bs = 1..Len(bs) /\ Len(bs) \in Nat
  OBVIOUS
<1>2. r[Len(bs) + 1] = b /\ \A j \in DOMAIN bs : r[j] = bs[j]
  OBVIOUS
<1> HIDE DEF r
<1>3. DOMAIN r = 1..(Len(bs) + 1)
  BY <1>1
<1> QED
  BY <1>1, <1>2, <1>3 DEF r

LEMMA Wider ==
  ASSUME NEW X, NEW Y, X \subseteq Y, NEW s \in Seq(X)
  PROVE  s \in Seq(Y)
  OBVIOUS

LEMMA LivesAre ==
  ASSUME GenTyped
  PROVE  /\ LiveOf(config, payload, output) \subseteq Nat \ {0}
         /\ LiveOf(config, payload, output) \subseteq DOMAIN blocks
         /\ queue \in Seq(Nat) /\ payload \in Seq(Nat) /\ Len(blocks) \in Nat
         /\ DOMAIN blocks = 1..Len(blocks) /\ Len(payload) \in Nat
         /\ DOMAIN payload = 1..Len(payload)
         /\ \A j \in DOMAIN blocks : blocks[j] \in Seq(Nat) /\ blocks[j] \in Seq(1..inserted)
<1>1. DOMAIN blocks = 1..Len(blocks) /\ Len(blocks) \in Nat
  BY DEF GenTyped
<1>2. payload \in Seq(Nat)
  <2>1. DOMAIN blocks \subseteq Nat
    BY <1>1
  <2> QED
    BY <2>1 DEF GenTyped
<1>3. LiveOf(config, payload, output) \subseteq DOMAIN blocks
  BY LiveBlocks
<1>4. \A j \in DOMAIN blocks : blocks[j] \in Seq(1..inserted)
  BY DEF GenTyped
<1>5. \A s \in Seq(1..inserted) : s \in Seq(Nat)
  BY DEF GenTyped
<1>6. Len(payload) \in Nat /\ DOMAIN payload = 1..Len(payload)
  BY <1>2
<1>7. queue \in Seq(Nat)
  BY <1>5 DEF GenTyped
<1> QED
  BY <1>1, <1>2, <1>3, <1>4, <1>5, <1>6, <1>7

\* A block of the same object as an earlier one: it was rejected.
Again(c, p, o) ==
  \A d, e \in DOMAIN p : d < e /\ p[d] = p[e] => ~c.chained /\ o[d - 1] = {FALSE}

LEMMA AgainAppend ==
  ASSUME NEW c, NEW p \in Seq(Nat), NEW o, NEW k, Again(c, p, o),
         \A d \in DOMAIN p : p[d] = k => ~c.chained /\ o[d - 1] = {FALSE}
  PROVE  Again(c, Append(p, k), o)
<1> DEFINE r == Append(p, k)
<1>1. /\ DOMAIN r = 1..(Len(p) + 1) /\ Len(p) \in Nat /\ DOMAIN p = 1..Len(p)
      /\ r[Len(p) + 1] = k /\ \A e \in 1..Len(p) : r[e] = p[e]
  OBVIOUS
<1> HIDE DEF r
<1>2. ASSUME NEW d \in DOMAIN r, NEW e \in DOMAIN r, d < e, r[d] = r[e]
      PROVE  ~c.chained /\ o[d - 1] = {FALSE}
  <2>1. d \in DOMAIN p /\ r[d] = p[d]
    BY <1>1, <1>2
  <2>2. CASE e = Len(p) + 1
    BY <1>1, <1>2, <2>1, <2>2
  <2>3. CASE e # Len(p) + 1
    <3>1. e \in DOMAIN p /\ r[e] = p[e]
      BY <1>1, <2>3
    <3> QED
      BY <1>2, <2>1, <3>1 DEF Again
  <2> QED
    BY <2>2, <2>3
<1> QED
  BY <1>2 DEF r, Again

\* The rest of what GenOrder says.
Paced ==
  /\ Len(payload) <= maxEpoch + 1
  /\ \A e \in 0..maxEpoch : e < firstUnoutput => output[e] # {}
  /\ Decided
  /\ config.infBacklog => inserted = 0

LEMMA DecidedGrows ==
  ASSUME GenSound, Timely, Len(payload) \in Nat, Len(payload') = Len(payload) + 1,
         UNCHANGED <<config, output>>
  PROVE  Decided'
<1>1. SUFFICES ASSUME G!Reproposes', ~config'.chained, NEW e \in 0..maxEpoch,
                      e + 1 < Len(payload')
               PROVE  output'[e] # {}
  BY DEF Decided
<1>2. G!Reproposes /\ ~config.chained
  BY <1>1 DEF G!Reproposes
<1>3. maxEpoch \in Nat /\ e \in Nat
  BY Generates
<1>4. CASE e + 1 < Len(payload)
  BY <1>2, <1>4 DEF GenSound, GenOrder, Decided
<1>5. CASE ~(e + 1 < Len(payload))
  <2>1. Len(payload) # 0 /\ Len(payload) - 1 = e
    BY <1>1, <1>3, <1>5
  <2> QED
    BY <1>2, <2>1 DEF Timely
<1> QED
  BY <1>4, <1>5

LEMMA NewBlockSound ==
  ASSUME GenSound, NEW take, NewBlock(take), Len(payload) <= maxEpoch,
         Timely,
         UNCHANGED <<config, inserted, output, firstUnoutput>>
  PROVE  GenSound' /\ (Single => Single')
<1> DEFINE part == SubSeq(queue, 1, take)
           k == Len(blocks) + 1
           L == LiveOf(config, payload, output)
<1>1. /\ L \subseteq Nat \ {0} /\ L \subseteq DOMAIN blocks
      /\ queue \in Seq(Nat) /\ payload \in Seq(Nat) /\ Len(blocks) \in Nat
      /\ DOMAIN blocks = 1..Len(blocks) /\ Len(payload) \in Nat
      /\ DOMAIN payload = 1..Len(payload)
      /\ \A j \in DOMAIN blocks : blocks[j] \in Seq(Nat) /\ blocks[j] \in Seq(1..inserted)
  BY LivesAre DEF GenSound
<1>2. /\ take \in 0..Len(queue) /\ take <= BlockTxs
      /\ blocks' = Append(blocks, part) /\ payload' = Append(payload, k)
      /\ sent' = Append(sent, part) /\ queue' = SubSeq(queue, take + 1, Len(queue))
  BY DEF NewBlock
<1>3. part \in Seq(1..inserted) /\ Len(part) = take /\ queue' \in Seq(1..inserted)
  <2>1. queue \in Seq(1..inserted)
    BY DEF GenSound, GenTyped
  <2>2. part \in Seq(1..inserted) /\ Len(part) = take
    BY <1>2, <2>1, Parting
  <2>3. SubSeq(queue, take + 1, Len(queue)) \in Seq(1..inserted)
    BY <1>2, <2>1, Parting
  <2> QED
    BY <1>2, <2>2, <2>3
<1>4. /\ blocks' \in Seq(Seq(1..inserted)) /\ DOMAIN blocks' = 1..(Len(blocks) + 1)
      /\ blocks'[k] = part /\ \A j \in DOMAIN blocks : blocks'[j] = blocks[j]
  <2> DEFINE X == Seq(1..inserted)
  <2>1. blocks \in Seq(X) /\ part \in X
    BY <1>3 DEF GenSound, GenTyped
  <2> HIDE DEF X, part
  <2>2. /\ Append(blocks, part) \in Seq(X)
        /\ DOMAIN Append(blocks, part) = 1..(Len(blocks) + 1)
        /\ Append(blocks, part)[Len(blocks) + 1] = part
        /\ \A j \in DOMAIN blocks : Append(blocks, part)[j] = blocks[j]
    BY <2>1, Adding
  <2> QED
    BY <1>2, <2>2 DEF X
<1> HIDE DEF part
<1>5. payload' \in Seq(DOMAIN blocks') /\ Len(payload') = Len(payload) + 1
  <2>1. DOMAIN blocks \subseteq DOMAIN blocks' /\ k \in DOMAIN blocks'
    BY <1>1, <1>4
  <2>2. payload \in Seq(DOMAIN blocks)
    BY DEF GenSound, GenTyped
  <2>3. payload \in Seq(DOMAIN blocks')
    BY <2>1, <2>2
  <2> HIDE DEF k
  <2> QED
    BY <1>2, <2>1, <2>3
<1>6. sent' \in Seq(Seq(Nat)) /\ Len(sent') = Len(payload')
  <2>1. part \in Seq(Nat)
    BY <1>3 DEF GenSound, GenTyped
  <2>2. sent \in Seq(Seq(Nat)) /\ Len(sent) = Len(payload)
    BY DEF GenSound, GenTyped
  <2> QED
    <3> DEFINE X == Seq(Nat)
    <3>1. sent \in Seq(X) /\ part \in X
      BY <2>1, <2>2
    <3> HIDE DEF X
    <3>2. Append(sent, part) \in Seq(X) /\ Len(Append(sent, part)) = Len(sent) + 1
      BY <3>1
    <3> QED
      BY <1>2, <1>5, <2>2, <3>2 DEF X
<1>7. GenTyped'
  <2>1. \A j \in DOMAIN blocks' : Len(blocks'[j]) <= BlockTxs
    <3>1. \A j \in DOMAIN blocks : Len(blocks[j]) <= BlockTxs
      BY DEF GenSound, GenTyped
    <3>2. ASSUME NEW j \in DOMAIN blocks' PROVE Len(blocks'[j]) <= BlockTxs
      <4>1. CASE j = k
        BY <1>2, <1>3, <1>4, <4>1
      <4>2. CASE j # k
        <5>1. j \in DOMAIN blocks
          BY <1>1, <1>4, <4>2
        <5> QED
          BY <1>4, <3>1, <5>1
      <4> QED
        BY <4>1, <4>2
    <3> QED
      BY <3>2
  <2> QED
    BY <1>3, <1>4, <1>5, <1>6, <2>1 DEF GenSound, GenTyped
<1>8. Again(config, payload, output)'
  <2>1. \A d \in DOMAIN payload : payload[d] # k
    <3>1. \A d \in DOMAIN payload : payload[d] \in 1..Len(blocks)
      BY <1>1 DEF GenSound, GenTyped
    <3> QED
      BY <1>1, <3>1
  <2>2. Again(config, payload, output)
    BY DEF GenSound, GenOrder, Again
  <2>3. Again(config, Append(payload, k), output)
    <3> HIDE DEF k
    <3> QED
      BY <1>1, <2>1, <2>2, AgainAppend
  <2> QED
    BY <1>2, <2>3
<1>9. GenOrder'
  <2>1. Paced'
    <3>1. Len(payload') <= maxEpoch + 1
      BY <1>1, <1>5, Generates
    <3>2. Decided'
      BY <1>1, <1>5, DecidedGrows
    <3> QED
      BY <3>1, <3>2 DEF GenSound, GenOrder, Paced
  <2> QED
    BY <1>8, <2>1 DEF GenOrder, Paced, Again
<1>10. ASSUME Single PROVE Single'
  <2>1. ASSUME NEW t \in 1..inserted, G!Reproposes PROVE Once(G!Spots(t)')
    <3>1. ~config.infBacklog
      BY <2>1 DEF GenSound, GenOrder, GenTyped
    <3>2. LiveOf(config, payload, output)' = L \cup {k}
      <4>1. Follows(config, payload, output, k)
        BY <2>1, <3>1 DEF NewBlock, Follows
      <4>2. k \in Nat
        BY <1>1
      <4>3. LiveOf(config, Append(payload, k), output) = L \cup {k}
        <5> HIDE DEF k
        <5> QED
          BY <1>1, <4>1, <4>2, LiveGrows
      <4> QED
        BY <1>2, <4>3
    <3>3. Once(SpotsOf(queue, blocks, L, t))
      BY <1>10, <2>1, SpotsAre DEF Single
    <3> HIDE DEF L
    <3>4. Moves(queue, blocks, L, take, queue', blocks', k)
      <4>1. k \notin L /\ k \in Nat \ {0}
        BY <1>1
      <4>2. blocks'[k] = <<>> \o part
        <5>1. part \in Seq(1..inserted)
          BY <1>3
        <5> QED
          BY <1>4, <5>1
      <4>3. \A j \in L : blocks'[j] = blocks[j] /\ blocks[j] \in Seq(Nat)
        BY <1>1, <1>4
      <4> HIDE DEF k
      <4> QED
        BY <1>1, <1>2, <4>1, <4>2, <4>3 DEF Moves, part
    <3> HIDE DEF k
    <3> DEFINE q2 == queue'
               bs2 == blocks'
    <3>5. Moves(queue, blocks, L, take, q2, bs2, k)
      BY <3>4
    <3> HIDE DEF q2, bs2
    <3>6. Once(SpotsOf(q2, bs2, L \cup {k}, t))
      BY <3>3, <3>5, MovedOnce
    <3>7. Once(SpotsOf(queue', blocks', LiveOf(config, payload, output)', t))
      BY <3>2, <3>6 DEF q2, bs2
    <3>8. G!Spots(t)' = SpotsOf(queue', blocks', LiveOf(config, payload, output)', t)
      BY DEF G!Spots, SpotsOf, G!Live, LiveOf, G!ObjectOf, G!firstUninited
    <3> QED
      BY <3>7, <3>8
  <2> QED
    BY <2>1 DEF Single, G!Reproposes
<1> QED
  BY <1>7, <1>9, <1>10 DEF GenSound

LEMMA Replacing ==
  ASSUME NEW X, NEW bs \in Seq(X), NEW k \in DOMAIN bs, NEW b \in X
  PROVE  /\ [bs EXCEPT ![k] = b] \in Seq(X) /\ DOMAIN [bs EXCEPT ![k] = b] = DOMAIN bs
         /\ [bs EXCEPT ![k] = b][k] = b
         /\ \A j \in DOMAIN bs : j # k => [bs EXCEPT ![k] = b][j] = bs[j]
  OBVIOUS

LEMMA Joining ==
  ASSUME NEW X, NEW r \in Seq(X), NEW s \in Seq(X)
  PROVE  r \o s \in Seq(X) /\ Len(r \o s) = Len(r) + Len(s)
  OBVIOUS

LEMMA FilledSound ==
  ASSUME GenSound, NEW k, NEW take, Filled(k, take), Len(payload) <= maxEpoch,
         Timely,
         UNCHANGED <<config, inserted, output, firstUnoutput>>
  PROVE  GenSound' /\ (Single => Single')
<1> DEFINE part == SubSeq(queue, 1, take)
           more == blocks[k] \o part
           L == LiveOf(config, payload, output)
<1>1. /\ L \subseteq Nat \ {0} /\ L \subseteq DOMAIN blocks
      /\ queue \in Seq(Nat) /\ payload \in Seq(Nat) /\ Len(blocks) \in Nat
      /\ DOMAIN blocks = 1..Len(blocks) /\ Len(payload) \in Nat
      /\ DOMAIN payload = 1..Len(payload)
      /\ \A j \in DOMAIN blocks : blocks[j] \in Seq(Nat) /\ blocks[j] \in Seq(1..inserted)
  BY LivesAre DEF GenSound
<1>2. /\ take \in 0..Len(queue) /\ Len(blocks[k]) + take <= BlockTxs
      /\ blocks' = [blocks EXCEPT ![k] = more] /\ payload' = Append(payload, k)
      /\ sent' = Append(sent, more) /\ queue' = SubSeq(queue, take + 1, Len(queue))
  BY DEF Filled
<1>3. part \in Seq(1..inserted) /\ Len(part) = take /\ queue' \in Seq(1..inserted)
  <2>1. queue \in Seq(1..inserted)
    BY DEF GenSound, GenTyped
  <2>2. part \in Seq(1..inserted) /\ Len(part) = take
    BY <1>2, <2>1, Parting
  <2>3. SubSeq(queue, take + 1, Len(queue)) \in Seq(1..inserted)
    BY <1>2, <2>1, Parting
  <2> QED
    BY <1>2, <2>2, <2>3
<1>4. Len(payload) # 0 /\ k = payload[Len(payload)] /\ k \in DOMAIN blocks /\ k \in L
  <2>1. Len(payload) # 0 /\ k = payload[Len(payload)]
    BY DEF Filled
  <2>2. Len(payload) \in 1..Len(payload)
    BY <1>1, <2>1
  <2>3. k \in L <=> \E e \in 1..Len(payload) :
                      k = payload[e] /\ Holding(config, payload, output, e)
    BY <1>1, LiveIs
  <2>4. k \in L
    BY <2>1, <2>2, <2>3 DEF Holding
  <2> QED
    BY <1>1, <2>1, <2>4
<1> HIDE DEF part
<1>5. more \in Seq(1..inserted) /\ Len(more) = Len(blocks[k]) + take
  <2>1. blocks[k] \in Seq(1..inserted)
    BY <1>1, <1>4
  <2>2. blocks[k] \o part \in Seq(1..inserted) /\ Len(blocks[k] \o part) = Len(blocks[k]) + Len(part)
    <3> DEFINE X == 1..inserted
    <3>1. blocks[k] \in Seq(X) /\ part \in Seq(X)
      BY <1>3, <2>1
    <3> HIDE DEF X
    <3>2. blocks[k] \o part \in Seq(X) /\ Len(blocks[k] \o part) = Len(blocks[k]) + Len(part)
      BY <3>1, Joining
    <3> QED
      BY <3>2 DEF X
  <2> QED
    BY <1>3, <2>2
<1>6. /\ blocks' \in Seq(Seq(1..inserted)) /\ DOMAIN blocks' = DOMAIN blocks
      /\ blocks'[k] = more /\ \A j \in DOMAIN blocks : j # k => blocks'[j] = blocks[j]
  <2> DEFINE X == Seq(1..inserted)
  <2>1. blocks \in Seq(X) /\ more \in X
    BY <1>5 DEF GenSound, GenTyped
  <2> HIDE DEF X, more
  <2>2. /\ [blocks EXCEPT ![k] = more] \in Seq(X)
        /\ DOMAIN [blocks EXCEPT ![k] = more] = DOMAIN blocks
        /\ [blocks EXCEPT ![k] = more][k] = more
        /\ \A j \in DOMAIN blocks : j # k => [blocks EXCEPT ![k] = more][j] = blocks[j]
    BY <1>4, <2>1, Replacing
  <2> QED
    BY <1>2, <2>2 DEF X
<1>7. payload' \in Seq(DOMAIN blocks') /\ Len(payload') = Len(payload) + 1
  <2>1. payload \in Seq(DOMAIN blocks')
    BY <1>6 DEF GenSound, GenTyped
  <2>2. k \in DOMAIN blocks'
    BY <1>4, <1>6
  <2> QED
    BY <1>2, <2>1, <2>2
<1>8. sent' \in Seq(Seq(Nat)) /\ Len(sent') = Len(payload')
  <2>1. more \in Seq(Nat)
    <3>1. inserted \in Nat
      BY DEF GenSound, GenTyped
    <3> HIDE DEF more
    <3> QED
      BY <1>5, <3>1
  <2>2. sent \in Seq(Seq(Nat)) /\ Len(sent) = Len(payload)
    BY DEF GenSound, GenTyped
  <2> DEFINE X == Seq(Nat)
  <2>3. sent \in Seq(X) /\ more \in X
    BY <2>1, <2>2
  <2> HIDE DEF X, more
  <2>4. Append(sent, more) \in Seq(X) /\ Len(Append(sent, more)) = Len(sent) + 1
    BY <2>3
  <2> QED
    BY <1>2, <1>7, <2>2, <2>4 DEF X
<1>9. GenTyped'
  <2>1. \A j \in DOMAIN blocks' : Len(blocks'[j]) <= BlockTxs
    <3>1. \A j \in DOMAIN blocks : Len(blocks[j]) <= BlockTxs
      BY DEF GenSound, GenTyped
    <3>2. Len(blocks'[k]) <= BlockTxs
      BY <1>2, <1>5, <1>6
    <3> QED
      BY <1>6, <3>1, <3>2
  <2> QED
    BY <1>3, <1>6, <1>7, <1>8, <2>1 DEF GenSound, GenTyped
<1>10. Again(config, payload, output)'
  <2>1. Again(config, payload, output)
    BY DEF GenSound, GenOrder, Again
  <2>2. ASSUME NEW d \in DOMAIN payload, payload[d] = k
        PROVE  ~config.chained /\ output[d - 1] = {FALSE}
    <3>1. CASE d = Len(payload)
      BY <3>1 DEF Filled
    <3>2. CASE d # Len(payload)
      <4>1. d < Len(payload) /\ Len(payload) \in DOMAIN payload
        BY <1>1, <1>4, <3>2
      <4> QED
        BY <1>4, <2>1, <2>2, <4>1 DEF Again
    <3> QED
      BY <3>1, <3>2
  <2>3. Again(config, Append(payload, k), output)
    BY <1>1, <2>1, <2>2, AgainAppend
  <2> QED
    BY <1>2, <2>3
<1>11. GenOrder'
  <2>1. Paced'
    <3>1. Len(payload') <= maxEpoch + 1
      BY <1>1, <1>7, Generates
    <3>2. Decided'
      BY <1>1, <1>7, DecidedGrows
    <3> QED
      BY <3>1, <3>2 DEF GenSound, GenOrder, Paced
  <2> QED
    BY <1>10, <2>1 DEF GenOrder, Paced, Again
<1>12. ASSUME Single PROVE Single'
  <2>1. ASSUME NEW t \in 1..inserted, G!Reproposes PROVE Once(G!Spots(t)')
    <3>2. LiveOf(config, payload, output)' = L \cup {k}
      <4>1. Follows(config, payload, output, k)
        BY <1>4 DEF Follows
      <4>2. k \in Nat
        BY <1>1, <1>4
      <4>3. LiveOf(config, Append(payload, k), output) = L \cup {k}
        BY <1>1, <4>1, <4>2, LiveGrows
      <4> QED
        BY <1>2, <4>3
    <3>3. Once(SpotsOf(queue, blocks, L, t))
      BY <1>12, <2>1, SpotsAre DEF Single
    <3> HIDE DEF L
    <3>4. Moves(queue, blocks, L, take, queue', blocks', k)
      <4>1. \A j \in L : blocks[j] \in Seq(Nat) /\ (j # k => blocks'[j] = blocks[j])
        BY <1>1, <1>6
      <4>2. blocks'[k] = (IF k \in L THEN blocks[k] ELSE <<>>) \o part
        BY <1>4, <1>6
      <4> QED
        BY <1>1, <1>2, <1>4, <4>1, <4>2 DEF Moves, part
    <3> DEFINE q2 == queue'
               bs2 == blocks'
    <3>5. Moves(queue, blocks, L, take, q2, bs2, k)
      BY <3>4
    <3> HIDE DEF q2, bs2
    <3>6. Once(SpotsOf(q2, bs2, L \cup {k}, t))
      BY <3>3, <3>5, MovedOnce
    <3>7. Once(SpotsOf(queue', blocks', LiveOf(config, payload, output)', t))
      BY <3>2, <3>6 DEF q2, bs2
    <3>8. G!Spots(t)' = SpotsOf(queue', blocks', LiveOf(config, payload, output)', t)
      BY DEF G!Spots, SpotsOf, G!Live, LiveOf, G!ObjectOf, G!firstUninited
    <3> QED
      BY <3>7, <3>8
  <2> QED
    BY <2>1 DEF Single, G!Reproposes
<1> QED
  BY <1>9, <1>11, <1>12 DEF GenSound

LEMMA Inserts ==
  ASSUME NEW i \in Nat, NEW q \in Seq(1..i), NEW bs, NEW L, NEW t \in 1..(i + 1),
         \A j \in L : bs[j] \in Seq(1..i),
         t <= i => Once(SpotsOf(q, bs, L, t))
  PROVE  Once(SpotsOf(Append(q, i + 1), bs, L, t))
<1> DEFINE r == Append(q, i + 1)
<1>1. /\ DOMAIN r = 1..(Len(q) + 1) /\ Len(q) \in Nat /\ DOMAIN q = 1..Len(q)
      /\ r[Len(q) + 1] = i + 1 /\ \A n \in DOMAIN q : r[n] = q[n] /\ q[n] \in 1..i
  OBVIOUS
<1>2. \A j \in L : \A n \in DOMAIN bs[j] : bs[j][n] \in 1..i
  OBVIOUS
<1> HIDE DEF r
<1>3. ASSUME NEW z
      PROVE  z \in SpotsOf(r, bs, L, t) <=>
           \/ \E n \in DOMAIN r : z = <<0, n>> /\ r[n] = t
           \/ \E j \in L : \E n \in DOMAIN bs[j] : z = <<j, n>> /\ bs[j][n] = t
  BY SpotIs
<1>4. CASE t = i + 1
  <2>1. ASSUME NEW z
        PROVE  z \in SpotsOf(r, bs, L, t) <=> z = <<0, Len(q) + 1>>
    <3>1. ASSUME NEW j \in L, NEW n \in DOMAIN bs[j], bs[j][n] = t PROVE FALSE
      BY <1>2, <1>4, <3>1
    <3>2. ASSUME NEW n \in DOMAIN r, r[n] = t PROVE n = Len(q) + 1
      <4>1. CASE n \in DOMAIN q
        BY <1>1, <1>4, <3>2, <4>1
      <4>2. CASE n \notin DOMAIN q
        BY <1>1, <4>2
      <4> QED
        BY <4>1, <4>2
    <3>3. Len(q) + 1 \in DOMAIN r /\ r[Len(q) + 1] = t
      BY <1>1, <1>4
    <3> QED
      BY <1>3, <3>1, <3>2, <3>3
  <2>2. SpotsOf(r, bs, L, t) = {<<0, Len(q) + 1>>}
    BY <2>1
  <2> QED
    BY <2>2 DEF Once, r
<1>5. CASE t # i + 1
  <2>1. ASSUME NEW z
        PROVE  z \in SpotsOf(q, bs, L, t) <=>
             \/ \E n \in DOMAIN q : z = <<0, n>> /\ q[n] = t
             \/ \E j \in L : \E n \in DOMAIN bs[j] : z = <<j, n>> /\ bs[j][n] = t
    BY SpotIs
  <2>2. ASSUME NEW n PROVE (n \in DOMAIN r /\ r[n] = t) <=> (n \in DOMAIN q /\ q[n] = t)
    <3>1. CASE n = Len(q) + 1
      BY <1>1, <1>5, <3>1
    <3>2. CASE n # Len(q) + 1
      BY <1>1, <3>2
    <3> QED
      BY <3>1, <3>2
  <2>3. ASSUME NEW z PROVE z \in SpotsOf(r, bs, L, t) <=> z \in SpotsOf(q, bs, L, t)
    BY <1>3, <2>1, <2>2
  <2>4. SpotsOf(r, bs, L, t) = SpotsOf(q, bs, L, t)
    BY <2>3
  <2>5. t <= i
    BY <1>5
  <2> QED
    BY <2>4, <2>5 DEF r
<1> QED
  BY <1>4, <1>5

LEMMA InsertSound ==
  ASSUME GenSound, G!InsertTransaction
  PROVE  GenSound' /\ (Single => Single')
<1> DEFINE L == LiveOf(config, payload, output)
<1>1. /\ inserted' = inserted + 1 /\ queue' = Append(queue, inserted + 1) /\ ~config.infBacklog
      /\ UNCHANGED <<config, blocks, payload, sent, output, firstUnoutput>>
  BY DEF G!InsertTransaction, G!ledger
<1>2. inserted \in Nat /\ queue \in Seq(1..inserted) /\ inserted' \in Nat
  BY <1>1 DEF GenSound, GenTyped
<1>3. 1..inserted \subseteq 1..inserted'
  BY <1>1, <1>2
<1>4. GenTyped'
  <2>1. queue' \in Seq(1..inserted')
    <3>1. queue \in Seq(1..inserted') /\ inserted + 1 \in 1..inserted'
      BY <1>1, <1>2, <1>3
    <3> DEFINE X == 1..inserted'
    <3>2. queue \in Seq(X) /\ inserted + 1 \in X
      BY <3>1
    <3> HIDE DEF X
    <3>3. Append(queue, inserted + 1) \in Seq(X)
      BY <3>2
    <3> QED
      BY <1>1, <3>3 DEF X
  <2>2. blocks \in Seq(Seq(1..inserted'))
    <3> DEFINE X == Seq(1..inserted)
               Y == Seq(1..inserted')
    <3>3. X \subseteq Y
      <4> DEFINE V == 1..inserted
                 W == 1..inserted'
      <4>1. V \subseteq W
        BY <1>3
      <4> HIDE DEF V, W
      <4>2. \A s \in Seq(V) : s \in Seq(W)
        BY <4>1
      <4> QED
        BY <4>2 DEF V, W
    <3>1. X \subseteq Y /\ blocks \in Seq(X)
      BY <3>3 DEF GenSound, GenTyped
    <3> HIDE DEF X, Y
    <3>2. blocks \in Seq(Y)
      BY <3>1
    <3> QED
      BY <3>2 DEF Y
  <2> QED
    BY <1>1, <1>2, <2>1, <2>2 DEF GenSound, GenTyped
<1>5. GenOrder'
  BY <1>1 DEF GenSound, GenOrder, Decided, G!Reproposes
<1>6. ASSUME Single PROVE Single'
  <2>1. ASSUME NEW t \in 1..(inserted + 1), G!Reproposes PROVE Once(G!Spots(t)')
    <3>1. \A j \in L : blocks[j] \in Seq(1..inserted)
      BY LivesAre DEF GenSound
    <3>2. t <= inserted => Once(SpotsOf(queue, blocks, L, t))
      BY <1>2, <1>6, <2>1, SpotsAre DEF Single
    <3>3. G!Spots(t)' = SpotsOf(queue', blocks', LiveOf(config, payload, output)', t)
      BY DEF G!Spots, SpotsOf, G!Live, LiveOf, G!ObjectOf, G!firstUninited
    <3>4. LiveOf(config, payload, output)' = L
      BY <1>1
    <3> HIDE DEF L
    <3>5. Once(SpotsOf(Append(queue, inserted + 1), blocks, L, t))
      BY <1>2, <3>1, <3>2, Inserts
    <3> QED
      BY <1>1, <3>3, <3>4, <3>5
  <2> QED
    BY <1>1, <2>1 DEF Single, G!Reproposes
<1> QED
  BY <1>4, <1>5, <1>6 DEF GenSound

LEMMA DispersedSound ==
  ASSUME GenSound, NEW e \in G!Epoch, NEW b \in BOOLEAN, G!EpochDispersed(e, b)
  PROVE  GenSound' /\ (Single => Single')
<1>1. /\ output[e] = {} /\ output' = [output EXCEPT ![e] = {b}]
      /\ UNCHANGED <<config, inserted, queue, blocks, payload, sent, firstUnoutput>>
  BY DEF G!EpochDispersed, G!generator
<1>2. e \in 0..maxEpoch /\ e \in Nat /\ maxEpoch \in Nat /\ config.chained \in BOOLEAN
  BY Generates, FlagsAre DEF G!Epoch, GenSound, GenTyped
<1>3. /\ output' \in [0..maxEpoch -> {{}, {TRUE}, {FALSE}}] /\ output'[e] = {b}
      /\ \A d \in 0..maxEpoch : d # e => output'[d] = output[d]
  BY <1>1, <1>2 DEF GenSound, GenTyped
<1>4. GenTyped'
  BY <1>1, <1>3 DEF GenSound, GenTyped
<1>5. payload \in Seq(Nat) /\ Len(payload) \in Nat /\ DOMAIN payload = 1..Len(payload)
  BY LivesAre DEF GenSound
<1>6. GenOrder'
  <2>1. \A d \in 0..maxEpoch : d < firstUnoutput => output'[d] # {}
    BY <1>3 DEF GenSound, GenOrder
  <2>2. ASSUME NEW d \in DOMAIN payload, NEW f \in DOMAIN payload, d < f, payload[d] = payload[f]
        PROVE  ~config.chained /\ output'[d - 1] = {FALSE}
    <3>1. ~config.chained /\ output[d - 1] = {FALSE}
      BY <2>2 DEF GenSound, GenOrder
    <3>2. d - 1 # e
      BY <1>1, <3>1
    <3>3. d - 1 \in 0..maxEpoch
      <4>1. Len(payload) <= maxEpoch + 1
        BY DEF GenSound, GenOrder
      <4> QED
        BY <1>2, <1>5, <4>1
    <3> QED
      BY <1>3, <3>1, <3>2, <3>3
  <2>3. Decided'
    <3>1. \A d \in 0..maxEpoch : output[d] # {} => output'[d] # {}
      BY <1>3
    <3>2. G!Reproposes' = G!Reproposes
      BY <1>1 DEF G!Reproposes
    <3> QED
      BY <1>1, <3>1, <3>2 DEF GenSound, GenOrder, Decided
  <2> QED
    BY <1>1, <2>1, <2>2, <2>3 DEF GenSound, GenOrder
<1>7. ASSUME G!Reproposes
      PROVE  LiveOf(config, payload, output)' = LiveOf(config, payload, output)
  <2> DEFINE o2 == output'
  <2>1. config.chained \/ Len(payload) <= e + 1
    <3>1. CASE ~config.chained
      <4>1. ~(e + 1 < Len(payload))
        BY <1>1, <1>2, <1>7, <3>1 DEF GenSound, GenOrder, Decided
      <4> QED
        BY <1>2, <1>5, <4>1
    <3> QED
      BY <3>1
  <2>2. \A d \in Nat : d # e => o2[d] = output[d]
    <3>1. \A d : d # e => o2[d] = output[d]
      BY <1>1
    <3> QED
      BY <3>1
  <2> HIDE DEF o2
  <2>3. LiveOf(config, payload, o2) = LiveOf(config, payload, output)
    BY <1>1, <1>2, <1>5, <2>1, <2>2, LiveOutput
  <2> QED
    BY <1>1, <2>3 DEF o2
<1>8. ASSUME Single PROVE Single'
  <2>1. ASSUME NEW t \in 1..inserted, G!Reproposes PROVE Once(G!Spots(t)')
    <3>1. G!Spots(t)' = SpotsOf(queue', blocks', LiveOf(config, payload, output)', t)
      BY DEF G!Spots, SpotsOf, G!Live, LiveOf, G!ObjectOf, G!firstUninited
    <3>2. Once(SpotsOf(queue, blocks, LiveOf(config, payload, output), t))
      BY <1>8, <2>1, SpotsAre DEF Single
    <3> QED
      BY <1>1, <1>7, <2>1, <3>1, <3>2
  <2> QED
    BY <1>1, <2>1 DEF Single, G!Reproposes
<1> QED
  BY <1>4, <1>6, <1>8 DEF GenSound

LEMMA GeneratorStep ==
  GenSound /\ [G!Next]_(G!vars) => GenSound' /\ (Single => Single')
<1> SUFFICES ASSUME GenSound, [G!Next]_(G!vars)
             PROVE  GenSound' /\ (Single => Single')
  OBVIOUS
<1>0. ASSUME UNCHANGED <<config, inserted, queue, blocks, payload, sent, output>>,
             GenOrder', firstUnoutput' \in Nat
      PROVE  GenSound' /\ (Single => Single')
  <2>1. GenTyped'
    BY <1>0 DEF GenSound, GenTyped
  <2>2. Single => Single'
    <3>1. ASSUME NEW t PROVE G!Spots(t)' = G!Spots(t)
      <4>1. G!Spots(t)' = SpotsOf(queue', blocks', LiveOf(config, payload, output)', t)
        BY DEF G!Spots, SpotsOf, G!Live, LiveOf, G!ObjectOf, G!firstUninited
      <4>2. LiveOf(config, payload, output)' = LiveOf(config, payload, output)
        BY <1>0
      <4> QED
        BY <1>0, <4>1, <4>2, SpotsAre
    <3> QED
      BY <1>0, <3>1 DEF Single, G!Reproposes
  <2> QED
    BY <1>0, <2>1, <2>2 DEF GenSound
<1>1. ASSUME UNCHANGED <<config, inserted, queue, blocks, payload, sent, output, firstUnoutput>>
      PROVE  GenSound' /\ (Single => Single')
  <2>1. GenOrder' /\ firstUnoutput' \in Nat
    BY <1>1 DEF GenSound, GenOrder, GenTyped, Decided, G!Reproposes
  <2> QED
    BY <1>0, <1>1, <2>1
<1>2. CASE G!InsertTransaction
  BY <1>2, InsertSound
<1>3. CASE G!InitNextEpoch
  <2>1. UNCHANGED <<config, inserted, output, firstUnoutput>>
    BY <1>3 DEF G!InitNextEpoch, G!ledger
  <2>2. /\ Len(payload) <= maxEpoch /\ Timely
        /\ (\E take : NewBlock(take)) \/ (\E k, take : Filled(k, take))
    BY <1>3, InitNextIs
  <2>3. ASSUME NEW take, NewBlock(take) PROVE GenSound' /\ (Single => Single')
    BY <2>1, <2>2, <2>3, NewBlockSound
  <2>4. ASSUME NEW k, NEW take, Filled(k, take) PROVE GenSound' /\ (Single => Single')
    BY <2>1, <2>2, <2>4, FilledSound
  <2> QED
    BY <2>2, <2>3, <2>4
<1>4. CASE G!Stop
  BY <1>1, <1>4 DEF G!Stop, G!ledger
<1>5. ASSUME NEW e \in G!Epoch, NEW b \in BOOLEAN, G!EpochDispersed(e, b)
      PROVE  GenSound' /\ (Single => Single')
  BY <1>5, DispersedSound
<1>6. ASSUME NEW level, G!OutputEpoch(level)
      PROVE  GenSound' /\ (Single => Single')
  <2>1. /\ firstUnoutput' = firstUnoutput + 1 /\ output[firstUnoutput] # {}
        /\ UNCHANGED <<config, inserted, queue, blocks, payload, sent, output>>
    BY <1>6 DEF G!OutputEpoch, G!generator
  <2>2. firstUnoutput \in Nat /\ Len(payload) \in Nat /\ maxEpoch \in Nat
    BY Generates, LivesAre DEF GenSound, GenTyped
  <2>3. \A e \in 0..maxEpoch : e < firstUnoutput' => output[e] # {}
    <3>1. \A e \in 0..maxEpoch : e < firstUnoutput + 1 => e < firstUnoutput \/ e = firstUnoutput
      BY <2>2
    <3> QED
      BY <2>1, <3>1 DEF GenSound, GenOrder
  <2>4. Decided'
    BY <2>1 DEF GenSound, GenOrder, Decided, G!Reproposes
  <2>5. GenOrder'
    <3>1. Len(payload) <= maxEpoch + 1 /\ (config.infBacklog => inserted = 0)
      BY DEF GenSound, GenOrder
    <3>2. Again(config, payload, output)
      BY DEF GenSound, GenOrder, Again
    <3>3. Paced'
      BY <2>1, <2>3, <2>4, <3>1 DEF Paced
    <3>4. Again(config, payload, output)'
      BY <2>1, <3>2
    <3> QED
      BY <3>3, <3>4 DEF GenOrder, Paced, Again
  <2>6. firstUnoutput' \in Nat
    BY <2>1, <2>2
  <2> QED
    BY <1>0, <2>1, <2>5, <2>6
<1>7. CASE G!LogConfirm
  BY <1>1, <1>7 DEF G!LogConfirm, G!generator, G!ledger
<1>8. CASE G!AccountLatency
  BY <1>1, <1>8 DEF G!AccountLatency, G!generator, G!ledger
<1>9. CASE UNCHANGED G!vars
  BY <1>1, <1>9 DEF G!vars, G!generator, G!ledger
<1>10. CASE G!Panic
  BY <1>1, <1>10 DEF G!Panic, G!generator, G!ledger
<1> QED
  BY <1>2, <1>3, <1>4, <1>5, <1>6, <1>7, <1>8, <1>9, <1>10 DEF G!Next

LEMMA GeneratorInit == G!Init => GenSound /\ Single
<1> SUFFICES ASSUME G!Init PROVE GenSound /\ Single
  OBVIOUS
<1>1. /\ config \in Config /\ inserted = 0 /\ queue = <<>> /\ blocks = <<>>
      /\ payload = <<>> /\ sent = <<>> /\ output = [e \in 0..maxEpoch |-> {}]
      /\ firstUnoutput = 0 /\ maxEpoch \in Nat
  BY Generates DEF G!Init, G!Epoch
<1>2. output \in [0..maxEpoch -> {{}, {TRUE}, {FALSE}}]
  BY <1>1
<1>3. GenTyped
  BY <1>1, <1>2 DEF GenTyped
<1>4. GenOrder
  BY <1>1 DEF GenOrder, Decided
<1>5. Single
  BY <1>1 DEF Single
<1> QED
  BY <1>3, <1>4, <1>5 DEF GenSound

\* No transaction is lost and none is in two places, as blocks are filled, rejected,
\* proposed again and confirmed (bwload.go, pika.go:979-1019), under all flags but
\* coupled validity without references and a pipeline of four epochs or more.
THEOREM NothingLost == G!Spec => []NoneLost
<1>1. G!Init => GenSound /\ Single
  BY GeneratorInit
<1>2. GenSound /\ Single /\ [G!Next]_(G!vars) => (GenSound /\ Single)'
  BY GeneratorStep
<1>3. Single => NoneLost
  <2>1. ASSUME NEW t, Once(G!Spots(t)) PROVE G!Cardinality(G!Spots(t)) = 1
    <3>1. PICK x : G!Spots(t) = {x}
      BY <2>1 DEF Once
    <3>2. Cardinality({x}) = 1
      BY FS_Singleton
    <3>3. \A X : G!Cardinality(X) = Cardinality(X)
      BY Zenon DEF G!Cardinality, Cardinality
    <3> QED
      BY <3>1, <3>2, <3>3
  <2> QED
    BY <2>1 DEF Single, NoneLost, G!NoneLost
<1> QED
  BY <1>1, <1>2, <1>3, PTL DEF G!Spec

(***************************************************************************)
(* What is logged of a block is what was sent of it.                       *)
(***************************************************************************)
Unrejected(c, o, e) == c.chained \/ o[e - 1] # {FALSE}

Faithful ==
  \A e \in DOMAIN payload : Unrejected(config, output, e) => blocks[payload[e]] = sent[e]

LEMMA FaithfulIs == GenTyped => (Faithful <=> LoggedAsSent)
<1> SUFFICES ASSUME GenTyped PROVE Faithful <=> LoggedAsSent
  OBVIOUS
<1>1. Len(payload) \in Nat /\ DOMAIN payload = 1..Len(payload)
  BY LivesAre
<1>2. ASSUME Faithful, NEW e \in 0..(Len(payload) - 1),
             config.chained \/ output[e] # {FALSE}
      PROVE  blocks[payload[e + 1]] = sent[e + 1]
  <2>1. e + 1 \in DOMAIN payload /\ (e + 1) - 1 = e
    BY <1>1
  <2>2. Unrejected(config, output, e + 1)
    BY <1>2, <2>1 DEF Unrejected
  <2> QED
    BY <1>2, <2>1, <2>2 DEF Faithful
<1>3. ASSUME LoggedAsSent, NEW e \in DOMAIN payload, Unrejected(config, output, e)
      PROVE  blocks[payload[e]] = sent[e]
  <2>1. e - 1 \in 0..(Len(payload) - 1) /\ (e - 1) + 1 = e
    BY <1>1
  <2>2. config.chained \/ output[e - 1] # {FALSE}
    BY <1>3 DEF Unrejected
  <2>3. blocks[payload[(e - 1) + 1]] = sent[(e - 1) + 1]
    BY <1>3, <2>1, <2>2 DEF LoggedAsSent, G!LoggedAsSent, G!ObjectOf, G!firstUninited
  <2> QED
    BY <2>1, <2>3
<1> QED
  BY <1>2, <1>3 DEF Faithful, LoggedAsSent, G!LoggedAsSent, G!ObjectOf, G!firstUninited

LEMMA Started ==
  ASSUME GenSound, NEW k, NEW objects, NEW b,
         payload' = Append(payload, k), sent' = Append(sent, b), objects[k] = b,
         UNCHANGED <<config, output>>, blocks' = objects,
         \A e \in DOMAIN payload :
           Unrejected(config, output, e) => objects[payload[e]] = blocks[payload[e]],
         Faithful
  PROVE  Faithful'
<1>1. payload \in Seq(Nat) /\ sent \in Seq(Seq(Nat)) /\ Len(sent) = Len(payload)
  BY LivesAre DEF GenSound, GenTyped
<1>2. /\ DOMAIN payload' = 1..(Len(payload) + 1) /\ Len(payload) \in Nat
      /\ DOMAIN payload = 1..Len(payload) /\ payload'[Len(payload) + 1] = k
      /\ \A e \in DOMAIN payload : payload'[e] = payload[e]
  BY <1>1
<1>3. sent'[Len(payload) + 1] = b /\ \A e \in DOMAIN payload : sent'[e] = sent[e]
  BY <1>1
<1>4. ASSUME NEW e \in DOMAIN payload', Unrejected(config, output, e)
      PROVE  blocks'[payload'[e]] = sent'[e]
  <2>1. CASE e = Len(payload) + 1
    BY <1>2, <1>3, <2>1
  <2>2. CASE e # Len(payload) + 1
    <3>1. e \in DOMAIN payload
      BY <1>2, <2>2
    <3>2. blocks[payload[e]] = sent[e] /\ objects[payload[e]] = blocks[payload[e]]
      BY <1>4, <3>1 DEF Faithful
    <3> QED
      BY <1>2, <1>3, <3>1, <3>2
  <2> QED
    BY <2>1, <2>2
<1>5. ASSUME NEW e \in DOMAIN payload', Unrejected(config, output, e)'
      PROVE  blocks'[payload'[e]] = sent'[e]
  <2>1. Unrejected(config, output, e)
    BY <1>5 DEF Unrejected
  <2> QED
    BY <1>4, <2>1
<1> QED
  BY <1>5 DEF Faithful

LEMMA FaithfulStep ==
  GenSound /\ Faithful /\ [G!Next]_(G!vars) => Faithful'
<1> SUFFICES ASSUME GenSound, Faithful, [G!Next]_(G!vars)
             PROVE  Faithful'
  OBVIOUS
<1>0. /\ payload \in Seq(Nat) /\ Len(blocks) \in Nat /\ DOMAIN blocks = 1..Len(blocks)
      /\ Len(payload) \in Nat /\ DOMAIN payload = 1..Len(payload)
  BY LivesAre DEF GenSound
<1>9. \A e \in DOMAIN payload : payload[e] \in DOMAIN blocks
  <2>1. payload \in Seq(DOMAIN blocks)
    BY DEF GenSound, GenTyped
  <2> HIDE DEF Faithful
  <2> QED
    BY <2>1
<1>1. ASSUME UNCHANGED <<config, blocks, payload, sent, output>> PROVE Faithful'
  BY <1>1 DEF Faithful, Unrejected
<1>2. CASE G!InitNextEpoch
  <2>1. UNCHANGED <<config, output>>
    BY <1>2 DEF G!InitNextEpoch, G!ledger
  <2>2. (\E take : NewBlock(take)) \/ (\E k, take : Filled(k, take))
    BY <1>2, InitNextIs
  <2>3. ASSUME NEW take, NewBlock(take) PROVE Faithful'
    <3> DEFINE part == SubSeq(queue, 1, take)
               objects == Append(blocks, part)
               k == Len(blocks) + 1
    <3>1. /\ blocks' = objects /\ payload' = Append(payload, k) /\ sent' = Append(sent, part)
      BY <2>3 DEF NewBlock
    <3> HIDE DEF part
    <3>2. objects[k] = part /\ \A j \in DOMAIN blocks : objects[j] = blocks[j]
      BY <1>0 DEF GenSound, GenTyped
    <3>3. \A e \in DOMAIN payload :
            Unrejected(config, output, e) => objects[payload[e]] = blocks[payload[e]]
      BY <1>9, <3>2
    <3> HIDE DEF objects, k
    <3> QED
      BY <2>1, <3>1, <3>2, <3>3, Started
  <2>4. ASSUME NEW k, NEW take, Filled(k, take) PROVE Faithful'
    <3> DEFINE more == blocks[k] \o SubSeq(queue, 1, take)
               objects == [blocks EXCEPT ![k] = more]
    <3>1. /\ blocks' = objects /\ payload' = Append(payload, k) /\ sent' = Append(sent, more)
          /\ Len(payload) # 0 /\ k = payload[Len(payload)]
          /\ ~config.chained /\ output[Len(payload) - 1] = {FALSE}
      BY <2>4 DEF Filled
    <3> HIDE DEF more
    <3>2. k \in DOMAIN blocks
      <4>1. Len(payload) \in DOMAIN payload /\ k = payload[Len(payload)]
        <5>1. payload \in Seq(Nat) /\ Len(payload) # 0 /\ k = payload[Len(payload)]
          BY <1>0, <3>1
        <5> QED
          BY <5>1
      <4> QED
        BY <1>9, <4>1
    <3>3. objects[k] = more /\ \A j \in DOMAIN blocks : j # k => objects[j] = blocks[j]
      BY <3>2
    <3>4. ASSUME NEW e \in DOMAIN payload, Unrejected(config, output, e)
          PROVE  objects[payload[e]] = blocks[payload[e]]
      <4>1. payload[e] # k
        <5>1. CASE e = Len(payload)
          BY <3>1, <3>4, <5>1 DEF Unrejected
        <5>2. CASE e # Len(payload)
          <6>1. e < Len(payload) /\ Len(payload) \in DOMAIN payload
            BY <1>0, <3>1, <5>2
          <6>2. payload[e] = payload[Len(payload)] => output[e - 1] = {FALSE}
            BY <6>1 DEF GenSound, GenOrder
          <6> QED
            BY <3>1, <3>4, <6>2 DEF Unrejected
        <5> QED
          BY <5>1, <5>2
      <4> QED
        BY <1>9, <3>3, <4>1
    <3> HIDE DEF objects
    <3> QED
      BY <2>1, <3>1, <3>3, <3>4, Started
  <2> QED
    BY <2>2, <2>3, <2>4
<1>3. ASSUME NEW e \in G!Epoch, NEW b \in BOOLEAN, G!EpochDispersed(e, b)
      PROVE  Faithful'
  <2>1. /\ output[e] = {} /\ output' = [output EXCEPT ![e] = {b}]
        /\ UNCHANGED <<config, blocks, payload, sent>>
    BY <1>3 DEF G!EpochDispersed, G!generator
  <2>2. ASSUME NEW d \in DOMAIN payload, config.chained \/ output'[d - 1] # {FALSE}
        PROVE  config.chained \/ output[d - 1] # {FALSE}
    <3>1. CASE d - 1 = e
      BY <2>1, <3>1
    <3>2. CASE d - 1 # e
      <4>1. output'[d - 1] = output[d - 1]
        BY <2>1, <3>2
      <4> QED
        BY <2>2, <4>1
    <3> QED
      BY <3>1, <3>2
  <2> QED
    BY <2>1, <2>2 DEF Faithful, Unrejected
<1>4. ASSUME NEW level, G!OutputEpoch(level) PROVE Faithful'
  BY <1>1, <1>4 DEF G!OutputEpoch, G!generator
<1> QED
  BY <1>1, <1>2, <1>3, <1>4
  DEF G!Next, G!InsertTransaction, G!Panic, G!Stop, G!LogConfirm, G!AccountLatency, G!vars,
      G!generator, G!ledger

\* What is logged of a node's own block is what the node has dispersed: a block
\* that is filled again was rejected (pika.go:1011, bwload.go).
THEOREM LogsWhatWasSent == G!Spec => []LoggedAsSent
<1>1. G!Init => GenSound /\ Single
  BY GeneratorInit
<1>2. G!Init => Faithful
  BY DEF G!Init, Faithful
<1>3. GenSound /\ Single /\ Faithful /\ [G!Next]_(G!vars) => (GenSound /\ Single /\ Faithful)'
  BY GeneratorStep, FaithfulStep
<1>4. GenSound /\ Faithful => LoggedAsSent
  BY FaithfulIs DEF GenSound
<1> QED
  BY <1>1, <1>2, <1>3, <1>4, PTL DEF G!Spec

(***************************************************************************)
(* When the daemon panics.                                                 *)
(***************************************************************************)
LEMMA Counting ==
  ASSUME NEW e \in Nat \ {0}, NEW S, S \subseteq 0..(e - 2)
  PROVE  G!Cardinality(S) \in Nat /\ G!Cardinality(S) < e
<1>1. /\ IsFiniteSet(0..(e - 2))
      /\ Cardinality(0..(e - 2)) = IF 0 <= e - 2 THEN e - 2 - 0 + 1 ELSE 0
  BY FS_Interval
<1>2. Cardinality(0..(e - 2)) < e
  BY <1>1
<1>3. IsFiniteSet(S) /\ Cardinality(S) <= Cardinality(0..(e - 2))
  BY <1>1, FS_Subset
<1>4. Cardinality(S) \in Nat /\ Cardinality(0..(e - 2)) \in Nat
  BY <1>1, <1>3, FS_CardinalityType
<1>5. G!Cardinality(S) = Cardinality(S)
  BY Zenon DEF G!Cardinality, Cardinality
<1> QED
  BY <1>2, <1>3, <1>4, <1>5

Running == up \in BOOLEAN /\ G!PanicsOvertaken

LEMMA PanicIs ==
  ASSUME GenSound, G!Panic
  PROVE  Running'
<1> DEFINE e == Len(payload)
           S == {d \in G!Epoch : output[d] # {}}
<1>1. /\ e # 0 /\ output[e - 1] = {} /\ ~config.chained /\ G!CanInitNext(e)
      /\ up' = FALSE /\ UNCHANGED <<config, payload, output>>
  BY DEF G!Panic, G!Overtakes, G!firstUninited, G!ledger
<1>2. /\ e \in Nat \ {0} /\ maxEpoch \in Nat /\ firstUnoutput \in Nat
      /\ config.pipeline \in Nat /\ config.parallelism \in Nat
  BY <1>1, Generates, FlagsAre, LivesAre DEF GenSound, GenTyped
<1>3. /\ e <= maxEpoch
      /\ config.pipeline = 0 \/ e - firstUnoutput < config.pipeline
      /\ config.parallelism = 0 \/ e - G!Cardinality(S) < config.parallelism
  BY <1>1 DEF G!CanInitNext, G!numDispersed
<1> HIDE DEF e, S
<1>4. e - 1 \in 0..maxEpoch
  BY <1>2, <1>3
<1>5. config.pipeline # 1
  <2>1. ~(e - 1 < firstUnoutput)
    BY <1>1, <1>4 DEF GenSound, GenOrder
  <2> QED
    BY <1>2, <1>3, <2>1
<1>6. ASSUME config.parallelism = 1, \A d \in G!Epoch : d >= e => output[d] = {}
      PROVE  FALSE
  <2>1. ASSUME NEW d \in S PROVE d \in 0..(e - 2)
    <3>1. d \in 0..maxEpoch /\ output[d] # {}
      BY DEF S, G!Epoch
    <3>2. ~(d >= e) /\ d # e - 1
      BY <1>1, <1>6, <3>1 DEF G!Epoch
    <3> QED
      BY <1>2, <3>1, <3>2
  <2>2. G!Cardinality(S) \in Nat /\ G!Cardinality(S) < e
    BY <1>2, <2>1, Counting
  <2> DEFINE c == G!Cardinality(S)
  <2>3. c \in Nat /\ c < e /\ e - c < 1
    BY <1>3, <1>6, <2>2
  <2> HIDE DEF c
  <2> QED
    BY <1>2, <2>3
<1>7. config.parallelism = 1 => \E d \in G!Epoch : d >= e /\ output[d] # {}
  BY <1>6
<1>8. G!PanicsOvertaken'
  BY <1>1, <1>5, <1>7 DEF G!PanicsOvertaken, G!firstUninited, e
<1> QED
  BY <1>1, <1>8 DEF Running

LEMMA RunningStep ==
  GenSound /\ Running /\ [G!Next]_(G!vars) => Running'
<1> SUFFICES ASSUME GenSound, Running, [G!Next]_(G!vars)
             PROVE  Running'
  OBVIOUS
<1>1. ASSUME up, up' = up PROVE Running'
  BY <1>1 DEF Running, G!PanicsOvertaken
<1>2. CASE G!Panic
  BY <1>2, PanicIs
<1>3. CASE UNCHANGED G!vars
  BY <1>3 DEF G!vars, G!ledger, Running, G!PanicsOvertaken, G!firstUninited
<1>4. CASE G!InsertTransaction
  BY <1>1, <1>4 DEF G!InsertTransaction
<1>5. CASE G!InitNextEpoch
  BY <1>1, <1>5 DEF G!InitNextEpoch, G!Free
<1>6. CASE G!Stop
  BY <1>1, <1>6 DEF G!Stop, G!Free
<1>7. ASSUME NEW d \in G!Epoch, NEW b \in BOOLEAN, G!EpochDispersed(d, b) PROVE Running'
  BY <1>1, <1>7 DEF G!EpochDispersed, G!Free
<1>8. ASSUME NEW level \in G!Epoch, G!OutputEpoch(level) PROVE Running'
  BY <1>1, <1>8 DEF G!OutputEpoch, G!Free
<1>9. CASE G!LogConfirm
  BY <1>1, <1>9 DEF G!LogConfirm
<1>10. CASE G!AccountLatency
  BY <1>1, <1>10 DEF G!AccountLatency
<1> QED
  BY <1>2, <1>3, <1>4, <1>5, <1>6, <1>7, <1>8, <1>9, <1>10 DEF G!Next

LEMMA RunningInit == G!Init => Running
BY DEF G!Init, Running, G!PanicsOvertaken

\* Without references the output that a new epoch reads is missing (pika.go:1000,
\* ba.go:369) only if the pipeline is deeper than one; and, with a parallelism of one
\* (the default), only if a later epoch has been dispersed before.
THEOREM PanicsOnlyOvertaken == G!Spec => []PanicsOvertaken
<1>1. G!Init => GenSound /\ Running
  BY GeneratorInit, RunningInit
<1>2. GenSound /\ Running /\ [G!Next]_(G!vars) => (GenSound /\ Running)'
  BY GeneratorStep, RunningStep
<1>3. Running => PanicsOvertaken
  BY DEF Running, PanicsOvertaken
<1> QED
  BY <1>1, <1>2, <1>3, PTL DEF G!Spec

-----------------------------------------------------------------------------
(***************************************************************************)
(* The lines that messages of a connection wait in.                        *)
(***************************************************************************)
Rng(s) == {s[n] : n \in DOMAIN s}
Distinct(s) == \A a, b \in DOMAIN s : s[a] = s[b] => a = b

LEMMA RngAppend ==
  ASSUME NEW T, NEW s \in Seq(T), NEW x \in T
  PROVE  /\ Append(s, x) \in Seq(T) /\ Len(Append(s, x)) = Len(s) + 1
         /\ Rng(Append(s, x)) = Rng(s) \cup {x}
         /\ Distinct(s) /\ x \notin Rng(s) => Distinct(Append(s, x))
<1> DEFINE r == Append(s, x)
<1>1. /\ r \in Seq(T) /\ Len(r) = Len(s) + 1 /\ r[Len(s) + 1] = x /\ Len(s) \in Nat
      /\ DOMAIN s = 1..Len(s) /\ \A n \in DOMAIN s : r[n] = s[n]
  OBVIOUS
<1> HIDE DEF r
<1>2. DOMAIN r = 1..(Len(s) + 1)
  BY <1>1
<1>3. Rng(r) = Rng(s) \cup {x}
  <2>1. ASSUME NEW n \in DOMAIN r PROVE r[n] \in Rng(s) \cup {x}
    <3>1. n \in DOMAIN s \/ n = Len(s) + 1
      BY <1>1, <1>2
    <3> QED
      BY <1>1, <3>1 DEF Rng
  <2>2. ASSUME NEW n \in DOMAIN s PROVE s[n] \in Rng(r)
    <3>1. n \in DOMAIN r
      BY <1>1, <1>2
    <3> QED
      BY <1>1, <3>1 DEF Rng
  <2>3. x \in Rng(r)
    <3>1. Len(s) + 1 \in DOMAIN r
      BY <1>1, <1>2
    <3> QED
      BY <1>1, <3>1 DEF Rng
  <2> QED
    BY <2>1, <2>2, <2>3 DEF Rng
<1>4. ASSUME Distinct(s), x \notin Rng(s), NEW a \in DOMAIN r, NEW b \in DOMAIN r, r[a] = r[b]
      PROVE  a = b
  <2>1. (a \in DOMAIN s \/ a = Len(s) + 1) /\ (b \in DOMAIN s \/ b = Len(s) + 1)
    BY <1>1, <1>2
  <2>2. CASE a \in DOMAIN s /\ b \in DOMAIN s
    BY <1>1, <1>4, <2>2 DEF Distinct
  <2>3. CASE a \in DOMAIN s /\ b = Len(s) + 1
    BY <1>1, <1>4, <2>3 DEF Rng
  <2>4. CASE b \in DOMAIN s /\ a = Len(s) + 1
    BY <1>1, <1>4, <2>4 DEF Rng
  <2> QED
    BY <2>1, <2>2, <2>3, <2>4
<1> QED
  BY <1>1, <1>3, <1>4 DEF r, Distinct

LEMMA RngTail ==
  ASSUME NEW T, NEW s \in Seq(T), s # <<>>
  PROVE  /\ Tail(s) \in Seq(T) /\ Len(Tail(s)) = Len(s) - 1 /\ Len(s) \in Nat \ {0}
         /\ Head(s) \in T /\ Head(s) \in Rng(s)
         /\ Rng(s) = Rng(Tail(s)) \cup {Head(s)}
         /\ Distinct(s) => Distinct(Tail(s)) /\ Head(s) \notin Rng(Tail(s))
<1> DEFINE r == Tail(s)
           h == Head(s)
<1>1. /\ r \in Seq(T) /\ Len(r) = Len(s) - 1 /\ Len(s) \in Nat \ {0} /\ h \in T /\ h = s[1]
      /\ DOMAIN s = 1..Len(s) /\ \A n \in 1..(Len(s) - 1) : r[n] = s[n + 1]
  OBVIOUS
<1> HIDE DEF r, h
<1>2. DOMAIN r = 1..(Len(s) - 1) /\ 1 \in DOMAIN s
  BY <1>1
<1>3. \A n \in DOMAIN r : n + 1 \in DOMAIN s /\ n + 1 # 1 /\ r[n] = s[n + 1]
  BY <1>1, <1>2
<1>4. \A n \in DOMAIN s : n # 1 => n - 1 \in DOMAIN r /\ r[n - 1] = s[n]
  <2>1. ASSUME NEW n \in DOMAIN s, n # 1 PROVE n - 1 \in DOMAIN r /\ r[n - 1] = s[n]
    <3>1. n - 1 \in 1..(Len(s) - 1) /\ (n - 1) + 1 = n
      BY <1>1, <2>1
    <3> QED
      BY <1>1, <1>2, <3>1
  <2> QED
    BY <2>1
<1>5. Rng(s) = Rng(r) \cup {h} /\ h \in Rng(s)
  <2>1. ASSUME NEW n \in DOMAIN s PROVE s[n] \in Rng(r) \cup {h}
    BY <1>1, <1>4 DEF Rng
  <2>2. ASSUME NEW n \in DOMAIN r PROVE r[n] \in Rng(s)
    BY <1>3 DEF Rng
  <2>3. h \in Rng(s)
    BY <1>1, <1>2 DEF Rng
  <2> QED
    BY <2>1, <2>2, <2>3 DEF Rng
<1>6. ASSUME Distinct(s) PROVE Distinct(r) /\ h \notin Rng(r)
  <2>1. ASSUME NEW a \in DOMAIN r, NEW b \in DOMAIN r, r[a] = r[b] PROVE a = b
    <3>1. a + 1 = b + 1
      BY <1>3, <1>6, <2>1 DEF Distinct
    <3> QED
      BY <1>1, <1>2, <3>1
  <2>2. ASSUME NEW a \in DOMAIN r, r[a] = h PROVE FALSE
    BY <1>1, <1>2, <1>3, <1>6, <2>2 DEF Distinct
  <2> QED
    BY <2>1, <2>2 DEF Distinct, Rng
<1> QED
  BY <1>1, <1>5, <1>6 DEF r, h

Place == {<<"channel", 0>>, <<"lpchan", 0>>} \cup ({"queue", "wire"} \X Nat)

Class(m) == IF P!Low(m) THEN "lp" ELSE IF P!Priority(m) = "High" THEN "signal" ELSE "hp"
ClassOf(k) == IF k = 1 THEN "signal" ELSE IF k = 2 THEN "hp" ELSE "lp"

\* What may wait in a line.
Fits(x, m) ==
  /\ x = <<"lpchan", 0>> => P!Low(m)
  /\ x[1] \in {"queue", "wire"} => Class(m) = ClassOf(x[2])

\* No message is in two places, or in a line and gone.
Apart(C, gone) ==
  /\ \A x \in Place : /\ C[x] \in Seq(Message) /\ Distinct(C[x])
                      /\ \A m \in Rng(C[x]) : m \notin gone /\ Fits(x, m)
  /\ \A x, y \in Place : \A m \in Rng(C[x]) : m \in Rng(C[y]) => x = y

InLines(C) == UNION {Rng(C[x]) : x \in Place}

Longer(C, D, x, m) == D[x] = Append(C[x], m) /\ \A y \in Place : y # x => D[y] = C[y]
Shorter(C, D, x) == D[x] = Tail(C[x]) /\ \A y \in Place : y # x => D[y] = C[y]

LEMMA Came ==
  ASSUME NEW C, NEW D, NEW gone, NEW x \in Place, NEW m \in Message,
         Apart(C, gone), m \notin InLines(C), m \notin gone, Fits(x, m), Longer(C, D, x, m)
  PROVE  Apart(D, gone) /\ InLines(D) = InLines(C) \cup {m}
<1>0. D[x] = Append(C[x], m) /\ \A y \in Place : y # x => D[y] = C[y]
  BY DEF Longer
<1>1. /\ D[x] \in Seq(Message) /\ Rng(D[x]) = Rng(C[x]) \cup {m} /\ Distinct(D[x])
  <2>1. C[x] \in Seq(Message) /\ Distinct(C[x]) /\ m \notin Rng(C[x])
    BY DEF Apart, InLines
  <2> QED
    BY <1>0, <2>1, RngAppend
<1>2. InLines(D) = InLines(C) \cup {m}
  BY <1>0, <1>1 DEF InLines
<1>3. ASSUME NEW y \in Place
      PROVE  /\ D[y] \in Seq(Message) /\ Distinct(D[y])
             /\ \A n \in Rng(D[y]) : n \notin gone /\ Fits(y, n)
  BY <1>0, <1>1 DEF Apart
<1>4. ASSUME NEW y \in Place, NEW z \in Place, NEW n \in Rng(D[y]), n \in Rng(D[z])
      PROVE  y = z
  <2>1. CASE n = m
    <3>1. \A v \in Place : v # x => m \notin Rng(D[v])
      BY <1>0 DEF InLines
    <3> QED
      BY <1>4, <2>1, <3>1
  <2>2. CASE n # m
    <3>1. n \in Rng(C[y]) /\ n \in Rng(C[z])
      <4>1. \A v \in Place : \A u \in Rng(D[v]) : u # m => u \in Rng(C[v])
        BY <1>0, <1>1
      <4> QED
        BY <1>4, <2>2, <4>1
    <3> QED
      BY <3>1 DEF Apart
  <2> QED
    BY <2>1, <2>2
<1> QED
  BY <1>2, <1>3, <1>4 DEF Apart

LEMMA Went ==
  ASSUME NEW C, NEW D, NEW gone, NEW x \in Place,
         Apart(C, gone), C[x] # <<>>, Shorter(C, D, x)
  PROVE  /\ Head(C[x]) \in Message /\ Fits(x, Head(C[x])) /\ Head(C[x]) \notin gone
         /\ Apart(D, gone \cup {Head(C[x])}) /\ InLines(C) = InLines(D) \cup {Head(C[x])}
         /\ Head(C[x]) \notin InLines(D)
<1> DEFINE h == Head(C[x])
<1>0. D[x] = Tail(C[x]) /\ \A y \in Place : y # x => D[y] = C[y]
  BY DEF Shorter
<1>1. /\ D[x] \in Seq(Message) /\ Rng(C[x]) = Rng(D[x]) \cup {h} /\ Distinct(D[x])
      /\ h \notin Rng(D[x]) /\ h \in Message /\ h \in Rng(C[x])
  <2>1. C[x] \in Seq(Message) /\ Distinct(C[x])
    BY DEF Apart
  <2> QED
    BY <1>0, <2>1, RngTail
<1> HIDE DEF h
<1>2. \A y \in Place : Rng(D[y]) \subseteq Rng(C[y])
  BY <1>0, <1>1
<1>3. \A y \in Place : h \notin Rng(D[y])
  <2>1. \A y \in Place : y # x => h \notin Rng(C[y])
    BY <1>1 DEF Apart
  <2> QED
    BY <1>0, <1>1, <2>1
<1>4. InLines(C) = InLines(D) \cup {h}
  BY <1>0, <1>1 DEF InLines
<1>5. ASSUME NEW y \in Place
      PROVE  /\ D[y] \in Seq(Message) /\ Distinct(D[y])
             /\ \A n \in Rng(D[y]) : n \notin gone \cup {h} /\ Fits(y, n)
  BY <1>0, <1>1, <1>2, <1>3 DEF Apart
<1>6. ASSUME NEW y \in Place, NEW z \in Place, NEW n \in Rng(D[y]), n \in Rng(D[z])
      PROVE  y = z
  BY <1>2, <1>6 DEF Apart
<1>7. h \notin InLines(D)
  BY <1>3 DEF InLines
<1>8. Fits(x, h) /\ h \notin gone
  BY <1>1 DEF Apart
<1> QED
  BY <1>1, <1>4, <1>5, <1>6, <1>7, <1>8 DEF Apart, h

Along(C, D, x, y) ==
  /\ x # y /\ D[x] = Tail(C[x]) /\ D[y] = Append(C[y], Head(C[x]))
  /\ \A z \in Place : z # x /\ z # y => D[z] = C[z]

LEMMA Passed ==
  ASSUME NEW C, NEW D, NEW gone, NEW x \in Place, NEW y \in Place,
         Apart(C, gone), C[x] # <<>>, Fits(y, Head(C[x])), Along(C, D, x, y)
  PROVE  Apart(D, gone) /\ InLines(D) = InLines(C)
<1> DEFINE h == Head(C[x])
           B == [z \in Place |-> IF z = x THEN Tail(C[x]) ELSE C[z]]
<1>0. B[x] = Tail(C[x]) /\ \A z \in Place : z # x => B[z] = C[z]
  OBVIOUS
<1> HIDE DEF B
<1>1. Shorter(C, B, x)
  BY <1>0 DEF Shorter
<1>2. /\ h \in Message /\ h \notin gone /\ Apart(B, gone \cup {h}) /\ InLines(C) = InLines(B) \cup {h}
      /\ h \notin InLines(B)
  BY <1>1, Went
<1>3. Apart(B, gone)
  BY <1>2 DEF Apart
<1>4. Longer(B, D, y, h)
  BY <1>0 DEF Longer, Along
<1> HIDE DEF h
<1>5. Fits(y, h)
  BY DEF h
<1>6. Apart(D, gone) /\ InLines(D) = InLines(B) \cup {h}
  BY <1>2, <1>3, <1>4, <1>5, Came
<1> QED
  BY <1>2, <1>6

(***************************************************************************)
(* The positions in the lines of some streams, and their number.           *)
(***************************************************************************)
Pairs(f, K) == UNION {{k} \X DOMAIN f[k] : k \in K}
Lining(f, K) == \A k \in K : f[k] \in Seq(Message)

LEMMA PairIs ==
  ASSUME NEW f, NEW K, NEW z
  PROVE  z \in Pairs(f, K) <=> \E k \in K : \E n \in DOMAIN f[k] : z = <<k, n>>
  BY DEF Pairs

\* One line more, or a line that is longer by one.
Grows(f, g, K, k) ==
  /\ Lining(f, K \cup {k}) /\ Lining(g, K \cup {k})
  /\ k \notin K => f[k] = <<>>
  /\ Len(g[k]) = Len(f[k]) + 1
  /\ \A j \in K : j # k => Len(g[j]) = Len(f[j])

GrowsFinite(f, g, K, k) == Grows(f, g, K, k) /\ IsFiniteSet(Pairs(f, K))

LEMMA PairsMore ==
  ASSUME NEW f, NEW g, NEW K, NEW k, GrowsFinite(f, g, K, k)
  PROVE  /\ IsFiniteSet(Pairs(g, K \cup {k}))
         /\ Cardinality(Pairs(g, K \cup {k})) = Cardinality(Pairs(f, K)) + 1
<1>0. Grows(f, g, K, k) /\ IsFiniteSet(Pairs(f, K))
  BY DEF GrowsFinite
<1> DEFINE l == Len(f[k])
           L == K \cup {k}
<1>1. /\ l \in Nat /\ DOMAIN f[k] = 1..l /\ DOMAIN g[k] = 1..(l + 1)
      /\ \A j \in K : j # k => DOMAIN g[j] = DOMAIN f[j]
  <2>1. ASSUME NEW j \in L PROVE /\ DOMAIN f[j] = 1..Len(f[j]) /\ DOMAIN g[j] = 1..Len(g[j])
                                 /\ Len(f[j]) \in Nat
    <3>1. f[j] \in Seq(Message) /\ g[j] \in Seq(Message)
      BY <1>0, <2>1 DEF Grows, Lining
    <3> QED
      BY <3>1
  <2>2. l \in Nat /\ DOMAIN f[k] = 1..l /\ Len(g[k]) = l + 1
    BY <1>0, <2>1 DEF Grows
  <2>3. \A j \in K : j # k => DOMAIN g[j] = DOMAIN f[j]
    BY <1>0, <2>1 DEF Grows
  <2> QED
    BY <2>1, <2>2, <2>3
<1>2. k \notin K => l = 0
  BY <1>0 DEF Grows
<1> HIDE DEF l
<1> DEFINE A == Pairs(f, K)
           B == Pairs(g, L)
           new == <<k, l + 1>>
<1>3. ASSUME NEW z PROVE z \in B <=> z \in A \cup {new}
  <2>1. z \in A <=> \E j \in K : \E n \in DOMAIN f[j] : z = <<j, n>>
    BY PairIs
  <2>2. z \in B <=> \E j \in L : \E n \in DOMAIN g[j] : z = <<j, n>>
    <3> HIDE DEF L
    <3> QED
      BY PairIs
  <2>3. ASSUME NEW j \in L, NEW n \in DOMAIN g[j], z = <<j, n>> PROVE z \in A \cup {new}
    <3>1. CASE j # k
      BY <1>1, <2>1, <2>3, <3>1
    <3>2. CASE j = k /\ n = l + 1
      BY <2>3, <3>2
    <3>3. CASE j = k /\ n # l + 1
      <4>1. n \in 1..l
        BY <1>1, <3>3
      <4>2. k \in K /\ n \in DOMAIN f[k]
        BY <1>1, <1>2, <4>1
      <4> QED
        BY <2>1, <2>3, <3>3, <4>2
    <3> QED
      BY <3>1, <3>2, <3>3
  <2>4. ASSUME NEW j \in K, NEW n \in DOMAIN f[j], z = <<j, n>> PROVE z \in B
    <3>1. n \in DOMAIN g[j]
      BY <1>1
    <3> QED
      BY <2>2, <2>4, <3>1
  <2>5. new \in B
    <3>1. l + 1 \in DOMAIN g[k]
      BY <1>1
    <3>2. new \in B <=> \E j \in L : \E n \in DOMAIN g[j] : new = <<j, n>>
      <4> HIDE DEF L, new
      <4> QED
        BY PairIs
    <3> QED
      BY <3>1, <3>2
  <2> QED
    BY <2>1, <2>2, <2>3, <2>4, <2>5
<1>4. new \notin A
  <2>1. new \in A <=> \E j \in K : \E n \in DOMAIN f[j] : new = <<j, n>>
    <3> HIDE DEF new
    <3> QED
      BY PairIs
  <2>2. l + 1 \notin DOMAIN f[k]
    BY <1>1
  <2> QED
    BY <2>1, <2>2
<1> HIDE DEF A, B, new
<1>5. B = A \cup {new}
  BY <1>3
<1>6. IsFiniteSet(A)
  BY <1>0 DEF A
<1>7. IsFiniteSet(B) /\ Cardinality(B) = Cardinality(A) + 1
  BY <1>4, <1>5, <1>6, FS_AddElement
<1> QED
  BY <1>7 DEF A, B

LEMMA PairsSame ==
  ASSUME NEW f, NEW g, NEW K, Lining(f, K), Lining(g, K),
         \A j \in K : Len(g[j]) = Len(f[j])
  PROVE  Pairs(g, K) = Pairs(f, K)
<1>1. ASSUME NEW j \in K PROVE DOMAIN g[j] = DOMAIN f[j]
  <2>1. f[j] \in Seq(Message) /\ g[j] \in Seq(Message)
    BY DEF Lining
  <2>2. DOMAIN f[j] = 1..Len(f[j]) /\ DOMAIN g[j] = 1..Len(g[j])
    BY <2>1
  <2> QED
    BY <2>2
<1> QED
  BY <1>1 DEF Pairs

LEMMA PairsFewer ==
  ASSUME NEW f, NEW g, NEW K, NEW k \in K, Grows(g, f, K, k), IsFiniteSet(Pairs(f, K))
  PROVE  /\ IsFiniteSet(Pairs(g, K))
         /\ Cardinality(Pairs(f, K)) = Cardinality(Pairs(g, K)) + 1
<1>1. Pairs(g, K) \subseteq Pairs(f, K)
  <2>1. ASSUME NEW j \in K PROVE DOMAIN g[j] \subseteq DOMAIN f[j]
    <3>1. f[j] \in Seq(Message) /\ g[j] \in Seq(Message)
      BY DEF Grows, Lining
    <3>2. /\ DOMAIN f[j] = 1..Len(f[j]) /\ DOMAIN g[j] = 1..Len(g[j])
          /\ Len(f[j]) \in Nat /\ Len(g[j]) \in Nat
      BY <3>1
    <3>3. Len(f[j]) = Len(g[j]) \/ Len(f[j]) = Len(g[j]) + 1
      BY DEF Grows
    <3> QED
      BY <3>2, <3>3
  <2> QED
    BY <2>1 DEF Pairs
<1>2. IsFiniteSet(Pairs(g, K))
  BY <1>1, FS_Subset
<1>3. K \cup {k} = K
  OBVIOUS
<1>6. Cardinality(Pairs(f, K \cup {k})) = Cardinality(Pairs(g, K)) + 1
  BY <1>2, PairsMore DEF GrowsFinite
<1> QED
  BY <1>2, <1>3, <1>6

-----------------------------------------------------------------------------
\* The lines of the streams.
Queues(strs) == [k \in Nat |-> IF k \in DOMAIN strs THEN strs[k].queue ELSE <<>>]
Wires(strs) == [k \in Nat |-> IF k \in DOMAIN strs THEN strs[k].wire ELSE <<>>]

Lines(ch, lp, q, w) ==
  [x \in Place |-> IF x = <<"channel", 0>> THEN ch ELSE IF x = <<"lpchan", 0>> THEN lp
                   ELSE IF x[1] = "queue" THEN q[x[2]] ELSE w[x[2]]]

LEMMA LinesAre ==
  ASSUME NEW ch, NEW lp, NEW q, NEW w
  PROVE  /\ Lines(ch, lp, q, w)[<<"channel", 0>>] = ch
         /\ Lines(ch, lp, q, w)[<<"lpchan", 0>>] = lp
         /\ \A k \in Nat : /\ Lines(ch, lp, q, w)[<<"queue", k>>] = q[k]
                           /\ Lines(ch, lp, q, w)[<<"wire", k>>] = w[k]
  BY DEF Lines, Place

LEMMA PlaceIs ==
  /\ <<"channel", 0>> \in Place /\ <<"lpchan", 0>> \in Place
  /\ \A k \in Nat : <<"queue", k>> \in Place /\ <<"wire", k>> \in Place
  /\ \A x \in Place : \/ x = <<"channel", 0>> \/ x = <<"lpchan", 0>>
                      \/ \E k \in Nat : x = <<"queue", k>> \/ x = <<"wire", k>>
<1>1. ASSUME NEW x \in {"queue", "wire"} \X Nat
      PROVE  \E k \in Nat : x = <<"queue", k>> \/ x = <<"wire", k>>
  <2>1. PICK s \in {"queue", "wire"}, k \in Nat : x = <<s, k>>
    OBVIOUS
  <2> QED
    BY <2>1
<1> QED
  BY <1>1 DEF Place

Tally(f, K) == Cardinality(Pairs(f, K))
OneMore(f, g, k) == Len(g[k]) = Len(f[k]) + 1 /\ \A j \in Nat : j # k => g[j] = f[j]

\* Grown by one.
OneLarger(S, T) == IsFiniteSet(T) /\ Cardinality(T) = Cardinality(S) + 1
GrewByOne(f, g, K, k) == OneLarger(Pairs(f, K), Pairs(g, K \cup {k}))

LEMMA PairsGrow ==
  ASSUME NEW f, NEW g, NEW K, NEW k
  PROVE  GrowsFinite(f, g, K, k) => GrewByOne(f, g, K, k)
  BY PairsMore DEF GrewByOne, OneLarger

LEMMA Ranges ==
  ASSUME NEW n \in Nat, NEW m \in Nat, NEW k \in 1..m, n >= 2, m = n \/ (m = n + 1 /\ k = m)
  PROVE  /\ (1..n) \cup {k} = 1..m /\ (k \in 1..n \/ k = n + 1) /\ k \in Nat
         /\ {1, 2} \subseteq 1..n /\ 3..n \subseteq 1..n /\ 1..n \subseteq Nat
         /\ k <= 2 => k \in {1, 2} /\ m = n /\ k \notin 3..n
         /\ ~(k <= 2) => (3..n) \cup {k} = 3..m /\ (k \in 3..n \/ k = n + 1) /\ k \notin {1, 2}
  OBVIOUS

\* In the n streams with lines f, of the m with lines g the k-th has one more.
MayTally(f, g, n, m, k) ==
  /\ f \in [Nat -> Seq(Message)] /\ g \in [Nat -> Seq(Message)]
  /\ n \in Nat /\ m \in Nat /\ k \in 1..m /\ n >= 2
  /\ m = n \/ (m = n + 1 /\ k = m)
  /\ \A j \in Nat : j > n => f[j] = <<>>
  /\ OneMore(f, g, k) /\ IsFiniteSet(Pairs(f, 1..n))

TalliesMore(f, g, n, m, k) ==
  /\ IsFiniteSet(Pairs(g, 1..m)) /\ Tally(g, 1..m) = Tally(f, 1..n) + 1
  /\ Tally(g, {1, 2}) = Tally(f, {1, 2}) + (IF k <= 2 THEN 1 ELSE 0)
  /\ Tally(g, 3..m) = Tally(f, 3..n) + (IF k <= 2 THEN 0 ELSE 1)

LEMMA TallyMore ==
  ASSUME NEW f, NEW g, NEW n, NEW m, NEW k, MayTally(f, g, n, m, k)
  PROVE  TalliesMore(f, g, n, m, k)
<1> /\ f \in [Nat -> Seq(Message)] /\ g \in [Nat -> Seq(Message)]
    /\ n \in Nat /\ m \in Nat /\ k \in 1..m /\ n >= 2
    /\ m = n \/ (m = n + 1 /\ k = m)
    /\ \A j \in Nat : j > n => f[j] = <<>>
    /\ OneMore(f, g, k) /\ IsFiniteSet(Pairs(f, 1..n))
  BY DEF MayTally
<1>0. Len(g[k]) = Len(f[k]) + 1 /\ \A j \in Nat : j # k => g[j] = f[j]
  BY DEF OneMore
<1>9. /\ (1..n) \cup {k} = 1..m /\ (k \in 1..n \/ k = n + 1) /\ k \in Nat
      /\ {1, 2} \subseteq 1..n /\ 3..n \subseteq 1..n /\ 1..n \subseteq Nat
      /\ k <= 2 => k \in {1, 2} /\ m = n /\ k \notin 3..n
      /\ ~(k <= 2) => (3..n) \cup {k} = 3..m /\ (k \in 3..n \/ k = n + 1) /\ k \notin {1, 2}
  BY Ranges
<1>1. \A K : K \subseteq Nat => Lining(f, K) /\ Lining(g, K)
  BY DEF Lining
<1>2. \A j \in Nat : j # k => Len(g[j]) = Len(f[j])
  BY <1>0
<1>3. \A K : K \subseteq 1..n => IsFiniteSet(Pairs(f, K))
  <2>1. \A K : K \subseteq 1..n => Pairs(f, K) \subseteq Pairs(f, 1..n)
    BY DEF Pairs
  <2> SUFFICES ASSUME NEW K, K \subseteq 1..n PROVE IsFiniteSet(Pairs(f, K))
    OBVIOUS
  <2>2. Pairs(f, K) \subseteq Pairs(f, 1..n)
    BY <2>1
  <2> QED
    BY <2>2, FS_Subset
<1>4. ASSUME NEW K, K \subseteq 1..n, k \in K \/ k = n + 1
      PROVE  /\ IsFiniteSet(Pairs(g, K \cup {k})) /\ Tally(g, K \cup {k}) = Tally(f, K) + 1
  <2>1. Lining(f, K \cup {k}) /\ Lining(g, K \cup {k})
    <3>1. K \cup {k} \subseteq Nat
      BY <1>4, <1>9
    <3> QED
      BY <1>1, <3>1
  <2>2. k \notin K => f[k] = <<>>
    BY <1>4, <1>9
  <2>3. \A j \in K : j # k => Len(g[j]) = Len(f[j])
    BY <1>2, <1>4, <1>9
  <2>4. Len(g[k]) = Len(f[k]) + 1 /\ IsFiniteSet(Pairs(f, K))
    BY <1>0, <1>3, <1>4
  <2>5. /\ IsFiniteSet(Pairs(g, K \cup {k}))
        /\ Cardinality(Pairs(g, K \cup {k})) = Cardinality(Pairs(f, K)) + 1
    <3>1. GrowsFinite(f, g, K, k)
      BY <2>1, <2>2, <2>3, <2>4 DEF Grows, GrowsFinite
    <3>2. GrowsFinite(f, g, K, k) => GrewByOne(f, g, K, k)
      BY PairsGrow
    <3> QED
      BY <3>1, <3>2 DEF GrewByOne, OneLarger
  <2> QED
    BY <2>5 DEF Tally
<1>5. ASSUME NEW K, K \subseteq Nat, k \notin K
      PROVE  Tally(g, K) = Tally(f, K)
  <2>1. \A j \in K : Len(g[j]) = Len(f[j])
    BY <1>2, <1>5
  <2>2. Pairs(g, K) = Pairs(f, K)
    BY <1>1, <1>5, <2>1, PairsSame
  <2> QED
    BY <2>2 DEF Tally
<1>6. IsFiniteSet(Pairs(g, 1..m)) /\ Tally(g, 1..m) = Tally(f, 1..n) + 1
  <2>1. (1..n) \cup {k} = 1..m /\ (k \in 1..n \/ k = n + 1)
    BY <1>9
  <2>2. IsFiniteSet(Pairs(g, (1..n) \cup {k})) /\ Tally(g, (1..n) \cup {k}) = Tally(f, 1..n) + 1
    BY <1>4, <2>1
  <2> QED
    BY <2>1, <2>2
<1>7. CASE k <= 2
  <2>1. k \in {1, 2} /\ {1, 2} \cup {k} = {1, 2} /\ {1, 2} \subseteq 1..n
    BY <1>7, <1>9
  <2>2. Tally(g, {1, 2} \cup {k}) = Tally(f, {1, 2}) + 1
    BY <1>4, <2>1
  <2>3. 3..m = 3..n /\ k \notin 3..n /\ 3..n \subseteq Nat
    BY <1>7, <1>9
  <2>4. Tally(g, 3..n) = Tally(f, 3..n)
    BY <1>5, <2>3
  <2>5. Tally(f, 3..n) \in Nat
    <3>2. IsFiniteSet(Pairs(f, 3..n))
      BY <1>3, <1>9
    <3> QED
      BY <3>2, FS_CardinalityType DEF Tally
  <2>6. Tally(g, {1, 2}) = Tally(f, {1, 2}) + 1
    BY <2>1, <2>2
  <2> HIDE DEF Tally
  <2> QED
    <3>1. (IF k <= 2 THEN 1 ELSE 0) = 1 /\ (IF k <= 2 THEN 0 ELSE 1) = 0
      BY <1>7
    <3>2. Tally(g, 3..m) = Tally(f, 3..n) + 0
      <4>1. m = n
        BY <1>7, <1>9
      <4> QED
        BY <2>4, <2>5, <4>1
    <3> QED
      BY <1>6, <2>6, <3>1, <3>2 DEF TalliesMore
<1>8. CASE ~(k <= 2)
  <2>1. (3..n) \cup {k} = 3..m /\ (k \in 3..n \/ k = n + 1) /\ 3..n \subseteq 1..n
    BY <1>8, <1>9
  <2>2. Tally(g, (3..n) \cup {k}) = Tally(f, 3..n) + 1
    BY <1>4, <2>1
  <2>3. k \notin {1, 2} /\ {1, 2} \subseteq Nat /\ {1, 2} \subseteq 1..n
    BY <1>8, <1>9
  <2>4. Tally(g, {1, 2}) = Tally(f, {1, 2})
    BY <1>5, <2>3
  <2>5. Tally(f, {1, 2}) \in Nat
    <3>2. IsFiniteSet(Pairs(f, {1, 2}))
      BY <1>3, <2>3
    <3> QED
      BY <3>2, FS_CardinalityType DEF Tally
  <2>6. Tally(g, 3..m) = Tally(f, 3..n) + 1
    BY <2>1, <2>2
  <2> HIDE DEF Tally
  <2> QED
    <3>1. (IF k <= 2 THEN 1 ELSE 0) = 0 /\ (IF k <= 2 THEN 0 ELSE 1) = 1
      BY <1>8
    <3>2. Tally(g, {1, 2}) = Tally(f, {1, 2}) + 0
      BY <2>4, <2>5
    <3> QED
      BY <1>6, <2>6, <3>1, <3>2 DEF TalliesMore
<1> QED
  BY <1>7, <1>8 DEF TalliesMore

MayTallyLess(f, g, n, k) ==
  /\ f \in [Nat -> Seq(Message)] /\ g \in [Nat -> Seq(Message)]
  /\ n \in Nat /\ k \in 1..n /\ n >= 2
  /\ \A j \in Nat : j > n => g[j] = <<>>
  /\ OneMore(g, f, k) /\ IsFiniteSet(Pairs(f, 1..n))

LEMMA TallyFewer ==
  ASSUME NEW f, NEW g, NEW n, NEW k, MayTallyLess(f, g, n, k)
  PROVE  IsFiniteSet(Pairs(g, 1..n)) /\ TalliesMore(g, f, n, n, k)
<1> /\ f \in [Nat -> Seq(Message)] /\ g \in [Nat -> Seq(Message)]
    /\ n \in Nat /\ k \in 1..n /\ n >= 2
    /\ \A j \in Nat : j > n => g[j] = <<>>
    /\ OneMore(g, f, k) /\ IsFiniteSet(Pairs(f, 1..n))
  BY DEF MayTallyLess
<1>1. IsFiniteSet(Pairs(g, 1..n))
  <2>1. Lining(f, 1..n) /\ Lining(g, 1..n)
    <3>1. 1..n \subseteq Nat
      OBVIOUS
    <3> QED
      BY <3>1 DEF Lining
  <2> DEFINE K == 1..n
  <2>2. k \in K /\ K \cup {k} = K /\ IsFiniteSet(Pairs(f, K)) /\ K \subseteq Nat
    BY Ranges
  <2>3. Lining(f, K) /\ Lining(g, K)
    BY <2>1
  <2> HIDE DEF K
  <2>4. Grows(g, f, K, k)
    BY <2>2, <2>3 DEF Grows, OneMore
  <2>5. IsFiniteSet(Pairs(g, K))
    BY <2>2, <2>4, PairsFewer
  <2> QED
    BY <2>5 DEF K
<1>2. MayTally(g, f, n, n, k)
  BY <1>1 DEF MayTally
<1> QED
  BY <1>1, <1>2, TallyMore

LEMMA TallyNat ==
  ASSUME NEW f, NEW n \in Nat, n >= 2, IsFiniteSet(Pairs(f, 1..n))
  PROVE  Tally(f, 1..n) \in Nat /\ Tally(f, {1, 2}) \in Nat /\ Tally(f, 3..n) \in Nat
<1>1. Pairs(f, {1, 2}) \subseteq Pairs(f, 1..n) /\ Pairs(f, 3..n) \subseteq Pairs(f, 1..n)
  BY DEF Pairs
<1>2. IsFiniteSet(Pairs(f, {1, 2}))
  BY <1>1, FS_Subset
<1>3. IsFiniteSet(Pairs(f, 3..n))
  BY <1>1, FS_Subset
<1> QED
  BY <1>2, <1>3, FS_CardinalityType DEF Tally

-----------------------------------------------------------------------------
LEMMA StreamSeq ==
  ASSUME NEW strs \in Seq(Stream)
  PROVE  /\ Len(strs) \in Nat /\ DOMAIN strs = 1..Len(strs)
         /\ \A k \in DOMAIN strs : /\ strs[k] \in Stream
                                   /\ strs[k].queue \in Seq(Message) /\ strs[k].wire \in Seq(Message)
         /\ Queues(strs) \in [Nat -> Seq(Message)] /\ Wires(strs) \in [Nat -> Seq(Message)]
         /\ \A k \in DOMAIN strs : k \in Nat /\ Queues(strs)[k] = strs[k].queue
                                   /\ Wires(strs)[k] = strs[k].wire
         /\ \A j \in Nat : j > Len(strs) => Queues(strs)[j] = <<>> /\ Wires(strs)[j] = <<>>
<1>1. Len(strs) \in Nat /\ DOMAIN strs = 1..Len(strs)
  OBVIOUS
<1>2. \A k \in DOMAIN strs : strs[k] \in Stream
  BY <1>1
<1>3. \A k \in DOMAIN strs : strs[k].queue \in Seq(Message) /\ strs[k].wire \in Seq(Message)
  BY <1>2 DEF Stream, StreamOver
<1>4. Queues(strs) \in [Nat -> Seq(Message)] /\ Wires(strs) \in [Nat -> Seq(Message)]
  BY <1>3 DEF Queues, Wires
<1>5. \A k \in DOMAIN strs : k \in Nat /\ Queues(strs)[k] = strs[k].queue
                             /\ Wires(strs)[k] = strs[k].wire
  BY <1>1 DEF Queues, Wires
<1>6. \A j \in Nat : j > Len(strs) => Queues(strs)[j] = <<>> /\ Wires(strs)[j] = <<>>
  BY <1>1 DEF Queues, Wires
<1> QED
  BY <1>1, <1>2, <1>3, <1>4, <1>5, <1>6

\* A stream with another queue and wire.
Changed(strs, next, k, x, y) ==
  /\ k \in DOMAIN strs /\ next \in Seq(Stream) /\ DOMAIN next = DOMAIN strs /\ Len(next) = Len(strs)
  /\ \A j \in DOMAIN strs : /\ next[j].session = strs[j].session
                            /\ j # k => next[j].queue = strs[j].queue /\ next[j].wire = strs[j].wire
  /\ next[k].queue = x /\ next[k].wire = y

LEMMA ChangedIs ==
  ASSUME NEW strs \in Seq(Stream), NEW k \in DOMAIN strs,
         NEW x \in Seq(Message), NEW y \in Seq(Message)
  PROVE  LET next == [strs EXCEPT ![k] = [strs[k] EXCEPT !.queue = x, !.wire = y]]
         IN Changed(strs, next, k, x, y) /\ SameStreams(strs, next)
<1> DEFINE st == [strs[k] EXCEPT !.queue = x, !.wire = y]
           next == [strs EXCEPT ![k] = st]
<1>1. strs[k] \in Stream /\ DOMAIN strs = 1..Len(strs) /\ Len(strs) \in Nat
  BY StreamSeq
<1>2. /\ st \in Stream /\ st.queue = x /\ st.wire = y /\ st.session = strs[k].session
      /\ st.epoch = strs[k].epoch /\ st.open = strs[k].open
  <2> DEFINE Q == Seq(Message)
  <2>1. x \in Q /\ y \in Q /\ strs[k] \in StreamOver(Q)
    BY <1>1 DEF Stream
  <2>2. Stream = StreamOver(Q)
    BY DEF Stream
  <2> HIDE DEF Q
  <2> QED
    BY <2>1, <2>2 DEF StreamOver
<1> HIDE DEF st
<1>3. SameStreams(strs, next)
  BY <1>2, StreamChanged
<1>4. next \in Seq(Stream) /\ DOMAIN next = DOMAIN strs
  BY <1>3 DEF SameStreams
<1>5. Len(next) = Len(strs)
  <2>1. Len(next) \in Nat /\ DOMAIN next = 1..Len(next)
    BY <1>4, StreamSeq
  <2> QED
    BY <1>1, <1>4, <2>1
<1>6. \A j \in DOMAIN strs : next[j] = IF j = k THEN st ELSE strs[j]
  OBVIOUS
<1> HIDE DEF next
<1>7. Changed(strs, next, k, x, y)
  BY <1>2, <1>4, <1>5, <1>6 DEF Changed
<1> QED
  BY <1>3, <1>7 DEF next, st

\* The streams of signals and of dispersals, and then those of chunks.
Sessions(strs) ==
  /\ strs \in Seq(Stream) /\ Len(strs) \in Nat /\ Len(strs) >= 2
  /\ \A k \in DOMAIN strs : strs[k].session = ClassOf(k)

\* The k-th stream has another queue and wire; it may be new.
Became(strs, next, k, x, y) ==
  /\ Sessions(next)
  /\ Queues(next) = [Queues(strs) EXCEPT ![k] = x]
  /\ Wires(next) = [Wires(strs) EXCEPT ![k] = y]
  /\ k \in 1..Len(next)
  /\ Len(next) = Len(strs) \/ (Len(next) = Len(strs) + 1 /\ k = Len(next))

OneOther(strs, next, k, x, y) ==
  /\ k \in Nat /\ DOMAIN next = DOMAIN strs \cup {k} /\ next[k].queue = x /\ next[k].wire = y
  /\ \A j \in DOMAIN strs : j # k => next[j].queue = strs[j].queue /\ next[j].wire = strs[j].wire

LinesOther(strs, next, k, x, y) ==
  /\ Queues(next) = [Queues(strs) EXCEPT ![k] = x]
  /\ Wires(next) = [Wires(strs) EXCEPT ![k] = y]

LEMMA LinesChange ==
  ASSUME NEW strs, NEW next, NEW k, NEW x, NEW y, OneOther(strs, next, k, x, y)
  PROVE  LinesOther(strs, next, k, x, y)
<1>0. /\ k \in Nat /\ DOMAIN next = DOMAIN strs \cup {k} /\ next[k].queue = x /\ next[k].wire = y
      /\ \A j \in DOMAIN strs : j # k => next[j].queue = strs[j].queue /\ next[j].wire = strs[j].wire
  BY DEF OneOther
<1>1. \A j \in Nat : Queues(next)[j] = IF j = k THEN x ELSE Queues(strs)[j]
  BY <1>0 DEF Queues
<1>2. \A j \in Nat : Wires(next)[j] = IF j = k THEN y ELSE Wires(strs)[j]
  BY <1>0 DEF Wires
<1>3. Queues(next) = [j \in Nat |-> IF j = k THEN x ELSE Queues(strs)[j]]
  <2>1. Queues(next) = [j \in Nat |-> Queues(next)[j]]
    BY DEF Queues
  <2> QED
    BY <1>1, <2>1
<1>4. Wires(next) = [j \in Nat |-> IF j = k THEN y ELSE Wires(strs)[j]]
  <2>1. Wires(next) = [j \in Nat |-> Wires(next)[j]]
    BY DEF Wires
  <2> QED
    BY <1>2, <2>1
<1>5. DOMAIN Queues(strs) = Nat /\ DOMAIN Wires(strs) = Nat
  BY DEF Queues, Wires
<1> QED
  BY <1>0, <1>3, <1>4, <1>5 DEF LinesOther

LEMMA ChangedBecame ==
  ASSUME NEW strs, NEW next, NEW k, NEW x, NEW y, Sessions(strs), Changed(strs, next, k, x, y)
  PROVE  Became(strs, next, k, x, y)
<1>1. DOMAIN strs = 1..Len(strs) /\ Len(strs) \in Nat
  BY StreamSeq DEF Sessions
<1>2. k \in Nat /\ k \in DOMAIN strs
  BY <1>1 DEF Changed
<1>3. LinesOther(strs, next, k, x, y)
  <2>1. OneOther(strs, next, k, x, y)
    BY <1>2 DEF Changed, OneOther
  <2> QED
    BY <2>1, LinesChange
<1>4. Sessions(next) /\ Len(next) = Len(strs)
  BY DEF Sessions, Changed
<1> QED
  BY <1>1, <1>2, <1>3, <1>4 DEF Became, LinesOther

\* A new stream.
LEMMA AddedBecame ==
  ASSUME NEW strs, Sessions(strs), NEW st \in Stream, st.session = "lp"
  PROVE  Became(strs, Append(strs, st), Len(strs) + 1, st.queue, st.wire)
<1> DEFINE next == Append(strs, st)
           l == Len(strs)
           x == st.queue
           y == st.wire
<1>1. /\ next \in Seq(Stream) /\ DOMAIN next = 1..(l + 1) /\ DOMAIN strs = 1..l /\ l \in Nat
      /\ next[l + 1] = st /\ (\A k \in 1..l : next[k] = strs[k]) /\ l >= 2
      /\ Len(next) = l + 1
  <2>1. /\ strs \in Seq(Stream) /\ l \in Nat /\ l >= 2 /\ DOMAIN strs = 1..l
        /\ \A k \in 1..l : strs[k] \in Stream
    BY StreamSeq DEF Sessions
  <2>2. DOMAIN next = 1..(l + 1) /\ next[l + 1] = st /\ \A k \in 1..l : next[k] = strs[k]
    BY <2>1, AppendIs
  <2>3. next \in Seq(Stream) /\ Len(next) = l + 1
    <3> DEFINE T == Stream
    <3>1. strs \in Seq(T) /\ st \in T
      BY <2>1
    <3> HIDE DEF T
    <3>2. Append(strs, st) \in Seq(T) /\ Len(Append(strs, st)) = Len(strs) + 1
      BY <3>1
    <3> QED
      BY <3>2 DEF T
  <2> QED
    BY <2>1, <2>2, <2>3
<1> HIDE DEF next
<1>2. DOMAIN next = DOMAIN strs \cup {l + 1} /\ l + 1 \notin DOMAIN strs /\ l + 1 \in Nat
  BY <1>1
<1>3. LinesOther(strs, next, l + 1, x, y)
  <2> DEFINE k == l + 1
  <2>1. OneOther(strs, next, k, x, y)
    BY <1>1, <1>2 DEF OneOther
  <2> HIDE DEF k
  <2>2. LinesOther(strs, next, k, x, y)
    BY <2>1, LinesChange
  <2> QED
    BY <2>2 DEF k
<1>4. Sessions(next)
  <2>1. ASSUME NEW k \in DOMAIN next PROVE next[k].session = ClassOf(k)
    <3>1. CASE k \in DOMAIN strs
      BY <1>1, <3>1 DEF Sessions
    <3>2. CASE k = l + 1
      <4>1. k # 1 /\ k # 2 /\ next[k].session = "lp"
        BY <1>1, <3>2
      <4> QED
        BY <4>1 DEF ClassOf
    <3> QED
      BY <1>2, <3>1, <3>2
  <2>2. Len(next) \in Nat /\ Len(next) >= 2
    BY <1>1
  <2> QED
    BY <1>1, <2>1, <2>2 DEF Sessions
<1>5. Len(next) = l + 1 /\ l + 1 \in 1..Len(next)
  BY <1>1
<1> HIDE DEF x, y, l
<1>6. Became(strs, next, l + 1, x, y)
  BY <1>3, <1>4, <1>5 DEF Became, LinesOther, l
<1> QED
  BY <1>6 DEF next, x, y, l

\* Closing a stream leaves its lines.
LEMMA ClosedSame ==
  ASSUME NEW strs, Sessions(strs)
  PROVE  /\ Sessions(P!Trimmed(strs)) /\ Queues(P!Trimmed(strs)) = Queues(strs)
         /\ Wires(P!Trimmed(strs)) = Wires(strs) /\ Len(P!Trimmed(strs)) = Len(strs)
<1> DEFINE first == CHOOSE k \in P!Active(strs) :
                      \A j \in P!Active(strs) : strs[k].epoch <= strs[j].epoch
           next == [strs EXCEPT ![first].open = FALSE]
           next2 == P!Trimmed(strs)
<1>1. next2 = strs \/ next2 = next
  BY DEF P!Trimmed
<1> HIDE DEF first, next2
<1> DEFINE closed == [strs[first] EXCEPT !.open = FALSE]
<1>2. /\ strs \in Seq(Stream) /\ DOMAIN strs = 1..Len(strs) /\ Len(strs) \in Nat
      /\ \A k \in DOMAIN strs : strs[k] \in Stream
  BY StreamSeq DEF Sessions
<1>3. CASE next2 = strs
  BY <1>3 DEF next2
<1>4. CASE first \notin DOMAIN strs /\ next2 = next
  <2>1. next = strs
    BY <1>2, <1>4
  <2> QED
    BY <1>4, <2>1 DEF next2
<1>5. CASE first \in DOMAIN strs /\ next2 = next
  <2>1. /\ closed \in Stream /\ closed.session = strs[first].session
        /\ closed.queue = strs[first].queue /\ closed.wire = strs[first].wire
    BY <1>2, <1>5 DEF Stream, StreamOver
  <2>2. next = [strs EXCEPT ![first] = closed]
    OBVIOUS
  <2> HIDE DEF next, closed
  <2>3. next \in Seq(Stream) /\ DOMAIN next = DOMAIN strs /\ Len(next) = Len(strs)
    BY <1>2, <1>5, <2>1, <2>2
  <2>4. \A j \in DOMAIN strs : next[j] = IF j = first THEN closed ELSE strs[j]
    BY <1>2, <2>2
  <2>5. \A j \in DOMAIN strs : /\ next[j].session = strs[j].session
                               /\ next[j].queue = strs[j].queue /\ next[j].wire = strs[j].wire
    BY <2>1, <2>4
  <2>6. Queues(next) = Queues(strs) /\ Wires(next) = Wires(strs)
    BY <2>3, <2>5 DEF Queues, Wires
  <2>7. Sessions(next)
    BY <2>3, <2>5 DEF Sessions
  <2> QED
    BY <1>5, <2>3, <2>6, <2>7 DEF next2
<1> QED
  BY <1>1, <1>3, <1>4, <1>5

\* What the lines are, place by place.
QueuePlace(k) == <<"queue", k>>
WirePlace(k) == <<"wire", k>>
AreLines(C, ch, lp, q, w) ==
  /\ C[<<"channel", 0>>] = ch /\ C[<<"lpchan", 0>>] = lp
  /\ \A k \in Nat : C[QueuePlace(k)] = q[k] /\ C[WirePlace(k)] = w[k]

LEMMA SuchLines == \A ch, lp, q, w : AreLines(Lines(ch, lp, q, w), ch, lp, q, w)
  BY LinesAre DEF AreLines, QueuePlace, WirePlace

LEMMA LinesMove ==
  ASSUME NEW ch, NEW lp, NEW q \in [Nat -> Seq(Message)], NEW w \in [Nat -> Seq(Message)], NEW k \in Nat
  PROVE  /\ \A m : Longer(Lines(ch, lp, q, w), Lines(Append(ch, m), lp, q, w), <<"channel", 0>>, m)
         /\ Shorter(Lines(ch, lp, q, w), Lines(Tail(ch), lp, q, w), <<"channel", 0>>)
         /\ Along(Lines(ch, lp, q, w), Lines(Tail(ch), Append(lp, Head(ch)), q, w),
                  <<"channel", 0>>, <<"lpchan", 0>>)
         /\ Along(Lines(ch, lp, q, w),
                  Lines(Tail(ch), lp, [q EXCEPT ![k] = Append(q[k], Head(ch))], w),
                  <<"channel", 0>>, QueuePlace(k))
         /\ Along(Lines(ch, lp, q, w),
                  Lines(ch, Tail(lp), [q EXCEPT ![k] = Append(q[k], Head(lp))], w),
                  <<"lpchan", 0>>, QueuePlace(k))
         /\ Along(Lines(ch, lp, q, w),
                  Lines(ch, lp, [q EXCEPT ![k] = Tail(q[k])], [w EXCEPT ![k] = Append(w[k], Head(q[k]))]),
                  QueuePlace(k), WirePlace(k))
         /\ Shorter(Lines(ch, lp, q, w), Lines(ch, lp, [q EXCEPT ![k] = Tail(q[k])], w), QueuePlace(k))
         /\ Shorter(Lines(ch, lp, q, w), Lines(ch, lp, q, [w EXCEPT ![k] = Tail(w[k])]), WirePlace(k))
<1> DEFINE C == Lines(ch, lp, q, w)
           a == <<"channel", 0>>
           b == <<"lpchan", 0>>
<1>1. C[a] = ch /\ C[b] = lp /\ \A j \in Nat : C[QueuePlace(j)] = q[j] /\ C[WirePlace(j)] = w[j]
  <2>1. AreLines(C, ch, lp, q, w)
    BY Zenon, SuchLines
  <2> HIDE DEF C
  <2> QED
    BY <2>1 DEF AreLines
<1>2. ASSUME NEW x \in Place, x # a, x # b
      PROVE  \E j \in Nat : x = QueuePlace(j) \/ x = WirePlace(j)
  BY <1>2, PlaceIs DEF QueuePlace, WirePlace
<1>3. a # b /\ \A j \in Nat : /\ a # QueuePlace(j) /\ a # WirePlace(j) /\ b # QueuePlace(j)
                              /\ b # WirePlace(j) /\ \A i \in Nat : QueuePlace(j) # WirePlace(i)
  BY DEF QueuePlace, WirePlace
<1> HIDE DEF C, a, b
<1>5. ASSUME NEW m PROVE Longer(C, Lines(Append(ch, m), lp, q, w), a, m)
  <2> DEFINE D == Lines(Append(ch, m), lp, q, w)
  <2>1. /\ D[a] = Append(ch, m) /\ D[b] = lp
        /\ \A j \in Nat : D[QueuePlace(j)] = q[j] /\ D[WirePlace(j)] = w[j]
    <3>1. AreLines(D, Append(ch, m), lp, q, w)
      BY Zenon, SuchLines
    <3> HIDE DEF D
    <3> QED
      BY <3>1 DEF AreLines, a, b
  <2> HIDE DEF D
  <2>3. ASSUME NEW z \in Place, z # a PROVE D[z] = C[z]
    <3>1. CASE z = a \/ z = b
      BY <1>1, <1>3, <2>1, <2>3, <3>1
    <3>2. CASE z # a /\ z # b
      <4>1. PICK j \in Nat : z = QueuePlace(j) \/ z = WirePlace(j)
        BY <1>2, <3>2
      <4> QED
        BY <1>1, <1>3, <2>1, <2>3, <4>1
    <3> QED
      BY <3>1, <3>2
  <2> QED
    BY <1>1, <1>3, <2>1, <2>3 DEF Longer, D
<1>6. Shorter(C, Lines(Tail(ch), lp, q, w), a)
  <2> DEFINE D == Lines(Tail(ch), lp, q, w)
  <2>1. /\ D[a] = Tail(ch) /\ D[b] = lp
        /\ \A j \in Nat : D[QueuePlace(j)] = q[j] /\ D[WirePlace(j)] = w[j]
    <3>1. AreLines(D, Tail(ch), lp, q, w)
      BY Zenon, SuchLines
    <3> HIDE DEF D
    <3> QED
      BY <3>1 DEF AreLines, a, b
  <2> HIDE DEF D
  <2>3. ASSUME NEW z \in Place, z # a PROVE D[z] = C[z]
    <3>1. CASE z = a \/ z = b
      BY <1>1, <1>3, <2>1, <2>3, <3>1
    <3>2. CASE z # a /\ z # b
      <4>1. PICK j \in Nat : z = QueuePlace(j) \/ z = WirePlace(j)
        BY <1>2, <3>2
      <4> QED
        BY <1>1, <1>3, <2>1, <2>3, <4>1
    <3> QED
      BY <3>1, <3>2
  <2> QED
    BY <1>1, <1>3, <2>1, <2>3 DEF Shorter, D
<1>7. Along(C, Lines(Tail(ch), Append(lp, Head(ch)), q, w), a, b)
  <2> DEFINE D == Lines(Tail(ch), Append(lp, Head(ch)), q, w)
  <2>1. /\ D[a] = Tail(ch) /\ D[b] = Append(lp, Head(ch))
        /\ \A j \in Nat : D[QueuePlace(j)] = q[j] /\ D[WirePlace(j)] = w[j]
    <3>1. AreLines(D, Tail(ch), Append(lp, Head(ch)), q, w)
      BY Zenon, SuchLines
    <3> HIDE DEF D
    <3> QED
      BY <3>1 DEF AreLines, a, b
  <2> HIDE DEF D
  <2>3. ASSUME NEW z \in Place, z # a, z # b PROVE D[z] = C[z]
    <3>1. CASE z = a \/ z = b
      BY <1>1, <1>3, <2>1, <2>3, <3>1
    <3>2. CASE z # a /\ z # b
      <4>1. PICK j \in Nat : z = QueuePlace(j) \/ z = WirePlace(j)
        BY <1>2, <3>2
      <4> QED
        BY <1>1, <1>3, <2>1, <2>3, <4>1
    <3> QED
      BY <3>1, <3>2
  <2> QED
    BY <1>1, <1>3, <2>1, <2>3 DEF Along, D
<1>8. Along(C, Lines(Tail(ch), lp, [q EXCEPT ![k] = Append(q[k], Head(ch))], w), a, QueuePlace(k))
  <2> DEFINE r == [q EXCEPT ![k] = Append(q[k], Head(ch))]
             D == Lines(Tail(ch), lp, r, w)
  <2>1. /\ D[a] = Tail(ch) /\ D[b] = lp
        /\ \A j \in Nat : D[QueuePlace(j)] = r[j] /\ D[WirePlace(j)] = w[j]
    <3>1. AreLines(D, Tail(ch), lp, r, w)
      BY Zenon, SuchLines
    <3> HIDE DEF D
    <3> QED
      BY <3>1 DEF AreLines, a, b
  <2>2. r[k] = Append(q[k], Head(ch)) /\ (\A j \in Nat : j # k => r[j] = q[j])
    OBVIOUS
  <2> HIDE DEF D, r
  <2>3. ASSUME NEW z \in Place, z # a, z # QueuePlace(k) PROVE D[z] = C[z]
    <3>1. CASE z = a \/ z = b
      BY <1>1, <1>3, <2>1, <2>2, <2>3, <3>1
    <3>2. CASE z # a /\ z # b
      <4>1. PICK j \in Nat : z = QueuePlace(j) \/ z = WirePlace(j)
        BY <1>2, <3>2
      <4> QED
        BY <1>1, <1>3, <2>1, <2>2, <2>3, <4>1
    <3> QED
      BY <3>1, <3>2
  <2> QED
    BY <1>1, <1>3, <2>1, <2>2, <2>3 DEF Along, D, r
<1>9. Along(C, Lines(ch, Tail(lp), [q EXCEPT ![k] = Append(q[k], Head(lp))], w), b, QueuePlace(k))
  <2> DEFINE r == [q EXCEPT ![k] = Append(q[k], Head(lp))]
             D == Lines(ch, Tail(lp), r, w)
  <2>1. /\ D[a] = ch /\ D[b] = Tail(lp)
        /\ \A j \in Nat : D[QueuePlace(j)] = r[j] /\ D[WirePlace(j)] = w[j]
    <3>1. AreLines(D, ch, Tail(lp), r, w)
      BY Zenon, SuchLines
    <3> HIDE DEF D
    <3> QED
      BY <3>1 DEF AreLines, a, b
  <2>2. r[k] = Append(q[k], Head(lp)) /\ (\A j \in Nat : j # k => r[j] = q[j])
    OBVIOUS
  <2> HIDE DEF D, r
  <2>3. ASSUME NEW z \in Place, z # b, z # QueuePlace(k) PROVE D[z] = C[z]
    <3>1. CASE z = a \/ z = b
      BY <1>1, <1>3, <2>1, <2>2, <2>3, <3>1
    <3>2. CASE z # a /\ z # b
      <4>1. PICK j \in Nat : z = QueuePlace(j) \/ z = WirePlace(j)
        BY <1>2, <3>2
      <4> QED
        BY <1>1, <1>3, <2>1, <2>2, <2>3, <4>1
    <3> QED
      BY <3>1, <3>2
  <2> QED
    BY <1>1, <1>3, <2>1, <2>2, <2>3 DEF Along, D, r
<1>10. Along(C, Lines(ch, lp, [q EXCEPT ![k] = Tail(q[k])], [w EXCEPT ![k] = Append(w[k], Head(q[k]))]), QueuePlace(k), WirePlace(k))
  <2> DEFINE r == [q EXCEPT ![k] = Tail(q[k])]
             v == [w EXCEPT ![k] = Append(w[k], Head(q[k]))]
             D == Lines(ch, lp, r, v)
  <2>1. /\ D[a] = ch /\ D[b] = lp
        /\ \A j \in Nat : D[QueuePlace(j)] = r[j] /\ D[WirePlace(j)] = v[j]
    <3>1. AreLines(D, ch, lp, r, v)
      BY Zenon, SuchLines
    <3> HIDE DEF D
    <3> QED
      BY <3>1 DEF AreLines, a, b
  <2>2. r[k] = Tail(q[k]) /\ (\A j \in Nat : j # k => r[j] = q[j]) /\ v[k] = Append(w[k], Head(q[k])) /\ (\A j \in Nat : j # k => v[j] = w[j])
    OBVIOUS
  <2> HIDE DEF D, r, v
  <2>3. ASSUME NEW z \in Place, z # QueuePlace(k), z # WirePlace(k) PROVE D[z] = C[z]
    <3>1. CASE z = a \/ z = b
      BY <1>1, <1>3, <2>1, <2>2, <2>3, <3>1
    <3>2. CASE z # a /\ z # b
      <4>1. PICK j \in Nat : z = QueuePlace(j) \/ z = WirePlace(j)
        BY <1>2, <3>2
      <4> QED
        BY <1>1, <1>3, <2>1, <2>2, <2>3, <4>1
    <3> QED
      BY <3>1, <3>2
  <2> QED
    BY <1>1, <1>3, <2>1, <2>2, <2>3 DEF Along, D, r, v
<1>11. Shorter(C, Lines(ch, lp, [q EXCEPT ![k] = Tail(q[k])], w), QueuePlace(k))
  <2> DEFINE r == [q EXCEPT ![k] = Tail(q[k])]
             D == Lines(ch, lp, r, w)
  <2>1. /\ D[a] = ch /\ D[b] = lp
        /\ \A j \in Nat : D[QueuePlace(j)] = r[j] /\ D[WirePlace(j)] = w[j]
    <3>1. AreLines(D, ch, lp, r, w)
      BY Zenon, SuchLines
    <3> HIDE DEF D
    <3> QED
      BY <3>1 DEF AreLines, a, b
  <2>2. r[k] = Tail(q[k]) /\ (\A j \in Nat : j # k => r[j] = q[j])
    OBVIOUS
  <2> HIDE DEF D, r
  <2>3. ASSUME NEW z \in Place, z # QueuePlace(k) PROVE D[z] = C[z]
    <3>1. CASE z = a \/ z = b
      BY <1>1, <1>3, <2>1, <2>2, <2>3, <3>1
    <3>2. CASE z # a /\ z # b
      <4>1. PICK j \in Nat : z = QueuePlace(j) \/ z = WirePlace(j)
        BY <1>2, <3>2
      <4> QED
        BY <1>1, <1>3, <2>1, <2>2, <2>3, <4>1
    <3> QED
      BY <3>1, <3>2
  <2> QED
    BY <1>1, <1>3, <2>1, <2>2, <2>3 DEF Shorter, D, r
<1>12. Shorter(C, Lines(ch, lp, q, [w EXCEPT ![k] = Tail(w[k])]), WirePlace(k))
  <2> DEFINE v == [w EXCEPT ![k] = Tail(w[k])]
             D == Lines(ch, lp, q, v)
  <2>1. /\ D[a] = ch /\ D[b] = lp
        /\ \A j \in Nat : D[QueuePlace(j)] = q[j] /\ D[WirePlace(j)] = v[j]
    <3>1. AreLines(D, ch, lp, q, v)
      BY Zenon, SuchLines
    <3> HIDE DEF D
    <3> QED
      BY <3>1 DEF AreLines, a, b
  <2>2. v[k] = Tail(w[k]) /\ (\A j \in Nat : j # k => v[j] = w[j])
    OBVIOUS
  <2> HIDE DEF D, v
  <2>3. ASSUME NEW z \in Place, z # WirePlace(k) PROVE D[z] = C[z]
    <3>1. CASE z = a \/ z = b
      BY <1>1, <1>3, <2>1, <2>2, <2>3, <3>1
    <3>2. CASE z # a /\ z # b
      <4>1. PICK j \in Nat : z = QueuePlace(j) \/ z = WirePlace(j)
        BY <1>2, <3>2
      <4> QED
        BY <1>1, <1>3, <2>1, <2>2, <2>3, <4>1
    <3> QED
      BY <3>1, <3>2
  <2> QED
    BY <1>1, <1>3, <2>1, <2>2, <2>3 DEF Shorter, D, v
<1> QED
  BY <1>5, <1>6, <1>7, <1>8, <1>9, <1>10, <1>11, <1>12 DEF C, a, b

-----------------------------------------------------------------------------
\* Every message that was given is in one line, or was dropped, or has arrived.
Held(gi, C, dr, arr) ==
  /\ gi \in Seq(Message) /\ IsFiniteSet(dr) /\ IsFiniteSet(arr) /\ dr \cap arr = {}
  /\ Apart(C, dr \cup arr)
  /\ Rng(gi) = (InLines(C) \cup dr) \cup arr

LEMMA HeldCame ==
  ASSUME NEW gi, NEW C, NEW D, NEW dr, NEW arr, NEW x \in Place, NEW m \in Message,
         Held(gi, C, dr, arr), m \notin Rng(gi), Fits(x, m), Longer(C, D, x, m)
  PROVE  Held(Append(gi, m), D, dr, arr)
<1>1. m \notin InLines(C) /\ m \notin dr \cup arr
  BY DEF Held
<1>2. Apart(D, dr \cup arr) /\ InLines(D) = InLines(C) \cup {m}
  BY <1>1, Came DEF Held
<1>3. Append(gi, m) \in Seq(Message) /\ Rng(Append(gi, m)) = Rng(gi) \cup {m}
  BY RngAppend DEF Held
<1> QED
  BY <1>2, <1>3 DEF Held

LEMMA HeldPassed ==
  ASSUME NEW gi, NEW C, NEW D, NEW dr, NEW arr, NEW x \in Place, NEW y \in Place,
         Held(gi, C, dr, arr), C[x] # <<>>, Fits(y, Head(C[x])), Along(C, D, x, y)
  PROVE  Held(gi, D, dr, arr)
<1>2. Apart(D, dr \cup arr) /\ InLines(D) = InLines(C)
  BY Passed DEF Held
<1> QED
  BY <1>2 DEF Held

LEMMA HeldWent ==
  ASSUME NEW gi, NEW C, NEW D, NEW dr, NEW arr, NEW x \in Place,
         Held(gi, C, dr, arr), C[x] # <<>>, Shorter(C, D, x)
  PROVE  /\ Held(gi, D, dr \cup {Head(C[x])}, arr) /\ Held(gi, D, dr, arr \cup {Head(C[x])})
         /\ OneLarger(dr, dr \cup {Head(C[x])}) /\ OneLarger(arr, arr \cup {Head(C[x])})
<1> DEFINE h == Head(C[x])
<1>1. /\ h \notin dr \cup arr /\ Apart(D, (dr \cup arr) \cup {h}) /\ InLines(C) = InLines(D) \cup {h}
  BY Went DEF Held
<1> HIDE DEF h
<1>2. (dr \cup arr) \cup {h} = (dr \cup {h}) \cup arr /\ (dr \cup arr) \cup {h} = dr \cup (arr \cup {h})
  OBVIOUS
<1>3. OneLarger(dr, dr \cup {h})
  BY <1>1, FS_AddElement DEF OneLarger, Held
<1>4. OneLarger(arr, arr \cup {h})
  BY <1>1, FS_AddElement DEF OneLarger, Held
<1>5. Held(gi, D, dr \cup {h}, arr)
  BY <1>1, <1>2, <1>3 DEF Held, OneLarger
<1>6. Held(gi, D, dr, arr \cup {h})
  BY <1>1, <1>2, <1>4 DEF Held, OneLarger
<1> QED
  BY <1>3, <1>4, <1>5, <1>6 DEF h

LEMMA HeadHeld ==
  ASSUME NEW gi, NEW C, NEW dr, NEW arr, NEW x \in Place, Held(gi, C, dr, arr)
  PROVE  /\ C[x] \in Seq(Message)
         /\ C[x] # <<>> => Head(C[x]) \in Message /\ Fits(x, Head(C[x]))
<1>1. C[x] \in Seq(Message) /\ \A m \in Rng(C[x]) : Fits(x, m)
  BY DEF Held, Apart
<1>2. C[x] # <<>> => Head(C[x]) \in Message /\ Head(C[x]) \in Rng(C[x])
  BY <1>1, RngTail
<1> QED
  BY <1>1, <1>2

(***************************************************************************)
(* How many messages wait in the lines of the streams.                     *)
(***************************************************************************)
Streamed(q, n) ==
  /\ n \in Nat /\ n >= 2 /\ q \in [Nat -> Seq(Message)]
  /\ \A j \in Nat : j > n => q[j] = <<>>
  /\ IsFiniteSet(Pairs(q, 1..n))

\* From the n streams with lines f to the m streams with lines g the k-th got one more.
Gained(f, n, g, m, k) ==
  /\ Tally(f, 1..n) \in Nat /\ Tally(f, {1, 2}) \in Nat /\ Tally(f, 3..n) \in Nat
  /\ Tally(g, 1..m) = Tally(f, 1..n) + 1
  /\ k <= 2 => Tally(g, {1, 2}) = Tally(f, {1, 2}) + 1 /\ Tally(g, 3..m) = Tally(f, 3..n)
  /\ ~(k <= 2) => Tally(g, {1, 2}) = Tally(f, {1, 2}) /\ Tally(g, 3..m) = Tally(f, 3..n) + 1

MayGain(n, m, k) ==
  m \in Nat /\ k \in 1..m /\ (m = n \/ (m = n + 1 /\ k = m))

LEMMA StreamGains ==
  ASSUME NEW q, NEW n, NEW m, NEW k, NEW x \in Message, Streamed(q, n), MayGain(n, m, k)
  PROVE  LET r == [q EXCEPT ![k] = Append(q[k], x)] IN Streamed(r, m) /\ Gained(q, n, r, m, k)
<1> DEFINE r == [q EXCEPT ![k] = Append(q[k], x)]
<1>1. /\ n \in Nat /\ n >= 2 /\ q \in [Nat -> Seq(Message)] /\ m \in Nat /\ k \in 1..m /\ k \in Nat
      /\ m = n \/ (m = n + 1 /\ k = m)
      /\ IsFiniteSet(Pairs(q, 1..n)) /\ m >= n
  BY DEF Streamed, MayGain
<1>2. \A j \in Nat : j > n => q[j] = <<>>
  BY DEF Streamed
<1>3. q[k] \in Seq(Message) /\ Append(q[k], x) \in Seq(Message) /\ Len(Append(q[k], x)) = Len(q[k]) + 1
  <2>1. q[k] \in Seq(Message)
    BY <1>1
  <2> QED
    BY <2>1
<1>4. r[k] = Append(q[k], x) /\ \A j \in Nat : j # k => r[j] = q[j]
  BY <1>1
<1>5. r \in [Nat -> Seq(Message)]
  <2> DEFINE Q == Seq(Message)
             y == Append(q[k], x)
  <2>1. q \in [Nat -> Q] /\ y \in Q
    BY <1>1, <1>3
  <2>2. r = [q EXCEPT ![k] = y]
    OBVIOUS
  <2> HIDE DEF Q, y, r
  <2>3. r \in [Nat -> Q]
    BY <2>1, <2>2
  <2> QED
    BY <2>3 DEF Q
<1> HIDE DEF r
<1>6. OneMore(q, r, k)
  BY <1>3, <1>4 DEF OneMore
<1>7. \A j \in Nat : j > m => r[j] = <<>>
  <2> SUFFICES ASSUME NEW j \in Nat, j > m PROVE r[j] = <<>>
    OBVIOUS
  <2>1. j > n /\ j # k
    BY <1>1
  <2> QED
    BY <1>2, <1>4, <2>1
<1>8. /\ IsFiniteSet(Pairs(r, 1..m)) /\ Tally(r, 1..m) = Tally(q, 1..n) + 1
      /\ Tally(r, {1, 2}) = Tally(q, {1, 2}) + (IF k <= 2 THEN 1 ELSE 0)
      /\ Tally(r, 3..m) = Tally(q, 3..n) + (IF k <= 2 THEN 0 ELSE 1)
  <2>1. MayTally(q, r, n, m, k)
    BY <1>1, <1>2, <1>5, <1>6 DEF MayTally
  <2> QED
    BY <2>1, TallyMore DEF TalliesMore
<1>9. Tally(q, 1..n) \in Nat /\ Tally(q, {1, 2}) \in Nat /\ Tally(q, 3..n) \in Nat
  BY <1>1, TallyNat
<1>10. Streamed(r, m)
  BY <1>1, <1>5, <1>7, <1>8 DEF Streamed
<1>11. Gained(q, n, r, m, k)
  BY <1>8, <1>9 DEF Gained
<1> QED
  BY <1>10, <1>11 DEF r

LEMMA StreamLoses ==
  ASSUME NEW q, NEW n, NEW k \in 1..n, Streamed(q, n), q[k] # <<>>
  PROVE  LET r == [q EXCEPT ![k] = Tail(q[k])] IN Streamed(r, n) /\ Gained(r, n, q, n, k)
<1> DEFINE r == [q EXCEPT ![k] = Tail(q[k])]
<1>1. /\ n \in Nat /\ n >= 2 /\ q \in [Nat -> Seq(Message)] /\ k \in Nat
      /\ IsFiniteSet(Pairs(q, 1..n))
  BY DEF Streamed
<1>2. \A j \in Nat : j > n => q[j] = <<>>
  BY DEF Streamed
<1>3. q[k] \in Seq(Message) /\ Tail(q[k]) \in Seq(Message) /\ Len(q[k]) = Len(Tail(q[k])) + 1
  <2>1. q[k] \in Seq(Message)
    BY <1>1
  <2> QED
    BY <2>1
<1>4. r[k] = Tail(q[k]) /\ \A j \in Nat : j # k => r[j] = q[j]
  BY <1>1
<1>5. r \in [Nat -> Seq(Message)]
  <2> DEFINE Q == Seq(Message)
             y == Tail(q[k])
  <2>1. q \in [Nat -> Q] /\ y \in Q
    BY <1>1, <1>3
  <2>2. r = [q EXCEPT ![k] = y]
    OBVIOUS
  <2> HIDE DEF Q, y, r
  <2>3. r \in [Nat -> Q]
    BY <2>1, <2>2
  <2> QED
    BY <2>3 DEF Q
<1> HIDE DEF r
<1>6. OneMore(r, q, k)
  BY <1>3, <1>4 DEF OneMore
<1>7. \A j \in Nat : j > n => r[j] = <<>>
  <2> SUFFICES ASSUME NEW j \in Nat, j > n PROVE r[j] = <<>>
    OBVIOUS
  <2>1. j # k
    BY <1>1
  <2> QED
    BY <1>2, <1>4, <2>1
<1>8. /\ IsFiniteSet(Pairs(r, 1..n)) /\ Tally(q, 1..n) = Tally(r, 1..n) + 1
      /\ Tally(q, {1, 2}) = Tally(r, {1, 2}) + (IF k <= 2 THEN 1 ELSE 0)
      /\ Tally(q, 3..n) = Tally(r, 3..n) + (IF k <= 2 THEN 0 ELSE 1)
  <2>1. MayTallyLess(q, r, n, k)
    BY <1>1, <1>5, <1>6, <1>7 DEF MayTallyLess
  <2> QED
    BY <2>1, TallyFewer DEF TalliesMore
<1>9. Tally(r, 1..n) \in Nat /\ Tally(r, {1, 2}) \in Nat /\ Tally(r, 3..n) \in Nat
  BY <1>1, <1>8, TallyNat
<1>10. Streamed(r, n)
  BY <1>1, <1>5, <1>7, <1>8 DEF Streamed
<1>11. Gained(r, n, q, n, k)
  BY <1>8, <1>9 DEF Gained
<1> QED
  BY <1>10, <1>11 DEF r

\* A new stream is empty.
LEMMA StreamWider ==
  ASSUME NEW q, NEW n, NEW m, NEW k, Streamed(q, n), MayGain(n, m, k)
  PROVE  Streamed(q, m) /\ Tally(q, 1..m) = Tally(q, 1..n)
<1>1. /\ n \in Nat /\ n >= 2 /\ q \in [Nat -> Seq(Message)] /\ m \in Nat
      /\ m = n \/ m = n + 1
      /\ \A j \in Nat : j > n => q[j] = <<>>
      /\ IsFiniteSet(Pairs(q, 1..n))
  BY DEF Streamed, MayGain
<1>2. CASE m = n
  BY <1>1, <1>2
<1>3. CASE m = n + 1
  <2>1. 1..m = (1..n) \cup {m} /\ q[m] = <<>>
    <3>1. n \in Nat /\ m \in Nat
      BY <1>1
    <3>2. 1..m = (1..n) \cup {m}
      BY <1>3, <3>1
    <3>3. q[m] = <<>>
      BY <1>1, <1>3
    <3> QED
      BY <3>2, <3>3
  <2>2. {m} \X DOMAIN q[m] = {}
    BY <2>1
  <2>3. Pairs(q, 1..m) = Pairs(q, 1..n)
    BY <2>1, <2>2 DEF Pairs
  <2>4. m >= 2 /\ \A j \in Nat : j > m => q[j] = <<>>
    BY <1>1, <1>3
  <2> QED
    BY <1>1, <2>3, <2>4 DEF Streamed, Tally
<1> QED
  BY <1>1, <1>2, <1>3

-----------------------------------------------------------------------------
(***************************************************************************)
(* The signals on their way, in order.                                     *)
(***************************************************************************)
High == {m \in Message : P!Priority(m) = "High"}

InOrder(gi, ch, c, b, a) == ((a \o b) \o c) \o Pick(ch, High) = Pick(gi, High)

LEMMA Shift ==
  ASSUME NEW T, NEW a \in Seq(T), NEW b \in Seq(T), b # <<>>
  PROVE  Append(a, Head(b)) \o Tail(b) = a \o b
<1>1. Head(b) \in T /\ Tail(b) \in Seq(T) /\ <<Head(b)>> \in Seq(T) /\ b = <<Head(b)>> \o Tail(b)
  OBVIOUS
<1>2. Append(a, Head(b)) = a \o <<Head(b)>>
  BY <1>1, AppendIsConcat
<1>3. (a \o <<Head(b)>>) \o Tail(b) = a \o (<<Head(b)>> \o Tail(b))
  <2>1. Associates(a, <<Head(b)>>, Tail(b))
    BY <1>1, SeqAssociates
  <2> QED
    BY <2>1 DEF Associates
<1> QED
  BY <1>1, <1>2, <1>3

LEMMA ConcatAppend ==
  ASSUME NEW T, NEW a \in Seq(T), NEW b \in Seq(T), NEW x \in T
  PROVE  a \o Append(b, x) = Append(a \o b, x)
<1>1. a \o b \in Seq(T) /\ <<x>> \in Seq(T)
  OBVIOUS
<1>2. Append(b, x) = b \o <<x>> /\ Append(a \o b, x) = (a \o b) \o <<x>>
  BY <1>1, AppendIsConcat
<1>3. (a \o b) \o <<x>> = a \o (b \o <<x>>)
  <2>1. Associates(a, b, <<x>>)
    BY <1>1, SeqAssociates
  <2> QED
    BY <2>1 DEF Associates
<1> QED
  BY <1>2, <1>3

LEMMA OrderGiven ==
  ASSUME NEW gi \in Seq(Message), NEW ch \in Seq(Message), NEW a \in Seq(Message),
         NEW b \in Seq(Message), NEW c \in Seq(Message), NEW m \in Message, InOrder(gi, ch, c, b, a)
  PROVE  InOrder(Append(gi, m), Append(ch, m), c, b, a)
<1> DEFINE x == (a \o b) \o c
<1>1. x \in Seq(Message)
  <2>1. a \o b \in Seq(Message)
    OBVIOUS
  <2> QED
    BY <2>1
<1>2. x \o Pick(ch, High) = Pick(gi, High)
  BY DEF InOrder
<1> HIDE DEF x
<1>3. /\ Pick(ch, High) \in Seq(Message)
      /\ Pick(Append(ch, m), High) = IF m \in High THEN Append(Pick(ch, High), m) ELSE Pick(ch, High)
  BY PickAppend
<1>4. Pick(Append(gi, m), High) = IF m \in High THEN Append(Pick(gi, High), m) ELSE Pick(gi, High)
  BY PickAppend
<1>5. x \o Append(Pick(ch, High), m) = Append(x \o Pick(ch, High), m)
  BY <1>1, <1>3, ConcatAppend
<1>6. x \o Pick(Append(ch, m), High) = Pick(Append(gi, m), High)
  BY <1>2, <1>3, <1>4, <1>5
<1> QED
  BY <1>6 DEF InOrder, x

LEMMA OrderSorted ==
  ASSUME NEW gi \in Seq(Message), NEW ch \in Seq(Message), NEW a \in Seq(Message),
         NEW b \in Seq(Message), NEW c \in Seq(Message), InOrder(gi, ch, c, b, a), ch # <<>>
  PROVE  /\ Head(ch) \in High => InOrder(gi, Tail(ch), Append(c, Head(ch)), b, a)
         /\ Head(ch) \notin High => InOrder(gi, Tail(ch), c, b, a)
<1> DEFINE x == (a \o b) \o c
           h == Head(ch)
           p == Pick(Tail(ch), High)
<1>1. x \in Seq(Message) /\ a \o b \in Seq(Message) /\ h \in Message /\ Tail(ch) \in Seq(Message)
  <2>1. a \o b \in Seq(Message)
    OBVIOUS
  <2> QED
    BY <2>1
<1>2. x \o Pick(ch, High) = Pick(gi, High)
  BY DEF InOrder
<1>3. p \in Seq(Message)
  <2>1. Pick(Tail(ch), High) \in Seq(Message)
    BY <1>1, PickAppend
  <2> QED
    BY <2>1
<1>4. Pick(ch, High) = (IF h \in High THEN <<h>> ELSE <<>>) \o p
  BY PickHead
<1> HIDE DEF x, h, p
<1>5. CASE h \in High
  <2>1. (a \o b) \o Append(c, h) = Append(x, h)
    BY <1>1, ConcatAppend DEF x
  <2>2. <<h>> \in Seq(Message) /\ Append(x, h) = x \o <<h>>
    BY <1>1, AppendIsConcat
  <2>3. (x \o <<h>>) \o p = x \o (<<h>> \o p)
    <3>1. Associates(x, <<h>>, p)
      BY <1>1, <1>3, <2>2, SeqAssociates
    <3> QED
      BY <3>1 DEF Associates
  <2>4. ((a \o b) \o Append(c, h)) \o p = Pick(gi, High)
    BY <1>2, <1>4, <1>5, <2>1, <2>2, <2>3
  <2> QED
    BY <1>5, <2>4 DEF InOrder, p, h
<1>6. CASE h \notin High
  <2>1. <<>> \o p = p
    BY <1>3
  <2>2. x \o p = Pick(gi, High)
    BY <1>2, <1>4, <1>6, <2>1
  <2> QED
    BY <1>6, <2>2 DEF InOrder, p, h, x
<1> QED
  BY <1>5, <1>6 DEF h

LEMMA OrderWritten ==
  ASSUME NEW gi, NEW ch, NEW a \in Seq(Message), NEW b \in Seq(Message), NEW c \in Seq(Message),
         InOrder(gi, ch, c, b, a)
  PROVE  /\ c # <<>> => InOrder(gi, ch, Tail(c), Append(b, Head(c)), a)
         /\ b # <<>> => InOrder(gi, ch, c, Tail(b), Append(a, Head(b)))
<1>1. ASSUME c # <<>> PROVE (a \o Append(b, Head(c))) \o Tail(c) = (a \o b) \o c
  <2>1. Head(c) \in Message /\ a \o b \in Seq(Message)
    BY <1>1
  <2>2. a \o Append(b, Head(c)) = Append(a \o b, Head(c))
    BY <2>1, ConcatAppend
  <2> DEFINE d == a \o b
  <2>3. d \in Seq(Message)
    BY <2>1
  <2> HIDE DEF d
  <2>4. Append(d, Head(c)) \o Tail(c) = d \o c
    BY <1>1, <2>3, Shift
  <2> QED
    BY <2>2, <2>4 DEF d
<1>2. ASSUME b # <<>> PROVE Append(a, Head(b)) \o Tail(b) = a \o b
  BY <1>2, Shift
<1> QED
  BY <1>1, <1>2 DEF InOrder

Arr(rec) == UNION {Rng(rec[s]) : s \in P!Session}

Numbered(gi, ch, lp, q, w, n, dr, arr, qh, ql) ==
  /\ Len(gi) = ((((Len(ch) + Len(lp)) + Cardinality(dr)) + Cardinality(arr))
                  + Tally(q, 1..n)) + Tally(w, 1..n)
  /\ qh = Tally(q, {1, 2}) /\ ql = Tally(q, 3..n) + Len(lp)

Kept(gi, ch, lp, q, w, n, dr, rec, qh, ql) ==
  /\ Held(gi, Lines(ch, lp, q, w), dr, Arr(rec))
  /\ Streamed(q, n) /\ Streamed(w, n)
  /\ rec \in [P!Session -> Seq(Message)]
  /\ \A m \in dr : P!Low(m)
  /\ Numbered(gi, ch, lp, q, w, n, dr, Arr(rec), qh, ql)
  /\ InOrder(gi, ch, q[1], w[1], rec["signal"])

LEMMA KeptIs ==
  ASSUME NEW gi, NEW ch, NEW lp, NEW q, NEW w, NEW n, NEW dr, NEW rec, NEW qh, NEW ql,
         Kept(gi, ch, lp, q, w, n, dr, rec, qh, ql)
  PROVE  /\ gi \in Seq(Message) /\ ch \in Seq(Message) /\ lp \in Seq(Message)
         /\ q \in [Nat -> Seq(Message)] /\ w \in [Nat -> Seq(Message)]
         /\ n \in Nat /\ n >= 2 /\ rec["signal"] \in Seq(Message)
         /\ Len(gi) \in Nat /\ Len(ch) \in Nat /\ Len(lp) \in Nat
         /\ Cardinality(dr) \in Nat /\ Cardinality(Arr(rec)) \in Nat
         /\ Tally(q, 1..n) \in Nat /\ Tally(q, {1, 2}) \in Nat /\ Tally(q, 3..n) \in Nat
         /\ Tally(w, 1..n) \in Nat
         /\ ch # <<>> => Head(ch) \in Message
         /\ lp # <<>> => Head(lp) \in Message /\ P!Low(Head(lp))
         /\ \A k \in Nat : /\ q[k] # <<>> => Head(q[k]) \in Message /\ Class(Head(q[k])) = ClassOf(k)
                           /\ w[k] # <<>> => Head(w[k]) \in Message /\ Class(Head(w[k])) = ClassOf(k)
<1> DEFINE C == Lines(ch, lp, q, w)
<1>1. Held(gi, C, dr, Arr(rec)) /\ Streamed(q, n) /\ Streamed(w, n) /\ rec \in [P!Session -> Seq(Message)]
  BY DEF Kept
<1>2. /\ C[<<"channel", 0>>] = ch /\ C[<<"lpchan", 0>>] = lp
      /\ \A j \in Nat : C[QueuePlace(j)] = q[j] /\ C[WirePlace(j)] = w[j]
  <2>1. AreLines(C, ch, lp, q, w)
    BY Zenon, SuchLines
  <2> HIDE DEF C
  <2> QED
    BY <2>1 DEF AreLines
<1>3. /\ <<"channel", 0>> \in Place /\ <<"lpchan", 0>> \in Place
      /\ \A k \in Nat : QueuePlace(k) \in Place /\ WirePlace(k) \in Place
  BY PlaceIs DEF QueuePlace, WirePlace
<1> HIDE DEF C
<1>4. \A x \in Place : /\ C[x] \in Seq(Message)
                       /\ C[x] # <<>> => Head(C[x]) \in Message /\ Fits(x, Head(C[x]))
  BY <1>1, HeadHeld
<1>5. ch \in Seq(Message) /\ lp \in Seq(Message) /\ (ch # <<>> => Head(ch) \in Message)
  BY <1>2, <1>3, <1>4
<1>6. lp # <<>> => Head(lp) \in Message /\ P!Low(Head(lp))
  BY <1>2, <1>3, <1>4 DEF Fits
<1>7. \A k \in Nat : /\ q[k] # <<>> => Head(q[k]) \in Message /\ Class(Head(q[k])) = ClassOf(k)
                     /\ w[k] # <<>> => Head(w[k]) \in Message /\ Class(Head(w[k])) = ClassOf(k)
  <2> SUFFICES ASSUME NEW k \in Nat
               PROVE  /\ q[k] # <<>> => Head(q[k]) \in Message /\ Class(Head(q[k])) = ClassOf(k)
                      /\ w[k] # <<>> => Head(w[k]) \in Message /\ Class(Head(w[k])) = ClassOf(k)
    OBVIOUS
  <2>1. /\ q[k] # <<>> => Head(q[k]) \in Message /\ Fits(QueuePlace(k), Head(q[k]))
        /\ w[k] # <<>> => Head(w[k]) \in Message /\ Fits(WirePlace(k), Head(w[k]))
    BY <1>2, <1>3, <1>4
  <2>2. ASSUME NEW m PROVE /\ Fits(QueuePlace(k), m) => Class(m) = ClassOf(k)
                           /\ Fits(WirePlace(k), m) => Class(m) = ClassOf(k)
    <3>1. /\ QueuePlace(k)[1] = "queue" /\ QueuePlace(k)[2] = k
          /\ WirePlace(k)[1] = "wire" /\ WirePlace(k)[2] = k
      BY DEF QueuePlace, WirePlace
    <3> QED
      BY <3>1 DEF Fits
  <2> QED
    BY <2>1, <2>2
<1>8. /\ gi \in Seq(Message) /\ Cardinality(dr) \in Nat /\ Cardinality(Arr(rec)) \in Nat
  BY <1>1, FS_CardinalityType DEF Held
<1>9. /\ q \in [Nat -> Seq(Message)] /\ w \in [Nat -> Seq(Message)] /\ n \in Nat /\ n >= 2
      /\ IsFiniteSet(Pairs(q, 1..n)) /\ IsFiniteSet(Pairs(w, 1..n))
  BY <1>1 DEF Streamed
<1>10. Tally(q, 1..n) \in Nat /\ Tally(q, {1, 2}) \in Nat /\ Tally(q, 3..n) \in Nat
  BY <1>9, TallyNat
<1>11. Tally(w, 1..n) \in Nat
  BY <1>9, TallyNat
<1>12. rec["signal"] \in Seq(Message)
  BY <1>1 DEF P!Session
<1>13. Len(gi) \in Nat /\ Len(ch) \in Nat /\ Len(lp) \in Nat
  BY <1>5, <1>8
<1> QED
  BY <1>5, <1>6, <1>7, <1>8, <1>9, <1>10, <1>11, <1>12, <1>13

\* What a class is, and which stream it goes to.
LEMMA Classes ==
  ASSUME NEW m \in Message
  PROVE  /\ Class(m) = "lp" <=> P!Low(m)
         /\ Class(m) = "signal" <=> m \in High
         /\ P!Low(m) => m \notin High
         /\ ~P!Low(m) => Class(m) = ClassOf(P!StreamOf(m)) /\ P!StreamOf(m) \in {1, 2}
                         /\ (P!StreamOf(m) = 1 <=> m \in High)
  BY DEF Class, ClassOf, High, P!Low, P!StreamOf

LEMMA ClassesOf ==
  ASSUME NEW k \in Nat \ {0}
  PROVE  /\ ClassOf(k) = "lp" <=> ~(k <= 2)
         /\ ClassOf(k) = "signal" <=> k = 1
         /\ ClassOf(k) \in P!Session
  BY DEF ClassOf, P!Session

LEMMA FitsAre ==
  ASSUME NEW m, NEW k \in Nat
  PROVE  /\ Fits(<<"channel", 0>>, m)
         /\ P!Low(m) => Fits(<<"lpchan", 0>>, m)
         /\ Class(m) = ClassOf(k) => Fits(QueuePlace(k), m) /\ Fits(WirePlace(k), m)
<1>1. Fits(<<"channel", 0>>, m)
  BY DEF Fits
<1>2. P!Low(m) => Fits(<<"lpchan", 0>>, m)
  BY DEF Fits
<1>3. Class(m) = ClassOf(k) => Fits(QueuePlace(k), m) /\ Fits(WirePlace(k), m)
  <2>1. /\ QueuePlace(k)[1] = "queue" /\ QueuePlace(k)[2] = k
        /\ WirePlace(k)[1] = "wire" /\ WirePlace(k)[2] = k
        /\ QueuePlace(k) # <<"lpchan", 0>> /\ WirePlace(k) # <<"lpchan", 0>>
    BY DEF QueuePlace, WirePlace
  <2> QED
    BY <2>1 DEF Fits
<1> QED
  BY <1>1, <1>2, <1>3

LEMMA InPlaces ==
  /\ <<"channel", 0>> \in Place /\ <<"lpchan", 0>> \in Place
  /\ \A k \in Nat : QueuePlace(k) \in Place /\ WirePlace(k) \in Place
  BY PlaceIs DEF QueuePlace, WirePlace

LEMMA LineAt ==
  ASSUME NEW ch, NEW lp, NEW q, NEW w
  PROVE  /\ Lines(ch, lp, q, w)[<<"channel", 0>>] = ch /\ Lines(ch, lp, q, w)[<<"lpchan", 0>>] = lp
         /\ \A k \in Nat : /\ Lines(ch, lp, q, w)[QueuePlace(k)] = q[k]
                           /\ Lines(ch, lp, q, w)[WirePlace(k)] = w[k]
<1> DEFINE C == Lines(ch, lp, q, w)
<1>1. AreLines(C, ch, lp, q, w)
  BY Zenon, SuchLines
<1> HIDE DEF C
<1>2. /\ C[<<"channel", 0>>] = ch /\ C[<<"lpchan", 0>>] = lp
      /\ \A k \in Nat : C[QueuePlace(k)] = q[k] /\ C[WirePlace(k)] = w[k]
  BY <1>1 DEF AreLines
<1> QED
  BY <1>2 DEF C

LEMMA KeptGiven ==
  ASSUME NEW gi, NEW ch, NEW lp, NEW q, NEW w, NEW n, NEW dr, NEW rec, NEW qh, NEW ql,
         Kept(gi, ch, lp, q, w, n, dr, rec, qh, ql), NEW m \in Message, m \notin Rng(gi)
  PROVE  Kept(Append(gi, m), Append(ch, m), lp, q, w, n, dr, rec, qh, ql)
<1> DEFINE C == Lines(ch, lp, q, w)
           D == Lines(Append(ch, m), lp, q, w)
           arr == Arr(rec)
<1>1. /\ gi \in Seq(Message) /\ ch \in Seq(Message) /\ lp \in Seq(Message)
      /\ q \in [Nat -> Seq(Message)] /\ w \in [Nat -> Seq(Message)]
      /\ rec["signal"] \in Seq(Message)
  BY KeptIs
<1>0. /\ Len(gi) \in Nat /\ Len(ch) \in Nat /\ Len(lp) \in Nat
      /\ Cardinality(dr) \in Nat /\ Cardinality(arr) \in Nat
      /\ Tally(q, 1..n) \in Nat /\ Tally(w, 1..n) \in Nat
  BY KeptIs
<1>2. Longer(C, D, <<"channel", 0>>, m)
  BY <1>1, LinesMove
<1>3. Held(gi, C, dr, arr)
  BY DEF Kept
<1>4. <<"channel", 0>> \in Place /\ Fits(<<"channel", 0>>, m)
  BY InPlaces, FitsAre
<1> HIDE DEF C, D, arr
<1>5. Held(Append(gi, m), D, dr, arr)
  BY <1>2, <1>3, <1>4, HeldCame
<1>6. Len(Append(gi, m)) = Len(gi) + 1 /\ Len(Append(ch, m)) = Len(ch) + 1
  BY <1>1
<1>7. Numbered(gi, ch, lp, q, w, n, dr, arr, qh, ql)
  BY DEF Kept, arr
<1>8. Numbered(Append(gi, m), Append(ch, m), lp, q, w, n, dr, arr, qh, ql)
  <2> DEFINE gi2 == Append(gi, m)
             ch2 == Append(ch, m)
  <2>1. Len(gi2) = Len(gi) + 1 /\ Len(ch2) = Len(ch) + 1
    BY <1>6
  <2> HIDE DEF gi2, ch2
  <2>3. /\ Len(gi) = ((((Len(ch) + Len(lp)) + Cardinality(dr)) + Cardinality(arr))
                        + Tally(q, 1..n)) + Tally(w, 1..n)
    BY <1>7 DEF Numbered
  <2>4. /\ qh = Tally(q, {1, 2}) /\ ql = Tally(q, 3..n) + Len(lp)
    BY <1>7 DEF Numbered
  <2>5. /\ Len(gi2) = ((((Len(ch2) + Len(lp)) + Cardinality(dr)) + Cardinality(arr))
                        + Tally(q, 1..n)) + Tally(w, 1..n)
    <3> DEFINE all   == Len(gi)
               all2  == Len(gi2)
               inCh  == Len(ch)
               inCh2 == Len(ch2)
               inLp  == Len(lp)
               inDr  == Cardinality(dr)
               inArr == Cardinality(arr)
               inQ   == Tally(q, 1..n)
               inW   == Tally(w, 1..n)
    <3>1. /\ inCh \in Nat /\ inLp \in Nat /\ inDr \in Nat
          /\ inArr \in Nat /\ inQ \in Nat /\ inW \in Nat
          /\ all2 = all + 1 /\ inCh2 = inCh + 1
          /\ all = ((((inCh + inLp) + inDr) + inArr) + inQ) + inW
      BY <1>0, <2>1, <2>3
    <3> HIDE DEF all, all2, inCh, inCh2, inLp, inDr, inArr, inQ, inW
    <3>2. all2 = ((((inCh2 + inLp) + inDr) + inArr) + inQ) + inW
      BY <3>1
    <3> QED
      BY <3>2 DEF all, all2, inCh, inCh2, inLp, inDr, inArr, inQ, inW
  <2>2. Numbered(gi2, ch2, lp, q, w, n, dr, arr, qh, ql)
    BY <2>4, <2>5 DEF Numbered
  <2> QED
    BY <2>2 DEF gi2, ch2
<1>9. InOrder(Append(gi, m), Append(ch, m), q[1], w[1], rec["signal"])
  <2>1. q[1] \in Seq(Message) /\ w[1] \in Seq(Message)
    BY <1>1
  <2>2. InOrder(gi, ch, q[1], w[1], rec["signal"])
    BY DEF Kept
  <2> QED
    BY <1>1, <2>1, <2>2, OrderGiven
<1> QED
  BY <1>5, <1>8, <1>9 DEF Kept, D, arr

LEMMA KeptSorted ==
  ASSUME NEW gi, NEW ch, NEW lp, NEW q, NEW w, NEW n, NEW dr, NEW rec, NEW qh, NEW ql,
         Kept(gi, ch, lp, q, w, n, dr, rec, qh, ql), ch # <<>>, ~P!Low(Head(ch))
  PROVE  LET k == P!StreamOf(Head(ch)) IN
         k \in {1, 2} /\
         Kept(gi, Tail(ch), lp, [q EXCEPT ![k] = Append(q[k], Head(ch))], w, n, dr, rec, qh + 1, ql)
<1> DEFINE h == Head(ch)
           k == P!StreamOf(h)
           r == [q EXCEPT ![k] = Append(q[k], h)]
           C == Lines(ch, lp, q, w)
           D == Lines(Tail(ch), lp, r, w)
           arr == Arr(rec)
<1>1. /\ gi \in Seq(Message) /\ ch \in Seq(Message) /\ lp \in Seq(Message)
      /\ q \in [Nat -> Seq(Message)] /\ w \in [Nat -> Seq(Message)]
      /\ n \in Nat /\ n >= 2 /\ h \in Message
      /\ rec["signal"] \in Seq(Message)
  BY KeptIs
<1>0. /\ Len(gi) \in Nat /\ Len(ch) \in Nat /\ Len(lp) \in Nat
      /\ Cardinality(dr) \in Nat /\ Cardinality(arr) \in Nat
      /\ Tally(q, 1..n) \in Nat /\ Tally(q, {1, 2}) \in Nat /\ Tally(q, 3..n) \in Nat
      /\ Tally(w, 1..n) \in Nat
  BY KeptIs
<1>2. k \in {1, 2} /\ k \in Nat /\ k <= 2 /\ Class(h) = ClassOf(k) /\ (k = 1 <=> h \in High)
  <2>1. ~P!Low(h) => Class(h) = ClassOf(P!StreamOf(h)) /\ P!StreamOf(h) \in {1, 2}
                         /\ (P!StreamOf(h) = 1 <=> h \in High)
    <3> HIDE DEF h, k
    <3> QED
      BY <1>1, Classes
  <2>2. Class(h) = ClassOf(k) /\ k \in {1, 2} /\ (k = 1 <=> h \in High)
    BY <2>1
  <2> HIDE DEF k, h
  <2> QED
    BY <2>2
<1>3. Along(C, D, <<"channel", 0>>, QueuePlace(k))
  <2> HIDE DEF k
  <2> QED
    BY <1>1, <1>2, LinesMove
<1>4. Held(gi, C, dr, arr) /\ Numbered(gi, ch, lp, q, w, n, dr, arr, qh, ql) /\ Streamed(q, n)
  BY DEF Kept
<1>5. /\ <<"channel", 0>> \in Place /\ QueuePlace(k) \in Place /\ Fits(QueuePlace(k), h)
      /\ C[<<"channel", 0>>] = ch
  BY <1>2, InPlaces, FitsAre, LineAt
<1>6. Held(gi, D, dr, arr)
  <2> HIDE DEF C, D, arr, k, r
  <2>1. C[<<"channel", 0>>] # <<>> /\ Fits(QueuePlace(k), Head(C[<<"channel", 0>>]))
    BY <1>5
  <2> QED
    BY <1>3, <1>4, <1>5, <2>1, HeldPassed
<1>7. Streamed(r, n) /\ Gained(q, n, r, n, k)
  <2> HIDE DEF k
  <2>1. MayGain(n, n, k)
    BY <1>1, <1>2 DEF MayGain
  <2> HIDE DEF h
  <2> QED
    BY <1>1, <1>4, <2>1, StreamGains
<1>8. Numbered(gi, Tail(ch), lp, r, w, n, dr, arr, qh + 1, ql)
  <2>1. Len(Tail(ch)) = Len(ch) - 1
    BY <1>1
  <2> DEFINE ch2 == Tail(ch)
  <2>2. Len(ch2) = Len(ch) - 1
    BY <2>1
  <2> HIDE DEF r, arr, k, h, ch2
  <2>4. Len(gi) = ((((Len(ch) + Len(lp)) + Cardinality(dr)) + Cardinality(arr))
                     + Tally(q, 1..n)) + Tally(w, 1..n)
    BY <1>4 DEF Numbered
  <2>5. qh = Tally(q, {1, 2}) /\ ql = Tally(q, 3..n) + Len(lp)
    BY <1>4 DEF Numbered
  <2>6. /\ Tally(r, 1..n) = Tally(q, 1..n) + 1 /\ Tally(r, {1, 2}) = Tally(q, {1, 2}) + 1
        /\ Tally(r, 3..n) = Tally(q, 3..n)
    BY <1>2, <1>7 DEF Gained
  <2>7. Len(gi) = ((((Len(ch2) + Len(lp)) + Cardinality(dr)) + Cardinality(arr))
                     + Tally(r, 1..n)) + Tally(w, 1..n)
    <3> DEFINE all   == Len(gi)
               inCh  == Len(ch)
               inLp  == Len(lp)
               inDr  == Cardinality(dr)
               inArr == Cardinality(arr)
               inQ   == Tally(q, 1..n)
               inW   == Tally(w, 1..n)
               inCh2 == Len(ch2)
               inQ2  == Tally(r, 1..n)
    <3>1. /\ inCh \in Nat /\ inLp \in Nat /\ inDr \in Nat
          /\ inArr \in Nat /\ inQ \in Nat /\ inW \in Nat
          /\ inCh2 = inCh - 1 /\ inQ2 = inQ + 1
          /\ all = ((((inCh + inLp) + inDr) + inArr) + inQ) + inW
      BY <1>0, <2>2, <2>4, <2>6
    <3> HIDE DEF all, inCh, inLp, inDr, inArr, inQ, inW, inCh2, inQ2
    <3>2. all = ((((inCh2 + inLp) + inDr) + inArr) + inQ2) + inW
      BY <3>1
    <3> QED
      BY <3>2 DEF all, inCh, inLp, inDr, inArr, inQ, inW, inCh2, inQ2
  <2>3. Numbered(gi, ch2, lp, r, w, n, dr, arr, qh + 1, ql)
    BY <2>5, <2>6, <2>7 DEF Numbered
  <2> QED
    BY <2>3 DEF ch2
<1>9. InOrder(gi, Tail(ch), r[1], w[1], rec["signal"])
  <2>1. q[1] \in Seq(Message) /\ w[1] \in Seq(Message)
    BY <1>1
  <2>2. InOrder(gi, ch, q[1], w[1], rec["signal"])
    BY DEF Kept
  <2>3. /\ h \in High => InOrder(gi, Tail(ch), Append(q[1], h), w[1], rec["signal"])
        /\ h \notin High => InOrder(gi, Tail(ch), q[1], w[1], rec["signal"])
    BY <1>1, <2>1, <2>2, OrderSorted
  <2>4. h \in High => r[1] = Append(q[1], h)
    BY <1>1, <1>2
  <2>5. h \notin High => r[1] = q[1]
    BY <1>1, <1>2
  <2> QED
    BY <2>3, <2>4, <2>5
<1>10. /\ Streamed(w, n) /\ rec \in [P!Session -> Seq(Message)] /\ \A m \in dr : P!Low(m)
  BY DEF Kept
<1> HIDE DEF h, k, r, arr
<1>11. Kept(gi, Tail(ch), lp, r, w, n, dr, rec, qh + 1, ql)
  BY <1>6, <1>7, <1>8, <1>9, <1>10 DEF Kept, D, arr
<1> QED
  BY <1>2, <1>11 DEF h, k, r

LEMMA KeptSortedLow ==
  ASSUME NEW gi, NEW ch, NEW lp, NEW q, NEW w, NEW n, NEW dr, NEW rec, NEW qh, NEW ql,
         Kept(gi, ch, lp, q, w, n, dr, rec, qh, ql), ch # <<>>, P!Low(Head(ch))
  PROVE  /\ Kept(gi, Tail(ch), lp, q, w, n, dr \cup {Head(ch)}, rec, qh, ql)
         /\ Kept(gi, Tail(ch), Append(lp, Head(ch)), q, w, n, dr, rec, qh, ql + 1)
<1> DEFINE h == Head(ch)
           C == Lines(ch, lp, q, w)
           D == Lines(Tail(ch), lp, q, w)
           E == Lines(Tail(ch), Append(lp, h), q, w)
           arr == Arr(rec)
           a == <<"channel", 0>>
           b == <<"lpchan", 0>>
<1>1. /\ gi \in Seq(Message) /\ ch \in Seq(Message) /\ lp \in Seq(Message)
      /\ q \in [Nat -> Seq(Message)] /\ w \in [Nat -> Seq(Message)]
      /\ n \in Nat /\ n >= 2 /\ h \in Message
      /\ rec["signal"] \in Seq(Message)
  BY KeptIs
<1>0. /\ Len(gi) \in Nat /\ Len(ch) \in Nat /\ Len(lp) \in Nat
      /\ Cardinality(dr) \in Nat /\ Cardinality(arr) \in Nat
      /\ Tally(q, 1..n) \in Nat /\ Tally(q, {1, 2}) \in Nat /\ Tally(q, 3..n) \in Nat
      /\ Tally(w, 1..n) \in Nat
  BY KeptIs
<1>2. h \notin High
  BY <1>1 DEF High, P!Low
<1>3. Shorter(C, D, a) /\ Along(C, E, a, b)
  <2>1. 0 \in Nat
    OBVIOUS
  <2> QED
    BY <1>1, <2>1, LinesMove
<1>4. Held(gi, C, dr, arr) /\ Numbered(gi, ch, lp, q, w, n, dr, arr, qh, ql)
  BY DEF Kept
<1>5. a \in Place /\ b \in Place /\ Fits(b, h) /\ C[a] = ch
  <2>1. Fits(b, h)
    BY DEF Fits
  <2> QED
    BY <2>1, InPlaces, LineAt
<1>6. /\ Held(gi, D, dr \cup {h}, arr) /\ OneLarger(dr, dr \cup {h})
      /\ Held(gi, E, dr, arr)
  <2> HIDE DEF C, D, E, arr, a, b
  <2>1. Held(gi, D, dr \cup {h}, arr) /\ OneLarger(dr, dr \cup {h})
    <3>1. C[a] # <<>> /\ Head(C[a]) = h
      BY <1>5
    <3> HIDE DEF h
    <3>2. Held(gi, D, dr \cup {Head(C[a])}, arr) /\ OneLarger(dr, dr \cup {Head(C[a])})
      BY <1>3, <1>4, <1>5, <3>1, HeldWent
    <3> QED
      BY <3>1, <3>2
  <2>2. Held(gi, E, dr, arr)
    <3>1. C[a] # <<>> /\ Fits(b, Head(C[a]))
      BY <1>5
    <3> QED
      BY <1>3, <1>4, <1>5, <3>1, HeldPassed
  <2> QED
    BY <2>1, <2>2
<1>7. Len(Tail(ch)) = Len(ch) - 1 /\ Len(Append(lp, h)) = Len(lp) + 1
  BY <1>1
<1>8. /\ Numbered(gi, Tail(ch), lp, q, w, n, dr \cup {h}, arr, qh, ql)
      /\ Numbered(gi, Tail(ch), Append(lp, h), q, w, n, dr, arr, qh, ql + 1)
  <2> DEFINE ch2 == Tail(ch)
             lp2 == Append(lp, h)
             dr2 == dr \cup {h}
  <2>1. Len(ch2) = Len(ch) - 1 /\ Len(lp2) = Len(lp) + 1
    BY <1>7
  <2>2. Cardinality(dr2) = Cardinality(dr) + 1
    BY <1>6 DEF OneLarger
  <2> HIDE DEF arr, h, ch2, lp2, dr2
  <2>3. Len(gi) = ((((Len(ch) + Len(lp)) + Cardinality(dr)) + Cardinality(arr))
                     + Tally(q, 1..n)) + Tally(w, 1..n)
    BY <1>4 DEF Numbered
  <2>4. qh = Tally(q, {1, 2}) /\ ql = Tally(q, 3..n) + Len(lp)
    BY <1>4 DEF Numbered
  <2>5. Len(gi) = ((((Len(ch2) + Len(lp)) + Cardinality(dr2)) + Cardinality(arr))
                     + Tally(q, 1..n)) + Tally(w, 1..n)
    <3> DEFINE all   == Len(gi)
               inCh  == Len(ch)
               inLp  == Len(lp)
               inDr  == Cardinality(dr)
               inArr == Cardinality(arr)
               inQ   == Tally(q, 1..n)
               inW   == Tally(w, 1..n)
               inCh2 == Len(ch2)
               inDr2 == Cardinality(dr2)
    <3>1. /\ inCh \in Nat /\ inLp \in Nat /\ inDr \in Nat
          /\ inArr \in Nat /\ inQ \in Nat /\ inW \in Nat
          /\ inCh2 = inCh - 1 /\ inDr2 = inDr + 1
          /\ all = ((((inCh + inLp) + inDr) + inArr) + inQ) + inW
      BY <1>0, <2>1, <2>2, <2>3
    <3> HIDE DEF all, inCh, inLp, inDr, inArr, inQ, inW, inCh2, inDr2
    <3>2. all = ((((inCh2 + inLp) + inDr2) + inArr) + inQ) + inW
      BY <3>1
    <3> QED
      BY <3>2 DEF all, inCh, inLp, inDr, inArr, inQ, inW, inCh2, inDr2
  <2>6. Len(gi) = ((((Len(ch2) + Len(lp2)) + Cardinality(dr)) + Cardinality(arr))
                     + Tally(q, 1..n)) + Tally(w, 1..n)
    <3> DEFINE all   == Len(gi)
               inCh  == Len(ch)
               inLp  == Len(lp)
               inDr  == Cardinality(dr)
               inArr == Cardinality(arr)
               inQ   == Tally(q, 1..n)
               inW   == Tally(w, 1..n)
               inCh2 == Len(ch2)
               inLp2 == Len(lp2)
    <3>1. /\ inCh \in Nat /\ inLp \in Nat /\ inDr \in Nat
          /\ inArr \in Nat /\ inQ \in Nat /\ inW \in Nat
          /\ inCh2 = inCh - 1 /\ inLp2 = inLp + 1
          /\ all = ((((inCh + inLp) + inDr) + inArr) + inQ) + inW
      BY <1>0, <2>1, <2>3
    <3> HIDE DEF all, inCh, inLp, inDr, inArr, inQ, inW, inCh2, inLp2
    <3>2. all = ((((inCh2 + inLp2) + inDr) + inArr) + inQ) + inW
      BY <3>1
    <3> QED
      BY <3>2 DEF all, inCh, inLp, inDr, inArr, inQ, inW, inCh2, inLp2
  <2>7. ql + 1 = Tally(q, 3..n) + Len(lp2)
    <3> DEFINE inLp  == Len(lp)
               inLp2 == Len(lp2)
               x     == Tally(q, 3..n)
    <3>1. inLp \in Nat /\ ql = x + inLp /\ inLp2 = inLp + 1
      BY <1>0, <2>1, <2>4
    <3>2. x \in Nat
      BY <1>0
    <3> HIDE DEF inLp, inLp2, x
    <3>3. ql + 1 = x + inLp2
      BY <3>1, <3>2
    <3> QED
      BY <3>3 DEF inLp2, x
  <2>8. Numbered(gi, ch2, lp, q, w, n, dr2, arr, qh, ql)
    BY <2>4, <2>5 DEF Numbered
  <2>9. Numbered(gi, ch2, lp2, q, w, n, dr, arr, qh, ql + 1)
    BY <2>4, <2>6, <2>7 DEF Numbered
  <2> QED
    BY <2>8, <2>9 DEF ch2, lp2, dr2
<1>9. InOrder(gi, Tail(ch), q[1], w[1], rec["signal"])
  <2>1. q[1] \in Seq(Message) /\ w[1] \in Seq(Message)
    BY <1>1
  <2>2. InOrder(gi, ch, q[1], w[1], rec["signal"])
    BY DEF Kept
  <2> QED
    BY <1>1, <1>2, <2>1, <2>2, OrderSorted
<1>10. /\ Streamed(q, n) /\ Streamed(w, n) /\ rec \in [P!Session -> Seq(Message)]
       /\ \A m \in dr \cup {h} : P!Low(m)
  BY DEF Kept
<1> HIDE DEF h, arr
<1>11. Kept(gi, Tail(ch), lp, q, w, n, dr \cup {h}, rec, qh, ql)
  BY <1>6, <1>8, <1>9, <1>10 DEF Kept, D, arr
<1>12. Kept(gi, Tail(ch), Append(lp, h), q, w, n, dr, rec, qh, ql + 1)
  BY <1>6, <1>8, <1>9, <1>10 DEF Kept, E, arr
<1> QED
  BY <1>11, <1>12 DEF h

LEMMA KeptStreamed ==
  ASSUME NEW gi, NEW ch, NEW lp, NEW q, NEW w, NEW n, NEW dr, NEW rec, NEW qh, NEW ql,
         Kept(gi, ch, lp, q, w, n, dr, rec, qh, ql), lp # <<>>,
         NEW m, NEW k, MayGain(n, m, k), ClassOf(k) = "lp"
  PROVE  Kept(gi, ch, Tail(lp), [q EXCEPT ![k] = Append(q[k], Head(lp))], w, m, dr, rec, qh, ql)
<1> DEFINE h == Head(lp)
           r == [q EXCEPT ![k] = Append(q[k], h)]
           C == Lines(ch, lp, q, w)
           D == Lines(ch, Tail(lp), r, w)
           arr == Arr(rec)
           b == <<"lpchan", 0>>
<1>1. /\ lp \in Seq(Message) /\ q \in [Nat -> Seq(Message)] /\ w \in [Nat -> Seq(Message)]
      /\ h \in Message /\ P!Low(h)
  BY KeptIs
<1>0. /\ Len(gi) \in Nat /\ Len(ch) \in Nat /\ Len(lp) \in Nat
      /\ Cardinality(dr) \in Nat /\ Cardinality(arr) \in Nat
      /\ Tally(q, 1..n) \in Nat /\ Tally(q, {1, 2}) \in Nat /\ Tally(q, 3..n) \in Nat
      /\ Tally(w, 1..n) \in Nat
  BY KeptIs
<1>2. k \in Nat \ {0} /\ k \in Nat /\ ~(k <= 2) /\ k # 1 /\ Class(h) = ClassOf(k)
  <2>1. k \in Nat \ {0}
    BY DEF MayGain
  <2>2. ~(k <= 2)
    BY <2>1, ClassesOf
  <2>3. Class(h) = "lp"
    <3> HIDE DEF h
    <3> QED
      BY <1>1, Classes
  <2> HIDE DEF h
  <2> QED
    BY <2>1, <2>2, <2>3
<1>3. Along(C, D, b, QueuePlace(k))
  BY <1>1, <1>2, LinesMove
<1>4. /\ Held(gi, C, dr, arr) /\ Numbered(gi, ch, lp, q, w, n, dr, arr, qh, ql) /\ Streamed(q, n)
      /\ Streamed(w, n)
  BY DEF Kept
<1>5. /\ b \in Place /\ QueuePlace(k) \in Place /\ Fits(QueuePlace(k), h) /\ C[b] = lp
  BY <1>2, InPlaces, FitsAre, LineAt
<1>6. Held(gi, D, dr, arr)
  <2> HIDE DEF C, D, arr, r, b
  <2>1. C[b] # <<>> /\ Fits(QueuePlace(k), Head(C[b]))
    BY <1>5
  <2> QED
    BY <1>3, <1>4, <1>5, <2>1, HeldPassed
<1>7. Streamed(r, m) /\ Gained(q, n, r, m, k)
  <2> HIDE DEF h
  <2> QED
    BY <1>1, <1>4, StreamGains
<1>8. Streamed(w, m) /\ Tally(w, 1..m) = Tally(w, 1..n)
  BY <1>4, StreamWider
<1>9. Numbered(gi, ch, Tail(lp), r, w, m, dr, arr, qh, ql)
  <2> DEFINE lp2 == Tail(lp)
  <2>2. Len(lp2) = Len(lp) - 1
    BY <1>1
  <2> HIDE DEF r, arr, h, lp2
  <2>4. Len(gi) = ((((Len(ch) + Len(lp)) + Cardinality(dr)) + Cardinality(arr))
                     + Tally(q, 1..n)) + Tally(w, 1..n)
    BY <1>4 DEF Numbered
  <2>5. qh = Tally(q, {1, 2}) /\ ql = Tally(q, 3..n) + Len(lp)
    BY <1>4 DEF Numbered
  <2>6. /\ Tally(r, 1..m) = Tally(q, 1..n) + 1 /\ Tally(r, {1, 2}) = Tally(q, {1, 2})
        /\ Tally(r, 3..m) = Tally(q, 3..n) + 1
    BY <1>2, <1>7 DEF Gained
  <2>7. Len(gi) = ((((Len(ch) + Len(lp2)) + Cardinality(dr)) + Cardinality(arr))
                     + Tally(r, 1..m)) + Tally(w, 1..m)
    <3> DEFINE all   == Len(gi)
               inCh  == Len(ch)
               inLp  == Len(lp)
               inDr  == Cardinality(dr)
               inArr == Cardinality(arr)
               inQ   == Tally(q, 1..n)
               inW   == Tally(w, 1..n)
               inLp2 == Len(lp2)
               inQ2  == Tally(r, 1..m)
               inW2  == Tally(w, 1..m)
    <3>1. /\ inCh \in Nat /\ inLp \in Nat /\ inDr \in Nat
          /\ inArr \in Nat /\ inQ \in Nat /\ inW \in Nat
          /\ inLp2 = inLp - 1 /\ inQ2 = inQ + 1 /\ inW2 = inW
          /\ all = ((((inCh + inLp) + inDr) + inArr) + inQ) + inW
      BY <1>0, <1>8, <2>2, <2>4, <2>6
    <3> HIDE DEF all, inCh, inLp, inDr, inArr, inQ, inW, inLp2, inQ2, inW2
    <3>2. all = ((((inCh + inLp2) + inDr) + inArr) + inQ2) + inW2
      BY <3>1
    <3> QED
      BY <3>2 DEF all, inCh, inLp, inDr, inArr, inQ, inW, inLp2, inQ2, inW2
  <2>8. ql = Tally(r, 3..m) + Len(lp2)
    <3> DEFINE inLp  == Len(lp)
               inLp2 == Len(lp2)
               x     == Tally(q, 3..n)
               x2    == Tally(r, 3..m)
    <3>1. inLp \in Nat /\ x \in Nat /\ ql = x + inLp /\ inLp2 = inLp - 1 /\ x2 = x + 1
      BY <1>0, <2>2, <2>5, <2>6
    <3> HIDE DEF inLp, inLp2, x, x2
    <3>2. ql = x2 + inLp2
      BY <3>1
    <3> QED
      BY <3>2 DEF inLp2, x2
  <2>3. Numbered(gi, ch, lp2, r, w, m, dr, arr, qh, ql)
    BY <2>5, <2>6, <2>7, <2>8 DEF Numbered
  <2> QED
    BY <2>3 DEF lp2
<1>10. InOrder(gi, ch, r[1], w[1], rec["signal"])
  <2>1. r[1] = q[1]
    BY <1>1, <1>2
  <2>2. InOrder(gi, ch, q[1], w[1], rec["signal"])
    BY DEF Kept
  <2> QED
    BY <2>1, <2>2
<1>11. /\ rec \in [P!Session -> Seq(Message)] /\ \A x \in dr : P!Low(x)
  BY DEF Kept
<1> HIDE DEF h, r, arr
<1>12. Kept(gi, ch, Tail(lp), r, w, m, dr, rec, qh, ql)
  BY <1>6, <1>7, <1>8, <1>9, <1>10, <1>11 DEF Kept, D, arr
<1> QED
  BY <1>12 DEF h, r

LEMMA KeptWritten ==
  ASSUME NEW gi, NEW ch, NEW lp, NEW q, NEW w, NEW n, NEW dr, NEW rec, NEW qh, NEW ql,
         Kept(gi, ch, lp, q, w, n, dr, rec, qh, ql), NEW k \in 1..n, q[k] # <<>>
  PROVE  LET h == Head(q[k])
             r == [q EXCEPT ![k] = Tail(q[k])]
             v == [w EXCEPT ![k] = Append(w[k], h)]
         IN
         /\ P!Low(h) => /\ Kept(gi, ch, lp, r, v, n, dr, rec, qh, ql - 1)
                        /\ Kept(gi, ch, lp, r, w, n, dr \cup {h}, rec, qh, ql - 1)
         /\ ~P!Low(h) => Kept(gi, ch, lp, r, v, n, dr, rec, qh - 1, ql)
<1> DEFINE h == Head(q[k])
           r == [q EXCEPT ![k] = Tail(q[k])]
           v == [w EXCEPT ![k] = Append(w[k], h)]
           C == Lines(ch, lp, q, w)
           D == Lines(ch, lp, r, v)
           E == Lines(ch, lp, r, w)
           arr == Arr(rec)
<1>1. /\ q \in [Nat -> Seq(Message)] /\ w \in [Nat -> Seq(Message)] /\ n \in Nat /\ n >= 2
      /\ rec["signal"] \in Seq(Message)
  BY KeptIs
<1>a. k \in Nat \ {0} /\ k \in Nat
  BY <1>1
<1>0. /\ Len(gi) \in Nat /\ Len(ch) \in Nat /\ Len(lp) \in Nat
      /\ Cardinality(dr) \in Nat /\ Cardinality(arr) \in Nat
      /\ Tally(q, 1..n) \in Nat /\ Tally(q, {1, 2}) \in Nat /\ Tally(q, 3..n) \in Nat
      /\ Tally(w, 1..n) \in Nat
  BY KeptIs
<1>b. h \in Message /\ Class(h) = ClassOf(k)
  <2>1. \A j \in Nat : q[j] # <<>> => Head(q[j]) \in Message /\ Class(Head(q[j])) = ClassOf(j)
    BY KeptIs
  <2> QED
    BY <1>a, <2>1
<1>2. (P!Low(h) <=> ~(k <= 2)) /\ (k = 1 => ~P!Low(h))
  <2>1. Class(h) = "lp" <=> P!Low(h)
    <3> HIDE DEF h
    <3> QED
      BY <1>b, Classes
  <2>2. ClassOf(k) = "lp" <=> ~(k <= 2)
    BY <1>a, ClassesOf
  <2> HIDE DEF h
  <2> QED
    BY <1>a, <1>b, <2>1, <2>2
<1>3. Along(C, D, QueuePlace(k), WirePlace(k)) /\ Shorter(C, E, QueuePlace(k))
  BY <1>1, <1>a, LinesMove
<1>4. /\ Held(gi, C, dr, arr) /\ Numbered(gi, ch, lp, q, w, n, dr, arr, qh, ql) /\ Streamed(q, n)
      /\ Streamed(w, n)
  BY DEF Kept
<1>5. /\ WirePlace(k) \in Place /\ QueuePlace(k) \in Place /\ Fits(WirePlace(k), h)
      /\ C[QueuePlace(k)] = q[k]
  BY <1>a, <1>b, InPlaces, FitsAre, LineAt
<1>6. Held(gi, D, dr, arr) /\ Held(gi, E, dr \cup {h}, arr) /\ OneLarger(dr, dr \cup {h})
  <2> HIDE DEF C, D, E, arr, r, v
  <2>1. C[QueuePlace(k)] # <<>> /\ Fits(WirePlace(k), Head(C[QueuePlace(k)]))
    BY <1>5
  <2>2. Held(gi, D, dr, arr)
    BY <1>3, <1>4, <1>5, <2>1, HeldPassed
  <2>3. /\ Held(gi, E, dr \cup {Head(C[QueuePlace(k)])}, arr)
        /\ OneLarger(dr, dr \cup {Head(C[QueuePlace(k)])})
    BY <1>3, <1>4, <1>5, <2>1, HeldWent
  <2> QED
    BY <1>5, <2>2, <2>3
<1>7. Streamed(r, n) /\ Gained(r, n, q, n, k)
  BY <1>4, StreamLoses
<1>8. Streamed(v, n) /\ Gained(w, n, v, n, k)
  <2>1. MayGain(n, n, k)
    BY <1>1 DEF MayGain
  <2> HIDE DEF h
  <2> QED
    BY <1>4, <1>b, <2>1, StreamGains
<1>9. /\ P!Low(h) => /\ Numbered(gi, ch, lp, r, v, n, dr, arr, qh, ql - 1)
                     /\ Numbered(gi, ch, lp, r, w, n, dr \cup {h}, arr, qh, ql - 1)
      /\ ~P!Low(h) => Numbered(gi, ch, lp, r, v, n, dr, arr, qh - 1, ql)
  <2> HIDE DEF r, v, arr, h
  <2>4. Len(gi) = ((((Len(ch) + Len(lp)) + Cardinality(dr)) + Cardinality(arr))
                     + Tally(q, 1..n)) + Tally(w, 1..n)
    BY <1>4 DEF Numbered
  <2>5. qh = Tally(q, {1, 2}) /\ ql = Tally(q, 3..n) + Len(lp)
    BY <1>4 DEF Numbered
  <2>6. Tally(q, 1..n) = Tally(r, 1..n) + 1 /\ Tally(r, 1..n) \in Nat
    BY <1>7 DEF Gained
  <2>a. Tally(r, {1, 2}) \in Nat /\ Tally(r, 3..n) \in Nat
    BY <1>7 DEF Gained
  <2>b. /\ ~P!Low(h) => Tally(q, {1, 2}) = Tally(r, {1, 2}) + 1 /\ Tally(q, 3..n) = Tally(r, 3..n)
        /\ P!Low(h) => Tally(q, {1, 2}) = Tally(r, {1, 2}) /\ Tally(q, 3..n) = Tally(r, 3..n) + 1
    BY <1>2, <1>7 DEF Gained
  <2>7. Tally(v, 1..n) = Tally(w, 1..n) + 1
    BY <1>8 DEF Gained
  <2>8. Cardinality(dr \cup {h}) = Cardinality(dr) + 1
    BY <1>6 DEF OneLarger
  <2> DEFINE dr2 == dr \cup {h}
  <2>c. Cardinality(dr2) = Cardinality(dr) + 1
    BY <2>8
  <2> HIDE DEF dr2
  <2>d. Len(gi) = ((((Len(ch) + Len(lp)) + Cardinality(dr)) + Cardinality(arr))
                     + Tally(r, 1..n)) + Tally(v, 1..n)
    <3> DEFINE all   == Len(gi)
               inCh  == Len(ch)
               inLp  == Len(lp)
               inDr  == Cardinality(dr)
               inArr == Cardinality(arr)
               inQ   == Tally(q, 1..n)
               inW   == Tally(w, 1..n)
               inQ2  == Tally(r, 1..n)
               inW2  == Tally(v, 1..n)
    <3>1. /\ inCh \in Nat /\ inLp \in Nat /\ inDr \in Nat
          /\ inArr \in Nat /\ inQ \in Nat /\ inW \in Nat /\ inQ2 \in Nat
          /\ inQ = inQ2 + 1 /\ inW2 = inW + 1
          /\ all = ((((inCh + inLp) + inDr) + inArr) + inQ) + inW
      BY <1>0, <2>4, <2>6, <2>7
    <3> HIDE DEF all, inCh, inLp, inDr, inArr, inQ, inW, inQ2, inW2
    <3>2. all = ((((inCh + inLp) + inDr) + inArr) + inQ2) + inW2
      BY <3>1
    <3> QED
      BY <3>2 DEF all, inCh, inLp, inDr, inArr, inQ, inW, inQ2, inW2
  <2>e. Len(gi) = ((((Len(ch) + Len(lp)) + Cardinality(dr2)) + Cardinality(arr))
                     + Tally(r, 1..n)) + Tally(w, 1..n)
    <3> DEFINE all   == Len(gi)
               inCh  == Len(ch)
               inLp  == Len(lp)
               inDr  == Cardinality(dr)
               inArr == Cardinality(arr)
               inQ   == Tally(q, 1..n)
               inW   == Tally(w, 1..n)
               inQ2  == Tally(r, 1..n)
               inDr2 == Cardinality(dr2)
    <3>1. /\ inCh \in Nat /\ inLp \in Nat /\ inDr \in Nat
          /\ inArr \in Nat /\ inQ \in Nat /\ inW \in Nat /\ inQ2 \in Nat
          /\ inQ = inQ2 + 1 /\ inDr2 = inDr + 1
          /\ all = ((((inCh + inLp) + inDr) + inArr) + inQ) + inW
      BY <1>0, <2>4, <2>6, <2>c
    <3> HIDE DEF all, inCh, inLp, inDr, inArr, inQ, inW, inQ2, inDr2
    <3>2. all = ((((inCh + inLp) + inDr2) + inArr) + inQ2) + inW
      BY <3>1
    <3> QED
      BY <3>2 DEF all, inCh, inLp, inDr, inArr, inQ, inW, inQ2, inDr2
  <2>9. /\ Len(gi) = ((((Len(ch) + Len(lp)) + Cardinality(dr)) + Cardinality(arr))
                     + Tally(r, 1..n)) + Tally(v, 1..n)
        /\ Len(gi) = ((((Len(ch) + Len(lp)) + Cardinality(dr \cup {h})) + Cardinality(arr))
                     + Tally(r, 1..n)) + Tally(w, 1..n)
    BY <2>d, <2>e DEF dr2
  <2>10. P!Low(h) => qh = Tally(r, {1, 2}) /\ ql - 1 = Tally(r, 3..n) + Len(lp)
    <3> DEFINE inLp  == Len(lp)
               x     == Tally(q, 3..n)
               y     == Tally(r, 3..n)
    <3>1. inLp \in Nat /\ y \in Nat /\ ql = x + inLp
      BY <1>0, <2>5, <2>a
    <3>2. P!Low(h) => qh = Tally(r, {1, 2}) /\ x = y + 1
      BY <2>5, <2>b
    <3> HIDE DEF inLp, x, y
    <3>3. x = y + 1 => ql - 1 = y + inLp
      BY <3>1
    <3> QED
      BY <3>2, <3>3 DEF inLp, y
  <2>11. ~P!Low(h) => qh - 1 = Tally(r, {1, 2}) /\ ql = Tally(r, 3..n) + Len(lp)
    <3> DEFINE x == Tally(q, {1, 2})
               y == Tally(r, {1, 2})
    <3>1. y \in Nat /\ qh = x /\ ql = Tally(q, 3..n) + Len(lp)
      BY <2>5, <2>a
    <3>2. ~P!Low(h) => x = y + 1 /\ Tally(q, 3..n) = Tally(r, 3..n)
      BY <2>b
    <3> HIDE DEF x, y
    <3>3. x = y + 1 => qh - 1 = y
      BY <3>1
    <3> QED
      BY <3>1, <3>2, <3>3 DEF y
  <2> QED
    BY <2>9, <2>10, <2>11 DEF Numbered
<1>10. /\ InOrder(gi, ch, r[1], v[1], rec["signal"])
       /\ P!Low(h) => InOrder(gi, ch, r[1], w[1], rec["signal"])
  <2>1. q[1] \in Seq(Message) /\ w[1] \in Seq(Message)
    BY <1>1
  <2>2. InOrder(gi, ch, q[1], w[1], rec["signal"])
    BY DEF Kept
  <2>3. CASE k = 1
    <3>1. r[1] = Tail(q[1]) /\ v[1] = Append(w[1], Head(q[1])) /\ q[1] # <<>>
      BY <1>1, <2>3
    <3>2. InOrder(gi, ch, Tail(q[1]), Append(w[1], Head(q[1])), rec["signal"])
      BY <1>1, <2>1, <2>2, <3>1, OrderWritten
    <3> HIDE DEF r, v, h
    <3> QED
      BY <1>2, <2>3, <3>1, <3>2
  <2>4. CASE k # 1
    <3>1. r[1] = q[1] /\ v[1] = w[1]
      BY <1>1, <2>4
    <3> HIDE DEF r, v, h
    <3> QED
      BY <2>2, <3>1
  <2> QED
    BY <2>3, <2>4
<1>11. /\ rec \in [P!Session -> Seq(Message)] /\ \A x \in dr : P!Low(x)
  BY DEF Kept
<1> HIDE DEF h, r, v, arr
<1>12. P!Low(h) => Kept(gi, ch, lp, r, v, n, dr, rec, qh, ql - 1)
  BY <1>4, <1>6, <1>7, <1>8, <1>9, <1>10, <1>11 DEF Kept, D, arr
<1>13. P!Low(h) => Kept(gi, ch, lp, r, w, n, dr \cup {h}, rec, qh, ql - 1)
  BY <1>4, <1>6, <1>7, <1>8, <1>9, <1>10, <1>11 DEF Kept, E, arr
<1>14. ~P!Low(h) => Kept(gi, ch, lp, r, v, n, dr, rec, qh - 1, ql)
  BY <1>4, <1>6, <1>7, <1>8, <1>9, <1>10, <1>11 DEF Kept, D, arr
<1> QED
  BY <1>12, <1>13, <1>14 DEF h, r, v

LEMMA KeptReceived ==
  ASSUME NEW gi, NEW ch, NEW lp, NEW q, NEW w, NEW n, NEW dr, NEW rec, NEW qh, NEW ql,
         Kept(gi, ch, lp, q, w, n, dr, rec, qh, ql), NEW k \in 1..n, w[k] # <<>>
  PROVE  Kept(gi, ch, lp, q, [w EXCEPT ![k] = Tail(w[k])], n, dr,
              [rec EXCEPT ![ClassOf(k)] = Append(@, Head(w[k]))], qh, ql)
<1> DEFINE h == Head(w[k])
           s == ClassOf(k)
           v == [w EXCEPT ![k] = Tail(w[k])]
           x == Append(rec[s], h)
           rec2 == [rec EXCEPT ![s] = x]
           C == Lines(ch, lp, q, w)
           D == Lines(ch, lp, q, v)
           arr == Arr(rec)
<1>1. /\ q \in [Nat -> Seq(Message)] /\ w \in [Nat -> Seq(Message)] /\ n \in Nat /\ n >= 2
      /\ rec["signal"] \in Seq(Message)
  BY KeptIs
<1>a. k \in Nat \ {0} /\ k \in Nat
  BY <1>1
<1>0. /\ Len(gi) \in Nat /\ Len(ch) \in Nat /\ Len(lp) \in Nat
      /\ Cardinality(dr) \in Nat /\ Cardinality(arr) \in Nat
      /\ Tally(q, 1..n) \in Nat /\ Tally(q, {1, 2}) \in Nat /\ Tally(q, 3..n) \in Nat
      /\ Tally(w, 1..n) \in Nat
  BY KeptIs
<1>b. h \in Message
  <2>1. \A j \in Nat : w[j] # <<>> => Head(w[j]) \in Message /\ Class(Head(w[j])) = ClassOf(j)
    BY KeptIs
  <2> QED
    BY <1>a, <2>1
<1>2. s \in P!Session /\ (s = "signal" <=> k = 1)
  BY <1>a, ClassesOf
<1>3. Shorter(C, D, WirePlace(k))
  BY <1>1, <1>a, LinesMove
<1>4. /\ Held(gi, C, dr, arr) /\ Numbered(gi, ch, lp, q, w, n, dr, arr, qh, ql) /\ Streamed(q, n)
      /\ Streamed(w, n) /\ rec \in [P!Session -> Seq(Message)] /\ \A y \in dr : P!Low(y)
  BY DEF Kept
<1>5. WirePlace(k) \in Place /\ C[WirePlace(k)] = w[k]
  BY <1>a, InPlaces, LineAt
<1>6. Held(gi, D, dr, arr \cup {h}) /\ OneLarger(arr, arr \cup {h})
  <2> HIDE DEF C, D, arr, v
  <2>1. C[WirePlace(k)] # <<>>
    BY <1>5
  <2>3. /\ Held(gi, D, dr, arr \cup {Head(C[WirePlace(k)])})
        /\ OneLarger(arr, arr \cup {Head(C[WirePlace(k)])})
    BY <1>3, <1>4, <1>5, <2>1, HeldWent
  <2> QED
    BY <1>5, <2>3
<1>7. Streamed(v, n) /\ Gained(v, n, w, n, k)
  BY <1>4, StreamLoses
<1>8. /\ rec2 \in [P!Session -> Seq(Message)] /\ Arr(rec2) = arr \cup {h}
      /\ rec2[s] = x /\ \A t \in P!Session : t # s => rec2[t] = rec[t]
  <2> DEFINE Q == Seq(Message)
  <2>1. rec[s] \in Q /\ rec \in [P!Session -> Q]
    BY <1>2, <1>4
  <2>2. x \in Q /\ Rng(x) = Rng(rec[s]) \cup {h}
    <3> HIDE DEF h, s
    <3> QED
      BY <1>b, <2>1, RngAppend
  <2> HIDE DEF Q, s, x, h
  <2>3. /\ rec2 \in [P!Session -> Q] /\ rec2[s] = x
        /\ \A t \in P!Session : t # s => rec2[t] = rec[t]
    BY <1>2, <2>1, <2>2
  <2> HIDE DEF rec2
  <2>4. Arr(rec2) = arr \cup {h}
    <3>1. \A t \in P!Session : Rng(rec2[t]) = IF t = s THEN Rng(rec[t]) \cup {h} ELSE Rng(rec[t])
      BY <2>2, <2>3
    <3> QED
      BY <1>2, <3>1 DEF Arr
  <2> QED
    BY <2>3, <2>4 DEF Q
<1>9. Numbered(gi, ch, lp, q, v, n, dr, Arr(rec2), qh, ql)
  <2> HIDE DEF v, arr, h, rec2
  <2>4. Len(gi) = ((((Len(ch) + Len(lp)) + Cardinality(dr)) + Cardinality(arr))
                     + Tally(q, 1..n)) + Tally(w, 1..n)
    BY <1>4 DEF Numbered
  <2>5. qh = Tally(q, {1, 2}) /\ ql = Tally(q, 3..n) + Len(lp)
    BY <1>4 DEF Numbered
  <2>7. Tally(w, 1..n) = Tally(v, 1..n) + 1 /\ Tally(v, 1..n) \in Nat
    BY <1>7 DEF Gained
  <2>8. Cardinality(Arr(rec2)) = Cardinality(arr) + 1
    BY <1>6, <1>8 DEF OneLarger
  <2>9. Len(gi) = ((((Len(ch) + Len(lp)) + Cardinality(dr)) + Cardinality(Arr(rec2)))
                     + Tally(q, 1..n)) + Tally(v, 1..n)
    <3> DEFINE all   == Len(gi)
               inCh  == Len(ch)
               inLp  == Len(lp)
               inDr  == Cardinality(dr)
               inArr == Cardinality(arr)
               inQ   == Tally(q, 1..n)
               inW   == Tally(w, 1..n)
               inArr2== Cardinality(Arr(rec2))
               inW2  == Tally(v, 1..n)
    <3>1. /\ inCh \in Nat /\ inLp \in Nat /\ inDr \in Nat
          /\ inArr \in Nat /\ inQ \in Nat /\ inW \in Nat /\ inW2 \in Nat
          /\ inArr2 = inArr + 1 /\ inW = inW2 + 1
          /\ all = ((((inCh + inLp) + inDr) + inArr) + inQ) + inW
      BY <1>0, <2>4, <2>7, <2>8
    <3> HIDE DEF all, inCh, inLp, inDr, inArr, inQ, inW, inArr2, inW2
    <3>2. all = ((((inCh + inLp) + inDr) + inArr2) + inQ) + inW2
      BY <3>1
    <3> QED
      BY <3>2 DEF all, inCh, inLp, inDr, inArr, inQ, inW, inArr2, inW2
  <2> QED
    BY <2>5, <2>9 DEF Numbered
<1>10. InOrder(gi, ch, q[1], v[1], rec2["signal"])
  <2>1. q[1] \in Seq(Message) /\ w[1] \in Seq(Message)
    BY <1>1
  <2>2. InOrder(gi, ch, q[1], w[1], rec["signal"])
    BY DEF Kept
  <2>3. CASE k = 1
    <3>1. v[1] = Tail(w[1]) /\ w[1] # <<>>
      BY <1>1, <2>3
    <3>2. InOrder(gi, ch, q[1], Tail(w[1]), Append(rec["signal"], Head(w[1])))
      BY <1>1, <2>1, <2>2, <3>1, OrderWritten
    <3>3. s = "signal" /\ h = Head(w[1]) /\ x = Append(rec["signal"], Head(w[1]))
      BY <1>2, <2>3
    <3>4. rec2["signal"] = Append(rec["signal"], Head(w[1]))
      <4> HIDE DEF rec2, s, x
      <4> QED
        BY <1>8, <3>3
    <3> HIDE DEF v, rec2
    <3> QED
      BY <3>1, <3>2, <3>4
  <2>4. CASE k # 1
    <3>1. v[1] = w[1]
      BY <1>1, <2>4
    <3>2. rec2["signal"] = rec["signal"]
      <4>1. "signal" \in P!Session
        BY DEF P!Session
      <4> HIDE DEF rec2, s
      <4> QED
        BY <1>2, <1>8, <2>4, <4>1
    <3> HIDE DEF v, rec2
    <3> QED
      BY <2>2, <3>1, <3>2
  <2> QED
    BY <2>3, <2>4
<1>11. Held(gi, D, dr, Arr(rec2))
  BY <1>6, <1>8
<1> HIDE DEF v, rec2
<1>12. Kept(gi, ch, lp, q, v, n, dr, rec2, qh, ql)
  BY <1>4, <1>7, <1>8, <1>9, <1>10, <1>11 DEF Kept, D
<1> QED
  BY <1>12 DEF v, rec2

LEMMA StreamTo ==
  ASSUME NEW strs, Sessions(strs), NEW k \in DOMAIN strs, NEW st \in Stream,
         st.session = strs[k].session
  PROVE  Became(strs, [strs EXCEPT ![k] = st], k, st.queue, st.wire)
<1> DEFINE next == [strs EXCEPT ![k] = st]
<1>1. /\ strs \in Seq(Stream) /\ DOMAIN strs = 1..Len(strs) /\ Len(strs) \in Nat
      /\ \A j \in DOMAIN strs : strs[j] \in Stream
  BY StreamSeq DEF Sessions
<1>2. next \in Seq(Stream) /\ DOMAIN next = DOMAIN strs /\ Len(next) = Len(strs)
  <2> DEFINE T == Stream
  <2>1. strs \in [1..Len(strs) -> T] /\ Len(strs) \in Nat /\ st \in T
    BY <1>1
  <2> HIDE DEF T
  <2>2. next \in [1..Len(strs) -> T]
    BY <2>1
  <2> HIDE DEF next
  <2>3. next \in Seq(T) /\ DOMAIN next = 1..Len(strs)
    BY <2>1, <2>2
  <2>4. Len(next) = Len(strs)
    BY <2>1, <2>3
  <2> QED
    BY <1>1, <2>3, <2>4 DEF T
<1>3. \A j \in DOMAIN strs : next[j] = IF j = k THEN st ELSE strs[j]
  BY <1>1
<1> HIDE DEF next
<1>4. Changed(strs, next, k, st.queue, st.wire)
  BY <1>2, <1>3 DEF Changed
<1>5. Became(strs, next, k, st.queue, st.wire)
  BY <1>4, ChangedBecame
<1> QED
  BY <1>5 DEF next

LEMMA WritesTo ==
  ASSUME NEW strs, Sessions(strs), NEW k \in DOMAIN strs,
         NEW x \in Seq(Message), NEW y \in Seq(Message)
  PROVE  /\ Became(strs, [strs EXCEPT ![k].queue = x], k, x, strs[k].wire)
         /\ Became(strs, [strs EXCEPT ![k].wire = y], k, strs[k].queue, y)
         /\ Became(strs, [strs EXCEPT ![k].queue = x, ![k].wire = y], k, x, y)
<1> DEFINE Q == Seq(Message)
           a == [strs[k] EXCEPT !.queue = x]
           b == [strs[k] EXCEPT !.wire = y]
           c == [strs[k] EXCEPT !.queue = x, !.wire = y]
<1>1. strs[k] \in Stream /\ strs \in Seq(Stream)
  BY StreamSeq DEF Sessions
<1>2. x \in Q /\ y \in Q /\ strs[k] \in StreamOver(Q) /\ Stream = StreamOver(Q)
  BY <1>1 DEF Stream
<1>3. /\ a \in Stream /\ a.session = strs[k].session /\ a.queue = x /\ a.wire = strs[k].wire
      /\ b \in Stream /\ b.session = strs[k].session /\ b.queue = strs[k].queue /\ b.wire = y
      /\ c \in Stream /\ c.session = strs[k].session /\ c.queue = x /\ c.wire = y
  <2> HIDE DEF Q
  <2> QED
    BY <1>2 DEF StreamOver
<1>4. /\ [strs EXCEPT ![k].queue = x] = [strs EXCEPT ![k] = a]
      /\ [strs EXCEPT ![k].wire = y] = [strs EXCEPT ![k] = b]
      /\ [strs EXCEPT ![k].queue = x, ![k].wire = y] = [strs EXCEPT ![k] = c]
  <2>1. DOMAIN strs = 1..Len(strs)
    BY <1>1, StreamSeq
  <2>2. [strs EXCEPT ![k].queue = x] = [strs EXCEPT ![k] = a]
    OBVIOUS
  <2>3. [strs EXCEPT ![k].wire = y] = [strs EXCEPT ![k] = b]
    OBVIOUS
  <2>4. [strs EXCEPT ![k].queue = x, ![k].wire = y] = [strs EXCEPT ![k] = c]
    BY <2>1
  <2> QED
    BY <2>2, <2>3, <2>4
<1> HIDE DEF a, b, c
<1>5. Became(strs, [strs EXCEPT ![k] = a], k, a.queue, a.wire)
  BY <1>3, StreamTo
<1>6. Became(strs, [strs EXCEPT ![k] = b], k, b.queue, b.wire)
  BY <1>3, StreamTo
<1>7. Became(strs, [strs EXCEPT ![k] = c], k, c.queue, c.wire)
  BY <1>3, StreamTo
<1> QED
  BY <1>3, <1>4, <1>5, <1>6, <1>7

\* The stream that a chunk is put into.
LEMMA EnqueuedBecame ==
  ASSUME Sessions(streams), NEW m \in Message
  PROVE  \E k \in Nat : /\ MayGain(Len(streams), Len(P!Trimmed(P!Enqueued(m))), k)
                        /\ ClassOf(k) = "lp"
                        /\ Sessions(P!Trimmed(P!Enqueued(m)))
                        /\ Queues(P!Trimmed(P!Enqueued(m)))
                             = [Queues(streams) EXCEPT ![k] = Append(Queues(streams)[k], m)]
                        /\ Wires(P!Trimmed(P!Enqueued(m))) = Wires(streams)
<1> DEFINE own == {k \in P!Active(streams) : streams[k].epoch = m.epoch}
           strs == P!Enqueued(m)
           n == Len(streams)
           q == Queues(streams)
           w == Wires(streams)
<1>1. /\ streams \in Seq(Stream) /\ n \in Nat /\ n >= 2 /\ DOMAIN streams = 1..n
      /\ q \in [Nat -> Seq(Message)] /\ w \in [Nat -> Seq(Message)]
  BY StreamSeq DEF Sessions
<1>2. \A k \in DOMAIN streams : /\ streams[k].queue \in Seq(Message) /\ streams[k].wire \in Seq(Message)
                                /\ k \in Nat /\ q[k] = streams[k].queue /\ w[k] = streams[k].wire
  BY <1>1, StreamSeq
<1>3. \E k \in Nat : /\ MayGain(n, Len(strs), k) /\ ClassOf(k) = "lp" /\ Sessions(strs)
                     /\ Queues(strs) = [q EXCEPT ![k] = Append(q[k], m)] /\ Wires(strs) = w
  <2>1. CASE own # {}
    <3> DEFINE k == CHOOSE k \in own : TRUE
               x == Append(streams[k].queue, m)
    <3>1. k \in own
      BY <2>1
    <3>2. k \in DOMAIN streams /\ streams[k].session = "lp"
      BY <3>1 DEF P!Active
    <3>3. strs = [streams EXCEPT ![k].queue = x]
      BY <2>1 DEF P!Enqueued
    <3> HIDE DEF k, strs
    <3>4. x \in Seq(Message)
      BY <1>2, <3>2
    <3>5. Became(streams, strs, k, x, streams[k].wire)
      <4> HIDE DEF x
      <4>1. <<>> \in Seq(Message)
        OBVIOUS
      <4> QED
        BY <3>2, <3>3, <3>4, <4>1, WritesTo
    <3>6. /\ x = Append(q[k], m) /\ k \in Nat /\ ClassOf(k) = "lp" /\ streams[k].wire = w[k]
      BY <1>2, <3>2 DEF Sessions
    <3>7. [w EXCEPT ![k] = w[k]] = w
      BY <1>1
    <3> HIDE DEF x, q, w, n
    <3>8. MayGain(n, Len(strs), k) /\ Sessions(strs)
      BY <3>5 DEF Became, MayGain, Sessions, n
    <3>9. Queues(strs) = [q EXCEPT ![k] = Append(q[k], m)] /\ Wires(strs) = w
      BY <3>5, <3>6, <3>7 DEF Became, q, w
    <3> QED
      BY <3>6, <3>8, <3>9
  <2>2. CASE own = {}
    <3> DEFINE st == [P!NewStream("lp", m.epoch) EXCEPT !.queue = <<m>>]
               k == n + 1
    <3>1. st \in Stream /\ st.session = "lp"
      BY NewStreamIs
    <3>2. st.queue = <<m>> /\ st.wire = <<>>
      BY DEF P!NewStream
    <3>3. strs = Append(streams, st)
      BY <2>2 DEF P!Enqueued
    <3> HIDE DEF st, strs
    <3>4. Became(streams, strs, k, st.queue, st.wire)
      BY <3>1, <3>3, AddedBecame
    <3>5. k \in Nat /\ ClassOf(k) = "lp" /\ q[k] = <<>> /\ w[k] = <<>>
      <4>1. k \in Nat \ {0} /\ ~(k <= 2) /\ k > n
        <5>1. n \in Nat /\ n >= 2
          BY <1>1
        <5> HIDE DEF n
        <5> QED
          BY <5>1
      <4>2. q[k] = <<>> /\ w[k] = <<>>
        BY <1>1, <4>1, StreamSeq
      <4> HIDE DEF k
      <4>3. ClassOf(k) = "lp"
        BY <4>1, ClassesOf
      <4> QED
        BY <4>1, <4>2, <4>3
    <3>6. Append(q[k], m) = <<m>> /\ [w EXCEPT ![k] = <<>>] = w
      <4>1. Append(<<>>, m) = <<m>>
        OBVIOUS
      <4> HIDE DEF k, q, w
      <4>2. [w EXCEPT ![k] = w[k]] = w
        BY <1>1
      <4> QED
        BY <3>5, <4>1, <4>2
    <3> HIDE DEF k, q, w, n
    <3>8. MayGain(n, Len(strs), k) /\ Sessions(strs)
      BY <3>4 DEF Became, MayGain, Sessions, n
    <3>9. Queues(strs) = [q EXCEPT ![k] = Append(q[k], m)] /\ Wires(strs) = w
      BY <3>2, <3>4, <3>6 DEF Became, q, w
    <3> QED
      BY <3>5, <3>8, <3>9
  <2> QED
    BY <2>1, <2>2
<1> HIDE DEF strs, n, q, w
<1>4. PICK k \in Nat : /\ MayGain(n, Len(strs), k) /\ ClassOf(k) = "lp" /\ Sessions(strs)
                       /\ Queues(strs) = [q EXCEPT ![k] = Append(q[k], m)] /\ Wires(strs) = w
  BY <1>3
<1>5. /\ Sessions(P!Trimmed(strs)) /\ Queues(P!Trimmed(strs)) = Queues(strs)
      /\ Wires(P!Trimmed(strs)) = Wires(strs) /\ Len(P!Trimmed(strs)) = Len(strs)
  BY <1>4, ClosedSame
<1> QED
  BY <1>4, <1>5 DEF strs, n, q, w

(***************************************************************************)
(* Every message is in one line, or dropped, or has arrived; the counters  *)
(* are the lengths of the lines; and the signals are in order.             *)
(***************************************************************************)
PeerKept ==
  /\ Sessions(streams)
  /\ Kept(given, channel, lpchan, Queues(streams), Wires(streams), Len(streams),
          dropped, received, queuedHPMsgs, queuedLPMsgs)
  /\ \A m \in dropped : NoRetrieve \/ <<m.epoch, m.idx>> \in canceledReq

LEMMA StreamLines ==
  ASSUME NEW strs, Sessions(strs)
  PROVE  /\ Len(strs) \in Nat /\ Len(strs) >= 2 /\ DOMAIN strs = 1..Len(strs)
         /\ \A k \in DOMAIN strs : /\ k \in Nat /\ strs[k].queue = Queues(strs)[k]
                                   /\ strs[k].wire = Wires(strs)[k]
                                   /\ strs[k].queue \in Seq(Message) /\ strs[k].wire \in Seq(Message)
                                   /\ strs[k].session = ClassOf(k)
         /\ Queues(strs) \in [Nat -> Seq(Message)] /\ Wires(strs) \in [Nat -> Seq(Message)]
<1>1. strs \in Seq(Stream) /\ Len(strs) >= 2 /\ \A k \in DOMAIN strs : strs[k].session = ClassOf(k)
  BY DEF Sessions
<1> QED
  BY <1>1, StreamSeq

LEMMA TransmitKept ==
  ASSUME PeerKept, NEW m \in Message, P!Transmit(m)
  PROVE  PeerKept'
<1>1. m \notin Rng(given)
  BY DEF P!Transmit, P!ToSet, Rng
<1>2. Kept(Append(given, m), Append(channel, m), lpchan, Queues(streams), Wires(streams), Len(streams),
           dropped, received, queuedHPMsgs, queuedLPMsgs)
  <2>1. Kept(given, channel, lpchan, Queues(streams), Wires(streams), Len(streams),
             dropped, received, queuedHPMsgs, queuedLPMsgs)
    BY DEF PeerKept
  <2> QED
    BY <1>1, <2>1, KeptGiven
<1>3. /\ given' = Append(given, m) /\ channel' = Append(channel, m)
      /\ UNCHANGED <<lpchan, streams, queuedHPMsgs, queuedLPMsgs, dropped, canceledReq, received>>
  BY DEF P!Transmit, P!receiving
<1> QED
  BY <1>2, <1>3 DEF PeerKept

LEMMA SortHighKept ==
  ASSUME PeerKept, P!SortHigh
  PROVE  PeerKept'
<1> DEFINE h == Head(channel)
           k == P!StreamOf(h)
           x == Append(streams[k].queue, h)
           q == Queues(streams)
           w == Wires(streams)
           n == Len(streams)
<1>1. /\ channel # <<>> /\ ~P!Low(h) /\ channel' = Tail(channel)
      /\ streams' = [streams EXCEPT ![k].queue = x] /\ queuedHPMsgs' = queuedHPMsgs + 1
      /\ UNCHANGED <<given, lpchan, queuedLPMsgs, dropped, canceledReq, received>>
  BY DEF P!SortHigh, P!receiving
<1>2. /\ Sessions(streams)
      /\ Kept(given, channel, lpchan, q, w, n, dropped, received, queuedHPMsgs, queuedLPMsgs)
  BY DEF PeerKept
<1>3. k \in {1, 2} /\ Kept(given, Tail(channel), lpchan, [q EXCEPT ![k] = Append(q[k], h)], w, n,
                           dropped, received, queuedHPMsgs + 1, queuedLPMsgs)
  <2> HIDE DEF q, w, n
  <2> QED
    BY <1>1, <1>2, KeptSorted
<1>4. h \in Message
  <2> HIDE DEF q, w, n
  <2> QED
    BY <1>1, <1>2, KeptIs
<1> HIDE DEF k, h
<1>5. k \in DOMAIN streams
  <2>1. n \in Nat /\ n >= 2 /\ DOMAIN streams = 1..n
    BY <1>2, StreamLines
  <2> HIDE DEF n
  <2> QED
    BY <1>3, <2>1
<1>6. x \in Seq(Message) /\ x = Append(q[k], h) /\ streams[k].wire = w[k] /\ [w EXCEPT ![k] = w[k]] = w
  <2>1. streams[k].queue = q[k] /\ streams[k].wire = w[k] /\ streams[k].queue \in Seq(Message)
    BY <1>2, <1>5, StreamLines
  <2>2. w \in [Nat -> Seq(Message)]
    BY <1>2, StreamLines
  <2> HIDE DEF q, w
  <2> QED
    BY <1>4, <2>1, <2>2
<1>7. Became(streams, streams', k, x, streams[k].wire)
  <2> HIDE DEF x
  <2>1. <<>> \in Seq(Message)
    OBVIOUS
  <2> QED
    BY <1>1, <1>2, <1>5, <1>6, <2>1, WritesTo
<1>8. /\ Sessions(streams') /\ Queues(streams') = [q EXCEPT ![k] = Append(q[k], h)]
      /\ Wires(streams') = w /\ Len(streams') = n
  <2>1. Len(streams') = n
    <3>1. DOMAIN streams' = DOMAIN streams
      BY <1>1
    <3>2. n \in Nat /\ DOMAIN streams = 1..n
      BY <1>2, StreamLines
    <3> DEFINE next == streams'
    <3>3. Sessions(next)
      BY <1>7 DEF Became
    <3> HIDE DEF next
    <3>4. Len(next) \in Nat /\ DOMAIN next = 1..Len(next)
      BY <3>3, StreamLines
    <3> HIDE DEF n
    <3> QED
      BY <3>1, <3>2, <3>4 DEF next
  <2> HIDE DEF x
  <2> QED
    BY <1>6, <1>7, <2>1 DEF Became
<1> HIDE DEF q, w, n
<1>9. Kept(given', channel', lpchan', Queues(streams'), Wires(streams'), Len(streams'),
           dropped', received', queuedHPMsgs', queuedLPMsgs')
  BY <1>1, <1>3, <1>8
<1>10. \A m \in dropped' : NoRetrieve \/ <<m.epoch, m.idx>> \in canceledReq'
  BY <1>1 DEF PeerKept
<1> QED
  BY <1>8, <1>9, <1>10 DEF PeerKept

LEMMA SortLowKept ==
  ASSUME PeerKept, P!SortLow
  PROVE  PeerKept'
<1> DEFINE h == Head(channel)
<1>1. /\ channel # <<>> /\ P!Low(h) /\ channel' = Tail(channel)
      /\ \/ NoRetrieve /\ dropped' = dropped \cup {h} /\ UNCHANGED <<lpchan, queuedLPMsgs>>
         \/ lpchan' = Append(lpchan, h) /\ queuedLPMsgs' = queuedLPMsgs + 1 /\ UNCHANGED dropped
      /\ UNCHANGED <<given, streams, queuedHPMsgs, canceledReq, received>>
  BY DEF P!SortLow, P!receiving
<1>2. /\ Kept(given, Tail(channel), lpchan, Queues(streams), Wires(streams), Len(streams),
              dropped \cup {h}, received, queuedHPMsgs, queuedLPMsgs)
      /\ Kept(given, Tail(channel), Append(lpchan, h), Queues(streams), Wires(streams), Len(streams),
              dropped, received, queuedHPMsgs, queuedLPMsgs + 1)
  <2>1. Kept(given, channel, lpchan, Queues(streams), Wires(streams), Len(streams),
             dropped, received, queuedHPMsgs, queuedLPMsgs)
    BY DEF PeerKept
  <2> QED
    BY <1>1, <2>1, KeptSortedLow
<1> HIDE DEF h
<1>3. Kept(given', channel', lpchan', Queues(streams'), Wires(streams'), Len(streams'),
           dropped', received', queuedHPMsgs', queuedLPMsgs')
  BY <1>1, <1>2
<1>4. \A m \in dropped' : NoRetrieve \/ <<m.epoch, m.idx>> \in canceledReq'
  BY <1>1 DEF PeerKept
<1>5. Sessions(streams')
  BY <1>1 DEF PeerKept
<1> QED
  BY <1>3, <1>4, <1>5 DEF PeerKept

LEMMA PriorityKept ==
  ASSUME PeerKept, P!HandleEpochPriority
  PROVE  PeerKept'
<1> DEFINE h == Head(lpchan)
           next == P!Trimmed(P!Enqueued(h))
           q == Queues(streams)
           w == Wires(streams)
           n == Len(streams)
<1>1. /\ lpchan # <<>> /\ lpchan' = Tail(lpchan) /\ streams' = next
      /\ UNCHANGED <<given, channel, queuedHPMsgs, queuedLPMsgs, dropped, canceledReq, received>>
  BY DEF P!HandleEpochPriority, P!receiving
<1>2. /\ Sessions(streams)
      /\ Kept(given, channel, lpchan, q, w, n, dropped, received, queuedHPMsgs, queuedLPMsgs)
  BY DEF PeerKept
<1>3. h \in Message
  <2> HIDE DEF q, w, n
  <2> QED
    BY <1>1, <1>2, KeptIs
<1>4. PICK k \in Nat : /\ MayGain(n, Len(next), k) /\ ClassOf(k) = "lp" /\ Sessions(next)
                       /\ Queues(next) = [q EXCEPT ![k] = Append(q[k], h)] /\ Wires(next) = w
  <2> HIDE DEF h
  <2> QED
    BY <1>2, <1>3, EnqueuedBecame
<1> HIDE DEF q, w, n, next
<1>5. Kept(given, channel, Tail(lpchan), [q EXCEPT ![k] = Append(q[k], h)], w, Len(next),
           dropped, received, queuedHPMsgs, queuedLPMsgs)
  BY <1>1, <1>2, <1>4, KeptStreamed
<1> HIDE DEF h
<1>6. Kept(given', channel', lpchan', Queues(streams'), Wires(streams'), Len(streams'),
           dropped', received', queuedHPMsgs', queuedLPMsgs')
  BY <1>1, <1>4, <1>5
<1>7. \A m \in dropped' : NoRetrieve \/ <<m.epoch, m.idx>> \in canceledReq'
  BY <1>1 DEF PeerKept
<1>8. Sessions(streams')
  BY <1>1, <1>4
<1> QED
  BY <1>6, <1>7, <1>8 DEF PeerKept

LEMMA SameLength ==
  ASSUME NEW strs, NEW next, NEW k, NEW x, NEW y, Sessions(strs), Became(strs, next, k, x, y),
         DOMAIN next = DOMAIN strs
  PROVE  Len(next) = Len(strs)
<1>1. Len(strs) \in Nat /\ DOMAIN strs = 1..Len(strs)
  BY StreamLines
<1>2. Sessions(next)
  BY DEF Became
<1>3. Len(next) \in Nat /\ DOMAIN next = 1..Len(next)
  BY <1>2, StreamLines
<1> DEFINE a == Len(strs)
           b == Len(next)
<1>4. a \in Nat /\ b \in Nat /\ 1..b = 1..a
  BY <1>1, <1>3
<1> HIDE DEF a, b
<1>5. a = b
  BY <1>4
<1> QED
  BY <1>5 DEF a, b

LEMMA HandleKept ==
  ASSUME PeerKept, NEW k \in DOMAIN streams, P!Handle(k)
  PROVE  PeerKept'
<1> DEFINE h == Head(streams[k].queue)
           x == Tail(streams[k].queue)
           y == IF P!Unwanted(h) THEN streams[k].wire ELSE Append(streams[k].wire, h)
           q == Queues(streams)
           w == Wires(streams)
           n == Len(streams)
           r == [q EXCEPT ![k] = Tail(q[k])]
           v == [w EXCEPT ![k] = Append(w[k], h)]
<1>1. /\ streams[k].queue # <<>>
      /\ streams' = [streams EXCEPT ![k].queue = x, ![k].wire = y]
      /\ IF P!Low(h) THEN queuedLPMsgs' = queuedLPMsgs - 1 /\ queuedHPMsgs' = queuedHPMsgs
         ELSE queuedHPMsgs' = queuedHPMsgs - 1 /\ queuedLPMsgs' = queuedLPMsgs
      /\ dropped' = IF P!Unwanted(h) THEN dropped \cup {h} ELSE dropped
      /\ UNCHANGED <<given, channel, lpchan, canceledReq, received>>
  BY DEF P!Handle, P!receiving
<1>2. /\ Sessions(streams)
      /\ Kept(given, channel, lpchan, q, w, n, dropped, received, queuedHPMsgs, queuedLPMsgs)
  BY DEF PeerKept
<1>3. /\ k \in 1..n /\ k \in Nat /\ streams[k].queue = q[k] /\ streams[k].wire = w[k]
      /\ streams[k].queue \in Seq(Message) /\ streams[k].wire \in Seq(Message)
  BY <1>2, StreamLines
<1>4. /\ P!Low(h) => /\ Kept(given, channel, lpchan, r, v, n, dropped, received,
                             queuedHPMsgs, queuedLPMsgs - 1)
                     /\ Kept(given, channel, lpchan, r, w, n, dropped \cup {h}, received,
                             queuedHPMsgs, queuedLPMsgs - 1)
      /\ ~P!Low(h) => Kept(given, channel, lpchan, r, v, n, dropped, received,
                           queuedHPMsgs - 1, queuedLPMsgs)
  <2>1. h = Head(q[k]) /\ q[k] # <<>>
    BY <1>1, <1>3
  <2> HIDE DEF q, w, n, h
  <2>2. LET g == Head(q[k])
            r2 == [q EXCEPT ![k] = Tail(q[k])]
            v2 == [w EXCEPT ![k] = Append(w[k], g)]
        IN
        /\ P!Low(g) => /\ Kept(given, channel, lpchan, r2, v2, n, dropped, received,
                               queuedHPMsgs, queuedLPMsgs - 1)
                       /\ Kept(given, channel, lpchan, r2, w, n, dropped \cup {g}, received,
                               queuedHPMsgs, queuedLPMsgs - 1)
        /\ ~P!Low(g) => Kept(given, channel, lpchan, r2, v2, n, dropped, received,
                             queuedHPMsgs - 1, queuedLPMsgs)
    BY <1>2, <1>3, <2>1, KeptWritten
  <2> QED
    BY <2>1, <2>2
<1>5. h \in Message /\ x \in Seq(Message) /\ y \in Seq(Message) /\ x = Tail(q[k])
  <2>1. h \in Message /\ x \in Seq(Message) /\ x = Tail(q[k])
    BY <1>1, <1>3
  <2> HIDE DEF h
  <2>2. Append(streams[k].wire, h) \in Seq(Message)
    BY <1>3, <2>1
  <2> QED
    BY <1>3, <2>1, <2>2
<1>6. Became(streams, streams', k, x, y)
  <2> HIDE DEF x, y
  <2> QED
    BY <1>1, <1>2, <1>5, WritesTo
<1>7. Len(streams') = n
  <2>1. DOMAIN streams' = DOMAIN streams
    BY <1>1
  <2> DEFINE next == streams'
  <2>2. Became(streams, next, k, x, y) /\ DOMAIN next = DOMAIN streams
    BY <1>6, <2>1
  <2> HIDE DEF next, x, y
  <2>3. Len(next) = Len(streams)
    BY <1>2, <2>2, SameLength
  <2> QED
    BY <2>3 DEF next
<1>8. Sessions(streams') /\ Queues(streams') = r /\ Wires(streams') = [w EXCEPT ![k] = y]
  <2> HIDE DEF y
  <2> QED
    BY <1>5, <1>6 DEF Became
<1>9. /\ P!Unwanted(h) => Wires(streams') = w /\ P!Low(h) /\ <<h.epoch, h.idx>> \in canceledReq
      /\ ~P!Unwanted(h) => Wires(streams') = v
  <2>1. w \in [Nat -> Seq(Message)]
    BY <1>2, StreamLines
  <2>2. [w EXCEPT ![k] = w[k]] = w
    <3> HIDE DEF w
    <3> QED
      BY <2>1
  <2>3. P!Unwanted(h) => P!Low(h) /\ <<h.epoch, h.idx>> \in canceledReq
    BY DEF P!Unwanted
  <2> HIDE DEF w, h
  <2> QED
    BY <1>3, <1>8, <2>2, <2>3
<1> HIDE DEF q, w, n, r, v, h, x, y
<1>10. Kept(given', channel', lpchan', Queues(streams'), Wires(streams'), Len(streams'),
            dropped', received', queuedHPMsgs', queuedLPMsgs')
  <2>1. CASE P!Unwanted(h)
    BY <1>1, <1>4, <1>7, <1>8, <1>9, <2>1
  <2>2. CASE ~P!Unwanted(h)
    BY <1>1, <1>4, <1>7, <1>8, <1>9, <2>2
  <2> QED
    BY <2>1, <2>2
<1>11. \A m \in dropped' : NoRetrieve \/ <<m.epoch, m.idx>> \in canceledReq'
  BY <1>1, <1>9 DEF PeerKept
<1> QED
  BY <1>8, <1>10, <1>11 DEF PeerKept

LEMMA ReceiveKept ==
  ASSUME PeerKept, NEW k \in DOMAIN streams, P!Receive(k)
  PROVE  PeerKept'
<1> DEFINE h == Head(streams[k].wire)
           y == Tail(streams[k].wire)
           s == streams[k].session
           q == Queues(streams)
           w == Wires(streams)
           n == Len(streams)
           v == [w EXCEPT ![k] = Tail(w[k])]
<1>1. /\ streams[k].wire # <<>> /\ streams' = [streams EXCEPT ![k].wire = y]
      /\ received' = [received EXCEPT ![s] = Append(@, h)]
      /\ UNCHANGED <<given, channel, lpchan, queuedHPMsgs, queuedLPMsgs, dropped, canceledReq>>
  BY DEF P!Receive
<1>2. /\ Sessions(streams)
      /\ Kept(given, channel, lpchan, q, w, n, dropped, received, queuedHPMsgs, queuedLPMsgs)
  BY DEF PeerKept
<1>3. /\ k \in 1..n /\ k \in Nat /\ streams[k].queue = q[k] /\ streams[k].wire = w[k]
      /\ streams[k].queue \in Seq(Message) /\ streams[k].wire \in Seq(Message)
      /\ s = ClassOf(k)
  BY <1>2, StreamLines
<1>4. Kept(given, channel, lpchan, q, v, n, dropped, received', queuedHPMsgs, queuedLPMsgs)
  <2>1. h = Head(w[k]) /\ w[k] # <<>>
    BY <1>1, <1>3
  <2>2. received' = [received EXCEPT ![ClassOf(k)] = Append(@, Head(w[k]))]
    <3> HIDE DEF q, w, n, h, s
    <3> QED
      BY <1>1, <1>3, <2>1
  <2> HIDE DEF q, w, n, h
  <2>3. Kept(given, channel, lpchan, q, [w EXCEPT ![k] = Tail(w[k])], n, dropped,
             [received EXCEPT ![ClassOf(k)] = Append(@, Head(w[k]))], queuedHPMsgs, queuedLPMsgs)
    BY <1>2, <1>3, <2>1, KeptReceived
  <2> QED
    BY <2>2, <2>3
<1>5. y \in Seq(Message) /\ y = Tail(w[k])
  BY <1>1, <1>3
<1>6. Became(streams, streams', k, streams[k].queue, y)
  <2>1. <<>> \in Seq(Message)
    OBVIOUS
  <2> HIDE DEF y
  <2> QED
    BY <1>1, <1>2, <1>5, <2>1, WritesTo
<1>7. Len(streams') = n
  <2>1. DOMAIN streams' = DOMAIN streams
    BY <1>1
  <2> DEFINE next == streams'
             x == streams[k].queue
  <2>2. Became(streams, next, k, x, y) /\ DOMAIN next = DOMAIN streams
    BY <1>6, <2>1
  <2> HIDE DEF next, x, y
  <2>3. Len(next) = Len(streams)
    BY <1>2, <2>2, SameLength
  <2> QED
    BY <2>3 DEF next
<1>8. Sessions(streams') /\ Queues(streams') = q /\ Wires(streams') = v
  <2>1. q \in [Nat -> Seq(Message)]
    BY <1>2, StreamLines
  <2>2. [q EXCEPT ![k] = q[k]] = q
    <3> HIDE DEF q
    <3> QED
      BY <2>1
  <2> HIDE DEF y
  <2> QED
    BY <1>3, <1>5, <1>6, <2>2 DEF Became
<1> HIDE DEF q, w, n, v, h, y, s
<1>10. Kept(given', channel', lpchan', Queues(streams'), Wires(streams'), Len(streams'),
            dropped', received', queuedHPMsgs', queuedLPMsgs')
  BY <1>1, <1>4, <1>7, <1>8
<1>11. \A m \in dropped' : NoRetrieve \/ <<m.epoch, m.idx>> \in canceledReq'
  BY <1>1 DEF PeerKept
<1> QED
  BY <1>8, <1>10, <1>11 DEF PeerKept

LEMMA KeptStep ==
  ASSUME PeerKept, [P!Next]_(P!vars)
  PROVE  PeerKept'
<1>1. CASE \E s \in P!Session : P!AcceptPeer(s)
  BY <1>1 DEF P!AcceptPeer, P!sending, PeerKept
<1>2. CASE \E m \in P!Chunk : P!RecvCancel(m.epoch, m.idx)
  <2>1. /\ canceledReq \subseteq canceledReq'
        /\ UNCHANGED <<given, channel, lpchan, streams, queuedHPMsgs, queuedLPMsgs, dropped, received>>
    BY <1>2 DEF P!RecvCancel, P!sending, P!receiving
  <2> QED
    BY <2>1 DEF PeerKept
<1>3. CASE UNCHANGED P!vars
  BY <1>3 DEF P!vars, P!sending, P!receiving, PeerKept
<1>4. CASE \E m \in Message : P!Transmit(m)
  BY <1>4, TransmitKept
<1>5. CASE P!SortHigh
  BY <1>5, SortHighKept
<1>6. CASE P!SortLow
  BY <1>6, SortLowKept
<1>7. CASE P!HandleEpochPriority
  BY <1>7, PriorityKept
<1>8. ASSUME NEW k \in DOMAIN streams, P!Handle(k) PROVE PeerKept'
  BY <1>8, HandleKept
<1>9. ASSUME NEW k \in DOMAIN streams, P!Receive(k) PROVE PeerKept'
  BY <1>9, ReceiveKept
<1> QED
  BY <1>1, <1>2, <1>3, <1>4, <1>5, <1>6, <1>7, <1>8, <1>9 DEF P!Next

LEMMA KeptInit ==
  ASSUME P!Init
  PROVE  PeerKept
<1> DEFINE strs == <<P!NewStream("signal", 0), P!NewStream("hp", 0)>>
           q == Queues(strs)
           w == Wires(strs)
           n == Len(strs)
           none == [j \in Nat |-> <<>>]
           rec == [s \in P!Session |-> <<>>]
<1>1. /\ streams = strs /\ lpchan = <<>> /\ channel = <<>> /\ given = <<>> /\ dropped = {}
      /\ queuedHPMsgs = 0 /\ queuedLPMsgs = 0 /\ received = rec
  BY DEF P!Init
<1>2. /\ n = 2 /\ DOMAIN strs = {1, 2}
      /\ strs[1].session = "signal" /\ strs[2].session = "hp"
      /\ \A k \in {1, 2} : strs[k].queue = <<>> /\ strs[k].wire = <<>>
  BY DEF P!NewStream
<1>3. Sessions(strs)
  <2>1. strs \in Seq(Stream)
    BY <1>1, PeerInit DEF PeerSound, Newest
  <2> HIDE DEF strs
  <2>2. Len(strs) \in Nat /\ Len(strs) >= 2
    BY <1>2
  <2>3. \A k \in DOMAIN strs : strs[k].session = ClassOf(k)
    BY <1>2 DEF ClassOf
  <2> QED
    BY <2>1, <2>2, <2>3 DEF Sessions
<1>4. q = none /\ w = none
  <2> HIDE DEF strs
  <2> QED
    BY <1>2 DEF Queues, Wires
<1>5. /\ none \in [Nat -> Seq(Message)] /\ \A j \in Nat : none[j] = <<>>
      /\ rec \in [P!Session -> Seq(Message)] /\ rec["signal"] = <<>>
      /\ \A s \in P!Session : rec[s] = <<>>
  <2>1. <<>> \in Seq(Message)
    OBVIOUS
  <2> QED
    BY <2>1 DEF P!Session
<1> HIDE DEF none, rec
<1>6. Rng(<<>>) = {} /\ Distinct(<<>>)
  BY DEF Rng, Distinct
<1>7. Arr(rec) = {}
  BY <1>5, <1>6 DEF Arr
<1>8. \A K : K \subseteq Nat => Pairs(none, K) = {}
  BY <1>5 DEF Pairs
<1>9. IsFiniteSet({}) /\ Cardinality({}) = 0
  BY FS_EmptySet
<1>10. Streamed(none, 2) /\ Tally(none, 1..2) = 0 /\ Tally(none, {1, 2}) = 0 /\ Tally(none, 3..2) = 0
  <2>1. 1..2 \subseteq Nat /\ {1, 2} \subseteq Nat /\ 3..2 \subseteq Nat
    OBVIOUS
  <2>2. Pairs(none, 1..2) = {} /\ Pairs(none, {1, 2}) = {} /\ Pairs(none, 3..2) = {}
    BY <1>8, <2>1
  <2>3. Tally(none, 1..2) = 0 /\ Tally(none, {1, 2}) = 0 /\ Tally(none, 3..2) = 0
    BY Zenon, <1>9, <2>2 DEF Tally
  <2>4. IsFiniteSet(Pairs(none, 1..2))
    BY <1>9, <2>2
  <2>5. 2 \in Nat /\ 2 >= 2
    OBVIOUS
  <2>6. Streamed(none, 2)
    BY <1>5, <2>4, <2>5 DEF Streamed
  <2> QED
    BY <2>3, <2>6
<1> DEFINE C == Lines(<<>>, <<>>, none, none)
<1>11. \A x \in Place : C[x] = <<>>
  <2>1. AreLines(C, <<>>, <<>>, none, none)
    BY Zenon, SuchLines
  <2>2. ASSUME NEW x \in Place
        PROVE  x = <<"channel", 0>> \/ x = <<"lpchan", 0>> \/ \E j \in Nat : x = QueuePlace(j) \/ x = WirePlace(j)
    BY PlaceIs DEF QueuePlace, WirePlace
  <2> HIDE DEF C
  <2> QED
    BY <1>5, <2>1, <2>2 DEF AreLines
<1> HIDE DEF C
<1>12. Held(<<>>, C, {}, {})
  <2>1. Apart(C, {})
    <3>1. <<>> \in Seq(Message)
      OBVIOUS
    <3> QED
      BY <1>6, <1>11, <3>1 DEF Apart
  <2>2. InLines(C) = {}
    BY <1>6, <1>11 DEF InLines
  <2> QED
    BY <1>6, <1>9, <2>1, <2>2 DEF Held
<1>13. Numbered(<<>>, <<>>, <<>>, none, none, 2, {}, {}, 0, 0)
  <2>1. Len(<<>>) = 0
    OBVIOUS
  <2> QED
    BY <1>9, <1>10, <2>1 DEF Numbered
<1>14. InOrder(<<>>, <<>>, <<>>, <<>>, <<>>)
  <2>1. Pick(<<>>, High) = <<>>
    BY PickEmpty
  <2>2. <<>> \o <<>> = <<>>
    OBVIOUS
  <2> QED
    BY <2>1, <2>2 DEF InOrder
<1>15. Kept(<<>>, <<>>, <<>>, none, none, 2, {}, rec, 0, 0)
  <2>1. none[1] = <<>> /\ rec["signal"] = <<>>
    BY <1>5
  <2> QED
    BY <1>5, <1>7, <1>10, <1>12, <1>13, <1>14, <2>1 DEF Kept, C
<1> HIDE DEF strs
<1> QED
  BY <1>1, <1>2, <1>3, <1>4, <1>15 DEF PeerKept

-----------------------------------------------------------------------------
LEMMA InAllLines ==
  ASSUME NEW ch, NEW lp, NEW q, NEW w, NEW n \in Nat,
         \A j \in Nat : j \notin 1..n => q[j] = <<>> /\ w[j] = <<>>
  PROVE  InLines(Lines(ch, lp, q, w))
           = (Rng(ch) \cup Rng(lp)) \cup UNION {Rng(q[k]) \cup Rng(w[k]) : k \in 1..n}
<1> DEFINE C == Lines(ch, lp, q, w)
           a == <<"channel", 0>>
           b == <<"lpchan", 0>>
           U == (Rng(ch) \cup Rng(lp)) \cup UNION {Rng(q[k]) \cup Rng(w[k]) : k \in 1..n}
<1>1. C[a] = ch /\ C[b] = lp /\ \A k \in Nat : C[QueuePlace(k)] = q[k] /\ C[WirePlace(k)] = w[k]
  BY LineAt
<1>2. /\ a \in Place /\ b \in Place /\ \A k \in Nat : QueuePlace(k) \in Place /\ WirePlace(k) \in Place
  BY InPlaces
<1>3. ASSUME NEW x \in Place
      PROVE  x = a \/ x = b \/ \E j \in Nat : x = QueuePlace(j) \/ x = WirePlace(j)
  BY PlaceIs DEF QueuePlace, WirePlace
<1> HIDE DEF C, a, b
<1>4. ASSUME NEW x \in Place, NEW m \in Rng(C[x]) PROVE m \in U
  <2>1. CASE x = a \/ x = b
    BY <1>1, <1>4, <2>1
  <2>2. ASSUME NEW j \in Nat, x = QueuePlace(j) \/ x = WirePlace(j) PROVE m \in U
    <3>1. m \in Rng(q[j]) \cup Rng(w[j])
      BY <1>1, <1>4, <2>2
    <3>2. Rng(<<>>) = {}
      BY DEF Rng
    <3>3. j \in 1..n
      BY <3>1, <3>2
    <3> QED
      BY <3>1, <3>3
  <2> QED
    BY <1>3, <2>1, <2>2
<1>5. ASSUME NEW m \in U PROVE \E x \in Place : m \in Rng(C[x])
  <2>1. CASE m \in Rng(ch) \cup Rng(lp)
    BY <1>1, <1>2, <2>1
  <2>2. ASSUME NEW k \in 1..n, m \in Rng(q[k]) \cup Rng(w[k]) PROVE \E x \in Place : m \in Rng(C[x])
    <3>1. k \in Nat
      OBVIOUS
    <3> QED
      BY <1>1, <1>2, <2>2, <3>1
  <2> QED
    BY <2>1, <2>2
<1> HIDE DEF U
<1>6. InLines(C) = U
  BY <1>4, <1>5 DEF InLines
<1> QED
  BY <1>6 DEF C, U

\* The messages that wait, stream by stream.
LEMMA WaitingIs ==
  ASSUME Sessions(streams)
  PROVE  LET q == Queues(streams)
             w == Wires(streams)
             n == Len(streams)
         IN
         /\ P!Waiting(P!Session) = Tally(q, 1..n) /\ P!Written(P!Session) = Tally(w, 1..n)
         /\ P!Waiting({"signal", "hp"}) = Tally(q, {1, 2}) /\ P!Waiting({"lp"}) = Tally(q, 3..n)
<1> DEFINE q == Queues(streams)
           w == Wires(streams)
           n == Len(streams)
<1>1. /\ n \in Nat /\ n >= 2 /\ DOMAIN streams = 1..n
      /\ \A k \in DOMAIN streams : /\ k \in Nat /\ streams[k].queue = q[k]
                                   /\ streams[k].wire = w[k] /\ streams[k].session = ClassOf(k)
  BY StreamLines
<1> HIDE DEF q, w, n
<1>2. ASSUME NEW S
      PROVE  /\ P!Waiting(S) = Tally(q, P!Of(S)) /\ P!Written(S) = Tally(w, P!Of(S))
             /\ P!Of(S) = {k \in 1..n : ClassOf(k) \in S}
  <2>1. P!Of(S) \subseteq DOMAIN streams /\ P!Of(S) = {k \in 1..n : ClassOf(k) \in S}
    BY <1>1 DEF P!Of
  <2>2. \A X : P!Cardinality(X) = Cardinality(X)
    BY SameCardinality
  <2>3. UNION {{k} \X DOMAIN streams[k].queue : k \in P!Of(S)} = Pairs(q, P!Of(S))
    BY <1>1, <2>1 DEF Pairs
  <2>4. UNION {{k} \X DOMAIN streams[k].wire : k \in P!Of(S)} = Pairs(w, P!Of(S))
    BY <1>1, <2>1 DEF Pairs
  <2> QED
    BY <2>1, <2>2, <2>3, <2>4 DEF P!Waiting, P!Written, Tally
<1>3. P!Of(P!Session) = 1..n
  <2>1. \A k \in 1..n : ClassOf(k) \in P!Session
    BY DEF ClassOf, P!Session
  <2> QED
    BY <1>2, <2>1
<1>4. P!Of({"signal", "hp"}) = {1, 2} /\ P!Of({"lp"}) = 3..n
  <2>1. \A k \in 1..n : /\ ClassOf(k) \in {"signal", "hp"} <=> k \in {1, 2}
                        /\ ClassOf(k) \in {"lp"} <=> k \notin {1, 2}
    BY DEF ClassOf
  <2>2. {k \in 1..n : k \in {1, 2}} = {1, 2} /\ {k \in 1..n : k \notin {1, 2}} = 3..n
    BY <1>1
  <2>3. P!Of({"signal", "hp"}) = {k \in 1..n : k \in {1, 2}}
    BY <1>2, <2>1
  <2>4. P!Of({"lp"}) = {k \in 1..n : k \notin {1, 2}}
    BY <1>2, <2>1
  <2> QED
    BY <2>2, <2>3, <2>4
<1>5. P!Waiting(P!Session) = Tally(q, 1..n) /\ P!Written(P!Session) = Tally(w, 1..n)
  BY <1>2, <1>3
<1>6. P!Waiting({"signal", "hp"}) = Tally(q, {1, 2}) /\ P!Waiting({"lp"}) = Tally(q, 3..n)
  BY <1>2, <1>4
<1> QED
  BY <1>5, <1>6 DEF q, w, n

LEMMA SignalsAre ==
  ASSUME NEW s \in Seq(Message)
  PROVE  P!Signals(s) = Pick(s, High)
<1>1. \A n \in DOMAIN s : s[n] \in High <=> P!Priority(s[n]) = "High"
  BY DEF High
<1> DEFINE f == [n \in DOMAIN s |-> IF P!Priority(s[n]) = "High" THEN <<s[n]>> ELSE <<>>]
           g == [n \in DOMAIN s |-> IF s[n] \in High THEN <<s[n]>> ELSE <<>>]
<1>2. f = g
  BY <1>1
<1>3. \A t : P!FlattenSeq(t) = FlattenSeq(t)
  BY Zenon DEF P!FlattenSeq, FlattenSeq
<1> HIDE DEF f, g
<1>4. P!FlattenSeq(f) = FlattenSeq(g)
  BY <1>2, <1>3
<1> QED
  BY <1>4 DEF P!Signals, Pick, f, g

LEMMA PrefixOf ==
  ASSUME NEW T, NEW a \in Seq(T), NEW b \in Seq(T), NEW t, a \o b = t
  PROVE  Len(a) <= Len(t) /\ SubSeq(a, 1, Len(a)) = SubSeq(t, 1, Len(a))
<1>1. /\ a \o b \in Seq(T) /\ Len(a \o b) = Len(a) + Len(b)
      /\ \A i \in 1..Len(a) + Len(b) : (a \o b)[i] = IF i <= Len(a) THEN a[i] ELSE b[i - Len(a)]
  BY ConcatProperties
<1>2. Len(a) \in Nat /\ Len(b) \in Nat
  OBVIOUS
<1>3. Len(a) <= Len(a) + Len(b)
  BY <1>2
<1>4. \A i \in 1..Len(a) : (a \o b)[i] = a[i]
  BY <1>1, <1>2
<1>5. SubSeq(a, 1, Len(a)) = SubSeq(a \o b, 1, Len(a))
  BY <1>1, <1>2, <1>3, <1>4
<1> QED
  BY <1>1, <1>3, <1>5

LEMMA Associated ==
  ASSUME NEW T, NEW x \in Seq(T), NEW y \in Seq(T), NEW z \in Seq(T)
  PROVE  (x \o y) \o z = x \o (y \o z) /\ y \o z \in Seq(T)
<1>1. Associates(x, y, z)
  BY SeqAssociates
<1>2. y \o z \in Seq(T)
  OBVIOUS
<1> QED
  BY <1>1, <1>2 DEF Associates

\* Three concatenations grouped from the right.
Regrouped(a, b, c, d) == ((a \o b) \o c) \o d = a \o (b \o (c \o d))

LEMMA FourConcat ==
  ASSUME NEW T, NEW a \in Seq(T), NEW b \in Seq(T), NEW c \in Seq(T), NEW d \in Seq(T)
  PROVE  Regrouped(a, b, c, d) /\ b \o (c \o d) \in Seq(T)
<1>1. a \o b \in Seq(T) /\ c \o d \in Seq(T)
  OBVIOUS
<1>2. \A f \in Seq(T) : (f \o c) \o d = f \o (c \o d) /\ c \o d \in Seq(T)
  BY Associated
<1>3. \A e \in Seq(T) : (a \o b) \o e = a \o (b \o e) /\ b \o e \in Seq(T)
  BY Associated
<1>4. ((a \o b) \o c) \o d = (a \o b) \o (c \o d)
  BY <1>1, <1>2
<1>5. (a \o b) \o (c \o d) = a \o (b \o (c \o d)) /\ b \o (c \o d) \in Seq(T)
  BY <1>1, <1>3
<1> QED
  BY <1>4, <1>5 DEF Regrouped

LEMMA KeptShows ==
  ASSUME PeerKept
  PROVE  Carried
<1> DEFINE q == Queues(streams)
           w == Wires(streams)
           n == Len(streams)
           C == Lines(channel, lpchan, q, w)
           arr == Arr(received)
<1>1. /\ Sessions(streams)
      /\ Kept(given, channel, lpchan, q, w, n, dropped, received, queuedHPMsgs, queuedLPMsgs)
      /\ \A m \in dropped : NoRetrieve \/ <<m.epoch, m.idx>> \in canceledReq
  BY DEF PeerKept
<1>2. /\ n \in Nat /\ DOMAIN streams = 1..n
      /\ \A k \in DOMAIN streams : k \in Nat /\ streams[k].queue = q[k] /\ streams[k].wire = w[k]
  BY <1>1, StreamLines
<1>3. /\ Held(given, C, dropped, arr) /\ Streamed(q, n) /\ Streamed(w, n)
      /\ Numbered(given, channel, lpchan, q, w, n, dropped, arr, queuedHPMsgs, queuedLPMsgs)
      /\ InOrder(given, channel, q[1], w[1], received["signal"])
  BY <1>1 DEF Kept
<1>4. /\ given \in Seq(Message) /\ channel \in Seq(Message)
      /\ q[1] \in Seq(Message) /\ w[1] \in Seq(Message) /\ received["signal"] \in Seq(Message)
  <2> HIDE DEF q, w, n
  <2>1. /\ given \in Seq(Message) /\ channel \in Seq(Message)
        /\ q \in [Nat -> Seq(Message)] /\ w \in [Nat -> Seq(Message)]
        /\ received["signal"] \in Seq(Message)
    BY <1>1, KeptIs
  <2> QED
    BY <2>1
<1>5. P!Arrived = arr
  BY DEF P!Arrived, Arr, P!ToSet, Rng
<1>6. P!Somewhere = P!ToSet(given)
  <2>1. Rng(given) = (InLines(C) \cup dropped) \cup arr
    BY <1>3 DEF Held
  <2>2. InLines(C) = (Rng(channel) \cup Rng(lpchan)) \cup UNION {Rng(q[k]) \cup Rng(w[k]) : k \in 1..n}
    <3> HIDE DEF q, w, n, C
    <3>1. \A j \in Nat : j > n => q[j] = <<>> /\ w[j] = <<>>
      BY <1>3 DEF Streamed
    <3>2. q[0] = <<>> /\ w[0] = <<>>
      BY <1>2 DEF q, w, Queues, Wires
    <3>3. ASSUME NEW j \in Nat, j \notin 1..n PROVE q[j] = <<>> /\ w[j] = <<>>
      <4>1. j = 0 \/ j > n
        BY <1>2, <3>3
      <4> QED
        BY <3>1, <3>2, <4>1
    <3> QED
      BY <1>2, <3>3, InAllLines DEF C
  <2>3. \A s : P!ToSet(s) = Rng(s)
    BY DEF P!ToSet, Rng
  <2> HIDE DEF q, w, n, C, arr
  <2>4. UNION {P!ToSet(streams[k].queue) \cup P!ToSet(streams[k].wire) : k \in DOMAIN streams}
          = UNION {Rng(q[k]) \cup Rng(w[k]) : k \in 1..n}
    BY <1>2, <2>3
  <2>5. P!Somewhere = (((Rng(channel) \cup Rng(lpchan)) \cup dropped) \cup arr)
                        \cup UNION {Rng(q[k]) \cup Rng(w[k]) : k \in 1..n}
    BY <1>5, <2>3, <2>4 DEF P!Somewhere
  <2> DEFINE U == UNION {Rng(q[k]) \cup Rng(w[k]) : k \in 1..n}
  <2> HIDE DEF U
  <2>6. Rng(given) = ((((Rng(channel) \cup Rng(lpchan)) \cup U) \cup dropped) \cup arr)
    BY <2>1, <2>2 DEF U
  <2>7. P!Somewhere = (((Rng(channel) \cup Rng(lpchan)) \cup dropped) \cup arr) \cup U
    BY <2>5 DEF U
  <2> QED
    BY <2>3, <2>6, <2>7
<1>7. /\ P!Waiting(P!Session) = Tally(q, 1..n) /\ P!Written(P!Session) = Tally(w, 1..n)
      /\ P!Waiting({"signal", "hp"}) = Tally(q, {1, 2}) /\ P!Waiting({"lp"}) = Tally(q, 3..n)
  BY <1>1, WaitingIs
<1>8. /\ Len(given) = Len(channel) + Len(lpchan) + P!Cardinality(dropped) + P!Cardinality(P!Arrived)
                        + P!Waiting(P!Session) + P!Written(P!Session)
      /\ queuedHPMsgs = P!Waiting({"signal", "hp"})
      /\ queuedLPMsgs = P!Waiting({"lp"}) + Len(lpchan)
  <2>1. P!Cardinality(dropped) = Cardinality(dropped) /\ P!Cardinality(P!Arrived) = Cardinality(arr)
    BY <1>5, SameCardinality
  <2> HIDE DEF q, w, n, arr
  <2> QED
    BY <1>3, <1>7, <2>1 DEF Numbered
<1>9. P!IsPrefix(received["signal"], P!Signals(given))
  <2> DEFINE a == received["signal"]
             b == w[1]
             c == q[1]
             d == Pick(channel, High)
             t == Pick(given, High)
  <2>1. ((a \o b) \o c) \o d = t
    BY <1>3 DEF InOrder
  <2>2. a \in Seq(Message) /\ b \in Seq(Message) /\ c \in Seq(Message) /\ d \in Seq(Message)
    <3>1. Pick(channel, High) \in Seq(Message)
      <4>1. \A x \in Message : Pick(channel, High) \in Seq(Message)
        BY <1>4, PickAppend
      <4>2. CASE channel # <<>>
        <5>1. Head(channel) \in Message
          BY <1>4, <4>2
        <5> QED
          BY <4>1, <5>1
      <4>3. CASE channel = <<>>
        <5>1. Pick(<<>>, High) = <<>> /\ <<>> \in Seq(Message)
          BY PickEmpty
        <5> QED
          BY <4>3, <5>1
      <4> QED
        BY <4>2, <4>3
    <3> QED
      BY <1>4, <3>1
  <2>3. P!Signals(given) = t
    BY <1>4, SignalsAre
  <2> HIDE DEF a, b, c, d, t
  <2>4. Regrouped(a, b, c, d) /\ b \o (c \o d) \in Seq(Message)
    BY <2>2, FourConcat
  <2> DEFINE g == b \o (c \o d)
  <2>6. g \in Seq(Message) /\ a \o g = t
    BY <2>1, <2>4 DEF Regrouped
  <2> HIDE DEF g
  <2>7. Len(a) <= Len(t) /\ SubSeq(a, 1, Len(a)) = SubSeq(t, 1, Len(a))
    BY <2>2, <2>6, PrefixOf
  <2> QED
    BY <2>3, <2>7 DEF P!IsPrefix, a
<1> QED
  BY <1>1, <1>6, <1>8, <1>9 DEF Carried, P!Carried

(***************************************************************************)
(* A message that was given to a connection is in one place: it waits, or  *)
(* it was dropped because the other side does not want it, or it has       *)
(* arrived; the counters are the lengths of the queues, and the signals    *)
(* arrive in the order in which they were given.                           *)
(***************************************************************************)
THEOREM NoneOvertakes == P!Spec => []Carried
<1>1. P!Init => PeerKept
  BY KeptInit
<1>2. PeerKept /\ [P!Next]_(P!vars) => PeerKept'
  BY KeptStep
<1>3. PeerKept => Carried
  BY KeptShows
<1> QED
  BY <1>1, <1>2, <1>3, PTL DEF P!Spec

-----------------------------------------------------------------------------
(***************************************************************************)
(* The types of the three parts.                                           *)
(***************************************************************************)
LEMMA ServerSoundTyped == ServerSound => TypeOK
<1> SUFFICES ASSUME ServerTyped PROVE TypeOK
  BY DEF ServerSound
<1>1. Ids \subseteq MsgId
  BY Capacities DEF ServerTyped, Ids, MsgId
<1>2. Seq(Ids) \subseteq Line
  BY <1>1 DEF Line
<1> DEFINE Q == Seq(Ids)
<1>3. \A g \in Goroutine : goroutine[g] \in StageOver(Q)
  BY DEF ServerTyped, Stage
<1> HIDE DEF Q
<1>4. \A g \in Goroutine :
        /\ goroutine[g].pc \in {"init", "wait", "loopback", "send"}
        /\ goroutine[g].queue \in Q /\ goroutine[g].out \in Q /\ goroutine[g].event \in BOOLEAN
  BY <1>3 DEF StageOver
<1>5. \A g \in {"loop", "ticker"} : LET st == goroutine[g] IN
        /\ st.pc \in {"init", "wait", "loopback", "send"}
        /\ st.queue \in Line /\ st.out \in Line /\ st.event \in BOOLEAN
  BY <1>2, <1>4 DEF Goroutine, Q
<1>6. heard \subseteq MsgId /\ sendChan \in Line /\ pushed \in Line
  BY <1>1, <1>2 DEF ServerTyped
<1>7. buffer \in [Node -> Line] /\ transmit \in [Node -> Line]
  <2>1. buffer \in [Node -> Q] /\ transmit \in [Node -> Q] /\ Q \subseteq Line
    BY <1>2 DEF ServerTyped, Q
  <2> QED
    BY <2>1
<1>8. made \in Seq([to : Node, by : {"init", "tick", "loop"}]) /\ Len(made) <= MaxMsgs
  BY DEF ServerTyped, Msgs
<1> QED
  BY <1>5, <1>6, <1>7, <1>8 DEF TypeOK, ServerTyped

-----------------------------------------------------------------------------
\* What the receiver knows of a session.
Listens ==
  /\ canceledReq \subseteq Nat \X Nat
  /\ accepted \subseteq P!Session /\ started \subseteq accepted
  /\ priority \in [P!Session -> {"High", "Low"}]
  /\ \A s \in started : priority[s] = IF s = "lp" THEN "Low" ELSE "High"

LEMMA ReceiveListens ==
  ASSUME PeerKept, Listens, NEW k \in DOMAIN streams, P!Receive(k)
  PROVE  Listens'
<1> DEFINE h == Head(streams[k].wire)
           s == streams[k].session
           q == Queues(streams)
           w == Wires(streams)
           n == Len(streams)
<1>1. /\ streams[k].wire # <<>> /\ s \in accepted /\ UNCHANGED <<canceledReq, accepted>>
      /\ started' = started \cup {s}
      /\ priority' = IF s \in started THEN priority
                     ELSE [priority EXCEPT ![s] = IF P!Low(h) THEN "Low" ELSE "High"]
  BY DEF P!Receive
<1>2. /\ Sessions(streams)
      /\ Kept(given, channel, lpchan, q, w, n, dropped, received, queuedHPMsgs, queuedLPMsgs)
  BY DEF PeerKept
<1>3. k \in Nat \ {0} /\ streams[k].wire = w[k] /\ s = ClassOf(k)
  BY <1>2, StreamLines
<1>4. h \in Message /\ Class(h) = ClassOf(k)
  <2> HIDE DEF q, w, n
  <2>1. \A j \in Nat :
          /\ q[j] # <<>> => Head(q[j]) \in Message /\ Class(Head(q[j])) = ClassOf(j)
          /\ w[j] # <<>> => Head(w[j]) \in Message /\ Class(Head(w[j])) = ClassOf(j)
    BY <1>2, KeptIs
  <2> QED
    BY <1>1, <1>3, <2>1
<1> HIDE DEF h, s, q, w, n
<1>5. P!Low(h) <=> s = "lp"
  BY <1>3, <1>4, Classes
<1>6. s \in P!Session
  BY <1>1 DEF Listens
<1>7. priority' \in [P!Session -> {"High", "Low"}]
  BY <1>1, <1>6 DEF Listens
<1>8. ASSUME NEW x \in started' PROVE priority'[x] = IF x = "lp" THEN "Low" ELSE "High"
  <2>1. CASE s \in started
    BY <1>1, <2>1 DEF Listens
  <2>2. CASE s \notin started
    BY <1>1, <1>5, <1>6, <2>2 DEF Listens
  <2> QED
    BY <2>1, <2>2
<1> QED
  BY <1>1, <1>7, <1>8 DEF Listens

LEMMA ListensStep ==
  ASSUME PeerKept, Listens, [P!Next]_(P!vars)
  PROVE  Listens'
<1>0. ASSUME UNCHANGED <<canceledReq, accepted, started, priority>> PROVE Listens'
  BY <1>0 DEF Listens
<1>1. CASE \E m \in Message : P!Transmit(m)
  BY <1>0, <1>1 DEF P!Transmit, P!receiving
<1>2. CASE P!SortHigh
  BY <1>0, <1>2 DEF P!SortHigh, P!receiving
<1>3. CASE P!SortLow
  BY <1>0, <1>3 DEF P!SortLow, P!receiving
<1>4. CASE P!HandleEpochPriority
  BY <1>0, <1>4 DEF P!HandleEpochPriority, P!receiving
<1>5. ASSUME NEW k \in DOMAIN streams, P!Handle(k) PROVE Listens'
  BY <1>0, <1>5 DEF P!Handle, P!receiving
<1>6. ASSUME NEW k \in DOMAIN streams, P!Receive(k) PROVE Listens'
  BY <1>6, ReceiveListens
<1>7. ASSUME NEW s \in P!Session, P!AcceptPeer(s) PROVE Listens'
  BY <1>7 DEF P!AcceptPeer, Listens
<1>8. ASSUME NEW m \in P!Chunk, P!RecvCancel(m.epoch, m.idx) PROVE Listens'
  <2>1. m.epoch \in Nat /\ m.idx \in Nat
    BY Carries DEF P!Chunk
  <2> QED
    BY <1>8, <2>1 DEF P!RecvCancel, P!receiving, Listens
<1>9. CASE UNCHANGED P!vars
  BY <1>0, <1>9 DEF P!vars, P!receiving
<1> QED
  BY <1>1, <1>2, <1>3, <1>4, <1>5, <1>6, <1>7, <1>8, <1>9 DEF P!Next

LEMMA ListensInit == P!Init => Listens
  BY DEF P!Init, Listens, P!Session

LEMMA PeerTyped ==
  ASSUME PeerKept, Listens
  PROVE  P!TypeOK
<1> DEFINE q == Queues(streams)
           w == Wires(streams)
           n == Len(streams)
<1>1. /\ Sessions(streams)
      /\ Kept(given, channel, lpchan, q, w, n, dropped, received, queuedHPMsgs, queuedLPMsgs)
  BY DEF PeerKept
<1> HIDE DEF q, w, n
<1>2. given \in Seq(Message) /\ channel \in Seq(Message) /\ lpchan \in Seq(Message)
  BY <1>1, KeptIs
<1>3. queuedHPMsgs \in Nat /\ queuedLPMsgs \in Nat
  <2>1. /\ Tally(q, {1, 2}) \in Nat /\ Tally(q, 3..n) \in Nat /\ Len(lpchan) \in Nat
    BY <1>1, KeptIs
  <2>2. queuedHPMsgs = Tally(q, {1, 2}) /\ queuedLPMsgs = Tally(q, 3..n) + Len(lpchan)
    BY <1>1 DEF Kept, Numbered
  <2> QED
    BY <2>1, <2>2
<1>4. dropped \subseteq P!Chunk /\ received \in [P!Session -> Seq(Message)]
  <2>1. /\ \A m \in dropped : P!Low(m)
        /\ received \in [P!Session -> Seq(Message)]
        /\ dropped \subseteq Rng(given)
    BY <1>1 DEF Kept, Held
  <2>2. Rng(given) \subseteq Message
    BY <1>2 DEF Rng
  <2> QED
    BY <2>1, <2>2 DEF P!Chunk
<1>5. streams \in Seq(StreamOver(Seq(Message)))
  BY <1>1 DEF Sessions, Stream
<1>6. P!HighPriorityRead = started \ {"lp"} /\ P!LowPriorityRead = started \cap {"lp"}
  BY DEF P!HighPriorityRead, P!LowPriorityRead, Listens
<1>7. Message \subseteq [kind : P!Kind, epoch : Nat, idx : Nat]
  BY Carries
<1> QED
  BY <1>2, <1>3, <1>4, <1>5, <1>6, <1>7 DEF P!TypeOK, P!Line, StreamOver, Listens

-----------------------------------------------------------------------------
(***************************************************************************)
(* What the generator confirms: blocks of epochs that have been started,   *)
(* since one that has not been dispersed is rejected.                      *)
(***************************************************************************)
GenConfirms(o, fu, cf, pr, bc, tx) ==
  /\ \A e \in 0..maxEpoch : o[e] = {TRUE} => e < Len(payload)
  /\ fu <= maxEpoch + 1 /\ cf \in Seq(0..maxEpoch)
  /\ pr \in Seq({0} \cup DOMAIN blocks)
  /\ bc \in Seq({0} \cup DOMAIN blocks) /\ Len(bc) <= ChanCap
  /\ tx \in Nat

GenBounds ==
  /\ inserted <= MaxTxs /\ stopped \in BOOLEAN
  /\ sent \in Seq(Seq(1..inserted))
  /\ GenConfirms(output, firstUnoutput, confirmed, printing, blockChannel, confirmedTx)

LEMMA WiderSeq ==
  ASSUME NEW S, NEW T, S \subseteq T
  PROVE  Seq(S) \subseteq Seq(T)
  OBVIOUS

LEMMA ConfirmsAre ==
  ASSUME NEW e \in 0..maxEpoch, NEW level \in Nat, level <= e
  PROVE  \E D \in SUBSET (0..e) :
           /\ \A d \in D : d < level \/ (d = e /\ output[e] = {TRUE})
           /\ G!ToConfirm(e, level) \in Seq(D)
<1> DEFINE due(d) == d \notin G!ToSet(confirmed) /\ (d < level \/ (d = e /\ output[e] = {TRUE}))
           D == {d \in 0..e : due(d)}
           f == [k \in 1..(e + 1) |-> IF due(k - 1) THEN <<k - 1>> ELSE <<>>]
<1>1. e \in Nat /\ maxEpoch \in Nat
  BY Generates
<1>2. ASSUME NEW k \in 1..(e + 1) PROVE (IF due(k - 1) THEN <<k - 1>> ELSE <<>>) \in Seq(D)
  <2>1. k - 1 \in 0..e
    BY <1>1
  <2>2. CASE due(k - 1)
    <3>1. k - 1 \in D
      BY <2>1, <2>2
    <3> HIDE DEF D, due
    <3> QED
      BY <2>2, <3>1
  <2>3. CASE ~due(k - 1)
    <3> HIDE DEF D, due
    <3> QED
      BY <2>3
  <2> QED
    BY <2>2, <2>3
<1>3. f \in Seq(Seq(D))
  <2> DEFINE X == Seq(D)
             g(k) == IF due(k - 1) THEN <<k - 1>> ELSE <<>>
  <2>1. \A k \in 1..(e + 1) : g(k) \in X
    BY <1>2
  <2> HIDE DEF X, g
  <2>2. [k \in 1..(e + 1) |-> g(k)] \in Seq(X)
    BY <1>1, <2>1
  <2> QED
    BY <2>2 DEF X, g
<1>4. G!FlattenSeq(f) = FlattenSeq(f)
  <2>1. \A t : G!FlattenSeq(t) = FlattenSeq(t)
    BY Zenon DEF G!FlattenSeq, FlattenSeq
  <2> QED
    BY <2>1
<1>5. G!ToConfirm(e, level) = G!FlattenSeq(f)
  BY DEF G!ToConfirm
<1>6. D \in SUBSET (0..e) /\ \A d \in D : d < level \/ (d = e /\ output[e] = {TRUE})
  OBVIOUS
<1> HIDE DEF f, D
<1>7. <<>> \in Seq(D)
  OBVIOUS
<1>8. FlattenSeq(f) \in Seq(D)
  BY <1>3, <1>7, FlattenAppend
<1> QED
  BY <1>4, <1>5, <1>6, <1>8

LEMMA OutputBounds ==
  ASSUME GenSound, GenBounds, NEW level \in G!Epoch, G!OutputEpoch(level)
  PROVE  GenBounds'
<1> DEFINE e == firstUnoutput
           mine == G!ToConfirm(e, level)
           p == [k \in DOMAIN mine |-> G!ObjectOf(mine[k])]
           B == {0} \cup DOMAIN blocks
<1>1. /\ e <= maxEpoch /\ G!Min({e, G!firstUninited}) >= level
      /\ firstUnoutput' = e + 1 /\ confirmed' = confirmed \o mine
      /\ printing' = <<0>> \o p
      /\ UNCHANGED <<config, inserted, queue, stopped, blocks, payload, sent, output,
                     blockChannel, confirmedTx>>
  BY DEF G!OutputEpoch, G!generator, G!Other
<1>2. /\ e \in 0..maxEpoch /\ level \in Nat /\ maxEpoch \in Nat /\ Len(payload) \in Nat
      /\ payload \in Seq(DOMAIN blocks)
  BY <1>1, Generates DEF G!Epoch, GenSound, GenTyped
<1>3. level <= e /\ level <= Len(payload)
  <2>1. G!Min({e, Len(payload)}) \in 0..Len(payload) /\ G!Min({e, Len(payload)}) <= e
    BY <1>2, MinIs
  <2> QED
    BY <1>1, <1>2, <2>1 DEF G!firstUninited
<1> HIDE DEF mine
<1>4. PICK D \in SUBSET (0..e) :
        /\ \A d \in D : d < level \/ (d = e /\ output[e] = {TRUE})
        /\ mine \in Seq(D)
  BY <1>2, <1>3, ConfirmsAre DEF mine
<1>5. ASSUME NEW d \in D PROVE d \in 0..maxEpoch /\ payload[d + 1] \in DOMAIN blocks
  <2>1. d \in 0..e /\ d \in 0..maxEpoch
    BY <1>2
  <2>2. d < Len(payload)
    <3>1. output[e] = {TRUE} => e < Len(payload)
      BY <1>2 DEF GenBounds, GenConfirms
    <3>2. d < level \/ (d = e /\ output[e] = {TRUE})
      BY <1>4
    <3> HIDE DEF e
    <3>3. CASE d < level
      BY <1>2, <1>3, <2>1, <3>3
    <3>4. CASE d = e /\ output[e] = {TRUE}
      BY <3>1, <3>4
    <3> QED
      BY <3>2, <3>3, <3>4
  <2>3. d + 1 \in 1..Len(payload)
    BY <1>2, <2>1, <2>2
  <2> QED
    BY <1>2, <2>1, <2>3
<1>6. confirmed' \in Seq(0..maxEpoch)
  <2> DEFINE T == 0..maxEpoch
  <2>1. D \subseteq T /\ confirmed \in Seq(T)
    BY <1>5 DEF GenBounds, GenConfirms
  <2> HIDE DEF T
  <2>2. mine \in Seq(T)
    <3>1. Seq(D) \subseteq Seq(T)
      BY <2>1, WiderSeq
    <3> QED
      BY <1>4, <3>1
  <2> QED
    BY <1>1, <2>1, <2>2 DEF T
<1>7. printing' \in Seq(B)
  <2>1. Len(mine) \in Nat /\ DOMAIN mine = 1..Len(mine) /\ \A k \in DOMAIN mine : mine[k] \in D
    BY <1>4
  <2>2. \A k \in DOMAIN mine : G!ObjectOf(mine[k]) \in B
    BY <1>5, <2>1 DEF G!ObjectOf
  <2>3. 0 \in B
    OBVIOUS
  <2> HIDE DEF B
  <2>4. p \in Seq(B)
    BY <2>1, <2>2
  <2>5. <<0>> \in Seq(B)
    BY <2>3
  <2> HIDE DEF p
  <2> QED
    BY <1>1, <2>4, <2>5
<1>8. firstUnoutput' <= maxEpoch + 1
  BY <1>1, <1>2
<1> HIDE DEF B, p, e
<1> QED
  BY <1>1, <1>6, <1>7, <1>8 DEF GenBounds, GenConfirms, B

\* A block that is started or filled up keeps what is confirmed in bounds.
LEMMA StartBounds ==
  ASSUME GenSound, GenBounds,
         (\E take : NewBlock(take)) \/ (\E k, take : Filled(k, take)),
         UNCHANGED <<inserted, stopped, output, firstUnoutput, confirmed, printing,
                     blockChannel, confirmedTx>>
  PROVE  GenBounds'
<1> DEFINE T == Seq(1..inserted)
<1>1. /\ sent \in Seq(T) /\ queue \in T /\ Len(payload) \in Nat /\ inserted \in Nat
      /\ blocks \in Seq(T) /\ payload \in Seq(DOMAIN blocks) /\ maxEpoch \in Nat
  BY Generates DEF GenSound, GenTyped, GenBounds
<1>2. ASSUME NEW take \in 0..Len(queue) PROVE SubSeq(queue, 1, take) \in T
  <2>1. queue \in Seq(1..inserted)
    BY <1>1
  <2> QED
    BY <2>1, Parting
<1>3. /\ sent' \in Seq(T) /\ DOMAIN blocks \subseteq DOMAIN blocks'
      /\ Len(payload') = Len(payload) + 1
  <2>1. ASSUME NEW take, NewBlock(take)
        PROVE  /\ sent' \in Seq(T) /\ DOMAIN blocks \subseteq DOMAIN blocks'
               /\ Len(payload') = Len(payload) + 1
    <3> DEFINE x == SubSeq(queue, 1, take)
    <3>1. x \in T /\ sent' = Append(sent, x) /\ blocks' = Append(blocks, x)
          /\ payload' = Append(payload, Len(blocks) + 1)
      BY <1>2, <2>1 DEF NewBlock
    <3> HIDE DEF x, T
    <3>2. DOMAIN blocks = 1..Len(blocks) /\ DOMAIN blocks' = 1..(Len(blocks) + 1) /\ Len(blocks) \in Nat
      BY <1>1, <3>1
    <3>3. DOMAIN blocks \subseteq DOMAIN blocks'
      BY <3>2
    <3>4. Len(payload') = Len(payload) + 1
      BY <1>1, <3>1
    <3> QED
      BY <1>1, <3>1, <3>3, <3>4
  <2>2. ASSUME NEW k, NEW take, Filled(k, take)
        PROVE  /\ sent' \in Seq(T) /\ DOMAIN blocks \subseteq DOMAIN blocks'
               /\ Len(payload') = Len(payload) + 1
    <3> DEFINE x == SubSeq(queue, 1, take)
               y == blocks[k] \o x
    <3>1. x \in T /\ sent' = Append(sent, y) /\ blocks' = [blocks EXCEPT ![k] = @ \o x]
          /\ payload' = Append(payload, k) /\ k = payload[Len(payload)] /\ Len(payload) # 0
      BY <1>2, <2>2 DEF Filled
    <3>2. k \in DOMAIN blocks
      <4>1. Len(payload) \in DOMAIN payload /\ k = payload[Len(payload)]
        <5>1. payload \in Seq(DOMAIN blocks) /\ Len(payload) # 0 /\ k = payload[Len(payload)]
          BY <1>1, <3>1
        <5> QED
          BY <5>1
      <4>2. payload \in Seq(DOMAIN blocks)
        BY <1>1
      <4> QED
        BY <4>1, <4>2
    <3>3. y \in T
      <4>1. blocks[k] \in T
        BY <1>1, <3>2
      <4> HIDE DEF x
      <4>2. blocks[k] \in Seq(1..inserted) /\ x \in Seq(1..inserted)
        BY <3>1, <4>1
      <4> QED
        BY <4>2
    <3> HIDE DEF x, y, T
    <3>4. DOMAIN blocks' = DOMAIN blocks
      BY <3>1
    <3>5. Len(payload') = Len(payload) + 1
      BY <1>1, <3>1
    <3>6. sent' \in Seq(T)
      <4>1. sent \in Seq(T) /\ sent' = Append(sent, y)
        BY <1>1, <3>1
      <4> QED
        BY <3>3, <4>1
    <3> QED
      BY <3>4, <3>5, <3>6
  <2> QED
    BY <2>1, <2>2
<1> HIDE DEF T
<1>4. \A e \in 0..maxEpoch : output'[e] = {TRUE} => e < Len(payload')
  <2>1. \A e \in 0..maxEpoch : output[e] = {TRUE} => e < Len(payload)
    BY DEF GenBounds, GenConfirms
  <2>2. output' = output /\ Len(payload') = Len(payload) + 1 /\ Len(payload) \in Nat
    BY <1>1, <1>3
  <2> SUFFICES ASSUME NEW e \in 0..maxEpoch, output[e] = {TRUE} PROVE e < Len(payload')
    BY <2>2
  <2>3. e < Len(payload)
    BY <2>1
  <2>4. e \in Int
    BY <1>1
  <2> QED
    BY <2>2, <2>3, <2>4
<1>5. Seq({0} \cup DOMAIN blocks) \subseteq Seq({0} \cup DOMAIN blocks')
  <2>1. {0} \cup DOMAIN blocks \subseteq {0} \cup DOMAIN blocks'
    BY <1>3
  <2> QED
    BY <2>1, WiderSeq
<1>6. sent' \in Seq(Seq(1..inserted'))
  BY <1>3 DEF T
<1>7. GenConfirms(output, firstUnoutput, confirmed, printing, blockChannel, confirmedTx)'
  BY <1>4, <1>5 DEF GenBounds, GenConfirms
<1> QED
  BY <1>6, <1>7 DEF GenBounds

LEMMA BoundsStep ==
  ASSUME GenSound, GenBounds, [G!Next]_(G!vars)
  PROVE  GenBounds'
<1> DEFINE B == {0} \cup DOMAIN blocks
<1>0. ASSUME UNCHANGED <<inserted, blocks, payload, sent, output, firstUnoutput, confirmed>>,
             stopped' \in BOOLEAN, printing' \in Seq(B), blockChannel' \in Seq(B),
             Len(blockChannel') <= ChanCap, confirmedTx' \in Nat
      PROVE  GenBounds'
  BY <1>0 DEF GenBounds, GenConfirms
<1>1. /\ stopped \in BOOLEAN /\ printing \in Seq(B) /\ blockChannel \in Seq(B)
      /\ Len(blockChannel) <= ChanCap /\ confirmedTx \in Nat /\ ChanCap \in Nat
  BY Generates DEF GenBounds, GenConfirms
<1>2. CASE G!InsertTransaction
  <2>1. /\ inserted' = inserted + 1 /\ inserted < MaxTxs
        /\ UNCHANGED <<stopped, blocks, payload, sent, output, firstUnoutput, confirmed,
                       printing, blockChannel, confirmedTx>>
    BY <1>2 DEF G!InsertTransaction, G!ledger, G!logging
  <2>2. inserted \in Nat /\ MaxTxs \in Nat /\ sent \in Seq(Seq(1..inserted))
    BY Generates DEF GenSound, GenTyped, GenBounds
  <2>3. inserted' <= MaxTxs /\ 1..inserted \subseteq 1..inserted'
    BY <2>1, <2>2
  <2>4. Seq(1..inserted) \subseteq Seq(1..inserted')
    BY <2>3, WiderSeq
  <2>5. Seq(Seq(1..inserted)) \subseteq Seq(Seq(1..inserted'))
    BY <2>4, WiderSeq
  <2> QED
    BY <2>1, <2>2, <2>3, <2>5 DEF GenBounds, GenConfirms
<1>3. CASE G!InitNextEpoch
  <2>1. UNCHANGED <<inserted, stopped, output, firstUnoutput, confirmed, printing,
                    blockChannel, confirmedTx>>
    BY <1>3 DEF G!InitNextEpoch, G!ledger, G!logging
  <2>2. (\E take : NewBlock(take)) \/ (\E k, take : Filled(k, take))
    BY <1>3, InitNextIs
  <2> QED
    BY <2>1, <2>2, StartBounds
<1>4. CASE G!Stop
  <2>1. /\ UNCHANGED <<inserted, blocks, payload, sent, output, firstUnoutput, confirmed,
                       printing, blockChannel, confirmedTx>>
        /\ stopped' = TRUE
    BY <1>4 DEF G!Stop, G!ledger, G!logging
  <2> HIDE DEF B
  <2> QED
    BY <1>0, <1>1, <2>1
<1>5. ASSUME NEW e \in G!Epoch, NEW b \in BOOLEAN, G!EpochDispersed(e, b) PROVE GenBounds'
  <2>1. /\ (b => e < Len(payload)) /\ output' = [output EXCEPT ![e] = {b}]
        /\ UNCHANGED <<inserted, stopped, blocks, payload, sent, firstUnoutput, confirmed,
                       printing, blockChannel, confirmedTx>>
    BY <1>5 DEF G!EpochDispersed, G!generator, G!logging, G!firstUninited
  <2>2. \A d \in 0..maxEpoch : output'[d] = {TRUE} => d < Len(payload)
    <3> SUFFICES ASSUME NEW d \in 0..maxEpoch, output'[d] = {TRUE} PROVE d < Len(payload)
      OBVIOUS
    <3>1. DOMAIN output = 0..maxEpoch
      BY DEF GenSound, GenTyped
    <3>2. CASE d = e
      <4>1. {b} = {TRUE}
        BY <2>1, <3>1, <3>2
      <4>2. b
        BY <4>1
      <4> QED
        BY <2>1, <3>2, <4>2
    <3>3. CASE d # e
      <4>1. output'[d] = output[d]
        BY <2>1, <3>1, <3>3 DEF G!Epoch
      <4> QED
        BY <4>1 DEF GenBounds, GenConfirms
    <3> QED
      BY <3>2, <3>3
  <2> QED
    BY <2>1, <2>2 DEF GenBounds, GenConfirms
<1>6. ASSUME NEW level \in G!Epoch, G!OutputEpoch(level) PROVE GenBounds'
  BY <1>6, OutputBounds
<1>7. CASE G!LogConfirm
  <2>1. /\ printing # <<>> /\ Len(blockChannel) < ChanCap
        /\ blockChannel' = Append(blockChannel, Head(printing)) /\ printing' = Tail(printing)
        /\ UNCHANGED <<inserted, stopped, blocks, payload, sent, output, firstUnoutput, confirmed,
                       confirmedTx>>
    BY <1>7 DEF G!LogConfirm, G!generator, G!ledger
  <2> HIDE DEF B
  <2>2. /\ printing' \in Seq(B) /\ blockChannel' \in Seq(B)
        /\ Len(blockChannel') = Len(blockChannel) + 1 /\ Len(blockChannel) \in Nat
    BY <1>1, <2>1
  <2>3. Len(blockChannel') <= ChanCap
    BY <1>1, <2>1, <2>2
  <2> QED
    BY <1>0, <1>1, <2>1, <2>2, <2>3
<1>8. CASE G!AccountLatency
  <2> DEFINE h == Head(blockChannel)
  <2>1. /\ blockChannel # <<>> /\ blockChannel' = Tail(blockChannel)
        /\ confirmedTx' = confirmedTx + (IF h = 0 THEN 0 ELSE Len(blocks[h]))
        /\ UNCHANGED <<inserted, stopped, blocks, payload, sent, output, firstUnoutput, confirmed,
                       printing>>
    BY <1>8 DEF G!AccountLatency, G!generator, G!ledger, G!Other
  <2>2. /\ h \in B /\ blockChannel' \in Seq(B)
        /\ Len(blockChannel') = Len(blockChannel) - 1 /\ Len(blockChannel) \in Nat
    <3> HIDE DEF B
    <3> QED
      BY <1>1, <2>1
  <2>3. Len(blockChannel') <= ChanCap
    BY <1>1, <2>2
  <2> HIDE DEF h
  <2>4. h # 0 => Len(blocks[h]) \in Nat
    <3>1. blocks \in Seq(Seq(1..inserted)) /\ (h # 0 => h \in DOMAIN blocks)
      BY <2>2 DEF GenSound, GenTyped
    <3> QED
      BY <3>1
  <2>5. confirmedTx' \in Nat
    BY <1>1, <2>1, <2>4
  <2> HIDE DEF B
  <2> QED
    BY <1>0, <1>1, <2>1, <2>2, <2>3, <2>5
<1>9. CASE UNCHANGED G!vars \/ G!Panic
  BY <1>9 DEF G!vars, G!Panic, G!generator, G!ledger, G!logging, GenBounds, GenConfirms
<1> QED
  BY <1>2, <1>3, <1>4, <1>5, <1>6, <1>7, <1>8, <1>9 DEF G!Next

LEMMA BoundsInit == G!Init => GenBounds
<1> SUFFICES ASSUME G!Init PROVE GenBounds
  OBVIOUS
<1>1. maxEpoch \in Nat /\ MaxTxs \in Nat /\ ChanCap \in Nat
  BY Generates
<1>2. \A e \in 0..maxEpoch : output[e] = {}
  BY DEF G!Init, G!Epoch
<1>3. /\ inserted = 0 /\ stopped = FALSE /\ sent = <<>> /\ firstUnoutput = 0 /\ confirmed = <<>>
      /\ printing = <<>> /\ blockChannel = <<>> /\ confirmedTx = 0
  BY DEF G!Init
<1>4. ASSUME NEW S PROVE <<>> \in Seq(S)
  OBVIOUS
<1>10. sent \in Seq(Seq(1..inserted))
  BY <1>3, <1>4
<1>5. inserted <= MaxTxs
  BY <1>1, <1>3
<1>11. stopped \in BOOLEAN
  BY Zenon, <1>3
<1>6. \A e \in 0..maxEpoch : output[e] = {TRUE} => e < Len(payload)
  BY <1>2
<1>7. confirmed \in Seq(0..maxEpoch)
  BY <1>3, <1>4
<1>8. printing \in Seq({0} \cup DOMAIN blocks) /\ blockChannel \in Seq({0} \cup DOMAIN blocks)
  BY <1>3, <1>4
<1>9. Len(blockChannel) <= ChanCap /\ firstUnoutput <= maxEpoch + 1 /\ confirmedTx \in Nat
  BY <1>1, <1>3
<1> QED
  BY <1>5, <1>6, <1>7, <1>8, <1>9, <1>10, <1>11 DEF GenBounds, GenConfirms

LEMMA GeneratorTyped ==
  ASSUME GenSound, GenBounds, up \in BOOLEAN
  PROVE  G!TypeOK
<1> DEFINE T == Seq(G!Tx)
<1>1. inserted \in Nat /\ MaxTxs \in Nat /\ inserted <= MaxTxs
  BY Generates DEF GenSound, GenTyped, GenBounds
<1>2. 1..inserted \subseteq G!Tx
  BY <1>1 DEF G!Tx
<1>3. Seq(1..inserted) \subseteq T
  BY <1>2, WiderSeq
<1>4. Seq(Seq(1..inserted)) \subseteq Seq(T)
  BY <1>3, WiderSeq
<1>5. queue \in T /\ blocks \in Seq(T) /\ sent \in Seq(T)
  BY <1>3, <1>4 DEF GenSound, GenTyped, GenBounds
<1>6. output \in [G!Epoch -> SUBSET BOOLEAN]
  <2>1. {{}, {TRUE}, {FALSE}} \subseteq SUBSET BOOLEAN
    OBVIOUS
  <2>2. output \in [0..maxEpoch -> {{}, {TRUE}, {FALSE}}]
    BY DEF GenSound, GenTyped
  <2> QED
    BY <2>1, <2>2 DEF G!Epoch
<1>7. inserted \in 0..MaxTxs /\ firstUnoutput \in 0..(maxEpoch + 1)
  BY <1>1, Generates DEF GenSound, GenTyped, GenBounds, GenConfirms
<1> HIDE DEF T
<1>8. /\ config \in Config /\ stopped \in BOOLEAN
      /\ \A k \in DOMAIN blocks : Len(blocks[k]) <= BlockTxs
      /\ payload \in Seq(DOMAIN blocks) /\ Len(sent) = Len(payload)
      /\ confirmed \in Seq(G!Epoch)
      /\ printing \in Seq({0} \cup DOMAIN blocks)
      /\ blockChannel \in Seq({0} \cup DOMAIN blocks) /\ Len(blockChannel) <= ChanCap
      /\ confirmedTx \in Nat
  BY DEF GenSound, GenTyped, GenBounds, GenConfirms, G!Epoch
<1> QED
  BY <1>5, <1>6, <1>7, <1>8 DEF G!TypeOK, G!Other, T

(***************************************************************************)
(* The parts of the daemon keep their types, whatever they do at once:     *)
(* counters are never negative, a session has the priority of what it      *)
(* carries, no block is larger than BlockTxs, no channel fuller than its   *)
(* capacity, and what is logged is a block that exists.                    *)
(***************************************************************************)
THEOREM DaemonTyped == Spec /\ P!Spec /\ G!Spec => []AllTypesOK
<1>1. Spec => []TypeOK
  <2>1. ServerSound /\ InLine => TypeOK
    BY ServerSoundTyped
  <2> QED
    BY <2>1, ServerHolds, PTL
<1>2. P!Spec => []P!TypeOK
  <2>1. P!Init => PeerKept /\ Listens
    BY KeptInit, ListensInit
  <2>2. (PeerKept /\ Listens) /\ [P!Next]_(P!vars) => (PeerKept /\ Listens)'
    BY KeptStep, ListensStep
  <2>3. PeerKept /\ Listens => P!TypeOK
    BY PeerTyped
  <2> QED
    BY <2>1, <2>2, <2>3, PTL DEF P!Spec
<1>3. G!Spec => []G!TypeOK
  <2>1. G!Init => GenSound /\ GenBounds /\ Running
    BY GeneratorInit, BoundsInit, RunningInit
  <2>2. (GenSound /\ GenBounds /\ Running) /\ [G!Next]_(G!vars)
          => (GenSound /\ GenBounds /\ Running)'
    BY GeneratorStep, BoundsStep, RunningStep
  <2>3. GenSound /\ GenBounds /\ Running => G!TypeOK
    BY GeneratorTyped DEF Running
  <2> QED
    BY <2>1, <2>2, <2>3, PTL DEF G!Spec
<1>4. TypeOK /\ P!TypeOK /\ G!TypeOK => AllTypesOK
  BY DEF AllTypesOK
<1> QED
  BY <1>1, <1>2, <1>3, <1>4, PTL
=============================================================================
