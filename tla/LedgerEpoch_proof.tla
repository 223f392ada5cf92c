------------------------- MODULE LedgerEpoch_proof -------------------------
(***************************************************************************)
(* Proofs about LedgerEpoch, for any number of nodes and any faulty set.   *)
(***************************************************************************)
EXTENDS LedgerEpoch, ProtocolParams_proof

Value == {{}, {TRUE}, {FALSE}}

\* q has the votes of p: what a step that only retrieves or counts keeps.
SameVotes(p, q) ==
  /\ q \in PikaEpochState
  /\ q.input = p.input /\ q.output = p.output /\ q.vtermed = p.vtermed

LEMMA ReleaseVotes ==
  ASSUME NEW p \in PikaEpochState, NEW S \in SUBSET Node
  PROVE  SameVotes(p, Release(p, S))
<1> DEFINE set == p.released \cup S
           q == [p EXCEPT !.released = set]
<1>1. set \in SUBSET Node
  BY DEF PikaEpochState
<1>2. SameVotes(p, q)
  <2> HIDE DEF set
  <2> QED
    BY <1>1 DEF SameVotes, PikaEpochState
<1> QED
  BY <1>2 DEF Release

LEMMA RequestVotes ==
  ASSUME NEW p \in PikaEpochState, NEW S \in SUBSET Node
  PROVE  SameVotes(p, Request(p, S))
<1> DEFINE set == p.requested \cup S
           q == [p EXCEPT !.requested = set]
<1>1. set \in SUBSET Node
  BY DEF PikaEpochState
<1>2. SameVotes(p, q)
  <2> HIDE DEF set
  <2> QED
    BY <1>1 DEF SameVotes, PikaEpochState
<1> QED
  BY <1>2 DEF Request

LEMMA RetrieveVotes ==
  ASSUME NEW p \in PikaEpochState, NEW i \in Node
  PROVE  SameVotes(p, Retrieve(p, i))
<1> DEFINE q == Release(p, {i})
<1>1. SameVotes(p, q)
  BY ReleaseVotes
<1>2. SameVotes(q, Request(q, {i}))
  BY <1>1, RequestVotes DEF SameVotes
<1> HIDE DEF q
<1>3. SameVotes(p, Request(q, {i}))
  BY <1>1, <1>2 DEF SameVotes
<1>4. Retrieve(p, i) = q \/ Retrieve(p, i) = Request(q, {i})
  BY DEF Retrieve, q
<1> QED
  BY <1>1, <1>3, <1>4

LEMMA StartRequestingVotes ==
  ASSUME NEW p \in PikaEpochState
  PROVE  SameVotes(p, StartRequesting(p))
<1> DEFINE q == [p EXCEPT !.requestStarted = TRUE]
<1>1. SameVotes(p, q) /\ p.released \in SUBSET Node
  BY DEF SameVotes, PikaEpochState
<1> HIDE DEF q
<1>2. SameVotes(q, Request(q, p.released))
  BY <1>1, RequestVotes DEF SameVotes
<1>3. SameVotes(p, Request(q, p.released)) /\ SameVotes(p, p)
  BY <1>1, <1>2 DEF SameVotes
<1> QED
  BY <1>3 DEF StartRequesting, q

LEMMA ConcludeVotes ==
  ASSUME NEW p \in PikaEpochState
  PROVE  SameVotes(p, Conclude(p))
<1> DEFINE done == p.termed \/ Accepted(p) \subseteq Decoded(p)
           q == [p EXCEPT !.hptermed = TRUE, !.termed = done]
<1>1. done \in BOOLEAN
  BY Zenon DEF PikaEpochState
<1>2. SameVotes(p, q)
  <2> HIDE DEF done
  <2> QED
    BY <1>1 DEF SameVotes, PikaEpochState
<1>3. Conclude(p) = q \/ Conclude(p) = p
  BY Zenon DEF Conclude, q, done
<1>4. SameVotes(p, p)
  BY DEF SameVotes
<1> HIDE DEF q
<1> QED
  BY <1>2, <1>3, <1>4

LEMMA DecodeVotes ==
  ASSUME NEW p \in PikaEpochState, NEW i \in Node, NEW block \in Block
  PROVE  SameVotes(p, Decode(p, i, block))
<1> DEFINE kept == IF p.refs[i] = NoBlock THEN block ELSE p.refs[i]
           refs == [p.refs EXCEPT ![i] = kept]
           q == [p EXCEPT !.refs = refs]
<1>1. p.refs \in [Node -> Block]
  BY DEF PikaEpochState
<1>2. refs \in [Node -> Block]
  BY <1>1
<1>3. SameVotes(p, q)
  <2> HIDE DEF refs
  <2> QED
    BY <1>2 DEF SameVotes, PikaEpochState
<1>4. Decode(p, i, block) = q
  BY DEF Decode
<1> QED
  BY <1>3, <1>4

\* In r, the BAs in S that had no input in p have been given v.
Given(p, S, v, r) ==
  /\ r \in PikaEpochState
  /\ r.output = p.output /\ r.vtermed = p.vtermed
  /\ \A i \in Node :
       \/ r.input[i] = p.input[i]
       \/ i \in S /\ p.input[i] = {} /\ r.input[i] = {v}

LEMMA InputBAVotes ==
  ASSUME NEW p \in PikaEpochState, NEW S \in SUBSET Node, NEW v, {v} \in Value
  PROVE  Given(p, S, v, InputBA(p, S, v))
<1> DEFINE input == [i \in Node |-> IF i \in S /\ p.input[i] = {} THEN {v} ELSE p.input[i]]
           q == [p EXCEPT !.input = input]
<1>1. p.input \in [Node -> Value] /\ {v} \in Value
  BY DEF PikaEpochState, Value
<1>2. input \in [Node -> Value]
  BY <1>1
<1>3. q \in PikaEpochState /\ q.output = p.output /\ q.vtermed = p.vtermed /\ q.input = input
  <2> HIDE DEF input
  <2> QED
    BY <1>2 DEF PikaEpochState, Value
<1>4. InputBA(p, S, v) = q
  BY DEF InputBA
<1>5. \A i \in Node :
        \/ input[i] = p.input[i]
        \/ i \in S /\ p.input[i] = {} /\ input[i] = {v}
  OBVIOUS
<1> HIDE DEF q, input
<1> QED
  BY <1>3, <1>4, <1>5 DEF Given

-----------------------------------------------------------------------------
(***************************************************************************)
(* What a step may do to the votes of an epoch.  Nothing given is taken    *)
(* back; TRUE goes into the BA of a block that is dispersed here or is in  *)
(* known, FALSE only after N-F others have been accepted.                  *)
(***************************************************************************)
Keeps(p, q) ==
  /\ q \in PikaEpochState
  /\ p.vtermed \subseteq q.vtermed
  /\ \A i \in Node : p.input[i] # {} => q.input[i] = p.input[i]
  /\ \A i \in Node : p.output[i] # {} => q.output[i] = p.output[i]

Justified(q, known, i, v) ==
  \/ v = TRUE /\ i \in q.vtermed \cup known
  \/ v = FALSE /\ Cardinality(Accepted(q)) >= N - F

Inputs(p, q, known) ==
  \A i \in Node : \A v \in q.input[i] : v \in p.input[i] \/ Justified(q, known, i, v)

LEMMA SameVotesKeeps ==
  ASSUME NEW p \in PikaEpochState, NEW q, SameVotes(p, q), NEW known
  PROVE  Keeps(p, q) /\ Inputs(p, q, known) /\ q.output = p.output
BY Zenon DEF SameVotes, Keeps, Inputs

\* More votes are put in, then the epoch goes on with what it has.
LEMMA InputBAKeeps ==
  ASSUME NEW p \in PikaEpochState, NEW S \in SUBSET Node, NEW v, {v} \in Value, NEW known,
         NEW r, Given(p, S, v, r), NEW q, SameVotes(r, q),
         \A i \in S : Justified(p, known, i, v)
  PROVE  Keeps(p, q) /\ Inputs(p, q, known) /\ q.output = p.output
<1>1. /\ r.output = p.output /\ r.vtermed = p.vtermed
      /\ \A i \in Node :
           \/ r.input[i] = p.input[i]
           \/ i \in S /\ p.input[i] = {} /\ r.input[i] = {v}
  BY DEF Given
<1>2. /\ q \in PikaEpochState
      /\ q.input = r.input /\ q.output = r.output /\ q.vtermed = r.vtermed
  BY DEF SameVotes
<1>3. Keeps(p, q)
  BY <1>1, <1>2, Zenon DEF Keeps
<1>4. Accepted(q) = Accepted(p)
  BY <1>1, <1>2, Zenon DEF Accepted
<1>5. \A i \in S : Justified(q, known, i, v)
  BY <1>1, <1>2, <1>4, Zenon DEF Justified
<1>6. Inputs(p, q, known)
  BY <1>1, <1>2, <1>5, Zenon DEF Inputs
<1> QED
  BY <1>1, <1>2, <1>3, <1>6

-----------------------------------------------------------------------------
LEMMA InitEpochKeeps ==
  ASSUME NEW p \in PikaEpochState, NEW id \in Node, NEW refs \in Block
  PROVE  /\ Keeps(p, InitEpoch(p, id, refs)) /\ Inputs(p, InitEpoch(p, id, refs), {id})
         /\ InitEpoch(p, id, refs).output = p.output
<1> DEFINE d == Decode(p, id, refs)
           r == Release(d, Node)
           yes == TRUE
           q == InputBA(r, {id}, yes)
<1>1. SameVotes(p, d)
  BY DecodeVotes
<1>2. SameVotes(d, r)
  BY <1>1, ReleaseVotes DEF SameVotes
<1>3. SameVotes(p, r)
  BY <1>1, <1>2, Zenon DEF SameVotes
<1>4. r \in PikaEpochState /\ {id} \in SUBSET Node /\ {yes} \in Value
  BY <1>3 DEF SameVotes, Value
<1>8. \A i \in {id} : Justified(r, {id}, i, yes)
  BY DEF Justified
<1>7. InitEpoch(p, id, refs) = q
  BY DEF InitEpoch
<1> HIDE DEF d, r, yes
<1>9. Given(r, {id}, yes, q)
  BY <1>4, InputBAVotes
<1>5. SameVotes(q, q)
  BY <1>9 DEF SameVotes, Given
<1>6. Keeps(r, q) /\ Inputs(r, q, {id}) /\ q.output = r.output
  <2> HIDE DEF q
  <2> QED
    BY <1>4, <1>5, <1>8, <1>9, InputBAKeeps
<1> HIDE DEF q
<1> QED
  BY <1>3, <1>6, <1>7, Zenon DEF SameVotes, Keeps, Inputs

LEMMA RecvVIDKeeps ==
  ASSUME NEW p \in PikaEpochState, NEW i \in Node, NEW isDispersed \in BOOLEAN,
         NEW isTermed \in BOOLEAN, NEW block \in Block
  PROVE  /\ Keeps(p, RecvVID(p, i, isDispersed, isTermed, block))
         /\ Inputs(p, RecvVID(p, i, isDispersed, isTermed, block), {})
         /\ RecvVID(p, i, isDispersed, isTermed, block).output = p.output
<1> DEFINE dispersed == IF isDispersed THEN p.dispersed \cup {i} ELSE p.dispersed
           vtermed == IF isTermed THEN p.vtermed \cup {i} ELSE p.vtermed
           r == [p EXCEPT !.dispersed = dispersed, !.vtermed = vtermed]
           d == Decode(r, i, block)
           yes == TRUE
           g == InputBA(d, {i}, yes)
           q == Conclude(IF i \in d.vtermed THEN Retrieve(g, i) ELSE d)
<1>1. /\ r \in PikaEpochState /\ r.input = p.input /\ r.output = p.output
      /\ p.vtermed \subseteq r.vtermed
  <2>1. dispersed \in SUBSET Node /\ vtermed \in SUBSET Node /\ p.vtermed \subseteq vtermed
    BY DEF PikaEpochState
  <2> HIDE DEF dispersed, vtermed
  <2> QED
    BY <2>1 DEF PikaEpochState
<1>2. RecvVID(p, i, isDispersed, isTermed, block) = q
  BY DEF RecvVID
<1> HIDE DEF r
<1>3. /\ SameVotes(r, d) /\ d \in PikaEpochState
      /\ {i} \in SUBSET Node /\ {yes} \in Value
  BY <1>1, DecodeVotes DEF SameVotes, Value
<1>6. i \in d.vtermed => \A j \in {i} : Justified(d, {}, j, yes)
  BY DEF Justified
<1> HIDE DEF d, yes
<1>7. Given(d, {i}, yes, g)
  BY <1>3, InputBAVotes
<1>4. g \in PikaEpochState
  BY <1>7 DEF Given
<1>5. Keeps(d, q) /\ Inputs(d, q, {}) /\ q.output = d.output
  <2>1. CASE i \in d.vtermed
    <3>1. SameVotes(g, Retrieve(g, i))
      BY <1>4, RetrieveVotes
    <3>2. SameVotes(Retrieve(g, i), Conclude(Retrieve(g, i)))
      BY <3>1, ConcludeVotes DEF SameVotes
    <3>3. SameVotes(g, q)
      BY <2>1, <3>1, <3>2, Zenon DEF SameVotes
    <3>4. \A j \in {i} : Justified(d, {}, j, yes)
      BY <1>6, <2>1
    <3>5. d \in PikaEpochState /\ {i} \in SUBSET Node /\ {yes} \in Value
      BY <1>3
    <3> HIDE DEF q, g
    <3> QED
      BY <1>7, <3>3, <3>4, <3>5, InputBAKeeps
  <2>2. CASE i \notin d.vtermed
    <3>1. SameVotes(d, Conclude(d))
      BY <1>3, ConcludeVotes
    <3>2. q = Conclude(d)
      BY <2>2
    <3> HIDE DEF q
    <3> QED
      BY <1>3, <3>1, <3>2, SameVotesKeeps
  <2> QED
    BY <2>1, <2>2
<1> HIDE DEF q
<1> QED
  BY <1>1, <1>2, <1>3, <1>5, Zenon DEF SameVotes, Keeps, Inputs

\* The output of one BA is set, once.
LEMMA RecvBAKeeps ==
  ASSUME NEW p \in PikaEpochState, NEW i \in Node, NEW out \in Value
  PROVE  /\ Keeps(p, RecvBA(p, i, out)) /\ Inputs(p, RecvBA(p, i, out), {})
         /\ \A j \in Node :
              \/ RecvBA(p, i, out).output[j] = p.output[j]
              \/ j = i /\ out # {} /\ RecvBA(p, i, out).output[j] = out
<1> DEFINE o == [p.output EXCEPT ![i] = out]
           r == [p EXCEPT !.output = o]
           g == IF out = {TRUE} THEN Retrieve(r, i) ELSE r
           q == Conclude(InputFalse(g))
<1>1. CASE p.output[i] # {} \/ out = {}
  <2>1. RecvBA(p, i, out) = Conclude(p)
    BY <1>1 DEF RecvBA
  <2>2. SameVotes(p, Conclude(p))
    BY ConcludeVotes
  <2> QED
    BY <2>1, <2>2, SameVotesKeeps
<1>2. CASE p.output[i] = {} /\ out # {}
  <2>1. RecvBA(p, i, out) = q
    BY <1>2 DEF RecvBA
  <2>2. /\ r \in PikaEpochState /\ r.output = o
        /\ r.input = p.input /\ r.vtermed = p.vtermed
    <3>1. o \in [Node -> Value]
      BY DEF PikaEpochState, Value
    <3> HIDE DEF o
    <3> QED
      BY <3>1 DEF PikaEpochState, Value
  <2>3. \A j \in Node : o[j] = p.output[j] \/ (j = i /\ o[j] = out)
    BY DEF PikaEpochState
  <2> HIDE DEF r, o
  <2>4. SameVotes(r, g)
    BY <2>2, RetrieveVotes DEF SameVotes
  <2>5. g \in PikaEpochState
    BY <2>4 DEF SameVotes
  <2>6. Keeps(g, q) /\ Inputs(g, q, {}) /\ q.output = g.output
    <3> HIDE DEF g
    <3>1. CASE Cardinality(Accepted(g)) >= N - F
      <4> DEFINE no == FALSE
                 given == InputBA(g, Node, no)
      <4>1. {no} \in Value /\ InputFalse(g) = given
        BY <3>1 DEF Value, InputFalse
      <4>3. \A j \in Node : Justified(g, {}, j, no)
        BY <3>1 DEF Justified
      <4> HIDE DEF no
      <4>4. Given(g, Node, no, given)
        BY <2>5, <4>1, InputBAVotes
      <4>5. given \in PikaEpochState
        BY <4>4 DEF Given
      <4>2. SameVotes(given, q)
        BY <4>1, <4>5, ConcludeVotes
      <4> HIDE DEF q, given
      <4> QED
        BY <2>5, <4>1, <4>2, <4>3, <4>4, InputBAKeeps
    <3>2. CASE ~(Cardinality(Accepted(g)) >= N - F)
      <4>1. SameVotes(g, q)
        BY <2>5, <3>2, ConcludeVotes DEF InputFalse
      <4> HIDE DEF q
      <4> QED
        BY <2>5, <4>1, SameVotesKeeps
    <3> QED
      BY <3>1, <3>2
  <2> HIDE DEF q, g
  <2>7. /\ q \in PikaEpochState /\ p.vtermed \subseteq q.vtermed
        /\ \A j \in Node : p.input[j] # {} => q.input[j] = p.input[j]
        /\ q.output = o
    BY <2>2, <2>4, <2>6, Zenon DEF SameVotes, Keeps
  <2>8. Keeps(p, q)
    BY <1>2, <2>3, <2>7, Zenon DEF Keeps
  <2>9. Inputs(p, q, {})
    BY <2>2, <2>4, <2>6, Zenon DEF SameVotes, Inputs
  <2> QED
    BY <1>2, <2>1, <2>3, <2>7, <2>8, <2>9, Zenon
<1> QED
  BY <1>1, <1>2

-----------------------------------------------------------------------------
(***************************************************************************)
(* The inductive invariant.  A FALSE in a BA is backed by N-F acceptances  *)
(* at the node that gave it, a TRUE by a dispersal; outputs are inputs,    *)
(* and agree.                                                              *)
(***************************************************************************)
Known(i) == i \in inited \/ \E k \in Correct : i \in epoch[k].vtermed

Backed(n) ==
  \A i \in Node : \A v \in epoch[n].input[i] :
    \/ v = TRUE /\ Known(i)
    \/ v = FALSE /\ Cardinality(Accepted(epoch[n])) >= N - F

Valid == \A n \in Correct : \A i \in Node : epoch[n].output[i] \subseteq Proposed(i)

Agreed ==
  \A m, n \in Correct : \A i \in Node :
    epoch[m].output[i] # {} /\ epoch[n].output[i] # {} =>
      epoch[m].output[i] = epoch[n].output[i]

IInv ==
  /\ TypeOK
  /\ \A n \in Correct : Backed(n)
  /\ Valid
  /\ Agreed

LEMMA OutputProposed ==
  ASSUME Valid, NEW n \in Correct, NEW i \in Node, NEW v \in epoch[n].output[i]
  PROVE  \E k \in Correct : v \in epoch[k].input[i]
BY DEF Valid, Proposed

LEMMA InitInvariant == Init => IInv
<1> SUFFICES ASSUME Init PROVE IInv
  OBVIOUS
<1>1. NewPikaEpoch \in PikaEpochState
  BY DEF NewPikaEpoch, PikaEpochState, Block
<1>2. \A i \in Node : NewPikaEpoch.input[i] = {} /\ NewPikaEpoch.output[i] = {}
  BY DEF NewPikaEpoch
<1>3. \A n \in Correct : epoch[n] = NewPikaEpoch
  BY DEF Init
<1>4. TypeOK
  BY <1>1 DEF TypeOK, Init
<1>5. \A n \in Correct : Backed(n)
  BY <1>2, <1>3 DEF Backed
<1>6. Valid /\ Agreed
  BY <1>2, <1>3 DEF Valid, Agreed
<1> QED
  BY <1>4, <1>5, <1>6 DEF IInv

LEMMA AcceptedKept ==
  ASSUME NEW p \in PikaEpochState, NEW q, Keeps(p, q)
  PROVE  Cardinality(Accepted(p)) >= N - F => Cardinality(Accepted(q)) >= N - F
<1>1. Accepted(p) \in SUBSET Accepted(q) /\ Accepted(q) \in SUBSET Node
  BY Zenon DEF Keeps, Accepted
<1>2. Cardinality(Accepted(p)) <= Cardinality(Accepted(q))
  BY <1>1, SubsetCardinality
<1>3. Accepted(p) \in SUBSET Node
  BY DEF Accepted
<1> QED
  BY <1>1, <1>2, <1>3, SubsetFinite, NIsNat, FaultAssumption

\* A step of node n that keeps votes and outputs what may be decided.
LEMMA StepInvariant ==
  ASSUME IInv, NEW n \in Correct, NEW q,
         epoch' = [epoch EXCEPT ![n] = q],
         inited \subseteq inited', inited' \subseteq Correct,
         Keeps(epoch[n], q), Inputs(epoch[n], q, inited'),
         \A i \in Node :
           \/ q.output[i] = epoch[n].output[i]
           \/ q.output[i] \subseteq Proposed(i) /\ Decided(i) \subseteq q.output[i]
                /\ \A v, w \in q.output[i] : v = w
  PROVE  IInv'
<1> DEFINE p == epoch[n]
<1>1. /\ epoch \in [Correct -> PikaEpochState] /\ p \in PikaEpochState
      /\ q \in PikaEpochState
  BY DEF IInv, TypeOK, Keeps
<1>2. TypeOK'
  BY <1>1 DEF TypeOK
<1>3. /\ epoch'[n] = q
      /\ \A k \in Correct : k # n => epoch'[k] = epoch[k]
  BY <1>1
<1>4. \A k \in Correct : Keeps(epoch[k], epoch'[k])
  <2>1. \A k \in Correct : k # n => epoch[k] \in PikaEpochState
    BY <1>1
  <2>2. ASSUME NEW k \in Correct PROVE Keeps(epoch[k], epoch[k])
    BY <1>1, Zenon DEF Keeps
  <2> QED
    BY <1>3, <2>2, Zenon
<1>5. \A i \in Node : Known(i) => Known(i)'
  BY <1>4, Zenon DEF Known, Keeps
<1>6. ASSUME NEW k \in Correct PROVE Backed(k)'
  <2>1. CASE k = n
    <3> SUFFICES ASSUME NEW i \in Node, NEW v \in q.input[i]
                 PROVE  \/ v = TRUE /\ Known(i)'
                        \/ v = FALSE /\ Cardinality(Accepted(q)) >= N - F
      BY <1>3, <2>1, Zenon DEF Backed
    <3>1. CASE v \in p.input[i]
      <4>1. \/ v = TRUE /\ Known(i)
            \/ v = FALSE /\ Cardinality(Accepted(p)) >= N - F
        BY <3>1, Zenon DEF IInv, Backed
      <4> QED
        BY <4>1, <1>1, <1>5, AcceptedKept, Zenon
    <3>2. CASE Justified(q, inited', i, v)
      BY <3>2, <1>3, Zenon DEF Justified, Known
    <3> QED
      BY <3>1, <3>2, Zenon DEF Inputs
  <2>2. CASE k # n
    <3>1. epoch'[k] = epoch[k] /\ Backed(k)
      BY <1>3, <2>2 DEF IInv
    <3> QED
      BY <1>5, <3>1, Zenon DEF Backed
  <2> QED
    BY <2>1, <2>2
<1>7. \A i \in Node : Proposed(i) \subseteq Proposed(i)'
  <2> SUFFICES ASSUME NEW i \in Node, NEW k \in Correct, NEW v \in epoch[k].input[i]
               PROVE  v \in epoch'[k].input[i]
    BY DEF Proposed
  <2>1. epoch[k].input[i] # {}
    OBVIOUS
  <2> QED
    BY <1>4, <2>1, Zenon DEF Keeps
<1>8. Valid'
  <2> SUFFICES ASSUME NEW k \in Correct, NEW i \in Node, NEW v \in epoch'[k].output[i]
               PROVE  v \in Proposed(i)'
    BY Zenon DEF Valid
  <2>1. v \in Proposed(i)
    BY <1>3, Zenon DEF IInv, Valid
  <2> QED
    BY <1>7, <2>1
<1>9. Agreed'
  <2>1. ASSUME NEW k \in Correct, k # n, NEW i \in Node,
               epoch[k].output[i] # {}, q.output[i] # {}
        PROVE  epoch[k].output[i] = q.output[i]
    <3>1. CASE q.output[i] = epoch[n].output[i]
      BY <2>1, <3>1, Zenon DEF IInv, Agreed
    <3>2. CASE /\ Decided(i) \subseteq q.output[i]
               /\ \A v, w \in q.output[i] : v = w
      <4>1. epoch[k].output[i] \subseteq q.output[i]
        BY <3>2 DEF Decided
      <4>2. PICK v \in epoch[k].output[i] : TRUE
        BY <2>1
      <4>3. v \in q.output[i] /\ \A w \in q.output[i] : w = v
        BY <3>2, <4>1, <4>2, Zenon
      <4> QED
        BY <4>1, <4>2, <4>3
    <3> QED
      BY <3>1, <3>2
  <2> SUFFICES ASSUME NEW j \in Correct, NEW k \in Correct, NEW i \in Node,
                      epoch'[j].output[i] # {}, epoch'[k].output[i] # {}
               PROVE  epoch'[j].output[i] = epoch'[k].output[i]
    BY DEF Agreed
  <2>2. CASE j = n /\ k = n
    BY <2>2
  <2>3. CASE j = n /\ k # n
    <3>1. epoch'[j] = q /\ epoch'[k] = epoch[k]
      BY <1>3, <2>3
    <3> QED
      BY <2>1, <2>3, <3>1
  <2>4. CASE j # n /\ k = n
    <3>1. epoch'[k] = q /\ epoch'[j] = epoch[j]
      BY <1>3, <2>4
    <3> QED
      BY <2>1, <2>4, <3>1
  <2>5. CASE j # n /\ k # n
    <3>1. epoch'[j] = epoch[j] /\ epoch'[k] = epoch[k]
      BY <1>3, <2>5
    <3> QED
      BY <3>1 DEF IInv, Agreed
  <2> QED
    BY <2>2, <2>3, <2>4, <2>5
<1> QED
  BY <1>2, <1>6, <1>8, <1>9, Zenon DEF IInv

-----------------------------------------------------------------------------
LEMMA NextInvariant == IInv /\ [Next]_vars => IInv'
<1> SUFFICES ASSUME IInv, [Next]_vars PROVE IInv'
  OBVIOUS
<1>1. epoch \in [Correct -> PikaEpochState] /\ inited \subseteq Correct /\ Correct \subseteq Node
  BY DEF IInv, TypeOK, Correct
<1>2. NoReferences \in Block /\ NoBlock \in Block
  BY DEF NoReferences, Block, References
<1>3. ASSUME NEW n \in Correct, Start(n) PROVE IInv'
  <2> DEFINE q == InitEpoch(epoch[n], n, NoReferences)
  <2>1. /\ Keeps(epoch[n], q) /\ Inputs(epoch[n], q, {n})
        /\ q.output = epoch[n].output
    BY <1>1, <1>2, InitEpochKeeps
  <2>2. epoch' = [epoch EXCEPT ![n] = q] /\ inited' = inited \cup {n}
    BY <1>3 DEF Start
  <2> HIDE DEF q
  <2>3. Inputs(epoch[n], q, inited')
    BY <2>1, <2>2, Zenon DEF Inputs, Justified
  <2> QED
    BY <1>1, <2>1, <2>2, <2>3, StepInvariant
<1>4. ASSUME NEW n \in Correct, StartRequest(n) PROVE IInv'
  <2> DEFINE q == StartRequesting(epoch[n])
  <2>1. SameVotes(epoch[n], q)
    BY <1>1, StartRequestingVotes
  <2>2. epoch' = [epoch EXCEPT ![n] = q] /\ inited' = inited
    BY <1>4 DEF StartRequest
  <2> HIDE DEF q
  <2>3. /\ Keeps(epoch[n], q) /\ Inputs(epoch[n], q, inited')
        /\ q.output = epoch[n].output
    BY <1>1, <2>1, SameVotesKeeps
  <2> QED
    BY <1>1, <2>2, <2>3, StepInvariant
<1>5. ASSUME NEW n \in Correct, NEW i \in Node, VIDStep(n, i) PROVE IInv'
  <2>1. PICK isDispersed \in BOOLEAN, isTermed \in BOOLEAN, block \in {NoBlock, NoReferences} :
          /\ epoch' = [epoch EXCEPT ![n] = RecvVID(epoch[n], i, isDispersed, isTermed, block)]
          /\ inited' = inited
    BY <1>5, Zenon DEF VIDStep
  <2> DEFINE q == RecvVID(epoch[n], i, isDispersed, isTermed, block)
  <2>2. Keeps(epoch[n], q) /\ Inputs(epoch[n], q, {}) /\ q.output = epoch[n].output
    BY <1>1, <1>2, RecvVIDKeeps
  <2>3. epoch' = [epoch EXCEPT ![n] = q] /\ inited' = inited
    BY <2>1
  <2> HIDE DEF q
  <2>4. Inputs(epoch[n], q, inited')
    BY <2>2, Zenon DEF Inputs, Justified
  <2> QED
    BY <1>1, <2>2, <2>3, <2>4, StepInvariant
<1>6. ASSUME NEW n \in Correct, NEW i \in Node, BAStep(n, i) PROVE IInv'
  <2>1. PICK out \in {{}} \cup {{v} : v \in Proposed(i)} :
          /\ out # {} => Decided(i) \subseteq out
          /\ epoch' = [epoch EXCEPT ![n] = RecvBA(epoch[n], i, out)]
          /\ inited' = inited
    BY <1>6, Zenon DEF BAStep
  <2>2. /\ out \in Value /\ out \subseteq Proposed(i)
        /\ \A v, w \in out : v = w
    <3>1. \A k \in Correct : epoch[k].input[i] \in Value
      BY <1>1 DEF PikaEpochState, Value
    <3>2. Proposed(i) \subseteq BOOLEAN
      <4> SUFFICES ASSUME NEW k \in Correct, NEW v \in epoch[k].input[i] PROVE v \in BOOLEAN
        BY DEF Proposed
      <4> QED
        BY <3>1, Zenon DEF Value
    <3> QED
      BY <3>2, Zenon DEF Value
  <2> DEFINE q == RecvBA(epoch[n], i, out)
  <2>3. /\ Keeps(epoch[n], q) /\ Inputs(epoch[n], q, {})
        /\ \A j \in Node :
             q.output[j] = epoch[n].output[j] \/ (j = i /\ out # {} /\ q.output[j] = out)
    BY <1>1, <2>2, RecvBAKeeps
  <2>4. epoch' = [epoch EXCEPT ![n] = q] /\ inited' = inited
    BY <2>1
  <2> HIDE DEF q
  <2>5. Inputs(epoch[n], q, inited')
    BY <2>3, Zenon DEF Inputs, Justified
  <2>6. \A j \in Node :
          \/ q.output[j] = epoch[n].output[j]
          \/ q.output[j] \subseteq Proposed(j) /\ Decided(j) \subseteq q.output[j]
               /\ \A v, w \in q.output[j] : v = w
    BY <2>1, <2>2, <2>3, Zenon
  <2> QED
    BY <1>1, <2>3, <2>4, <2>5, <2>6, StepInvariant
<1>7. CASE UNCHANGED vars
  BY <1>7 DEF vars, IInv, TypeOK, Backed, Known, Valid, Proposed, Agreed
<1> QED
  BY <1>3, <1>4, <1>5, <1>6, <1>7 DEF Next

LEMMA Invariant == Spec => []IInv
BY InitInvariant, NextInvariant, PTL DEF Spec

-----------------------------------------------------------------------------
(***************************************************************************)
(* Every reachable state of an epoch of the ledger is well typed.          *)
(***************************************************************************)
THEOREM TypeCorrect == Spec => []TypeOK
<1>1. IInv => TypeOK
  BY DEF IInv
<1> QED
  BY <1>1, Invariant, PTL

(***************************************************************************)
(* A node whose BAs have all terminated has accepted N-F blocks: if a BA   *)
(* says FALSE, some node gave it FALSE, and had seen N-F blocks accepted,  *)
(* which by agreement are accepted here too.                               *)
(***************************************************************************)
THEOREM EnoughAccepted == Spec => []AcceptsEnough
<1>1. IInv => AcceptsEnough
  <2> SUFFICES ASSUME IInv, NEW n \in Correct, AllBATerm(epoch[n])
               PROVE  Cardinality(Accepted(epoch[n])) >= N - F
    BY DEF AcceptsEnough
  <2>1. Accepted(epoch[n]) \in SUBSET Node
    BY DEF Accepted
  <2>2. \A k \in Correct : epoch[k] \in PikaEpochState
    BY DEF IInv, TypeOK
  <2>3. CASE \E i \in Node : FALSE \in epoch[n].output[i]
    <3>1. PICK i \in Node : FALSE \in epoch[n].output[i]
      BY <2>3
    <3>2. PICK k \in Correct : FALSE \in epoch[k].input[i]
      BY <3>1, OutputProposed, Zenon DEF IInv
    <3>3. Cardinality(Accepted(epoch[k])) >= N - F
      BY <3>2, Zenon DEF IInv, Backed
    <3>4. Accepted(epoch[k]) \in SUBSET Accepted(epoch[n])
      <4> SUFFICES ASSUME NEW j \in Node, epoch[k].output[j] = {TRUE}
                   PROVE  epoch[n].output[j] = {TRUE}
        BY Zenon DEF Accepted
      <4>1. epoch[n].output[j] # {} /\ epoch[k].output[j] # {}
        BY Zenon DEF AllBATerm
      <4> QED
        BY <4>1, Zenon DEF IInv, Agreed
    <3>5. Accepted(epoch[k]) \in SUBSET Node
      BY DEF Accepted
    <3>6. Cardinality(Accepted(epoch[k])) <= Cardinality(Accepted(epoch[n]))
      BY <2>1, <3>4, SubsetCardinality
    <3> QED
      BY <2>1, <3>3, <3>5, <3>6, SubsetFinite, NIsNat, FaultAssumption
  <2>4. CASE \A i \in Node : FALSE \notin epoch[n].output[i]
    <3>1. \A i \in Node : epoch[n].output[i] \in Value
      BY <2>2 DEF PikaEpochState, Value
    <3>2. Accepted(epoch[n]) = Node
      BY <2>4, <3>1, Zenon DEF Accepted, AllBATerm, Value
    <3> QED
      BY <3>2, NIsNat, FaultAssumption DEF N
  <2> QED
    BY <2>3, <2>4
<1> QED
  BY <1>1, Invariant, PTL

(***************************************************************************)
(* An accepted block has been dispersed: only then is TRUE put into a BA.  *)
(***************************************************************************)
THEOREM AcceptedDispersed == Spec => []AcceptedIsDispersed
<1>1. IInv => AcceptedIsDispersed
  <2> SUFFICES ASSUME IInv, NEW n \in Correct, NEW i \in Node, epoch[n].output[i] = {TRUE}
               PROVE  Known(i)
    BY Zenon DEF AcceptedIsDispersed, Accepted, Known
  <2>1. TRUE \in epoch[n].output[i]
    BY Zenon
  <2>2. PICK k \in Correct : TRUE \in epoch[k].input[i]
    BY <2>1, OutputProposed, Zenon DEF IInv
  <2> QED
    BY <2>2, Zenon DEF IInv, Backed
<1> QED
  BY <1>1, Invariant, PTL

-----------------------------------------------------------------------------
(***************************************************************************)
(* Terminated epochs are complete.  An epoch terminates in Conclude, which *)
(* looks at all outputs and blocks; from then on no output is overwritten  *)
(* and no block is dropped.                                                *)
(***************************************************************************)
Complete(p) == p.termed => AllBATerm(p) /\ Accepted(p) \subseteq Decoded(p)

\* q has terminated if p has, with the same outputs, and drops no block.
Goes(p, q) ==
  /\ q.termed = p.termed /\ q.output = p.output
  /\ \A j \in Node : p.refs[j] # NoBlock => q.refs[j] # NoBlock

LEMMA GoesComplete ==
  ASSUME NEW p, NEW q, Complete(p), Goes(p, q)
  PROVE  Complete(q)
<1>1. AllBATerm(p) => AllBATerm(q)
  BY Zenon DEF Goes, AllBATerm
<1>2. Accepted(q) = Accepted(p) /\ Decoded(p) \subseteq Decoded(q)
  BY Zenon DEF Goes, Accepted, Decoded
<1> QED
  BY <1>1, <1>2, Zenon DEF Goes, Complete

LEMMA RetrieveGoes ==
  ASSUME NEW p \in PikaEpochState, NEW S
  PROVE  Goes(p, Release(p, S)) /\ Goes(p, Request(p, S))
<1> DEFINE released == p.released \cup S
           requested == p.requested \cup S
           q == [p EXCEPT !.released = released]
           r == [p EXCEPT !.requested = requested]
<1>1. Goes(p, q) /\ Goes(p, r)
  <2> HIDE DEF released, requested
  <2> QED
    BY DEF Goes, PikaEpochState
<1> QED
  BY <1>1 DEF Release, Request

LEMMA InputGoes ==
  ASSUME NEW p \in PikaEpochState, NEW S, NEW v
  PROVE  Goes(p, InputBA(p, S, v))
<1> DEFINE input == [i \in Node |-> IF i \in S /\ p.input[i] = {} THEN {v} ELSE p.input[i]]
           q == [p EXCEPT !.input = input]
<1>1. Goes(p, q)
  <2> HIDE DEF input
  <2> QED
    BY DEF Goes, PikaEpochState
<1> QED
  BY <1>1 DEF InputBA

LEMMA DecodeGoes ==
  ASSUME NEW p \in PikaEpochState, NEW i \in Node, NEW block \in Block
  PROVE  Goes(p, Decode(p, i, block))
<1> DEFINE kept == IF p.refs[i] = NoBlock THEN block ELSE p.refs[i]
           refs == [p.refs EXCEPT ![i] = kept]
           q == [p EXCEPT !.refs = refs]
<1>1. p.refs \in [Node -> Block]
  BY DEF PikaEpochState
<1>2. \A j \in Node : p.refs[j] # NoBlock => refs[j] # NoBlock
  BY <1>1
<1>3. Goes(p, q)
  <2> HIDE DEF refs
  <2> QED
    BY <1>2 DEF Goes, PikaEpochState
<1>4. Decode(p, i, block) = q
  BY DEF Decode
<1> QED
  BY <1>3, <1>4

LEMMA ConcludeComplete ==
  ASSUME NEW p \in PikaEpochState, Complete(p)
  PROVE  Complete(Conclude(p))
<1> DEFINE done == p.termed \/ Accepted(p) \subseteq Decoded(p)
           q == [p EXCEPT !.hptermed = TRUE, !.termed = done]
<1>1. CASE AllBATerm(p)
  <2>1. Conclude(p) = q
    BY <1>1, Zenon DEF Conclude
  <2>2. q.termed = done /\ q.output = p.output /\ q.refs = p.refs
    <3> HIDE DEF done
    <3> QED
      BY DEF PikaEpochState
  <2>3. AllBATerm(q) /\ Accepted(q) = Accepted(p) /\ Decoded(q) = Decoded(p)
    <3> HIDE DEF q
    <3> QED
      BY <1>1, <2>2, Zenon DEF AllBATerm, Accepted, Decoded
  <2>4. q.termed => Accepted(p) \subseteq Decoded(p)
    <3> HIDE DEF q
    <3> QED
      BY <2>2, Zenon DEF Complete
  <2> HIDE DEF q
  <2> QED
    BY <2>1, <2>3, <2>4, Zenon DEF Complete
<1>2. CASE ~AllBATerm(p)
  BY <1>2 DEF Conclude
<1> QED
  BY <1>1, <1>2

-----------------------------------------------------------------------------
LEMMA InitEpochComplete ==
  ASSUME NEW p \in PikaEpochState, NEW id \in Node, NEW refs \in Block, Complete(p)
  PROVE  Complete(InitEpoch(p, id, refs))
<1> DEFINE d == Decode(p, id, refs)
           r == Release(d, Node)
           yes == TRUE
           q == InputBA(r, {id}, yes)
<1>1. d \in PikaEpochState /\ Complete(d)
  BY DecodeVotes, DecodeGoes, GoesComplete DEF SameVotes
<1> HIDE DEF d
<1>2. r \in PikaEpochState /\ Complete(r)
  BY <1>1, ReleaseVotes, RetrieveGoes, GoesComplete DEF SameVotes
<1> HIDE DEF r, yes
<1>3. Complete(q)
  BY <1>2, InputGoes, GoesComplete
<1> QED
  BY <1>3 DEF InitEpoch, d, r, yes

LEMMA RetrieveComplete ==
  ASSUME NEW p \in PikaEpochState, NEW i \in Node, Complete(p)
  PROVE  Complete(Retrieve(p, i))
<1> DEFINE q == Release(p, {i})
<1>1. q \in PikaEpochState /\ Complete(q)
  BY ReleaseVotes, RetrieveGoes, GoesComplete DEF SameVotes
<1> HIDE DEF q
<1>2. Complete(Request(q, {i}))
  BY <1>1, RetrieveGoes, GoesComplete
<1> QED
  BY <1>1, <1>2 DEF Retrieve, q

LEMMA StartRequestingComplete ==
  ASSUME NEW p \in PikaEpochState, Complete(p)
  PROVE  Complete(StartRequesting(p))
<1> DEFINE q == [p EXCEPT !.requestStarted = TRUE]
<1>1. q \in PikaEpochState /\ Goes(p, q)
  BY DEF PikaEpochState, Goes
<1> HIDE DEF q
<1>2. Complete(Request(q, p.released))
  BY <1>1, RetrieveGoes, GoesComplete
<1> QED
  BY <1>2 DEF StartRequesting, q

LEMMA RecvVIDComplete ==
  ASSUME NEW p \in PikaEpochState, NEW i \in Node, NEW isDispersed \in BOOLEAN,
         NEW isTermed \in BOOLEAN, NEW block \in Block, Complete(p)
  PROVE  Complete(RecvVID(p, i, isDispersed, isTermed, block))
<1> DEFINE dispersed == IF isDispersed THEN p.dispersed \cup {i} ELSE p.dispersed
           vtermed == IF isTermed THEN p.vtermed \cup {i} ELSE p.vtermed
           r == [p EXCEPT !.dispersed = dispersed, !.vtermed = vtermed]
           d == Decode(r, i, block)
           yes == TRUE
           g == InputBA(d, {i}, yes)
           q == IF i \in d.vtermed THEN Retrieve(g, i) ELSE d
<1>1. r \in PikaEpochState /\ Goes(p, r)
  <2>1. dispersed \in SUBSET Node /\ vtermed \in SUBSET Node
    BY DEF PikaEpochState
  <2> HIDE DEF dispersed, vtermed
  <2> QED
    BY <2>1 DEF PikaEpochState, Goes
<1>2. RecvVID(p, i, isDispersed, isTermed, block) = Conclude(q)
  BY DEF RecvVID
<1> HIDE DEF r
<1>3. d \in PikaEpochState /\ Complete(d)
  <2>1. Complete(r)
    BY <1>1, GoesComplete
  <2> QED
    BY <1>1, <2>1, DecodeVotes, DecodeGoes, GoesComplete DEF SameVotes
<1>4. {i} \in SUBSET Node /\ {yes} \in Value
  BY DEF Value
<1> HIDE DEF d, yes
<1>5. g \in PikaEpochState /\ Complete(g)
  BY <1>3, <1>4, InputBAVotes, InputGoes, GoesComplete DEF Given
<1> HIDE DEF g
<1>6. q \in PikaEpochState /\ Complete(q)
  BY <1>3, <1>5, RetrieveVotes, RetrieveComplete DEF SameVotes
<1> HIDE DEF q
<1> QED
  BY <1>2, <1>6, ConcludeComplete

\* An output that is new finds the epoch unterminated, and leaves it to Conclude.
LEMMA RecvBAComplete ==
  ASSUME NEW p \in PikaEpochState, NEW i \in Node, NEW out \in Value, Complete(p)
  PROVE  Complete(RecvBA(p, i, out))
<1> DEFINE o == [p.output EXCEPT ![i] = out]
           r == [p EXCEPT !.output = o]
           g == IF out = {TRUE} THEN Retrieve(r, i) ELSE r
<1>1. CASE p.output[i] # {} \/ out = {}
  BY <1>1, ConcludeComplete DEF RecvBA
<1>2. CASE p.output[i] = {} /\ out # {}
  <2>1. RecvBA(p, i, out) = Conclude(InputFalse(g))
    BY <1>2 DEF RecvBA
  <2>2. ~AllBATerm(p)
    BY <1>2 DEF AllBATerm
  <2>3. ~p.termed
    BY <2>2, Zenon DEF Complete
  <2>4. r \in PikaEpochState /\ r.termed = p.termed
    <3>1. o \in [Node -> Value]
      BY DEF PikaEpochState, Value
    <3> HIDE DEF o
    <3> QED
      BY <3>1 DEF PikaEpochState, Value
  <2> HIDE DEF r
  <2>5. Complete(r)
    BY <2>3, <2>4, Zenon DEF Complete
  <2>6. g \in PikaEpochState /\ Complete(g)
    BY <2>4, <2>5, RetrieveVotes, RetrieveComplete DEF SameVotes
  <2> HIDE DEF g
  <2> DEFINE no == FALSE
             f == InputBA(g, Node, no)
  <2>7. {no} \in Value
    BY DEF Value
  <2>8. InputFalse(g) = f \/ InputFalse(g) = g
    BY DEF InputFalse
  <2> HIDE DEF no
  <2>9. f \in PikaEpochState /\ Complete(f)
    BY <2>6, <2>7, InputBAVotes, InputGoes, GoesComplete DEF Given
  <2> HIDE DEF f
  <2> QED
    BY <2>1, <2>6, <2>8, <2>9, ConcludeComplete
<1> QED
  BY <1>1, <1>2

LEMMA NextComplete ==
  TypeOK /\ TermedIsComplete /\ [Next]_vars => TermedIsComplete'
<1> SUFFICES ASSUME TypeOK, TermedIsComplete, [Next]_vars PROVE TermedIsComplete'
  OBVIOUS
<1>1. epoch \in [Correct -> PikaEpochState] /\ Correct \subseteq Node
  BY DEF TypeOK, Correct
<1>2. NoReferences \in Block /\ NoBlock \in Block
  BY DEF NoReferences, Block, References
<1>3. \A n \in Correct : Complete(epoch[n])
  BY DEF TermedIsComplete, Complete
<1>4. ASSUME NEW n \in Correct, NEW q, epoch' = [epoch EXCEPT ![n] = q], Complete(q)
      PROVE  TermedIsComplete'
  <2>1. \A k \in Correct : epoch'[k] = IF k = n THEN q ELSE epoch[k]
    BY <1>1, <1>4
  <2>2. \A k \in Correct : Complete(epoch'[k])
    BY <1>3, <1>4, <2>1
  <2> QED
    BY <2>2 DEF TermedIsComplete, Complete
<1>5. ASSUME NEW n \in Correct, Start(n) PROVE TermedIsComplete'
  BY <1>1, <1>2, <1>3, <1>4, <1>5, InitEpochComplete DEF Start
<1>6. ASSUME NEW n \in Correct, StartRequest(n) PROVE TermedIsComplete'
  BY <1>1, <1>3, <1>4, <1>6, StartRequestingComplete DEF StartRequest
<1>7. ASSUME NEW n \in Correct, NEW i \in Node, VIDStep(n, i) PROVE TermedIsComplete'
  <2>1. PICK isDispersed \in BOOLEAN, isTermed \in BOOLEAN, block \in {NoBlock, NoReferences} :
          epoch' = [epoch EXCEPT ![n] = RecvVID(epoch[n], i, isDispersed, isTermed, block)]
    BY <1>7, Zenon DEF VIDStep
  <2>2. Complete(RecvVID(epoch[n], i, isDispersed, isTermed, block))
    BY <1>1, <1>2, <1>3, RecvVIDComplete
  <2> QED
    BY <1>4, <2>1, <2>2
<1>8. ASSUME NEW n \in Correct, NEW i \in Node, BAStep(n, i) PROVE TermedIsComplete'
  <2>1. PICK out \in {{}} \cup {{v} : v \in Proposed(i)} :
          epoch' = [epoch EXCEPT ![n] = RecvBA(epoch[n], i, out)]
    BY <1>8, Zenon DEF BAStep
  <2>2. out \in Value
    <3>1. \A k \in Correct : epoch[k].input[i] \in Value
      BY <1>1 DEF PikaEpochState, Value
    <3>2. \A v \in Proposed(i) : v \in BOOLEAN
      <4> SUFFICES ASSUME NEW k \in Correct, NEW v \in epoch[k].input[i] PROVE v \in BOOLEAN
        BY DEF Proposed
      <4> QED
        BY <3>1, Zenon DEF Value
    <3> QED
      BY <3>2, Zenon DEF Value
  <2>3. Complete(RecvBA(epoch[n], i, out))
    BY <1>1, <1>3, <2>2, RecvBAComplete
  <2> QED
    BY <1>4, <2>1, <2>3
<1>9. CASE UNCHANGED vars
  BY <1>9 DEF vars, TermedIsComplete
<1> QED
  BY <1>5, <1>6, <1>7, <1>8, <1>9 DEF Next

(***************************************************************************)
(* A terminated epoch has an output of every BA and every accepted block,  *)
(* and keeps them, for any number of nodes and whatever the VIDs and BAs   *)
(* do: ConfirmUntil of a terminated epoch finds what it looks into.        *)
(***************************************************************************)
THEOREM TermedComplete == Spec => []TermedIsComplete
<1>1. Init => TermedIsComplete
  BY DEF Init, TermedIsComplete, NewPikaEpoch
<1> QED
  BY <1>1, NextComplete, TypeCorrect, PTL DEF Spec
=============================================================================
