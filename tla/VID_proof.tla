----------------------------- MODULE VID_proof -----------------------------
(***************************************************************************)
(* Proofs about VID, for any number of nodes, any faulty set and any       *)
(* initiator; about VIDStore, for any nesting of calls; and about the keys *)
(* of what is stored, for any number of epochs and nodes.                  *)
(***************************************************************************)
EXTENDS VID, MCVIDStore, SequenceTheorems, ProtocolParams_proof

(***************************************************************************)
(* The inductive invariant.  What a node has recorded from a correct node  *)
(* is backed by the state of that node: an Echo by a chunk held, a Ready   *)
(* by sentReady or by the Disperse of a correct initiator, a response by a *)
(* chunk released.  Holding, releasing and voting are never undone.        *)
(***************************************************************************)
Owns(n) == vid[n].ourChunk
Gives(n) == vid[n].ourChunk /\ vid[n].canRelease
Supports(n) == vid[n].sentReady \/ (n = initID /\ started)

\* What a VID at node n may hold at any point of a step.
Backed(n, s) ==
  /\ s \in VIDState
  /\ s.nEchos = Cardinality(s.echos)
  /\ s.nChunks = Cardinality(s.chunks)
  /\ \A k \in s.echos : k \in Correct => Owns(k) \/ (k = n /\ s.ourChunk)
  /\ \A k \in s.chunks : k \in Correct => Gives(k) \/ (k = n /\ s.ourChunk)
  /\ n \in s.echos \cup s.chunks => s.ourChunk
  /\ \A k \in s.readys : k \in Correct => Supports(k)
  /\ s.ourChunk /\ initID \in Correct => started

Sound(m) ==
  /\ "echo" \in m.is => Owns(m.from)
  /\ "ready" \in m.is => Supports(m.from)
  /\ "disperse" \in m.is /\ m.from = initID => started
  /\ "respond" \in m.is => Gives(m.from)

\* Enough chunks are out for any vote.
Safe == (initID \in Correct /\ started) \/ Cardinality(Holders) >= N - 2 * F

Staged(n) ==
  /\ vid[n].sentReady => Safe
  /\ ~vid[n].core => Cardinality(vid[n].readys) >= 2 * F + 1
  /\ ~vid[n].payload => vid[n].pstate
  /\ vid[n].pstate => vid[n].core

IInv ==
  /\ TypeOK
  /\ \A n \in Correct : Backed(n, vid[n]) /\ Staged(n)
  /\ \A m \in msgs : Sound(m)

-----------------------------------------------------------------------------
LEMMA MessageTypes ==
  ASSUME NEW n \in Node
  PROVE  /\ Echo(n) \in VIDMessage /\ Ready(n) \in VIDMessage /\ Disperse(n) \in VIDMessage
         /\ \A k \in Node : Request(n, k) \in VIDMessage /\ Respond(n, k) \in VIDMessage
BY DEF Echo, Ready, Disperse, Request, Respond, VIDMessage, Flag

\* A message is backed whoever sent it, if a correct node did.
LEMMA ReceivedSound ==
  ASSUME IInv, NEW m \in msgs \cup FaultyMsg
  PROVE  m \in VIDMessage /\ (m.from \in Correct => Sound(m))
<1>1. CASE m \in msgs
  BY <1>1 DEF IInv, TypeOK
<1>2. CASE m \in FaultyMsg
  BY <1>2, DispersalAssumption DEF Correct
<1> QED
  BY <1>1, <1>2

(***************************************************************************)
(* Each handler keeps a VID backed, and leaves the flags alone.            *)
(***************************************************************************)
SameFlags(s, t) ==
  /\ t.sentReady = s.sentReady /\ t.sentEcho = s.sentEcho
  /\ t.core = s.core /\ t.pstate = s.pstate
  /\ t.payload = s.payload /\ t.ad = s.ad
  /\ t.canRelease = s.canRelease /\ t.scheduled = s.scheduled
  /\ s.ourChunk => t.ourChunk
  /\ s.readys \subseteq t.readys

LEMMA AddOne ==
  ASSUME NEW A \in SUBSET Node, NEW k \in Node, k \notin A
  PROVE  Cardinality(A \cup {k}) = Cardinality(A) + 1
BY SubsetFinite, FS_AddElement

LEMMA EchoBacked ==
  ASSUME NEW n \in Correct, NEW s, Backed(n, s), NEW k \in Node,
         k \in Correct => Owns(k), k = n => s.ourChunk
  PROVE  Backed(n, HandleEcho(s, k)) /\ SameFlags(s, HandleEcho(s, k))
<1>1. CASE s.core /\ k \notin s.echos
  <2> DEFINE set == s.echos \cup {k}
             count == s.nEchos + 1
             t == [s EXCEPT !.echos = set, !.nEchos = count]
  <2>1. s \in VIDState /\ s.echos \in SUBSET Node /\ s.nEchos \in Nat
    BY DEF Backed, VIDState
  <2>2. t \in VIDState
    <3>1. set \in SUBSET Node /\ count \in Nat
      BY <2>1
    <3> HIDE DEF set, count
    <3> QED
      BY <2>1, <3>1 DEF VIDState
  <2>3. /\ t.echos = s.echos \cup {k} /\ t.nEchos = s.nEchos + 1
        /\ t.chunks = s.chunks /\ t.nChunks = s.nChunks
        /\ t.readys = s.readys /\ t.ourChunk = s.ourChunk
    BY <2>1 DEF VIDState
  <2>4. SameFlags(s, t)
    BY <2>1 DEF SameFlags, VIDState
  <2>5. t.nEchos = Cardinality(t.echos)
    BY <1>1, <2>1, <2>3, AddOne DEF Backed
  <2>6. HandleEcho(s, k) = t
    BY <1>1 DEF HandleEcho
  <2> HIDE DEF t
  <2> QED
    BY <2>2, <2>3, <2>4, <2>5, <2>6 DEF Backed
<1>2. CASE ~(s.core /\ k \notin s.echos)
  BY <1>2 DEF HandleEcho, SameFlags
<1> QED
  BY <1>1, <1>2

LEMMA ReadyBacked ==
  ASSUME NEW n \in Correct, NEW s, Backed(n, s), NEW k \in Node,
         k \in Correct => Supports(k)
  PROVE  Backed(n, HandleReady(s, k)) /\ SameFlags(s, HandleReady(s, k))
<1>1. CASE s.core
  <2> DEFINE t == [s EXCEPT !.readys = s.readys \cup {k}]
  <2>1. s \in VIDState /\ s.readys \in SUBSET Node
    BY DEF Backed, VIDState
  <2>2. t \in VIDState
    BY <2>1 DEF VIDState
  <2>3. /\ t.echos = s.echos /\ t.nEchos = s.nEchos
        /\ t.chunks = s.chunks /\ t.nChunks = s.nChunks
        /\ t.readys = s.readys \cup {k} /\ t.ourChunk = s.ourChunk
    BY <2>1 DEF VIDState
  <2>4. SameFlags(s, t)
    BY <2>1 DEF SameFlags, VIDState
  <2>5. HandleReady(s, k) = t
    BY <1>1 DEF HandleReady
  <2> HIDE DEF t
  <2> QED
    BY <2>2, <2>3, <2>4, <2>5 DEF Backed
<1>2. CASE ~s.core
  BY <1>2 DEF HandleReady, SameFlags
<1> QED
  BY <1>1, <1>2

LEMMA ResponseBacked ==
  ASSUME NEW n \in Correct, NEW s, Backed(n, s), NEW k \in Node,
         k \in Correct => Gives(k), k = n => s.ourChunk
  PROVE  Backed(n, HandleChunkResponse(s, k)) /\ SameFlags(s, HandleChunkResponse(s, k))
<1>1. CASE s.pstate /\ k \notin s.chunks
  <2> DEFINE set == s.chunks \cup {k}
             count == s.nChunks + 1
             t == [s EXCEPT !.chunks = set, !.nChunks = count]
  <2>1. s \in VIDState /\ s.chunks \in SUBSET Node /\ s.nChunks \in Nat
    BY DEF Backed, VIDState
  <2>2. t \in VIDState
    <3>1. set \in SUBSET Node /\ count \in Nat
      BY <2>1
    <3> HIDE DEF set, count
    <3> QED
      BY <2>1, <3>1 DEF VIDState
  <2>3. /\ t.echos = s.echos /\ t.nEchos = s.nEchos
        /\ t.chunks = s.chunks \cup {k} /\ t.nChunks = s.nChunks + 1
        /\ t.readys = s.readys /\ t.ourChunk = s.ourChunk
    BY <2>1 DEF VIDState
  <2>4. SameFlags(s, t)
    BY <2>1 DEF SameFlags, VIDState
  <2>5. t.nChunks = Cardinality(t.chunks)
    BY <1>1, <2>1, <2>3, AddOne DEF Backed
  <2>6. HandleChunkResponse(s, k) = t
    BY <1>1 DEF HandleChunkResponse
  <2> HIDE DEF t
  <2> QED
    BY <2>2, <2>3, <2>4, <2>5, <2>6 DEF Backed
<1>2. CASE ~(s.pstate /\ k \notin s.chunks)
  BY <1>2 DEF HandleChunkResponse, SameFlags
<1> QED
  BY <1>1, <1>2

LEMMA DisperseBacked ==
  ASSUME NEW n \in Correct, NEW s, Backed(n, s), NEW k \in Node,
         k = initID /\ initID \in Correct => started
  PROVE  Backed(n, HandleDisperse(s, n, k)) /\ SameFlags(s, HandleDisperse(s, n, k))
<1>1. CASE s.core /\ k = initID /\ ~s.ourChunk
  <2> DEFINE ec == s.echos \cup {n}
             nec == s.nEchos + 1
             ch == IF s.pstate THEN s.chunks \cup {n} ELSE s.chunks
             nch == IF s.pstate THEN s.nChunks + 1 ELSE s.nChunks
             t == [s EXCEPT !.ourChunk = TRUE, !.echos = ec, !.nEchos = nec,
                            !.chunks = ch, !.nChunks = nch]
  <2>1. /\ s \in VIDState /\ s.echos \in SUBSET Node /\ s.nEchos \in Nat
        /\ s.chunks \in SUBSET Node /\ s.nChunks \in Nat /\ n \in Node
    BY DEF Backed, VIDState, Correct
  <2>2. n \notin s.echos /\ n \notin s.chunks
    BY <1>1 DEF Backed
  <2>3. ch \in SUBSET Node /\ nch \in Nat /\ nch = Cardinality(ch) /\ ch \subseteq s.chunks \cup {n}
    BY <2>1, <2>2, AddOne DEF Backed
  <2>4. /\ ec \in SUBSET Node /\ nec \in Nat /\ nec = Cardinality(ec) /\ ec = s.echos \cup {n}
    BY <2>1, <2>2, AddOne DEF Backed
  <2>5. HandleDisperse(s, n, k) = t
    BY <1>1 DEF HandleDisperse
  <2> HIDE DEF ec, nec, ch, nch
  <2>6. t \in VIDState
    BY <2>1, <2>3, <2>4 DEF VIDState
  <2>7. /\ t.echos = ec /\ t.nEchos = nec /\ t.chunks = ch /\ t.nChunks = nch
        /\ t.readys = s.readys /\ t.ourChunk = TRUE
    BY <2>1 DEF VIDState
  <2>8. SameFlags(s, t)
    BY <2>1 DEF SameFlags, VIDState
  <2> HIDE DEF t
  <2> QED
    BY <1>1, <2>3, <2>5, <2>6, <2>7, <2>8, <2>4 DEF Backed
<1>2. CASE ~(s.core /\ k = initID /\ ~s.ourChunk)
  BY <1>2 DEF HandleDisperse, SameFlags
<1> QED
  BY <1>1, <1>2

LEMMA RequestBacked ==
  ASSUME NEW n \in Correct, NEW s, Backed(n, s), NEW k \in Node
  PROVE  Backed(n, RecordRequest(s, k)) /\ SameFlags(s, RecordRequest(s, k))
<1> DEFINE t == [s EXCEPT !.unanswered = s.unanswered \cup {k}]
<1>1. s \in VIDState /\ s.unanswered \in SUBSET Node
  BY DEF Backed, VIDState
<1>2. t \in VIDState
  BY <1>1 DEF VIDState
<1>3. /\ t.echos = s.echos /\ t.nEchos = s.nEchos
      /\ t.chunks = s.chunks /\ t.nChunks = s.nChunks
      /\ t.readys = s.readys /\ t.ourChunk = s.ourChunk
  BY <1>1 DEF VIDState
<1>4. SameFlags(s, t)
  BY <1>1 DEF SameFlags, VIDState
<1>5. RecordRequest(s, k) = t
  BY DEF RecordRequest
<1> HIDE DEF t
<1> QED
  BY <1>2, <1>3, <1>4, <1>5 DEF Backed

LEMMA HandleBacked ==
  ASSUME IInv, NEW n \in Correct, NEW m \in msgs \cup FaultyMsg
  PROVE  Backed(n, Handle(vid[n], n, m)) /\ SameFlags(vid[n], Handle(vid[n], n, m))
<1> DEFINE s == vid[n]
           e == IF "echo" \in m.is THEN HandleEcho(s, m.from) ELSE s
           r == IF "ready" \in m.is THEN HandleReady(e, m.from) ELSE e
           d == IF "disperse" \in m.is THEN HandleDisperse(r, n, m.from) ELSE r
           c == IF "respond" \in m.is THEN HandleChunkResponse(d, m.from) ELSE d
           q == IF "request" \in m.is THEN RecordRequest(c, m.from) ELSE c
<1>1. m \in VIDMessage /\ m.from \in Node /\ (m.from \in Correct => Sound(m))
  BY ReceivedSound DEF VIDMessage
<1>2. Backed(n, s) /\ SameFlags(s, s)
  BY DEF IInv, SameFlags
<1>3. Backed(n, e) /\ SameFlags(s, e)
  BY <1>1, <1>2, EchoBacked DEF Sound, Owns
<1>4. Backed(n, r) /\ SameFlags(s, r)
  <2> HIDE DEF e
  <2> QED BY <1>1, <1>3, ReadyBacked DEF Sound, SameFlags
<1>5. Backed(n, d) /\ SameFlags(s, d)
  <2> HIDE DEF e, r
  <2> QED BY <1>1, <1>4, DisperseBacked DEF Sound, SameFlags
<1>6. Backed(n, c) /\ SameFlags(s, c)
  <2> HIDE DEF e, r, d
  <2> QED BY <1>1, <1>5, ResponseBacked DEF Sound, SameFlags, Gives
<1>7. Backed(n, q) /\ SameFlags(s, q)
  <2> HIDE DEF e, r, d, c
  <2> QED BY <1>1, <1>6, RequestBacked DEF SameFlags
<1> QED
  BY <1>7 DEF Handle

(***************************************************************************)
(* Conclude records nothing; it votes on quorums, and drops the two parts  *)
(* of the state in order.                                                  *)
(***************************************************************************)
LEMMA ConcludeFacts ==
  ASSUME NEW s \in VIDState, NEW t, t = Conclude(s)
  PROVE  /\ t \in VIDState
         /\ t.echos = s.echos /\ t.nEchos = s.nEchos
         /\ t.chunks = s.chunks /\ t.nChunks = s.nChunks
         /\ t.readys = s.readys /\ t.ourChunk = s.ourChunk
         /\ t.canRelease = s.canRelease
         /\ s.sentReady => t.sentReady
         /\ t.sentReady => s.sentReady \/ s.nEchos >= N - F
                             \/ Cardinality(s.readys) >= F + 1
         /\ t.sentEcho => s.sentEcho \/ s.ourChunk
         /\ s.core /\ ~t.core => Cardinality(s.readys) >= 2 * F + 1
         /\ t.core => s.core
         /\ s.pstate /\ ~t.payload => t.pstate
         /\ s.payload => t.payload
         /\ t.pstate => s.pstate /\ (s.core => t.core)
<1> DEFINE ad == s.ad \/ (s.core /\ s.nEchos >= N - 2 * F)
           pl == s.payload \/ (s.pstate /\ s.nChunks >= N - 2 * F)
           ps == s.pstate /\ ~pl
           sr == s.sentReady \/ (s.core /\ ReadyDue(s))
           se == s.sentEcho \/ (s.core /\ s.ourChunk)
           ua == IF CanAnswer(s) THEN {} ELSE s.unanswered
           co == s.core /\ ~(~ps /\ ad /\ PayloadDispersed(s))
<1>1. t = [s EXCEPT !.sentReady = sr, !.sentEcho = se, !.unanswered = ua,
                    !.ad = ad, !.payload = pl, !.pstate = ps, !.core = co]
  BY Zenon DEF Conclude, CoreDone
<1>2. ad \in BOOLEAN /\ pl \in BOOLEAN /\ ps \in BOOLEAN /\ sr \in BOOLEAN
      /\ se \in BOOLEAN /\ co \in BOOLEAN
  BY Zenon DEF VIDState
<1>3. ua \in SUBSET Node
  BY DEF VIDState
<1>4. /\ t \in VIDState
      /\ t.echos = s.echos /\ t.nEchos = s.nEchos
      /\ t.chunks = s.chunks /\ t.nChunks = s.nChunks
      /\ t.readys = s.readys /\ t.ourChunk = s.ourChunk
      /\ t.canRelease = s.canRelease
  <2> HIDE DEF ad, pl, ps, sr, se, ua, co
  <2> QED BY <1>1, <1>2, <1>3 DEF VIDState
<1>5. t.sentReady = sr /\ t.sentEcho = se /\ t.core = co /\ t.pstate = ps /\ t.payload = pl
  <2> HIDE DEF ad, pl, ps, sr, se, ua, co
  <2> QED BY <1>1, <1>2, Zenon DEF VIDState
<1>6. s.core /\ ~co => Cardinality(s.readys) >= 2 * F + 1
  BY Zenon DEF PayloadDispersed
<1>7. /\ t.core => s.core
      /\ s.pstate /\ ~t.payload => t.pstate
      /\ s.payload => t.payload
      /\ t.pstate => s.pstate /\ (s.core => t.core)
      /\ s.sentReady => t.sentReady
      /\ t.sentReady => s.sentReady \/ s.nEchos >= N - F
                          \/ Cardinality(s.readys) >= F + 1
      /\ t.sentEcho => s.sentEcho \/ s.ourChunk
  BY <1>5, Zenon DEF ReadyDue
<1> QED
  BY <1>4, <1>5, <1>6, <1>7, Zenon

-----------------------------------------------------------------------------
(***************************************************************************)
(* What is held, released or voted stays so, so whatever was backed by it  *)
(* still is.                                                               *)
(***************************************************************************)
Grows(n, t) ==
  /\ vid[n].ourChunk => t.ourChunk
  /\ vid[n].canRelease => t.canRelease
  /\ vid[n].sentReady => t.sentReady

LEMMA StillBacked ==
  ASSUME IInv, NEW n \in Correct, NEW t, Backed(n, t), Grows(n, t),
         vid' = [vid EXCEPT ![n] = t], started => started', initID' = initID
  PROVE  /\ vid'[n] = t
         /\ \A k \in Correct : k # n => vid'[k] = vid[k]
         /\ vid' \in [Correct -> VIDState]
         /\ \A k \in Correct : Backed(k, vid[k])'
         /\ \A m \in msgs : Sound(m)'
         /\ Safe => Safe'
<1>1. vid \in [Correct -> VIDState] /\ t \in VIDState
  BY DEF IInv, TypeOK, Backed
<1>2. vid'[n] = t /\ (\A k \in Correct : k # n => vid'[k] = vid[k])
      /\ vid' \in [Correct -> VIDState]
  BY <1>1
<1>3. \A k \in Correct : /\ Owns(k) => Owns(k)'
                         /\ Gives(k) => Gives(k)'
                         /\ Supports(k) => Supports(k)'
  BY <1>2 DEF Owns, Gives, Supports, Grows
<1>4. ASSUME NEW k \in Correct PROVE Backed(k, vid[k])'
  <2>1. CASE k # n
    <3>1. Backed(k, vid[k]) /\ vid'[k] = vid[k]
      BY <1>2, <2>1 DEF IInv
    <3> QED
      BY <1>3, <3>1 DEF Backed
  <2>2. CASE k = n
    <3>1. Backed(n, vid[n]) /\ vid'[n] = t
      BY <1>2 DEF IInv
    <3> QED
      BY <1>3, <2>2, <3>1 DEF Backed
  <2> QED
    BY <2>1, <2>2
<1>5. ASSUME NEW m \in msgs PROVE Sound(m)'
  <2>1. m.from \in Correct /\ Sound(m)
    BY DEF IInv, TypeOK
  <2> QED
    BY <1>3, <2>1 DEF Sound
<1>6. Safe => Safe'
  <2>1. Holders \in SUBSET Holders' /\ Holders' \in SUBSET Node
    BY <1>3 DEF Holders, Owns, Correct
  <2>2. Cardinality(Holders) <= Cardinality(Holders')
    BY <2>1, SubsetCardinality
  <2>3. Cardinality(Holders) \in Nat /\ Cardinality(Holders') \in Nat
    BY <2>1, SubsetFinite
  <2> QED
    BY <2>2, <2>3, NIsNat, FaultAssumption DEF Safe
<1> QED
  BY <1>2, <1>4, <1>5, <1>6

(***************************************************************************)
(* A vote is safe: N-F Echoes come from N-2F correct nodes that hold their *)
(* chunk, and of F+1 Readys one comes from a correct node, which voted     *)
(* safely or is the initiator.                                             *)
(***************************************************************************)
LEMMA EchosAreSafe ==
  ASSUME NEW n \in Correct, NEW s, Backed(n, s), s.nEchos >= N - F,
         NEW H \in SUBSET Node, s.ourChunk => n \in H,
         \A k \in Correct : Owns(k) => k \in H
  PROVE  Cardinality(H) >= N - 2 * F
<1>1. s.echos \in SUBSET Node /\ Cardinality(s.echos) >= N - F
  BY DEF Backed, VIDState
<1>2. Cardinality(s.echos \ Faulty) >= N - 2 * F
  BY <1>1, MostAreCorrect, DispersalAssumption
<1>3. s.echos \ Faulty \in SUBSET H
  BY <1>1 DEF Backed, Correct
<1>4. Cardinality(s.echos \ Faulty) <= Cardinality(H)
  BY <1>3, SubsetCardinality
<1>5. Cardinality(s.echos \ Faulty) \in Nat /\ Cardinality(H) \in Nat
  BY <1>3, SubsetFinite
<1> QED
  BY <1>2, <1>4, <1>5, NIsNat, FaultAssumption

LEMMA ReadysAreSafe ==
  ASSUME NEW n \in Correct, NEW s, Backed(n, s), Cardinality(s.readys) >= F + 1,
         \A k \in Correct : Staged(k)
  PROVE  Safe
<1>1. s.readys \in SUBSET Node
  BY DEF Backed, VIDState
<1>2. PICK k \in s.readys : k \notin Faulty
  BY <1>1, OneIsCorrect, DispersalAssumption
<1>3. k \in Correct /\ Supports(k)
  BY <1>1, <1>2 DEF Backed, Correct
<1> QED
  BY <1>3 DEF Supports, Staged, Safe

-----------------------------------------------------------------------------
LEMMA InitHolds == Init => IInv
<1> SUFFICES ASSUME Init PROVE IInv
  OBVIOUS
<1>1. ASSUME NEW n \in Correct
      PROVE  NewVID(n) \in VIDState /\ Backed(n, NewVID(n)) /\ Staged(n)
  <2>1. NewVID(n) \in VIDState
    BY DEF NewVID, VIDState
  <2>2. Backed(n, NewVID(n))
    BY <2>1, FS_EmptySet DEF Backed, NewVID
  <2>3. vid[n] = NewVID(n)
    BY DEF Init
  <2>4. Staged(n)
    BY <2>3 DEF Staged, NewVID
  <2> QED
    BY <2>1, <2>2, <2>4
<1> QED
  BY <1>1 DEF Init, IInv, TypeOK

\* The other nodes' stages do not depend on the step.
LEMMA StillStaged ==
  ASSUME IInv, NEW n \in Correct, Safe => Safe', started => started',
         \A k \in Correct : k # n => vid'[k] = vid[k], Staged(n)'
  PROVE  \A k \in Correct : Staged(k)'
<1> SUFFICES ASSUME NEW k \in Correct, k # n PROVE Staged(k)'
  OBVIOUS
<1>1. Staged(k) /\ vid'[k] = vid[k]
  BY DEF IInv
<1> QED
  BY <1>1 DEF Staged

LEMMA StartKeeps ==
  ASSUME IInv, NEW n \in Correct, Start(n)
  PROVE  IInv'
<1> USE DEF Start
<1>1. TypeOK'
  BY MessageTypes DEF IInv, TypeOK, Correct, Disperse
<1>2. \A k \in Correct : Backed(k, vid[k])' /\ Staged(k)'
  <2> SUFFICES ASSUME NEW k \in Correct PROVE Backed(k, vid[k])' /\ Staged(k)'
    OBVIOUS
  <2>1. Backed(k, vid[k]) /\ Staged(k)
    BY DEF IInv
  <2>2. \A p \in Correct : /\ Owns(p) => Owns(p)'
                           /\ Gives(p) => Gives(p)'
                           /\ Supports(p) => Supports(p)'
    BY DEF Owns, Gives, Supports
  <2>3. Safe => Safe'
    BY DEF Safe, Holders
  <2> QED
    BY <2>1, <2>2, <2>3 DEF Backed, Staged
<1>3. \A m \in msgs' : Sound(m)'
  <2>1. \A m \in msgs : Sound(m)'
    BY DEF IInv, Sound, Owns, Gives, Supports
  <2>2. Sound(Disperse(n))'
    BY DEF Sound, Disperse, Supports
  <2> QED
    BY <2>1, <2>2
<1> QED
  BY <1>1, <1>2, <1>3 DEF IInv

\* A request is addressed to nodes, and claims nothing.
LEMMA RequestsSound ==
  ASSUME NEW n \in Correct, NEW s, NEW to \in SUBSET Node
  PROVE  /\ Requests(n, s, to) \subseteq {m \in VIDMessage : m.from \in Correct}
         /\ \A m \in Requests(n, s, to) : Sound(m)'
BY MessageTypes DEF Requests, Request, Sound, Correct

LEMMA AnswersSound ==
  ASSUME NEW n \in Correct, NEW s \in VIDState, CanAnswer(s) => Gives(n)'
  PROVE  /\ Answers(n, s) \subseteq {m \in VIDMessage : m.from \in Correct}
         /\ \A m \in Answers(n, s) : Sound(m)'
BY MessageTypes DEF Answers, Respond, Sound, Correct, VIDState

LEMMA RequestPayloadKeeps ==
  ASSUME IInv, NEW n \in Correct, RequestPayload(n)
  PROVE  IInv'
<1> DEFINE s == vid[n]
           t == [s EXCEPT !.scheduled = TRUE]
<1>1. s \in VIDState /\ Backed(n, s) /\ Staged(n)
  BY DEF IInv, TypeOK
<1>2. /\ vid' = [vid EXCEPT ![n] = t]
      /\ msgs' = msgs \cup Requests(n, t, t.echos)
      /\ started' = started /\ initID' = initID
  BY DEF RequestPayload
<1>3. /\ t \in VIDState
      /\ t.echos = s.echos /\ t.nEchos = s.nEchos
      /\ t.chunks = s.chunks /\ t.nChunks = s.nChunks
      /\ t.readys = s.readys /\ t.ourChunk = s.ourChunk
      /\ t.canRelease = s.canRelease /\ t.sentReady = s.sentReady
      /\ t.core = s.core /\ t.pstate = s.pstate /\ t.payload = s.payload
  BY <1>1 DEF VIDState
<1> HIDE DEF t
<1>4. Backed(n, t) /\ Grows(n, t)
  BY <1>1, <1>3 DEF Backed, Grows
<1>5. /\ vid'[n] = t
      /\ \A k \in Correct : k # n => vid'[k] = vid[k]
      /\ vid' \in [Correct -> VIDState]
      /\ \A k \in Correct : Backed(k, vid[k])'
      /\ \A m \in msgs : Sound(m)'
      /\ Safe => Safe'
  BY <1>2, <1>4, StillBacked
<1>6. Staged(n)'
  BY <1>1, <1>2, <1>3, <1>5 DEF Staged
<1>7. \A k \in Correct : Staged(k)'
  BY <1>2, <1>5, <1>6, StillStaged
<1>8. t.echos \in SUBSET Node
  BY <1>3 DEF VIDState
<1>9. TypeOK' /\ \A m \in msgs' : Sound(m)'
  BY <1>2, <1>5, <1>8, RequestsSound DEF IInv, TypeOK
<1> QED
  BY <1>5, <1>7, <1>9 DEF IInv

LEMMA ReleaseChunkKeeps ==
  ASSUME IInv, NEW n \in Correct, ReleaseChunk(n)
  PROVE  IInv'
<1> DEFINE s == vid[n]
           r == [s EXCEPT !.canRelease = TRUE]
           ua == IF CanAnswer(r) THEN {} ELSE r.unanswered
           t == [r EXCEPT !.unanswered = ua]
<1>1. s \in VIDState /\ Backed(n, s) /\ Staged(n)
  BY DEF IInv, TypeOK
<1>2. /\ vid' = [vid EXCEPT ![n] = t]
      /\ msgs' = msgs \cup Answers(n, r)
      /\ started' = started /\ initID' = initID
  BY DEF ReleaseChunk
<1>3. r \in VIDState /\ r.canRelease = TRUE /\ r.ourChunk = s.ourChunk
  BY <1>1 DEF VIDState
<1>4. ua \in SUBSET Node
  BY <1>3 DEF VIDState
<1>5. t = [s EXCEPT !.canRelease = TRUE, !.unanswered = ua]
  BY <1>1 DEF VIDState
<1>6. /\ t \in VIDState
      /\ t.echos = s.echos /\ t.nEchos = s.nEchos
      /\ t.chunks = s.chunks /\ t.nChunks = s.nChunks
      /\ t.readys = s.readys /\ t.ourChunk = s.ourChunk
      /\ t.canRelease = TRUE /\ t.sentReady = s.sentReady
      /\ t.core = s.core /\ t.pstate = s.pstate /\ t.payload = s.payload
  <2> HIDE DEF ua, t
  <2> QED BY <1>1, <1>4, <1>5 DEF VIDState
<1> HIDE DEF t, ua
<1>7. Backed(n, t) /\ Grows(n, t)
  BY <1>1, <1>6 DEF Backed, Grows
<1>8. /\ vid'[n] = t
      /\ \A k \in Correct : k # n => vid'[k] = vid[k]
      /\ vid' \in [Correct -> VIDState]
      /\ \A k \in Correct : Backed(k, vid[k])'
      /\ \A m \in msgs : Sound(m)'
      /\ Safe => Safe'
  BY <1>2, <1>7, StillBacked
<1>9. Staged(n)'
  BY <1>1, <1>2, <1>6, <1>8 DEF Staged
<1>10. \A k \in Correct : Staged(k)'
  BY <1>2, <1>8, <1>9, StillStaged
<1>11. CanAnswer(r) => Gives(n)'
  BY <1>3, <1>6, <1>8 DEF CanAnswer, Gives
<1>12. TypeOK' /\ \A m \in msgs' : Sound(m)'
  BY <1>2, <1>3, <1>8, <1>11, AnswersSound DEF IInv, TypeOK
<1> QED
  BY <1>8, <1>10, <1>12 DEF IInv

LEMMA VotesSound ==
  ASSUME NEW n \in Correct, NEW s \in VIDState, NEW t \in VIDState, vid'[n] = t,
         t.sentEcho => s.sentEcho \/ t.ourChunk
  PROVE  /\ Votes(n, s, t) \subseteq {m \in VIDMessage : m.from \in Correct}
         /\ \A m \in Votes(n, s, t) : Sound(m)'
<1>1. Votes(n, s, t) \subseteq {Ready(n), Echo(n)}
  BY DEF Votes
<1>2. ASSUME Ready(n) \in Votes(n, s, t) PROVE Sound(Ready(n))'
  <2>1. t.sentReady
    BY <1>2 DEF Votes, Ready, Echo
  <2> QED
    BY <2>1 DEF Sound, Ready, Supports
<1>3. ASSUME Echo(n) \in Votes(n, s, t) PROVE Sound(Echo(n))'
  <2>1. t.sentEcho /\ ~s.sentEcho
    BY <1>3 DEF Votes, Ready, Echo
  <2> QED
    BY <2>1 DEF Sound, Echo, Owns
<1>4. Ready(n).from = n /\ Echo(n).from = n /\ n \in Node
  BY DEF Ready, Echo, Correct
<1> QED
  BY <1>1, <1>2, <1>3, <1>4, MessageTypes

LEMMA RecvKeeps ==
  ASSUME IInv, NEW n \in Correct, NEW m \in msgs \cup FaultyMsg, Recv(n, m)
  PROVE  IInv'
<1> DEFINE s == vid[n]
           u == Handle(s, n, m)
           t == Conclude(u)
           to == IF "echo" \in m.is THEN {m.from} ELSE {}
<1>1. s \in VIDState /\ Backed(n, s) /\ Staged(n)
  BY DEF IInv, TypeOK
<1>2. /\ vid' = [vid EXCEPT ![n] = t]
      /\ msgs' = msgs \cup Votes(n, u, t) \cup Answers(n, u) \cup Requests(n, u, to)
      /\ started' = started /\ initID' = initID
  BY DEF Recv
<1>3. Backed(n, u) /\ SameFlags(s, u) /\ u \in VIDState
  BY HandleBacked DEF Backed
<1> HIDE DEF u
<1>4. /\ t \in VIDState
      /\ t.echos = u.echos /\ t.nEchos = u.nEchos
      /\ t.chunks = u.chunks /\ t.nChunks = u.nChunks
      /\ t.readys = u.readys /\ t.ourChunk = u.ourChunk
      /\ t.canRelease = u.canRelease
      /\ u.sentReady => t.sentReady
      /\ t.sentReady => u.sentReady \/ u.nEchos >= N - F
                          \/ Cardinality(u.readys) >= F + 1
      /\ t.sentEcho => u.sentEcho \/ u.ourChunk
      /\ u.core /\ ~t.core => Cardinality(u.readys) >= 2 * F + 1
      /\ t.core => u.core
      /\ u.pstate /\ ~t.payload => t.pstate
      /\ u.payload => t.payload
      /\ t.pstate => u.pstate /\ (u.core => t.core)
  BY <1>3, ConcludeFacts
<1> HIDE DEF t
<1>5. Backed(n, t) /\ Grows(n, t)
  BY <1>3, <1>4 DEF Backed, Grows, SameFlags
<1>6. /\ vid'[n] = t
      /\ \A k \in Correct : k # n => vid'[k] = vid[k]
      /\ vid' \in [Correct -> VIDState]
      /\ \A k \in Correct : Backed(k, vid[k])'
      /\ \A p \in msgs : Sound(p)'
      /\ Safe => Safe'
  BY <1>2, <1>5, StillBacked
<1>7. t.sentReady => Safe'
  <2>1. CASE u.sentReady
    BY <1>1, <1>2, <1>3, <1>6, <2>1 DEF SameFlags, Staged
  <2>2. CASE u.nEchos >= N - F
    <3>1. Holders' \in SUBSET Node /\ (u.ourChunk => n \in Holders')
      BY <1>4, <1>6 DEF Holders, Correct
    <3>2. \A k \in Correct : Owns(k) => k \in Holders'
      BY <1>5, <1>6 DEF Holders, Owns, Grows
    <3>3. Cardinality(Holders') >= N - 2 * F
      BY <1>3, <2>2, <3>1, <3>2, EchosAreSafe
    <3> QED
      BY <3>3 DEF Safe
  <2>3. CASE Cardinality(u.readys) >= F + 1
    <3>1. \A k \in Correct : Staged(k)
      BY DEF IInv
    <3> QED
      BY <1>2, <1>3, <1>6, <2>3, <3>1, ReadysAreSafe
  <2> QED
    BY <1>4, <2>1, <2>2, <2>3
<1>8. ~t.core => Cardinality(t.readys) >= 2 * F + 1
  <2>1. CASE u.core
    BY <1>4, <2>1
  <2>2. CASE ~u.core
    <3>1. Cardinality(s.readys) >= 2 * F + 1
      BY <1>1, <1>3, <2>2 DEF Staged, SameFlags
    <3>2. s.readys \in SUBSET u.readys /\ u.readys \in SUBSET Node
      BY <1>3 DEF SameFlags, VIDState
    <3>3. Cardinality(s.readys) <= Cardinality(u.readys)
      BY <3>2, SubsetCardinality
    <3>4. Cardinality(s.readys) \in Nat /\ Cardinality(u.readys) \in Nat
      BY <3>2, SubsetFinite
    <3> QED
      BY <1>4, <3>1, <3>3, <3>4, FaultAssumption
  <2> QED
    BY <2>1, <2>2
<1>9. (~t.payload => t.pstate) /\ (t.pstate => t.core)
  BY <1>1, <1>3, <1>4 DEF Staged, SameFlags
<1>10. Staged(n)'
  BY <1>6, <1>7, <1>8, <1>9 DEF Staged
<1>11. \A k \in Correct : Staged(k)'
  BY <1>2, <1>6, <1>10, StillStaged
<1>12. CanAnswer(u) => Gives(n)'
  BY <1>4, <1>6 DEF CanAnswer, Gives
<1>13. to \in SUBSET Node
  BY ReceivedSound DEF VIDMessage
<1> HIDE DEF to
<1>14. TypeOK' /\ \A p \in msgs' : Sound(p)'
  <2>1. /\ Votes(n, u, t) \subseteq {p \in VIDMessage : p.from \in Correct}
        /\ \A p \in Votes(n, u, t) : Sound(p)'
    BY <1>3, <1>4, <1>6, VotesSound
  <2>2. /\ Answers(n, u) \subseteq {p \in VIDMessage : p.from \in Correct}
        /\ \A p \in Answers(n, u) : Sound(p)'
    BY <1>3, <1>12, AnswersSound
  <2>3. /\ Requests(n, u, to) \subseteq {p \in VIDMessage : p.from \in Correct}
        /\ \A p \in Requests(n, u, to) : Sound(p)'
    BY <1>13, RequestsSound
  <2> QED
    BY <1>2, <1>6, <2>1, <2>2, <2>3 DEF IInv, TypeOK
<1> QED
  BY <1>6, <1>11, <1>14 DEF IInv

LEMMA NextKeeps == IInv /\ [Next]_vars => IInv'
<1> SUFFICES ASSUME IInv, [Next]_vars PROVE IInv'
  OBVIOUS
<1>1. CASE UNCHANGED vars
  BY <1>1 DEF vars, IInv, TypeOK, Backed, Staged, Sound, Owns, Gives, Supports, Safe, Holders
<1>2. ASSUME NEW n \in Correct, Start(n) PROVE IInv'
  BY <1>2, StartKeeps
<1>3. ASSUME NEW n \in Correct, RequestPayload(n) PROVE IInv'
  BY <1>3, RequestPayloadKeeps
<1>4. ASSUME NEW n \in Correct, ReleaseChunk(n) PROVE IInv'
  BY <1>4, ReleaseChunkKeeps
<1>5. ASSUME NEW n \in Correct, NEW m \in msgs \cup FaultyMsg, Recv(n, m) PROVE IInv'
  BY <1>5, RecvKeeps
<1> QED
  BY <1>1, <1>2, <1>3, <1>4, <1>5 DEF Next

THEOREM Invariance == Spec => []IInv
BY InitHolds, NextKeeps, PTL DEF Spec

-----------------------------------------------------------------------------
(***************************************************************************)
(* The state of every VID and every message keep their types.              *)
(***************************************************************************)
THEOREM TypeCorrect == Spec => []TypeOK
BY Invariance, PTL DEF IInv

(***************************************************************************)
(* No chunk is counted twice, so decoding never finds too few.             *)
(***************************************************************************)
THEOREM CountersExact == Spec => []CountersMatch
<1>1. IInv => CountersMatch
  BY DEF IInv, Backed, CountersMatch
<1> QED
  BY <1>1, Invariance, PTL

(***************************************************************************)
(* A part of the state is only dropped when nothing will read it.          *)
(***************************************************************************)
THEOREM NoNilRead == Spec => []PartsThere
<1>1. IInv => PartsThere
  <2> SUFFICES ASSUME IInv, NEW n \in Correct, n = initID, ~started, ~vid[n].core
               PROVE  FALSE
    BY DEF IInv, Staged, PartsThere
  <2>1. Backed(n, vid[n]) /\ Staged(n)
    BY DEF IInv
  <2>2. vid[n].readys \in SUBSET Node /\ Cardinality(vid[n].readys) >= 2 * F + 1
    BY <2>1 DEF Staged, Backed, VIDState
  <2>3. Cardinality(vid[n].readys) >= F + 1
    BY <2>2, SubsetFinite, FaultAssumption
  <2>4. Cardinality(Holders) >= N - 2 * F
    BY <2>1, <2>3, ReadysAreSafe DEF IInv, Safe
  <2>5. PICK k \in Holders : TRUE
    <3>1. N - 2 * F > 0 /\ Cardinality({}) = 0
      BY FS_EmptySet, NIsNat, FaultAssumption
    <3>2. Holders # {}
      BY <2>4, <3>1, NIsNat, FaultAssumption
    <3> QED
      BY <3>2
  <2>6. Backed(k, vid[k]) /\ vid[k].ourChunk
    BY <2>5 DEF IInv, Holders
  <2> QED
    BY <2>6 DEF Backed
<1> QED
  BY <1>1, Invariance, PTL

(***************************************************************************)
(* A dispersal that one correct node takes as complete is retrievable from *)
(* the correct nodes, or its initiator is correct and has sent the chunks. *)
(***************************************************************************)
THEOREM DispersedIsRetrievable == Spec => []Retrievable
<1>1. IInv => Retrievable
  <2> SUFFICES ASSUME IInv, NEW n \in Correct, PayloadDispersed(vid[n])
               PROVE  Safe
    BY DEF Retrievable, Safe
  <2>1. Backed(n, vid[n]) /\ Staged(n)
    BY DEF IInv
  <2>2. vid[n].readys \in SUBSET Node /\ Cardinality(vid[n].readys) >= 2 * F + 1
    BY <2>1 DEF Staged, Backed, VIDState, PayloadDispersed
  <2>3. Cardinality(vid[n].readys) >= F + 1
    BY <2>2, SubsetFinite, FaultAssumption
  <2> QED
    BY <2>1, <2>3, ReadysAreSafe DEF IInv
<1> QED
  BY <1>1, Invariance, PTL

(***************************************************************************)
(* A chunk of a correct node found elsewhere was released.                 *)
(***************************************************************************)
THEOREM OnlyReleasedChunksLeave == Spec => []ChunksReleased
<1>1. IInv => ChunksReleased
  BY DEF IInv, Backed, Gives, ChunksReleased
<1> QED
  BY <1>1, Invariance, PTL

-----------------------------------------------------------------------------
(***************************************************************************)
(* VIDStore.                                                               *)
(***************************************************************************)
\* Where the VID is.
Stored == IF v # Nil THEN v ELSE image

\* What a VID knows of its chunk and of the requests for it.
KeptSound(w, chunk, to, gone) ==
  /\ ~Answerable(w) => w.room = "full"
  /\ w.stored <=> chunk # NoChunk
  /\ to # {} => w.stored
  /\ gone \subseteq {chunk}
  /\ chunk \in Chunk \cup {NoChunk}
  /\ to \subseteq Node
  /\ gone \subseteq Chunk

Residence ==
  /\ vRefCount = Len(calls)
  /\ v = Nil <=> vStorage = "onDisk"
  /\ v = Nil => calls = <<>>
  /\ vStorage \in {"onDisk", "pagedInClean"} => image # Nil
  /\ vStorage # "inMemory" /\ calls = <<>> => v = Nil

\* A VID that is not marked is still as it came from the disk.
Clean ==
  vStorage = "pagedInClean" =>
    /\ v = Decoded(image)
    /\ \A k \in 1..Len(calls) : calls[k] = "read"

StoreInv == StoreTypeOK /\ Residence /\ Clean /\ KeptSound(Stored, ourChunk, promised, left)

LEMMA RecvType ==
  ASSUME NEW w \in Contents, NEW m \in Message
  PROVE  RecvVID(w, m) \in Contents
<1>1. HandleMessage(w, m) \in Contents
  BY SelfAssumption DEF Contents, Message, HandleMessage, Record, AddChunk
<1>2. \A x \in Contents : Answer(x) \in Contents
  BY DEF Contents, Room, Answer, Answered
<1>3. \A x \in Contents : Decode(x) \in Contents
  BY DEF Contents, Decode
<1> QED
  BY <1>1, <1>2, <1>3 DEF RecvVID

LEMMA RecvEncoded ==
  ASSUME NEW w \in Contents, NEW m \in Message
  PROVE  Encoded(RecvVID(w, m)) = RecvVID(Encoded(w), m)
<1> DEFINE h == HandleMessage(w, m)
           a == Answer(h)
<1>1. h \in Contents
  BY SelfAssumption DEF Contents, Message, HandleMessage, Record, AddChunk
<1>2. Encoded(h) = HandleMessage(Encoded(w), m)
  <2> USE DEF Contents, Room, HandleMessage, Encoded
  <2>1. CASE m.is = "request"
    BY <2>1 DEF Record, Answerable
  <2>2. CASE m.is = "respond"
    BY <2>2 DEF AddChunk
  <2>3. CASE m.is = "ready"
    BY <2>3
  <2>4. CASE m.is = "disperse"
    BY <2>4 DEF AddChunk, FirstDisperse, CoreThere
  <2> QED
    BY <2>1, <2>2, <2>3, <2>4 DEF Message
<1>3. a \in Contents /\ Encoded(a) = Answer(Encoded(h))
  <2> HIDE DEF h
  <2> QED
    BY <1>1 DEF Contents, Room, Answer, Answered, Answerable, Encoded
<1>4. Encoded(Decode(a)) = Decode(Encoded(a))
  <2> HIDE DEF a
  <2> QED
    BY <1>3 DEF Contents, Room, Decode, Encoded
<1> QED
  BY <1>2, <1>3, <1>4 DEF RecvVID

\* The operators of the abstract VID are those of the VID itself.
LEMMA SameRecv ==
  ASSUME NEW w, NEW m
  PROVE  InMemory!RecvVID(w, m) = RecvVID(w, m)
<1>1. InMemory!HandleMessage(w, m) = HandleMessage(w, m)
  BY DEF InMemory!HandleMessage, HandleMessage, InMemory!Answerable, Answerable, InMemory!Record, Record,
         InMemory!AddChunk, AddChunk, InMemory!FirstDisperse, FirstDisperse,
         InMemory!CoreThere, CoreThere
<1>2. \A h : InMemory!Answer(h) = Answer(h)
  BY DEF InMemory!Answer, Answer, InMemory!Answered, Answered, InMemory!Answerable, Answerable
<1>3. \A h : InMemory!Decode(h) = Decode(h)
  BY Zenon DEF InMemory!Decode, Decode, InMemory!N, N, InMemory!Cardinality, Cardinality
<1> QED
  BY <1>1, <1>2, <1>3 DEF InMemory!RecvVID, RecvVID

LEMMA SameReceives ==
  ASSUME NEW w, NEW x, NEW m, Receives(w, x, m)
  PROVE  InMemory!Receives(w, x, m)
<1>1. InMemory!FirstDisperse(w, m) = FirstDisperse(w, m)
  BY DEF InMemory!FirstDisperse, FirstDisperse, InMemory!CoreThere, CoreThere
<1>2. InMemory!Asking(w, m) = Asking(w, m)
  BY DEF InMemory!Asking, Asking, InMemory!Answerable, Answerable
<1>3. InMemory!Owed(InMemory!HandleMessage(w, m)) = Owed(HandleMessage(w, m))
  BY DEF InMemory!Owed, Owed, InMemory!Answerable, Answerable, InMemory!HandleMessage, HandleMessage,
         InMemory!Record, Record, InMemory!AddChunk, AddChunk, InMemory!FirstDisperse, FirstDisperse,
         InMemory!CoreThere, CoreThere
<1> QED
  BY <1>1, <1>2, <1>3, SameRecv DEF InMemory!Receives, Receives

\* What a call does to the VID, it does to the VID that is always in memory.
Refined(w, x) ==
  /\ x \in Contents
  /\ KeptSound(x, ourChunk', promised', left')
  /\ \/ \E m \in Message : InMemory!Receives(Encoded(w), Encoded(x), m)
     \/ InMemory!Releases(Encoded(w), Encoded(x))
     \/ InMemory!Strips(Encoded(w), Encoded(x))

\* Chunks, promises and answers of a Recv do not depend on nil or empty.
LEMMA ReceivesEncoded ==
  ASSUME NEW w \in Contents, NEW m \in Message, Receives(w, RecvVID(w, m), m)
  PROVE  InMemory!Receives(Encoded(w), Encoded(RecvVID(w, m)), m)
<1>1. FirstDisperse(Encoded(w), m) = FirstDisperse(w, m)
  BY DEF FirstDisperse, CoreThere, Encoded, Contents
<1>2. Asking(Encoded(w), m) = Asking(w, m)
  BY DEF Asking, Answerable, Encoded, Contents
<1>3. Owed(HandleMessage(Encoded(w), m)) = Owed(HandleMessage(w, m))
  <2> USE DEF Owed, Answerable, HandleMessage, Contents, Encoded
  <2>1. CASE m.is = "request"
    BY <2>1 DEF Record
  <2>2. CASE m.is = "respond"
    BY <2>2 DEF AddChunk
  <2>3. CASE m.is = "ready"
    BY <2>3
  <2>4. CASE m.is = "disperse"
    BY <2>4 DEF AddChunk, FirstDisperse, CoreThere
  <2> QED
    BY <2>1, <2>2, <2>3, <2>4 DEF Message
<1>4. Receives(Encoded(w), Encoded(RecvVID(w, m)), m)
  BY <1>1, <1>2, <1>3, RecvEncoded DEF Receives
<1> QED
  BY <1>4, SameReceives

LEMMA ReceivesRefined ==
  ASSUME NEW w \in Contents, NEW x, NEW m \in Message, Receives(w, x, m),
         KeptSound(w, ourChunk, promised, left)
  PROVE  Refined(w, x)
<1> DEFINE h == HandleMessage(w, m)
           a == Answer(h)
<1>1. h \in Contents /\ a \in Contents
  <2>1. h \in Contents
    BY SelfAssumption DEF Contents, Message, HandleMessage, Record, AddChunk
  <2> HIDE DEF h
  <2> QED
    BY <2>1 DEF Contents, Room, Answer, Answered
<1>2. /\ h.stored <=> w.stored \/ FirstDisperse(w, m)
      /\ h.canRelease = w.canRelease
      /\ h.room = w.room
  BY DEF Message, HandleMessage, Record, AddChunk, FirstDisperse, Contents
<1>3. /\ a.stored = h.stored /\ a.canRelease = h.canRelease
      /\ ~Answerable(a) => a.room = h.room
  <2> HIDE DEF h
  <2> QED
    BY <1>1 DEF Answer, Answered, Answerable, Contents
<1>4. /\ x \in Contents
      /\ x.stored = a.stored /\ x.canRelease = a.canRelease /\ x.room = a.room
  <2>1. x = Decode(a)
    BY DEF Receives, RecvVID
  <2> HIDE DEF a
  <2> QED
    BY <2>1, <1>1 DEF Decode, Contents
<1>5. /\ x.stored <=> w.stored \/ FirstDisperse(w, m)
      /\ ~Answerable(x) => x.room = "full"
  <2>1. ~Answerable(x) => ~Answerable(a) /\ ~Answerable(w)
    BY <1>2, <1>3, <1>4 DEF Answerable
  <2> QED
    BY <2>1, <1>2, <1>3, <1>4 DEF KeptSound
<1>6. /\ promised' \subseteq Node
      /\ promised' # {} => x.stored
  <2>1. Asking(w, m) \subseteq Node /\ (Asking(w, m) # {} => w.stored)
    BY DEF Asking, Message, Answerable
  <2>2. Owed(h) \subseteq Node /\ (Owed(h) # {} => h.stored)
    BY <1>1 DEF Owed, Contents, Answerable
  <2>3. promised' = promised \cup Asking(w, m) \cup Owed(h)
    BY DEF Receives
  <2> QED
    BY <2>1, <2>2, <2>3, <1>2, <1>5 DEF KeptSound
<1>7. /\ ourChunk' \in Chunk \cup {NoChunk}
      /\ x.stored <=> ourChunk' # NoChunk
      /\ left' = left /\ left \subseteq {ourChunk'}
  <2>1. FirstDisperse(w, m) => m.chunk \in Chunk /\ ~w.stored
    BY DEF FirstDisperse, Message
  <2> QED
    BY <2>1, <1>5, ChunkAssumption DEF Receives, KeptSound
<1>8. KeptSound(x, ourChunk', promised', left')
  BY <1>5, <1>6, <1>7 DEF KeptSound
<1>9. x = RecvVID(w, m)
  BY DEF Receives
<1> QED
  BY <1>4, <1>8, <1>9, ReceivesEncoded DEF Refined

LEMMA ReleasesRefined ==
  ASSUME NEW w \in Contents, NEW x, Releases(w, x),
         KeptSound(w, ourChunk, promised, left)
  PROVE  Refined(w, x)
<1> DEFINE r == [w EXCEPT !.canRelease = TRUE]
<1>1. r \in Contents /\ r.stored = w.stored /\ r.canRelease /\ r.room = w.room
  BY DEF Contents
<1>2. x = Answer(r) /\ promised' = promised \cup Owed(r)
  BY DEF Releases
<1>3. Encoded(r) = [Encoded(w) EXCEPT !.canRelease = TRUE]
  BY DEF Contents, Encoded
<1> HIDE DEF r
<1>4. /\ x \in Contents /\ x.stored = w.stored
      /\ ~Answerable(x) => x.room = w.room
      /\ Encoded(x) = Answer(Encoded(r)) /\ Owed(Encoded(r)) = Owed(r)
  BY <1>1, <1>2 DEF Answer, Answered, Answerable, Contents, Room, Encoded, Owed
<1>5. Owed(r) \subseteq Node /\ (Owed(r) # {} => r.stored)
  BY <1>1 DEF Owed, Contents, Answerable
<1>6. ~Answerable(x) => x.room = "full"
  BY <1>1, <1>2, <1>4 DEF KeptSound, Answerable, Answer, Answered, Contents
<1>7. KeptSound(x, ourChunk', promised', left')
  BY <1>1, <1>2, <1>4, <1>5, <1>6 DEF KeptSound, Releases
<1>8. \A y : InMemory!Answer(y) = Answer(y) /\ InMemory!Owed(y) = Owed(y)
  BY DEF InMemory!Answer, Answer, InMemory!Answered, Answered, InMemory!Answerable, Answerable,
         InMemory!Owed, Owed
<1>9. ~Encoded(w).canRelease
  BY DEF Releases, Encoded, Contents
<1> QED
  BY <1>2, <1>3, <1>4, <1>7, <1>8, <1>9 DEF Refined, InMemory!Releases, Releases

LEMMA StripsRefined ==
  ASSUME NEW w \in Contents, NEW x, Strips(w, x),
         KeptSound(w, ourChunk, promised, left)
  PROVE  Refined(w, x)
<1>1. x = [w EXCEPT !.payload = "stripped"] /\ w.payload = "block" /\ UNCHANGED disk
  BY DEF Strips
<1>2. x \in Contents /\ KeptSound(x, ourChunk', promised', left')
  BY <1>1 DEF Contents, KeptSound, Answerable, disk
<1>3. InMemory!Strips(Encoded(w), Encoded(x))
  BY <1>1 DEF InMemory!Strips, Encoded, Contents, disk, InMemory!disk
<1> QED
  BY <1>2, <1>3 DEF Refined

LEMMA DecodedSame ==
  ASSUME NEW w \in Contents, KeptSound(w, ourChunk, promised, left)
  PROVE  /\ Decoded(w) \in Contents
         /\ KeptSound(Decoded(w), ourChunk, promised, left)
         /\ Encoded(Decoded(w)) = Encoded(w)
BY DEF Decoded, Encoded, KeptSound, Answerable, Contents, Room

LEMMA EncodedSame ==
  ASSUME NEW w \in Contents, KeptSound(w, ourChunk, promised, left)
  PROVE  /\ Encoded(w) \in Contents
         /\ KeptSound(Encoded(w), ourChunk, promised, left)
         /\ Encoded(Encoded(w)) = Encoded(w)
BY DEF Encoded, KeptSound, Answerable, Contents, Room

\* Taking, freeing and stashing a VID leave it as the protocol sees it.
Kept ==
  /\ Encoded(Stored') = Encoded(Stored)
  /\ UNCHANGED disk
  /\ Stored' \in Contents /\ KeptSound(Stored', ourChunk', promised', left')

LEMMA InitInvariant == StoreInit => StoreInv
<1> SUFFICES ASSUME StoreInit PROVE StoreInv
  OBVIOUS
<1>1. v \in Contents
  <2>1. PICK p \in {"none", "block"} : v = NewContents(p)
    BY DEF StoreInit
  <2> QED
    BY <2>1 DEF NewContents, Contents, Room
<1>2. StoreTypeOK
  BY <1>1 DEF StoreInit, Empty, StoreTypeOK, Storage
<1>3. v # Nil
  BY <1>1, NilAssumption
<1>4. Residence /\ Clean
  BY <1>3 DEF StoreInit, Residence, Clean
<1>5. KeptSound(Stored, ourChunk, promised, left)
  BY <1>3 DEF StoreInit, Empty, NewContents, Stored, KeptSound
<1> QED
  BY <1>2, <1>4, <1>5 DEF StoreInv

LEMMA EnterInvariant ==
  ASSUME StoreInv, PageIn, NEW purpose \in Purpose, Enter(purpose),
         vStorage' \in Storage \ {"onDisk"},
         vStorage' = "inMemory" <=> vStorage = "inMemory",
         vStorage' = "pagedInClean" => purpose = "read" /\ vStorage \in {"onDisk", "pagedInClean"}
  PROVE  StoreInv' /\ Kept
<1> USE DEF StoreInv, StoreTypeOK
<1>1. CASE vStorage = "onDisk"
  <2>1. v = Nil /\ image \in Contents /\ calls = <<>> /\ Stored = image
    BY <1>1 DEF Residence, Stored
  <2>2. v' = Decoded(image) /\ v' \in Contents /\ v' # Nil /\ Stored' = v'
    BY <1>1, <2>1, DecodedSame, NilAssumption DEF PageIn, Stored
  <2>3. calls' = <<purpose>> /\ vRefCount' = 1
    BY <2>1 DEF Enter, Residence
  <2>4. Kept
    BY <2>1, <2>2, DecodedSame DEF Kept, Enter, disk
  <2>5. StoreTypeOK' /\ Residence'
    BY <2>1, <2>2, <2>3 DEF Residence, Enter, disk, Purpose
  <2>6. Clean'
    BY <2>1, <2>2, <2>3 DEF Clean, Enter
  <2> QED
    BY <2>4, <2>5, <2>6 DEF Kept
<1>2. CASE vStorage # "onDisk"
  <2>1. v' = v /\ v # Nil /\ v \in Contents /\ Stored = v /\ Stored' = v
    BY <1>2 DEF PageIn, Residence, Stored
  <2>2. Kept
    BY <2>1 DEF Kept, Enter, disk
  <2>3. /\ calls' \in Seq(Purpose) /\ Len(calls') = Len(calls) + 1 /\ calls' # <<>>
        /\ \A k \in 1..Len(calls) : calls'[k] = calls[k]
        /\ calls'[Len(calls) + 1] = purpose
    BY DEF Enter
  <2>4. StoreTypeOK' /\ Residence'
    BY <1>2, <2>1, <2>3 DEF Residence, Enter, disk
  <2>5. Clean'
    BY <1>2, <2>1, <2>3 DEF Clean, Enter
  <2> QED
    BY <2>2, <2>4, <2>5 DEF Kept
<1> QED
  BY <1>1, <1>2

LEMMA FreeInvariant ==
  ASSUME StoreInv, FreeVID
  PROVE  StoreInv' /\ Kept
<1> USE DEF StoreInv, StoreTypeOK
<1>1. v # Nil /\ v \in Contents /\ vStorage # "onDisk" /\ Stored = v
  BY DEF Residence, FreeVID, Stored
<1>2. /\ calls' \in Seq(Purpose) /\ Len(calls') = Len(calls) - 1
      /\ \A k \in 1..Len(calls') : calls'[k] = calls[k]
      /\ Len(calls) > 0
      /\ vRefCount' = Len(calls')
  BY DEF FreeVID, Residence
<1>3. calls' = <<>> <=> vRefCount = 1
  BY <1>2, EmptySeq DEF Residence
<1>4. CASE vRefCount > 1 \/ vStorage = "inMemory"
  <2>1. UNCHANGED <<v, vStorage, image, disk>>
    BY <1>4 DEF FreeVID
  <2>2. Kept
    BY <1>1, <2>1 DEF Kept, Stored, disk
  <2>3. StoreTypeOK' /\ Residence'
    BY <1>1, <1>2, <1>3, <1>4, <2>1 DEF Residence, disk
  <2>4. Clean'
    BY <1>2, <2>1 DEF Clean
  <2> QED
    BY <2>2, <2>3, <2>4 DEF Kept
<1>5. CASE vRefCount = 1 /\ vStorage = "pagedInClean"
  <2>1. v' = Nil /\ vStorage' = "onDisk" /\ image' = image /\ image # Nil /\ UNCHANGED disk
    BY <1>5 DEF FreeVID, Residence
  <2>2. v = Decoded(image) /\ image \in Contents /\ Stored' = image
    BY <1>5, <2>1 DEF Clean, Stored
  <2>3. Encoded(image) = Encoded(v) /\ KeptSound(image, ourChunk, promised, left)
    BY <1>1, <2>2 DEF Encoded, Decoded, Contents, Room, KeptSound, Answerable
  <2>4. Kept
    BY <1>1, <2>1, <2>2, <2>3 DEF Kept, disk
  <2>5. StoreTypeOK' /\ Residence' /\ Clean'
    BY <1>2, <1>3, <1>5, <2>1 DEF Residence, Clean, Storage, disk
  <2> QED
    BY <2>4, <2>5 DEF Kept
<1>6. CASE vRefCount = 1 /\ vStorage = "pagedInDirty"
  <2>1. PageOut /\ UNCHANGED disk
    BY <1>6 DEF FreeVID
  <2>2. Stored' = Encoded(v)
    BY <1>1, <2>1 DEF PageOut, Stored
  <2>3. Kept
    BY <1>1, <2>1, <2>2, EncodedSame DEF Kept, disk
  <2>4. image' \in Contents
    BY <1>1, <2>1, EncodedSame DEF PageOut
  <2>5. StoreTypeOK' /\ Residence' /\ Clean'
    BY <1>1, <1>2, <1>3, <1>6, <2>1, <2>4, NilAssumption DEF PageOut, Residence, Clean, Storage, disk
  <2> QED
    BY <2>3, <2>5 DEF Kept
<1>7. vRefCount >= 1
  BY <1>2 DEF Residence
<1> QED
  BY <1>1, <1>4, <1>5, <1>6, <1>7 DEF Storage

LEMMA StashInvariant ==
  ASSUME StoreInv, StashVID
  PROVE  StoreInv' /\ Kept
<1> USE DEF StoreInv, StoreTypeOK
<1>1. v # Nil /\ v \in Contents /\ Stored = v /\ UNCHANGED <<vRefCount, calls, disk>>
  BY DEF StashVID, Stored
<1>2. Encoded(v) \in Contents /\ Encoded(v) # Nil
  BY <1>1, EncodedSame, NilAssumption
<1>3. Stored' \in {v, Encoded(v)}
  BY <1>1 DEF StashVID, PageOut, Stored
<1>4. Kept
  BY <1>1, <1>3, EncodedSame DEF Kept, disk
<1>5. StoreTypeOK' /\ Residence' /\ Clean'
  BY <1>1, <1>2 DEF StashVID, PageOut, Residence, Clean, Storage, disk
<1> QED
  BY <1>4, <1>5 DEF Kept

LEMMA UpdateInvariant ==
  ASSUME StoreInv, Update
  PROVE  StoreInv' /\ Refined(Stored, Stored')
<1> USE DEF StoreInv, StoreTypeOK
<1>1. v # Nil /\ v \in Contents /\ Stored = v
  BY DEF Update, Residence, Stored
<1>2. vStorage # "pagedInClean"
  BY DEF Update, Last, Clean
<1>3. Refined(v, v')
  BY <1>1, ReceivesRefined, ReleasesRefined, StripsRefined DEF Update
<1>4. v' \in Contents /\ v' # Nil /\ Stored' = v'
  BY <1>3, NilAssumption DEF Refined, Stored
<1>5. StoreTypeOK' /\ Residence' /\ Clean'
  BY <1>1, <1>2, <1>3, <1>4 DEF Update, Residence, Clean, Refined, KeptSound
<1> QED
  BY <1>1, <1>3, <1>4, <1>5 DEF Refined

LEMMA SendInvariant ==
  ASSUME StoreInv, NEW k \in Node, Send(k)
  PROVE  StoreInv' /\ Stored' = Stored /\ InMemory!Encode(k)
<1> USE DEF StoreInv, StoreTypeOK
<1>1. UNCHANGED <<v, vStorage, vRefCount, image, calls, ourChunk>>
  BY DEF Send, Encode
<1>2. Stored' = Stored
  BY <1>1 DEF Stored
<1>3. KeptSound(Stored, ourChunk', promised', left')
  BY DEF Send, Encode, KeptSound
<1>4. StoreTypeOK' /\ Residence' /\ Clean'
  BY <1>1, <1>3 DEF Residence, Clean, KeptSound
<1> QED
  BY <1>2, <1>3, <1>4 DEF Send, Encode, InMemory!Encode

LEMMA EveryStep ==
  ASSUME StoreInv, StoreNext
  PROVE  /\ StoreInv'
         /\ \/ Kept
            \/ Refined(Stored, Stored')
            \/ \E k \in Node : InMemory!Encode(k) /\ Stored' = Stored
<1>1. CASE ReadVID
  BY <1>1, EnterInvariant DEF ReadVID, Purpose, Storage, StoreInv, StoreTypeOK
<1>2. CASE WriteVID
  BY <1>2, EnterInvariant DEF WriteVID, Purpose, Storage
<1>3. CASE FreeVID
  BY <1>3, FreeInvariant
<1>4. CASE StashVID
  BY <1>4, StashInvariant
<1>5. CASE Update
  BY <1>5, UpdateInvariant
<1>6. CASE \E k \in Node : Send(k)
  BY <1>6, SendInvariant
<1> QED
  BY <1>1, <1>2, <1>3, <1>4, <1>5, <1>6 DEF StoreNext

LEMMA Invariant == StoreSpec => []StoreInv
<1>1. StoreInv /\ UNCHANGED storeVars => StoreInv'
  BY DEF StoreInv, StoreTypeOK, Residence, Clean, Stored, KeptSound, Answerable, storeVars, disk
<1>2. StoreInv /\ [StoreNext]_storeVars => StoreInv'
  BY <1>1, EveryStep
<1> QED
  BY InitInvariant, <1>2, PTL DEF StoreSpec

\* Every reachable state of the store is well typed.
THEOREM StoreTypeCorrect == StoreSpec => []StoreTypeOK
<1>1. StoreInv => StoreTypeOK
  BY DEF StoreInv
<1> QED
  BY <1>1, Invariant, PTL

\* The pointer that a call has is never to a VID that has been paged out.
THEOREM PointersValid == StoreSpec => []InUseIsThere
<1>1. StoreInv => InUseIsThere
  BY DEF StoreInv, Residence, InUseIsThere
<1> QED
  BY <1>1, Invariant, PTL

\* Stashing a VID frees its memory.
THEOREM MemoryFreed == StoreSpec => []StashedIsOut
<1>1. StoreInv => StashedIsOut
  BY DEF StoreInv, Residence, StashedIsOut
<1> QED
  BY <1>1, Invariant, PTL

\* A request is never recorded in a slice without room for it.
THEOREM RoomForRequests == StoreSpec => []RequestsHaveRoom
<1>1. StoreInv => RequestsHaveRoom
  BY DEF StoreInv, KeptSound, Stored, RequestsHaveRoom
<1> QED
  BY <1>1, Invariant, PTL

\* All messages carry the first chunk that was dispersed to the node.
THEOREM SameChunkLeaves == StoreSpec => []OneChunkLeaves
<1>1. StoreInv => OneChunkLeaves
  BY DEF StoreInv, KeptSound, OneChunkLeaves
<1> QED
  BY <1>1, Invariant, PTL

\* With all its paging the store implements a VID that stays in memory.
THEOREM StoreIsMemory == StoreSpec => NothingLost
<1>1. View = Encoded(Stored)
  BY DEF View, Stored
<1>2. StoreInit => InMemory!Init
  <2> SUFFICES ASSUME StoreInit PROVE InMemory!Init
    OBVIOUS
  <2>1. PICK p \in {"none", "block"} : v = NewContents(p)
    BY DEF StoreInit
  <2>2. v \in Contents
    BY <2>1 DEF NewContents, Contents, Room
  <2>3. View = NewContents(p)
    BY <2>1, <2>2, NilAssumption DEF View, Encoded, NewContents
  <2>4. InMemory!NewContents(p) = NewContents(p)
    BY DEF InMemory!NewContents, NewContents
  <2> QED
    BY <2>3, <2>4 DEF InMemory!Init, InMemory!Empty, StoreInit, Empty
<1>3. StoreInv /\ StoreNext => [InMemory!Next]_<<View, InMemory!disk>>
  <2> SUFFICES ASSUME StoreInv, StoreNext PROVE [InMemory!Next]_<<View, InMemory!disk>>
    OBVIOUS
  <2>1. View' = Encoded(Stored')
    BY DEF View, Stored
  <2>2. CASE Kept
    BY <2>1, <2>2, <1>1 DEF Kept, disk, InMemory!disk
  <2>3. CASE Refined(Stored, Stored')
    <3>1. InMemory!Message = Message
      BY DEF InMemory!Message, Message
    <3> QED
      BY <2>1, <2>3, <3>1, <1>1 DEF Refined, InMemory!Next
  <2>4. CASE \E k \in Node : InMemory!Encode(k) /\ Stored' = Stored
    BY <2>1, <2>4, <1>1 DEF InMemory!Next
  <2> QED
    BY <2>2, <2>3, <2>4, EveryStep
<1>4. UNCHANGED storeVars => UNCHANGED <<View, InMemory!disk>>
  BY DEF storeVars, View, disk, InMemory!disk
<1>5. StoreInv /\ [StoreNext]_storeVars => [InMemory!Next]_<<View, InMemory!disk>>
  BY <1>3, <1>4
<1> QED
  BY Invariant, <1>2, <1>5, PTL DEF StoreSpec, NothingLost, InMemory!Spec

-----------------------------------------------------------------------------
(***************************************************************************)
(* The keys of the database.                                               *)
(***************************************************************************)
Part(s, n) == [tag |-> s, number |-> n]

LEMMA TagLengths ==
  /\ TagBytes("Pika") = 4 /\ TagBytes("PikaEpoch") = 9 /\ TagBytes("VID") = 3
  /\ TagBytes("ourchunk") = 8 /\ TagBytes("ourecho") = 7
  /\ TagBytes("ch") = 2 /\ TagBytes("ec") = 2 /\ TagBytes("none") = 0
  BY DEF TagBytes

LEMMA PartIs ==
  \A s, n, t, m : /\ Part(s, n).tag = s /\ Part(s, n).number = n
                  /\ Part(s, n) = Part(t, m) => s = t /\ n = m
  BY DEF Part

Longer(r, q, y) ==
  Len(r) = Len(q) + 1 /\ r[Len(q) + 1] = y /\ \A n \in 1..Len(q) : r[n] = q[n]

LEMMA LongerIs ==
  ASSUME NEW X, NEW q \in Seq(X), NEW r \in Seq(X), NEW y \in X, Longer(r, q, y)
  PROVE  Append(q, y) = r
<1> DEFINE p == Append(q, y)
<1>1. /\ p \in Seq(X) /\ Len(p) = Len(q) + 1 /\ p[Len(q) + 1] = y
      /\ \A n \in 1..Len(q) : p[n] = q[n]
  BY AppendProperties
<1> HIDE DEF p
<1>2. Len(p) = Len(r) /\ \A n \in 1..Len(p) : p[n] = r[n]
  BY <1>1 DEF Longer
<1>3. p = r
  BY <1>1, <1>2, SeqEqual
<1> QED
  BY <1>3 DEF p

LEMMA AppendsAre ==
  \A a, b, c, d :
    /\ Append(<<>>, a) = <<a>> /\ Append(<<a>>, b) = <<a, b>>
    /\ Append(<<a, b>>, c) = <<a, b, c>> /\ Append(<<a, b, c>>, d) = <<a, b, c, d>>
<1> SUFFICES ASSUME NEW a, NEW b, NEW c, NEW d
             PROVE  /\ Append(<<>>, a) = <<a>> /\ Append(<<a>>, b) = <<a, b>>
                    /\ Append(<<a, b>>, c) = <<a, b, c>> /\ Append(<<a, b, c>>, d) = <<a, b, c, d>>
  OBVIOUS
<1> DEFINE X == {a, b, c, d}
<1>1. <<>> \in Seq(X) /\ <<a>> \in Seq(X) /\ <<a, b>> \in Seq(X) /\ <<a, b, c>> \in Seq(X)
      /\ <<a, b, c, d>> \in Seq(X) /\ a \in X /\ b \in X /\ c \in X /\ d \in X
  OBVIOUS
<1> HIDE DEF X
<1>3. Append(<<>>, a) = <<a>>
  BY <1>1
<1>4. Append(<<a>>, b) = <<a, b>>
  <2> DEFINE q == <<a>>
             r == <<a, b>>
  <2>1. q \in Seq(X) /\ r \in Seq(X) /\ Len(q) = 1 /\ Len(r) = 2 /\ r[2] = b /\ r[1] = q[1]
    BY <1>1
  <2> HIDE DEF q, r
  <2>2. Longer(r, q, b)
    BY <2>1 DEF Longer
  <2>3. Append(q, b) = r
    BY <1>1, <2>1, <2>2, LongerIs
  <2> QED
    BY <2>3 DEF q, r
<1>5. Append(<<a, b>>, c) = <<a, b, c>>
  <2> DEFINE q == <<a, b>>
             r == <<a, b, c>>
  <2>1. q \in Seq(X) /\ r \in Seq(X) /\ Len(q) = 2 /\ Len(r) = 3 /\ r[3] = c /\ r[1] = q[1]
        /\ r[2] = q[2]
    BY <1>1
  <2> HIDE DEF q, r
  <2>2. Longer(r, q, c)
    BY <2>1 DEF Longer
  <2>3. Append(q, c) = r
    BY <1>1, <2>1, <2>2, LongerIs
  <2> QED
    BY <2>3 DEF q, r
<1>6. Append(<<a, b, c>>, d) = <<a, b, c, d>>
  <2> DEFINE q == <<a, b, c>>
             r == <<a, b, c, d>>
  <2>1. q \in Seq(X) /\ r \in Seq(X) /\ Len(q) = 3 /\ Len(r) = 4 /\ r[4] = d /\ r[1] = q[1]
        /\ r[2] = q[2] /\ r[3] = q[3]
    BY <1>1
  <2> HIDE DEF q, r
  <2>2. Longer(r, q, d)
    BY <2>1 DEF Longer
  <2>3. Append(q, d) = r
    BY <1>1, <2>1, <2>2, LongerIs
  <2> QED
    BY <2>3 DEF q, r
<1> QED
  BY <1>3, <1>4, <1>5, <1>6

LEMMA KeyParts ==
  ASSUME NEW e, NEW i, NEW s, NEW j
  PROVE  /\ vidKey(e, i) = <<Part("Pika", 0), Part("PikaEpoch", e), Part("none", i)>>
         /\ dbKey(e, i, s, j)
              = <<Part("Pika", 0), Part("PikaEpoch", e), Part("VID", i), Part(s, j)>>
<1>1. /\ EpochPrefix(e) = <<Part("Pika", 0), Part("PikaEpoch", e)>>
      /\ vidKey(e, i) = Append(EpochPrefix(e), Part("none", i))
      /\ dbKey(e, i, s, j) = Append(Append(EpochPrefix(e), Part("VID", i)), Part(s, j))
  BY AppendsAre DEF vidKey, dbKey, EpochPrefix, WithPrefix, Part
<1>2. /\ Append(<<Part("Pika", 0), Part("PikaEpoch", e)>>, Part("none", i))
           = <<Part("Pika", 0), Part("PikaEpoch", e), Part("none", i)>>
      /\ Append(<<Part("Pika", 0), Part("PikaEpoch", e)>>, Part("VID", i))
           = <<Part("Pika", 0), Part("PikaEpoch", e), Part("VID", i)>>
      /\ Append(<<Part("Pika", 0), Part("PikaEpoch", e), Part("VID", i)>>, Part(s, j))
           = <<Part("Pika", 0), Part("PikaEpoch", e), Part("VID", i), Part(s, j)>>
  BY Zenon, AppendsAre
<1> QED
  BY Zenon, <1>1, <1>2

\* The sum that Bytes makes, place by place.
Sums(f, k) ==
  f = [n \in 0..Len(k) |-> IF n = 0 THEN 0 ELSE f[n - 1] + TagBytes(k[n].tag) + 8]

LEMMA BytesAre ==
  ASSUME NEW k, NEW w, Sums(w, k)
  PROVE  \E f : Sums(f, k) /\ Bytes(k) = f[Len(k)]
<1> DEFINE f == CHOOSE g : Sums(g, k)
<1>1. Sums(f, k)
  OBVIOUS
<1>2. Bytes(k) = f[Len(k)]
  BY DEF Bytes, Sums
<1> QED
  BY <1>1, <1>2

LEMMA BytesOfThree ==
  ASSUME NEW a, NEW b, NEW c,
         TagBytes(a.tag) \in Nat, TagBytes(b.tag) \in Nat, TagBytes(c.tag) \in Nat
  PROVE  Bytes(<<a, b, c>>) = TagBytes(a.tag) + TagBytes(b.tag) + TagBytes(c.tag) + 24
<1> DEFINE k == <<a, b, c>>
           x == TagBytes(a.tag)
           y == TagBytes(b.tag)
           z == TagBytes(c.tag)
           w == [n \in 0..3 |-> IF n = 0 THEN 0 ELSE IF n = 1 THEN x + 8
                                ELSE IF n = 2 THEN x + y + 16 ELSE x + y + z + 24]
<1>1. Len(k) = 3 /\ k[1] = a /\ k[2] = b /\ k[3] = c
  OBVIOUS
<1>2. TagBytes(k[1].tag) = x /\ TagBytes(k[2].tag) = y /\ TagBytes(k[3].tag) = z
  BY <1>1
<1>3. x \in Nat /\ y \in Nat /\ z \in Nat
  OBVIOUS
<1> HIDE DEF x, y, z, k
<1>4. Sums(w, k)
  <2>1. /\ w[0] = 0 /\ w[1] = x + 8 /\ w[2] = x + y + 16 /\ w[3] = x + y + z + 24
        /\ w = [n \in 0..3 |-> w[n]]
    OBVIOUS
  <2> HIDE DEF w
  <2>2. \A n \in 0..3 : w[n] = IF n = 0 THEN 0 ELSE w[n - 1] + TagBytes(k[n].tag) + 8
    <3> SUFFICES ASSUME NEW n \in 0..3
                 PROVE  w[n] = IF n = 0 THEN 0 ELSE w[n - 1] + TagBytes(k[n].tag) + 8
      OBVIOUS
    <3>1. n = 0 \/ n = 1 \/ n = 2 \/ n = 3
      OBVIOUS
    <3> QED
      BY <1>2, <1>3, <2>1, <3>1
  <2> QED
    BY <1>1, <2>1, <2>2 DEF Sums
<1> HIDE DEF w
<1>5. PICK f : Sums(f, k) /\ Bytes(k) = f[Len(k)]
  BY <1>4, BytesAre
<1>6. \A n \in 0..3 : f[n] = IF n = 0 THEN 0 ELSE f[n - 1] + TagBytes(k[n].tag) + 8
  BY <1>1, <1>5 DEF Sums
<1>7. f[0] = 0
  BY <1>6
<1>8. f[1] = x + 8
  BY <1>2, <1>3, <1>6, <1>7
<1>9. f[2] = x + y + 16
  BY <1>2, <1>3, <1>6, <1>8
<1>10. f[3] = x + y + z + 24
  BY <1>2, <1>3, <1>6, <1>9
<1> QED
  BY <1>1, <1>5, <1>10 DEF k, x, y, z

LEMMA BytesOfFour ==
  ASSUME NEW a, NEW b, NEW c, NEW d,
         TagBytes(a.tag) \in Nat, TagBytes(b.tag) \in Nat, TagBytes(c.tag) \in Nat,
         TagBytes(d.tag) \in Nat
  PROVE  Bytes(<<a, b, c, d>>)
           = TagBytes(a.tag) + TagBytes(b.tag) + TagBytes(c.tag) + TagBytes(d.tag) + 32
<1> DEFINE k == <<a, b, c, d>>
           x == TagBytes(a.tag)
           y == TagBytes(b.tag)
           z == TagBytes(c.tag)
           u == TagBytes(d.tag)
           w == [n \in 0..4 |-> IF n = 0 THEN 0 ELSE IF n = 1 THEN x + 8
                                ELSE IF n = 2 THEN x + y + 16 ELSE IF n = 3 THEN x + y + z + 24
                                ELSE x + y + z + u + 32]
<1>1. Len(k) = 4 /\ k[1] = a /\ k[2] = b /\ k[3] = c /\ k[4] = d
  OBVIOUS
<1>2. /\ TagBytes(k[1].tag) = x /\ TagBytes(k[2].tag) = y /\ TagBytes(k[3].tag) = z
      /\ TagBytes(k[4].tag) = u
  BY <1>1
<1>3. x \in Nat /\ y \in Nat /\ z \in Nat /\ u \in Nat
  OBVIOUS
<1> HIDE DEF x, y, z, u, k
<1>4. Sums(w, k)
  <2>1. /\ w[0] = 0 /\ w[1] = x + 8 /\ w[2] = x + y + 16 /\ w[3] = x + y + z + 24
        /\ w[4] = x + y + z + u + 32
        /\ w = [n \in 0..4 |-> w[n]]
    OBVIOUS
  <2> HIDE DEF w
  <2>2. \A n \in 0..4 : w[n] = IF n = 0 THEN 0 ELSE w[n - 1] + TagBytes(k[n].tag) + 8
    <3> SUFFICES ASSUME NEW n \in 0..4
                 PROVE  w[n] = IF n = 0 THEN 0 ELSE w[n - 1] + TagBytes(k[n].tag) + 8
      OBVIOUS
    <3>1. n = 0 \/ n = 1 \/ n = 2 \/ n = 3 \/ n = 4
      OBVIOUS
    <3> QED
      BY <1>2, <1>3, <2>1, <3>1
  <2> QED
    BY <1>1, <2>1, <2>2 DEF Sums
<1> HIDE DEF w
<1>5. PICK f : Sums(f, k) /\ Bytes(k) = f[Len(k)]
  BY <1>4, BytesAre
<1>6. \A n \in 0..4 : f[n] = IF n = 0 THEN 0 ELSE f[n - 1] + TagBytes(k[n].tag) + 8
  BY <1>1, <1>5 DEF Sums
<1>7. f[0] = 0
  BY <1>6
<1>8. f[1] = x + 8
  BY <1>2, <1>3, <1>6, <1>7
<1>9. f[2] = x + y + 16
  BY <1>2, <1>3, <1>6, <1>8
<1>10. f[3] = x + y + z + 24
  BY <1>2, <1>3, <1>6, <1>9
<1>11. f[4] = x + y + z + u + 32
  BY <1>2, <1>3, <1>6, <1>10
<1> QED
  BY <1>1, <1>5, <1>11 DEF k, x, y, z, u

\* What a key is made of: the tag and the number at its end, behind those of the
\* epoch and of the node.
Ends == {<<"none", 0>>, <<"ourchunk", 0>>, <<"ourecho", 0>>} \cup ({"ch", "ec"} \X Nodes)
KeyOf(x) == IF x[2][1] = "none" THEN vidKey(x[1][1], x[1][2])
            ELSE dbKey(x[1][1], x[1][2], x[2][1], x[2][2])
Slots == (Epochs \X Nodes) \X Ends
Keys == {vidKey(e, i) : e \in Epochs, i \in Nodes}
          \cup UNION {ChunkKeys(e, i) : e \in Epochs, i \in Nodes}

ChunkTag == {"ourchunk", "ourecho", "ch", "ec"}

Short(e, i) == <<Part("Pika", 0), Part("PikaEpoch", e), Part("none", i)>>
Long(e, i, s, j) == <<Part("Pika", 0), Part("PikaEpoch", e), Part("VID", i), Part(s, j)>>

LEMMA ShortIs ==
  ASSUME NEW e, NEW i
  PROVE  /\ vidKey(e, i) = Short(e, i) /\ Len(Short(e, i)) = 3 /\ Bytes(Short(e, i)) = 37
         /\ DOMAIN Short(e, i) = 1..3
         /\ Short(e, i)[1] = Part("Pika", 0) /\ Short(e, i)[2] = Part("PikaEpoch", e)
         /\ Short(e, i)[3] = Part("none", i)
<1>1. vidKey(e, i) = Short(e, i)
  BY KeyParts DEF Short
<1>2. Bytes(Short(e, i)) = 37
  <2> DEFINE a == Part("Pika", 0)
             b == Part("PikaEpoch", e)
             c == Part("none", i)
  <2>1. TagBytes(a.tag) = 4 /\ TagBytes(b.tag) = 9 /\ TagBytes(c.tag) = 0
    BY TagLengths, PartIs
  <2> HIDE DEF a, b, c
  <2>2. Bytes(<<a, b, c>>) = TagBytes(a.tag) + TagBytes(b.tag) + TagBytes(c.tag) + 24
    BY <2>1, BytesOfThree
  <2>3. Bytes(<<a, b, c>>) = 37
    BY <2>1, <2>2
  <2> QED
    BY <2>3 DEF a, b, c, Short
<1> QED
  BY <1>1, <1>2 DEF Short

LongShape(k, e, i, s, j) ==
  /\ Len(k) = 4 /\ TagBytes(s) \in Nat /\ Bytes(k) = 48 + TagBytes(s) /\ DOMAIN k = 1..4
  /\ k[1] = Part("Pika", 0) /\ k[2] = Part("PikaEpoch", e)
  /\ k[3] = Part("VID", i) /\ k[4] = Part(s, j)

LEMMA LongIs ==
  ASSUME NEW e, NEW i, NEW s \in ChunkTag, NEW j
  PROVE  /\ dbKey(e, i, s, j) = Long(e, i, s, j)
         /\ LongShape(Long(e, i, s, j), e, i, s, j)
<1>1. dbKey(e, i, s, j) = Long(e, i, s, j)
  BY KeyParts DEF Long
<1>2. TagBytes(s) \in Nat
  BY TagLengths DEF ChunkTag
<1>3. Bytes(Long(e, i, s, j)) = 48 + TagBytes(s)
  <2> DEFINE a == Part("Pika", 0)
             b == Part("PikaEpoch", e)
             c == Part("VID", i)
             d == Part(s, j)
  <2>1. TagBytes(a.tag) = 4 /\ TagBytes(b.tag) = 9 /\ TagBytes(c.tag) = 3 /\ d.tag = s
    BY TagLengths, PartIs
  <2> HIDE DEF a, b, c, d
  <2>2. Bytes(<<a, b, c, d>>)
          = TagBytes(a.tag) + TagBytes(b.tag) + TagBytes(c.tag) + TagBytes(d.tag) + 32
    BY <1>2, <2>1, BytesOfFour
  <2>3. Bytes(<<a, b, c, d>>) = 48 + TagBytes(s)
    BY <1>2, <2>1, <2>2
  <2> QED
    BY <2>3 DEF a, b, c, d, Long
<1> QED
  BY <1>1, <1>2, <1>3 DEF Long, LongShape

\* The two layouts have different lengths; keys of one layout differ in a number
\* or in a tag.
LEMMA ShortApart ==
  ASSUME NEW e, NEW i, NEW d, NEW k, Short(e, i) = Short(d, k)
  PROVE  e = d /\ i = k
<1>1. /\ Short(e, i)[2] = Part("PikaEpoch", e) /\ Short(d, k)[2] = Part("PikaEpoch", d)
      /\ Short(e, i)[3] = Part("none", i) /\ Short(d, k)[3] = Part("none", k)
  BY ShortIs
<1> QED
  BY <1>1, PartIs

LEMMA ShortLong ==
  ASSUME NEW e, NEW i, NEW d, NEW k, NEW t \in ChunkTag, NEW l
  PROVE  /\ Short(e, i) # Long(d, k, t, l)
         /\ Differ(Short(e, i), Long(d, k, t, l)) /\ Differ(Long(d, k, t, l), Short(e, i))
<1>1. Bytes(Short(e, i)) = 37
  BY ShortIs
<1>2. LongShape(Long(d, k, t, l), d, k, t, l)
  BY LongIs
<1>3. Bytes(Short(e, i)) # Bytes(Long(d, k, t, l))
  BY <1>1, <1>2 DEF LongShape
<1> QED
  BY <1>3 DEF Differ

LEMMA LongApart ==
  ASSUME NEW e, NEW i, NEW d, NEW k, NEW s \in ChunkTag, NEW j, NEW t \in ChunkTag, NEW l,
         Long(e, i, s, j) = Long(d, k, t, l)
  PROVE  e = d /\ i = k /\ s = t /\ j = l
<1>1. LongShape(Long(e, i, s, j), e, i, s, j)
  BY LongIs
<1>2. LongShape(Long(d, k, t, l), d, k, t, l)
  BY LongIs
<1>3. Part("PikaEpoch", e) = Part("PikaEpoch", d) /\ Part("VID", i) = Part("VID", k)
      /\ Part(s, j) = Part(t, l)
  BY <1>1, <1>2 DEF LongShape
<1> QED
  BY <1>3, PartIs

LEMMA ShortDiffer ==
  ASSUME NEW e, NEW i, NEW d, NEW k
  PROVE  Short(e, i) = Short(d, k) \/ Differ(Short(e, i), Short(d, k))
<1> DEFINE a == Short(e, i)
           b == Short(d, k)
<1>1. /\ Len(a) = 3 /\ DOMAIN a = 1..3 /\ a[1] = Part("Pika", 0) /\ a[2] = Part("PikaEpoch", e)
      /\ a[3] = Part("none", i)
  BY ShortIs
<1>2. /\ Len(b) = 3 /\ b[1] = Part("Pika", 0) /\ b[2] = Part("PikaEpoch", d)
      /\ b[3] = Part("none", k)
  BY ShortIs
<1> HIDE DEF a, b
<1>3. a[1].tag = b[1].tag /\ a[2].tag = b[2].tag /\ a[3].tag = b[3].tag
  BY <1>1, <1>2, PartIs
<1>4. \A n \in DOMAIN a : TagBytes(a[n].tag) = TagBytes(b[n].tag)
  <2>1. \A n \in 1..3 : n = 1 \/ n = 2 \/ n = 3
    OBVIOUS
  <2> QED
    BY <1>1, <1>3, <2>1
<1>5. a = b \/ Differ(a, b)
  BY <1>1, <1>2, <1>4 DEF Differ
<1> QED
  BY <1>5 DEF a, b

LEMMA LongDiffer ==
  ASSUME NEW e, NEW i, NEW d, NEW k, NEW s \in ChunkTag, NEW j, NEW t \in ChunkTag, NEW l
  PROVE  Long(e, i, s, j) = Long(d, k, t, l) \/ Differ(Long(e, i, s, j), Long(d, k, t, l))
<1> DEFINE a == Long(e, i, s, j)
           b == Long(d, k, t, l)
<1>1. /\ Len(a) = 4 /\ DOMAIN a = 1..4 /\ a[1] = Part("Pika", 0) /\ a[2] = Part("PikaEpoch", e)
      /\ a[3] = Part("VID", i) /\ a[4] = Part(s, j)
      /\ TagBytes(s) \in Nat /\ Bytes(a) = 48 + TagBytes(s)
  <2>1. LongShape(Long(e, i, s, j), e, i, s, j)
    BY LongIs
  <2> QED
    BY <2>1 DEF LongShape
<1>2. /\ Len(b) = 4 /\ b[1] = Part("Pika", 0) /\ b[2] = Part("PikaEpoch", d)
      /\ b[3] = Part("VID", k) /\ b[4] = Part(t, l)
      /\ TagBytes(t) \in Nat /\ Bytes(b) = 48 + TagBytes(t)
  <2>1. LongShape(Long(d, k, t, l), d, k, t, l)
    BY LongIs
  <2> QED
    BY <2>1 DEF LongShape
<1> HIDE DEF a, b
<1>3. /\ a[1].tag = b[1].tag /\ a[2].tag = b[2].tag /\ a[3].tag = b[3].tag
      /\ a[4].tag = s /\ b[4].tag = t
  BY <1>1, <1>2, PartIs
<1>4. CASE TagBytes(s) = TagBytes(t)
  <2>1. \A n \in 1..4 : n = 1 \/ n = 2 \/ n = 3 \/ n = 4
    OBVIOUS
  <2>2. \A n \in DOMAIN a : TagBytes(a[n].tag) = TagBytes(b[n].tag)
    BY <1>1, <1>3, <1>4, <2>1
  <2> QED
    BY <1>1, <1>2, <2>2 DEF Differ, a, b
<1>5. CASE TagBytes(s) # TagBytes(t)
  <2>1. Bytes(a) # Bytes(b)
    BY <1>1, <1>2, <1>5
  <2>2. Differ(a, b)
    BY <2>1 DEF Differ
  <2> QED
    BY <2>2 DEF a, b
<1> QED
  BY <1>4, <1>5

\* A slot has one of the two layouts.
Laid(x, e, i, s, j) ==
  /\ x = <<<<e, i>>, <<s, j>>>>
  /\ \/ s = "none" /\ j = 0 /\ KeyOf(x) = Short(e, i)
     \/ s \in ChunkTag /\ KeyOf(x) = Long(e, i, s, j)

LEMMA SlotIs ==
  ASSUME NEW x \in Slots
  PROVE  \E e, i, s, j : Laid(x, e, i, s, j)
<1>1. PICK e \in Epochs, i \in Nodes, y \in Ends : x = <<<<e, i>>, y>>
  BY DEF Slots
<1>2. PICK s, j : y = <<s, j>> /\ ((s = "none" /\ j = 0) \/ s \in ChunkTag)
  <2>1. CASE y \in {"ch", "ec"} \X Nodes
    BY <2>1 DEF ChunkTag
  <2>2. CASE y = <<"none", 0>>
    BY <2>2
  <2>3. CASE y = <<"ourchunk", 0>>
    BY <2>3 DEF ChunkTag
  <2>4. CASE y = <<"ourecho", 0>>
    BY <2>4 DEF ChunkTag
  <2> QED
    BY <2>1, <2>2, <2>3, <2>4 DEF Ends
<1>3. x[1][1] = e /\ x[1][2] = i /\ x[2][1] = s /\ x[2][2] = j
  BY <1>1, <1>2
<1>4. KeyOf(x) = IF s = "none" THEN vidKey(e, i) ELSE dbKey(e, i, s, j)
  BY <1>3 DEF KeyOf
<1>5. vidKey(e, i) = Short(e, i)
  BY ShortIs
<1>6. s \in ChunkTag => dbKey(e, i, s, j) = Long(e, i, s, j)
  BY LongIs
<1>7. Laid(x, e, i, s, j)
  <2>1. s \in ChunkTag => s # "none"
    BY DEF ChunkTag
  <2> QED
    BY <1>1, <1>2, <1>4, <1>5, <1>6, <2>1 DEF Laid
<1> QED
  BY <1>7

LEMMA SlotsApart ==
  ASSUME NEW x \in Slots, NEW y \in Slots
  PROVE  /\ KeyOf(x) = KeyOf(y) => x = y
         /\ KeyOf(x) = KeyOf(y) \/ Differ(KeyOf(x), KeyOf(y))
<1>1. PICK e, i, s, j : Laid(x, e, i, s, j)
  BY SlotIs
<1>2. PICK d, k, t, l : Laid(y, d, k, t, l)
  BY SlotIs
<1>3. /\ x = <<<<e, i>>, <<s, j>>>> /\ y = <<<<d, k>>, <<t, l>>>>
      /\ \/ s = "none" /\ j = 0 /\ KeyOf(x) = Short(e, i)
         \/ s \in ChunkTag /\ KeyOf(x) = Long(e, i, s, j)
      /\ \/ t = "none" /\ l = 0 /\ KeyOf(y) = Short(d, k)
         \/ t \in ChunkTag /\ KeyOf(y) = Long(d, k, t, l)
  BY <1>1, <1>2 DEF Laid
<1>4. CASE s = "none" /\ j = 0 /\ KeyOf(x) = Short(e, i) /\ t = "none" /\ l = 0 /\ KeyOf(y) = Short(d, k)
  <2>1. Short(e, i) = Short(d, k) => e = d /\ i = k
    BY ShortApart
  <2>2. Short(e, i) = Short(d, k) \/ Differ(Short(e, i), Short(d, k))
    BY ShortDiffer
  <2> QED
    BY <1>3, <1>4, <2>1, <2>2
<1>5. CASE s = "none" /\ KeyOf(x) = Short(e, i) /\ t \in ChunkTag /\ KeyOf(y) = Long(d, k, t, l)
  <2>1. Short(e, i) # Long(d, k, t, l) /\ Differ(Short(e, i), Long(d, k, t, l))
    BY <1>5, ShortLong
  <2> QED
    BY <1>5, <2>1
<1>6. CASE s \in ChunkTag /\ KeyOf(x) = Long(e, i, s, j) /\ t = "none" /\ KeyOf(y) = Short(d, k)
  <2>1. Short(d, k) # Long(e, i, s, j) /\ Differ(Long(e, i, s, j), Short(d, k))
    BY <1>6, ShortLong
  <2> QED
    BY <1>6, <2>1
<1>7. CASE s \in ChunkTag /\ KeyOf(x) = Long(e, i, s, j) /\ t \in ChunkTag /\ KeyOf(y) = Long(d, k, t, l)
  <2>1. Long(e, i, s, j) = Long(d, k, t, l) => e = d /\ i = k /\ s = t /\ j = l
    BY <1>7, LongApart
  <2>2. Long(e, i, s, j) = Long(d, k, t, l) \/ Differ(Long(e, i, s, j), Long(d, k, t, l))
    BY <1>7, LongDiffer
  <2> QED
    BY <1>3, <1>7, <2>1, <2>2
<1> QED
  BY <1>3, <1>4, <1>5, <1>6, <1>7

\* The keys of KeysDiffer are those of the slots.
LEMMA KeysAre == Keys = {KeyOf(x) : x \in Slots}
<1>1. ASSUME NEW k \in Keys PROVE \E x \in Slots : k = KeyOf(x)
  <2>1. CASE \E e \in Epochs, i \in Nodes : k = vidKey(e, i)
    <3>1. PICK e \in Epochs, i \in Nodes : k = vidKey(e, i)
      BY <2>1
    <3> DEFINE x == <<<<e, i>>, <<"none", 0>>>>
    <3>2. x \in Slots /\ x[1][1] = e /\ x[1][2] = i /\ x[2][1] = "none"
      BY DEF Slots, Ends
    <3> HIDE DEF x
    <3>3. KeyOf(x) = vidKey(e, i)
      BY <3>2 DEF KeyOf
    <3> QED
      BY <3>1, <3>2, <3>3
  <2>2. CASE \E e \in Epochs, i \in Nodes : k \in ChunkKeys(e, i)
    <3>1. PICK e \in Epochs, i \in Nodes : k \in ChunkKeys(e, i)
      BY <2>2
    <3>2. PICK s, j : s \in ChunkTag /\ k = dbKey(e, i, s, j) /\ <<s, j>> \in Ends
      <4>1. \/ k = dbKey(e, i, "ourchunk", 0) \/ k = dbKey(e, i, "ourecho", 0)
            \/ \E s \in {"ch", "ec"}, j \in Nodes : k = dbKey(e, i, s, j)
        BY <3>1 DEF ChunkKeys
      <4>2. <<"ourchunk", 0>> \in Ends /\ <<"ourecho", 0>> \in Ends
            /\ \A s \in {"ch", "ec"}, j \in Nodes : <<s, j>> \in Ends
        BY DEF Ends
      <4>3. "ourchunk" \in ChunkTag /\ "ourecho" \in ChunkTag /\ {"ch", "ec"} \subseteq ChunkTag
        BY DEF ChunkTag
      <4> QED
        BY <4>1, <4>2, <4>3
    <3> DEFINE x == <<<<e, i>>, <<s, j>>>>
    <3>3. x \in Slots /\ x[1][1] = e /\ x[1][2] = i /\ x[2][1] = s /\ x[2][2] = j
      BY <3>2 DEF Slots
    <3> HIDE DEF x
    <3>4. s # "none"
      BY <3>2 DEF ChunkTag
    <3>5. KeyOf(x) = dbKey(e, i, s, j)
      BY <3>3, <3>4 DEF KeyOf
    <3> QED
      BY <3>2, <3>3, <3>5
  <2> QED
    BY <2>1, <2>2 DEF Keys
<1>2. ASSUME NEW x \in Slots PROVE KeyOf(x) \in Keys
  <2>1. PICK e \in Epochs, i \in Nodes, y \in Ends : x = <<<<e, i>>, y>>
    BY DEF Slots
  <2>2. x[1][1] = e /\ x[1][2] = i /\ x[2] = y
    BY <2>1
  <2>3. CASE y = <<"none", 0>>
    <3>1. KeyOf(x) = vidKey(e, i)
      BY <2>2, <2>3 DEF KeyOf
    <3> QED
      BY <3>1 DEF Keys
  <2>4. CASE y # <<"none", 0>>
    <3>1. \/ y = <<"ourchunk", 0>> \/ y = <<"ourecho", 0>>
          \/ \E s \in {"ch", "ec"}, j \in Nodes : y = <<s, j>>
      BY <2>4 DEF Ends
    <3>2. y[1] # "none" /\ dbKey(e, i, y[1], y[2]) \in ChunkKeys(e, i)
      BY <3>1 DEF ChunkKeys
    <3>3. KeyOf(x) = dbKey(e, i, y[1], y[2])
      BY <2>2, <3>2 DEF KeyOf
    <3> QED
      BY <3>2, <3>3 DEF Keys
  <2> QED
    BY <2>3, <2>4
<1> QED
  BY <1>1, <1>2

LEMMA EndsCount ==
  IsFiniteSet(Ends) /\ Cardinality(Ends) = 1 + 2 + 2 * Cardinality(Nodes)
<1> DEFINE A == {<<"none", 0>>, <<"ourchunk", 0>>, <<"ourecho", 0>>}
           T == {"ch", "ec"}
           B == T \X Nodes
<1>1. IsFiniteSet(A) /\ Cardinality(A) = 3
  <2> DEFINE a == <<"none", 0>>
             b == <<"ourchunk", 0>>
             c == <<"ourecho", 0>>
  <2>1. a # b /\ a # c /\ b # c
    OBVIOUS
  <2> HIDE DEF a, b, c
  <2>2. IsFiniteSet({a}) /\ Cardinality({a}) = 1
    BY FS_Singleton
  <2>3. IsFiniteSet({a} \cup {b}) /\ Cardinality({a} \cup {b}) = 2
    BY <2>1, <2>2, FS_AddElement
  <2>4. IsFiniteSet(({a} \cup {b}) \cup {c}) /\ Cardinality(({a} \cup {b}) \cup {c}) = 3
    BY <2>1, <2>3, FS_AddElement
  <2>5. ({a} \cup {b}) \cup {c} = {a, b, c}
    OBVIOUS
  <2> QED
    BY <2>4, <2>5 DEF a, b, c
<1>2. IsFiniteSet(T) /\ Cardinality(T) = 2
  <2>1. IsFiniteSet({"ch"}) /\ Cardinality({"ch"}) = 1
    BY FS_Singleton
  <2>2. IsFiniteSet({"ch"} \cup {"ec"}) /\ Cardinality({"ch"} \cup {"ec"}) = 2
    BY <2>1, FS_AddElement
  <2>3. {"ch"} \cup {"ec"} = T
    OBVIOUS
  <2> QED
    BY <2>2, <2>3
<1>3. A \cap B = {}
  OBVIOUS
<1>4. Ends = A \cup B
  BY DEF Ends
<1>5. IsFiniteSet(Nodes) /\ Cardinality(Nodes) \in Nat
  BY FinitelyManyKeys, FS_CardinalityType
<1> HIDE DEF A, T
<1>6. IsFiniteSet(B) /\ Cardinality(B) = 2 * Cardinality(Nodes)
  BY <1>2, <1>5, FS_Product
<1> HIDE DEF B
<1>7. /\ IsFiniteSet(A \cup B)
      /\ Cardinality(A \cup B) = Cardinality(A) + Cardinality(B) - Cardinality(A \cap B)
  BY <1>1, <1>6, FS_Union
<1>8. Cardinality(A \cap B) = 0
  BY <1>3, FS_EmptySet
<1> QED
  BY <1>1, <1>4, <1>5, <1>6, <1>7, <1>8

LEMMA SlotsCount ==
  /\ IsFiniteSet(Slots)
  /\ Cardinality(Slots)
       = (Cardinality(Epochs) * Cardinality(Nodes)) * (1 + 2 + 2 * Cardinality(Nodes))
<1>1. IsFiniteSet(Epochs) /\ IsFiniteSet(Nodes)
  BY FinitelyManyKeys
<1> DEFINE P == Epochs \X Nodes
<1>2. IsFiniteSet(P) /\ Cardinality(P) = Cardinality(Epochs) * Cardinality(Nodes)
  BY <1>1, FS_Product
<1> HIDE DEF P
<1>3. IsFiniteSet(P \X Ends) /\ Cardinality(P \X Ends) = Cardinality(P) * Cardinality(Ends)
  BY <1>2, EndsCount, FS_Product
<1> QED
  BY <1>2, <1>3, EndsCount DEF Slots, P

\* No two of the VIDs and chunks that a node stores share a key, whatever the
\* epochs and however many nodes.
LEMMA AllKeysDiffer == KeysDiffer
<1> DEFINE f == [x \in Slots |-> KeyOf(x)]
<1>1. f \in Bijection(Slots, Keys)
  <2>1. f \in [Slots -> Keys]
    BY KeysAre
  <2>2. \A x, y \in Slots : f[x] = f[y] => x = y
    BY SlotsApart
  <2>3. \A k \in Keys : \E x \in Slots : f[x] = k
    BY KeysAre
  <2> HIDE DEF f
  <2>4. DOMAIN f = Slots
    BY <2>1
  <2>5. IsInjective(f)
    BY <2>2, <2>4 DEF IsInjective
  <2> QED
    BY <2>1, <2>3, <2>5 DEF Bijection, Injection, Surjection
<1>2. Cardinality(Keys) = Cardinality(Slots)
  <2>1. ExistsBijection(Slots, Keys)
    BY <1>1 DEF ExistsBijection
  <2> QED
    BY <2>1, SlotsCount, FS_Bijection
<1>3. \A k, l \in Keys : k = l \/ Differ(k, l)
  BY KeysAre, SlotsApart
<1> HIDE DEF f
<1> DEFINE perVID == 1 + 2 + 2 * Cardinality(Nodes)
<1>4. Cardinality(Keys) = Cardinality(Epochs) * Cardinality(Nodes) * perVID
  BY <1>2, SlotsCount
<1> HIDE DEF perVID
<1> QED
  <2> DEFINE K == {vidKey(e, i) : e \in Epochs, i \in Nodes}
                    \cup UNION {ChunkKeys(e, i) : e \in Epochs, i \in Nodes}
             p == 1 + 2 + 2 * Cardinality(Nodes)
  <2>1. K = Keys /\ p = perVID
    BY DEF Keys, perVID
  <2>2. KeysDiffer <=> /\ \A k, l \in K : k = l \/ Differ(k, l)
                       /\ Cardinality(K) = Cardinality(Epochs) * Cardinality(Nodes) * p
    BY DEF KeysDiffer
  <2> HIDE DEF K, p
  <2> QED
    BY <1>3, <1>4, <2>1, <2>2

(***************************************************************************)
(* What a node has stored of a VID is not overwritten by another of its    *)
(* VIDs or chunks, although the keys are only strings put together from    *)
(* tags and numbers (avid.go, pika.go): for any number of epochs and nodes.*)
(***************************************************************************)
THEOREM KeysNeverMeet == MCSpec => []KeysApart
<1>1. KeysApart
  BY AllKeysDiffer DEF KeysApart
<1> QED
  BY <1>1, PTL
=============================================================================
