-------------------------------- MODULE VID --------------------------------
(***************************************************************************)
(* One dispersal: the VID instances (pika/avid.go) that the correct nodes  *)
(* keep for the same initiator.  The initiator sends every node a chunk of *)
(* a large file, the payload, and of a small one, the associated data.     *)
(* Echoes and Readys tell when the files are safely spread; payload chunks *)
(* are later exchanged on request.                                         *)
(*                                                                         *)
(* Chunks carry no contents here: the code checks none, and which chunks a *)
(* node holds is what the protocol steps depend on.  The network is the    *)
(* set of messages sent; handling a message again is a stutter.            *)
(***************************************************************************)
EXTENDS ProtocolParams

CONSTANTS
  Faulty,      \* the nodes that may crash, equivocate or lie
  FaultyMsg    \* what the faulty nodes may ever say

Correct == Node \ Faulty

(***************************************************************************)
(* A VIDMessage: the flags that are set, the sender, and the nodes it is   *)
(* addressed to (all of them when the code sends it in a loop over N).     *)
(* Cancel is missing: Pika.Recv consumes it, and never passes it to a VID. *)
(***************************************************************************)
Flag == {"echo", "ready", "disperse", "respond", "request"}
VIDMessage == [is : SUBSET Flag, from : Node, to : SUBSET Node]

Echo(n) == [is |-> {"echo"}, from |-> n, to |-> Node]
Ready(n) == [is |-> {"ready"}, from |-> n, to |-> Node]
Disperse(n) == [is |-> {"disperse", "ready"}, from |-> n, to |-> Node]
Request(n, k) == [is |-> {"request"}, from |-> n, to |-> {k}]
Respond(n, k) == [is |-> {"respond"}, from |-> n, to |-> {k}]

ASSUME DispersalAssumption ==
  /\ Faulty \subseteq Node
  /\ Cardinality(Faulty) <= F
  /\ FaultyMsg \subseteq {m \in VIDMessage : m.from \in Faulty}

VARIABLES
  initID,    \* the node that disperses, which never changes
  vid,       \* the VID of every correct node
  started,   \* whether the initiator, if correct, has called Init
  msgs       \* the messages sent by the correct nodes

vars == <<initID, vid, started, msgs>>

-----------------------------------------------------------------------------
(***************************************************************************)
(* The state of a VID: VIDOutput, VIDCoreState, VIDPayloadState.  core and *)
(* pstate tell whether the pointers to the latter two are non-nil; once    *)
(* one is nil its fields keep their last value here, and nothing reads     *)
(* them.  A file is whether it is known.  ourChunk stands for ourChunk and *)
(* ourEcho, which handleDisperse stores together; unanswered is empty when *)
(* requestUnanswered is nil.                                               *)
(***************************************************************************)
VIDState ==
  [payload    : BOOLEAN,
   ad         : BOOLEAN,
   ourChunk   : BOOLEAN,
   unanswered : SUBSET Node,
   canRelease : BOOLEAN,
   core       : BOOLEAN,
   echos      : SUBSET Node,
   nEchos     : Nat,
   readys     : SUBSET Node,
   sentEcho   : BOOLEAN,
   sentReady  : BOOLEAN,
   pstate     : BOOLEAN,
   chunks     : SUBSET Node,
   nChunks    : Nat,
   scheduled  : BOOLEAN]

\* The initiator has both files, which default to EmptyPayload.
NewVID(n) ==
  [payload    |-> n = initID,
   ad         |-> n = initID,
   ourChunk   |-> FALSE,
   unanswered |-> {},
   canRelease |-> FALSE,
   core       |-> TRUE,
   echos      |-> {},
   nEchos     |-> 0,
   readys     |-> {},
   sentEcho   |-> FALSE,
   sentReady  |-> FALSE,
   pstate     |-> TRUE,
   chunks     |-> {},
   nChunks    |-> 0,
   scheduled  |-> FALSE]

PayloadDispersed(s) == s.core => Cardinality(s.readys) >= 2 * F + 1
Terminated(s) == PayloadDispersed(s) /\ s.ad

-----------------------------------------------------------------------------
(***************************************************************************)
(* The handlers of the message flags.  The counters are incremented where  *)
(* the code does it, in two places for nEchos and for nChunks.             *)
(***************************************************************************)
HandleEchoTwice(s, from) ==   \* mutant: does not look whether it is stored
  IF s.core THEN [s EXCEPT !.echos = @ \cup {from}, !.nEchos = @ + 1] ELSE s

HandleEcho(s, from) ==
  IF s.core /\ from \notin s.echos
  THEN [s EXCEPT !.echos = @ \cup {from}, !.nEchos = @ + 1]
  ELSE s

HandleReady(s, from) == IF s.core THEN [s EXCEPT !.readys = @ \cup {from}] ELSE s

\* n takes its chunks, also as if they had come in its own Echo and response.
HandleDisperse(s, n, from) ==
  IF s.core /\ from = initID /\ ~s.ourChunk
  THEN [s EXCEPT !.ourChunk = TRUE,
                 !.echos    = @ \cup {n},
                 !.nEchos   = @ + 1,
                 !.chunks   = IF s.pstate THEN @ \cup {n} ELSE @,
                 !.nChunks  = IF s.pstate THEN @ + 1 ELSE @]
  ELSE s

HandleChunkResponse(s, from) ==
  IF s.pstate /\ from \notin s.chunks
  THEN [s EXCEPT !.chunks = @ \cup {from}, !.nChunks = @ + 1]
  ELSE s

\* A request that can be answered at once is answered at the end of Recv.
RecordRequest(s, from) == [s EXCEPT !.unanswered = @ \cup {from}]

\* The switch of VID.Recv, in its order: a message may have several flags.
Handle(s, n, m) ==
  LET e == IF "echo" \in m.is THEN HandleEcho(s, m.from) ELSE s
      r == IF "ready" \in m.is THEN HandleReady(e, m.from) ELSE e
      d == IF "disperse" \in m.is THEN HandleDisperse(r, n, m.from) ELSE r
      c == IF "respond" \in m.is THEN HandleChunkResponse(d, m.from) ELSE d
  IN IF "request" \in m.is THEN RecordRequest(c, m.from) ELSE c

ReadyDueNoRelay(s) == s.nEchos >= N - F                                 \* mutant
ReadyDueAllEchos(s) == s.nEchos >= N \/ Cardinality(s.readys) >= F + 1  \* mutant
ReadyDueOffByOne(s) == s.nEchos >= N - F \/ Cardinality(s.readys) >= F  \* mutant
ReadyDue(s) == s.nEchos >= N - F \/ Cardinality(s.readys) >= F + 1

CanAnswerAlways(s) == s.ourChunk   \* mutant
CanAnswer(s) == s.canRelease /\ s.ourChunk

CoreDoneOnTerm(s, ad, pstate) == ad /\ PayloadDispersed(s)   \* mutant: payload not awaited
CoreDone(s, ad, pstate) == ~pstate /\ ad /\ PayloadDispersed(s)

(***************************************************************************)
(* The rest of VID.Recv: vote, decode what can be decoded, and drop the    *)
(* parts of the state that are no longer needed.  A Cancel is sent when    *)
(* VIDPayloadState is dropped.                                             *)
(***************************************************************************)
Conclude(s) ==
  LET ad == s.ad \/ (s.core /\ s.nEchos >= N - 2 * F)
      payload == s.payload \/ (s.pstate /\ s.nChunks >= N - 2 * F)
      pstate == s.pstate /\ ~payload
  IN [s EXCEPT
        !.sentReady  = @ \/ (s.core /\ ReadyDue(s)),
        !.sentEcho   = @ \/ (s.core /\ s.ourChunk),
        !.unanswered = IF CanAnswer(s) THEN {} ELSE @,
        !.ad         = ad,
        !.payload    = payload,
        !.pstate     = pstate,
        !.core       = @ /\ ~CoreDone(s, ad, pstate)]

(***************************************************************************)
(* What node n sends: its votes, the chunks it owes to those who asked,    *)
(* and its own requests to the nodes it has heard an Echo from.            *)
(***************************************************************************)
Votes(n, s, t) ==
  (IF t.sentReady /\ ~s.sentReady THEN {Ready(n)} ELSE {})
    \cup (IF t.sentEcho /\ ~s.sentEcho THEN {Echo(n)} ELSE {})

Answers(n, s) == {Respond(n, k) : k \in IF CanAnswer(s) THEN s.unanswered ELSE {}}

Requests(n, s, to) ==
  {Request(n, k) : k \in IF s.scheduled /\ ~s.payload THEN to ELSE {}}

-----------------------------------------------------------------------------
Init ==
  /\ initID \in Node
  /\ vid = [n \in Correct |-> NewVID(n)]
  /\ started = FALSE
  /\ msgs = {}

\* VID.Init: the chunks go out together with the initiator's Ready.
Start(n) ==
  /\ n = initID
  /\ ~started
  /\ started' = TRUE
  /\ msgs' = msgs \cup {Disperse(n)}
  /\ UNCHANGED <<initID, vid>>

RequestPayload(n) ==
  LET s == [vid[n] EXCEPT !.scheduled = TRUE] IN
  /\ vid[n].pstate
  /\ ~vid[n].scheduled
  /\ vid' = [vid EXCEPT ![n] = s]
  /\ msgs' = msgs \cup Requests(n, s, s.echos)
  /\ UNCHANGED <<initID, started>>

ReleaseChunkSilently(n) ==   \* mutant: forgets those who have asked already
  /\ ~vid[n].canRelease
  /\ vid' = [vid EXCEPT ![n].canRelease = TRUE]
  /\ UNCHANGED <<initID, started, msgs>>

ReleaseChunk(n) ==
  LET s == [vid[n] EXCEPT !.canRelease = TRUE] IN
  /\ ~vid[n].canRelease
  /\ vid' = [vid EXCEPT ![n] = [s EXCEPT !.unanswered = IF CanAnswer(s) THEN {} ELSE @]]
  /\ msgs' = msgs \cup Answers(n, s)
  /\ UNCHANGED <<initID, started>>

Recv(n, m) ==
  /\ m \in msgs \cup FaultyMsg
  /\ n \in m.to
  /\ \E u \in {Handle(vid[n], n, m)} : \E t \in {Conclude(u)} :
       /\ vid' = [vid EXCEPT ![n] = t]
       /\ msgs' = msgs \cup Votes(n, u, t) \cup Answers(n, u)
                       \cup Requests(n, u, IF "echo" \in m.is THEN {m.from} ELSE {})
  /\ UNCHANGED <<initID, started>>

Next ==
  \E n \in Correct :
    \/ Start(n)
    \/ RequestPayload(n)
    \/ ReleaseChunk(n)
    \/ \E m \in msgs \cup FaultyMsg : Recv(n, m)

Spec == Init /\ [][Next]_vars

-----------------------------------------------------------------------------
TypeOK ==
  /\ initID \in Node
  /\ vid \in [Correct -> VIDState]
  /\ started \in BOOLEAN
  /\ msgs \subseteq {m \in VIDMessage : m.from \in Correct}

(***************************************************************************)
(* The counters are the numbers of chunks stored, whichever of the two     *)
(* places a node's own chunk is counted in: otherwise decoding panics with *)
(* "insufficient shards" (or starts too late).                             *)
(***************************************************************************)
CountersMatch ==
  \A n \in Correct :
    /\ vid[n].nEchos = Cardinality(vid[n].echos)
    /\ vid[n].nChunks = Cardinality(vid[n].chunks)

(***************************************************************************)
(* No nil pointer is followed: Recv reads payloadScheduled while there is  *)
(* no payload, RequestPayload the echos while there is a VIDPayloadState,  *)
(* and SetPayload and Init of the initiator read initID.                   *)
(***************************************************************************)
PartsThere ==
  \A n \in Correct :
    /\ ~vid[n].payload => vid[n].pstate
    /\ vid[n].pstate => vid[n].core
    /\ n = initID /\ ~started => vid[n].core

(***************************************************************************)
(* The files are retrievable once one correct node takes them as           *)
(* dispersed: unless a correct initiator has sent all the chunks out,      *)
(* enough correct nodes already hold theirs.                               *)
(***************************************************************************)
Holders == {k \in Correct : vid[k].ourChunk}

Retrievable ==
  \A n \in Correct :
    PayloadDispersed(vid[n]) =>
      (initID \in Correct /\ started) \/ Cardinality(Holders) >= N - 2 * F

(***************************************************************************)
(* No payload chunk leaves a correct node that has not been told to        *)
(* release it, whoever asks and however early.                             *)
(***************************************************************************)
ChunksReleased ==
  \A n, k \in Correct :
    k \in vid[n].chunks /\ k # n => vid[k].canRelease /\ vid[k].ourChunk

(***************************************************************************)
(* One correct node cannot be left alone with a finished dispersal.        *)
(***************************************************************************)
Totality ==
  (\E n \in Correct : PayloadDispersed(vid[n]))
    ~> (\A n \in Correct : PayloadDispersed(vid[n]))

(***************************************************************************)
(* What a correct node disperses is complete at every correct node in the  *)
(* end, whatever a faulty node adds to or withholds from the votes.        *)
(***************************************************************************)
Completion == started ~> (\A n \in Correct : Terminated(vid[n]))

\* The correct nodes want the payload, and give their chunks away.
AllAsk == \A n \in Correct : vid[n].canRelease /\ (vid[n].pstate => vid[n].scheduled)

(***************************************************************************)
(* avid.go:889: a payload is dispersed when "all nodes will eventually be  *)
(* able to retrieve" the files.                                            *)
(***************************************************************************)
Retrieval ==
  (AllAsk /\ \E n \in Correct : PayloadDispersed(vid[n]))
    ~> (\A n \in Correct : vid[n].payload /\ vid[n].ad)
=============================================================================
