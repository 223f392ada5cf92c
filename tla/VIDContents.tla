---------------------------- MODULE VIDContents ----------------------------
(***************************************************************************)
(* What a VID of one node keeps for the others, as far as it matters where *)
(* the VID is: in memory, or on the disk (VIDStore).  The chunks of a VID  *)
(* are on the disk from the start, each under a key of its own, and the    *)
(* messages that carry our chunk carry a pointer to that key, which is     *)
(* read when the message is encoded (InMessageChunk).                      *)
(***************************************************************************)
EXTENDS ProtocolParams

CONSTANTS
  self,      \* the node
  Chunk,     \* what the initiator may disperse to this node
  NoChunk    \* nothing under a key yet

ASSUME SelfAssumption == self \in Node
ASSUME ChunkAssumption == NoChunk \notin Chunk

VARIABLES
  ourChunk,    \* what is under the key of our chunk
  promised,    \* the nodes that a message with a pointer to it is on the way to
  left         \* the chunks that have left in such messages

disk == <<ourChunk, promised, left>>

\* Go's requestUnanswered: a slice of N, nil, or a slice without elements.
Room == {"full", "nil", "empty"}

Contents ==
  [payload    : {"none", "block", "stripped"},
   chunks     : SUBSET Node,
   stored     : BOOLEAN,
   termed     : BOOLEAN,
   room       : Room,
   unanswered : SUBSET Node,
   canRelease : BOOLEAN]

\* The initiator has its block when the VID starts.
NewContents(payload) ==
  [payload    |-> payload,
   chunks     |-> {},
   stored     |-> FALSE,
   termed     |-> FALSE,
   room       |-> "full",
   unanswered |-> {},
   canRelease |-> FALSE]

\* A message of a kind, with a chunk if it is a Disperse; "ready" stands for
\* the Readys and Echoes after which the VID has terminated.
Message ==
  [is : {"request", "respond", "ready"}, from : Node]
    \cup [is : {"disperse"}, chunk : Chunk]

CoreThere(v) == v.payload = "none" \/ ~v.termed

FirstDisperseOnAny(v, m) == m.is = "disperse" /\ CoreThere(v)   \* mutant: takes every one
FirstDisperse(v, m) == m.is = "disperse" /\ CoreThere(v) /\ ~v.stored

Answerable(v) == v.canRelease /\ v.stored

\* A request that cannot be answered is recorded in the slice.
Record(v, k) == [v EXCEPT !.unanswered = @ \cup {k}]

\* Chunks are collected as long as there is something to decode.
AddChunk(v, k) == IF v.payload = "none" THEN [v EXCEPT !.chunks = @ \cup {k}] ELSE v

HandleMessage(v, m) ==
  CASE m.is = "request"  -> IF Answerable(v) THEN v ELSE Record(v, m.from)
    [] m.is = "respond"  -> AddChunk(v, m.from)
    [] m.is = "ready"    -> [v EXCEPT !.termed = TRUE]
    [] m.is = "disperse" -> IF FirstDisperse(v, m)
                            THEN [AddChunk(v, self) EXCEPT !.stored = TRUE] ELSE v

Answered(v) == [v EXCEPT !.room = "nil", !.unanswered = {}]

AnswerEarly(v) == IF v.canRelease THEN Answered(v) ELSE v   \* mutant: as above
Answer(v) == IF Answerable(v) THEN Answered(v) ELSE v

\* The initiator never decodes, the others do with N-2F chunks.
Decode(v) ==
  IF v.payload = "none" /\ Cardinality(v.chunks) >= N - 2 * F
  THEN [v EXCEPT !.payload = "block"] ELSE v

RecvVID(v, m) == Decode(Answer(HandleMessage(v, m)))

\* Those that get a pointer to our chunk when v becomes able to answer.
Owed(v) == IF Answerable(v) THEN v.unanswered ELSE {}

Asking(v, m) == IF m.is = "request" /\ Answerable(v) THEN {m.from} ELSE {}

-----------------------------------------------------------------------------
(***************************************************************************)
(* What a caller does with a VID v that it has a pointer to, from where    *)
(* the VID goes on as w.                                                   *)
(***************************************************************************)
Receives(v, w, m) ==
  /\ w = RecvVID(v, m)
  /\ ourChunk' = IF FirstDisperse(v, m) THEN m.chunk ELSE ourChunk
  /\ promised' = promised \cup Asking(v, m) \cup Owed(HandleMessage(v, m))
  /\ UNCHANGED left

Releases(v, w) ==
  LET r == [v EXCEPT !.canRelease = TRUE] IN
  /\ ~v.canRelease
  /\ w = Answer(r)
  /\ promised' = promised \cup Owed(r)
  /\ UNCHANGED <<ourChunk, left>>

\* Pika.PrintProbes drops the transactions of a block that it has printed.
Strips(v, w) ==
  /\ v.payload = "block"
  /\ w = [v EXCEPT !.payload = "stripped"]
  /\ UNCHANGED disk

\* A message to k is encoded: only now is the chunk read.
Encode(k) ==
  /\ k \in promised
  /\ promised' = promised \ {k}
  /\ left' = left \cup {ourChunk}
  /\ UNCHANGED ourChunk

Empty ==
  /\ ourChunk = NoChunk
  /\ promised = {}
  /\ left = {}
=============================================================================
