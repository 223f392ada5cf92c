-------------------------------- MODULE Peer --------------------------------
(***************************************************************************)
(* The connection from one node to another (peer_outgoing.go) up to the    *)
(* other's channel incoming (peer_incoming.go).  Messages are sorted into  *)
(* three sessions: signals and dispersals have one stream each, chunks one *)
(* stream per epoch, of which only so many stay open.  QUIC (a library)    *)
(* delivers what is written to a stream, in order, streams independently.  *)
(***************************************************************************)
EXTENDS Integers, Sequences, FiniteSets, SequencesExt, FiniteSetsExt

CONSTANTS
  Message,               \* what is sent, each once: [kind, epoch, idx]
  MaxStreams,            \* how many streams for chunks are open
  CancelChunkResponse,   \* flag: chunks that are not wanted any more are dropped
  NoRetrieve             \* flag: no chunk is sent at all

Session == {"signal", "hp", "lp"}
Kind == {"finish", "ba", "echo", "ready", "disperse", "request", "respond", "cancel"}

\* Chunks are low, dispersals medium, and all that decides is high.
VIDPriority(m) ==
  CASE m.kind = "respond"  -> "Low"
    [] m.kind = "disperse" -> "Medium"
    [] OTHER               -> "High"
EpochPriority(m) == IF m.kind = "ba" THEN "High" ELSE VIDPriority(m)
Priority(m) == IF m.kind = "finish" THEN "High" ELSE EpochPriority(m)
Low(m) == Priority(m) = "Low"

VARIABLES
  given,          \* all that has been put into transmit
  channel,        \* what waits behind transmit
  lpchan,         \* the chunks that wait for a stream
  streams,        \* all streams so far, the ones of signals and dispersals first
  queuedHPMsgs,   \* counters of messages on their way to a stream
  queuedLPMsgs,
  canceledReq,    \* the epochs and blocks that the other wants no chunk of
  dropped,        \* the chunks that were not written
  accepted,       \* the sessions that the receiver listens to
  started,        \* those of which it has seen a message,
  priority,       \* and the priority it takes the session for
  received        \* what it has put into incoming, from each session

sending == <<given, channel, lpchan, streams, queuedHPMsgs, queuedLPMsgs, dropped>>
receiving == <<accepted, started, priority, received>>
vars == <<sending, canceledReq, receiving>>

NewStream(s, e) == [session |-> s, epoch |-> e, queue |-> <<>>, wire |-> <<>>, open |-> TRUE]

Init ==
  /\ given = <<>> /\ channel = <<>> /\ lpchan = <<>>
  /\ streams = <<NewStream("signal", 0), NewStream("hp", 0)>>
  /\ queuedHPMsgs = 0 /\ queuedLPMsgs = 0
  /\ canceledReq = {} /\ dropped = {}
  /\ accepted = {} /\ started = {} /\ priority = [s \in Session |-> "High"]
  /\ received = [s \in Session |-> <<>>]

\* The open streams for chunks: the heap activeChans, and the map chans.
Active(strs) == {k \in DOMAIN strs : strs[k].session = "lp" /\ strs[k].open}

-----------------------------------------------------------------------------
\* The dispatcher of the server hands over a message.
Transmit(m) ==
  /\ m \notin ToSet(given)
  /\ given' = Append(given, m)
  /\ channel' = Append(channel, m)
  /\ UNCHANGED <<lpchan, streams, queuedHPMsgs, queuedLPMsgs, dropped, canceledReq>>
  /\ UNCHANGED receiving

StreamOf(m) == IF Priority(m) = "High" THEN 1 ELSE 2

SortHigh ==
  /\ channel # <<>> /\ ~Low(Head(channel))
  /\ channel' = Tail(channel)
  /\ streams' = [streams EXCEPT ![StreamOf(Head(channel))].queue = Append(@, Head(channel))]
  /\ queuedHPMsgs' = queuedHPMsgs + 1
  /\ UNCHANGED <<given, lpchan, queuedLPMsgs, dropped, canceledReq>>
  /\ UNCHANGED receiving

SortLow ==
  /\ channel # <<>> /\ Low(Head(channel))
  /\ channel' = Tail(channel)
  /\ IF NoRetrieve
     THEN dropped' = dropped \cup {Head(channel)} /\ UNCHANGED <<lpchan, queuedLPMsgs>>
     ELSE /\ lpchan' = Append(lpchan, Head(channel))
          /\ queuedLPMsgs' = queuedLPMsgs + 1
          /\ UNCHANGED dropped
  /\ UNCHANGED <<given, streams, queuedHPMsgs, canceledReq>>
  /\ UNCHANGED receiving

\* The message goes to the stream of its epoch, which is made if there is none.
Enqueued(m) ==
  LET own == {k \in Active(streams) : streams[k].epoch = m.epoch} IN
  IF own = {} THEN Append(streams, [NewStream("lp", m.epoch) EXCEPT !.queue = <<m>>])
  ELSE [streams EXCEPT ![CHOOSE k \in own : TRUE].queue = Append(@, m)]

TrimmedNewest(strs) ==   \* mutant: closes the newest
  IF Cardinality(Active(strs)) <= MaxStreams THEN strs
  ELSE LET last == CHOOSE k \in Active(strs) :
                     \A j \in Active(strs) : strs[k].epoch >= strs[j].epoch
       IN [strs EXCEPT ![last].open = FALSE]

\* Of too many streams the one of the smallest epoch is closed: it takes no
\* more messages.
Trimmed(strs) ==
  IF Cardinality(Active(strs)) <= MaxStreams THEN strs
  ELSE LET first == CHOOSE k \in Active(strs) :
                      \A j \in Active(strs) : strs[k].epoch <= strs[j].epoch
       IN [strs EXCEPT ![first].open = FALSE]

HandleEpochPriority ==
  /\ lpchan # <<>>
  /\ lpchan' = Tail(lpchan)
  /\ \E strs \in {Enqueued(Head(lpchan))} : streams' = Trimmed(strs)
  /\ UNCHANGED <<given, channel, queuedHPMsgs, queuedLPMsgs, dropped, canceledReq>>
  /\ UNCHANGED receiving

UnwantedByEpoch(m) ==   \* mutant: all chunks of the epoch
  /\ Low(m) /\ CancelChunkResponse
  /\ \E c \in canceledReq : c[1] = m.epoch
Unwanted(m) ==
  /\ Low(m) /\ CancelChunkResponse
  /\ <<m.epoch, m.idx>> \in canceledReq

HandleOpenOnly(k) ==   \* mutant: a closed stream writes no more
  LET m == Head(streams[k].queue) IN
  /\ streams[k].queue # <<>> /\ streams[k].open
  /\ IF Low(m)
     THEN queuedLPMsgs' = queuedLPMsgs - 1 /\ UNCHANGED queuedHPMsgs
     ELSE queuedHPMsgs' = queuedHPMsgs - 1 /\ UNCHANGED queuedLPMsgs
  /\ streams' = [streams EXCEPT ![k].queue = Tail(@), ![k].wire = IF Unwanted(m) THEN @ ELSE Append(@, m)]
  /\ dropped' = IF Unwanted(m) THEN dropped \cup {m} ELSE dropped
  /\ UNCHANGED <<given, channel, lpchan, canceledReq>>
  /\ UNCHANGED receiving

\* The goroutine of a stream writes the next message, or drops it.
Handle(k) ==
  LET m == Head(streams[k].queue) IN
  /\ streams[k].queue # <<>>
  /\ IF Low(m)
     THEN queuedLPMsgs' = queuedLPMsgs - 1 /\ UNCHANGED queuedHPMsgs
     ELSE queuedHPMsgs' = queuedHPMsgs - 1 /\ UNCHANGED queuedLPMsgs
  /\ streams' = [streams EXCEPT ![k].queue = Tail(@), ![k].wire = IF Unwanted(m) THEN @ ELSE Append(@, m)]
  /\ dropped' = IF Unwanted(m) THEN dropped \cup {m} ELSE dropped
  /\ UNCHANGED <<given, channel, lpchan, canceledReq>>
  /\ UNCHANGED receiving

\* A Cancel from the other node reaches the protocol of this one.
RecvCancel(e, i) ==
  /\ canceledReq' = canceledReq \cup {<<e, i>>}
  /\ UNCHANGED <<sending, receiving>>

-----------------------------------------------------------------------------
\* The other node accepts a session, and its dispatcher listens to it.
AcceptPeer(s) ==
  /\ s \notin accepted
  /\ accepted' = accepted \cup {s}
  /\ UNCHANGED <<sending, canceledReq, started, priority, received>>

\* The receiver takes a session for what its first message is.
Receive(k) ==
  LET s == streams[k].session
      m == Head(streams[k].wire)
  IN
  /\ streams[k].wire # <<>> /\ s \in accepted
  /\ streams' = [streams EXCEPT ![k].wire = Tail(@)]
  /\ started' = started \cup {s}
  /\ priority' = IF s \in started THEN priority
                 ELSE [priority EXCEPT ![s] = IF Low(m) THEN "Low" ELSE "High"]
  /\ received' = [received EXCEPT ![s] = Append(@, m)]
  /\ UNCHANGED <<given, channel, lpchan, queuedHPMsgs, queuedLPMsgs, dropped, canceledReq, accepted>>

Chunk == {m \in Message : Low(m)}

Next ==
  \/ \E m \in Message : Transmit(m)
  \/ SortHigh \/ SortLow \/ HandleEpochPriority
  \/ \E k \in DOMAIN streams : Handle(k) \/ Receive(k)
  \/ \E s \in Session : AcceptPeer(s)
  \/ \E m \in Chunk : RecvCancel(m.epoch, m.idx)

\* The sessions whose bytes the log counts as of high priority, or of low.
HighPriorityRead == {s \in started : priority[s] = "High"}
LowPriorityRead == {s \in started : priority[s] = "Low"}

\* The goroutines go on as long as any has something to do, and QUIC delivers
\* what has been written.
Fairness ==
  /\ WF_vars(SortHigh \/ SortLow \/ HandleEpochPriority)
  /\ WF_vars(\E k \in DOMAIN streams : Handle(k) \/ Receive(k))
  /\ \A s \in Session : WF_vars(AcceptPeer(s))

Spec == Init /\ [][Next]_vars /\ Fairness

-----------------------------------------------------------------------------
Line == Seq(Message)

\* The receiver takes a session for what it is.
TypeOK ==
  /\ Message \subseteq [kind : Kind, epoch : Nat, idx : Nat]
  /\ given \in Line /\ channel \in Line /\ lpchan \in Line
  /\ streams \in Seq([session : Session, epoch : Nat, queue : Line, wire : Line, open : BOOLEAN])
  /\ queuedHPMsgs \in Nat /\ queuedLPMsgs \in Nat
  /\ canceledReq \subseteq Nat \X Nat /\ dropped \subseteq Chunk
  /\ accepted \subseteq Session /\ started \subseteq accepted
  /\ priority \in [Session -> {"High", "Low"}]
  /\ HighPriorityRead = started \ {"lp"} /\ LowPriorityRead = started \cap {"lp"}
  /\ received \in [Session -> Line]

(***************************************************************************)
(* The streams that stay open are those of the newest epochs that had any  *)
(* chunk, one for each: chunks of an old epoch never push out newer ones,  *)
(* even when the stream of the old epoch has been closed and made again.   *)
(***************************************************************************)
NewestOpen ==
  LET seen == {streams[k].epoch : k \in {k \in DOMAIN streams : streams[k].session = "lp"}}
      open == {streams[k].epoch : k \in Active(streams)}
  IN
  /\ Cardinality(Active(streams)) = Min({MaxStreams, Cardinality(seen)})
  /\ open = {e \in seen : Cardinality({d \in seen : d > e}) < MaxStreams}

\* The messages in the streams of some sessions, by stream and position.
Of(s) == {k \in DOMAIN streams : streams[k].session \in s}
Waiting(s) == Cardinality(UNION {{k} \X DOMAIN streams[k].queue : k \in Of(s)})
Written(s) == Cardinality(UNION {{k} \X DOMAIN streams[k].wire : k \in Of(s)})

Signals(s) == FlattenSeq([n \in DOMAIN s |-> IF Priority(s[n]) = "High" THEN <<s[n]>> ELSE <<>>])

Arrived == UNION {ToSet(received[s]) : s \in Session}

Somewhere ==
  ToSet(channel) \cup ToSet(lpchan) \cup dropped \cup Arrived
    \cup UNION {ToSet(streams[k].queue) \cup ToSet(streams[k].wire) : k \in DOMAIN streams}

(***************************************************************************)
(* A message is in one place, and it is not written only if it is a chunk  *)
(* that the receiver has said it does not want, or chunks are not sent.    *)
(* The counters that the log shows are the lengths of the queues it waits  *)
(* in, and no signal overtakes another.                                    *)
(***************************************************************************)
Carried ==
  /\ Somewhere = ToSet(given)
  /\ Len(given) = Len(channel) + Len(lpchan) + Cardinality(dropped) + Cardinality(Arrived)
                    + Waiting(Session) + Written(Session)
  /\ \A m \in dropped : NoRetrieve \/ <<m.epoch, m.idx>> \in canceledReq
  /\ queuedHPMsgs = Waiting({"signal", "hp"}) /\ queuedLPMsgs = Waiting({"lp"}) + Len(lpchan)
  /\ IsPrefix(received["signal"], Signals(given))

(***************************************************************************)
(* Every message arrives unless it was dropped, also what was in a stream  *)
(* when that was closed.                                                   *)
(***************************************************************************)
Arrives == <>[](ToSet(given) = Arrived \cup dropped)
=============================================================================
