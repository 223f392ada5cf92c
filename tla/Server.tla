------------------------------- MODULE Server -------------------------------
(***************************************************************************)
(* What a node does with the messages of its protocol (server.go, peer.go).*)
(* Two goroutines call the protocol: one with what has come in, the other  *)
(* to start it and then ten times a second.  A third one, the dispatcher,  *)
(* hands every message to the connection with its destination, or keeps it *)
(* until there is one.  A message to the node itself is for loopbackMsgs.  *)
(* The protocol is any automaton: a call returns any messages.             *)
(***************************************************************************)
EXTENDS Naturals, Sequences, FiniteSets, SequencesExt, Functions

CONSTANTS
  Node,      \* all nodes
  self,      \* this one
  MaxMsgs,   \* how many messages the protocol makes
  InCap      \* the capacity of the channel incoming

ASSUME SelfIsNode == self \in Node
ASSUME Capacities == MaxMsgs \in Nat /\ InCap \in Nat \ {0}

VARIABLES
  made,           \* the messages made so far: destination, and who called
  heard,          \* the node's own messages that its protocol has handled
  goroutine,      \* of "loop" and "ticker": where it is, what it holds
  incoming,       \* how many messages wait in the channel incoming
  sendChan,       \* the channel to the dispatcher
  pushed,         \* all that has ever been put into it
  dialed,         \* the peers with which the three sessions are open
  newPeer,        \* the channel newOutgoingPeer
  outgoing,       \* the peers that the dispatcher knows (outgoingPeers)
  buffer,         \* what it keeps for the others
  transmit,       \* all that has been handed to a connection
  termReported,   \* main has been told that the protocol has terminated
  statechan       \* how often

calling == <<made, heard>>
connecting == <<dialed, newPeer>>
dispatching == <<outgoing, buffer, transmit>>
reporting == <<termReported, statechan>>
vars == <<calling, goroutine, incoming, sendChan, pushed, connecting, dispatching, reporting>>

Peers == Node \ {self}
Dest(k) == made[k].to
To(s, p) == FlattenSeq([n \in DOMAIN s |-> IF Dest(s[n]) = p THEN <<s[n]>> ELSE <<>>])

Idle == [pc |-> "wait", queue |-> <<>>, out |-> <<>>, event |-> FALSE]

Init ==
  /\ made = <<>> /\ heard = {}
  /\ goroutine = [loop |-> Idle, ticker |-> [Idle EXCEPT !.pc = "init"]]
  /\ incoming = 0 /\ sendChan = <<>> /\ pushed = <<>>
  /\ dialed = {} /\ newPeer = <<>>
  /\ outgoing = {}
  /\ buffer = [p \in Node |-> <<>>] /\ transmit = [p \in Node |-> <<>>]
  /\ termReported = FALSE /\ statechan = 0

-----------------------------------------------------------------------------
\* The numbers of the messages that a call has just made.
New == [k \in 1..(Len(made') - Len(made)) |-> Len(made) + k]

\* A call of the protocol, alone under pMux: here it makes up to two messages.
Call(by) ==
  \E dests \in {<<>>} \cup {<<p>> : p \in Node} \cup (Node \X Node) :
    /\ Len(made) + Len(dests) <= MaxMsgs
    /\ made' = made \o [k \in DOMAIN dests |-> [to |-> dests[k], by |-> by]]

Become(g, st) == goroutine' = [goroutine EXCEPT ![g] = st]

Elsewhere == UNCHANGED <<connecting, dispatching, reporting>>

\* initProtocol, which drops the event.
InitProtocol ==
  /\ goroutine["ticker"].pc = "init"
  /\ Call("init")
  /\ Become("ticker", [Idle EXCEPT !.pc = "loopback", !.queue = New])
  /\ UNCHANGED <<heard, incoming, sendChan, pushed>> /\ Elsewhere

\* The ticker's dummy message: what the call returns is sent as it is.
Tick ==
  /\ goroutine["ticker"].pc = "wait"
  /\ Call("tick")
  /\ Become("ticker", [Idle EXCEPT !.pc = "send", !.out = New])
  /\ UNCHANGED <<heard, incoming, sendChan, pushed>> /\ Elsewhere

\* The next message that has come in.
Receive ==
  /\ goroutine["loop"].pc = "wait"
  /\ incoming > 0
  /\ incoming' = incoming - 1
  /\ Call("loop")
  /\ \E e \in BOOLEAN :
       Become("loop", [Idle EXCEPT !.pc = "loopback", !.queue = New, !.event = e])
  /\ UNCHANGED <<heard, sendChan, pushed>> /\ Elsewhere

\* The messages in front of the first one that is to the node itself.
OwnFrom(s) == SelectInSeq(s, LAMBDA k : Dest(k) = self)

\* loopbackMsgs: nothing to the node itself is left.
LoopbackEnds(g) ==
  LET st == goroutine[g] IN
  /\ st.pc = "loopback" /\ OwnFrom(st.queue) = 0
  /\ Become(g, [st EXCEPT !.pc = "send", !.queue = <<>>, !.out = @ \o st.queue])
  /\ UNCHANGED <<calling, incoming, sendChan, pushed>> /\ Elsewhere

LoopbackForgetting(g) ==   \* mutant: what the call returns replaces the queue
  LET st == goroutine[g]
      n  == OwnFrom(st.queue)
  IN
  /\ st.pc = "loopback" /\ n # 0
  /\ heard' = heard \cup {st.queue[n]}
  /\ Call(IF g = "loop" THEN "loop" ELSE "init")
  /\ \E e \in BOOLEAN :
       Become(g, [st EXCEPT !.out = @ \o SubSeq(st.queue, 1, n - 1),
                               !.queue = New, !.event = @ \/ e])
  /\ UNCHANGED <<incoming, sendChan, pushed>> /\ Elsewhere

\* It handles the first of them, and what that makes joins the queue.
Loopback(g) ==
  LET st == goroutine[g]
      n  == OwnFrom(st.queue)
  IN
  /\ st.pc = "loopback" /\ n # 0
  /\ heard' = heard \cup {st.queue[n]}
  /\ Call(IF g = "loop" THEN "loop" ELSE "init")
  /\ \E e \in BOOLEAN :
       Become(g, [st EXCEPT !.out = @ \o SubSeq(st.queue, 1, n - 1),
                               !.queue = SubSeq(st.queue, n + 1, Len(st.queue)) \o New,
                               !.event = @ \/ e])
  /\ UNCHANGED <<incoming, sendChan, pushed>> /\ Elsewhere

\* One message after the other goes to the dispatcher; the other goroutine
\* may do the same meanwhile.
Push(g) ==
  LET st == goroutine[g] IN
  /\ st.pc = "send" /\ st.out # <<>>
  /\ sendChan' = Append(sendChan, Head(st.out))
  /\ pushed' = Append(pushed, Head(st.out))
  /\ Become(g, [st EXCEPT !.out = Tail(@)])
  /\ UNCHANGED <<calling, incoming>> /\ Elsewhere

\* All is sent.  The loop looks at the events of its calls, the ticker at none.
Finish(g) ==
  LET st == goroutine[g] IN
  /\ st.pc = "send" /\ st.out = <<>>
  /\ Become(g, Idle)
  /\ IF g = "loop" /\ st.event /\ ~termReported
     THEN termReported' = TRUE /\ statechan' = statechan + 1
     ELSE UNCHANGED reporting
  /\ UNCHANGED <<calling, incoming, sendChan, pushed, connecting, dispatching>>

-----------------------------------------------------------------------------
\* A connection puts a message into the channel, if that is not full.
Arrive ==
  /\ incoming < InCap
  /\ incoming' = incoming + 1
  /\ UNCHANGED <<calling, goroutine, sendChan, pushed>> /\ Elsewhere

\* connectPeer opens three sessions, each tried until it succeeds.
Dial(p) ==
  /\ p \notin dialed
  /\ dialed' = dialed \cup {p}
  /\ newPeer' = Append(newPeer, p)
  /\ UNCHANGED <<calling, goroutine, incoming, sendChan, pushed, dispatching, reporting>>

RegisterLater ==   \* mutant: what is kept goes out behind what comes next
  /\ newPeer # <<>>
  /\ newPeer' = Tail(newPeer)
  /\ outgoing' = outgoing \cup {Head(newPeer)}
  /\ UNCHANGED <<buffer, transmit>>
  /\ UNCHANGED <<calling, goroutine, incoming, sendChan, pushed, dialed, reporting>>

\* The dispatcher learns of a connection and empties the buffer into it.
Register ==
  /\ newPeer # <<>>
  /\ LET p == Head(newPeer) IN
       /\ outgoing' = outgoing \cup {p}
       /\ transmit' = [transmit EXCEPT ![p] = @ \o buffer[p]]
       /\ buffer' = [buffer EXCEPT ![p] = <<>>]
  /\ newPeer' = Tail(newPeer)
  /\ UNCHANGED <<calling, goroutine, incoming, sendChan, pushed, dialed, reporting>>

DispatchWaiting ==   \* mutant: waits for the connection
  /\ sendChan # <<>>
  /\ LET p == Dest(Head(sendChan)) IN
       /\ p \in outgoing
       /\ transmit' = [transmit EXCEPT ![p] = Append(@, Head(sendChan))]
  /\ sendChan' = Tail(sendChan)
  /\ UNCHANGED <<calling, goroutine, incoming, pushed, connecting, outgoing, buffer, reporting>>

\* The dispatcher takes a message.
Dispatch ==
  /\ sendChan # <<>>
  /\ LET m == Head(sendChan)
         p == Dest(m)
     IN IF p \in outgoing
        THEN transmit' = [transmit EXCEPT ![p] = Append(@, m)] /\ UNCHANGED buffer
        ELSE buffer' = [buffer EXCEPT ![p] = Append(@, m)] /\ UNCHANGED transmit
  /\ sendChan' = Tail(sendChan)
  /\ UNCHANGED <<calling, goroutine, incoming, pushed, connecting, outgoing, reporting>>

Works(g) == Loopback(g) \/ LoopbackEnds(g) \/ Push(g) \/ Finish(g)

Next ==
  \/ InitProtocol \/ Tick \/ Receive
  \/ \E g \in {"loop", "ticker"} : Works(g)
  \/ Arrive \/ \E p \in Peers : Dial(p)
  \/ Register \/ Dispatch

(***************************************************************************)
(* A goroutine that can go on does so, a peer can be reached sooner or     *)
(* later, and select of Go picks any of the channels that are ready.       *)
(***************************************************************************)
Fairness ==
  /\ WF_vars(InitProtocol)
  /\ \A g \in {"loop", "ticker"} : WF_vars(Works(g))
  /\ \A p \in Peers : WF_vars(Dial(p))
  /\ WF_vars(Register) /\ WF_vars(Dispatch)

Spec == Init /\ [][Next]_vars /\ Fairness

-----------------------------------------------------------------------------
MsgId == 1..MaxMsgs
Line == Seq(MsgId)

TypeOK ==
  /\ made \in Seq([to : Node, by : {"init", "tick", "loop"}]) /\ Len(made) <= MaxMsgs
  /\ heard \subseteq MsgId
  /\ \A g \in {"loop", "ticker"} : LET st == goroutine[g] IN
       /\ st.pc \in {"init", "wait", "loopback", "send"}
       /\ st.queue \in Line /\ st.out \in Line /\ st.event \in BOOLEAN
  /\ incoming \in 0..InCap
  /\ sendChan \in Line /\ pushed \in Line
  /\ dialed \subseteq Peers /\ newPeer \in Seq(Peers) /\ outgoing \subseteq Peers
  /\ buffer \in [Node -> Line] /\ transmit \in [Node -> Line]
  /\ termReported \in BOOLEAN /\ statechan = IF termReported THEN 1 ELSE 0

(***************************************************************************)
(* Whenever a connection comes up, it gets the messages in the order in    *)
(* which they were sent: first those that had to wait, then the others.    *)
(***************************************************************************)
InLine ==
  \A p \in Peers : transmit[p] \o buffer[p] \o To(sendChan, p) = To(pushed, p)

(***************************************************************************)
(* A message is in one place only, and none is lost: it is with one of the *)
(* goroutines, with the dispatcher, with a connection, or handled.         *)
(***************************************************************************)
Holds(s, k) == Cardinality({n \in DOMAIN s : s[n] = k})

Places(k) ==
  LET held(g) == Holds(goroutine[g].queue, k) + Holds(goroutine[g].out, k) IN
  (IF k \in heard THEN 1 ELSE 0) + held("loop") + held("ticker")
    + Holds(sendChan, k) + Holds(buffer[Dest(k)], k) + Holds(transmit[Dest(k)], k)

InOnePlace == \A k \in DOMAIN made : Places(k) = 1

(***************************************************************************)
(* Every message to another node reaches its connection, and every one to  *)
(* the node itself its protocol, but for the ticker's.                     *)
(***************************************************************************)
Arrived(k) == k \in heard \cup ToSet(transmit[Dest(k)])

Delivered ==
  <>[](\A k \in DOMAIN made : (Dest(k) = self /\ made[k].by = "tick") \/ Arrived(k))

(***************************************************************************)
(* "the initiating node will hear its own Disperse message" (avid.go:552): *)
(* the protocol hears what it sends itself, whoever has called it.         *)
(***************************************************************************)
HearsItself ==
  \A k \in MsgId :
    (k \in DOMAIN made /\ Dest(k) = self) ~> (k \in heard)
=============================================================================
