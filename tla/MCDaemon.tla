------------------------------ MODULE MCDaemon ------------------------------
(***************************************************************************)
(* The parts of pikad around the protocol, one at a time: a behaviour is   *)
(* about the server, about a connection, or about the block generator, and *)
(* the others rest.  They share nothing but what a part hands to the next. *)
(***************************************************************************)
EXTENDS Server

CONSTANTS
  n1, n2, Scenes,
  Message, MaxStreams, CancelChunkResponse, NoRetrieve,
  Config, maxEpoch, BlockTxs, MaxTxs, ChanCap,
  Plans      \* the orders in which a connection gets its messages

VARIABLES
  scene,
  given, channel, lpchan, streams, queuedHPMsgs, queuedLPMsgs, canceledReq, dropped,
  accepted, started, priority, received,
  config, up, inserted, queue, stopped, blocks, payload, sent, output, firstUnoutput,
  confirmed, printing, blockChannel, confirmedTx

P == INSTANCE Peer
G == INSTANCE BlockGenerator

\* What a connection carries, and how many streams for chunks it keeps open.
ASSUME Carries ==
  /\ Message \subseteq [kind : P!Kind, epoch : Nat, idx : Nat]
  /\ MaxStreams \in Nat

\* The flags, in all combinations that pikad accepts, and the sizes.
ASSUME Generates ==
  /\ Config \subseteq [chained : BOOLEAN, coupledValidity : BOOLEAN, infBacklog : BOOLEAN,
                      pipeline : Nat, parallelism : Nat]
  /\ maxEpoch \in Nat /\ BlockTxs \in Nat /\ MaxTxs \in Nat /\ ChanCap \in Nat

peerVars ==
  <<given, channel, lpchan, streams, queuedHPMsgs, queuedLPMsgs, canceledReq, dropped,
    accepted, started, priority, received>>
generatorVars ==
  <<config, up, inserted, queue, stopped, blocks, payload, sent, output, firstUnoutput,
    confirmed, printing, blockChannel, confirmedTx>>
mcvars == <<scene, vars, peerVars, generatorVars>>

\* The flags matter to the generator only.
MCInit ==
  /\ scene \in Scenes /\ Init /\ P!Init /\ G!Init
  /\ scene = "generator" \/ config = CHOOSE c \in Config : TRUE

OfServer == scene = "server" /\ UNCHANGED <<scene, peerVars, generatorVars>>
OfPeer == scene = "peer" /\ UNCHANGED <<scene, vars, generatorVars>>
OfGenerator == scene = "generator" /\ UNCHANGED <<scene, vars, peerVars>>

-----------------------------------------------------------------------------
\* A call that makes nothing and tells nothing changes nothing here.
ServerCalls ==
  \/ InitProtocol
  \/ Tick /\ made' # made
  \/ Receive /\ (goroutine'["loop"].event \/ made' # made)
  \/ goroutine["loop"].pc = "wait" /\ Arrive

InPlan(m) == \E p \in Plans : IsPrefix(Append(given, m), p)

PeerInputs ==
  \/ \E m \in Message : InPlan(m) /\ P!Transmit(m)
  \/ canceledReq = {} /\ P!RecvCancel(1, 0)

PeerSorts == P!SortHigh \/ P!SortLow \/ P!HandleEpochPriority
PeerCarries == \E k \in DOMAIN streams : P!Handle(k) \/ P!Receive(k)
PeerAccepts == \E s \in P!Session : P!AcceptPeer(s)

MCNext ==
  \/ OfServer /\ ServerCalls
  \/ OfServer /\ \E g \in {"loop", "ticker"} : Works(g)
  \/ OfServer /\ \E p \in Peers : Dial(p)
  \/ OfServer /\ Register
  \/ OfServer /\ Dispatch
  \/ OfPeer /\ PeerInputs
  \/ OfPeer /\ PeerSorts
  \/ OfPeer /\ PeerCarries
  \/ OfPeer /\ PeerAccepts
  \/ OfGenerator /\ G!Next

\* The fairness of the three specifications: a behaviour keeps its scene, so
\* that one condition may stand for two.
MCFairness ==
  /\ WF_mcvars((OfServer /\ InitProtocol) \/ (OfGenerator /\ G!LogConfirm))
  /\ WF_mcvars((OfServer /\ Works("loop")) \/ (OfGenerator /\ G!AccountLatency))
  /\ WF_mcvars((OfServer /\ Works("ticker")) \/ (OfPeer /\ PeerSorts))
  /\ WF_mcvars((OfServer /\ Register) \/ (OfPeer /\ PeerCarries))
  /\ WF_mcvars((OfServer /\ Dispatch) \/ (OfPeer /\ PeerAccepts))
  /\ \A p \in Peers : WF_mcvars(OfServer /\ Dial(p))

MCSpec == MCInit /\ [][MCNext]_mcvars /\ MCFairness

-----------------------------------------------------------------------------
M(k, e, i) == [kind |-> k, epoch |-> e, idx |-> i]

\* Chunks of an epoch whose stream has been closed; chunks of old epochs last.
MCPlans ==
  {<<M("respond", 1, 0), M("ba", 1, 0), M("respond", 2, 0), M("respond", 3, 0),
     M("finish", 2, 0), M("respond", 1, 1)>>,
   <<M("respond", 3, 0), M("ready", 1, 0), M("respond", 2, 0), M("disperse", 2, 0),
     M("respond", 1, 0), M("respond", 1, 1)>>}

MCMessage == UNION {ToSet(p) : p \in Plans}

Flags(c, v, b, p, q) ==
  [chained |-> c, coupledValidity |-> v, infBacklog |-> b, pipeline |-> p, parallelism |-> q]

MCConfig ==
  {Flags(TRUE, TRUE, FALSE, 4, 0), Flags(TRUE, FALSE, FALSE, 2, 1),
   Flags(FALSE, FALSE, FALSE, 1, 1), Flags(FALSE, TRUE, TRUE, 1, 1),
   Flags(FALSE, TRUE, FALSE, 3, 1), Flags(FALSE, TRUE, FALSE, 4, 1),
   Flags(FALSE, FALSE, FALSE, 0, 0)}

\* Coupled validity without references and a pipeline of more than three.
Coupled == {Flags(FALSE, TRUE, FALSE, 4, 1)}

-----------------------------------------------------------------------------
AllTypesOK == TypeOK /\ P!TypeOK /\ G!TypeOK

\* The other properties of a connection, by name.
NewestOpen == P!NewestOpen
Carried == P!Carried
Arrives == P!Arrives

\* Those of the block generator.
NoneLost == G!NoneLost
LoggedAsSent == G!LoggedAsSent
Counted == G!Counted
Reproposed == G!Reproposed
PanicsOvertaken == G!PanicsOvertaken
=============================================================================
