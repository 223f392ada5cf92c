# A verification project for dispersed-ledger

dispersed-ledger is a BFT state machine replication protocol in Go. `N` nodes,
of which `F` may be faulty (`N >= 3F+1`), append blocks to a common ledger. In
every epoch each node disperses its block with a verifiable information
dispersal (VID), and the nodes run one binary agreement (BA) per block to fix
which dispersals count. Retrieving the blocks comes later and does not hold up
the next epoch. This directory holds TLA+ models of the protocol code, TLC
configurations that check them on small instances, and TLAPS proofs of what
holds for all of them.

## 1. The system

| part | source | state | operations |
|---|---|---|---|
| BAEpoch | `pika/ba.go` 8-251 | votes heard and sent, beliefs, candidates | `SetEstimation`, `Init`, `Recv` (Viable, Agreement) |
| BA | `pika/ba.go` 253-613 | epochs, Terms heard, current epoch, output | `SetInput`, `Init`, `Recv` (epoch message, Term) |
| VID | `pika/avid.go` | chunks, Echoes, Readys, requests, flags; three parts dropped one by one | `SetPayload`, `Init`, `Recv`, `RequestPayload`, `ReleaseChunk` |
| PikaEpoch | `pika/pika.go` 53-605 | N VIDs (in memory or on disk, with reference counts), N BAs, what has been requested and released | `Init`, `Recv`, `StartRequesting`, `Request`, `Release`, `ConfirmUntil`, paging |
| Pika | `pika/pika.go` 607-1186 | epochs, counters of started, dispersed, output epochs, levels per node | `Init`, `Recv` |
| server | `pikad/server.go`, `peer.go` | peers, buffers for peers not connected, channels | dispatcher, ticker, incoming loop, loopback |
| peer connections | `pikad/peer_outgoing.go`, `peer_incoming.go` | streams per priority and epoch, cancelled requests | `handle`, `connect`, `receive` |
| block generator | `pikad/bwload.go`, `latency.go`, `pika.go` 962-1034 | transactions waiting, blocks proposed, the log's channel | `InsertTransaction`, `TakeBlock`, `FillBlock`, `EmptyBlock`, `LogConfirm`, `AccountLatency` |
| emulator | `emulator/netsim.go`, `server.go`, `sim.go` | time, servers, their queues | `Scheduler.Run`, `Server.Run`, `FIFO.Send`, `Recv`, `Sync` |
| test bed, plots | `testbed/`, `pikad/pikaperf/` | none of the protocol | scripts |

Every protocol is an I/O automaton: `Recv(m)` and `Init()` change the state and
return messages. A call runs under one mutex per process, so a step of a model
is one call. A protocol forwards messages to its children by epoch and index.
A node is one process; there is no recovery from a crash (state on the disk
serves to save memory and is never read by a restarted process).

What is hard: messages of any epoch may arrive before the node has started it
or after it has left it; state is dropped when the code believes that it is not
needed any more; thresholds (`F+1`, `2F+1`, `N-F`, `N-2F`) stand next to each
other; faulty nodes say different things to different nodes; a node that is
done must not leave the others behind.

The properties that make each part correct:

* BAEpoch: one Agreement per node; beliefs come from correct nodes; two nodes
  with one candidate have the same one; every epoch ends when the nodes are heard.
* BA: outputs are final, equal, and somebody's input; a Term locks all later
  epochs; everybody outputs.
* VID: what one correct node takes as dispersed is retrievable by all; it
  becomes dispersed at all; counters match what is stored; dropped state is not
  read; chunks are withheld until released.
* PikaEpoch, Pika: blocks come out once, in the same order at every node, none
  skipped; at most the configured number of epochs is under way; every epoch is output.
* paging: a VID that is paged out, read back and changed is one that never left memory.
* server: messages reach a peer in the order they were made, whenever its
  connection comes up, none lost or doubled; a node handles what it sends itself.
* peers: each message arrives or was not wanted; signals keep their order; the
  streams that stay open are those of the newest epochs.
* block generator: a transaction is in one place that can still be confirmed;
  what is logged is what was dispersed; the log catches up.
* emulator: all servers are in the same tick; a queue is a queue while senders
  and the receiver use it at once; it ends when all protocols have.

## 2. Modules

| module | models | notes |
|---|---|---|
| `ProtocolParams` | `ProtocolParams`, the start-up check of `N` and `F` | constants and their assumptions |
| `BAEpoch` | type BAEpoch | no variables: a record and operators on it |
| `BARound` | one epoch on all nodes | extends `BAEpoch` |
| `BinaryAgreement` | what a BA promises | abstract |
| `BA` | type BA on all nodes | extends `BAEpoch`; refines `BinaryAgreement` |
| `VID` | one dispersal on all nodes | |
| `PikaEpoch` | type PikaEpoch | no variables: a record and operators; a VID or BA is what PikaEpoch sees of it |
| `LedgerEpoch` | one epoch on all correct nodes | extends `PikaEpoch`; VIDs and BAs do what `VID` and `BinaryAgreement` promise |
| `Pika` | type Pika at one node | extends `PikaEpoch`; the other nodes do what `LedgerEpoch` shows |
| `VIDContents` | what a VID holds, as far as paging can spoil it | extends `ProtocolParams` |
| `VIDInMemory` | a VID that is never paged out | abstract |
| `VIDStore` | `ReadVID`, `WriteVID`, `FreeVID`, `StashVID`, with calls that nest | refines `VIDInMemory` |
| `DBKeys` | the keys of VIDs and chunks in the database | operators only |
| `Server` | the goroutines that call the protocol, the dispatcher, dialing | the protocol is any automaton |
| `Peer` | a connection: sorting, streams, Cancel, the receiver | |
| `BlockGenerator` | the way of a transaction from the queue to the latency log | with what `initNextEpoch` takes |
| `Mailbox` | what a queue of the emulator promises | abstract |
| `FIFO` | the ring buffer of `netsim.go`, with concurrent senders | refines `Mailbox` |
| `Emulator` | scheduler, servers and main, over mailboxes | the protocol is any automaton |
| `MCBARound`, `MCBA`, `MCVID`, `MCVIDStore`, `MCLedgerEpoch`, `MCPika`, `MCDaemon`, `MCEmulator` | instances for TLC | bounds, faulty nodes, schedules |
| `ProtocolParams_proof` | quorum lemmas | |
| `BARound_proof`, `BA_proof`, `LedgerEpoch_proof`, `Pika_proof` | theorems about the module of that name | `Pika_proof` also about `ConfirmUntil` of `PikaEpoch` |
| `VID_proof` | theorems about `VID`, `VIDStore` and `DBKeys` | |
| `Daemon_proof` | theorems about `Server`, `Peer` and `BlockGenerator` | |
| `Emulator_proof` | theorems about `Emulator` and `FIFO` | |

A record models a Go struct and keeps the names of its fields; a slice of
booleans with its counter is a set of nodes (in `VID` the counters are kept,
because the code increments them in two places). A method is an operator from
record to record, or an action when it is an entry point. Operators with the
comment `mutant:` are plausible mistakes in the one after them; nothing uses
them: they say which mistake each property rules out.

The layers are stacked by what they promise. `BARound` shows what an epoch of a
BA does with its messages, `BA` that the epochs refine `BinaryAgreement`, `VID`
what a dispersal guarantees. `LedgerEpoch` replaces the messages below it by
steps that do anything these promises allow: a BA decides something that was put
in, the same at all nodes; a dispersal ends nowhere before it has begun, and
everywhere once it has ended somewhere. `Pika` does the same one level up: at
most `F` blocks of an epoch are rejected, accepted blocks exist, references of
correct nodes are to dispersals that have ended. So each layer is small enough
to be checked with every interleaving of its own steps, and a promise is checked
where it is made: agreement and validity by `ImplementsAgreement`, availability
by `Retrievable`, `Totality` and `Completion`, acceptance by `AcceptsEnough` and
`AcceptedIsDispersed`, the end of an epoch by `EpochEnds`.

In `Pika` the counters per node (`firstUndispersed`, `firstUnretrieved`,
`firstUnrequested`, `firstNotStartedRequest`) are recomputed where they are
read: they only skip epochs for which the loop would do nothing. Nagle's
algorithm (clock and queue length) may hold back any epoch; it is a choice in
`InitEpochs`. A call to `Recv` is one step with everything it does at its
end: requests, new epochs, output.

The network of `BARound`, `BA` and `VID` is the set of messages sent by correct
nodes, and `FaultyMsg` is all a faulty node may ever say. Messages stay in the
set: each handler looks first whether it has heard the sender, so handling a
message twice is a stutter, and the model covers loss (never handling it), delay
and reordering. In `MCVID` the order that pikad keeps is put back: all messages
of high priority from one node to another share a stream, while Disperses and
chunks have their own. `Peer` shows where that order comes from (`Carried`).

`VIDStore` follows one VID. `calls` is the stack of calls that hold it, `vRefCount`
its length as the code counts it, `image` what the database has under its key.
An update goes through the pointer of the innermost call. To `VIDInMemory` all
of this is one variable, the VID wherever it is. What paging could spoil is
kept: chunks promised to others (a message holds the key of the chunk, not the
chunk, avid.go:431), the requests' slice, which comes back from the disk empty
instead of nil. That no two VIDs share a key is `KeysApart`.

`Server`, `Peer` and `BlockGenerator` are the parts of `pikad` around the
protocol. A step of `Server` is what a goroutine does between two points where
another can come in: a call of the protocol under its mutex, a write to a
channel. The protocol returns any messages, to any node. In `Peer` the steps are
those of the goroutines that sort, pick a stream, and write to one. In
`BlockGenerator` a block is an index into `blocks`, because the code shares the
object between the epoch, its VID and the log; `FillBlock` changes that object.
The BAs of an epoch end in one step, for epochs in any order; a node that reads the
output of its BA before that panics (`Panic`), and nothing happens after it (`up`).

`Emulator` has one step for each thing a server's goroutine does between two
accesses to shared state: wait for the tick, fetch a message, have it processed,
send one of the messages made. A call of the protocol with the calls for its own
messages to itself is one step; it returns the event that `Merge` makes of
theirs. The wait group is a counter, the tick a variable that the servers look
at under its lock. `FIFO` splits `Send` where it takes its number and where it
takes each lock, and `Recv` likewise.

## 3. Checks

Four nodes with `F = 1` are the smallest system the code accepts; every
threshold (2, 3, 3, 2) is reached there, and one faulty node can be on both
sides of a split. `CHECK_DEADLOCK FALSE` is used where all messages have been
handled and nothing is left to do.

| run | question | bound |
|---|---|---|
| `round_safety` | votes, beliefs and candidates in one epoch under a faulty node | 4 nodes, F = 1, estimations split or not, votes of the faulty node for the other value that reach any of the nodes at any time |
| `ba` | agreement and validity over several epochs; does everybody output | epochs up to 3; the faulty node votes differently to different nodes on one split of inputs (`split`), or sends an Agreement to one node, a Term to another, or neither (`claim`, any inputs) |
| `ba_parting` | is an agreed value known by all in the end (expected violation) | one vote of the faulty node to each of two nodes, inputs TRUE, TRUE, FALSE |
| `vid` | retrievable, totality; counters, dropped state, release, requests, retrieval, completion | two plots, told apart by the initiator: the faulty one reaches two or three nodes; or a correct one, requests before chunks, one node asks early, gifts of chunks |
| `epoch` | are `N-F` blocks accepted, all of them dispersed; does the epoch end, with its blocks | two scenes: the faulty node's dispersal ends at any node first, or it is silent and blocks come late; two blocks are slow |
| `pika_order` | what an epoch confirms: bounded, no censorship, one order of output, each block once | 4 epochs, 2 slow blocks, levels that go back, a reference of the faulty node to epoch 6 |
| `pika_live` | is every epoch output, every block there | 2 epochs, pipeline 1, messages one epoch ahead, requests for one epoch |
| `vid_store` | is a paged VID one that stays in memory; are the keys apart | calls nested twice (the proofs are for any depth), two chunks, two epochs' keys |
| `daemon` | order, loss, drops, open streams, counters; transactions; the log | server: 2 nodes, 3 messages; connection: two orders of 6 messages, 2 streams, a Cancel; generator: 7 settings of the flags, 4 epochs, 3 transactions, 2 to a block |
| `server_ticker` | does a node hear its own messages (expected violation) | as `daemon`, the server alone |
| `generator_rejected` | is a rejected block proposed again (expected violation) | as `daemon`, the generator alone, with `-chained=false -coupled -p 4 -q 1` |
| `emulator` | are the servers in step, is a queue a queue, does it end | 2 servers and a crashed node, 4 ticks, 2 messages that a tick's bandwidth may cover or not; a ring of one cell, 2 senders, 8 messages |

Two runs, `daemon` and `emulator`, put several specifications into one: a
variable `scene` says which of them a behaviour is about, and the others do not
move. `ba` and `epoch` have scenes (`plot`, `scene`) for what the faulty node is
up to. A ring of one cell without headroom grows whenever a second message is
sent in a tick and meets every position of the free part, none included; the
code starts with 256 cells and grows by at least four, which only makes the
cases rarer. Two messages are enough for the emulator: one that is sent while
another is downloaded, at a server that is ahead or behind. With three TLC needs
five minutes and finds the same.

In `daemon` a call of the protocol that makes nothing and reports nothing is left
out (no property sees it), a connection gets its messages in one of two orders
chosen so that streams are closed with chunks in them and made again, and one
block is cancelled. `Delivered`, `Arrives` and `Counted` hold for the same bounds
under fairness.

Fairness is weak fairness on the steps of the correct nodes taken together with
finitely many messages (QUIC retransmits, the incoming loop takes every message),
never on a faulty node. The coin of a BA is fixed (`e % 2`, which the source
marks as a bug), and `ba_parting` shows that a faulty node's votes can keep a BA
from ending, so `Terminates` asks for an end in the plot `claim` only, where the
faulty node sends one Agreement and one Term, or nothing; nothing is assumed of,
and nothing asked in, the plot `split`. In `pikad` and in the emulator fairness
is on each goroutine that can go on: Go's scheduler is preemptive, a `select`
picks any ready channel, and dials are repeated until they succeed. A behaviour
of `daemon` has one scene, so one condition of `MCFairness` may stand for the
goroutine of one part or of another.

In `MCLedgerEpoch` and `MCPika` the blocks that a run is not about are quick:
their dispersal and agreement take place in a fixed order as soon as they can,
and only the slow ones interleave. Which ones are slow is chosen so that a block
is rejected in its own epoch and referred to by some later blocks and not by
others. The window of requests of the code is pipeline + 10 epochs; `Window` is
the 10, and `pika_live` sets it to 0 so that the window matters.

Fairness of `LedgerEpoch` and `Pika` is weak fairness on what the layer below
has been shown to do (`VIDEnds`, `BlockArrives`, `BAEnds`), on starting an epoch
once the delay of Nagle's algorithm is over (the server's ticker calls `Recv`
ten times a second), and on nothing else: a BA of an epoch is only promised to
end once the node itself has started the epoch. That BAs
end is what `ba` checks, with its restriction on the faulty node: the liveness of
`epoch` and `pika_live` stands on it.

Three runs are expected to fail. `ba_parting`: a node that decides in an epoch
stops relaying Viables in it, and its Term speaks for it in later epochs only. A
faulty node needs two messages to leave a correct node behind: `Viable(FALSE)` to
`n2`, which then votes for `FALSE`, and `Agreement(TRUE)` to `n1`, which then
decides. `n3` hears of `FALSE` from `n2` and itself alone, so that it never counts
`n2`'s Agreement and never ends epoch 0, although it ends the epochs after it. An
Agreement is said to mean "that all nodes will eventually know the value is available"
(ba.go:12-13). Termination fails on the same schedule; agreement and validity do not.
`server_ticker`: what a protocol sends to its own node when the ticker has called
it goes to the dispatcher, which keeps it for a connection to itself that is
never made (server.go:152-163); a node is said to hear its own Disperse
(avid.go:552), but an epoch that the ticker starts disperses to the others only.
`generator_rejected`: with coupled validity, no references, a pipeline of four and the
default parallelism of one, epochs 0, 1 and 2 are dispersed one after the other while
the blocks of epoch 0 are slow to arrive. Epoch 3 is then the fourth that is not output
and has to be empty (pika.go:955, 998), which is decided before the rejection of our last
block is looked at; its payload is dropped at 1016. "If the previous block was
rejected, we need to repropose those data" (pika.go:1001): here nobody does, and the
transactions are lost. `NoneLost` is therefore asked of the other flags (`Reproposes`):
with references, or without coupled validity, or with a pipeline of one to three.

The models also show, in counterexamples that are not kept as runs, more places
where a comment says too much or a setting does not work:

* A dispersal is said to be finished when all nodes can retrieve the files
  (avid.go:889). A node that has decoded both files drops the state that its own
  Disperse fills (avid.go:534); when that comes late, it has no chunk to give
  away. With `F >= 2` (seven nodes) so many nodes can be in this state that
  another correct node never collects `N-2F` chunks.
* `-chained=false`: an epoch asks for the output of the node's BA of the one before it
  (pika.go:1000), which panics when that has not terminated (ba.go:369). A pipeline of one
  rules that out. With another pipeline it depends on the parallelism: without a cap, or with
  a cap of two or more, the next epoch may simply start too early. With the default cap of
  one it starts when as many epochs are dispersed as have been started, so that the panic
  needs an epoch dispersed at this node that it has not started itself, which the other
  nodes' messages can bring about (`PanicsOvertaken`, a theorem).
* An epoch may terminate before its VIDs (pika.go:55-56), because blocks
  released early may be decoded first. The cap on parallel epochs (pika.go:905-906)
  subtracts the number of dispersed epochs from the index of the next one to start,
  and some of the dispersed ones the node may not have started. "Continuous
  dispersed" (pika.go:1093) jumps over gaps. Blocks are requested `pipeline + 10`
  levels ahead, not "at most 30" (pika.go:1098), and a block is non-empty when the
  gap is at most two, not one (pika.go:954-955).
* In the emulator an event of a message to oneself gives way to a priority that
  the call around it has returned (server.go:199), so a server may learn of its
  protocol's end with the next message only. Messages of medium priority, which
  dispersals now have (avid.go:495), match no case of dispatchMsgs and are dropped.

## 4. Proofs

Every invariant and action property that a passing run checks, and each of the
three refinements, is a theorem, for all values of the constants. TLC was asked
first: an inductive invariant was an invariant of a run on a small instance before
it was proved.

`BARound_proof` proves the four invariants of one epoch for every set of nodes,
every `F` with `N >= 3F+1` and every set of faulty messages. The inductive
invariant ties each node's record to the messages sent: whatever a node has
heard from a correct node is in `msgs`, what it believes has `2F+1` senders, and
its candidates have `N-F` Agreements behind them. Agreement on single candidates then
follows from the intersection of quorums (`ProtocolParams_proof`).

`BA_proof` proves `TermLocksLater` and that `BA` implements `BinaryAgreement`. The
invariant says what each message of a correct node rests on: a node that has left
with value `v` stands for `v` in every later epoch, an epoch that has ended with `v`
has `N-F` nodes behind it, and a value carried into an epoch was an input or was
allowed by the epoch before. That two nodes never decide differently is shown at
the first epoch where they would: all epochs before it are right, and the votes in
it are of quorums that meet. A new epoch applies the Terms heard so far one after
the other (ba.go:483-494), which the model writes as a recursive function on
`0..n`; the proof shows that the function exists and keeps what each Term keeps, at
the least index where it would not. `Implements` then maps every step to a step of
the abstract specification or a stutter.

`VID_proof` proves the safety of a dispersal. The invariant relates counters and
sets, which parts are dropped and what is known by then, every Echo and Ready to
the state of its sender, and the first correct Ready to `N-F` Echoes. That
a dispersal is retrievable follows: of the `2F+1` Readys one is from a correct node, and
the first correct node to send one had `N-F` Echoes, `N-2F` of them correct.

Its second part proves the paging for calls nested to any depth, and the
refinement of `VIDInMemory`: the count of references is the number of calls under
way, a VID that is somewhere dirty is in memory, and a clean one agrees with the
image. `NothingLost` then needs only that decoding what was encoded is a stutter
for every method (`View`). Its third part proves `KeysApart` for any number of epochs
and nodes: a key has one of two layouts, of different lengths; in one layout keys
differ in a number or a tag; so the keys are as many as the slots.

`LedgerEpoch_proof` proves that an epoch accepts at least `N-F` blocks at every
correct node, and only dispersed ones. A `TRUE` in a BA is backed by a dispersal,
a `FALSE` by `N-F` acceptances at the node that gave it; with validity an output of
`FALSE` leads back to such a node, and with agreement its acceptances are everybody's.
Each operator of `PikaEpoch` is shown to keep votes that were given (`Keeps`) and to
add justified ones only (`Inputs`); one lemma (`StepInvariant`) then serves every action.
A terminated epoch has all its outputs and accepted blocks and keeps them
(`TermedComplete`): each operator before `Conclude` leaves the outputs and drops no
block (`Goes`), or finds the epoch unfinished.

`Pika_proof` starts with what `ConfirmUntil` makes of such an epoch: the level it
chooses exists (by the least element of a set of naturals), is vouched for by a
correct node's accepted block (`ConfirmedIsVouched`), is not below what all of them
refer to (`ReferredIsConfirmed`), and is the same at two nodes that have accepted the
same blocks (`ConfirmAgrees`). The invariant of `Pika` is that every epoch is right by
itself, and that the log is what the epochs confirm. A step that changes epochs
without ending one keeps the log (it is a function of the epochs that are output);
`PrintProbes` appends the blocks of the next epoch that are not there yet, in order.
The loops over epochs are recursive functions again, unfolded at the least index
where they would go wrong. `LevelsBounded`, `OutputIsThere`, `ReferredIsOutput` and
`LogIsOrder` follow.

`Daemon_proof` proves all invariants of the three parts of the daemon, and that
they keep their types whatever they do at once (`DaemonTyped`).

* Server. What is known of the goroutines (`ServerSound`): one between two calls
  holds nothing, and a peer that is connected has an empty buffer. `InLine` then
  compares what has been pushed for a peer with its buffer and `transmit`; selecting
  by destination is a fold, taken apart at the end of a sequence (`PickAppend`).
  `InOnePlace` counts places: a call puts each new message in one, any other step moves
  the head of one queue to the end of another.
* Connection. `NewestOpen`: the open streams have the newest epochs seen, one each
  (`Above`, `OnePerEpoch`), and are all there is when they are fewer than
  `MaxStreams`. `Carried`: no message is in two lines or twice in one (`Apart`), a line
  holds messages of its own class only, the counters are the number of positions in
  the lines (`Tally`), and the signals received, followed by those on the wire, in the
  stream's queue and in `channel`, are the signals given.
* Block generator. `NoneLost`: a step moves the spots of a transaction one for one.
  What makes that true is the order of the ledger (`GenOrder`): under the flags of
  `Reproposes` and without references an epoch starts only when the BAs of the one
  before have ended, since it would panic otherwise (`Decided`), and a block is filled
  again only when it was rejected. `LoggedAsSent` is the same with what was sent, and
  holds for all flags. `PanicsOvertaken` counts: when the cap of one lets epoch `e`
  start, `e` epochs are dispersed, so if `e - 1` is not, one is from `e` on (`Counting`).

`Emulator_proof` proves `InStep` for any number of servers, any bandwidth and any
protocol. The counter of the wait group is the number of servers that still owe their
part of the tick (`Owing`), so at zero all of them wait; and while they work, what
is ready in a queue is older than the tick (`Older`), so what they download is too.
It also proves that `FIFO` implements `Mailbox` (`QueueDelivers`), for any number of
concurrent senders and any size of the ring: the ring is two regions, free and taken,
that meet twice. Growing inserts cells where they meet, which moves old cells and the
indices that point to them alike (`Layout`); each number that has been given out is held
by one sender, or its cell has been written.

Assumptions, each named in the module that declares the constants:

| assumption | of | why the code justifies it |
|---|---|---|
| `NodeAssumption`, `FaultAssumption` | `ProtocolParams` | `N` and `F` are checked at the start |
| `FaultyAssumption`, `DispersalAssumption` | `BARound`, `BA`, `LedgerEpoch`, `VID` | the usual trust model: at most `F` nodes are faulty, and channels are authenticated, so that a faulty node does not send in another's name. The code takes this on trust: `FromID` comes from the message, and certificates are not verified |
| `NodeAtAssumption` | `BA` | every node has an ID |
| `NoBlockAssumption`, `PikaAssumption` | `PikaEpoch`, `Pika` | the node is correct; the other correct nodes' blocks refer to earlier epochs and to dispersals that end, as `VID` and `LedgerEpoch` show |
| `SelfAssumption`, `ChunkAssumption`, `NilAssumption`, `FinitelyManyKeys` | `VIDContents`, `VIDStore`, `DBKeys` | nil is neither a chunk nor a VID; finitely many epochs have been allocated |
| `SelfIsNode`, `Capacities` | `Server` | a node is one of the nodes; a channel has room for something |
| `Carries` | `MCDaemon`, for `Peer` | a message has a kind, an epoch and an index |
| `Generates` | `MCDaemon`, for `BlockGenerator` | the flags and sizes are of their types; any combination is allowed |
| `EmulatorAssumption`, `Sizes` | `Emulator`, `FIFO` | messages have a size; a ring has a cell |

Model-checked only: what must happen in the end (`Terminates`, `Totality`,
`Retrieval`, `Completion`, `EpochEnds`, `AllOutput`, `Delivered`, `Arrives`, `Counted`,
`Ends`), because the prover cannot reason about fairness and `ENABLED`. And what the
theorems say is about each module by itself: the theorems of the daemon's parts are
about their own specifications `Spec`, `P!Spec` and `G!Spec`, whose conjunction lets the
parts move independently; that the parts fit is by their interfaces (the dispatcher's
`transmit` is the connection's `given`, its `received` the server's `incoming`), as it
is by their promises for the layers of the protocol.

## 5. Not modelled

* Contents and encoding of chunks (the code checks none of them), storage
  libraries, QUIC, log output, plots and test bed: I/O, or a library's.
* Crash and restart of a correct node: nothing is read back from the disk after a
  restart, so a node that has crashed is one of the `F`.
* The Finish messages of Pika: `FinishedEpochs` is only read by code that is
  commented out. Time in pikad: time-outs repeat a dial, Nagle's delay may hold
  back any epoch. Profiling, flags, percentiles, the counters of bytes.
* Of the emulator: the transaction queue and load generator (`workload.go`, like
  `bwload.go` but without the interface Pika asks for today, which is why the
  repository's README calls the emulator "not working anymore"), the gauges of
  bandwidth, the progress bar and `dataproc.go`.

## 6. Plan

1. Proofs: across the layers. The choices that `LedgerEpoch` and `Pika` leave open are
   what `BinaryAgreement`, `VID` and `LedgerEpoch` promise; stating these promises as
   abstract specifications of their own would make each layer a refinement of what the
   next one assumes.
2. `Ledger`: all nodes' logs as prefixes of one sequence, refined by `Pika` on
   several nodes, which is beyond TLC unless what a node outputs is reduced to the
   decisions it depends on.
3. `Server` and `Peer` of two nodes in one model, so that the order kept by a
   connection is that of the calls at the other end.
