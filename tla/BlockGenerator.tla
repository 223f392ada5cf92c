--------------------------- MODULE BlockGenerator ---------------------------
(***************************************************************************)
(* A node's transactions from the queue to the latency log (bwload.go,     *)
(* latency.go) and the part of Pika that decides what a block takes from   *)
(* the queue (initNextEpoch).  A block is an object: the payload that an   *)
(* epoch holds, the one its VID has dispersed, and the one that is logged  *)
(* when it is confirmed are the same pointer.                              *)
(***************************************************************************)
EXTENDS Integers, Sequences, FiniteSets, SequencesExt, FiniteSetsExt

CONSTANTS
  Config,     \* the flags it may be started with: [chained, coupledValidity,
              \* infBacklog, pipeline, parallelism]
  maxEpoch,   \* the last epoch
  BlockTxs,   \* how many transactions a block has room for (size / TxSize)
  MaxTxs,     \* how many transactions come in
  ChanCap     \* the capacity of BlockChannel

VARIABLES
  config,
  up,              \* whether the daemon runs: it does until it panics
  inserted,        \* how many transactions have come in; they are numbered
  queue,           \* those that wait
  stopped,
  blocks,          \* all block objects so far: their transactions
  payload,         \* the object of every epoch that has been started
  sent,            \* what it held when the VID dispersed it
  output,          \* what the BA of our block in an epoch has output, if it has
  firstUnoutput,
  confirmed,       \* the epochs whose own block has been confirmed, in order
  printing,        \* what PrintProbes still has to log
  blockChannel,
  confirmedTx      \* AccountLatency's counter ConfirmedTx

generator == <<inserted, queue, stopped>>
ledger == <<output, firstUnoutput, confirmed>>
logging == <<printing, blockChannel, confirmedTx>>
vars == <<config, up, generator, blocks, payload, sent, ledger, logging>>

Epoch == 0..maxEpoch
Other == 0   \* a block of another node
firstUninited == Len(payload)
ObjectOf(e) == payload[e + 1]

Init ==
  /\ config \in Config /\ up = TRUE
  /\ inserted = 0 /\ queue = <<>> /\ stopped = FALSE
  /\ blocks = <<>> /\ payload = <<>> /\ sent = <<>>
  /\ output = [e \in Epoch |-> {}] /\ firstUnoutput = 0 /\ confirmed = <<>>
  /\ printing = <<>> /\ blockChannel = <<>> /\ confirmedTx = 0

-----------------------------------------------------------------------------
InsertTransaction ==
  /\ up /\ ~config.infBacklog /\ ~stopped /\ inserted < MaxTxs
  /\ inserted' = inserted + 1
  /\ queue' = Append(queue, inserted + 1)
  /\ UNCHANGED <<config, up, stopped, blocks, payload, sent, ledger, logging>>

DequeueKeeping(n) ==   \* mutant: the last one taken stays in the queue
  LET take == Min({n, Len(queue)}) IN
  <<SubSeq(queue, 1, take), SubSeq(queue, Min({take, n - 1}) + 1, Len(queue))>>

\* dequeueTimes: at most n transactions, and the queue without them.
Dequeue(n) ==
  LET take == Min({n, Len(queue)}) IN
  <<SubSeq(queue, 1, take), SubSeq(queue, take + 1, Len(queue))>>

Propose(e, objects, k, rest) ==
  /\ blocks' = objects
  /\ payload' = Append(payload, k)
  /\ sent' = Append(sent, objects[k])
  /\ queue' = rest

EmptyBlock(e) == Propose(e, Append(blocks, <<>>), Len(blocks) + 1, queue)

\* With an infinite backlog a block holds dummy data but no transaction.
TakeBlock(e) ==
  LET d == IF config.infBacklog THEN <<<<>>, queue>> ELSE Dequeue(BlockTxs) IN
  Propose(e, Append(blocks, d[1]), Len(blocks) + 1, d[2])

FillBlockWhole(e) ==   \* mutant: fills as much as a new block
  LET k == ObjectOf(e - 1)
      d == Dequeue(BlockTxs)
  IN Propose(e, [blocks EXCEPT ![k] = @ \o d[1]], k, d[2])

\* The block of the epoch before is filled up and proposed again.
FillBlock(e) ==
  LET k == ObjectOf(e - 1)
      d == Dequeue(BlockTxs - Len(blocks[k]))
  IN IF config.infBacklog THEN TakeBlock(e)
     ELSE Propose(e, [blocks EXCEPT ![k] = @ \o d[1]], k, d[2])

numDispersed == Cardinality({e \in Epoch : output[e] # {}})

\* Nagle's algorithm may put off any epoch but never forbids one for ever.
CanInitNext(e) ==
  \/ e = 0
  \/ /\ e <= maxEpoch
     /\ config.pipeline = 0 \/ e - firstUnoutput < config.pipeline
     /\ config.parallelism = 0 \/ e - numDispersed < config.parallelism

NonEmpty(e) == e = 0 \/ e - firstUnoutput <= 2

RejectedByOutput(e) == e # 0 /\ output[e - 1] # {}   \* mutant: any output will do
Rejected(e) == e # 0 /\ output[e - 1] = {FALSE}

\* A call of the protocol is under pMux, until all it prints is in the channel.
Free == up /\ printing = <<>>

MustBeEmpty(e) == config.coupledValidity /\ ~NonEmpty(e)

\* The new epoch asks the BA of our last block for its output, too early.
Overtakes(e) == ~config.chained /\ ~MustBeEmpty(e) /\ e # 0 /\ output[e - 1] = {}

InitNextEpoch ==
  LET e == firstUninited IN
  /\ Free /\ CanInitNext(e) /\ ~Overtakes(e)
  /\ IF MustBeEmpty(e) THEN EmptyBlock(e)
     ELSE IF ~config.chained /\ Rejected(e) THEN FillBlock(e)
     ELSE TakeBlock(e)
  /\ UNCHANGED <<config, up, inserted, stopped, ledger, logging>>

Panic ==
  /\ Free /\ CanInitNext(firstUninited) /\ Overtakes(firstUninited)
  /\ up' = FALSE
  /\ UNCHANGED <<config, generator, blocks, payload, sent, ledger, logging>>

\* The protocol stops the queue when it has started the last epoch.
Stop ==
  /\ Free /\ firstUninited > maxEpoch /\ ~stopped
  /\ stopped' = TRUE
  /\ UNCHANGED <<config, up, inserted, queue, blocks, payload, sent, ledger, logging>>

\* The BAs of an epoch end; a block that has not been dispersed is rejected.
\* They end all at once here, at other nodes' pace: epochs in any order.
EpochDispersed(e, b) ==
  /\ Free /\ output[e] = {}
  /\ b => e < firstUninited
  /\ output' = [output EXCEPT ![e] = {b}]
  /\ UNCHANGED <<config, up, generator, blocks, payload, sent, firstUnoutput, confirmed, logging>>

\* Our blocks that the next epoch confirms, if it confirms all below a level
\* (only with references), and its own one if that was accepted.
ToConfirm(e, level) ==
  LET due(d) == d \notin ToSet(confirmed) /\ (d < level \/ (d = e /\ output[e] = {TRUE}))
  IN FlattenSeq([k \in 1..(e + 1) |-> IF due(k - 1) THEN <<k - 1>> ELSE <<>>])

OutputEpoch(level) ==
  LET e == firstUnoutput
      mine == ToConfirm(e, level)
  IN
  /\ Free /\ e <= maxEpoch /\ output[e] # {}
  /\ level <= Min({e, firstUninited}) /\ (level = 0 \/ config.chained)
  /\ firstUnoutput' = e + 1
  /\ confirmed' = confirmed \o mine
  /\ printing' = <<Other>> \o [k \in DOMAIN mine |-> ObjectOf(mine[k])]
  /\ UNCHANGED <<config, up, generator, blocks, payload, sent, output, blockChannel, confirmedTx>>

\* LogConfirm waits when the channel is full, and the protocol with it.
LogConfirm ==
  /\ up /\ printing # <<>> /\ Len(blockChannel) < ChanCap
  /\ blockChannel' = Append(blockChannel, Head(printing))
  /\ printing' = Tail(printing)
  /\ UNCHANGED <<config, up, generator, blocks, payload, sent, ledger, confirmedTx>>

AccountLatencyOwn ==   \* mutant: returns at the first block of another node
  /\ up /\ blockChannel # <<>> /\ Head(blockChannel) # Other
  /\ blockChannel' = Tail(blockChannel)
  /\ confirmedTx' = confirmedTx + Len(blocks[Head(blockChannel)])
  /\ UNCHANGED <<config, up, generator, blocks, payload, sent, ledger, printing>>

\* The goroutine that reads the channel looks at the object that it points to.
AccountLatency ==
  /\ up /\ blockChannel # <<>>
  /\ blockChannel' = Tail(blockChannel)
  /\ confirmedTx' = confirmedTx + (IF Head(blockChannel) = Other THEN 0
                                   ELSE Len(blocks[Head(blockChannel)]))
  /\ UNCHANGED <<config, up, generator, blocks, payload, sent, ledger, printing>>

Next ==
  \/ InsertTransaction \/ InitNextEpoch \/ Panic \/ Stop
  \/ \E e \in Epoch, b \in BOOLEAN : EpochDispersed(e, b)
  \/ \E level \in Epoch : OutputEpoch(level)
  \/ LogConfirm \/ AccountLatency

\* What has been confirmed is printed, and the log is written.
Fairness == WF_vars(LogConfirm) /\ WF_vars(AccountLatency)

Spec == Init /\ [][Next]_vars /\ Fairness

-----------------------------------------------------------------------------
Tx == 1..MaxTxs

\* No block is larger than the flag -b allows.
TypeOK ==
  /\ config \in Config /\ up \in BOOLEAN
  /\ inserted \in 0..MaxTxs /\ queue \in Seq(Tx) /\ stopped \in BOOLEAN
  /\ blocks \in Seq(Seq(Tx)) /\ \A k \in DOMAIN blocks : Len(blocks[k]) <= BlockTxs
  /\ payload \in Seq(DOMAIN blocks) /\ sent \in Seq(Seq(Tx)) /\ Len(sent) = Len(payload)
  /\ output \in [Epoch -> SUBSET BOOLEAN] /\ firstUnoutput \in 0..(maxEpoch + 1)
  /\ confirmed \in Seq(Epoch)
  /\ printing \in Seq({Other} \cup DOMAIN blocks)
  /\ blockChannel \in Seq({Other} \cup DOMAIN blocks) /\ Len(blockChannel) <= ChanCap
  /\ confirmedTx \in Nat

\* The blocks that can still be confirmed: with references all of them, else
\* what was not rejected, and the last one, which the next epoch may repeat.
Live ==
  {ObjectOf(e) : e \in {e \in 0..(firstUninited - 1) :
                          config.chained \/ output[e] # {FALSE} \/ e = firstUninited - 1}}

At(s, t) == {n \in DOMAIN s : s[n] = t}

\* Where a transaction is: 0 stands for the queue, a block for itself.
Spots(t) == ({0} \X At(queue, t)) \cup UNION {{k} \X At(blocks[k], t) : k \in Live}

\* The flags under which no block is empty that should repeat a rejected one:
\* see Reproposed for what happens under the others.
Reproposes ==
  config.chained \/ ~config.coupledValidity \/ config.pipeline \in 1..3

(***************************************************************************)
(* Every transaction that has come in is in one place and once: in the     *)
(* queue, or in a block that can still be confirmed (pika.go:997-1012).    *)
(***************************************************************************)
NoneLost == Reproposes => \A t \in 1..inserted : Cardinality(Spots(t)) = 1

(***************************************************************************)
(* pika.go:1001: "if the previous block was rejected, we need to repropose *)
(* those data".  The code does not where the new block has to be empty: of *)
(* the flags that Reproposes leaves out this is violated.                  *)
(***************************************************************************)
Reproposed ==
  [][payload' # payload /\ ~config.chained /\ Rejected(firstUninited)
       => IsPrefix(Last(sent), Last(sent'))]_vars

(***************************************************************************)
(* A node that starts one epoch after the other panics (ba.go:369) only if *)
(* the BAs of an epoch have ended that it has not started itself.          *)
(***************************************************************************)
PanicsOvertaken ==
  ~up => /\ ~config.chained /\ config.pipeline # 1
         /\ config.parallelism = 1 =>
              \E d \in Epoch : d >= firstUninited /\ output[d] # {}

(***************************************************************************)
(* What a node logs of its own block, from the object, is what it has      *)
(* dispersed: no object is filled any more once its block may be accepted. *)
(***************************************************************************)
LoggedAsSent ==
  \A e \in 0..(firstUninited - 1) :
    config.chained \/ output[e] # {FALSE} => blocks[ObjectOf(e)] = sent[e + 1]

(***************************************************************************)
(* A full channel holds up the protocol, but only until the log has caught *)
(* up: as long as the daemon runs the log comes to count all transactions  *)
(* confirmed, each once.                                                   *)
(***************************************************************************)
Counted ==
  LET all == FoldSeq(LAMBDA e, n : n + Len(sent[e + 1]), 0, confirmed)
  IN []<>(~up \/ (printing = <<>> /\ blockChannel = <<>> /\ confirmedTx = all))
=============================================================================
