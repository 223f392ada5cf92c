-------------------------------- MODULE Pika --------------------------------
(***************************************************************************)
(* The ledger at one node, self: type Pika of pika/pika.go.  It starts     *)
(* epochs, refers in its blocks to the dispersals it has seen end,         *)
(* retrieves what its epochs confirm, and outputs it epoch by epoch.       *)
(*                                                                         *)
(* The other nodes are the environment: what happens to the VIDs and BAs   *)
(* of an epoch is any choice within what LedgerEpoch shows of them.  The   *)
(* application data of the blocks is left out.                             *)
(***************************************************************************)
EXTENDS PikaEpoch, SequencesExt

CONSTANTS
  self,          \* ProtocolParams.ID
  NodeAt,        \* NodeAt[k]: the node with ID k-1
  Faulty,        \* the nodes that may crash, equivocate or lie
  Blocks,        \* Blocks[e][i]: the References that node i may disperse in epoch e
  maxEpoch,      \* the index of the last epoch
  pipeline,      \* the most epochs started and not output, 0 for no limit
  parallelism,   \* the most epochs started and not dispersed, 0 for no limit
  chained,       \* whether blocks refer to blocks of earlier epochs
  Window         \* how far beyond pipeline blocks are requested (10 in the code)

Epoch == 0..maxEpoch
Correct == Node \ Faulty

(***************************************************************************)
(* The blocks of the other correct nodes refer to earlier epochs, and to   *)
(* dispersals that end.  Blocks[e][i] is empty if i never disperses in e.  *)
(***************************************************************************)
ASSUME PikaAssumption ==
  /\ self \in Correct
  /\ Faulty \subseteq Node
  /\ Cardinality(Faulty) <= F
  /\ maxEpoch \in Nat /\ pipeline \in Nat /\ parallelism \in Nat /\ Window \in Nat
  /\ chained \in BOOLEAN
  /\ NodeAt \in [1..N -> Node]
  /\ \A n \in Node : \E k \in 1..N : NodeAt[k] = n
  /\ Blocks \in [Epoch -> [Node -> SUBSET References]]
  /\ \A e \in Epoch : \A i \in Correct \ {self} : \A b \in Blocks[e][i] :
       \A k \in Node : b[k] <= e /\ \A lv \in 0..(b[k] - 1) : k = self \/ Blocks[lv][k] # {}

VARIABLES
  pika,      \* the Pika of the node
  started    \* whether the server has called Init

vars == <<pika, started>>

(***************************************************************************)
(* epochs[0..len-1] are the allocated epochs.  The counters per node       *)
(* (firstUndispersed, firstUnretrieved, firstUnrequested) and              *)
(* firstNotStartedRequest save work: they skip epochs for which nothing    *)
(* would be done, and are recomputed here.  log is what PrintProbes prints. *)
(***************************************************************************)
Entry == Epoch \X Node

PikaStateUpTo(k) ==
  [len                    : {k},
   epochs                 : [0..(k - 1) -> PikaEpochState],
   numDispersed           : Nat,
   numContinuousDispersed : Nat,
   firstUninited          : 0..k,
   firstUnoutput          : 0..k,
   log                    : Seq(Entry)]

NewPika ==
  [len                    |-> 1,
   epochs                 |-> [e \in {0} |-> NewPikaEpoch],
   numDispersed           |-> 0,
   numContinuousDispersed |-> 0,
   firstUninited          |-> 0,
   firstUnoutput          |-> 0,
   log                    |-> <<>>]

AllocateUntil(s, e) ==
  IF e < s.len THEN s
  ELSE [s EXCEPT !.len = e + 1,
                 !.epochs = [i \in 0..e |-> IF i < s.len THEN @[i] ELSE NewPikaEpoch]]

-----------------------------------------------------------------------------
\* The first epoch whose VID i has not ended, or is not allocated.
FirstUndispersed(s, i) ==
  CHOOSE e \in 0..s.len :
    /\ e < s.len => i \notin s.epochs[e].dispersed
    /\ \A d \in 0..(e - 1) : i \in s.epochs[d].dispersed

FirstUnretrieved(s, i) ==
  CHOOSE e \in 0..s.len :
    /\ e < s.len => i \notin Decoded(s.epochs[e])
    /\ \A d \in 0..(e - 1) : i \in Decoded(s.epochs[d])

-----------------------------------------------------------------------------
(***************************************************************************)
(* canInitNext, but for the delay of Nagle's algorithm.                    *)
(***************************************************************************)
PipelineFullEarly(s) ==   \* mutant: counts the epoch that would be started
  pipeline # 0 /\ s.firstUninited + 1 - s.firstUnoutput >= pipeline

PipelineFull(s) == pipeline # 0 /\ s.firstUninited - s.firstUnoutput >= pipeline
ParallelismCap(s) == parallelism # 0 /\ s.firstUninited - s.numDispersed >= parallelism

CanInitNext(s) ==
  \/ s.firstUninited = 0
  \/ s.firstUninited <= maxEpoch /\ ~PipelineFull(s) /\ ~ParallelismCap(s)

\* A reference to node i: the dispersals of i that have ended, without a gap.
Reference(s, i) ==
  LET e == FirstUndispersed(s, i) IN
  IF ~chained THEN 0 ELSE IF e > s.firstUninited THEN s.firstUninited ELSE e

InitNextEpoch(s) ==
  LET e == s.firstUninited IN
  [AllocateUntil(s, e) EXCEPT
     !.epochs[e] = InitEpoch(@, self, [i \in Node |-> Reference(s, i)]),
     !.firstUninited = e + 1]

(***************************************************************************)
(* The loop around initNextEpoch.  Nagle's algorithm may stop it anywhere: *)
(* it depends on the clock and on the transactions waiting.                *)
(***************************************************************************)
InitEpochs(s) ==
  LET after[k \in 0..(maxEpoch + 1)] ==
        IF k = 0 THEN {s} ELSE {InitNextEpoch(t) : t \in {u \in after[k - 1] : CanInitNext(u)}}
  IN UNION {after[k] : k \in 0..(maxEpoch + 1)}

-----------------------------------------------------------------------------
\* The epochs that requests are made for.
InWindow(s, e) == e < s.firstUnoutput + pipeline + Window

StartRequests(s) ==
  [s EXCEPT !.epochs = [e \in 0..(s.len - 1) |->
                          IF InWindow(s, e) THEN StartRequesting(@[e]) ELSE @[e]]]

\* What the terminated epochs of the window confirm.
RequestRefBlocks(s) ==
  LET ready == {e \in s.firstUnoutput..(s.len - 1) : InWindow(s, e) /\ s.epochs[e].termed}
      until == [e \in ready |-> ConfirmUntil(s.epochs[e])]
  IN [s EXCEPT !.epochs =
        [lv \in 0..(s.len - 1) |->
           Request(@[lv], {i \in Node : \E e \in ready : lv < until[e][i]})]]

-----------------------------------------------------------------------------
(***************************************************************************)
(* The output of epoch e: for every node, in the order of the IDs, the     *)
(* levels that e confirms beyond the epoch before it, then its own block   *)
(* of epoch e; none of them a second time.                                 *)
(***************************************************************************)
LastLevels(s, e) ==
  IF e = 0 THEN [i \in Node |-> 0] ELSE ConfirmUntil(s.epochs[e - 1])

BlocksReadyDispersed(s, e) ==   \* mutant: the dispersals have ended
  \A i \in Node : FirstUndispersed(s, i) >= ConfirmUntil(s.epochs[e])[i]

BlocksReady(s, e) ==
  LET until == ConfirmUntil(s.epochs[e])
  IN \A i \in Node : FirstUnretrieved(s, i) >= until[i]

MarkOutput(p, S) == [p EXCEPT !.outputted = @ \cup S]
Unoutput(s, b) == b[2] \notin s.epochs[b[1]].outputted

ProbesOfAgain(s, e, i) ==   \* mutant: referred blocks are not remembered
  LET from == LastLevels(s, e)[i]
      levels == [k \in 1..(ConfirmUntil(s.epochs[e])[i] - from) |-> <<from + k - 1, i>>]
  IN levels \o IF i \in Accepted(s.epochs[e]) /\ Unoutput(s, <<e, i>>) THEN <<<<e, i>>>> ELSE <<>>

\* A block is printed unless it has been.
Probe(s, b) == IF Unoutput(s, b) THEN <<b>> ELSE <<>>

ProbesOf(s, e, i) ==
  LET from == LastLevels(s, e)[i]
      levels == [k \in 1..(ConfirmUntil(s.epochs[e])[i] - from) |-> Probe(s, <<from + k - 1, i>>)]
  IN FlattenSeq(levels) \o IF i \in Accepted(s.epochs[e]) THEN Probe(s, <<e, i>>) ELSE <<>>

PrintProbes(s, e) ==
  LET probes == FlattenSeq([k \in 1..N |-> ProbesOf(s, e, NodeAt[k])])
      marked(lv) == {b[2] : b \in {c \in ToSet(probes) : c[1] = lv}}
  IN [s EXCEPT
        !.log = @ \o probes,
        !.epochs = [lv \in 0..(s.len - 1) |-> MarkOutput(@[lv], marked(lv))],
        !.firstUnoutput = e + 1]

OutputEpochs(s) ==
  LET until[k \in 0..s.len] ==
        IF k <= s.firstUnoutput THEN s
        ELSE LET t == until[k - 1] IN
             IF t.firstUnoutput = k - 1 /\ t.epochs[k - 1].termed /\ BlocksReady(t, k - 1)
             THEN PrintProbes(t, k - 1) ELSE t
  IN until[s.len]

-----------------------------------------------------------------------------
\* Counting after PikaEpoch.Recv has taken the epoch from p to q.
Count(s, p, q) ==
  LET above == {e \in s.numContinuousDispersed..(s.len - 1) : s.epochs[e].hptermed}
  IN [s EXCEPT
        !.numDispersed = IF q.hptermed /\ ~p.hptermed THEN @ + 1 ELSE @,
        !.numContinuousDispersed = IF above = {} THEN @ ELSE CHOOSE e \in above :
                                     \A d \in above : d <= e]

\* What Pika.Recv does after the message, if any, has been handled.
GoOn(s) ==
  \E r \in {StartRequests(s)} : \E t \in InitEpochs(RequestRefBlocks(r)) :
    pika' = OutputEpochs(t)

\* PikaEpoch.Recv takes epoch e, allocated in a, to q.
RecvEpoch(a, e, q) ==
  /\ \E s \in {Count([a EXCEPT !.epochs[e] = q], a.epochs[e], q)} : GoOn(s)
  /\ UNCHANGED started

-----------------------------------------------------------------------------
Init ==
  /\ pika = NewPika
  /\ started = FALSE

Start ==
  /\ ~started
  /\ started' = TRUE
  /\ \E t \in InitEpochs(pika) : pika' = t

\* The Dummy messages of the server's ticker.
Tick == GoOn(pika) /\ UNCHANGED started

(***************************************************************************)
(* The blocks that node i may have dispersed in epoch e; nobody but self   *)
(* makes its own, and no correct node refers to what self has not made.    *)
(***************************************************************************)
Proposals(s, e, i) ==
  IF i = self THEN {}
  ELSE {b \in Blocks[e][i] : i \in Correct => b[self] <= s.firstUninited}

IsProposed(s, e, i) ==
  IF i = self THEN e < s.firstUninited ELSE Proposals(s, e, i) # {}

\* A message for VID i of epoch e.
VIDStep(e, i, isDispersed, isTermed, block) ==
  LET a == AllocateUntil(pika, e) IN
  /\ isTermed => isDispersed \/ i \in a.epochs[e].dispersed
  /\ isDispersed => IsProposed(pika, e, i)
  /\ block \in Proposals(pika, e, i) \cup {NoBlock}
  /\ RecvEpoch(a, e, RecvVID(a.epochs[e], i, isDispersed, isTermed, block))

(***************************************************************************)
(* A message for BA i of epoch e: only a block that is dispersed can be    *)
(* accepted, and at most F are not (LedgerEpoch, AcceptsEnough).           *)
(***************************************************************************)
Lost(s, e) ==
  {i \in Node : s.epochs[e].output[i] = {FALSE} \/ (i # self /\ Blocks[e][i] = {})}

BAStep(e, i, out) ==
  LET a == AllocateUntil(pika, e) IN
  /\ TRUE \in out => IsProposed(pika, e, i)
  /\ FALSE \in out => Cardinality(Lost(a, e) \cup {i}) <= F
  /\ RecvEpoch(a, e, RecvBA(a.epochs[e], i, out))

Next ==
  \/ Start
  \/ Tick
  \/ \E e \in Epoch, i \in Node :
       \/ \E isDispersed, isTermed \in BOOLEAN, block \in Blocks[e][i] \cup {NoBlock} :
            VIDStep(e, i, isDispersed, isTermed, block)
       \/ \E out \in {{}, {TRUE}, {FALSE}} : BAStep(e, i, out)

Spec == Init /\ [][Next]_vars

-----------------------------------------------------------------------------
(***************************************************************************)
(* What is sure to happen: the clock lets Nagle's algorithm start an epoch *)
(* that may be started, and the other nodes do as LedgerEpoch shows of an  *)
(* epoch that all correct nodes start.  A dispersal ends here if it is of  *)
(* a correct node, or has ended at one, as an acceptance or a reference of *)
(* a correct node tells.                                                   *)
(***************************************************************************)
InitDue == CanInitNext(pika) /\ Tick /\ pika'.firstUninited > pika.firstUninited

Vouched(e, i) ==
  \/ i \in Correct /\ IsProposed(pika, e, i)
  \/ e < pika.len /\ i \in Accepted(pika.epochs[e])
  \/ \E d \in e..(pika.len - 1) : \E j \in Correct \cap Decoded(pika.epochs[d]) :
       pika.epochs[d].refs[j][i] > e

VIDEnds(e, i) ==
  /\ Vouched(e, i)
  /\ e < pika.len => i \notin pika.epochs[e].vtermed
  /\ VIDStep(e, i, TRUE, TRUE, NoBlock)

BlockArrives(e, i) ==
  /\ Vouched(e, i)
  /\ e < pika.len /\ i \in pika.epochs[e].requested \ Decoded(pika.epochs[e])
  /\ \E block \in Proposals(pika, e, i) : VIDStep(e, i, FALSE, FALSE, block)

BAEnds(e, i) ==
  /\ e < pika.firstUninited /\ pika.epochs[e].output[i] = {}
  /\ \E v \in BOOLEAN : BAStep(e, i, {v})

Due ==
  \/ Start
  \/ InitDue
  \/ \E e \in Epoch, i \in Node : VIDEnds(e, i) \/ BlockArrives(e, i) \/ BAEnds(e, i)

\* There are finitely many such steps, so none of them waits for ever.
Fairness == WF_vars(Due)

-----------------------------------------------------------------------------
(***************************************************************************)
(* PrintProbes, epoch by epoch, outputs exactly the blocks its epochs      *)
(* confirm, once each, in an order that depends on nothing but the outputs *)
(* of the BAs and the blocks accepted: the first epoch that confirms a     *)
(* block, the ID of its node, its own epoch.  All nodes print one ledger.  *)
(***************************************************************************)
Confirmed(e) ==
  LET until == ConfirmUntil(pika.epochs[e])
  IN (UNION {(0..(until[i] - 1)) \X {i} : i \in Node}) \cup ({e} \X Accepted(pika.epochs[e]))

LogIsOrder ==
  LET confirms == UNION {{e} \X Confirmed(e) : e \in 0..(pika.firstUnoutput - 1)}
      place(b) == <<Min({c[1] : c \in {d \in confirms : d[2] = b}}),
                    CHOOSE k \in 1..N : NodeAt[k] = b[2],
                    b[1]>>
      precedes(p, q) ==
        \E k \in 1..3 : p[k] < q[k] /\ \A j \in 1..(k - 1) : p[j] = q[j]
  IN /\ ToSet(pika.log) = {c[2] : c \in confirms}
     /\ \A k \in 2..Len(pika.log) : precedes(place(pika.log[k - 1]), place(pika.log[k]))

(***************************************************************************)
(* A block that is printed has been decoded (PrintProbes ignores the error *)
(* of Payload and dereferences the block).                                 *)
(***************************************************************************)
OutputIsThere ==
  \A b \in ToSet(pika.log) : b[2] \in Decoded(pika.epochs[b[1]])

(***************************************************************************)
(* An epoch confirms no levels beyond its own, whatever a faulty node puts *)
(* into its References: RequestRefBlocks and PrintProbes stay in range.    *)
(* All else in the state is of its type.                                   *)
(***************************************************************************)
LevelsBounded ==
  /\ pika \in PikaStateUpTo(pika.len) /\ started \in BOOLEAN
  /\ \A e \in 0..(pika.len - 1) :
       pika.epochs[e].termed => \A i \in Node : ConfirmUntil(pika.epochs[e])[i] <= e

(***************************************************************************)
(* No censorship: when every correct node's block of an epoch refers to a  *)
(* block, that epoch's output includes it, even if the BA of the block     *)
(* rejected it and up to F of the referring blocks are rejected as well.   *)
(***************************************************************************)
RefersTo(e, j, b) ==
  IF j = self THEN pika.epochs[e].refs[j][b[2]] > b[1]
  ELSE \A r \in Blocks[e][j] : r[b[2]] > b[1]

ReferredIsOutput ==
  \A e \in 0..(Min({pika.firstUnoutput, pika.firstUninited}) - 1) : \A b \in Entry :
    (\A j \in Correct : RefersTo(e, j, b)) => b \in ToSet(pika.log)

\* The ledger reaches the last epoch, whatever its bounds on epochs under way.
AllOutput == <>(pika.firstUnoutput > maxEpoch)
=============================================================================
