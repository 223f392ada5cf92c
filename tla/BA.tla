--------------------------------- MODULE BA ---------------------------------
(***************************************************************************)
(* Binary agreement: type BA of pika/ba.go on every correct node, and the  *)
(* network between them.  A BA runs BAEpochs one after the other until one *)
(* of them ends with the coin as its only candidate, and then tells the    *)
(* others with a Term message, which stands for its votes in all the       *)
(* epochs it will not take part in.                                        *)
(*                                                                         *)
(* As in BARound, msgs keeps every message: handling one again is a        *)
(* stutter.                                                                *)
(***************************************************************************)
EXTENDS BAEpoch

CONSTANTS
  NodeAt,      \* NodeAt[k]: the node with ID k-1
  Faulty,      \* the nodes that may crash, equivocate or lie
  FaultyMsg    \* what the faulty nodes may ever say, to whom they choose

Correct == Node \ Faulty

\* A BAMessage: an epoch message or a Term, tagged with the epoch it is about.
Term(n, v) == [type |-> "term", from |-> n, value |-> v]
TermMessage == [type : {"term"}, from : Node, value : BOOLEAN]
BAMessage == [epoch : Nat, msg : EpochMessage \cup TermMessage]

ASSUME NodeAtAssumption ==
  /\ NodeAt \in [1..N -> Node]
  /\ \A n \in Node : \E k \in 1..N : NodeAt[k] = n
ASSUME FaultyAssumption ==
  /\ Faulty \subseteq Node
  /\ Cardinality(Faulty) <= F
  /\ FaultyMsg \subseteq {m \in BAMessage : m.msg.from \in Faulty}

VARIABLES
  ba,          \* the BA of every correct node
  proposed,    \* the inputs given to the correct nodes so far
  msgs         \* the messages broadcast by the correct nodes

vars == <<ba, proposed, msgs>>

-----------------------------------------------------------------------------
(***************************************************************************)
(* The state of a BA.  epochs[0..last] are the allocated epochs, term[k]   *)
(* the termination status of node k (epoch -1: the nil of the code).       *)
(***************************************************************************)
NoTerm == [epoch |-> -1, value |-> FALSE]
TermStatus == [epoch : Nat \cup {-1}, value : BOOLEAN]

BAStateUpTo(k) ==
  [epochNum      : 0..k,
   firstUninited : 0..(k + 1),
   term          : [Node -> TermStatus],
   last          : {k},
   epochs        : [0..k -> EpochState],
   termed        : BOOLEAN,
   output        : BOOLEAN]

NewBA ==
  [epochNum      |-> 0,
   firstUninited |-> 0,
   term          |-> [k \in Node |-> NoTerm],
   last          |-> 0,
   epochs        |-> [i \in {0} |-> NewBAEpoch],
   termed        |-> FALSE,
   output        |-> FALSE]

(***************************************************************************)
(* checkOutput: the coin is fixed.  An epoch decides when the coin is its  *)
(* only candidate; otherwise the next estimation is the only candidate, or *)
(* the coin when there are two.                                            *)
(***************************************************************************)
Coin(i) == i % 2 = 0
DecidesOnAny(b, i) == b.termed /\ \E v \in BOOLEAN : b.cand = {v}   \* mutant: no coin
Decides(b, i) == b.termed /\ b.cand = {Coin(i)}
EstimateCoin(b, i) == Coin(i)   \* mutant: even with one candidate
Estimate(b, i) == IF Coin(i) \in b.cand THEN Coin(i) ELSE ~Coin(i)

\* insertTermMessage: a Term is a Viable and an Agreement in a later epoch.
InsertTerm(b, k, v) == EpochRecv(EpochRecv(b, Viable(k, v)), Agreement(k, v))

(***************************************************************************)
(* An epoch i that allocateEpochs constructs: the Terms of earlier epochs  *)
(* are applied to it in the order of the node IDs.                         *)
(***************************************************************************)
NewEpoch(term, i) ==
  LET applied[k \in 0..N] ==
        IF k = 0 THEN NewBAEpoch
        ELSE LET t == term[NodeAt[k]] IN
             IF t.epoch # -1 /\ t.epoch < i
             THEN InsertTerm(applied[k - 1], NodeAt[k], t.value)
             ELSE applied[k - 1]
  IN applied[N]

\* Epoch i as it is, or as allocateEpochs would make it.
EpochAt(s, i) == IF i <= s.last THEN s.epochs[i] ELSE NewEpoch(s.term, i)

Allocate(s, until) ==
  IF until <= s.last
  THEN s
  ELSE [s EXCEPT !.epochs = [i \in 0..until |-> EpochAt(s, i)], !.last = until]

(***************************************************************************)
(* The switch of BA.Recv.  Only the first Term of a node counts, and it    *)
(* applies to the epochs after its own.                                    *)
(***************************************************************************)
HandleEpoch(s, i, m) == [s EXCEPT !.epochs[i] = EpochRecv(@, m)]

HandleTerm(s, i, m) ==
  IF s.term[m.from] # NoTerm
  THEN s
  ELSE [s EXCEPT
          !.term[m.from] = [epoch |-> i, value |-> m.value],
          !.epochs = [j \in 0..s.last |->
                        IF j > i THEN InsertTerm(@[j], m.from, m.value) ELSE @[j]]]

Handle(s, m) ==
  LET a == Allocate(s, m.epoch) IN
  IF m.msg.type = "term" THEN HandleTerm(a, m.epoch, m.msg)
                         ELSE HandleEpoch(a, m.epoch, m.msg)

(***************************************************************************)
(* The loop that ends BA.Recv.  It passes over the epochs that terminated  *)
(* without deciding, carrying each one's estimation into the next, up to   *)
(* the first that decides or has not terminated.  An epoch that does not   *)
(* exist yet knows only the Terms, all of earlier epochs: with one         *)
(* candidate, the first or the second such epoch has it for its coin.      *)
(***************************************************************************)
Passed(s, i) == EpochAt(s, i).termed /\ ~Decides(EpochAt(s, i), i)

Stop(s) ==
  CHOOSE i \in s.epochNum..(s.last + 2) :
    /\ ~Passed(s, i)
    /\ \A j \in s.epochNum..(i - 1) : Passed(s, j)

\* The epochs once the loop has carried the estimations up to epoch i.
Carried(s, i) ==
  [j \in 0..(IF i > s.last THEN i ELSE s.last) |->
     IF s.epochNum < j /\ j <= i
     THEN SetEstimation(EpochAt(s, j), Estimate(EpochAt(s, j - 1), j - 1))
     ELSE EpochAt(s, j)]

\* Epoch 0 is only ever initialised by BA.Init.
Proceed(s) ==
  LET i == Stop(s)
      c == Carried(s, i)
      start == ~c[i].termed /\ i >= s.firstUninited /\ i # 0
  IN [s EXCEPT
        !.epochNum      = i,
        !.last          = IF i > @ THEN i ELSE @,
        !.epochs        = IF start THEN [c EXCEPT ![i] = EpochInit(@)] ELSE c,
        !.firstUninited = IF start THEN i + 1 ELSE @,
        !.termed        = c[i].termed,
        !.output        = c[i].termed /\ Coin(i)]

(***************************************************************************)
(* What node n broadcasts when its BA goes from s to t: the messages of    *)
(* its epochs, and its Term when t has reached agreement.                  *)
(***************************************************************************)
BASent(n, s, t) ==
  (UNION {{[epoch |-> i, msg |-> m] :
             m \in Sent(n, IF i <= s.last THEN s.epochs[i] ELSE NewBAEpoch, t.epochs[i])}
          : i \in 0..t.last})
    \cup {[epoch |-> i, msg |-> Term(n, t.output)] : i \in IF t.termed THEN {t.epochNum} ELSE {}}

\* A BA that terminates drops its BACoreState and keeps its BAOutput.
Settled(t) == IF t.termed THEN [NewBA EXCEPT !.termed = TRUE, !.output = t.output] ELSE t

Become(n, t) ==
  /\ ba' = [ba EXCEPT ![n] = Settled(t)]
  /\ msgs' = msgs \cup BASent(n, ba[n], t)

-----------------------------------------------------------------------------
Init ==
  /\ ba = [n \in Correct |-> NewBA]
  /\ proposed = {}
  /\ msgs = {}

(***************************************************************************)
(* SetInput and Init.  Once an epoch has been initialised, by an earlier   *)
(* call or by messages that took us past epoch 0, the input is not used.   *)
(***************************************************************************)
Propose(n, v) ==
  /\ ~ba[n].termed
  /\ ba[n].firstUninited = 0
  /\ proposed' = proposed \cup {v}
  /\ Become(n, [ba[n] EXCEPT !.epochs[0] = EpochInit(SetEstimation(@, v)),
                             !.firstUninited = 1])

\* BA.Recv: nothing is handled after termination.
Recv(n, m) ==
  /\ ~ba[n].termed
  /\ m \in msgs \cup FaultyMsg
  /\ \E h \in {Handle(ba[n], m)} : \E t \in {Proceed(h)} : Become(n, t)
  /\ UNCHANGED proposed

Next ==
  \E n \in Correct :
    \/ \E v \in BOOLEAN : Propose(n, v)
    \/ \E m \in msgs \cup FaultyMsg : Recv(n, m)

Spec == Init /\ [][Next]_vars

-----------------------------------------------------------------------------
TypeOK ==
  /\ DOMAIN ba = Correct
  /\ \A n \in Correct : ba[n].last \in Nat /\ ba[n] \in BAStateUpTo(ba[n].last)
  /\ proposed \subseteq BOOLEAN
  /\ msgs \subseteq {m \in BAMessage : m.msg.from \in Correct}

(***************************************************************************)
(* Once a correct node has terminated with v in epoch i, no correct node   *)
(* supports the other value in a later epoch: this is why a Term can stand *)
(* for the votes of a node that has left.  (Here with the types.)          *)
(***************************************************************************)
TermLocksLater ==
  /\ TypeOK
  /\ \A t, m \in msgs :
       t.msg.type = "term" /\ m.epoch > t.epoch => m.msg.value = t.msg.value

(***************************************************************************)
(* The nodes implement the abstract binary agreement: in whichever epochs  *)
(* they terminate, the outputs are final, equal, and somebody's input.     *)
(***************************************************************************)
Abstract ==
  INSTANCE BinaryAgreement
    WITH decision <- [n \in Correct |-> IF ba[n].termed THEN {ba[n].output} ELSE {}]

ImplementsAgreement == Abstract!Spec

(***************************************************************************)
(* With every message of the correct nodes delivered, and no Viable from   *)
(* the faulty ones, every correct node reaches an output, though the       *)
(* coin is fixed.                                                          *)
(***************************************************************************)
Termination == <>(\A n \in Correct : ba[n].termed)

(***************************************************************************)
(* ba.go:12-13: an Agreement is sent when "we know that all nodes will     *)
(* eventually know the value is available".  A node that is done with the  *)
(* epoch is excused.                                                       *)
(***************************************************************************)
Knows(k, i, v) ==
  \/ ba[k].termed
  \/ i <= ba[k].last /\ (ba[k].epochs[i].termed \/ v \in ba[k].epochs[i].believe)

AgreementMeansAvailable ==
  <>[](\A m \in msgs :
         m.msg.type = "agreement" => \A k \in Correct : Knows(k, m.epoch, m.msg.value))
=============================================================================
