--------------------------- MODULE Emulator_proof ---------------------------
(***************************************************************************)
(* The servers of the emulator are in step (InStep), for any number of     *)
(* them, any bandwidth and any protocol.  Two facts carry the proof: the   *)
(* counter of the wait group is the number of servers that still owe their *)
(* part of the tick, and a message that is ready in a tick is older.       *)
(* The queues deliver (Delivers), for any number of senders: the ring is   *)
(* two regions that meet twice, and inserting where they meet moves every  *)
(* old cell together with the index at which it is read.                   *)
(***************************************************************************)
EXTENDS Emulator, FIFO, FiniteSetTheorems, SequenceTheorems, TLAPS

Msgs(t) == [prio : Priority, to : Nodes, at : 0..t]
Queue(new, old) == [coming : Seq(Msgs(new)), ready : Seq(Msgs(old))]
Fifos(new, old) == [1..(2 * nServer) -> Queue(new, old)]

Fields == DOMAIN NewServer

\* A message under way has been sent in an earlier tick.
Holds(s) ==
  /\ s.credit \in Nat /\ s.remaining \in Nat
  /\ s.remaining > 0 => s.next.at \in Nat /\ s.next.at < s.time

\* What is known of a server at any time.
WellFormed(s) ==
  /\ DOMAIN s = Fields
  /\ s.pc \in {"start", "wait", "init", "run", "exited"}
  /\ s.time \in Nat
  /\ s.pc = "start" => s.time = 0
  /\ s.out \in Seq(Msgs(s.time))
  /\ Holds(s)

Waits(s) == s.pc \in {"start", "wait"}
Works(s) == s.pc \in {"init", "run"}

\* The servers that have not finished the tick.
Owing == {i \in Server : Works(server[i]) \/ (Waits(server[i]) /\ server[i].time < tick)}

Between == schd \in {"sync", "select", "add", "tick"}

ServersTyped ==
  /\ DOMAIN server = Server
  /\ \A i \in Server : WellFormed(server[i])

ClockTyped ==
  /\ tick \in Int /\ synced \in Nat
  /\ schd \in {"add", "tick", "wait", "sync", "select", "exit"}
  /\ schd = "exit" => tick = -1
  /\ schd # "exit" => tick \in Nat
  /\ schd \in {"wait", "sync", "select"} => tick > 0
  /\ schd = "sync" => synced < 2 * nServer

AllWait ==
  Between => \A i \in Server : Waits(server[i]) /\ server[i].time = tick

AllCounted ==
  /\ schd \in {"sync", "select", "add"} => tickFinish = 0
  /\ schd = "tick" => tickFinish = nServer
  /\ schd = "wait" => tickFinish = Cardinality(Owing)

AllInTick ==
  schd = "wait" => \A i \in Server :
    /\ Waits(server[i]) \/ Works(server[i])
    /\ server[i].time \in {tick - 1, tick}
    /\ Works(server[i]) => server[i].time = tick

AllLeave ==
  schd = "exit" => \A i \in Server : server[i].pc \in {"wait", "exited"}

Older ==
  schd # "exit" => fifo \in Fifos(tick, IF schd = "wait" THEN tick - 1 ELSE tick)

IInv ==
  /\ ServersTyped
  /\ ClockTyped
  /\ AllWait
  /\ AllCounted
  /\ AllInTick
  /\ AllLeave
  /\ Older

-----------------------------------------------------------------------------
LEMMA FieldsAre ==
  Fields = {"pc", "time", "out", "ended", "terminated", "signalSent", "credit",
            "remaining", "next", "priortizeLP"}
BY DEF Fields, NewServer

LEMMA SeqMono ==
  ASSUME NEW S, NEW T, S \subseteq T, NEW s \in Seq(S)
  PROVE  s \in Seq(T)
<1>1. s \in [1..Len(s) -> T]
  OBVIOUS
<1>2. Len(s) \in Nat
  OBVIOUS
<1> QED
  BY <1>1, <1>2, SeqDef

LEMMA MsgsMono ==
  ASSUME NEW a \in Int, NEW b \in Int, a <= b
  PROVE  Msgs(a) \subseteq Msgs(b)
BY DEF Msgs

LEMMA ServerFinite ==
  IsFiniteSet(Server) /\ Cardinality(Server) = nServer
BY FS_Interval, EmulatorAssumption DEF Server

LEMMA OwingFinite == IsFiniteSet(Owing)
BY ServerFinite, FS_Subset DEF Owing

-----------------------------------------------------------------------------
THEOREM InitInv == EmuInit => IInv
<1> SUFFICES ASSUME EmuInit PROVE IInv
  OBVIOUS
<1> USE DEF EmuInit
<1>1. ServersTyped
  <2> SUFFICES ASSUME NEW i \in Server PROVE WellFormed(server[i])
    BY DEF ServersTyped
  <2>1. server[i] = NewServer
    OBVIOUS
  <2>2. /\ NewServer.pc = "start" /\ NewServer.time = 0 /\ NewServer.remaining = 0
        /\ NewServer.out = <<>> /\ NewServer.credit = 0
    BY DEF NewServer
  <2>3. NewServer.out \in Seq(Msgs(NewServer.time))
    BY <2>2, EmptySeq
  <2>4. DOMAIN NewServer = Fields
    BY DEF Fields
  <2>5. WellFormed(NewServer)
    <3> HIDE DEF EmuInit
    <3> QED
      BY <2>2, <2>3, <2>4 DEF WellFormed, Holds
  <2> QED
    BY <2>1, <2>5
<1>2. ClockTyped
  BY DEF ClockTyped
<1>3. AllWait
  BY DEF AllWait, Waits, NewServer
<1>4. AllCounted /\ AllInTick /\ AllLeave
  BY DEF AllCounted, AllInTick, AllLeave
<1>5. Older
  <2>1. <<>> \in Seq(Msgs(0))
    BY EmptySeq
  <2> QED
    BY <2>1 DEF Older, Fifos, Queue
<1> QED
  BY <1>1, <1>2, <1>3, <1>4, <1>5 DEF IInv

-----------------------------------------------------------------------------
(***************************************************************************)
(* When a server may move.                                                 *)
(***************************************************************************)
LEMMA WhenWorking ==
  ASSUME IInv, NEW i \in Server, Works(server[i])
  PROVE  schd = "wait" /\ server[i].time = tick /\ i \in Owing
<1>1. schd = "wait"
  BY DEF IInv, AllWait, AllLeave, ClockTyped, Between, Waits, Works
<1> QED
  BY <1>1 DEF IInv, AllInTick, Owing

LEMMA WhenAwake ==
  ASSUME IInv, NEW i \in Server, Waits(server[i]), tick > server[i].time
  PROVE  schd = "wait" /\ i \in Owing
<1>1. server[i].time \in Nat
  BY DEF IInv, ServersTyped, WellFormed
<1>2. schd # "exit"
  BY <1>1 DEF IInv, ClockTyped
<1>3. schd = "wait"
  BY <1>1, <1>2 DEF IInv, AllWait, ClockTyped, Between
<1> QED
  BY <1>3 DEF Owing

\* A step of a server that stays at work, or takes it up.
LEMMA WorkStep ==
  ASSUME IInv, NEW i \in Server, NEW t,
         server' = [server EXCEPT ![i] = t],
         schd = "wait", i \in Owing, UNCHANGED clock,
         Works(t), t.time = tick, WellFormed(t), Older'
  PROVE  IInv'
<1>0. /\ DOMAIN server = Server
      /\ \A j \in Server : server'[j] = IF j = i THEN t ELSE server[j]
  BY DEF IInv, ServersTyped
<1>1. ServersTyped'
  BY <1>0 DEF IInv, ServersTyped, WellFormed, Msgs
<1>2. ClockTyped'
  BY DEF IInv, ClockTyped, clock
<1>3. AllWait' /\ AllLeave'
  BY DEF AllWait, AllLeave, Between, clock
<1>4. Owing' = Owing
  BY <1>0 DEF Owing, clock
<1>5. AllCounted'
  BY <1>4 DEF IInv, AllCounted, clock
<1>6. AllInTick'
  BY <1>0 DEF IInv, AllInTick, clock
<1> QED
  BY <1>1, <1>2, <1>3, <1>5, <1>6 DEF IInv

-----------------------------------------------------------------------------
(***************************************************************************)
(* Steps of a server.                                                      *)
(***************************************************************************)
LEMMA StartStep ==
  ASSUME IInv, NEW i \in Server, Start(i)
  PROVE  IInv'
<1> DEFINE s == server[i]
           t == [s EXCEPT !.pc = "init", !.time = tick]
<1>1. WellFormed(s)
  BY DEF IInv, ServersTyped
<1>2. s.pc = "start" /\ server' = [server EXCEPT ![i] = t] /\ UNCHANGED <<clock, fifo>>
  BY DEF Start, Become
<1>3. tick # -1
  BY <1>2 DEF IInv, AllLeave, ClockTyped, AllWait, AllInTick, Between
<1>4. tick > s.time
  BY <1>3 DEF Start, Awake
<1>5. schd = "wait" /\ i \in Owing
  BY <1>2, <1>4, WhenAwake DEF Waits
<1>6. /\ DOMAIN t = Fields /\ t.pc = "init" /\ t.time = tick
      /\ t.out = s.out /\ t.remaining = s.remaining /\ t.next = s.next
      /\ t.credit = s.credit
  BY <1>1, FieldsAre DEF WellFormed
<1>7. tick \in Nat
  BY <1>5 DEF IInv, ClockTyped
<1>8. WellFormed(t)
  <2>1. t.out \in Seq(Msgs(tick))
    BY <1>1, <1>4, <1>6, <1>7, MsgsMono, SeqMono DEF WellFormed
  <2>2. Holds(t)
    BY <1>1, <1>4, <1>6, <1>7 DEF WellFormed, Holds
  <2> QED
    BY <1>6, <1>7, <2>1, <2>2 DEF WellFormed
<1>9. Older'
  BY <1>2 DEF IInv, Older, clock
<1> QED
  BY <1>2, <1>5, <1>6, <1>8, <1>9, WorkStep DEF Works

LEMMA WakeStep ==
  ASSUME IInv, NEW i \in Server, Wake(i)
  PROVE  IInv'
<1> DEFINE s == server[i]
<1>1. WellFormed(s)
  BY DEF IInv, ServersTyped
<1>2. PICK bw \in Rate :
        server' = [server EXCEPT ![i] = [s EXCEPT !.pc = "run", !.time = tick, !.credit = bw,
                                                  !.signalSent = s.terminated]]
  BY DEF Wake, Become
<1> DEFINE t == [s EXCEPT !.pc = "run", !.time = tick, !.credit = bw,
                          !.signalSent = s.terminated]
<1>3. s.pc = "wait" /\ tick > s.time /\ UNCHANGED <<clock, fifo>>
  BY DEF Wake, Awake
<1>4. schd = "wait" /\ i \in Owing
  BY <1>3, WhenAwake DEF Waits
<1>5. /\ DOMAIN t = Fields /\ t.pc = "run" /\ t.time = tick
      /\ t.out = s.out /\ t.remaining = s.remaining /\ t.next = s.next
      /\ t.credit = bw
  BY <1>1, FieldsAre DEF WellFormed
<1>6. tick \in Nat
  BY <1>4 DEF IInv, ClockTyped
<1>7. WellFormed(t)
  <2>1. t.out \in Seq(Msgs(tick))
    BY <1>1, <1>3, <1>5, <1>6, MsgsMono, SeqMono DEF WellFormed
  <2>2. Holds(t)
    BY <1>1, <1>3, <1>5, <1>6, EmulatorAssumption DEF WellFormed, Holds
  <2> QED
    BY <1>5, <1>6, <2>1, <2>2 DEF WellFormed
<1>8. Older'
  BY <1>3 DEF IInv, Older, clock
<1> QED
  BY <1>2, <1>3, <1>4, <1>5, <1>7, <1>8, WorkStep DEF Works

LEMMA ExitStep ==
  ASSUME IInv, NEW i \in Server, Exit(i)
  PROVE  IInv'
<1> DEFINE s == server[i]
           t == [s EXCEPT !.pc = "exited"]
<1>1. WellFormed(s)
  BY DEF IInv, ServersTyped
<1>2. tick = -1 /\ server' = [server EXCEPT ![i] = t] /\ UNCHANGED <<clock, fifo>>
  BY DEF Exit, Become
<1>3. schd = "exit"
  BY <1>2 DEF IInv, ClockTyped
<1>4. /\ DOMAIN t = Fields /\ t.pc = "exited" /\ t.time = s.time
      /\ t.out = s.out /\ t.remaining = s.remaining /\ t.next = s.next
      /\ t.credit = s.credit
  BY <1>1, FieldsAre DEF WellFormed
<1>5. WellFormed(t)
  BY <1>1, <1>4 DEF WellFormed, Holds
<1>6. /\ DOMAIN server = Server
      /\ \A j \in Server : server'[j] = IF j = i THEN t ELSE server[j]
  BY <1>2 DEF IInv, ServersTyped
<1>7. ServersTyped'
  BY <1>2, <1>5, <1>6 DEF IInv, ServersTyped, WellFormed, Msgs
<1>8. ClockTyped'
  BY <1>2 DEF IInv, ClockTyped, clock
<1>9. AllWait' /\ AllCounted' /\ AllInTick' /\ Older'
  BY <1>2, <1>3 DEF AllWait, AllCounted, AllInTick, Older, Between, clock
<1>10. AllLeave'
  BY <1>2, <1>4, <1>6 DEF IInv, AllLeave, clock
<1> QED
  BY <1>7, <1>8, <1>9, <1>10 DEF IInv

\* A server at work stays at work, and what it holds is in order.
LEMMA StillWorks ==
  ASSUME IInv, NEW i \in Server, Works(server[i]), NEW t,
         server' = [server EXCEPT ![i] = t], UNCHANGED clock,
         DOMAIN t = Fields, t.pc = "run", t.time = server[i].time,
         t.out \in Seq(Msgs(t.time)),
         Holds(t), Older'
  PROVE  IInv'
<1>1. WellFormed(t)
  BY DEF IInv, ServersTyped, WellFormed
<1> QED
  BY <1>1, WhenWorking, WorkStep DEF Works

LEMMA OutputsTyped ==
  ASSUME IInv, NEW i \in Server, NEW out \in Outputs(i)
  PROVE  out \in Seq(Msgs(server[i].time))
<1> DEFINE msgs == [prio : Priority, to : Nodes \ {i}, at : {server[i].time}]
<1>1. server[i].time \in Nat
  BY DEF IInv, ServersTyped, WellFormed
<1>2. msgs \subseteq Msgs(server[i].time)
  BY <1>1 DEF Msgs
<1>3. PICK n \in 0..2 : out \in [1..n -> msgs]
  BY DEF Outputs
<1>4. out \in [1..n -> Msgs(server[i].time)]
  BY <1>2, <1>3
<1> QED
  BY <1>4, SeqDef

LEMMA CallStep ==
  ASSUME IInv, NEW i \in Server, Works(server[i]), NEW t, NEW events, NEW out \in Outputs(i),
         Call(i, server[i], t, events, out), UNCHANGED <<clock, fifo>>,
         DOMAIN t = Fields, t.pc = "run", t.time = server[i].time, Holds(t)
  PROVE  IInv'
<1> DEFINE e == t.ended \/ "Terminate" \in ToSet(events)
           u == [t EXCEPT !.ended = e, !.out = out]
<1>1. server' = [server EXCEPT ![i] = u]
  BY DEF Call
<1>2. /\ DOMAIN u = Fields /\ u.pc = "run" /\ u.time = server[i].time
      /\ u.out = out /\ u.remaining = t.remaining /\ u.next = t.next
      /\ u.credit = t.credit
  <2> HIDE DEF e
  <2> QED
    BY FieldsAre
<1>3. Older'
  BY DEF IInv, Older, clock
<1>4. UNCHANGED clock
  OBVIOUS
<1>5. u.out \in Seq(Msgs(u.time))
  BY <1>2, OutputsTyped
<1>6. Holds(u)
  BY <1>2 DEF Holds
<1> HIDE DEF u
<1> QED
  BY <1>1, <1>2, <1>3, <1>4, <1>5, <1>6, StillWorks

LEMMA InitializeStep ==
  ASSUME IInv, NEW i \in Server, Initialize(i)
  PROVE  IInv'
<1> DEFINE s == server[i]
<1>1. PICK events \in {<<>>} \cup Returned : \E out \in Outputs(i) :
        Call(i, s, [s EXCEPT !.pc = "run", !.terminated = DispatchEvent(events) = "Terminate"],
             events, out)
  BY DEF Initialize
<1>2. PICK out \in Outputs(i) :
        Call(i, s, [s EXCEPT !.pc = "run", !.terminated = DispatchEvent(events) = "Terminate"],
             events, out)
  BY <1>1
<1> DEFINE d == DispatchEvent(events) = "Terminate"
           t == [s EXCEPT !.pc = "run", !.terminated = d]
<1>3. s.pc = "init" /\ UNCHANGED <<clock, fifo>>
  BY DEF Initialize
<1>4. WellFormed(s)
  BY DEF IInv, ServersTyped
<1>5. /\ DOMAIN t = Fields /\ t.pc = "run" /\ t.time = s.time
      /\ t.remaining = s.remaining /\ t.next = s.next
      /\ t.credit = s.credit
  <2> HIDE DEF d
  <2> QED
    BY <1>4, FieldsAre DEF WellFormed
<1>6. Holds(t)
  BY <1>4, <1>5 DEF WellFormed, Holds
<1>7. Call(i, s, t, events, out)
  BY <1>2
<1>8. Works(s)
  BY <1>3 DEF Works
<1> HIDE DEF t
<1> QED
  BY <1>3, <1>5, <1>6, <1>7, <1>8, CallStep

LEMMA DownloadPartStep ==
  ASSUME IInv, NEW i \in Server, DownloadPart(i)
  PROVE  IInv'
<1> DEFINE s == server[i]
           r == s.remaining - s.credit
           t == [s EXCEPT !.remaining = r, !.credit = 0]
<1>1. WellFormed(s)
  BY DEF IInv, ServersTyped
<1>2. /\ s.pc = "run" /\ s.remaining > s.credit /\ s.credit > 0
      /\ server' = [server EXCEPT ![i] = t] /\ UNCHANGED <<clock, fifo>>
  BY DEF DownloadPart, Downloads, Become
<1>3. /\ DOMAIN t = Fields /\ t.pc = "run" /\ t.time = s.time
      /\ t.out = s.out /\ t.next = s.next
      /\ t.remaining = r /\ t.credit = 0
  <2> HIDE DEF r
  <2> QED
    BY <1>1, <1>2, FieldsAre DEF WellFormed
<1>4. Holds(t)
  BY <1>1, <1>2, <1>3 DEF WellFormed, Holds
<1>5. t.out \in Seq(Msgs(t.time))
  BY <1>1, <1>3 DEF WellFormed
<1>6. Older'
  BY <1>2 DEF IInv, Older, clock
<1>7. Works(s)
  BY <1>2 DEF Works
<1>8. UNCHANGED clock
  BY <1>2
<1>9. server' = [server EXCEPT ![i] = t]
  BY <1>2
<1> HIDE DEF t
<1> QED
  BY <1>3, <1>4, <1>5, <1>6, <1>7, <1>8, <1>9, StillWorks

LEMMA ProcessMsgStep ==
  ASSUME IInv, NEW i \in Server, ProcessMsg(i)
  PROVE  IInv'
<1> DEFINE s == server[i]
           done(events) == ProcessEvent(Head(events), Tail(events)) = "Terminate"
           preferLP(events) ==
             CASE ProcessEvent(Head(events), Tail(events)) = "BlockedByLow" -> TRUE
               [] ProcessEvent(Head(events), Tail(events)) = "BlockedByHigh" -> FALSE
               [] OTHER -> s.priortizeLP
           after(events) == [s EXCEPT !.credit = @ - s.remaining, !.remaining = 0,
                                      !.terminated = @ \/ done(events),
                                      !.priortizeLP = preferLP(events)]
<1>1. \E events \in Returned : \E out \in Outputs(i) : Call(i, s, after(events), events, out)
  BY DEF ProcessMsg
<1>2. /\ s.pc = "run" /\ s.credit >= s.remaining /\ s.remaining > 0
      /\ UNCHANGED <<clock, fifo>>
  BY DEF ProcessMsg, Downloads
<1>3. WellFormed(s) /\ Works(s)
  BY <1>2 DEF IInv, ServersTyped, Works
<1>4. ASSUME NEW events
      PROVE  /\ DOMAIN after(events) = Fields
             /\ after(events).pc = "run" /\ after(events).time = s.time
             /\ after(events).remaining = 0 /\ after(events).credit = s.credit - s.remaining
  <2> DEFINE d == s.terminated \/ done(events)
             p == preferLP(events)
             t == [s EXCEPT !.credit = s.credit - s.remaining, !.remaining = 0,
                            !.terminated = d, !.priortizeLP = p]
  <2>1. after(events) = t
    OBVIOUS
  <2> HIDE DEF d, p, after
  <2>2. /\ DOMAIN t = Fields /\ t.pc = "run" /\ t.time = s.time
        /\ t.remaining = 0 /\ t.credit = s.credit - s.remaining
    BY <1>2, <1>3, FieldsAre DEF WellFormed
  <2> HIDE DEF t
  <2> QED
    BY <2>1, <2>2
<1>5. ASSUME NEW events PROVE Holds(after(events))
  <2> HIDE DEF after
  <2> QED
    BY <1>2, <1>3, <1>4 DEF Holds, WellFormed
<1> HIDE DEF after
<1>6. PICK events \in Returned : \E out \in Outputs(i) : Call(i, s, after(events), events, out)
  BY <1>1
<1>7. PICK out \in Outputs(i) : Call(i, s, after(events), events, out)
  BY <1>6
<1> QED
  BY <1>2, <1>3, <1>4, <1>5, <1>7, CallStep

\* A message that is ready while a server works is older than the tick.
LEMMA ReadyIsOlder ==
  ASSUME IInv, schd = "wait", NEW k \in 1..(2 * nServer), HasReady(k)
  PROVE  /\ Head(fifo[k].ready) \in Msgs(tick - 1)
         /\ Tail(fifo[k].ready) \in Seq(Msgs(tick - 1))
<1>1. fifo[k].ready \in Seq(Msgs(tick - 1))
  BY DEF IInv, Older, Fifos, Queue
<1>2. fifo[k].ready # <<>>
  BY DEF HasReady
<1> DEFINE S == Msgs(tick - 1)
<1> HIDE DEF S
<1> QED
  BY <1>1, <1>2, HeadTailProperties DEF S

LEMMA FetchStep ==
  ASSUME IInv, NEW i \in Server, Fetch(i)
  PROVE  IInv'
<1> DEFINE s == server[i]
           k == NextQueue(i)
           m == Head(fifo[k].ready)
           t == [s EXCEPT !.next = m, !.remaining = Size[m.prio]]
<1>1. /\ s.pc = "run" /\ HasReady(k) /\ UNCHANGED clock
      /\ server' = [server EXCEPT ![i] = t]
      /\ fifo' = [fifo EXCEPT ![k].ready = Tail(@)]
  BY DEF Fetch, Downloads, Become
<1>2. WellFormed(s) /\ Works(s)
  BY <1>1 DEF IInv, ServersTyped, Works
<1>3. schd = "wait" /\ s.time = tick /\ tick \in Nat
  BY <1>2, WhenWorking DEF IInv, ClockTyped
<1>4. k \in 1..(2 * nServer)
  BY EmulatorAssumption DEF NextQueue, hpin, lpin, Server
<1> HIDE DEF k
<1>5. m \in Msgs(tick - 1) /\ Tail(fifo[k].ready) \in Seq(Msgs(tick - 1))
  BY <1>1, <1>3, <1>4, ReadyIsOlder
<1>6. m.prio \in Priority /\ m.at \in Nat /\ m.at < tick
  BY <1>3, <1>5 DEF Msgs
<1> HIDE DEF m
<1>7. Size[m.prio] \in Nat
  BY <1>6, EmulatorAssumption
<1>8. /\ DOMAIN t = Fields /\ t.pc = "run" /\ t.time = s.time /\ t.out = s.out
      /\ t.next = m /\ t.remaining = Size[m.prio] /\ t.credit = s.credit
  BY <1>1, <1>2, FieldsAre DEF WellFormed
<1>9. Holds(t) /\ t.out \in Seq(Msgs(t.time))
  BY <1>2, <1>3, <1>6, <1>7, <1>8 DEF Holds, WellFormed
<1>10. Older'
  <2>1. fifo \in Fifos(tick, tick - 1)
    BY <1>3 DEF IInv, Older
  <2>2. fifo' \in Fifos(tick, tick - 1)
    BY <1>1, <1>4, <1>5, <2>1 DEF Fifos, Queue
  <2> QED
    BY <1>1, <1>3, <2>2 DEF Older, clock, Fifos, Queue, Msgs
<1>11. server' = [server EXCEPT ![i] = t]
  BY <1>1 DEF m, k
<1> HIDE DEF t
<1> QED
  BY <1>1, <1>2, <1>8, <1>9, <1>10, <1>11, StillWorks

LEMMA StarveStep ==
  ASSUME IInv, NEW i \in Server, Starve(i)
  PROVE  IInv'
<1> DEFINE s == server[i]
           t == [s EXCEPT !.credit = 0]
<1>1. /\ s.pc = "run" /\ server' = [server EXCEPT ![i] = t] /\ UNCHANGED <<clock, fifo>>
  BY DEF Starve, Downloads, Become
<1>2. WellFormed(s) /\ Works(s)
  BY <1>1 DEF IInv, ServersTyped, Works
<1>3. /\ DOMAIN t = Fields /\ t.pc = "run" /\ t.time = s.time /\ t.out = s.out
      /\ t.next = s.next /\ t.remaining = s.remaining /\ t.credit = 0
  BY <1>1, <1>2, FieldsAre DEF WellFormed
<1>4. Holds(t) /\ t.out \in Seq(Msgs(t.time))
  BY <1>2, <1>3 DEF Holds, WellFormed
<1>5. Older' /\ UNCHANGED clock
  BY <1>1 DEF IInv, Older, clock
<1>6. server' = [server EXCEPT ![i] = t]
  BY <1>1
<1> HIDE DEF t
<1> QED
  BY <1>2, <1>3, <1>4, <1>5, <1>6, StillWorks

LEMMA DispatchMsgStep ==
  ASSUME IInv, NEW i \in Server, DispatchMsg(i)
  PROVE  IInv'
<1> DEFINE s == server[i]
           m == Head(s.out)
           k == IF m.prio = "High" THEN hpin(m.to) ELSE lpin(m.to)
           t == [s EXCEPT !.out = Tail(@)]
<1>1. /\ s.pc = "run" /\ s.out # <<>> /\ UNCHANGED clock
      /\ server' = [server EXCEPT ![i] = t]
      /\ \/ fifo' = fifo
         \/ m.to \in Server /\ fifo' = [fifo EXCEPT ![k].coming = Append(@, m)]
  BY DEF DispatchMsg, Become
<1>2. WellFormed(s) /\ Works(s)
  BY <1>1 DEF IInv, ServersTyped, Works
<1>3. schd = "wait" /\ s.time = tick /\ tick \in Nat
  BY <1>2, WhenWorking DEF IInv, ClockTyped
<1>4. m \in Msgs(tick) /\ Tail(s.out) \in Seq(Msgs(tick))
  <2>1. s.out \in Seq(Msgs(tick)) /\ s.out # <<>>
    BY <1>1, <1>2, <1>3 DEF WellFormed
  <2> DEFINE S == Msgs(tick)
  <2> HIDE DEF S
  <2> QED
    BY <2>1, HeadTailProperties DEF S
<1>5. /\ DOMAIN t = Fields /\ t.pc = "run" /\ t.time = s.time /\ t.out = Tail(s.out)
      /\ t.next = s.next /\ t.remaining = s.remaining /\ t.credit = s.credit
  BY <1>1, <1>2, FieldsAre DEF WellFormed
<1>6. Holds(t) /\ t.out \in Seq(Msgs(t.time))
  BY <1>2, <1>3, <1>4, <1>5 DEF Holds, WellFormed
<1>7. m.to \in Server => k \in 1..(2 * nServer)
  BY EmulatorAssumption DEF hpin, lpin, Server
<1>8. server' = [server EXCEPT ![i] = t]
  BY <1>1
<1> HIDE DEF m, k, t
<1>9. fifo \in Fifos(tick, tick - 1)
  BY <1>3 DEF IInv, Older
<1>10. fifo' \in Fifos(tick, tick - 1)
  <2>1. CASE fifo' = fifo
    BY <1>9, <2>1
  <2>2. CASE m.to \in Server /\ fifo' = [fifo EXCEPT ![k].coming = Append(@, m)]
    <3>1. Append(fifo[k].coming, m) \in Seq(Msgs(tick))
      BY <1>4, <1>7, <1>9, <2>2 DEF Fifos, Queue
    <3> QED
      BY <1>7, <1>9, <2>2, <3>1 DEF Fifos, Queue
  <2> QED
    BY <1>1, <2>1, <2>2
<1>11. Older'
  BY <1>1, <1>3, <1>10 DEF Older, clock, Fifos, Queue, Msgs
<1> QED
  BY <1>1, <1>2, <1>5, <1>6, <1>8, <1>11, StillWorks

LEMMA DoneStep ==
  ASSUME IInv, NEW i \in Server, Done(i)
  PROVE  IInv'
<1> DEFINE s == server[i]
           t == [s EXCEPT !.pc = "wait"]
<1>1. /\ s.pc = "run" /\ server' = [server EXCEPT ![i] = t]
      /\ tickFinish' = tickFinish - 1 /\ UNCHANGED <<tick, schd, synced, fifo>>
  BY DEF Done, Become
<1>2. WellFormed(s) /\ Works(s)
  BY <1>1 DEF IInv, ServersTyped, Works
<1>3. schd = "wait" /\ s.time = tick /\ tick \in Nat /\ i \in Owing
  BY <1>2, WhenWorking DEF IInv, ClockTyped
<1>4. /\ DOMAIN t = Fields /\ t.pc = "wait" /\ t.time = s.time /\ t.out = s.out
      /\ t.next = s.next /\ t.remaining = s.remaining /\ t.credit = s.credit
  BY <1>1, <1>2, FieldsAre DEF WellFormed
<1>5. WellFormed(t)
  BY <1>2, <1>4 DEF Holds, WellFormed
<1> HIDE DEF t
<1>6. /\ DOMAIN server = Server
      /\ \A j \in Server : server'[j] = IF j = i THEN t ELSE server[j]
  BY <1>1 DEF IInv, ServersTyped, t
<1>7. ServersTyped'
  BY <1>1, <1>5, <1>6 DEF IInv, ServersTyped, WellFormed, Holds, Msgs
<1>8. ClockTyped' /\ AllWait' /\ AllLeave' /\ Older'
  BY <1>1, <1>3 DEF IInv, ClockTyped, AllWait, AllLeave, Older, Between, Fifos, Queue, Msgs
<1>9. Owing' = Owing \ {i}
  BY <1>1, <1>3, <1>4, <1>6 DEF Owing, Works, Waits
<1>10. AllCounted'
  <2>1. Cardinality(Owing \ {i}) = Cardinality(Owing) - 1
    BY <1>3, OwingFinite, FS_RemoveElement
  <2> QED
    BY <1>1, <1>3, <1>9, <2>1 DEF IInv, AllCounted
<1>11. AllInTick'
  BY <1>1, <1>3, <1>4, <1>6 DEF IInv, AllInTick, Works, Waits
<1> QED
  BY <1>7, <1>8, <1>10, <1>11 DEF IInv

-----------------------------------------------------------------------------
(***************************************************************************)
(* Steps of the scheduler.                                                 *)
(***************************************************************************)
LEMMA ServersStay ==
  ASSUME IInv, UNCHANGED server
  PROVE  ServersTyped'
BY DEF IInv, ServersTyped, WellFormed, Holds, Msgs, Fields, NewServer, Nothing

LEMMA AddStep == ASSUME IInv, Add PROVE IInv'
<1> USE DEF Add
<1>1. ServersTyped' /\ ClockTyped' /\ AllWait'
  BY ServersStay DEF IInv, ClockTyped, AllWait, Between
<1>2. AllCounted' /\ AllInTick' /\ AllLeave'
  BY EmulatorAssumption DEF IInv, AllCounted, AllInTick, AllLeave
<1>3. Older'
  BY DEF IInv, Older
<1> QED
  BY <1>1, <1>2, <1>3 DEF IInv

\* The tick begins: every server owes its part.
LEMMA TickStep == ASSUME IInv, Tick PROVE IInv'
<1>0. /\ schd = "tick" /\ schd' = "wait" /\ tick \in Nat /\ tick' = tick + 1
      /\ UNCHANGED <<synced, tickFinish, server, fifo>>
  BY DEF Tick, IInv, ClockTyped
<1>1. ServersTyped' /\ ClockTyped' /\ AllWait' /\ AllLeave'
  BY <1>0, ServersStay DEF IInv, ClockTyped, AllWait, AllLeave, Between
<1>2. \A i \in Server : Waits(server[i]) /\ server[i].time = tick
  BY <1>0 DEF IInv, AllWait, Between
<1>3. AllInTick'
  BY <1>0, <1>2 DEF AllInTick, Waits, Works
<1>4. Owing' = Server
  BY <1>0, <1>2 DEF Owing, Waits, Works
<1>5. AllCounted'
  BY <1>0, <1>4, ServerFinite DEF IInv, AllCounted
<1>6. Older'
  <2>1. fifo \in Fifos(tick, tick)
    BY <1>0 DEF IInv, Older
  <2>2. Seq(Msgs(tick)) \subseteq Seq(Msgs(tick + 1))
    BY <1>0, MsgsMono, SeqMono
  <2>3. fifo \in Fifos(tick + 1, tick)
    BY <2>1, <2>2 DEF Fifos, Queue
  <2>4. tick' = tick + 1 /\ tick' - 1 = tick
    BY <1>0
  <2>5. fifo' \in Fifos(tick', tick' - 1)
    BY <1>0, <2>3, <2>4 DEF Fifos, Queue, Msgs
  <2> QED
    BY <1>0, <2>5 DEF Older, Fifos, Queue, Msgs
<1> QED
  BY <1>1, <1>3, <1>5, <1>6 DEF IInv

\* The wait group is at zero: no server owes anything.
LEMMA WaitStep == ASSUME IInv, Wait PROVE IInv'
<1>0. /\ schd = "wait" /\ schd' = "sync" /\ tick \in Nat /\ tickFinish = 0 /\ synced' = 0
      /\ UNCHANGED <<tick, tickFinish, server, fifo>>
  BY DEF Wait, IInv, ClockTyped
<1>1. ServersTyped' /\ ClockTyped' /\ AllLeave' /\ AllCounted' /\ AllInTick'
  BY <1>0, ServersStay, EmulatorAssumption
  DEF IInv, ClockTyped, AllLeave, AllCounted, AllInTick
<1>2. Owing = {}
  BY <1>0, OwingFinite, FS_EmptySet DEF IInv, AllCounted
<1>3. AllWait'
  <2> SUFFICES ASSUME NEW i \in Server PROVE Waits(server[i]) /\ server[i].time = tick
    BY <1>0 DEF AllWait
  <2>1. ~Works(server[i]) /\ ~(Waits(server[i]) /\ server[i].time < tick)
    BY <1>2 DEF Owing
  <2> QED
    BY <1>0, <2>1 DEF IInv, AllInTick
<1>4. Older'
  <2>1. fifo \in Fifos(tick, tick - 1)
    BY <1>0 DEF IInv, Older
  <2>2. Seq(Msgs(tick - 1)) \subseteq Seq(Msgs(tick))
    BY <1>0, MsgsMono, SeqMono
  <2>3. fifo \in Fifos(tick, tick)
    BY <2>1, <2>2 DEF Fifos, Queue
  <2>4. fifo' \in Fifos(tick, tick)
    BY <1>0, <2>3
  <2> QED
    BY <1>0, <2>4 DEF Older, Fifos, Queue, Msgs
<1> QED
  BY <1>1, <1>3, <1>4 DEF IInv

\* What was sent in the tick is ready in the next.
LEMMA SyncNextStep == ASSUME IInv, SyncNext PROVE IInv'
<1> DEFINE k == synced + 1
           q == fifo[k].ready \o fifo[k].coming
<1>0. /\ schd = "sync" /\ schd' \in {"sync", "select"} /\ synced' = k
      /\ schd' = "sync" => k # 2 * nServer
      /\ fifo' = [fifo EXCEPT ![k] = [coming |-> <<>>, ready |-> q]]
      /\ UNCHANGED <<tick, tickFinish, server>>
  BY DEF SyncNext
<1>1. /\ tick \in Nat /\ tick > 0 /\ synced \in Nat /\ synced < 2 * nServer
      /\ k \in 1..(2 * nServer)
  BY <1>0, EmulatorAssumption DEF IInv, ClockTyped
<1>2. ServersTyped'
  BY <1>0, ServersStay
<1>3. ClockTyped' /\ AllWait' /\ AllLeave' /\ AllCounted' /\ AllInTick'
  BY <1>0, <1>1, EmulatorAssumption
  DEF IInv, ClockTyped, AllWait, AllLeave, AllCounted, AllInTick, Between
<1>4. fifo \in Fifos(tick, tick)
  BY <1>0 DEF IInv, Older
<1>5. q \in Seq(Msgs(tick)) /\ <<>> \in Seq(Msgs(tick))
  <2> DEFINE S == Msgs(tick)
  <2>1. fifo[k].ready \in Seq(S) /\ fifo[k].coming \in Seq(S)
    BY <1>1, <1>4 DEF Fifos, Queue
  <2> HIDE DEF S
  <2> QED
    BY <2>1, ConcatProperties, EmptySeq DEF S
<1>6. Older'
  <2> HIDE DEF k, q
  <2>1. fifo' \in Fifos(tick, tick)
    BY <1>0, <1>1, <1>4, <1>5 DEF Fifos, Queue
  <2> QED
    BY <1>0, <2>1 DEF Older, Fifos, Queue, Msgs
<1> QED
  BY <1>2, <1>3, <1>6 DEF IInv

\* No server has not begun when the scheduler stops.
LEMMA SelectStep == ASSUME IInv, Select PROVE IInv'
<1>0. /\ schd = "select" /\ tick \in Nat /\ tick > 0
      /\ UNCHANGED <<synced, tickFinish, server, fifo>>
      /\ \/ tick' = -1 /\ schd' = "exit"
         \/ schd' = "add" /\ tick' = tick
  BY DEF Select, IInv, ClockTyped
<1>1. ServersTyped' /\ ClockTyped' /\ AllWait' /\ AllCounted' /\ AllInTick'
  BY <1>0, ServersStay DEF IInv, ClockTyped, AllWait, AllCounted, AllInTick, Between
<1>2. \A i \in Server : server[i].pc = "wait"
  BY <1>0 DEF IInv, AllWait, ServersTyped, WellFormed, Between, Waits
<1>3. AllLeave'
  BY <1>0, <1>2 DEF AllLeave
<1>4. Older'
  BY <1>0 DEF IInv, Older
<1> QED
  BY <1>1, <1>3, <1>4 DEF IInv

\* main, and steps of others, leave the clock, the servers and the queues.
LEMMA OtherStep == ASSUME IInv, UNCHANGED <<clock, server, fifo>> PROVE IInv'
<1>1. ServersTyped'
  BY ServersStay
<1>2. ClockTyped' /\ AllWait' /\ AllInTick' /\ AllLeave' /\ Older'
  BY DEF IInv, ClockTyped, AllWait, AllInTick, AllLeave, Older, Between, clock
<1>3. Owing' = Owing
  BY DEF Owing, clock
<1>4. AllCounted'
  BY <1>3 DEF IInv, AllCounted, clock
<1> QED
  BY <1>1, <1>2, <1>4 DEF IInv

-----------------------------------------------------------------------------
THEOREM StepInv == IInv /\ [EmuNext]_emuVars => IInv'
<1> SUFFICES ASSUME IInv, [EmuNext]_emuVars PROVE IInv'
  OBVIOUS
<1>1. CASE Schedules
  BY <1>1, AddStep, TickStep, WaitStep, SyncNextStep, SelectStep DEF Schedules
<1>2. CASE CountTerm
  BY <1>2, OtherStep DEF CountTerm
<1>3. ASSUME NEW i \in Server, Runs(i) PROVE IInv'
  BY <1>3, StartStep, InitializeStep, WakeStep, ExitStep, DownloadPartStep,
     ProcessMsgStep, FetchStep, StarveStep, DispatchMsgStep, DoneStep DEF Runs
<1>4. CASE UNCHANGED emuVars
  BY <1>4, OtherStep DEF emuVars
<1> QED
  BY <1>1, <1>2, <1>3, <1>4 DEF EmuNext

THEOREM InvIsInStep == IInv => InStep
<1> SUFFICES ASSUME IInv PROVE InStep
  OBVIOUS
<1>1. Between => \A i \in Server : server[i].pc \in {"start", "wait"} /\ server[i].time = tick
  BY DEF IInv, AllWait, Waits
<1>2. \A i \in Server : server[i].remaining > 0 => server[i].next.at < server[i].time
  BY DEF IInv, ServersTyped, WellFormed, Holds
<1> QED
  BY <1>1, <1>2 DEF InStep, Between

(***************************************************************************)
(* For any number of servers, crashed or not, any bandwidth and whatever   *)
(* the protocols do: while the scheduler syncs the queues no server uses   *)
(* one, and none downloads in a tick what has been sent in it.             *)
(***************************************************************************)
THEOREM InStepAlways == EmuSpec => []InStep
<1> QED
  BY InitInv, StepInv, InvIsInStep, PTL DEF EmuSpec

-----------------------------------------------------------------------------
(***************************************************************************)
(* The queue.                                                              *)
(***************************************************************************)
\* The ring of l cells: those to be received, and behind them those for sending.
Layout(l, rx, nr, tx, nt) ==
  /\ l \in Nat /\ l > 0
  /\ rx \in Nat /\ nr \in Nat /\ tx \in Nat /\ nt \in Nat
  /\ rx < l /\ nr + nt = l
  /\ tx = At(rx + nr, l) - 1

Rings(b, rx, nr, tx, nt) == b \in Seq(Nat) /\ Layout(Len(b), rx, nr, tx, nt)

\* What Coming has in its k-th place.
Placed(sd, b, tx, k) ==
  IF \E s \in Sender : sd[s].n = k
  THEN sd[CHOOSE s \in Sender : sd[s].n = k].m
  ELSE b[At(tx + k - 1, Len(b))]

Received ==
  /\ nRx \in Nat /\ nRxSuccess \in Nat /\ receiving \in Nat
  /\ nRx <= rxBufSize
  /\ receiving = 0 => nRxSuccess = nRx
  /\ receiving # 0 => receiving = nRx /\ nRx = nRxSuccess + 1

SendCall == [pc : {"idle", "write", "grow"}, n : Nat, m : Nat]

Numbers(sd, nt) ==
  /\ sd \in [Sender -> SendCall]
  /\ \A s \in Sender : sd[s].n <= nt /\ (sd[s].pc = "idle" <=> sd[s].n = 0)
  /\ \A s, t \in Sender : sd[s].n = sd[t].n /\ sd[s].n # 0 => s = t

Calls == nTx \in Nat /\ nSent \in Nat /\ Numbers(sender, nTx)

\* Only the sender s is at another place.
Turned(sd, s, call) == sd = [sender EXCEPT ![s] = call]

\* A number that no sender holds has been written, so there is a cell for it.
Room == \A k \in 1..nTx : k > txBufSize => \E s \in Sender : sender[s].n = k

QueueInv ==
  /\ Rings(buf, rxBufStart, rxBufSize, txBufStart, txBufSize)
  /\ Received
  /\ Calls
  /\ Room

-----------------------------------------------------------------------------
\* The cell of the k-th message to be sent is no other's.
Alone(l, rx, nr, tx, nt, k) ==
  /\ At(tx + k - 1, l) \in 1..l
  /\ \A i \in 1..nr : At(rx + i - 1, l) # At(tx + k - 1, l)
  /\ \A j \in 1..nt : j # k => At(tx + j - 1, l) # At(tx + k - 1, l)

LEMMA TwoRegions ==
  ASSUME NEW l, NEW rx, NEW nr, NEW tx, NEW nt, Layout(l, rx, nr, tx, nt),
         NEW k \in Nat, k > 0, k <= nt
  PROVE  Alone(l, rx, nr, tx, nt, k)
BY DEF At, Layout, Alone

LEMMA InRing ==
  ASSUME NEW l, NEW rx, NEW nr, NEW tx, NEW nt, Layout(l, rx, nr, tx, nt)
  PROVE  /\ \A k \in 1..nt : At(tx + k - 1, l) \in 1..l
         /\ \A i \in 1..nr : At(rx + i - 1, l) \in 1..l
         /\ tx < l /\ At(tx + nt, l) - 1 = rx
BY DEF At, Layout

\* Where the cells for sending start when c new ones have come in.
StartAfter(rx, tx, nt, c) == tx + (IF rx <= tx /\ nt # 0 THEN c ELSE 0)

\* An old cell is where it was or c further on.
Moved(l, rx, nr, tx, nt, c, ty) ==
  /\ \A k \in 1..nt : At(ty + k - 1, l + c) =
       IF At(tx + k - 1, l) <= rx THEN At(tx + k - 1, l) ELSE At(tx + k - 1, l) + c
  /\ \A i \in 1..nr : At((rx + c) + i - 1, l + c) =
       IF At(rx + i - 1, l) <= rx THEN At(rx + i - 1, l) ELSE At(rx + i - 1, l) + c

LEMMA RoomMade ==
  ASSUME NEW l, NEW rx, NEW nr, NEW tx, NEW nt, Layout(l, rx, nr, tx, nt), NEW c \in Nat, c > 0
  PROVE  /\ Layout(l + c, rx + c, nr, StartAfter(rx, tx, nt, c), nt + c)
         /\ Moved(l, rx, nr, tx, nt, c, StartAfter(rx, tx, nt, c))
<1>1. Layout(l + c, rx + c, nr, StartAfter(rx, tx, nt, c), nt + c)
  BY DEF At, Layout, StartAfter
<1>2. Moved(l, rx, nr, tx, nt, c, StartAfter(rx, tx, nt, c))
  BY DEF At, Layout, StartAfter, Moved
<1> QED
  BY <1>1, <1>2

LEMMA Joined ==
  ASSUME NEW f \in Seq(Nat), NEW g \in Seq(Nat)
  PROVE  /\ f \o g \in Seq(Nat) /\ Len(f \o g) = Len(f) + Len(g)
         /\ \A i \in 1..Len(f) : (f \o g)[i] = f[i]
         /\ \A i \in 1..Len(g) : (f \o g)[Len(f) + i] = g[i]
<1>1. f \o g \in Seq(Nat) /\ Len(f \o g) = Len(f) + Len(g)
  OBVIOUS
<1>2. Len(f) \in Nat /\ Len(g) \in Nat
  OBVIOUS
<1>3. \A i \in 1..Len(f) + Len(g) : (f \o g)[i] = IF i <= Len(f) THEN f[i] ELSE g[i - Len(f)]
  BY ConcatProperties
<1>4. ASSUME NEW i \in 1..Len(g) PROVE (f \o g)[Len(f) + i] = g[i]
  <2>1. Len(f) + i \in 1..Len(f) + Len(g) /\ ~(Len(f) + i <= Len(f)) /\ Len(f) + i - Len(f) = i
    BY <1>2
  <2> QED
    BY <1>3, <2>1
<1>5. ASSUME NEW i \in 1..Len(f) PROVE (f \o g)[i] = f[i]
  <2>1. i \in 1..Len(f) + Len(g) /\ i <= Len(f)
    BY <1>2
  <2> QED
    BY <1>3, <2>1
<1> QED
  BY <1>1, <1>4, <1>5

\* After the p-th cell c new ones are inserted.
Inserts(b, p, c, r) ==
  /\ r \in Seq(Nat) /\ Len(r) = Len(b) + c
  /\ \A i \in 1..Len(b) : r[IF i <= p THEN i ELSE i + c] = b[i]

LEMMA Inserted ==
  ASSUME NEW b \in Seq(Nat), NEW p \in Nat, p <= Len(b), NEW new \in Seq(Nat)
  PROVE  Inserts(b, p, Len(new), SubSeq(b, 1, p) \o new \o SubSeq(b, p + 1, Len(b)))
<1> DEFINE u == SubSeq(b, 1, p)
           v == SubSeq(b, p + 1, Len(b))
<1>1. Len(b) \in Nat /\ Len(new) \in Nat
  OBVIOUS
<1>2. u \in Seq(Nat) /\ Len(u) = p /\ \A i \in 1..p : u[i] = b[i]
  <2>1. u = [i \in 1..p |-> b[i]]
    BY <1>1
  <2>2. \A i \in 1..p : b[i] \in Nat
    BY <1>1
  <2> QED
    BY <2>1, <2>2
<1>3. v \in Seq(Nat) /\ Len(v) = Len(b) - p /\ \A i \in 1..Len(b) - p : v[i] = b[p + i]
  <2> DEFINE k == Len(b) - p
  <2>1. k \in Nat /\ k = Len(b) - p
    BY <1>1
  <2> HIDE DEF k
  <2>2. v = [i \in 1..k |-> b[p + i]]
    <3>1. Len(b) - (p + 1) + 1 = k
      BY <1>1, <2>1
    <3>2. v = [i \in 1..(Len(b) - (p + 1) + 1) |-> b[i + (p + 1) - 1]]
      BY <1>1
    <3>3. \A i \in 1..k : i + (p + 1) - 1 = p + i
      OBVIOUS
    <3> QED
      BY <3>1, <3>2, <3>3
  <2>3. \A i \in 1..k : b[p + i] \in Nat
    BY <1>1, <2>1
  <2>4. v \in Seq(Nat) /\ Len(v) = k /\ \A i \in 1..k : v[i] = b[p + i]
    BY <2>1, <2>2, <2>3
  <2> QED
    BY <2>1, <2>4
<1> HIDE DEF u, v
<1> DEFINE w == u \o new
<1>4. w \in Seq(Nat) /\ Len(w) = Len(u) + Len(new) /\ \A i \in 1..Len(u) : w[i] = u[i]
  BY <1>2, Joined
<1> HIDE DEF w
<1> DEFINE r == w \o v
<1>5. /\ r \in Seq(Nat) /\ Len(r) = Len(w) + Len(v)
      /\ \A i \in 1..Len(w) : r[i] = w[i]
      /\ \A i \in 1..Len(v) : r[Len(w) + i] = v[i]
  BY <1>3, <1>4, Joined
<1> HIDE DEF r
<1>6. Len(w) = p + Len(new) /\ Len(r) = Len(b) + Len(new)
  BY <1>1, <1>2, <1>3, <1>4, <1>5
<1>7. ASSUME NEW i \in 1..Len(b)
      PROVE  r[IF i <= p THEN i ELSE i + Len(new)] = b[i]
  <2>1. CASE i <= p
    <3>1. i \in 1..p /\ i \in 1..Len(w)
      BY <1>1, <1>6, <2>1
    <3> QED
      BY <1>2, <1>4, <1>5, <2>1, <3>1
  <2>2. CASE ~(i <= p)
    <3>1. i - p \in 1..Len(v) /\ i - p \in 1..Len(b) - p /\ Len(w) + (i - p) = i + Len(new)
            /\ p + (i - p) = i
      BY <1>1, <1>3, <1>6, <2>2
    <3>2. r[Len(w) + (i - p)] = v[i - p] /\ v[i - p] = b[p + (i - p)]
      BY <1>3, <1>5, <3>1
    <3> QED
      BY <2>2, <3>1, <3>2
  <2> QED
    BY <2>1, <2>2
<1> QED
  BY <1>5, <1>6, <1>7 DEF Inserts, u, v, w, r

-----------------------------------------------------------------------------
Holder(sd, s, k) == sd[s].n = k /\ \A t \in Sender : sd[t].n = k => t = s

LEMMA PlacedHeld ==
  ASSUME NEW sd, NEW b, NEW tx, NEW k, NEW s \in Sender, Holder(sd, s, k)
  PROVE  Placed(sd, b, tx, k) = sd[s].m
BY DEF Placed, Holder

LEMMA PlacedFree ==
  ASSUME NEW sd, NEW b, NEW tx, NEW k, ~\E s \in Sender : sd[s].n = k
  PROVE  Placed(sd, b, tx, k) = b[At(tx + k - 1, Len(b))]
BY DEF Placed

-----------------------------------------------------------------------------
LEMMA CallIs ==
  ASSUME Calls, NEW s \in Sender
  PROVE  /\ sender[s].n \in Nat /\ sender[s].m \in Nat /\ sender[s].n <= nTx
         /\ sender[s].pc \in {"idle", "write", "grow"}
         /\ sender[s].pc = "idle" <=> sender[s].n = 0
<1>1. sender[s] \in SendCall
  BY DEF Calls, Numbers
<1> QED
  BY <1>1 DEF SendCall, Calls, Numbers

\* The number of a sender that takes a step.
IdleHas(pc, n) == pc = "idle" <=> n = 0
MayHold(s, n) == n = sender[s].n \/ n = 0 \/ n > nTx

\* One sender is at another place, with another number.
LEMMA CallsStep ==
  ASSUME Calls, NEW s \in Sender, NEW pc \in {"idle", "write", "grow"}, NEW n \in Nat, NEW m \in Nat,
         NEW nt \in Nat, nt >= nTx, n <= nt, IdleHas(pc, n),
         MayHold(s, n),
         NEW sd, Turned(sd, s, [pc |-> pc, n |-> n, m |-> m])
  PROVE  Numbers(sd, nt)
<1>1. sender \in [Sender -> SendCall] /\ nTx \in Nat
  BY DEF Calls, Numbers
<1>2. [pc |-> pc, n |-> n, m |-> m] \in SendCall
  BY DEF SendCall
<1>3. sd \in [Sender -> SendCall]
  BY <1>1, <1>2 DEF Turned
<1>4. sd[s].n = n /\ sd[s].pc = pc /\ \A t \in Sender : t # s => sd[t] = sender[t]
  BY <1>1 DEF Turned
<1>5. \A t \in Sender : /\ sender[t].n \in Nat /\ sender[t].n <= nTx
                        /\ sender[t].pc = "idle" <=> sender[t].n = 0
  BY CallIs
<1>6. \A t, u \in Sender : sender[t].n = sender[u].n /\ sender[t].n # 0 => t = u
  BY DEF Calls, Numbers
<1>7. ASSUME NEW t \in Sender PROVE sd[t].n <= nt /\ (sd[t].pc = "idle" <=> sd[t].n = 0)
  BY <1>1, <1>4, <1>5 DEF IdleHas
<1>8. ASSUME NEW t \in Sender, NEW u \in Sender, sd[t].n = sd[u].n, sd[t].n # 0 PROVE t = u
  <2>1. CASE t # s /\ u # s
    BY <1>4, <1>6, <1>8, <2>1
  <2>2. ASSUME NEW v \in Sender, v # s, sender[v].n = n, n # 0 PROVE FALSE
    <3>1. sender[v].n <= nTx /\ sender[v].n \in Nat
      BY <1>5
    <3>2. n = sender[s].n
      BY <1>1, <2>2, <3>1 DEF MayHold
    <3> QED
      BY <1>6, <2>2, <3>2
  <2>3. CASE t = s /\ u # s
    BY <1>4, <1>8, <2>2, <2>3
  <2>4. CASE t # s /\ u = s
    BY <1>4, <1>8, <2>2, <2>4
  <2> QED
    BY <2>1, <2>3, <2>4
<1> QED
  BY <1>3, <1>7, <1>8 DEF Numbers

-----------------------------------------------------------------------------
\* What growing does, in terms of what it inserts and writes.
Grows(s, c, r) ==
  /\ c \in Nat /\ c > 0 /\ sender[s].n <= txBufSize + c
  /\ Inserts(buf, rxBufStart, c, r)
  /\ txBufStart' = StartAfter(rxBufStart, txBufStart, txBufSize, c)
  /\ rxBufStart' = rxBufStart + c
  /\ txBufSize' = txBufSize + c
  /\ buf' = WriteAt(r, txBufStart', s)

LEMMA RingIs ==
  ASSUME Rings(buf, rxBufStart, rxBufSize, txBufStart, txBufSize)
  PROVE  /\ buf \in Seq(Nat) /\ Len(buf) \in Nat /\ Len(buf) > 0
         /\ rxBufStart \in Nat /\ rxBufSize \in Nat /\ txBufStart \in Nat /\ txBufSize \in Nat
         /\ rxBufStart < Len(buf) /\ rxBufSize + txBufSize = Len(buf)
BY DEF Rings, Layout

LEMMA InsertsAt ==
  ASSUME Rings(buf, rxBufStart, rxBufSize, txBufStart, txBufSize)
  PROVE  insertAfter = rxBufStart
<1>1. Layout(Len(buf), rxBufStart, rxBufSize, txBufStart, txBufSize)
  BY DEF Rings
<1>2. At(txBufStart + txBufSize, Len(buf)) - 1 = rxBufStart
  BY <1>1, InRing
<1> QED
  BY <1>2 DEF insertAfter, bufLen

LEMMA EnoughAllocated ==
  ASSUME QueueInv, NEW s \in Sender
  PROVE  /\ Allocated(s) \in Nat /\ Allocated(s) > 0
         /\ ~Fits(s) => sender[s].n <= txBufSize + Allocated(s)
<1> DEFINE x == sender[s].n - txBufSize + Headroom
           y == Len(buf)
<1>1. x \in Int /\ y \in Nat /\ y > 0 /\ x >= sender[s].n - txBufSize
  BY RingIs, CallIs, Sizes DEF QueueInv
<1>2. Allocated(s) = Max({x, y})
  BY DEF Allocated, bufLen
<1> HIDE DEF x, y
<1>3. Max({x, y}) \in {x, y} /\ Max({x, y}) >= x /\ Max({x, y}) >= y
  <2>1. \E z \in {x, y} : \A w \in {x, y} : z >= w
    <3>1. CASE x >= y
      BY <1>1, <3>1
    <3>2. CASE y >= x
      BY <1>1, <3>2
    <3> QED
      BY <1>1, <3>1, <3>2
  <2> QED
    BY <2>1 DEF Max
<1>4. Allocated(s) \in Nat /\ Allocated(s) > 0 /\ Allocated(s) >= x
  BY <1>1, <1>2, <1>3
<1>6. txBufSize \in Nat /\ sender[s].n \in Nat
  BY RingIs, CallIs DEF QueueInv
<1>5. sender[s].n <= txBufSize + x
  BY <1>1, <1>6
<1> QED
  BY <1>1, <1>4, <1>5, <1>6

LEMMA GrowIs ==
  ASSUME QueueInv, NEW s \in Sender, Grow(s)
  PROVE  \E c, r : Grows(s, c, r)
<1> DEFINE c == Allocated(s)
           new == [k \in 1..c |-> Nil]
           r == SubSeq(buf, 1, insertAfter) \o new \o SubSeq(buf, insertAfter + 1, bufLen)
<1>1. c \in Nat /\ c > 0 /\ sender[s].n <= txBufSize + c
  BY EnoughAllocated DEF Grow
<1>2. Rings(buf, rxBufStart, rxBufSize, txBufStart, txBufSize) /\ insertAfter = rxBufStart
  BY InsertsAt DEF QueueInv
<1>3. /\ txBufStart' = txBufStart + (IF TxShifted THEN Len(new) ELSE 0)
      /\ rxBufStart' = rxBufStart + Len(new) /\ txBufSize' = txBufSize + Len(new)
      /\ buf' = WriteAt(r, txBufStart', s)
  BY DEF Grow
<1>4. new \in Seq(Nat) /\ Len(new) = c
  <2> HIDE DEF c
  <2> QED
    BY <1>1 DEF Nil
<1> HIDE DEF c, new
<1>5. Inserts(buf, rxBufStart, Len(new),
             SubSeq(buf, 1, rxBufStart) \o new \o SubSeq(buf, rxBufStart + 1, Len(buf)))
  <2>1. buf \in Seq(Nat) /\ rxBufStart \in Nat /\ rxBufStart <= Len(buf)
    BY <1>2, RingIs
  <2> QED
    BY <1>4, <2>1, Inserted
<1>6. Inserts(buf, rxBufStart, c, r)
  BY <1>2, <1>4, <1>5 DEF bufLen
<1> HIDE DEF r
<1>7. txBufStart' = StartAfter(rxBufStart, txBufStart, txBufSize, c)
  BY <1>2, <1>3, <1>4 DEF TxShifted, StartAfter
<1>8. rxBufStart' = rxBufStart + c /\ txBufSize' = txBufSize + c
  BY <1>3, <1>4
<1>9. Grows(s, c, r)
  BY <1>1, <1>3, <1>6, <1>7, <1>8 DEF Grows
<1> QED
  BY <1>9

-----------------------------------------------------------------------------
\* From the ring b to the ring d the cells for sending are as before but for
\* the n-th, and so are those that can be received.
SentAs(b, tx, nt, d, ty, n, m) ==
  /\ \A k \in 1..nt : k # n => d[At(ty + k - 1, Len(d))] = b[At(tx + k - 1, Len(b))]
  /\ d[At(ty + n - 1, Len(d))] = m

ReadAs(b, rx, nr, d, ry) ==
  \A i \in 1..nr : d[At(ry + i - 1, Len(d))] = b[At(rx + i - 1, Len(b))]

LEMMA CellWritten ==
  ASSUME NEW b \in Seq(Nat), NEW p \in 1..Len(b), NEW m \in Nat
  PROVE  LET d == [b EXCEPT ![p] = m] IN
         /\ d \in Seq(Nat) /\ Len(d) = Len(b) /\ d[p] = m
         /\ \A q \in 1..Len(b) : q # p => d[q] = b[q]
OBVIOUS

LEMMA WriteCells ==
  ASSUME NEW b, NEW rx, NEW nr, NEW tx, NEW nt, Rings(b, rx, nr, tx, nt),
         NEW n \in Nat, n > 0, n <= nt, NEW m \in Nat,
         NEW d, d = [b EXCEPT ![At(tx + n - 1, Len(b))] = m]
  PROVE  Rings(d, rx, nr, tx, nt) /\ SentAs(b, tx, nt, d, tx, n, m) /\ ReadAs(b, rx, nr, d, rx)
<1> DEFINE l == Len(b)
           p == At(tx + n - 1, l)
<1>1. b \in Seq(Nat) /\ Layout(l, rx, nr, tx, nt) /\ l = Len(b)
  BY DEF Rings
<1> HIDE DEF l
<1>2. Alone(l, rx, nr, tx, nt, n)
  BY <1>1, TwoRegions
<1>3. /\ p \in 1..l /\ d = [b EXCEPT ![p] = m]
      /\ \A i \in 1..nr : At(rx + i - 1, l) # p
      /\ \A j \in 1..nt : j # n => At(tx + j - 1, l) # p
  BY <1>2 DEF Alone, l
<1>4. p = At(tx + n - 1, l)
  OBVIOUS
<1> HIDE DEF p
<1>5. d \in Seq(Nat) /\ Len(d) = l /\ d[p] = m /\ \A q \in 1..l : q # p => d[q] = b[q]
  <2>1. b \in Seq(Nat) /\ p \in 1..Len(b)
    BY <1>1, <1>3
  <2>2. /\ [b EXCEPT ![p] = m] \in Seq(Nat) /\ Len([b EXCEPT ![p] = m]) = Len(b)
        /\ [b EXCEPT ![p] = m][p] = m
        /\ \A q \in 1..Len(b) : q # p => [b EXCEPT ![p] = m][q] = b[q]
    BY <2>1, CellWritten
  <2> QED
    BY <1>1, <1>3, <2>2
<1>6. /\ \A k \in 1..nt : At(tx + k - 1, l) \in 1..l
      /\ \A i \in 1..nr : At(rx + i - 1, l) \in 1..l
  BY <1>1, InRing
<1>7. Rings(d, rx, nr, tx, nt)
  BY <1>1, <1>5 DEF Rings
<1>8. SentAs(b, tx, nt, d, tx, n, m)
  <2>1. d[At(tx + n - 1, Len(d))] = m
    BY <1>4, <1>5
  <2>2. ASSUME NEW k \in 1..nt, k # n
        PROVE  d[At(tx + k - 1, Len(d))] = b[At(tx + k - 1, Len(b))]
    <3>1. At(tx + k - 1, l) \in 1..l /\ At(tx + k - 1, l) # p
      BY <1>3, <1>6, <2>2
    <3> QED
      BY <1>1, <1>5, <3>1
  <2> QED
    BY <2>1, <2>2 DEF SentAs
<1>9. ReadAs(b, rx, nr, d, rx)
  BY <1>1, <1>3, <1>5, <1>6 DEF ReadAs
<1> QED
  BY <1>7, <1>8, <1>9

LEMMA GrowCells ==
  ASSUME NEW b, NEW rx, NEW nr, NEW tx, NEW nt, Rings(b, rx, nr, tx, nt),
         NEW c \in Nat, c > 0, NEW r, Inserts(b, rx, c, r)
  PROVE  LET ty == StartAfter(rx, tx, nt, c) IN
         /\ Rings(r, rx + c, nr, ty, nt + c)
         /\ \A k \in 1..nt : r[At(ty + k - 1, Len(r))] = b[At(tx + k - 1, Len(b))]
         /\ ReadAs(b, rx, nr, r, rx + c)
<1> DEFINE l == Len(b)
           ty == StartAfter(rx, tx, nt, c)
<1>1. Layout(l, rx, nr, tx, nt)
  BY DEF Rings
<1>2. r \in Seq(Nat) /\ Len(r) = l + c /\ \A i \in 1..l : r[IF i <= rx THEN i ELSE i + c] = b[i]
  BY DEF Inserts
<1>3. l = Len(b)
  OBVIOUS
<1> HIDE DEF l
<1>4. Layout(l + c, rx + c, nr, ty, nt + c) /\ Moved(l, rx, nr, tx, nt, c, ty)
  BY <1>1, RoomMade
<1> HIDE DEF ty
<1>5. /\ \A k \in 1..nt : At(tx + k - 1, l) \in 1..l
      /\ \A i \in 1..nr : At(rx + i - 1, l) \in 1..l
  BY <1>1, InRing
<1>6. Rings(r, rx + c, nr, ty, nt + c)
  BY <1>2, <1>4 DEF Rings
<1>7. ASSUME NEW k \in 1..nt PROVE r[At(ty + k - 1, Len(r))] = b[At(tx + k - 1, Len(b))]
  <2> DEFINE q == At(tx + k - 1, l)
  <2>1. q \in 1..l /\ At(ty + k - 1, l + c) = IF q <= rx THEN q ELSE q + c
    BY <1>4, <1>5 DEF Moved
  <2> HIDE DEF q
  <2>2. r[At(ty + k - 1, l + c)] = b[q]
    BY <1>2, <2>1
  <2> QED
    BY <1>2, <1>3, <2>2 DEF q
<1>8. ASSUME NEW i \in 1..nr
      PROVE  r[At((rx + c) + i - 1, Len(r))] = b[At(rx + i - 1, Len(b))]
  <2> DEFINE q == At(rx + i - 1, l)
  <2>1. q \in 1..l /\ At((rx + c) + i - 1, l + c) = IF q <= rx THEN q ELSE q + c
    BY <1>4, <1>5 DEF Moved
  <2> HIDE DEF q
  <2>2. r[At((rx + c) + i - 1, l + c)] = b[q]
    BY <1>2, <2>1
  <2> QED
    BY <1>2, <1>3, <2>2 DEF q
<1>9. ReadAs(b, rx, nr, r, rx + c)
  BY <1>8 DEF ReadAs
<1> QED
  BY <1>6, <1>7, <1>9 DEF ty

\* Cells are inserted and one of them, or an old one, is written.
LEMMA GrowWriteCells ==
  ASSUME NEW b, NEW rx, NEW nr, NEW tx, NEW nt, Rings(b, rx, nr, tx, nt),
         NEW c \in Nat, c > 0, NEW r, Inserts(b, rx, c, r),
         NEW n \in Nat, n > 0, n <= nt + c, NEW m \in Nat,
         NEW ty, ty = StartAfter(rx, tx, nt, c),
         NEW d, d = [r EXCEPT ![At(ty + n - 1, Len(r))] = m]
  PROVE  /\ Rings(d, rx + c, nr, ty, nt + c)
         /\ SentAs(b, tx, nt, d, ty, n, m)
         /\ ReadAs(b, rx, nr, d, rx + c)
<1>1. /\ Rings(r, rx + c, nr, ty, nt + c)
      /\ \A k \in 1..nt : r[At(ty + k - 1, Len(r))] = b[At(tx + k - 1, Len(b))]
      /\ ReadAs(b, rx, nr, r, rx + c)
  BY GrowCells
<1> DEFINE ry == rx + c
           ot == nt + c
<1>2. Rings(r, ry, nr, ty, ot) /\ n <= ot
  BY <1>1
<1> HIDE DEF ry, ot
<1>3. Rings(d, ry, nr, ty, ot) /\ SentAs(r, ty, ot, d, ty, n, m) /\ ReadAs(r, ry, nr, d, ry)
  BY <1>2, WriteCells
<1>4. SentAs(b, tx, nt, d, ty, n, m)
  <2>1. nt \in Nat
    BY DEF Rings, Layout
  <2>2. \A k \in 1..nt : k \in 1..ot
    BY <2>1 DEF ot
  <2> QED
    BY <1>1, <1>3, <2>2 DEF SentAs
<1>5. ReadAs(b, rx, nr, d, ry)
  BY <1>1, <1>3 DEF ReadAs, ry
<1> QED
  BY <1>3, <1>4, <1>5 DEF ry, ot

-----------------------------------------------------------------------------
\* The messages sent in the slot, and those that can be received.
Line(sd, b, tx, n) == [k \in 1..n |-> Placed(sd, b, tx, k)]
Slots(b, rx, ok, nr) == [k \in 1..(nr - ok) |-> b[At(rx + ok + k - 1, Len(b))]]

\* A step keeps what is coming.
SameLine(sd, d, ty) == Line(sd, d, ty, nTx) = Line(sender, buf, txBufStart, nTx)

LEMMA LineWritten ==
  ASSUME Calls, Room, NEW s \in Sender, sender[s].n # 0, NEW d, NEW ty,
         SentAs(buf, txBufStart, txBufSize, d, ty, sender[s].n, sender[s].m),
         txBufSize \in Nat,
         NEW sd, Turned(sd, s, Idle)
  PROVE  SameLine(sd, d, ty)
<1> DEFINE n == sender[s].n
<1>1. sender \in [Sender -> SendCall] /\ nTx \in Nat
  BY DEF Calls, Numbers
<1>2. sd[s].n = 0 /\ \A t \in Sender : t # s => sd[t] = sender[t]
  BY <1>1 DEF Idle, Turned
<1>3. \A t, u \in Sender : sender[t].n = sender[u].n /\ sender[t].n # 0 => t = u
  BY DEF Calls, Numbers
<1>4. n \in Nat /\ n > 0
  BY CallIs
<1>5. ASSUME NEW k \in 1..nTx
      PROVE  Placed(sd, d, ty, k) = Placed(sender, buf, txBufStart, k)
  <2>1. CASE k = n
    <3>1. Holder(sender, s, k)
      BY <1>3, <1>4, <2>1 DEF Holder
    <3>2. Placed(sender, buf, txBufStart, k) = sender[s].m
      BY <3>1, PlacedHeld
    <3>3. ~\E t \in Sender : sd[t].n = k
      BY <1>2, <1>3, <1>4, <2>1
    <3>4. Placed(sd, d, ty, k) = d[At(ty + n - 1, Len(d))]
      BY <2>1, <3>3 DEF Placed
    <3> QED
      BY <3>2, <3>4 DEF SentAs
  <2>2. CASE \E t \in Sender : t # s /\ sender[t].n = k
    <3>1. PICK t \in Sender : t # s /\ sender[t].n = k
      BY <2>2
    <3>2. k # 0 /\ sd[t] = sender[t]
      BY <1>2, <3>1
    <3>3. Holder(sender, t, k)
      BY <1>3, <3>1, <3>2 DEF Holder
    <3>4. Holder(sd, t, k)
      BY <1>2, <3>1, <3>2, <3>3 DEF Holder
    <3>5. Placed(sender, buf, txBufStart, k) = sender[t].m
      BY <3>3, PlacedHeld
    <3>6. Placed(sd, d, ty, k) = sd[t].m
      BY <3>4, PlacedHeld
    <3> QED
      BY <3>2, <3>5, <3>6
  <2>3. CASE k # n /\ ~\E t \in Sender : t # s /\ sender[t].n = k
    <3>1. ~(\E t \in Sender : sender[t].n = k) /\ ~(\E t \in Sender : sd[t].n = k)
      BY <1>2, <2>3
    <3>2. k <= txBufSize
      BY <1>1, <3>1 DEF Room
    <3>3. k \in 1..txBufSize
      BY <3>2
    <3>4. d[At(ty + k - 1, Len(d))] = buf[At(txBufStart + k - 1, Len(buf))]
      BY <2>3, <3>3 DEF SentAs
    <3> QED
      BY <3>1, <3>4 DEF Placed
  <2> QED
    BY <2>1, <2>2, <2>3
<1> QED
  BY <1>5 DEF SameLine, Line

LEMMA LineSent ==
  ASSUME Calls, NEW s \in Sender, sender[s].n = 0, NEW sd, NEW m \in Nat,
         Turned(sd, s, [pc |-> "write", n |-> nTx + 1, m |-> m]),
         NEW b, NEW tx
  PROVE  Line(sd, b, tx, nTx + 1) = Append(Line(sender, b, tx, nTx), m)
<1>1. sender \in [Sender -> SendCall] /\ nTx \in Nat
  BY DEF Calls, Numbers
<1>2. sd[s].n = nTx + 1 /\ sd[s].m = m /\ \A t \in Sender : t # s => sd[t] = sender[t]
  BY <1>1 DEF Turned
<1>3. \A t \in Sender : sender[t].n \in Nat /\ sender[t].n <= nTx
  BY CallIs
<1>4. Placed(sd, b, tx, nTx + 1) = m
  <2> DEFINE k == nTx + 1
  <2>1. Holder(sd, s, k)
    BY <1>1, <1>2, <1>3 DEF Holder
  <2> HIDE DEF k
  <2>2. Placed(sd, b, tx, k) = sd[s].m
    BY <2>1, PlacedHeld
  <2> QED
    BY <1>2, <2>2 DEF k
<1>5. ASSUME NEW k \in 1..nTx PROVE Placed(sd, b, tx, k) = Placed(sender, b, tx, k)
  <2>1. \A t \in Sender : sd[t].n = k <=> sender[t].n = k
    BY <1>1, <1>2
  <2>2. CASE \E t \in Sender : sender[t].n = k
    <3>1. PICK t \in Sender : sender[t].n = k
      BY <2>2
    <3>2. Holder(sender, t, k)
      BY <3>1 DEF Calls, Numbers, Holder
    <3>3. Holder(sd, t, k)
      BY <2>1, <3>2 DEF Holder
    <3>4. t # s /\ sd[t] = sender[t]
      BY <1>2, <3>1
    <3>5. Placed(sender, b, tx, k) = sender[t].m
      BY <3>2, PlacedHeld
    <3>6. Placed(sd, b, tx, k) = sd[t].m
      BY <3>3, PlacedHeld
    <3> QED
      BY <3>4, <3>5, <3>6
  <2>3. CASE ~\E t \in Sender : sender[t].n = k
    BY <2>1, <2>3 DEF Placed
  <2> QED
    BY <2>2, <2>3
<1> DEFINE f == Line(sender, b, tx, nTx)
           g == Line(sd, b, tx, nTx + 1)
<1>6. /\ f = [k \in 1..nTx |-> Placed(sender, b, tx, k)]
      /\ g = [k \in 1..(nTx + 1) |-> Placed(sd, b, tx, k)]
  BY DEF Line
<1> HIDE DEF f, g
<1>7. Append(f, m) = [k \in 1..(nTx + 1) |-> IF k = nTx + 1 THEN m ELSE f[k]]
  <2>1. Len(f) = nTx
    BY <1>1, <1>6
  <2> QED
    BY <1>1, <1>6, <2>1
<1>8. ASSUME NEW k \in 1..(nTx + 1)
      PROVE  Placed(sd, b, tx, k) = IF k = nTx + 1 THEN m ELSE f[k]
  <2>1. CASE k = nTx + 1
    BY <1>4, <2>1
  <2>2. CASE k # nTx + 1
    <3>1. k \in 1..nTx
      BY <1>1, <2>2
    <3> QED
      BY <1>5, <1>6, <2>2, <3>1
  <2> QED
    BY <2>1, <2>2
<1> QED
  BY <1>6, <1>7, <1>8 DEF f, g

-----------------------------------------------------------------------------
LEMMA SlotsSame ==
  ASSUME NEW b, NEW rx \in Nat, NEW nr \in Nat, NEW d, NEW ry \in Nat, ReadAs(b, rx, nr, d, ry),
         NEW ok \in Nat
  PROVE  Slots(d, ry, ok, nr) = Slots(b, rx, ok, nr)
<1>1. ASSUME NEW k \in 1..(nr - ok)
      PROVE  d[At(ry + ok + k - 1, Len(d))] = b[At(rx + ok + k - 1, Len(b))]
  <2>1. ok + k \in 1..nr /\ rx + (ok + k) - 1 = rx + ok + k - 1 /\ ry + (ok + k) - 1 = ry + ok + k - 1
    OBVIOUS
  <2>2. d[At(ry + (ok + k) - 1, Len(d))] = b[At(rx + (ok + k) - 1, Len(b))]
    BY <2>1 DEF ReadAs
  <2> QED
    BY <2>1, <2>2
<1> QED
  BY <1>1 DEF Slots

LEMMA SlotsRead ==
  ASSUME NEW b, NEW rx \in Nat, NEW nr \in Nat, NEW ok \in Nat, ok < nr
  PROVE  /\ Slots(b, rx, ok, nr) # <<>>
         /\ Head(Slots(b, rx, ok, nr)) = b[At(rx + ok, Len(b))]
         /\ Slots(b, rx, ok + 1, nr) = Tail(Slots(b, rx, ok, nr))
<1> DEFINE f == Slots(b, rx, ok, nr)
           n == nr - ok
<1>1. n \in Nat /\ n > 0 /\ nr - (ok + 1) = n - 1
  OBVIOUS
<1>2. f = [k \in 1..n |-> b[At(rx + ok + k - 1, Len(b))]]
  BY DEF Slots
<1>3. rx + ok + 1 - 1 = rx + ok
  OBVIOUS
<1> HIDE DEF n, f
<1>4. Len(f) = n /\ f # <<>> /\ Head(f) = f[1]
  BY <1>1, <1>2
<1>5. f[1] = b[At(rx + ok, Len(b))]
  BY <1>1, <1>2, <1>3
<1>6. Tail(f) = [k \in 1..(n - 1) |-> f[k + 1]]
  BY <1>1, <1>2, <1>4
<1>7. \A k \in 1..(n - 1) : f[k + 1] = b[At(rx + (ok + 1) + k - 1, Len(b))]
  <2>1. ASSUME NEW k \in 1..(n - 1) PROVE f[k + 1] = b[At(rx + (ok + 1) + k - 1, Len(b))]
    <3>1. k + 1 \in 1..n /\ rx + ok + (k + 1) - 1 = rx + (ok + 1) + k - 1
      BY <1>1
    <3>2. f[k + 1] = b[At(rx + ok + (k + 1) - 1, Len(b))]
      BY <1>2, <3>1
    <3> QED
      BY <3>1, <3>2
  <2> QED
    BY <2>1
<1>8. Slots(b, rx, ok + 1, nr) = [k \in 1..(n - 1) |-> b[At(rx + (ok + 1) + k - 1, Len(b))]]
  BY <1>1 DEF Slots
<1>9. Slots(b, rx, ok + 1, nr) = Tail(f)
  BY <1>6, <1>7, <1>8
<1> QED
  BY <1>4, <1>5, <1>9 DEF f

-----------------------------------------------------------------------------
\* When a slot ends, what was not received comes first, then what was sent.
Follows(l, rx, nr, tx, nt, ok, n, ry) ==
  /\ \A k \in 1..(nr - ok) : At(ry + 0 + k - 1, l) = At(rx + ok + k - 1, l)
  /\ \A k \in 1..n : At(ry + 0 + (nr - ok + k) - 1, l) = At(tx + k - 1, l)

LEMMA SlotEnds ==
  ASSUME NEW l, NEW rx, NEW nr, NEW tx, NEW nt, Layout(l, rx, nr, tx, nt),
         NEW ok \in Nat, ok <= nr, NEW n \in Nat, n <= nt
  PROVE  LET ry == At(rx + ok, l) - 1
             m == nr + n - ok
         IN /\ Layout(l, ry, m, At(ry + m, l) - 1, l - m)
            /\ Follows(l, rx, nr, tx, nt, ok, n, ry)
<1> DEFINE ry == At(rx + ok, l) - 1
           m == nr + n - ok
<1>1. Layout(l, ry, m, At(ry + m, l) - 1, l - m)
  BY DEF At, Layout
<1>2. Follows(l, rx, nr, tx, nt, ok, n, ry)
  BY DEF At, Layout, Follows
<1> QED
  BY <1>1, <1>2

\* Cells as a sequence.
Row(b, tx, n) == [k \in 1..n |-> b[At(tx + k - 1, Len(b))]]

\* In the new slot one can receive what was left, and then what was sent.
Joins(b, rx, nr, tx, ok, n, ry) ==
  Slots(b, ry, 0, nr + n - ok) = Slots(b, rx, ok, nr) \o Row(b, tx, n)

LEMMA SlotsSynced ==
  ASSUME NEW b, NEW rx, NEW nr, NEW tx, NEW nt, NEW ok \in Nat, NEW n \in Nat, NEW ry,
         nr \in Nat, ok <= nr, Follows(Len(b), rx, nr, tx, nt, ok, n, ry)
  PROVE  Joins(b, rx, nr, tx, ok, n, ry)
<1> DEFINE f == Slots(b, rx, ok, nr)
           g == Row(b, tx, n)
           j == nr - ok
           v(i) == b[At(ry + 0 + i - 1, Len(b))]
<1>1. j \in Nat /\ (nr + n - ok) - 0 = j + n
  OBVIOUS
<1>2. f = [k \in 1..j |-> b[At(rx + ok + k - 1, Len(b))]] /\ g = [k \in 1..n |-> b[At(tx + k - 1, Len(b))]]
  BY DEF Slots, Row
<1>3. Slots(b, ry, 0, nr + n - ok) = [i \in 1..(j + n) |-> v(i)]
  BY <1>1 DEF Slots
<1>4. /\ \A k \in 1..j : v(k) = b[At(rx + ok + k - 1, Len(b))]
      /\ \A k \in 1..n : v(j + k) = b[At(tx + k - 1, Len(b))]
  BY DEF Follows
<1> HIDE DEF f, g, j, v
<1>5. Len(f) = j /\ Len(g) = n
  BY <1>1, <1>2
<1>6. f \o g = [i \in 1..(j + n) |-> IF i <= j THEN f[i] ELSE g[i - j]]
  BY <1>1, <1>2, <1>5
<1>7. ASSUME NEW i \in 1..(j + n) PROVE v(i) = IF i <= j THEN f[i] ELSE g[i - j]
  <2>1. CASE i <= j
    <3>1. i \in 1..j
      BY <1>1, <2>1
    <3> QED
      BY <1>2, <1>4, <2>1, <3>1
  <2>2. CASE ~(i <= j)
    <3>1. i - j \in 1..n /\ j + (i - j) = i
      BY <1>1, <2>2
    <3>2. v(j + (i - j)) = b[At(tx + (i - j) - 1, Len(b))]
      BY <1>4, <3>1
    <3> QED
      BY <1>2, <2>2, <3>1, <3>2
  <2> QED
    BY <2>1, <2>2
<1>8. [i \in 1..(j + n) |-> v(i)] = [i \in 1..(j + n) |-> IF i <= j THEN f[i] ELSE g[i - j]]
  BY <1>7
<1> QED
  BY <1>3, <1>6, <1>8 DEF f, g, Joins

-----------------------------------------------------------------------------
LEMMA ComingIs == Coming = Line(sender, buf, txBufStart, nTx)
BY DEF Coming, Placed, bufLen, Line

LEMMA NextComingIs == Coming' = Line(sender', buf', txBufStart', nTx')
BY DEF Coming, Placed, bufLen, Line

LEMMA ReadyIs == Ready = Slots(buf, rxBufStart, nRxSuccess, rxBufSize)
BY DEF Ready, bufLen, Slots

LEMMA NextReadyIs == Ready' = Slots(buf', rxBufStart', nRxSuccess', rxBufSize')
BY DEF Ready, bufLen, Slots

LEMMA QueueInit == Init => QueueInv /\ IsMailbox!Init
<1> SUFFICES ASSUME Init PROVE QueueInv /\ IsMailbox!Init
  OBVIOUS
<1>1. bufsz \in Nat /\ bufsz > 0
  BY Sizes
<1>2. buf \in Seq(Nat) /\ Len(buf) = bufsz
  BY <1>1 DEF Init, Nil
<1>3. At(0 + 0, bufsz) - 1 = 0
  BY <1>1 DEF At
<1>4. Rings(buf, rxBufStart, rxBufSize, txBufStart, txBufSize)
  BY <1>1, <1>2, <1>3 DEF Init, Rings, Layout
<1>5. Received
  BY DEF Init, Received
<1>6. Calls
  <2>1. Idle \in SendCall
    BY DEF Idle, SendCall, Nil
  <2> QED
    BY <2>1 DEF Init, Calls, Numbers, Idle
<1>7. Room
  BY DEF Init, Room
<1>8. Coming = <<>> /\ Ready = <<>>
  <2>1. Coming = [k \in 1..0 |-> Placed(sender, buf, txBufStart, k)]
    BY ComingIs DEF Line, Init
  <2>2. Ready = [k \in 1..(0 - 0) |-> buf[At(0 + 0 + k - 1, Len(buf))]]
    BY ReadyIs DEF Slots, Init
  <2> QED
    BY <2>1, <2>2
<1> QED
  BY <1>4, <1>5, <1>6, <1>7, <1>8 DEF QueueInv, IsMailbox!Init, Init

-----------------------------------------------------------------------------
LEMMA SendMaps ==
  ASSUME QueueInv, NEW s \in Sender, Send(s)
  PROVE  QueueInv' /\ \E m \in Message : IsMailbox!Send(m)
<1> DEFINE sd == sender'
           m == nSent + 1
           n == nTx + 1
<1>1. Calls /\ Rings(buf, rxBufStart, rxBufSize, txBufStart, txBufSize) /\ Received /\ Room
  BY DEF QueueInv
<1>2. /\ sender[s].n = 0 /\ nTx \in Nat /\ nSent \in Nat /\ sender \in [Sender -> SendCall]
      /\ n \in Nat /\ m \in Nat /\ n >= nTx /\ n > nTx
  BY <1>1, CallIs DEF Send, Calls, Numbers
<1>3. Turned(sd, s, [pc |-> "write", n |-> n, m |-> m])
  BY DEF Send, Turned
<1>4. nTx' = n /\ nSent' = m /\ m \in Message /\ UNCHANGED <<ring, nRx, nRxSuccess, receiving, returned>>
  BY DEF Send
<1>5. Numbers(sd, n)
  <2>1. IdleHas("write", n) /\ MayHold(s, n) /\ "write" \in {"idle", "write", "grow"} /\ n <= n
    BY <1>2 DEF IdleHas, MayHold
  <2> HIDE DEF sd, n, m
  <2> QED
    BY <1>1, <1>2, <1>3, <2>1, CallsStep
<1>6. Calls'
  BY <1>2, <1>4, <1>5 DEF Calls
<1>7. Room'
  <2>1. sd[s].n = n /\ \A t \in Sender : t # s => sd[t] = sender[t]
    BY <1>2, <1>3 DEF Turned
  <2>2. ASSUME NEW k \in 1..n, k > txBufSize PROVE \E t \in Sender : sd[t].n = k
    <3>1. CASE k = n
      BY <2>1, <3>1
    <3>2. CASE k # n
      <4>1. k \in 1..nTx
        BY <1>2, <3>2
      <4>2. PICK t \in Sender : sender[t].n = k
        BY <1>1, <2>2, <4>1 DEF Room
      <4>3. t # s
        BY <1>2, <4>2
      <4> QED
        BY <2>1, <4>2, <4>3
    <3> QED
      BY <3>1, <3>2
  <2> QED
    BY <1>4, <2>2 DEF Room, ring
<1>8. Received'
  BY <1>1, <1>4 DEF Received, ring
<1>9. Rings(buf, rxBufStart, rxBufSize, txBufStart, txBufSize)'
  BY <1>1, <1>4 DEF ring
<1>10. Coming' = Append(Coming, m)
  <2>1. Line(sd, buf, txBufStart, nTx + 1) = Append(Line(sender, buf, txBufStart, nTx), m)
    <3> HIDE DEF sd, m
    <3> QED
      BY <1>1, <1>2, <1>3, LineSent
  <2> QED
    BY <1>4, <2>1, ComingIs, NextComingIs DEF ring
<1>11. Ready' = Ready
  BY <1>4, ReadyIs, NextReadyIs DEF ring
<1>12. IsMailbox!Send(m)
  BY <1>4, <1>10, <1>11 DEF IsMailbox!Send
<1> QED
  BY <1>4, <1>6, <1>7, <1>8, <1>9, <1>12 DEF QueueInv

\* A message is written: to the mailbox nothing happens.
LEMMA WrittenMaps ==
  ASSUME QueueInv, NEW s \in Sender, sender[s].n # 0,
         Turned(sender', s, Idle),
         Rings(buf', rxBufStart', rxBufSize, txBufStart', txBufSize'),
         SentAs(buf, txBufStart, txBufSize, buf', txBufStart', sender[s].n, sender[s].m),
         ReadAs(buf, rxBufStart, rxBufSize, buf', rxBufStart'),
         sender[s].n <= txBufSize', txBufSize' >= txBufSize,
         UNCHANGED <<rxBufSize, counters, receiving, nSent, returned>>
  PROVE  QueueInv' /\ UNCHANGED <<Coming, Ready, returned>>
<1> DEFINE sd == sender'
           d == buf'
           ty == txBufStart'
           ry == rxBufStart'
           nt == txBufSize'
<1>1. Calls /\ Rings(buf, rxBufStart, rxBufSize, txBufStart, txBufSize) /\ Received /\ Room
  BY DEF QueueInv
<1>2. nTx \in Nat /\ nSent \in Nat /\ sender \in [Sender -> SendCall]
  BY <1>1 DEF Calls, Numbers
<1>3. /\ rxBufStart \in Nat /\ rxBufSize \in Nat /\ txBufSize \in Nat /\ nRxSuccess \in Nat
      /\ ry \in Nat /\ nt \in Nat
  BY <1>1 DEF Rings, Layout, Received
<1>4. Numbers(sd, nTx)
  <2>1. IdleHas("idle", 0) /\ MayHold(s, 0) /\ "idle" \in {"idle", "write", "grow"} /\ 0 <= nTx
        /\ nTx >= nTx /\ 0 \in Nat
    BY <1>2 DEF IdleHas, MayHold
  <2>2. Turned(sd, s, [pc |-> "idle", n |-> 0, m |-> 0])
    BY DEF Idle, Nil
  <2> HIDE DEF sd
  <2> QED
    BY <1>1, <1>2, <2>1, <2>2, CallsStep
<1>5. Calls'
  BY <1>2, <1>4 DEF Calls, counters
<1>6. Room'
  <2>1. \A t \in Sender : t # s => sd[t] = sender[t]
    BY <1>2 DEF Turned
  <2>2. ASSUME NEW k \in 1..nTx, k > nt PROVE \E t \in Sender : sd[t].n = k
    <3>1. k > txBufSize /\ k # sender[s].n
      BY <1>2, <1>3, <2>2, CallIs, <1>1
    <3>2. PICK t \in Sender : sender[t].n = k
      BY <1>1, <3>1 DEF Room
    <3> QED
      BY <2>1, <3>1, <3>2
  <2> QED
    BY <2>2 DEF Room, counters
<1>7. Received'
  BY <1>1 DEF Received, counters
<1>8. Rings(buf, rxBufStart, rxBufSize, txBufStart, txBufSize)'
  OBVIOUS
<1>9. Line(sd, d, ty, nTx) = Line(sender, buf, txBufStart, nTx)
  <2>1. /\ SentAs(buf, txBufStart, txBufSize, d, ty, sender[s].n, sender[s].m)
        /\ Turned(sd, s, Idle)
    OBVIOUS
  <2> HIDE DEF sd, d, ty
  <2>2. SameLine(sd, d, ty)
    BY <1>1, <1>3, <2>1, LineWritten
  <2> QED
    BY <2>2 DEF SameLine
<1>10. Slots(d, ry, nRxSuccess, rxBufSize) = Slots(buf, rxBufStart, nRxSuccess, rxBufSize)
  <2>1. ReadAs(buf, rxBufStart, rxBufSize, d, ry)
    OBVIOUS
  <2> HIDE DEF d, ry
  <2> QED
    BY <1>3, <2>1, SlotsSame
<1>11. Coming' = Coming
  BY <1>9, ComingIs, NextComingIs DEF counters
<1>12. Ready' = Ready
  BY <1>10, ReadyIs, NextReadyIs DEF counters
<1> QED
  BY <1>5, <1>6, <1>7, <1>8, <1>11, <1>12 DEF QueueInv

-----------------------------------------------------------------------------
LEMMA WriteMaps ==
  ASSUME QueueInv, NEW s \in Sender, Write(s)
  PROVE  QueueInv' /\ UNCHANGED <<Coming, Ready, returned>>
<1> DEFINE d == buf'
           n == sender[s].n
           m == sender[s].m
<1>1. Calls /\ Rings(buf, rxBufStart, rxBufSize, txBufStart, txBufSize)
  BY DEF QueueInv
<1>2. n \in Nat /\ n > 0 /\ n <= txBufSize /\ m \in Nat
  BY <1>1, CallIs DEF Write, Fits
<1>3. d = [buf EXCEPT ![At(txBufStart + n - 1, Len(buf))] = m]
  BY DEF Write, WriteAt
<1>4. /\ Rings(d, rxBufStart, rxBufSize, txBufStart, txBufSize)
      /\ SentAs(buf, txBufStart, txBufSize, d, txBufStart, n, m)
      /\ ReadAs(buf, rxBufStart, rxBufSize, d, rxBufStart)
  <2> HIDE DEF d, n, m
  <2> QED
    BY <1>1, <1>2, <1>3, WriteCells
<1>5. /\ sender[s].n # 0 /\ Turned(sender', s, Idle)
      /\ UNCHANGED <<txBufStart, rxBufStart, txBufSize, rxBufSize, counters, receiving, nSent, returned>>
  BY <1>2 DEF Write, Turned
<1>6. txBufSize \in Nat /\ txBufSize' >= txBufSize
  BY <1>1, <1>5, RingIs
<1>7. /\ Rings(buf', rxBufStart', rxBufSize, txBufStart', txBufSize')
      /\ SentAs(buf, txBufStart, txBufSize, buf', txBufStart', sender[s].n, sender[s].m)
      /\ ReadAs(buf, rxBufStart, rxBufSize, buf', rxBufStart')
      /\ sender[s].n <= txBufSize'
  BY <1>2, <1>4, <1>5
<1>8. UNCHANGED <<rxBufSize, counters, receiving, nSent, returned>>
  BY <1>5
<1> QED
  BY <1>5, <1>6, <1>7, <1>8, WrittenMaps

LEMMA GrowMaps ==
  ASSUME QueueInv, NEW s \in Sender, Grow(s)
  PROVE  QueueInv' /\ UNCHANGED <<Coming, Ready, returned>>
<1> DEFINE d == buf'
           n == sender[s].n
           m == sender[s].m
           ty == txBufStart'
<1>1. Calls /\ Rings(buf, rxBufStart, rxBufSize, txBufStart, txBufSize)
  BY DEF QueueInv
<1>2. n \in Nat /\ n > 0 /\ m \in Nat
  BY <1>1, CallIs DEF Grow
<1>3. PICK c, r : Grows(s, c, r)
  BY GrowIs
<1>4. /\ c \in Nat /\ c > 0 /\ n <= txBufSize + c /\ Inserts(buf, rxBufStart, c, r)
      /\ ty = StartAfter(rxBufStart, txBufStart, txBufSize, c)
      /\ d = [r EXCEPT ![At(ty + n - 1, Len(r))] = m]
      /\ rxBufStart' = rxBufStart + c /\ txBufSize' = txBufSize + c
  BY <1>3 DEF Grows, WriteAt
<1>5. /\ Rings(d, rxBufStart + c, rxBufSize, ty, txBufSize + c)
      /\ SentAs(buf, txBufStart, txBufSize, d, ty, n, m)
      /\ ReadAs(buf, rxBufStart, rxBufSize, d, rxBufStart + c)
  <2> HIDE DEF d, n, m, ty
  <2> QED
    BY <1>1, <1>2, <1>4, GrowWriteCells
<1>6. /\ sender[s].n # 0 /\ Turned(sender', s, Idle)
      /\ UNCHANGED <<rxBufSize, counters, receiving, nSent, returned>>
  BY <1>2 DEF Grow, Turned
<1>7. txBufSize \in Nat /\ txBufSize' >= txBufSize
  <2>1. txBufSize \in Nat
    BY <1>1, RingIs
  <2> QED
    BY <1>4, <2>1
<1>8. /\ Rings(buf', rxBufStart', rxBufSize, txBufStart', txBufSize')
      /\ SentAs(buf, txBufStart, txBufSize, buf', txBufStart', sender[s].n, sender[s].m)
      /\ ReadAs(buf, rxBufStart, rxBufSize, buf', rxBufStart')
      /\ sender[s].n <= txBufSize'
  BY <1>4, <1>5
<1> QED
  BY <1>6, <1>7, <1>8, WrittenMaps

LEMMA FullMaps ==
  ASSUME QueueInv, NEW s \in Sender, Full(s)
  PROVE  QueueInv' /\ UNCHANGED <<Coming, Ready, returned>>
<1> DEFINE sd == sender'
           n == sender[s].n
           m == sender[s].m
<1>1. Calls /\ Rings(buf, rxBufStart, rxBufSize, txBufStart, txBufSize) /\ Received /\ Room
  BY DEF QueueInv
<1>2. /\ n \in Nat /\ n # 0 /\ n <= nTx /\ m \in Nat /\ sender[s] \in SendCall
      /\ nTx \in Nat /\ nSent \in Nat /\ sender \in [Sender -> SendCall]
  BY <1>1, CallIs DEF Full, Calls, Numbers
<1>3. Turned(sd, s, [pc |-> "grow", n |-> n, m |-> m])
  <2>1. [sender[s] EXCEPT !.pc = "grow"] = [pc |-> "grow", n |-> n, m |-> m]
    BY <1>2 DEF SendCall
  <2>2. sd = [sender EXCEPT ![s] = [sender[s] EXCEPT !.pc = "grow"]]
    BY DEF Full
  <2> QED
    BY <2>1, <2>2 DEF Turned
<1>4. UNCHANGED <<ring, counters, receiving, nSent, returned>>
  BY DEF Full
<1>5. Numbers(sd, nTx)
  <2>1. IdleHas("grow", n) /\ MayHold(s, n) /\ "grow" \in {"idle", "write", "grow"} /\ nTx >= nTx
    BY <1>2 DEF IdleHas, MayHold
  <2> HIDE DEF sd, n, m
  <2> QED
    BY <1>1, <1>2, <1>3, <2>1, CallsStep
<1>6. Calls'
  BY <1>2, <1>4, <1>5 DEF Calls, counters
<1>7. \A t \in Sender : sd[t].n = sender[t].n /\ sd[t].m = sender[t].m
  BY <1>2, <1>3 DEF Turned
<1>8. Room' /\ Received' /\ Rings(buf, rxBufStart, rxBufSize, txBufStart, txBufSize)'
  BY <1>1, <1>4, <1>7 DEF Room, Received, ring, counters
<1>9. ASSUME NEW k PROVE Placed(sd, buf, txBufStart, k) = Placed(sender, buf, txBufStart, k)
  <2>1. \A t \in Sender : sd[t].n = k <=> sender[t].n = k
    BY <1>7
  <2>2. (CHOOSE t \in Sender : sd[t].n = k) = (CHOOSE t \in Sender : sender[t].n = k)
    BY <2>1
  <2>3. CASE \E t \in Sender : sender[t].n = k
    <3>1. (CHOOSE t \in Sender : sender[t].n = k) \in Sender
      BY <2>3
    <3> HIDE DEF sd
    <3> QED
      BY <1>7, <2>1, <2>2, <2>3, <3>1 DEF Placed
  <2>4. CASE ~\E t \in Sender : sender[t].n = k
    BY <2>1, <2>4 DEF Placed
  <2> QED
    BY <2>3, <2>4
<1>10. Line(sd, buf, txBufStart, nTx) = Line(sender, buf, txBufStart, nTx)
  BY <1>9 DEF Line
<1>11. Coming' = Coming
  BY <1>4, <1>10, ComingIs, NextComingIs DEF ring, counters
<1>12. Ready' = Ready
  BY <1>4, ReadyIs, NextReadyIs DEF ring, counters
<1> QED
  BY <1>4, <1>6, <1>8, <1>11, <1>12 DEF QueueInv

-----------------------------------------------------------------------------
LEMMA RecvMaps ==
  ASSUME QueueInv, Recv
  PROVE  QueueInv' /\ UNCHANGED <<Coming, Ready, returned>>
<1>1. Calls /\ Rings(buf, rxBufStart, rxBufSize, txBufStart, txBufSize) /\ Received /\ Room
  BY DEF QueueInv
<1>2. /\ receiving = 0 /\ nRx < rxBufSize /\ nRx' = nRx + 1 /\ receiving' = nRx + 1
      /\ UNCHANGED <<ring, nRxSuccess, nTx, sender, nSent, returned>>
  BY DEF Recv
<1>3. Received'
  <2>1. rxBufSize \in Nat
    BY <1>1, RingIs
  <2> QED
    BY <1>1, <1>2, <2>1 DEF Received, ring
<1>4. Calls' /\ Room' /\ Rings(buf, rxBufStart, rxBufSize, txBufStart, txBufSize)'
  BY <1>1, <1>2 DEF Calls, Room, ring
<1>5. Coming' = Coming /\ Ready' = Ready
  BY <1>2, ComingIs, NextComingIs, ReadyIs, NextReadyIs DEF ring
<1> QED
  BY <1>2, <1>3, <1>4, <1>5 DEF QueueInv

LEMMA ReadMaps ==
  ASSUME QueueInv, Read
  PROVE  QueueInv' /\ IsMailbox!Recv
<1>1. Calls /\ Rings(buf, rxBufStart, rxBufSize, txBufStart, txBufSize) /\ Received /\ Room
  BY DEF QueueInv
<1>2. /\ receiving # 0 /\ receiving' = 0 /\ nRxSuccess' = nRxSuccess + 1
      /\ returned' = Append(returned, buf[At(rxBufStart + receiving - 1, Len(buf))])
      /\ UNCHANGED <<ring, nRx, nTx, sender, nSent>>
  BY DEF Read, bufLen
<1>3. /\ rxBufStart \in Nat /\ rxBufSize \in Nat /\ nRxSuccess \in Nat
      /\ receiving = nRxSuccess + 1 /\ nRxSuccess < rxBufSize /\ nRx = nRxSuccess + 1 /\ nRx <= rxBufSize
  <2>1. rxBufStart \in Nat /\ rxBufSize \in Nat
    BY <1>1, RingIs
  <2> QED
    BY <1>1, <1>2, <2>1 DEF Received
<1>4. Received'
  BY <1>2, <1>3 DEF Received, ring
<1>5. Calls' /\ Room' /\ Rings(buf, rxBufStart, rxBufSize, txBufStart, txBufSize)'
  BY <1>1, <1>2 DEF Calls, Room, ring
<1>6. Coming' = Coming
  BY <1>2, ComingIs, NextComingIs DEF ring
<1>7. /\ Slots(buf, rxBufStart, nRxSuccess, rxBufSize) # <<>>
      /\ Head(Slots(buf, rxBufStart, nRxSuccess, rxBufSize)) = buf[At(rxBufStart + nRxSuccess, Len(buf))]
      /\ Slots(buf, rxBufStart, nRxSuccess + 1, rxBufSize)
           = Tail(Slots(buf, rxBufStart, nRxSuccess, rxBufSize))
  BY <1>3, SlotsRead
<1>8. Ready # <<>> /\ Head(Ready) = buf[At(rxBufStart + nRxSuccess, Len(buf))]
  BY <1>7, ReadyIs
<1>9. Ready' = Tail(Ready)
  BY <1>2, <1>7, ReadyIs, NextReadyIs DEF ring
<1>10. rxBufStart + receiving - 1 = rxBufStart + nRxSuccess
  BY <1>3
<1> QED
  BY <1>2, <1>4, <1>5, <1>6, <1>8, <1>9, <1>10 DEF QueueInv, IsMailbox!Recv

LEMMA SyncMaps ==
  ASSUME QueueInv, Sync
  PROVE  QueueInv' /\ IsMailbox!Sync
<1> DEFINE l == Len(buf)
           ok == nRxSuccess
           n == nTx
           ry == At(rxBufStart + ok, l) - 1
           nr == rxBufSize + n - ok
<1>1. Calls /\ Rings(buf, rxBufStart, rxBufSize, txBufStart, txBufSize) /\ Received /\ Room
  BY DEF QueueInv
<1>2. /\ receiving = 0 /\ \A s \in Sender : sender[s].n = 0
      /\ nRx' = 0 /\ nRxSuccess' = 0 /\ nTx' = 0
      /\ rxBufSize' = nr /\ rxBufStart' = ry
      /\ txBufStart' = At(ry + nr, l) - 1 /\ txBufSize' = l - nr
      /\ UNCHANGED <<buf, sender, receiving, nSent, returned>>
  <2>1. \A s \in Sender : sender[s].n = 0
    BY <1>1, CallIs DEF Sync, Quiet
  <2> QED
    BY <2>1 DEF Sync, Quiet, bufLen
<1>3. /\ Layout(l, rxBufStart, rxBufSize, txBufStart, txBufSize)
      /\ rxBufSize \in Nat /\ txBufSize \in Nat /\ ok \in Nat /\ n \in Nat /\ ok <= rxBufSize
  BY <1>1, <1>2 DEF Rings, Layout, Received, Calls
<1>4. n <= txBufSize
  <2>1. CASE n > txBufSize
    <3>1. n \in 1..n
      BY <1>3, <2>1
    <3>2. \E s \in Sender : sender[s].n = n
      BY <1>1, <2>1, <3>1 DEF Room
    <3> QED
      BY <1>2, <1>3, <2>1, <3>2
  <2> QED
    BY <1>3, <2>1
<1>5. /\ Layout(l, ry, nr, At(ry + nr, l) - 1, l - nr)
      /\ Follows(l, rxBufStart, rxBufSize, txBufStart, txBufSize, ok, n, ry)
  <2> HIDE DEF l, ok, n
  <2> QED
    BY <1>3, <1>4, SlotEnds
<1>6. Rings(buf, rxBufStart, rxBufSize, txBufStart, txBufSize)'
  BY <1>1, <1>2, <1>5 DEF Rings
<1>7. Received'
  <2>1. nr \in Nat
    BY <1>5 DEF Layout
  <2> QED
    BY <1>2, <2>1 DEF Received
<1>8. Calls'
  <2>1. Numbers(sender, 0)
    BY <1>1, <1>2 DEF Calls, Numbers
  <2> QED
    BY <1>1, <1>2, <2>1 DEF Calls
<1>9. Room'
  BY <1>2 DEF Room
<1>10. Coming' = <<>>
  <2>1. Line(sender', buf', txBufStart', 0) = <<>>
    BY DEF Line
  <2> QED
    BY <1>2, <2>1, NextComingIs
<1>11. Coming = Row(buf, txBufStart, n)
  <2>1. ASSUME NEW k \in 1..n
        PROVE  Placed(sender, buf, txBufStart, k) = buf[At(txBufStart + k - 1, Len(buf))]
    <3>1. ~\E s \in Sender : sender[s].n = k
      BY <1>2
    <3> QED
      BY <3>1 DEF Placed
  <2> QED
    BY <2>1, ComingIs DEF Line, Row
<1>12. Slots(buf, ry, 0, nr) = Slots(buf, rxBufStart, ok, rxBufSize) \o Row(buf, txBufStart, n)
  <2>1. Follows(Len(buf), rxBufStart, rxBufSize, txBufStart, txBufSize, ok, n, ry)
    BY <1>5
  <2>2. rxBufSize \in Nat /\ ok \in Nat /\ n \in Nat /\ ok <= rxBufSize
    BY <1>3
  <2>3. Joins(buf, rxBufStart, rxBufSize, txBufStart, ok, n, ry)
    <3> HIDE DEF l, ok, n, ry
    <3> QED
      BY <2>1, <2>2, SlotsSynced
  <2> QED
    BY <2>3 DEF Joins
<1>13. Ready' = Ready \o Coming
  BY <1>2, <1>11, <1>12, ReadyIs, NextReadyIs
<1> QED
  BY <1>2, <1>6, <1>7, <1>8, <1>9, <1>10, <1>13 DEF QueueInv, IsMailbox!Sync

(***************************************************************************)
(* A queue of the emulator delivers what is sent in the order in which     *)
(* Send took the numbers, each message once and in a later slot, while     *)
(* senders write, make room and wait for each other and Recv reads.        *)
(***************************************************************************)
THEOREM QueueDelivers == Spec => Delivers
<1>1. Init => QueueInv /\ IsMailbox!Init
  BY QueueInit
<1>2. ASSUME QueueInv, [Next]_vars
      PROVE  QueueInv' /\ [IsMailbox!Next]_<<Coming, Ready, returned>>
  <2>1. CASE \E s \in Sender : Send(s)
    BY <1>2, <2>1, SendMaps DEF IsMailbox!Next
  <2>2. CASE \E s \in Sender : Write(s)
    BY <1>2, <2>2, WriteMaps
  <2>3. CASE \E s \in Sender : Full(s)
    BY <1>2, <2>3, FullMaps
  <2>4. CASE \E s \in Sender : Grow(s)
    BY <1>2, <2>4, GrowMaps
  <2>5. CASE Recv
    BY <1>2, <2>5, RecvMaps
  <2>6. CASE Read
    BY <1>2, <2>6, ReadMaps DEF IsMailbox!Next
  <2>7. CASE Sync
    BY <1>2, <2>7, SyncMaps DEF IsMailbox!Next
  <2>8. CASE UNCHANGED vars
    <3>1. QueueInv'
      BY <1>2, <2>8 DEF QueueInv, Received, Calls, Room, vars, ring, counters
    <3>2. Coming' = Coming /\ Ready' = Ready
      BY <2>8, ComingIs, NextComingIs, ReadyIs, NextReadyIs DEF vars, ring, counters
    <3> QED
      BY <2>8, <3>1, <3>2 DEF vars
  <2> QED
    BY <1>2, <2>1, <2>2, <2>3, <2>4, <2>5, <2>6, <2>7, <2>8 DEF Next
<1> QED
  BY <1>1, <1>2, PTL DEF Spec, Delivers, IsMailbox!Spec
=============================================================================
