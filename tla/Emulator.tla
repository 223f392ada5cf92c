------------------------------ MODULE Emulator ------------------------------
(***************************************************************************)
(* The emulator (emulator/server.go and the end of main in sim.go): time   *)
(* goes in ticks.  In a tick every server downloads what its bandwidth     *)
(* allows from its two queues and hands it to its protocol; between ticks  *)
(* only the scheduler runs, and makes what was sent ready.  main stops it  *)
(* when every server has told that its protocol is done.                   *)
(*                                                                         *)
(* A queue is what FIFO is shown to be: two sequences.  The protocol is    *)
(* any automaton that, once done, returns Terminate or no event.  What is  *)
(* counted for the plots, and the transactions, are left out.              *)
(***************************************************************************)
EXTENDS Integers, Sequences, FiniteSets, SequencesExt

CONSTANTS
  nServer,     \* N - F: the servers that run, 1..nServer
  nCrashed,    \* F: the others, whose queues take nothing
  Rate,        \* what a server may download in a tick, in units of size
  Size,        \* Size[p]: the size of a message of priority p
  MaxMsgs,     \* how many messages the protocols make (bound)
  LastTick     \* how long the emulator runs if it is not told to stop (bound)

Priority == {"High", "Medium", "Low"}
Server == 1..nServer
Nodes == 1..(nServer + nCrashed)

ASSUME EmulatorAssumption ==
  /\ nServer \in Nat \ {0} /\ nCrashed \in Nat
  /\ MaxMsgs \in Nat /\ LastTick \in Nat
  /\ Rate \subseteq Nat
  /\ Size \in [Priority -> Nat \ {0}]

VARIABLES
  tick,        \* the time of the scheduler, -1 at the end
  schd,        \* where the scheduler is
  synced,      \* how many queues it has synced
  tickFinish,  \* the counter of the wait group
  server,      \* the servers
  fifo,        \* the queues: those for high priority, then those for low
  nMade,       \* how many messages have been made
  term,        \* how many servers have told main, and main has not read it
  termed,      \* how many main has read
  shutdown     \* what main tells the scheduler

clock == <<tick, schd, synced, tickFinish>>
mainVars == <<term, termed, shutdown>>
emuVars == <<clock, server, fifo, nMade, mainVars>>

Nothing == [prio |-> "High", to |-> 1, at |-> 0]

NewServer ==
  [pc |-> "start", time |-> 0, out |-> <<>>,
   ended |-> FALSE, terminated |-> FALSE, signalSent |-> FALSE,
   credit |-> 0, remaining |-> 0, next |-> Nothing, priortizeLP |-> FALSE]

EmuInit ==
  /\ tick = 0 /\ schd = "add" /\ synced = 0 /\ tickFinish = 0
  /\ server = [i \in Server |-> NewServer]
  /\ fifo = [k \in 1..(2 * nServer) |-> [coming |-> <<>>, ready |-> <<>>]]
  /\ nMade = 0
  /\ term = 0 /\ termed = 0 /\ shutdown = FALSE

hpin(i) == i
lpin(i) == nServer + i

-----------------------------------------------------------------------------
(***************************************************************************)
(* The scheduler.                                                          *)
(***************************************************************************)
Add ==
  /\ schd = "add"
  /\ tickFinish' = tickFinish + nServer
  /\ schd' = "tick"
  /\ UNCHANGED <<tick, synced, server, fifo, nMade, mainVars>>

Tick ==
  /\ schd = "tick"
  /\ tick < LastTick \/ (tick = LastTick /\ shutdown)
  /\ tick' = tick + 1
  /\ schd' = "wait"
  /\ UNCHANGED <<synced, tickFinish, server, fifo, nMade, mainVars>>

WaitUnfinished ==   \* mutant: does not wait for the last server
  /\ schd = "wait" /\ tickFinish <= 1
  /\ schd' = "sync" /\ synced' = 0
  /\ UNCHANGED <<tick, tickFinish, server, fifo, nMade, mainVars>>

Wait ==
  /\ schd = "wait" /\ tickFinish = 0
  /\ schd' = "sync" /\ synced' = 0
  /\ UNCHANGED <<tick, tickFinish, server, fifo, nMade, mainVars>>

SyncNext ==
  /\ schd = "sync"
  /\ synced' = synced + 1
  /\ fifo' = [fifo EXCEPT ![synced'] = [coming |-> <<>>, ready |-> @.ready \o @.coming]]
  /\ schd' = IF synced' = 2 * nServer THEN "select" ELSE "sync"
  /\ UNCHANGED <<tick, tickFinish, server, nMade, mainVars>>

\* Told to stop, or not yet.
Select ==
  /\ schd = "select"
  /\ IF shutdown THEN tick' = -1 /\ schd' = "exit" ELSE schd' = "add" /\ UNCHANGED tick
  /\ UNCHANGED <<synced, tickFinish, server, fifo, nMade, mainVars>>

\* main reads that a server is done.
CountTerm ==
  /\ term > 0
  /\ term' = term - 1
  /\ termed' = termed + 1
  /\ shutdown' = (termed' = nServer)
  /\ UNCHANGED <<clock, server, fifo, nMade>>

-----------------------------------------------------------------------------
(***************************************************************************)
(* Calls of the protocol.  A call may make messages to the server itself:  *)
(* these are handled at once, and each gives an event of its own.          *)
(***************************************************************************)
Event == {"None", "Terminate", "BlockedByLow", "BlockedByHigh"}

\* The event e so far, and that of the next call.
Merge(e, new) ==
  CASE new = "None"      -> e
    [] new = "Terminate" -> IF e = "None" THEN new ELSE e
    [] OTHER             -> new

\* dispatchMsgs: of the calls for the messages to itself.
DispatchEvent(events) == FoldLeft(Merge, "None", events)

\* processMsg: of the first call, and of these.
ProcessEvent(first, events) == Merge(first, DispatchEvent(events))

\* Once a protocol is done it stays so.
MayReturn(s, events) ==
  \A a \in DOMAIN events :
    (s.ended \/ \E b \in 1..(a - 1) : events[b] = "Terminate")
      => events[a] \in {"None", "Terminate"}

Returned == {<<e>> : e \in Event} \cup (Event \X Event) \cup (Event \X Event \X Event)

\* Up to two messages.
Outputs(i) ==
  LET msgs == [prio : Priority, to : Nodes \ {i}, at : {server[i].time}]
  IN UNION {[1..n -> msgs] : n \in {k \in 0..2 : nMade + k <= MaxMsgs}}

\* The server s of i after a call that returns out and these events.
Call(i, s, t, events, out) ==
  /\ MayReturn(s, events)
  /\ nMade' = nMade + Len(out)
  /\ server' = [server EXCEPT
       ![i] = [t EXCEPT !.ended = @ \/ "Terminate" \in ToSet(events), !.out = out]]

-----------------------------------------------------------------------------
(***************************************************************************)
(* A server.  It waits until the time of the scheduler is not its own.     *)
(***************************************************************************)
AwakeAtTick(s) == tick > s.time   \* mutant: forgets that -1 is the end
Awake(s) == tick > s.time \/ tick = -1

Become(i, s) == server' = [server EXCEPT ![i] = s]

Start(i) ==
  /\ server[i].pc = "start" /\ Awake(server[i])
  /\ Become(i, [server[i] EXCEPT !.pc = "init", !.time = tick])
  /\ UNCHANGED <<clock, fifo, nMade, mainVars>>

\* Init of the protocol returns no event, its messages to itself may.
Initialize(i) ==
  LET s == server[i] IN
  /\ s.pc = "init"
  /\ \E events \in {<<>>} \cup Returned : \E out \in Outputs(i) :
       Call(i, s, [s EXCEPT !.pc = "run", !.terminated = DispatchEvent(events) = "Terminate"],
            events, out)
  /\ UNCHANGED <<clock, fifo, mainVars>>

\* The next tick.  A server that is done says so, once.
Wake(i) ==
  LET s == server[i] IN
  /\ s.pc = "wait" /\ Awake(s) /\ tick # -1
  /\ \E bw \in Rate :
       Become(i, [s EXCEPT !.pc = "run", !.time = tick, !.credit = bw,
                           !.signalSent = s.terminated])
  /\ term' = IF s.terminated /\ ~s.signalSent THEN term + 1 ELSE term
  /\ UNCHANGED <<clock, fifo, nMade, termed, shutdown>>

Exit(i) ==
  /\ server[i].pc = "wait" /\ Awake(server[i]) /\ tick = -1
  /\ Become(i, [server[i] EXCEPT !.pc = "exited"])
  /\ UNCHANGED <<clock, fifo, nMade, mainVars>>

Downloads(s) == s.pc = "run" /\ s.out = <<>> /\ s.credit > 0

\* The tick is too short for the message.
DownloadPart(i) ==
  LET s == server[i] IN
  /\ Downloads(s) /\ s.remaining > s.credit
  /\ Become(i, [s EXCEPT !.remaining = @ - s.credit, !.credit = 0])
  /\ UNCHANGED <<clock, fifo, nMade, mainVars>>

\* The message is there, and is handled.
ProcessMsg(i) ==
  LET s == server[i] IN
  /\ Downloads(s) /\ s.remaining > 0 /\ s.credit >= s.remaining
  /\ \E events \in Returned : \E out \in Outputs(i) :
       LET e == ProcessEvent(Head(events), Tail(events)) IN
       Call(i, s, [s EXCEPT !.credit = @ - s.remaining, !.remaining = 0,
                            !.terminated = @ \/ e = "Terminate",
                            !.priortizeLP = CASE e = "BlockedByLow" -> TRUE
                                              [] e = "BlockedByHigh" -> FALSE
                                              [] OTHER -> @],
            events, out)
  /\ UNCHANGED <<clock, fifo, mainVars>>

HasReady(k) == fifo[k].ready # <<>>

\* The queue to look at: the preferred one, unless it is empty.
NextQueue(i) ==
  LET first == IF server[i].priortizeLP THEN lpin(i) ELSE hpin(i)
      second == IF server[i].priortizeLP THEN hpin(i) ELSE lpin(i)
  IN IF HasReady(first) THEN first ELSE second

Fetch(i) ==
  LET s == server[i]
      k == NextQueue(i)
  IN
  /\ Downloads(s) /\ s.remaining = 0 /\ HasReady(k)
  /\ fifo' = [fifo EXCEPT ![k].ready = Tail(@)]
  /\ LET m == Head(fifo[k].ready)
     IN Become(i, [s EXCEPT !.next = m, !.remaining = Size[m.prio]])
  /\ UNCHANGED <<clock, nMade, mainVars>>

\* There is nothing: the rest of the credit is lost.
Starve(i) ==
  LET s == server[i] IN
  /\ Downloads(s) /\ s.remaining = 0 /\ ~HasReady(NextQueue(i))
  /\ Become(i, [s EXCEPT !.credit = 0])
  /\ UNCHANGED <<clock, fifo, nMade, mainVars>>

\* One message goes out.  One of medium priority, for which there is no
\* queue, and one to a crashed server are dropped.
DispatchMsg(i) ==
  LET s == server[i]
      m == Head(s.out)
      k == IF m.prio = "High" THEN hpin(m.to) ELSE lpin(m.to)
  IN
  /\ s.pc = "run" /\ s.out # <<>>
  /\ Become(i, [s EXCEPT !.out = Tail(@)])
  /\ fifo' = IF m.prio = "Medium" \/ m.to \notin Server THEN fifo
             ELSE [fifo EXCEPT ![k].coming = Append(@, m)]
  /\ UNCHANGED <<clock, nMade, mainVars>>

Done(i) ==
  LET s == server[i] IN
  /\ s.pc = "run" /\ s.out = <<>> /\ s.credit = 0
  /\ tickFinish' = tickFinish - 1
  /\ Become(i, [s EXCEPT !.pc = "wait"])
  /\ UNCHANGED <<tick, schd, synced, fifo, nMade, mainVars>>

-----------------------------------------------------------------------------
Schedules == Add \/ Tick \/ Wait \/ SyncNext \/ Select

Runs(i) ==
  \/ Start(i) \/ Initialize(i) \/ Wake(i) \/ Exit(i)
  \/ DownloadPart(i) \/ ProcessMsg(i) \/ Fetch(i) \/ Starve(i)
  \/ DispatchMsg(i) \/ Done(i)

EmuNext == Schedules \/ CountTerm \/ \E i \in Server : Runs(i)

\* Each is a goroutine of its own.
EmuFairness ==
  WF_emuVars(Schedules) /\ WF_emuVars(CountTerm) /\ \A i \in Server : WF_emuVars(Runs(i))

EmuSpec == EmuInit /\ [][EmuNext]_emuVars /\ EmuFairness

-----------------------------------------------------------------------------
(***************************************************************************)
(* The servers are in step: while the scheduler syncs the queues none of   *)
(* them uses one (netsim.go:11), and none downloads in a tick what has     *)
(* been sent in that tick, however far another one is.                     *)
(***************************************************************************)
InStep ==
  /\ schd \in {"sync", "select", "add", "tick"} =>
       \A i \in Server : server[i].pc \in {"start", "wait"} /\ server[i].time = tick
  /\ \A i \in Server : server[i].remaining > 0 => server[i].next.at < server[i].time

(***************************************************************************)
(* The emulator ends: once every server has seen its protocol terminate,   *)
(* main gets to know, the scheduler stops and so do all servers, although  *)
(* some of them have been waiting for the next tick.                       *)
(***************************************************************************)
Ends ==
  (tick < LastTick /\ \A i \in Server : server[i].terminated)
    ~> (schd = "exit" /\ \A i \in Server : server[i].pc = "exited")
=============================================================================
