-------------------------------- MODULE FIFO --------------------------------
(***************************************************************************)
(* The message queue of the emulator (netsim.go): a ring buffer that holds *)
(* the messages to be received in this slot of time, and behind them those *)
(* that are sent in it.  Senders run concurrently: each takes a number,    *)
(* and then writes to the cell of that number under the read lock, or, if  *)
(* the ring is too small, makes room under the write lock.                 *)
(***************************************************************************)
EXTENDS Naturals, Sequences, SequencesExt, FiniteSetsExt

CONSTANTS
  Sender,     \* who calls Send
  Message,    \* what is sent, each message once, in this order: 1, 2, 3, ...
  bufsz,      \* the cells at the beginning
  Headroom    \* how many more cells than needed are allocated (4 in the code)

ASSUME Sizes == bufsz \in Nat \ {0} /\ Headroom \in Nat

VARIABLES
  txBufStart, rxBufStart,   \* offsets in the ring, from 0
  txBufSize, rxBufSize,     \* cells for sending, messages to receive
  buf,                      \* the ring
  nRx, nRxSuccess, nTx,     \* counters of this slot
  sender,                   \* where a call of Send is, and what it sends
  receiving,                \* the number that a call of Recv has taken, or 0
  nSent,                    \* how many messages have been sent in all
  returned                  \* what Recv has returned

ring == <<txBufStart, rxBufStart, txBufSize, rxBufSize, buf>>
counters == <<nRx, nRxSuccess, nTx>>
vars == <<ring, counters, sender, receiving, nSent, returned>>

Nil == 0
Idle == [pc |-> "idle", n |-> 0, m |-> Nil]
bufLen == Len(buf)

Init ==
  /\ txBufStart = 0 /\ rxBufStart = 0
  /\ txBufSize = bufsz /\ rxBufSize = 0
  /\ buf = [k \in 1..bufsz |-> Nil]
  /\ nRx = 0 /\ nRxSuccess = 0 /\ nTx = 0
  /\ sender = [s \in Sender |-> Idle]
  /\ receiving = 0 /\ nSent = 0 /\ returned = <<>>

\* The index in buf of an offset in the ring: from 1, and wrapped once.
At(offset, len) == (IF offset >= len THEN offset - len ELSE offset) + 1

-----------------------------------------------------------------------------
\* Send takes the next number.
Send(s) ==
  /\ sender[s].pc = "idle" /\ nSent + 1 \in Message
  /\ nTx' = nTx + 1
  /\ nSent' = nSent + 1
  /\ sender' = [sender EXCEPT ![s] = [pc |-> "write", n |-> nTx + 1, m |-> nSent + 1]]
  /\ UNCHANGED <<ring, nRx, nRxSuccess, receiving, returned>>

Fits(s) == sender[s].n <= txBufSize

WriteAt(b, start, s) == [b EXCEPT ![At(start + sender[s].n - 1, Len(b))] = sender[s].m]

\* There is a cell for the number; with the read lock first, and again with
\* the write lock, as another sender may have made room meanwhile.
Write(s) ==
  /\ sender[s].pc \in {"write", "grow"} /\ Fits(s)
  /\ buf' = WriteAt(buf, txBufStart, s)
  /\ sender' = [sender EXCEPT ![s] = Idle]
  /\ UNCHANGED <<txBufStart, rxBufStart, txBufSize, rxBufSize, counters, receiving, nSent, returned>>

\* There is none: Send lets go of the read lock and waits for the write lock.
Full(s) ==
  /\ sender[s].pc = "write" /\ ~Fits(s)
  /\ sender' = [sender EXCEPT ![s].pc = "grow"]
  /\ UNCHANGED <<ring, counters, receiving, nSent, returned>>

\* Where new cells go: behind the last cell for sending.
insertAfter == At(txBufStart + txBufSize, bufLen) - 1
Allocated(s) == Max({sender[s].n - txBufSize + Headroom, bufLen})

TxShiftedAlways == insertAfter <= txBufStart   \* mutant: also when it is empty
TxShifted == insertAfter <= txBufStart /\ txBufSize # 0

\* New cells are inserted, and the message is written.
Grow(s) ==
  /\ sender[s].pc = "grow" /\ ~Fits(s)
  /\ \E cells \in {[k \in 1..Allocated(s) |-> Nil]} :
       LET start == txBufStart + (IF TxShifted THEN Len(cells) ELSE 0) IN
       /\ buf' = WriteAt(SubSeq(buf, 1, insertAfter) \o cells
                           \o SubSeq(buf, insertAfter + 1, bufLen), start, s)
       /\ txBufStart' = start
       /\ rxBufStart' = rxBufStart + Len(cells)
       /\ txBufSize' = txBufSize + Len(cells)
  /\ sender' = [sender EXCEPT ![s] = Idle]
  /\ UNCHANGED <<rxBufSize, counters, receiving, nSent, returned>>

-----------------------------------------------------------------------------
\* Recv, of which there is one at a time, takes a number ...
Recv ==
  /\ receiving = 0 /\ nRx < rxBufSize
  /\ nRx' = nRx + 1
  /\ receiving' = nRx + 1
  /\ UNCHANGED <<ring, nRxSuccess, nTx, sender, nSent, returned>>

\* ... and reads its cell under the read lock.
Read ==
  /\ receiving # 0
  /\ returned' = Append(returned, buf[At(rxBufStart + receiving - 1, bufLen)])
  /\ nRxSuccess' = nRxSuccess + 1
  /\ receiving' = 0
  /\ UNCHANGED <<ring, nRx, nTx, sender, nSent>>

\* The slot ends.  No call may be under way (netsim.go:13).
Quiet == receiving = 0 /\ \A s \in Sender : sender[s].pc = "idle"

Sync ==
  /\ Quiet
  /\ nRx' = 0 /\ nRxSuccess' = 0 /\ nTx' = 0
  /\ rxBufSize' = rxBufSize + nTx - nRxSuccess
  /\ rxBufStart' = At(rxBufStart + nRxSuccess, bufLen) - 1
  /\ txBufStart' = At(rxBufStart' + rxBufSize', bufLen) - 1
  /\ txBufSize' = bufLen - rxBufSize'
  /\ UNCHANGED <<buf, sender, receiving, nSent, returned>>

Next ==
  \/ \E s \in Sender : Send(s) \/ Write(s) \/ Full(s) \/ Grow(s)
  \/ Recv \/ Read \/ Sync

Spec == Init /\ [][Next]_vars

-----------------------------------------------------------------------------
(***************************************************************************)
(* Whatever the senders do to the ring under each other and the receiver,  *)
(* it is a mailbox: a message is in the place of the number it has taken,  *)
(* before it is written and wherever new cells have moved it.              *)
(***************************************************************************)
Coming ==
  [k \in 1..nTx |->
     IF \E s \in Sender : sender[s].n = k
     THEN sender[CHOOSE s \in Sender : sender[s].n = k].m
     ELSE buf[At(txBufStart + k - 1, bufLen)]]

Ready ==
  [k \in 1..(rxBufSize - nRxSuccess) |-> buf[At(rxBufStart + nRxSuccess + k - 1, bufLen)]]

IsMailbox == INSTANCE Mailbox WITH coming <- Coming, ready <- Ready, taken <- returned

Delivers == IsMailbox!Spec
=============================================================================
