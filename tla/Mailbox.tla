------------------------------ MODULE Mailbox ------------------------------
(***************************************************************************)
(* What a FIFO of the emulator promises: messages come out in the order in *)
(* which they went in, each once, and none in the slot it was sent in.     *)
(***************************************************************************)
EXTENDS Naturals, Sequences, SequencesExt

CONSTANT Message

VARIABLES
  coming,   \* sent in this slot
  ready,    \* can be received in this slot
  taken     \* all that has been received

Init == coming = <<>> /\ ready = <<>> /\ taken = <<>>

Send(m) ==
  /\ coming' = Append(coming, m)
  /\ UNCHANGED <<ready, taken>>

Recv ==
  /\ ready # <<>>
  /\ taken' = Append(taken, Head(ready))
  /\ ready' = Tail(ready)
  /\ UNCHANGED coming

\* The slot ends.
Sync ==
  /\ ready' = ready \o coming
  /\ coming' = <<>>
  /\ UNCHANGED taken

Next == Recv \/ Sync \/ \E m \in Message : Send(m)

Spec == Init /\ [][Next]_<<coming, ready, taken>>
=============================================================================
