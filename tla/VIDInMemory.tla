---------------------------- MODULE VIDInMemory ----------------------------
(***************************************************************************)
(* What the protocol wants of a VID: that it is there, in the state that   *)
(* the last call left it in.  VIDStore does this with a VID that is on the *)
(* disk most of the time.                                                  *)
(***************************************************************************)
EXTENDS VIDContents

VARIABLE vid

Init == Empty /\ vid \in {NewContents(p) : p \in {"none", "block"}}

Next ==
  \/ \E m \in Message : Receives(vid, vid', m)
  \/ Releases(vid, vid')
  \/ Strips(vid, vid')
  \/ \E k \in Node : Encode(k) /\ UNCHANGED vid

Spec == Init /\ [][Next]_<<vid, disk>>
=============================================================================
