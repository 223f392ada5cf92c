----------------------------- MODULE MCVIDStore -----------------------------
(***************************************************************************)
(* VIDStore with calls nested up to Depth, and the keys it relies on.      *)
(***************************************************************************)
EXTENDS VIDStore, DBKeys, TLC

CONSTANTS n1, n2, n3, n4, Depth

\* The other nodes only ask and send chunks.
Others == Permutations({n2, n3, n4})

MCNext ==
  \/ Len(calls) < Depth /\ (ReadVID \/ WriteVID)
  \/ FreeVID
  \/ StashVID
  \/ Update
  \/ \E k \in Node : Send(k)

MCSpec == StoreInit /\ [][MCNext]_storeVars

(***************************************************************************)
(* What is on the disk stays there: no other VID or chunk of the node is   *)
(* written under the key of the VID, or of one of its chunks.              *)
(***************************************************************************)
KeysApart == image # Nil \/ ourChunk # NoChunk => KeysDiffer
=============================================================================
