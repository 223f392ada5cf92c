------------------------------ MODULE VIDStore ------------------------------
(***************************************************************************)
(* One VID of a PikaEpoch and where it is: in memory, or on the disk under *)
(* its key (ReadVID, WriteVID, FreeVID and StashVID of pika.go).  Calls    *)
(* run one at a time, but they nest: PikaEpoch.Recv holds on to the VID    *)
(* while Release, Request, PayloadRetrieved or ConfirmUntil take it again. *)
(* Here any nesting may occur.  Nothing else reads or writes the key: the  *)
(* keys of two VIDs, and of the chunks of a VID, differ.                   *)
(***************************************************************************)
EXTENDS VIDContents, Sequences

CONSTANT Nil

ASSUME NilAssumption == Nil \notin Contents

VARIABLES
  v,          \* the VID in memory, or Nil
  vStorage,   \* where the VID is
  vRefCount,  \* how many times it has been taken and not freed
  image,      \* what is on the disk under the key of the VID
  calls       \* what the calls under way took it for, the innermost last

storeVars == <<v, vStorage, vRefCount, image, calls, disk>>

Storage == {"inMemory", "onDisk", "pagedInClean", "pagedInDirty"}
Purpose == {"read", "write"}

StoreInit ==
  /\ Empty
  /\ v \in {NewContents(p) : p \in {"none", "block"}}
  /\ vStorage = "inMemory"
  /\ vRefCount = 0
  /\ image = Nil
  /\ calls = <<>>

\* Binary encoding makes no difference between nil and an empty slice.
Encoded(w) == [w EXCEPT !.room = IF @ = "empty" THEN "nil" ELSE @]

\* It decodes either as an empty slice.
Decoded(w) == [w EXCEPT !.room = IF @ = "nil" THEN "empty" ELSE @]

PageIn ==
  v' = IF vStorage = "onDisk" THEN Decoded(image) ELSE v

PageOut ==
  /\ image' = Encoded(v)
  /\ v' = Nil
  /\ vStorage' = "onDisk"

Enter(purpose) ==
  /\ vRefCount' = vRefCount + 1
  /\ calls' = Append(calls, purpose)
  /\ UNCHANGED <<image, disk>>

ReadVID ==
  /\ PageIn
  /\ vStorage' = IF vStorage = "onDisk" THEN "pagedInClean" ELSE vStorage
  /\ Enter("read")

WriteVIDIfOnDisk ==   \* mutant: a VID that has been read is not marked
  /\ PageIn
  /\ vStorage' = IF vStorage = "onDisk" THEN "pagedInDirty" ELSE vStorage
  /\ Enter("write")

WriteVID ==
  /\ PageIn
  /\ vStorage' = IF vStorage = "inMemory" THEN "inMemory" ELSE "pagedInDirty"
  /\ Enter("write")

Last == calls[Len(calls)]

FreeVIDAlways ==   \* mutant: the first to leave pages it out
  /\ calls # <<>>
  /\ vRefCount' = vRefCount - 1
  /\ calls' = SubSeq(calls, 1, Len(calls) - 1)
  /\ IF vStorage = "pagedInDirty" THEN PageOut ELSE UNCHANGED <<v, vStorage, image>>
  /\ UNCHANGED disk

\* FreeVID is deferred: the innermost call is the first to free.
FreeVID ==
  /\ calls # <<>>
  /\ vRefCount' = vRefCount - 1
  /\ calls' = SubSeq(calls, 1, Len(calls) - 1)
  /\ IF vRefCount > 1 \/ vStorage = "inMemory" THEN UNCHANGED <<v, vStorage, image>>
     ELSE IF vStorage = "pagedInClean"
     THEN v' = Nil /\ vStorage' = "onDisk" /\ UNCHANGED image
     ELSE PageOut
  /\ UNCHANGED disk

\* A VID that nobody holds is paged out now, and otherwise when it is freed.
StashVID ==
  /\ v # Nil
  /\ IF vRefCount = 0 THEN PageOut
     ELSE vStorage' = "pagedInDirty" /\ UNCHANGED <<v, image>>
  /\ UNCHANGED <<vRefCount, calls, disk>>

\* A caller that has taken the VID to write changes it through its pointer.
Update ==
  /\ calls # <<>> /\ Last = "write"
  /\ Releases(v, v') \/ Strips(v, v') \/ \E m \in Message : Receives(v, v', m)
  /\ UNCHANGED <<vStorage, vRefCount, image, calls>>

\* A connection sends a message, whatever the protocol is doing.
Send(k) == Encode(k) /\ UNCHANGED <<v, vStorage, vRefCount, image, calls>>

StoreNext ==
  \/ ReadVID \/ WriteVID \/ FreeVID
  \/ StashVID \/ Update
  \/ \E k \in Node : Send(k)

StoreSpec == StoreInit /\ [][StoreNext]_storeVars

-----------------------------------------------------------------------------
StoreTypeOK ==
  /\ v \in Contents \cup {Nil}
  /\ image \in Contents \cup {Nil}
  /\ vStorage \in Storage
  /\ vRefCount \in Nat
  /\ calls \in Seq(Purpose)
  /\ ourChunk \in Chunk \cup {NoChunk}
  /\ promised \subseteq Node
  /\ left \subseteq Chunk

(***************************************************************************)
(* A call under way finds the VID in memory, and its pointer is the one    *)
(* that others get.  A VID that is not in memory is on the disk.           *)
(***************************************************************************)
InUseIsThere ==
  /\ calls # <<>> => v # Nil
  /\ v = Nil => image # Nil

(***************************************************************************)
(* Once a VID has been stashed its memory is free whenever no call is      *)
(* under way, which is what the paging is for.                             *)
(***************************************************************************)
StashedIsOut == vStorage # "inMemory" /\ calls = <<>> => v = Nil

(***************************************************************************)
(* respondRequest indexes requestUnanswered (avid.go:616), which is nil    *)
(* once the requests have been answered, and comes back from the disk      *)
(* without elements: by then no request is recorded any more.              *)
(***************************************************************************)
RequestsHaveRoom ==
  v # Nil /\ ~Answerable(v) => v.room = "full"

(***************************************************************************)
(* A message is encoded long after the VID made it, perhaps when the VID   *)
(* is on the disk, but all carry the same chunk: the one dispersed first.  *)
(***************************************************************************)
OneChunkLeaves ==
  /\ promised # {} => ourChunk # NoChunk
  /\ left \subseteq {ourChunk}

-----------------------------------------------------------------------------
\* The VID wherever it is: to its methods an empty slice is as good as nil.
View == Encoded(IF v # Nil THEN v ELSE image)

InMemory == INSTANCE VIDInMemory WITH vid <- View

(***************************************************************************)
(* No update is ever lost: not the one of a call nested in another, nor    *)
(* that of a caller that has only read before, nor the one that strips the *)
(* block after StashVID.                                                   *)
(***************************************************************************)
NothingLost == InMemory!Spec
=============================================================================
