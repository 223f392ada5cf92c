------------------------------- MODULE DBKeys -------------------------------
(***************************************************************************)
(* The keys under which a node stores its VIDs and their chunks, all in    *)
(* one database.  A key grows with the nesting of the instances: a tag and *)
(* a number of eight bytes per level, with nothing that ends a tag.        *)
(***************************************************************************)
EXTENDS Naturals, Sequences, FiniteSets

CONSTANTS
  Epochs,    \* the epochs that have been allocated
  Nodes      \* the numbers of the nodes

ASSUME FinitelyManyKeys == IsFiniteSet(Epochs) /\ IsFiniteSet(Nodes)

TagBytes(s) ==
  [Pika |-> 4, PikaEpoch |-> 9, VID |-> 3, ourchunk |-> 8, ourecho |-> 7, ch |-> 2, ec |-> 2,
   none |-> 0][s]

WithPrefixAlone(prefix, s, i) ==   \* mutant: forgets the outer prefix
  <<[tag |-> s, number |-> i]>>
WithPrefix(prefix, s, i) == Append(prefix, [tag |-> s, number |-> i])

EpochPrefix(e) == WithPrefix(WithPrefix(<<>>, "Pika", 0), "PikaEpoch", e)

\* The VID of node i in epoch e.
vidKey(e, i) == WithPrefix(EpochPrefix(e), "none", i)

\* Its own chunk and echo, and those of every node j.
dbKey(e, i, s, j) == WithPrefix(WithPrefix(EpochPrefix(e), "VID", i), s, j)

ChunkKeys(e, i) ==
  {dbKey(e, i, "ourchunk", 0), dbKey(e, i, "ourecho", 0)}
    \cup {dbKey(e, i, s, j) : s \in {"ch", "ec"}, j \in Nodes}

Bytes(k) ==
  LET upTo[n \in 0..Len(k)] == IF n = 0 THEN 0 ELSE upTo[n - 1] + TagBytes(k[n].tag) + 8
  IN upTo[Len(k)]

\* Surely other bytes: another length, or the same layout with other contents.
Differ(k, l) ==
  \/ Bytes(k) # Bytes(l)
  \/ /\ k # l /\ Len(k) = Len(l)
     /\ \A n \in DOMAIN k : TagBytes(k[n].tag) = TagBytes(l[n].tag)

\* No two of a node's VIDs and chunks, of any epochs, share a key.
KeysDiffer ==
  LET keys == {vidKey(e, i) : e \in Epochs, i \in Nodes}
                \cup UNION {ChunkKeys(e, i) : e \in Epochs, i \in Nodes}
      perVID == 1 + 2 + 2 * Cardinality(Nodes)
  IN
  /\ \A k, l \in keys : k = l \/ Differ(k, l)
  /\ Cardinality(keys) = Cardinality(Epochs) * Cardinality(Nodes) * perVID
=============================================================================
