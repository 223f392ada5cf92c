CONSTANTS
  n1 = n1
  n2 = n2
  n3 = n3
  n4 = n4
  Node = {n1, n2, n3, n4}
  F = 1
  Faulty = {n4}
  FaultyMsg <- Said
SPECIFICATION MCFairSpec
INVARIANTS Retrievable ChunksReleased CountersMatch PartsThere
PROPERTIES Totality Retrieval Completion
CHECK_DEADLOCK FALSE
