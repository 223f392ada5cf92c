CONSTANTS
  n1 = n1  n2 = n2  n3 = n3  n4 = n4
  Node = {n1, n2, n3, n4}
  F = 1
  self = n1
  Chunk = {c1, c2}
  NoChunk = NoChunk
  Nil = Nil
  Depth = 2
  Epochs = {0, 1}
  Nodes = {0, 1, 2, 3}
SPECIFICATION MCSpec
INVARIANTS InUseIsThere RequestsHaveRoom OneChunkLeaves KeysApart
PROPERTY NothingLost
SYMMETRY Others
