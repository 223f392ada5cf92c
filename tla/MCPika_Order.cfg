CONSTANTS
  n1 = n1  n2 = n2  n3 = n3  n4 = n4
  Node = {n1, n2, n3, n4}
  F = 1
  NoBlock = NoBlock
  self = n1
  NodeAt <- MCNodeAt
  Faulty = {n4}
  Blocks <- FourEpochs
  maxEpoch = 3
  pipeline = 1
  parallelism = 0
  chained = TRUE
  Window = 10
  Slow <- SlowBack
  Ahead = 0
SPECIFICATION MCSpec
INVARIANTS LevelsBounded ReferredIsOutput LogIsOrder
CHECK_DEADLOCK FALSE
