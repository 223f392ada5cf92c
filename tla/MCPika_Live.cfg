CONSTANTS
  n1 = n1  n2 = n2  n3 = n3  n4 = n4
  Node = {n1, n2, n3, n4}
  F = 1
  NoBlock = NoBlock
  self = n1
  NodeAt <- MCNodeAt
  Faulty = {n4}
  Blocks <- ThenSilent
  maxEpoch = 1
  pipeline = 1
  parallelism = 0
  chained = TRUE
  Window = 0
  Slow <- SlowSilent
  Ahead = 1
SPECIFICATION MCFairSpec
INVARIANT OutputIsThere
PROPERTY AllOutput
CHECK_DEADLOCK FALSE
