CONSTANTS
  n1 = n1
  n2 = n2
  n3 = n3
  n4 = n4
  Node = {n1, n2, n3, n4}
  F = 1
  NoBlock = NoBlock
  Faulty = {n4}
  Quick = {n1, n2}
SPECIFICATION MCFairSpec
INVARIANTS AcceptsEnough AcceptedIsDispersed TermedIsComplete
PROPERTY EpochEnds
CHECK_DEADLOCK FALSE
