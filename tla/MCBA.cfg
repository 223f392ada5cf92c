CONSTANTS
  n1 = n1
  n2 = n2
  n3 = n3
  n4 = n4
  Node = {n1, n2, n3, n4}
  F = 1
  NodeAt <- Ids
  Faulty = {n4}
  FaultyMsg <- Said
  Plots <- SplitOrClaim
  MaxEpoch = 3
SPECIFICATION MCFairSpec
INVARIANT TermLocksLater
PROPERTIES ImplementsAgreement Terminates
CHECK_DEADLOCK FALSE
