CONSTANTS
  n1 = n1
  n2 = n2
  n3 = n3
  n4 = n4
  Node = {n1, n2, n3, n4}
  F = 1
  NodeAt <- Ids
  Faulty = {n4}
  FaultyMsg <- Said
  Plots <- Part
  MaxEpoch = 3
SPECIFICATION MCFairSpec
PROPERTY AgreementMeansAvailable
CHECK_DEADLOCK FALSE
