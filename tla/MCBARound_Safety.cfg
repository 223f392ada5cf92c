CONSTANTS
  n1 = n1
  n2 = n2
  n3 = n3
  n4 = n4
  Node = {n1, n2, n3, n4}
  F = 1
  Faulty = {n4}
  FaultyMsg <- Lies
  Estimate <- LastEstimate
  Reaches <- Everywhere
SPECIFICATION MCSpec
INVARIANTS OneAgreement JustifiedBelief SingleCandidatesAgree
CHECK_DEADLOCK FALSE
