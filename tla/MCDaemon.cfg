CONSTANTS
  n1 = n1
  n2 = n2
  Scenes = {"server", "peer", "generator"}
  Node = {n1, n2}
  self = n1
  MaxMsgs = 3
  InCap = 1
  Message <- MCMessage
  Plans <- MCPlans
  MaxStreams = 2
  CancelChunkResponse = TRUE
  NoRetrieve = FALSE
  Config <- MCConfig
  maxEpoch = 3
  BlockTxs = 2
  MaxTxs = 3
  ChanCap = 1
SPECIFICATION MCSpec
INVARIANTS AllTypesOK InLine InOnePlace NewestOpen Carried NoneLost LoggedAsSent
PROPERTIES Delivered Arrives Counted
CHECK_DEADLOCK FALSE
