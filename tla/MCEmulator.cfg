CONSTANTS
  s1 = s1
  s2 = s2
  nServer = 2
  nCrashed = 1
  Rate = {1, 2}
  Size <- MCSize
  MaxMsgs = 2
  LastTick = 4
  Sender = {s1, s2}
  Message = {1, 2, 3, 4, 5, 6, 7, 8}
  bufsz = 1
  Headroom = 0
SPECIFICATION MCSpec
INVARIANT InStep
PROPERTIES Delivers Ends
CHECK_DEADLOCK FALSE
