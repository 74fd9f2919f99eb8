CONSTANTS
  r1 = r1
  r2 = r2
  Stream = {r1}
  Nil = Nil
  SendCap = 2
  UpCap = 1
  MaxDrops = 1
  ReqLen = 2
  RespLen = 2
  MaxMishaps = 1
SPECIFICATION FairSpec
PROPERTIES
  InFlightEnds
  PumpsEnd
  ClientStreamEnds
CHECK_DEADLOCK FALSE
