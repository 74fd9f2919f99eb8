CONSTANTS
  r1 = r1
  r2 = r2
  Stream = {r1}
  Nil = Nil
  SendCap = 2
  UpCap = 1
  MaxDrops = 0
  ReqLen = 1
  RespLen = 1
SPECIFICATION FairSpec
PROPERTY EitherEndCloses
CHECK_DEADLOCK FALSE
