CONSTANTS
  r1 = r1
  r2 = r2
  Stream = {r1, r2}
  Nil = Nil
  SendCap = 1
  UpCap = 1
  MaxDrops = 0
  ReqLen = 1
  RespLen = 2
  MaxMishaps = 1
SYMMETRY MCSymmetry
SPECIFICATION Spec
INVARIANTS
  TypeOK
  ResponseWhole
  RequestWhole
  ReaderIsAwaited
CHECK_DEADLOCK FALSE
