CONSTANTS
  q1 = q1
  q2 = q2
  q3 = q3
  t1 = t1
  t2 = t2
  p1 = p1
  p2 = p2
  a1 = a1
  Caller = {q1, q2}
  Key = {a1}
  Window = 2
  Max = 2
  Nobody = nobody
  MaxTime = 2
  Password = {p1, p2}
  NoPassword = none
  Token = {t1, t2}
  NoToken = noToken
  SessionTTL = 2
  MaxFaults = 1
SYMMETRY MCSymmetry
SPECIFICATION Spec
INVARIANTS
  TypeOK
  StrikesBounded
  RefusalJustified
  OldSessionsEnd
PROPERTIES
  PasswordKept
  JanitorInvisible
  ReaperInvisible
CHECK_DEADLOCK FALSE
