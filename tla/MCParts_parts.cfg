CONSTANTS
  d1 = d1
  p1 = p1
  p2 = p2
  LowerCase = {"a"}
  UpperCase = {"A"}
  LowerOf <- MCLowerOf
  Reserved <- MCReserved
  Domain <- MCDomain
  OtherDomain <- MCOtherDomain
  MinLen = 3
  MaxLen = 5
  Adjective <- MCWord
  Noun <- MCWord
  Suffix <- MCWord
  MaxAsked = 6
  Release <- MCRelease
  Dev = d1
  Process = {p1, p2}
  UpdateTTL = 2
  MaxHours = 3
  PortValue <- MCPortValue
  DomainValue <- MCDomainValue
SPECIFICATION Spec
INVARIANTS
  PublishedIsReachable
  OperatorNamesKept
  HintIsRight
  StartedAsValidated
CHECK_DEADLOCK FALSE
