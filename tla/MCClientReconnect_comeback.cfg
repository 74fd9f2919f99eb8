CONSTANTS
  c1 = c1
  c2 = c2
  s1 = s1
  s2 = s2
  Client = {c1, c2}
  Subdomain = {s1, s2}
  Nil = Nil
  Other = other
  Asked <- NamedAndRandom
  Cap = 2
  MaxRegisterRetries = 4
  FirstBackoff = 1
  MaxBackoff = 2
  PongWait = 4
  MaxMishaps = 3
SPECIFICATION FairSpec
INVARIANTS
  TypeOK
  ConnectedIsServed
  GiveUpJustified
PROPERTIES
  NoTakeoverWar
  ComesBack
