CONSTANTS
  c1 = c1
  c2 = c2
  c3 = c3
  t1 = t1
  t2 = t2
  s1 = s1
  s2 = s2
  s3 = s3
  a1 = a1
  Conn = {c1, c2}
  Token = {t1, t2}
  Subdomain = {s1}
  Protocol = {"http"}
  Admin = {a1}
  Sweeper = sweeper
  Nil = Nil
  MinPort = 1
  MaxPort = 1
  ServerMax = 2
  TokenMax <- NoTokenMax
  MaxFaults = 0
  MayCrash = FALSE
SPECIFICATION FairSpec
PROPERTIES
  RevokedSessionsDie
  LostClientIsCleanedUp
  StaleClientIsDisconnected
