CONSTANTS
  c1 = c1
  c2 = c2
  c3 = c3
  t1 = t1
  t2 = t2
  s1 = s1
  s2 = s2
  s3 = s3
  a1 = a1
  Conn = {c1, c2, c3}
  Token = {t1, t2}
  Subdomain = {s1, s2, s3}
  Protocol = {"http"}
  Admin = {}
  Sweeper = sweeper
  Nil = Nil
  MinPort = 1
  MaxPort = 1
  ServerMax = 0
  TokenMax <- TwoTunnelsEach
  MaxFaults = 0
  MayCrash = FALSE
SYMMETRY MCSymmetry
SPECIFICATION Spec
INVARIANTS
  TypeOK
  MappedIsLive
  LimitRespected
  NoSessionForgotten
  KickJustified
PROPERTIES
  RemovalJustified
  ImplementsLease
