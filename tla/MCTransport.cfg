CONSTANTS
  Callers = {g1, g2}
  Conns = {p1, p2}
  Methods <- FiveWays
  MaxIdleConnsPerHost = 1
  DisableKeepAlives = FALSE
  BodyEnds = {"eof", "close", "closeerr"}
  ServerCloses = "any"
  ReplyCloses = {TRUE, FALSE}
  DialErrors = {"dial", "connect", "tls"}
  MaxJunk = 1
SPECIFICATION Spec
SYMMETRY Sym
CHECK_DEADLOCK FALSE
INVARIANT TypeOK
INVARIANT ExclusiveUse
INVARIANT IdleBounded
INVARIANT RightTarget
INVARIANT ResponseMatches
