CONSTANTS
  Callers = {g1, g2}
  Conns = {p1, p2}
  Methods <- OneSite
  MaxIdleConnsPerHost = 1
  DisableKeepAlives = FALSE
  BodyEnds = {"close"}
  ServerCloses = "owing"
  ReplyCloses = {FALSE}
  DialErrors = {"dial"}
  MaxJunk = 0
SPECIFICATION FairSpec
CHECK_DEADLOCK FALSE
INVARIANT SocketsAccounted
PROPERTY RoundTripReturns
PROPERTY BodyReleasesLoop
