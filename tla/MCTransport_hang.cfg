CONSTANTS
  Callers = {g1, g2}
  Conns = {p1, p2}
  Methods <- OneSite
  MaxIdleConnsPerHost = 1
  DisableKeepAlives = FALSE
  BodyEnds = {"close"}
  ServerCloses = "any"
  ReplyCloses = {FALSE}
  DialErrors = {}
  MaxJunk = 0
SPECIFICATION FairSpec
CHECK_DEADLOCK FALSE
PROPERTY RoundTripReturns
