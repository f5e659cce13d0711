CONSTANTS
  Callers = {g1, g2}
  Conns = {p1, p2}
  Methods <- OneSite
  MaxIdleConnsPerHost = 1
  DisableKeepAlives = FALSE
  BodyEnds = {"eof"}
  ServerCloses = "never"
  ReplyCloses = {FALSE}
  DialErrors = {}
  MaxJunk = 0
SPECIFICATION Spec
CHECK_DEADLOCK FALSE
INVARIANT FnAtMostOnce
