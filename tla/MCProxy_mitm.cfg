CONSTANTS
  Clients = {c1, c2}
  MaxReqs = 2
  PlainKinds = {"get", "connect"}
  TunnelKinds = {"get", "other", "badurl", "badpri"}
  ReqHandlers <- AnswerThenEdit
  RespHandlers <- OnlyBytes
  HttpsHandlers <- ToMitm
  AllowHTTP2 = FALSE
SPECIFICATION FairSpec
INVARIANT SessionUnique
INVARIANT BodiesReleased
INVARIANT ServerSurvives
PROPERTY Answered
