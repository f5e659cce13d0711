CONSTANTS
  Clients = {c1}
  MaxReqs = 4
  PlainKinds = {"get", "other", "ws", "rel", "connect"}
  TunnelKinds = {"get", "other", "ws", "pri", "badurl", "badws", "badpri"}
  ReqHandlers <- MainThenEdit
  RespHandlers <- ReplaceMainOrDrop
  HttpsHandlers <- AnyAction
  AllowHTTP2 = TRUE
SPECIFICATION FairSpec
INVARIANT TypeOK
INVARIANT CannedSkipsOrigin
INVARIANT RepliesFiltered
INVARIANT RepliesInOrder
INVARIANT BodiesReleased
INVARIANT TunnelClientReleased
PROPERTY Answered
