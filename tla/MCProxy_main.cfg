CONSTANTS
  Clients = {c1}
  MaxReqs = 2
  PlainKinds = {"get", "connect"}
  TunnelKinds = {"get"}
  ReqHandlers <- MainReq
  RespHandlers <- MainResp
  HttpsHandlers <- ToMitm
  AllowHTTP2 = FALSE
SPECIFICATION Spec
INVARIANT ServerSurvives
