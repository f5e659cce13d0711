CONSTANTS
  Clients = {c1}
  MaxReqs = 2
  PlainKinds = {"get"}
  TunnelKinds = {"get"}
  ReqHandlers <- RewriteTwice
  RespHandlers <- PassAll
  HttpsHandlers <- Nothing
  AllowHTTP2 = FALSE
SPECIFICATION Spec
INVARIANT HandlersCompose
