------------------------------- MODULE Proxy --------------------------------
(***************************************************************************)
(* The proxy's request pipeline: goproxy/proxy.go (ServeHTTP and the two   *)
(* filter chains), goproxy/https.go (CONNECT, the TLS and the plain HTTP   *)
(* man-in-the-middle loops) and the handlers that main.go registers.       *)
(*                                                                         *)
(* One goroutine serves each client connection c.  A connection carries    *)
(* requests 1, 2, ... in turn; after a CONNECT it becomes a tunnel and the *)
(* later requests are those the proxy reads inside the tunnel.  Handlers   *)
(* run one per step, so connections interleave between any two of them.    *)
(* The server under the proxy, the origin sites and the client are         *)
(* environment: their answers and failures are choices.                    *)
(***************************************************************************)
EXTENDS Integers, Sequences

CONSTANTS Clients,        \* client connections
          MaxReqs,        \* bound: requests on one connection
          PlainKinds,     \* kinds of request a client sends to the proxy
          TunnelKinds,    \* kinds of request a client sends inside a tunnel
          ReqHandlers,    \* proxy.reqHandlers
          RespHandlers,   \* proxy.respHandlers
          HttpsHandlers,  \* proxy.httpsHandlers, by the answers each may give
          AllowHTTP2      \* proxy.AllowHTTP2

(* A request is an ordinary one to either of two sites ("get", "other"),   *)
(* a websocket upgrade, one with a relative URL, a CONNECT, or an HTTP/2   *)
(* preface.  The last three are an ordinary request, an upgrade and a      *)
(* preface whose URL the TLS loop cannot rebuild: url.Parse fails on the   *)
(* CONNECT's host:port and "*", say, and leaves req.URL nil.               *)
Unparsable == {"badurl", "badws", "badpri"}
Kinds == {"get", "other", "ws", "rel", "connect", "pri"} \cup Unparsable

ReqDeeds == {"pass", "edit", "rewrite", "answer", "cffi"}
RespDeeds == {"pass", "replace", "drop", "bytes", "main"}
Actions == {"accept", "reject", "mitm", "hijack", "httpmitm", "auth407"}

ASSUME HandlersAssumption ==
  /\ MaxReqs \in Nat
  /\ PlainKinds \subseteq {"get", "other", "ws", "rel", "connect"}
  /\ TunnelKinds \subseteq {"get", "other", "ws", "pri"} \cup Unparsable
  /\ ReqHandlers \in Seq([on : SUBSET Kinds, looks : BOOLEAN, does : ReqDeeds])
  /\ RespHandlers \in Seq([on : SUBSET Kinds, looks : BOOLEAN, does : RespDeeds])
  /\ HttpsHandlers \in Seq(SUBSET (Actions \cup {"skip", "unauthorized"}))
  /\ AllowHTTP2 \in BOOLEAN

VARIABLES pc,       \* where the goroutine of each connection is
          loc,      \* its locals
          ctx,      \* its ProxyCtx: Session, Req and Error
          sess,     \* proxy.sess
          up,       \* FALSE once a panic has taken the process down
          seen,     \* history: what the handlers were called with
          canned,   \* history: requests a handler answered itself
          sent,     \* history: requests handed to the origin's side
          replies   \* history: what was written to the client

hist == <<seen, canned, sent, replies>>
vars == <<pc, loc, ctx, sess, up, seen, canned, sent, replies>>

-----------------------------------------------------------------------------
(* Data.  rw is the set of handlers whose changes a request carries.       *)
Request(n, kind) == [n |-> n, kind |-> kind, rw |-> {}]
NoReq == Request(0, "get")

(* A response: made tells a complete one from one without a Header         *)
(* ("nohdr", main.go's 502) and from &http.Response{} ("empty"); body is   *)
(* the number of the request whose origin body it holds, 0 for any other.  *)
Response(n, src, made, body) ==
  [n |-> n, src |-> src, made |-> made, body |-> body]
NoResp == Response(0, "none", "full", 0)
FromOrigin(n) == Response(n, "origin", "full", n)
(* Mistake: a canned response without a Header map. *)
NewResponseNoHeader(n) == Response(n, "canned", "nohdr", 0)

NewResponse(n) == Response(n, "canned", "full", 0)

IsNil(x) == x.n = 0

Requests == [n : Nat, kind : Kinds, rw : SUBSET Nat]
Responses == [n : Nat, src : {"none", "origin", "canned", "filter"},
              made : {"full", "nohdr", "empty"}, body : Nat]

Locals == [mode : {"plain", "https", "mitm", "httpmitm"},
           n : Nat,
           orig : Requests, req : Requests, resp : Responses,
           hix : Nat, ran : Seq(Nat),
           again : BOOLEAN, ws : BOOLEAN, hijacked : BOOLEAN,
           todo : Actions,
           bodies : SUBSET Nat, defers : SUBSET Nat,
           client : {"open", "shut", "closed", "handed"}]

(* Goroutine c continues at p with locals l. *)
Goto(c, p, l) == pc' = [pc EXCEPT ![c] = p] /\ loc' = [loc EXCEPT ![c] = l]

(* A reply is written to the client; src is "cut" when its body breaks off *)
(* and only a part of it is.                                               *)
Reply(c, src) ==
  replies' = [replies EXCEPT
                ![c] = Append(@, [n |-> loc[c].n, kind |-> loc[c].orig.kind,
                                  src |-> src, ran |-> loc[c].ran])]

(* The request is handed to the origin's side, with or without success. *)
Send(c, q, via, ok) ==
  sent' = [sent EXCEPT ![c] = Append(@, [n |-> q.n, kind |-> q.kind,
                                         rw |-> q.rw, via |-> via,
                                         ok |-> ok])]

(* A handler is called with ctx, for a request or for a response. *)
Called(c, phase) ==
  seen' = seen \cup {[c |-> c, n |-> loc[c].n, mode |-> loc[c].mode,
                      session |-> ctx[c].session, phase |-> phase]}

(* Mistake: the deferred closes are forgotten. *)
RunDefersNever(l) == [l EXCEPT !.defers = {}]

(* Deferred body closes run when the function returns or panics. *)
RunDefers(l) == [l EXCEPT !.bodies = @ \ l.defers, !.defers = {}]

(* hij.Hijack(): the server no longer writes to the client nor closes it.  *)
(* Mistake: the ResponseWriter goes on writing to a hijacked connection.   *)
HijackIgnored(l) == l

Hijack(l) == [l EXCEPT !.hijacked = TRUE]

ClientIs(l, st) == [l EXCEPT !.client = st]

(* Mistake: the recovery of a panic leaves the client connection open. *)
PanicLeavesOpen(c) ==
  Goto(c, "done", RunDefers(loc[c])) /\ UNCHANGED up

(* A panic in the TLS man-in-the-middle goroutine is recovered by nobody   *)
(* and ends the process; elsewhere net/http recovers it, and closes the    *)
(* connection unless a handler has hijacked it.                            *)
Panic(c) ==
  IF loc[c].mode = "mitm"
  THEN up' = FALSE /\ UNCHANGED <<pc, loc>>
  ELSE /\ Goto(c, "done", RunDefers(IF loc[c].hijacked THEN loc[c]
                                    ELSE ClientIs(loc[c], "closed")))
       /\ UNCHANGED up

(* Mistakes: the TLS loop leaves without closing its client; it goes on to *)
(* the next request where it should leave.                                 *)
ReturnLeavesOpen(c) == Goto(c, "done", RunDefers(loc[c]))
ReturnContinues(c) == Goto(c, "mread", loc[c])

(* The serving function returns: the TLS loop closes the client on its way *)
(* out, the plain HTTP loop does not.                                      *)
Return(c) ==
  Goto(c, "done", RunDefers(IF loc[c].mode = "mitm"
                            THEN ClientIs(loc[c], "closed") ELSE loc[c]))

(* httpError: a 502 and a close of the client connection. *)
HttpError(c) ==
  /\ Reply(c, "error")
  /\ Goto(c, "done", RunDefers(ClientIs(loc[c], "closed")))

-----------------------------------------------------------------------------
(* A request gets a ProxyCtx with the next session. *)
(* Mistake: the session counter is read, not advanced. *)
NewCtxNoIncrement(c, q) ==
  /\ sess' = sess
  /\ ctx' = [ctx EXCEPT ![c] = [session |-> sess + 1, req |-> q, err |-> FALSE]]

NewCtx(c, q) ==
  /\ sess' = sess + 1
  /\ ctx' = [ctx EXCEPT ![c] = [session |-> sess + 1, req |-> q, err |-> FALSE]]

(* Mistake: handlers counted from 0. *)
FreshFromZero(c, q) ==
  [loc[c] EXCEPT !.n = q.n, !.orig = q, !.req = q, !.resp = NoResp, !.hix = 0]

Fresh(c, q) ==
  [loc[c] EXCEPT !.n = q.n, !.orig = q, !.req = q, !.resp = NoResp,
                 !.hix = 1, !.ran = <<>>, !.again = FALSE, !.ws = FALSE]

(* ServeHTTP receives a request on a connection that is not a tunnel. *)
ServeHTTP(c) ==
  /\ pc[c] = "idle" /\ loc[c].n < MaxReqs
  /\ \E k \in PlainKinds :
       LET q == Request(loc[c].n + 1, k)
       IN  /\ NewCtx(c, q)
           /\ Goto(c, CASE k = "connect" -> "https"
                        [] k = "rel"     -> "nonproxy"
                        [] OTHER         -> "reqh",
                   IF k = "connect"
                   THEN Hijack([Fresh(c, q) EXCEPT !.mode = "https"])
                   ELSE Fresh(c, q))
  /\ UNCHANGED <<up, hist>>

(* The client ends an idle keep-alive connection. *)
ClientLeaves(c) ==
  /\ pc[c] = "idle"
  /\ Goto(c, "done", ClientIs(loc[c], "closed"))
  /\ UNCHANGED <<ctx, sess, up, hist>>

NonproxyHandler(c) ==
  /\ pc[c] = "nonproxy"
  /\ Reply(c, "nonproxy")
  /\ Goto(c, "idle", loc[c])
  /\ UNCHANGED <<ctx, sess, up, seen, canned, sent>>

-----------------------------------------------------------------------------
(* What handler i does with request q, by what the conditions it was       *)
(* registered under say of q: the request it leaves in place, the request  *)
(* and the response it returns, and whether it asked the origin itself.    *)
ReqOutcome(orig, req, resp, asked) ==
  [orig |-> orig, req |-> req, resp |-> resp, asked |-> asked]

(* All the conditions under which handler h was registered hold for a      *)
(* request of this kind.                                                   *)
Matches(h, kind) == kind \in h.on

(* The request of goroutine c is one of the TLS loop whose URL is nil, and *)
(* handler h reads it: h.looks says that the first of its conditions does  *)
(* (UrlIs, DstHostIs and their like), main.go's handlers do themselves.    *)
LooksAtURL(h, kind) ==
  h.looks \/ (h.does \in {"cffi", "main"} /\ Matches(h, kind))
MissesURL(c, h) ==
  /\ loc[c].mode = "mitm" /\ loc[c].orig.kind \in Unparsable
  /\ LooksAtURL(h, loc[c].orig.kind)

(* The cffi client answers, fails, or has neither a response nor an error. *)
HandleRequest(q) ==
  {ReqOutcome(q, NoReq, FromOrigin(q.n), "ok"),
   ReqOutcome(q, q, Response(q.n, "canned", "nohdr", 0), "failed"),
   ReqOutcome(q, NoReq, Response(q.n, "canned", "empty", 0), "failed")}

HandleReq(i, q) ==
  LET h    == ReqHandlers[i]
      mine == [q EXCEPT !.rw = @ \cup {i}]
      on   == Matches(h, q.kind)
  IN  CASE ~on \/ h.does = "pass" ->
             {ReqOutcome(q, q, NoResp, "no")}
        [] on /\ h.does = "edit" ->
             {ReqOutcome(mine, mine, NoResp, "no")}
        [] on /\ h.does = "rewrite" ->
             {ReqOutcome(q, mine, NoResp, "no")}
        [] on /\ h.does = "answer" ->
             {ReqOutcome(q, NoReq, NewResponse(q.n), "no")}
        [] on /\ h.does = "cffi" ->
             HandleRequest(q)

(* Mistake: a response does not end the chain. *)
AfterReqHandlerNoBreak(resp) == "reqh"

AfterReqHandler(resp) == IF IsNil(resp) THEN "reqh" ELSE "got"

(* filterRequest: every handler is given the same r, the last answer       *)
(* counts, and a response ends the chain.                                  *)
FilterRequest(c) ==
  /\ pc[c] = "reqh" /\ loc[c].hix <= Len(ReqHandlers)
  /\ Called(c, "req")
  /\ \/ /\ MissesURL(c, ReqHandlers[loc[c].hix])
        /\ Panic(c)
        /\ UNCHANGED <<canned, sent>>
     \/ /\ ~MissesURL(c, ReqHandlers[loc[c].hix])
        /\ \E o \in HandleReq(loc[c].hix, loc[c].orig) :
             /\ Goto(c, AfterReqHandler(o.resp),
                     [loc[c] EXCEPT !.orig = o.orig, !.req = o.req,
                                    !.resp = o.resp, !.hix = @ + 1,
                                    !.bodies = @ \cup ({o.resp.body} \ {0})])
             /\ canned' = IF IsNil(o.resp) THEN canned
                          ELSE [canned EXCEPT ![c] = @ \cup {loc[c].n}]
             /\ IF o.asked = "no" THEN UNCHANGED sent
                ELSE Send(c, loc[c].orig, "handler", o.asked = "ok")
        /\ UNCHANGED up
  /\ UNCHANGED <<ctx, sess, replies>>

(* What the code does with a request that no handler answered.  The TLS    *)
(* loop gives up on one without a URL, but looks only after it has read    *)
(* the Scheme of an upgrade's.                                             *)
Route(c) ==
  /\ pc[c] = "reqh" /\ loc[c].hix > Len(ReqHandlers)
  /\ LET k == loc[c].req.kind
         m == loc[c].mode
     IN  \/ m = "mitm" /\ k = "badws" /\ Panic(c)
         \/ m = "mitm" /\ k = "badurl" /\ Return(c) /\ UNCHANGED up
         \/ /\ m = "mitm" => k \notin {"badws", "badurl"}
            /\ Goto(c, CASE m = "mitm" /\ k \in {"pri", "badpri"} -> "h2"
                         [] m # "httpmitm" /\ k = "ws" -> "ws"
                         [] OTHER -> "roundtrip", loc[c])
            /\ UNCHANGED up
  /\ UNCHANGED <<ctx, sess, hist>>

(* ctx.RoundTrip, or the write and read on the tunnel's own connection. *)
RoundTrip(c) ==
  /\ pc[c] = "roundtrip"
  /\ LET l == [loc[c] EXCEPT !.hix = 1, !.ran = <<>>, !.ws = FALSE]
         n == loc[c].n
     IN  \/ /\ Send(c, loc[c].req, "proxy", TRUE)
            /\ Goto(c, "got", [l EXCEPT !.resp = FromOrigin(n),
                                        !.bodies = @ \cup {n}])
            /\ UNCHANGED <<ctx, replies>>
         \/ /\ l.mode = "plain"
            /\ Send(c, loc[c].req, "proxy", FALSE)
            /\ ctx' = [ctx EXCEPT ![c].err = TRUE]
            /\ Goto(c, "resph", [l EXCEPT !.resp = NoResp, !.again = TRUE])
            /\ UNCHANGED replies
         \/ /\ l.mode = "mitm"
            /\ Send(c, loc[c].req, "proxy", FALSE)
            /\ Return(c)
            /\ UNCHANGED <<ctx, replies>>
         \/ /\ l.mode = "httpmitm"
            /\ Send(c, loc[c].req, "proxy", FALSE)
            /\ HttpError(c)
            /\ UNCHANGED ctx
  /\ UNCHANGED <<sess, up, seen, canned>>

(* Mistake: the response handlers are not started from the first. *)
GotKeepsIndex(c) ==
  /\ pc[c] = "got"
  /\ Goto(c, "resph", loc[c])
  /\ UNCHANGED <<ctx, sess, up, hist>>

(* The code between having a response and filtering it: ServeHTTP defers   *)
(* the close of its body, which panics when the body is nil; the plain     *)
(* HTTP loop defers the close of an origin response.                       *)
Got(c) ==
  /\ pc[c] = "got"
  /\ LET l == [loc[c] EXCEPT !.hix = 1]
         b == {l.resp.body} \ {0}
     IN  IF l.mode = "plain" /\ l.resp.made = "empty"
         THEN Panic(c)
         ELSE /\ Goto(c, "resph",
                      IF \/ l.mode = "plain"
                         \/ l.mode = "httpmitm" /\ l.n \notin canned[c]
                      THEN [l EXCEPT !.defers = @ \cup b] ELSE l)
              /\ UNCHANGED up
  /\ UNCHANGED <<ctx, sess, hist>>

(* What response handler i makes of rs: "drop" may return nil, HandleBytes *)
(* closes the body it replaces unless reading it fails, main.go's handler  *)
(* leaves it open.                                                         *)
HandleResp(c, i, rs) ==
  LET h == RespHandlers[i]
      on == Matches(h, ctx[c].req.kind)
  IN  CASE ~on \/ h.does = "pass" -> {rs}
        [] on /\ h.does = "replace" ->
             {Response(loc[c].n, "filter", "full", 0)}
        [] on /\ h.does = "drop" -> {rs, NoResp}
        [] on /\ h.does = "bytes" -> {rs, [rs EXCEPT !.body = 0]}
        [] on /\ h.does = "main" -> {[rs EXCEPT !.body = 0]}

(* HandleBytes dereferences the response and its body, main.go's handler   *)
(* also its Request and its Header.                                        *)
RespPanics(c, i, rs) ==
  /\ Matches(RespHandlers[i], ctx[c].req.kind)
  /\ \/ RespHandlers[i].does = "bytes" /\ (IsNil(rs) \/ rs.made = "empty")
     \/ RespHandlers[i].does = "main" /\ (IsNil(rs) \/ rs.made # "full")

FilterResponse(c) ==
  /\ pc[c] = "resph" /\ loc[c].hix <= Len(RespHandlers)
  /\ Called(c, "resp")
  /\ LET i == loc[c].hix
         rs == loc[c].resp
     IN  IF RespPanics(c, i, rs) \/ MissesURL(c, RespHandlers[i])
         THEN Panic(c)
         ELSE /\ \E new \in HandleResp(c, i, rs) :
                   Goto(c, "resph",
                        [loc[c] EXCEPT
                           !.resp = new, !.hix = @ + 1, !.ran = Append(@, i),
                           !.bodies = IF RespHandlers[i].does = "bytes" /\ new # rs
                                      THEN @ \ {rs.body} ELSE @])
              /\ UNCHANGED up
  /\ UNCHANGED <<ctx, sess, canned, sent, replies>>

(* filterResponse returns: to the websocket handshake, to ServeHTTP's      *)
(* error path, which filters a second time, or to the write of the reply.  *)
Filtered(c) ==
  /\ pc[c] = "resph" /\ loc[c].hix > Len(RespHandlers)
  /\ Goto(c, IF loc[c].ws THEN "wsreply"
             ELSE IF loc[c].again THEN "got" ELSE "reply",
          [loc[c] EXCEPT !.again = FALSE])
  /\ UNCHANGED <<ctx, sess, up, hist>>

-----------------------------------------------------------------------------
(* ServeHTTP writes the reply; nothing reaches a client whose connection   *)
(* the websocket code has hijacked, and the server then lets go of it.     *)
ReplyPlain(c) ==
  /\ pc[c] = "reply" /\ loc[c].mode = "plain"
  /\ LET l == RunDefers([loc[c] EXCEPT !.bodies = @ \ {loc[c].resp.body}])
     IN  IF IsNil(l.resp) /\ IsNil(l.req)
         THEN Panic(c) /\ UNCHANGED replies
         ELSE /\ \/ /\ ~l.hijacked
                    /\ Reply(c, IF IsNil(l.resp) THEN "error" ELSE l.resp.src)
                    /\ Goto(c, "idle", l)
                 \/ /\ ~l.hijacked
                    /\ Goto(c, "done", ClientIs(l, "closed"))
                    /\ UNCHANGED replies
                 \/ /\ l.hijacked
                    /\ Goto(c, "done", l)
                    /\ UNCHANGED replies
              /\ UNCHANGED up
  /\ UNCHANGED <<ctx, sess, seen, canned, sent>>

(* The TLS loop defers the close of the filtered response's body, needs    *)
(* its Request and its Header, and writes it chunked; when the body or the *)
(* client fails it leaves.                                                 *)
ReplyMitm(c) ==
  /\ pc[c] = "reply" /\ loc[c].mode = "mitm"
  /\ LET l == [loc[c] EXCEPT !.defers = @ \cup ({loc[c].resp.body} \ {0})]
     IN  IF IsNil(l.resp) \/ l.resp.made # "full"
         THEN Panic(c) /\ UNCHANGED replies
         ELSE /\ \/ Reply(c, l.resp.src) /\ Goto(c, "mread", l)
                 \/ /\ Goto(c, "done", RunDefers(ClientIs(l, "closed")))
                    /\ Reply(c, "cut") \/ UNCHANGED replies
              /\ UNCHANGED up
  /\ UNCHANGED <<ctx, sess, seen, canned, sent>>

(* The plain HTTP loop: resp.Write closes the body it has written.  It may *)
(* fail before it has written anything, or when the origin's body breaks   *)
(* off with the client still there.                                        *)
ReplyHTTPMitm(c) ==
  /\ pc[c] = "reply" /\ loc[c].mode = "httpmitm"
  /\ IF IsNil(loc[c].resp)
     THEN Panic(c) /\ UNCHANGED replies
     ELSE /\ \/ /\ Reply(c, loc[c].resp.src)
                /\ Goto(c, "mread",
                        [loc[c] EXCEPT !.bodies = @ \ {loc[c].resp.body}])
             \/ HttpError(c)
             \/ Reply(c, "cut") /\ Goto(c, "broken", loc[c])
          /\ UNCHANGED up
  /\ UNCHANGED <<ctx, sess, seen, canned, sent>>

(* Behind a reply that broke off httpError writes a second one. *)
Broken(c) ==
  /\ pc[c] = "broken"
  /\ HttpError(c)
  /\ UNCHANGED <<ctx, sess, up, seen, canned, sent>>

-----------------------------------------------------------------------------
(* Websocket upgrades.  ServeHTTP hijacks the client after the dial and    *)
(* does not return after serveWebsocket: it goes on to send the request    *)
(* once more.  The TLS loop returns.                                       *)
AfterWebsocket(c, l) ==
  IF l.mode = "plain" THEN Goto(c, "roundtrip", l) ELSE Return(c)

ServeWebsocket(c) ==
  /\ pc[c] = "ws"
  /\ LET l == Hijack(loc[c])
         upgraded == [l EXCEPT !.resp = Response(l.n, "origin", "full", 0),
                               !.ws = TRUE, !.hix = 1, !.ran = <<>>]
     IN  \/ AfterWebsocket(c, loc[c]) /\ UNCHANGED sent
         \/ AfterWebsocket(c, l) /\ Send(c, l.req, "websocket", FALSE)
         \/ Goto(c, "resph", upgraded) /\ Send(c, l.req, "websocket", TRUE)
  /\ UNCHANGED <<ctx, sess, up, seen, canned, replies>>

(* The handshake's reply is written through, and the relay starts. *)
ReplyWebsocket(c) ==
  /\ pc[c] = "wsreply"
  /\ IF IsNil(loc[c].resp)
     THEN Panic(c) /\ UNCHANGED replies
     ELSE /\ \/ Reply(c, loc[c].resp.src) /\ Goto(c, "relay", loc[c])
             \/ AfterWebsocket(c, loc[c]) /\ UNCHANGED replies
          /\ UNCHANGED up
  /\ UNCHANGED <<ctx, sess, seen, canned, sent>>

(* One direction of the relay ends, and proxyWebsocket with it. *)
RelayEnds(c) ==
  /\ pc[c] = "relay"
  /\ AfterWebsocket(c, loc[c])
  /\ UNCHANGED <<ctx, sess, up, hist>>

-----------------------------------------------------------------------------
(* BasicConnect rejects a CONNECT, with a response in ctx.Resp. *)
BasicUnauthorized(l) == [l EXCEPT !.todo = "reject", !.resp = NewResponse(l.n)]

(* CONNECT.  The first https handler that returns an action decides;       *)
(* "skip" stands for nil, "unauthorized" for BasicConnect's rejection.     *)
HandleConnect(c) ==
  /\ pc[c] = "https" /\ loc[c].hix <= Len(HttpsHandlers)
  /\ Called(c, "connect")
  /\ \E d \in HttpsHandlers[loc[c].hix] :
       Goto(c, IF d = "skip" THEN "https" ELSE "connect",
            CASE d = "skip" -> [loc[c] EXCEPT !.hix = @ + 1]
              [] d = "unauthorized" -> BasicUnauthorized(loc[c])
              [] d \in Actions -> [loc[c] EXCEPT !.todo = d])
  /\ UNCHANGED <<ctx, sess, up, canned, sent, replies>>

OkConnect(c) ==
  /\ pc[c] = "https" /\ loc[c].hix > Len(HttpsHandlers)
  /\ Goto(c, "connect", [loc[c] EXCEPT !.todo = "accept"])
  /\ UNCHANGED <<ctx, sess, up, hist>>

Connect(c, action) ==
  /\ pc[c] = "connect" /\ loc[c].todo = action
  /\ UNCHANGED <<ctx, sess, up, seen, canned, sent>>

(* ConnectAccept dials first, ConnectHTTPMitm and ConnectMitm promise the  *)
(* client a tunnel before they know that there is one.                     *)
ConnectAccept(c) ==
  /\ Connect(c, "accept")
  /\ \/ Reply(c, "established") /\ Goto(c, "tunnel", loc[c])
     \/ HttpError(c)

ConnectHTTPMitm(c) ==
  /\ Connect(c, "httpmitm")
  /\ Reply(c, "established")
  /\ \/ Goto(c, "mread", [loc[c] EXCEPT !.mode = "httpmitm"])
     \/ Return(c)

ConnectMitm(c) ==
  /\ Connect(c, "mitm")
  /\ Reply(c, "established")
  /\ Goto(c, "tls", loc[c])

(* TLSConfig fails; or the goroutine starts, and the handshake fails or    *)
(* gives it a client to read from.                                         *)
TLSHandshake(c) ==
  /\ pc[c] = "tls"
  /\ \/ HttpError(c)
     \/ Goto(c, "done", ClientIs(loc[c], "closed")) /\ UNCHANGED replies
     \/ /\ Goto(c, "mread", [loc[c] EXCEPT !.mode = "mitm"])
        /\ UNCHANGED replies
  /\ UNCHANGED <<ctx, sess, up, seen, canned, sent>>

(* todo.Hijack owns the client from here on. *)
ConnectHijack(c) ==
  /\ Connect(c, "hijack")
  /\ Goto(c, "done", ClientIs(loc[c], "handed"))
  /\ UNCHANGED replies

ConnectProxyAuthHijack(c) ==
  /\ Connect(c, "auth407")
  /\ Reply(c, "auth407")
  /\ Goto(c, "done", ClientIs(loc[c], "handed"))

ConnectReject(c) ==
  /\ Connect(c, "reject")
  /\ IF IsNil(loc[c].resp) THEN UNCHANGED replies ELSE Reply(c, "canned")
  /\ Goto(c, "done", ClientIs(loc[c], "closed"))

(* Both copies of an accepted tunnel have ended: both halves of both       *)
(* connections are shut down, or both are closed.                          *)
TunnelEnds(c) ==
  /\ pc[c] = "tunnel"
  /\ \E st \in {"shut", "closed"} : Goto(c, "done", ClientIs(loc[c], st))
  /\ UNCHANGED <<ctx, sess, up, hist>>

(* The loops read the next request inside the tunnel.  The TLS loop makes  *)
(* a ProxyCtx of its own for each, the plain HTTP loop keeps CONNECT's.    *)
ReadRequest(c) ==
  /\ pc[c] = "mread" /\ loc[c].n < MaxReqs
  /\ \E k \in TunnelKinds :
       LET q == Request(loc[c].n + 1, k)
       IN  /\ IF loc[c].mode = "mitm" THEN NewCtx(c, q)
              ELSE UNCHANGED <<ctx, sess>>
           /\ Goto(c, "reqh", Fresh(c, q))
  /\ UNCHANGED <<up, hist>>

(* End of input, or input that is no request: the TLS loop has taken a     *)
(* session for the latter before it looks at the error.                    *)
ReadFails(c) ==
  /\ pc[c] = "mread"
  /\ \/ UNCHANGED sess
     \/ loc[c].mode = "mitm" /\ sess' = sess + 1
  /\ Return(c)
  /\ UNCHANGED <<ctx, up, hist>>

(* An HTTP/2 preface in the TLS loop: its rest is read from the client and *)
(* the session relayed, if that is allowed; with it the loop ends.         *)
ServeH2(c) ==
  /\ pc[c] = "h2"
  /\ \/ UNCHANGED sent
     \/ AllowHTTP2 /\ Send(c, loc[c].req, "h2", TRUE)
  /\ Return(c)
  /\ UNCHANGED <<ctx, sess, up, seen, canned, replies>>

-----------------------------------------------------------------------------
Init ==
  /\ pc = [c \in Clients |-> "idle"]
  /\ loc = [c \in Clients |->
              [mode |-> "plain", n |-> 0, orig |-> NoReq, req |-> NoReq,
               resp |-> NoResp, hix |-> 1, ran |-> <<>>, again |-> FALSE,
               ws |-> FALSE, hijacked |-> FALSE, todo |-> "accept",
               bodies |-> {}, defers |-> {}, client |-> "open"]]
  /\ ctx = [c \in Clients |-> [session |-> 0, req |-> NoReq, err |-> FALSE]]
  /\ sess = 0
  /\ up = TRUE
  /\ seen = {}
  /\ canned = [c \in Clients |-> {}]
  /\ sent = [c \in Clients |-> <<>>]
  /\ replies = [c \in Clients |-> <<>>]

(* Steps that wait for the client to speak or to leave. *)
ClientStep(c) ==
  ServeHTTP(c) \/ ClientLeaves(c) \/ ReadRequest(c) \/ ReadFails(c)
  \/ RelayEnds(c) \/ TunnelEnds(c) \/ TLSHandshake(c) \/ ServeH2(c)

(* Steps that the proxy takes with a request in hand. *)
ProxyStep(c) ==
  \/ NonproxyHandler(c)
  \/ FilterRequest(c) \/ Route(c) \/ RoundTrip(c) \/ Got(c)
  \/ FilterResponse(c) \/ Filtered(c)
  \/ ReplyPlain(c) \/ ReplyMitm(c) \/ ReplyHTTPMitm(c) \/ Broken(c)
  \/ ServeWebsocket(c) \/ ReplyWebsocket(c)
  \/ HandleConnect(c) \/ OkConnect(c)
  \/ ConnectAccept(c) \/ ConnectHTTPMitm(c) \/ ConnectMitm(c)
  \/ ConnectHijack(c) \/ ConnectProxyAuthHijack(c) \/ ConnectReject(c)

(* Every connection has ended, or the process has. *)
Quiet == (~up \/ \A c \in Clients : pc[c] = "done") /\ UNCHANGED vars

Next == Quiet \/ \E c \in Clients : up /\ (ClientStep(c) \/ ProxyStep(c))

Spec == Init /\ [][Next]_vars

(* Go runs every goroutine that can run.  What a step with a request in    *)
(* hand waits for is assumed to come to an end: handlers, dials, an origin *)
(* that has been asked, the rest of the client's request, and its reading  *)
(* of the reply.  The code sets a time limit only for main's tls-client.   *)
FairSpec == Spec /\ \A c \in Clients : WF_vars(up /\ ProxyStep(c))

-----------------------------------------------------------------------------
Places == {"idle", "nonproxy", "reqh", "roundtrip", "got", "resph", "reply",
           "ws", "wsreply", "relay", "https", "connect", "tls", "tunnel",
           "mread", "h2", "broken", "done"}

(* At place p, index i is that of a handler or just behind the last one. *)
IndexInRange(p, i) ==
  /\ p = "reqh" => i \in 1..(Len(ReqHandlers) + 1)
  /\ p = "resph" => i \in 1..(Len(RespHandlers) + 1)
  /\ p = "https" => i \in 1..(Len(HttpsHandlers) + 1)

Contexts == [session : Nat, err : BOOLEAN, req : Requests]

(* Types, and every handler index in range where it is used. *)
TypeOK ==
  /\ pc \in [Clients -> Places]
  /\ loc \in [Clients -> Locals]
  /\ ctx \in [Clients -> Contexts]
  /\ sess \in Nat
  /\ up \in BOOLEAN
  /\ \A c \in Clients : IndexInRange(pc[c], loc[c].hix)

(* ProxyCtx.Session tells requests apart: whatever connections run at the  *)
(* same time, two handler calls with the same session are about the same   *)
(* request.  (The plain HTTP tunnel, which keeps CONNECT's context for all *)
(* its requests, is left out.)                                             *)
SessionUnique ==
  \A a, b \in seen :
    /\ a.session = b.session
    /\ a.mode # "httpmitm" /\ b.mode # "httpmitm"
    => a.c = b.c /\ a.n = b.n

(* A request that some handler answered is never sent on by the proxy, in  *)
(* any of the three ways requests reach it.                                *)
CannedSkipsOrigin ==
  \A c \in Clients : \A i \in DOMAIN sent[c] :
    sent[c][i].via # "handler" => sent[c][i].n \notin canned[c]

(* The response handlers, in registration order. *)
AllRespHandlers == [i \in 1..Len(RespHandlers) |-> i]

(* Every response a client gets from an origin or from a request handler   *)
(* went through each response handler once, in order, websocket handshakes *)
(* and replies that break off included; one that a response handler put in *)
(* place of a failed transfer went through the chain twice.                *)
RepliesFiltered ==
  \A c \in Clients : \A i \in DOMAIN replies[c] :
    LET r == replies[c][i]
    IN  /\ r.src = "origin" => r.ran = AllRespHandlers
        /\ r.src = "canned" /\ r.kind # "connect" => r.ran = AllRespHandlers
        /\ r.src = "cut" => r.ran = AllRespHandlers
        /\ r.src = "filter" => r.ran \in {AllRespHandlers,
                                          AllRespHandlers \o AllRespHandlers}

(* Replies come in the order of the requests and at most one for each, a   *)
(* websocket upgrade that ServeHTTP sends on twice included, and nothing   *)
(* is written behind one whose body broke off in a tunnel.  Two exceptions *)
(* are in the code: a CONNECT whose TLSConfig fails gets 200 and then 502, *)
(* and the plain HTTP loop puts a 502 behind the part of a broken reply.   *)
RepliesInOrder ==
  \A c \in Clients : \A i, j \in DOMAIN replies[c] :
    i < j => \/ /\ replies[c][i].n < replies[c][j].n
                /\ replies[c][i].src # "cut"
             \/ /\ replies[c][i].n = replies[c][j].n
                /\ replies[c][i].src \in {"established", "cut"}
                /\ replies[c][j].src = "error"

(* A response handler that puts a response or a body in another's place. *)
Replacing == \E i \in DOMAIN RespHandlers :
               RespHandlers[i].does \in {"replace", "drop", "main"}

(* A request handler that answers with the body of an origin's response. *)
Lending == \E i \in DOMAIN ReqHandlers : ReqHandlers[i].does = "cffi"

(* No body of an origin response is left open when its connection is idle  *)
(* or over: in ServeHTTP whatever the handlers replace, in the tunnels if  *)
(* they replace nothing.  (The plain HTTP tunnel defers no close of what a *)
(* request handler answered, and loses its body with a failed write.)      *)
BodiesReleased ==
  \A c \in Clients :
    /\ up /\ pc[c] \in {"idle", "done"}
    /\ \/ loc[c].mode = "plain"
       \/ ~Replacing /\ (loc[c].mode = "httpmitm" => ~Lending)
    => loc[c].bodies = {}

(* Once a CONNECT is over, whatever ended it, its client connection has    *)
(* been closed, shut down or handed to a hijacker (the plain HTTP tunnel   *)
(* is left out: it returns without closing).                               *)
TunnelClientReleased ==
  \A c \in Clients :
    /\ up /\ pc[c] = "done"
    /\ loc[c].mode \in {"https", "mitm"} /\ loc[c].todo # "httpmitm"
    => loc[c].client # "open"

(* No request and no failure of an origin takes the process down.  (It     *)
(* depends on the handlers: they must return whole responses and not read  *)
(* the URL of a request that has none; and a websocket upgrade without a   *)
(* URL is fatal whatever they do.)                                         *)
ServerSurvives == up

(* A request that ServeHTTP or the TLS loop has accepted is answered, or   *)
(* its client sees the connection close, or it turns the tunnel into an    *)
(* HTTP/2 session, which ends when its peers please.                       *)
Answered ==
  \A c \in Clients : \A k \in 1..MaxReqs :
    (/\ loc[c].n = k /\ loc[c].mode \in {"plain", "mitm"}
     /\ loc[c].orig.kind # "ws")
      ~> (\/ \E i \in DOMAIN replies[c] : replies[c][i].n = k
          \/ loc[c].client # "open" \/ pc[c] = "h2" \/ ~up)

-----------------------------------------------------------------------------
(* A request handler's returned request is the one that is sent: what the  *)
(* origin gets carries the changes of every handler that returned one.     *)
HandlersCompose ==
  \A c \in Clients : \A i \in DOMAIN sent[c] :
    sent[c][i].via = "proxy" =>
      \A h \in DOMAIN ReqHandlers :
        /\ sent[c][i].kind \in ReqHandlers[h].on
        /\ ReqHandlers[h].does \in {"edit", "rewrite"}
        => h \in sent[c][i].rw
=============================================================================
