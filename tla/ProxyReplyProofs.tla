-------------------------- MODULE ProxyReplyProofs --------------------------
(***************************************************************************)
(* Proofs about what the pipeline of Proxy does for its clients and its    *)
(* origins, for any connections, requests and handler chains: requests     *)
(* that a handler answers are not sent on, replies come in order and       *)
(* filtered, bodies and tunnel clients are released, and, with handlers    *)
(* that return whole responses, the process survives.                      *)
(***************************************************************************)
EXTENDS ProxyProofs, SequenceTheorems

(* What two values of a goroutine's locals have in common: the request,    *)
(* the response and its way through the handlers, the side the connection  *)
(* is on, the bodies.                                                      *)
SameReq(k, l) == k.n = l.n /\ k.orig = l.orig /\ k.req = l.req
SamePass(k, l) ==
  /\ k.resp = l.resp /\ k.hix = l.hix /\ k.ran = l.ran
  /\ k.again = l.again /\ k.ws = l.ws
SameSide(k, l) == k.mode = l.mode /\ k.hijacked = l.hijacked /\ k.todo = l.todo
SameBodies(k, l) == k.bodies = l.bodies /\ k.defers = l.defers

(* What the updates of the locals change, *)
LEMMA Updates ==
  ASSUME NEW l \in Locals
  PROVE  /\ /\ RunDefers(l) \in Locals
            /\ SameReq(RunDefers(l), l) /\ SamePass(RunDefers(l), l)
            /\ SameSide(RunDefers(l), l) /\ RunDefers(l).client = l.client
            /\ RunDefers(l).bodies = l.bodies \ l.defers
            /\ RunDefers(l).defers = {}
         /\ /\ Hijack(l) \in Locals
            /\ SameReq(Hijack(l), l) /\ SamePass(Hijack(l), l)
            /\ Hijack(l).mode = l.mode /\ Hijack(l).todo = l.todo
            /\ Hijack(l).hijacked /\ SameBodies(Hijack(l), l)
            /\ Hijack(l).client = l.client
         /\ \A st \in {"open", "shut", "closed", "handed"} :
              LET k == ClientIs(l, st)
              IN  /\ k \in Locals /\ SameReq(k, l) /\ SamePass(k, l)
                  /\ SameSide(k, l) /\ SameBodies(k, l) /\ k.client = st
<1> USE DEF SameReq, SamePass, SameSide, SameBodies
<1>1. /\ RunDefers(l) \in Locals
      /\ SameReq(RunDefers(l), l) /\ SamePass(RunDefers(l), l)
      /\ SameSide(RunDefers(l), l) /\ RunDefers(l).client = l.client
      /\ RunDefers(l).bodies = l.bodies \ l.defers
      /\ RunDefers(l).defers = {}
  BY DEF RunDefers, Locals
<1>2. /\ Hijack(l) \in Locals
      /\ SameReq(Hijack(l), l) /\ SamePass(Hijack(l), l)
      /\ Hijack(l).mode = l.mode /\ Hijack(l).todo = l.todo
      /\ SameBodies(Hijack(l), l)
      /\ Hijack(l).client = l.client
  BY Values DEF Hijack, Locals
<1>3. Hijack(l).hijacked
  BY Zenon DEF Hijack, Locals
<1>4. ASSUME NEW st \in {"open", "shut", "closed", "handed"}
      PROVE  LET k == ClientIs(l, st)
             IN  /\ k \in Locals /\ SameReq(k, l) /\ SamePass(k, l)
                 /\ SameSide(k, l) /\ SameBodies(k, l) /\ k.client = st
  BY DEF ClientIs, Locals
<1> HIDE DEF SameReq, SamePass, SameSide, SameBodies
<1> QED
  BY <1>1, <1>2, <1>3, <1>4

(* The types of the histories. *)
Sources == {"none", "origin", "canned", "filter", "error", "nonproxy",
            "established", "auth407", "cut"}
Vias == {"handler", "proxy", "websocket", "h2"}
Replies == [n : Nat, kind : Kinds, src : Sources, ran : Seq(Nat)]
Sendings == [n : Nat, kind : Kinds, rw : SUBSET Nat, via : Vias, ok : BOOLEAN]

HistOK ==
  /\ canned \in [Clients -> SUBSET Nat]
  /\ sent \in [Clients -> Seq(Sendings)]
  /\ replies \in [Clients -> Seq(Replies)]

(* What a step adds to a connection's histories. *)
Replied(c, src) ==
  \E r \in Replies : /\ r.n = loc[c].n /\ r.kind = loc[c].orig.kind
                     /\ r.src = src /\ r.ran = loc[c].ran
                     /\ replies'[c] = Append(replies[c], r)
Sent(c, n, via) ==
  \E s \in Sendings : s.n = n /\ s.via = via /\ sent'[c] = Append(sent[c], s)
NoReply(c) == replies'[c] = replies[c]
NoSend(c) == sent'[c] = sent[c] /\ canned'[c] = canned[c]

(* No other goroutine is touched, and the histories keep their types. *)
Alone(c) ==
  /\ HistOK'
  /\ \A d \in Clients \ {c} :
       /\ pc'[d] = pc[d] /\ loc'[d] = loc[d] /\ canned'[d] = canned[d]
       /\ sent'[d] = sent[d] /\ replies'[d] = replies[d]

(* The fields of a goroutine's locals, *)
LEMMA LocTypes ==
  ASSUME TypeOK, NEW c \in Clients
  PROVE  /\ loc[c] \in Locals /\ loc[c].n \in Nat /\ loc[c].orig \in Requests
         /\ loc[c].req \in Requests /\ loc[c].resp \in Responses
         /\ loc[c].ran \in Seq(Nat) /\ loc[c].hix \in Nat
         /\ loc[c].again \in BOOLEAN /\ loc[c].ws \in BOOLEAN
         /\ loc[c].hijacked \in BOOLEAN
         /\ loc[c].bodies \in SUBSET Nat /\ loc[c].defers \in SUBSET Nat
         /\ loc[c].orig.n \in Nat /\ loc[c].orig.kind \in Kinds
         /\ loc[c].req.n \in Nat /\ loc[c].resp.n \in Nat
         /\ loc[c].resp.src \in {"none", "origin", "canned", "filter"}
         /\ loc[c].resp.body \in Nat
<1>1. loc[c] \in Locals
  BY DEF TypeOK
<1> QED
  BY <1>1 DEF Locals, Requests, Responses

(* and what a write to its client, *)
LEMMA ReplyDoes ==
  ASSUME TypeOK, HistOK, NEW c \in Clients, NEW src \in Sources, Reply(c, src)
  PROVE  /\ Replied(c, src) /\ replies' \in [Clients -> Seq(Replies)]
         /\ \A d \in Clients \ {c} : replies'[d] = replies[d]
<1> DEFINE r == [n |-> loc[c].n, kind |-> loc[c].orig.kind,
                 src |-> src, ran |-> loc[c].ran]
<1>1. r \in Replies
  BY LocTypes DEF Replies
<1>2. replies \in [Clients -> Seq(Replies)] /\ replies[c] \in Seq(Replies)
  BY DEF HistOK
<1>3. replies' = [replies EXCEPT ![c] = Append(replies[c], r)]
  BY <1>2 DEF Reply
<1>4. r.n = loc[c].n /\ r.kind = loc[c].orig.kind /\ r.src = src /\ r.ran = loc[c].ran
  OBVIOUS
<1> HIDE DEF r
<1>5. Append(replies[c], r) \in Seq(Replies)
  BY <1>1, <1>2
<1> QED
  BY <1>1, <1>2, <1>3, <1>4, <1>5 DEF Replied

(* or a send to an origin, adds to the histories. *)
LEMMA SendDoes ==
  ASSUME HistOK, NEW c \in Clients, NEW q \in Requests, NEW via \in Vias,
         NEW ok \in BOOLEAN, Send(c, q, via, ok)
  PROVE  /\ Sent(c, q.n, via) /\ sent' \in [Clients -> Seq(Sendings)]
         /\ \A d \in Clients \ {c} : sent'[d] = sent[d]
<1> DEFINE s == [n |-> q.n, kind |-> q.kind, rw |-> q.rw, via |-> via, ok |-> ok]
<1>1. s \in Sendings
  BY DEF Sendings, Requests
<1>2. sent \in [Clients -> Seq(Sendings)] /\ sent[c] \in Seq(Sendings)
  BY DEF HistOK
<1>3. sent' = [sent EXCEPT ![c] = Append(sent[c], s)]
  BY <1>2 DEF Send
<1>4. s.n = q.n /\ s.via = via
  OBVIOUS
<1> HIDE DEF s
<1>5. Append(sent[c], s) \in Seq(Sendings)
  BY <1>1, <1>2
<1> QED
  BY <1>1, <1>2, <1>3, <1>4, <1>5 DEF Sent

(* Alone, when some histories stay as they are. *)
LEMMA AloneWith ==
  ASSUME HistOK, NEW c \in Clients,
         \A d \in Clients \ {c} : pc'[d] = pc[d] /\ loc'[d] = loc[d],
         \/ canned' = canned
         \/ /\ canned' \in [Clients -> SUBSET Nat]
            /\ \A d \in Clients \ {c} : canned'[d] = canned[d],
         \/ sent' = sent
         \/ /\ sent' \in [Clients -> Seq(Sendings)]
            /\ \A d \in Clients \ {c} : sent'[d] = sent[d],
         \/ replies' = replies
         \/ /\ replies' \in [Clients -> Seq(Replies)]
            /\ \A d \in Clients \ {c} : replies'[d] = replies[d]
  PROVE  Alone(c)
BY DEF Alone, HistOK

-----------------------------------------------------------------------------
(* A goroutine that leaves runs its deferred closes; it closes its client, *)
(* or is not in the TLS loop.                                              *)
Leaves(c) ==
  LET l == loc[c]
      k == loc'[c]
  IN  /\ pc'[c] = "done" /\ SameReq(k, l) /\ SamePass(k, l) /\ SameSide(k, l)
      /\ k.bodies \subseteq l.bodies \ l.defers /\ k.defers = {}
      /\ \/ k.client = "closed"
         \/ k.client = l.client /\ l.mode # "mitm"

(* A panic that nobody recovers. *)
Crashes(c) == loc[c].mode = "mitm" /\ ~up' /\ UNCHANGED <<pc, loc>>

(* Return, *)
LEMMA ReturnDoes ==
  ASSUME TypeOK, NEW c \in Clients, Return(c)
  PROVE  /\ Leaves(c)
         /\ \A d \in Clients \ {c} : pc'[d] = pc[d] /\ loc'[d] = loc[d]
<1>1. loc[c] \in Locals
  BY LocTypes
<1> DEFINE l == IF loc[c].mode = "mitm" THEN ClientIs(loc[c], "closed") ELSE loc[c]
           k == RunDefers(l)
<1>2. /\ l \in Locals /\ SameReq(l, loc[c]) /\ SamePass(l, loc[c])
      /\ SameSide(l, loc[c]) /\ SameBodies(l, loc[c])
      /\ \/ l.client = "closed"
         \/ l.client = loc[c].client /\ loc[c].mode # "mitm"
  BY <1>1, Updates DEF SameReq, SamePass, SameSide, SameBodies
<1>3. Goto(c, "done", k)
  BY DEF Return
<1> HIDE DEF l
<1>4. /\ SameReq(k, l) /\ SamePass(k, l) /\ SameSide(k, l)
      /\ k.client = l.client /\ k.bodies = l.bodies \ l.defers /\ k.defers = {}
  BY <1>2, Updates
<1> HIDE DEF k
<1>5. /\ pc'[c] = "done" /\ loc'[c] = k
      /\ \A d \in Clients \ {c} : pc'[d] = pc[d] /\ loc'[d] = loc[d]
  BY <1>3, Moves
<1> QED
  BY <1>2, <1>4, <1>5 DEF Leaves, SameReq, SamePass, SameSide, SameBodies

(* httpError, *)
LEMMA HttpErrorDoes ==
  ASSUME TypeOK, HistOK, NEW c \in Clients, HttpError(c)
  PROVE  /\ Leaves(c) /\ loc'[c].client = "closed"
         /\ \A d \in Clients \ {c} : pc'[d] = pc[d] /\ loc'[d] = loc[d]
         /\ Replied(c, "error") /\ replies' \in [Clients -> Seq(Replies)]
         /\ \A d \in Clients \ {c} : replies'[d] = replies[d]
<1>1. loc[c] \in Locals /\ "error" \in Sources
  BY LocTypes DEF Sources
<1> DEFINE l == ClientIs(loc[c], "closed")
           k == RunDefers(l)
<1>2. /\ l \in Locals /\ SameReq(l, loc[c]) /\ SamePass(l, loc[c])
      /\ SameSide(l, loc[c]) /\ SameBodies(l, loc[c]) /\ l.client = "closed"
  BY <1>1, Updates
<1>3. Goto(c, "done", k) /\ Reply(c, "error")
  BY DEF HttpError
<1> HIDE DEF l
<1>4. /\ SameReq(k, l) /\ SamePass(k, l) /\ SameSide(k, l)
      /\ k.client = l.client /\ k.bodies = l.bodies \ l.defers /\ k.defers = {}
  BY <1>2, Updates
<1> HIDE DEF k
<1>5. /\ pc'[c] = "done" /\ loc'[c] = k
      /\ \A d \in Clients \ {c} : pc'[d] = pc[d] /\ loc'[d] = loc[d]
  BY <1>3, Moves
<1>6. Leaves(c) /\ loc'[c].client = "closed"
  BY <1>2, <1>4, <1>5 DEF Leaves, SameReq, SamePass, SameSide, SameBodies
<1> QED
  BY <1>1, <1>3, <1>5, <1>6, ReplyDoes

(* A panic, of either kind, *)
Panics(c) == Crashes(c) \/ (Leaves(c) /\ loc[c].mode # "mitm" /\ up' = up)

(* is what Panic does. *)
LEMMA PanicDoes ==
  ASSUME TypeOK, NEW c \in Clients, Panic(c)
  PROVE  /\ Panics(c)
         /\ \A d \in Clients \ {c} : pc'[d] = pc[d] /\ loc'[d] = loc[d]
<1>1. loc[c] \in Locals
  BY LocTypes
<1>2. CASE loc[c].mode = "mitm"
  <2>1. up' = FALSE /\ UNCHANGED <<pc, loc>>
    BY <1>2 DEF Panic
  <2>2. ~up'
    BY <2>1, Zenon
  <2> QED
    BY <1>2, <2>1, <2>2 DEF Panics, Crashes
<1>3. CASE loc[c].mode # "mitm"
  <2> DEFINE l == IF loc[c].hijacked THEN loc[c] ELSE ClientIs(loc[c], "closed")
             k == RunDefers(l)
  <2>2. /\ l \in Locals /\ SameReq(l, loc[c]) /\ SamePass(l, loc[c])
        /\ SameSide(l, loc[c]) /\ SameBodies(l, loc[c])
        /\ l.client \in {"closed", loc[c].client}
    BY <1>1, Updates DEF SameReq, SamePass, SameSide, SameBodies
  <2>3. Goto(c, "done", k) /\ up' = up
    BY <1>3 DEF Panic
  <2> HIDE DEF l
  <2>4. /\ SameReq(k, l) /\ SamePass(k, l) /\ SameSide(k, l)
        /\ k.client = l.client /\ k.bodies = l.bodies \ l.defers /\ k.defers = {}
    BY <2>2, Updates
  <2> HIDE DEF k
  <2>5. /\ pc'[c] = "done" /\ loc'[c] = k
        /\ \A d \in Clients \ {c} : pc'[d] = pc[d] /\ loc'[d] = loc[d]
    BY <2>3, Moves
  <2>6. Leaves(c)
    BY <1>3, <2>2, <2>4, <2>5 DEF Leaves, SameReq, SamePass, SameSide, SameBodies
  <2> QED
    BY <1>3, <2>3, <2>5, <2>6 DEF Panics
<1> QED
  BY <1>2, <1>3

-----------------------------------------------------------------------------
(* The steps one by one: everything they change, field by field.           *)

(* A request has arrived. *)
Arrived(c) ==
  LET l == loc[c]
      k == loc'[c]
  IN  /\ k.n = l.n + 1 /\ k.orig.n = k.n /\ k.req = k.orig /\ k.resp = NoResp
      /\ k.hix = 1 /\ k.ran = <<>> /\ ~k.again /\ ~k.ws
      /\ SameBodies(k, l) /\ k.client = l.client /\ k.todo = l.todo

(* The locals of a goroutine with a fresh request. *)
LEMMA FreshDoes ==
  ASSUME TypeOK, NEW c \in Clients, NEW k \in Kinds
  PROVE  LET q == Request(loc[c].n + 1, k)
             l == loc[c]
             f == Fresh(c, q)
         IN  /\ f \in Locals /\ f.n = l.n + 1 /\ f.orig = q /\ q.n = l.n + 1
             /\ q.kind = k /\ f.req = q
             /\ f.resp = NoResp /\ f.hix = 1 /\ f.ran = <<>> /\ ~f.again /\ ~f.ws
             /\ SameBodies(f, l) /\ f.client = l.client /\ SameSide(f, l)
<1> DEFINE q == Request(loc[c].n + 1, k)
           f == Fresh(c, q)
<1>1. loc[c] \in Locals /\ loc[c].n + 1 \in Nat
  BY LocTypes
<1>2. q \in Requests /\ q.n = loc[c].n + 1 /\ q.kind = k
  BY <1>1, DataTypes DEF Request
<1>3. f \in Locals
  BY <1>2, FreshTypes
<1>4. f = [loc[c] EXCEPT !.n = q.n, !.orig = q, !.req = q, !.resp = NoResp,
                         !.hix = 1, !.ran = <<>>, !.again = FALSE, !.ws = FALSE]
  BY DEF Fresh
<1> HIDE DEF q, f
<1>5. /\ f.n = q.n /\ f.orig = q /\ f.req = q
      /\ f.resp = NoResp /\ f.hix = 1 /\ f.ran = <<>>
      /\ SameBodies(f, loc[c]) /\ f.client = loc[c].client /\ SameSide(f, loc[c])
  BY <1>1, <1>4 DEF Locals, SameBodies, SameSide
<1>6. ~f.again /\ ~f.ws
  BY <1>1, <1>4, Zenon DEF Locals
<1> QED
  BY <1>2, <1>3, <1>5, <1>6 DEF q, f

ServeEffect(c) ==
  /\ pc[c] = "idle" /\ up' = up /\ NoReply(c) /\ NoSend(c) /\ Arrived(c)
  /\ \/ pc'[c] \in {"nonproxy", "reqh"} /\ SameSide(loc'[c], loc[c])
     \/ /\ pc'[c] = "https" /\ loc'[c].mode = "https"
        /\ loc'[c].orig.kind = "connect"

(* ServeHTTP. *)
LEMMA ServeHTTPDoes ==
  ASSUME TypeOK, HistOK, NEW c \in Clients, ServeHTTP(c)
  PROVE  ServeEffect(c) /\ Alone(c)
<1>1. PICK k \in PlainKinds :
        LET q == Request(loc[c].n + 1, k)
        IN  Goto(c, CASE k = "connect" -> "https"
                      [] k = "rel"     -> "nonproxy"
                      [] OTHER         -> "reqh",
                 IF k = "connect"
                 THEN Hijack([Fresh(c, q) EXCEPT !.mode = "https"])
                 ELSE Fresh(c, q))
  BY DEF ServeHTTP
<1>2. k \in Kinds
  BY HandlersAssumption DEF Kinds
<1>3. pc[c] = "idle" /\ up' = up /\ canned' = canned /\ sent' = sent /\ replies' = replies
  BY DEF ServeHTTP, hist
<1> DEFINE q == Request(loc[c].n + 1, k)
           f == Fresh(c, q)
           g == [f EXCEPT !.mode = "https"]
<1>4. /\ f \in Locals /\ f.n = loc[c].n + 1 /\ f.orig = q /\ q.n = loc[c].n + 1
      /\ q.kind = k /\ f.req = q
      /\ f.resp = NoResp /\ f.hix = 1 /\ f.ran = <<>> /\ ~f.again /\ ~f.ws
      /\ SameBodies(f, loc[c]) /\ f.client = loc[c].client /\ SameSide(f, loc[c])
  BY <1>2, FreshDoes
<1>5. CASE k = "connect"
  <2>1. Goto(c, "https", Hijack(g))
    BY <1>1, <1>5
  <2> HIDE DEF q, f
  <2>2. /\ g \in Locals /\ SameReq(g, f) /\ SamePass(g, f) /\ g.mode = "https"
        /\ g.todo = f.todo /\ SameBodies(g, f) /\ g.client = f.client
    BY <1>4 DEF Locals, SameReq, SamePass, SameBodies
  <2> HIDE DEF g
  <2>3. /\ SameReq(Hijack(g), g) /\ SamePass(Hijack(g), g)
        /\ Hijack(g).mode = g.mode /\ Hijack(g).todo = g.todo
        /\ SameBodies(Hijack(g), g) /\ Hijack(g).client = g.client
    BY <2>2, Updates
  <2>4. /\ pc'[c] = "https" /\ loc'[c] = Hijack(g)
        /\ \A d \in Clients \ {c} : pc'[d] = pc[d] /\ loc'[d] = loc[d]
    BY <2>1, Moves
  <2>5. Arrived(c)
    BY <1>4, <2>2, <2>3, <2>4 DEF Arrived, SameReq, SamePass, SameBodies, SameSide
  <2>6. loc'[c].mode = "https" /\ loc'[c].orig.kind = "connect"
    BY <1>4, <1>5, <2>2, <2>3, <2>4 DEF SameReq
  <2>7. Alone(c)
    BY <1>3, <2>4, AloneWith
  <2> QED
    BY <1>3, <2>4, <2>5, <2>6, <2>7 DEF ServeEffect, NoReply, NoSend
<1>6. CASE k # "connect"
  <2>1. PICK p \in {"nonproxy", "reqh"} : Goto(c, p, f)
    BY <1>1, <1>6
  <2> HIDE DEF q, f
  <2>4. /\ pc'[c] = p /\ loc'[c] = f
        /\ \A d \in Clients \ {c} : pc'[d] = pc[d] /\ loc'[d] = loc[d]
    BY <2>1, Moves
  <2>5. Arrived(c)
    BY <1>4, <2>4 DEF Arrived, SameSide
  <2>7. Alone(c)
    BY <1>3, <2>4, AloneWith
  <2> QED
    BY <1>3, <1>4, <2>4, <2>5, <2>7 DEF ServeEffect, NoReply, NoSend
<1> QED
  BY <1>5, <1>6

ReadEffect(c) ==
  /\ pc[c] = "mread" /\ pc'[c] = "reqh" /\ up' = up /\ NoReply(c) /\ NoSend(c)
  /\ Arrived(c) /\ SameSide(loc'[c], loc[c]) /\ loc'[c].orig.kind \in TunnelKinds

(* The arrival of a request in a tunnel. *)
LEMMA ReadRequestDoes ==
  ASSUME TypeOK, HistOK, NEW c \in Clients, ReadRequest(c)
  PROVE  ReadEffect(c) /\ Alone(c)
<1>1. PICK k \in TunnelKinds : Goto(c, "reqh", Fresh(c, Request(loc[c].n + 1, k)))
  BY DEF ReadRequest
<1>2. k \in Kinds
  BY HandlersAssumption DEF Kinds
<1>3. /\ pc[c] = "mread" /\ up' = up
      /\ canned' = canned /\ sent' = sent /\ replies' = replies
  BY DEF ReadRequest, hist
<1> DEFINE q == Request(loc[c].n + 1, k)
           f == Fresh(c, q)
<1>4. /\ f \in Locals /\ f.n = loc[c].n + 1 /\ f.orig = q /\ q.n = loc[c].n + 1
      /\ q.kind = k /\ f.req = q
      /\ f.resp = NoResp /\ f.hix = 1 /\ f.ran = <<>> /\ ~f.again /\ ~f.ws
      /\ SameBodies(f, loc[c]) /\ f.client = loc[c].client /\ SameSide(f, loc[c])
  BY <1>2, FreshDoes
<1> HIDE DEF q, f
<1>5. Goto(c, "reqh", f)
  BY <1>1 DEF q, f
<1>6. /\ pc'[c] = "reqh" /\ loc'[c] = f
      /\ \A d \in Clients \ {c} : pc'[d] = pc[d] /\ loc'[d] = loc[d]
  BY <1>5, Moves
<1>7. Arrived(c)
  BY <1>4, <1>6 DEF Arrived, SameSide
<1>8. Alone(c)
  BY <1>3, <1>6, AloneWith
<1> QED
  BY <1>3, <1>4, <1>6, <1>7, <1>8 DEF ReadEffect, NoReply, NoSend

(* What a request handler returns. *)
LEMMA HandleReqDoes ==
  ASSUME NEW i \in DOMAIN ReqHandlers, NEW q \in Requests,
         NEW o \in HandleReq(i, q)
  PROVE  /\ o.orig \in Requests /\ o.req \in Requests /\ o.resp \in Responses
         /\ o.orig.n = q.n /\ o.req.n \in {0, q.n}
         /\ o.orig.kind = q.kind /\ o.req.kind \in {q.kind, "get"}
         /\ o.resp.made = "empty" => o.resp.body = 0
         /\ IsNil(o.resp) => o.resp.body = 0
         /\ ~Lending => o.resp.body = 0 /\ o.resp.made = "full"
<1> DEFINE mine == [q EXCEPT !.rw = @ \cup {i}]
<1>1. /\ i \in Nat /\ q.n \in Nat /\ ReqHandlers[i].does \in ReqDeeds
      /\ mine \in Requests /\ mine.n = q.n /\ mine.kind = q.kind
  BY Chains DEF Requests
<1>2. \/ o = ReqOutcome(q, q, NoResp, "no")
      \/ o = ReqOutcome(mine, mine, NoResp, "no")
      \/ o = ReqOutcome(q, mine, NoResp, "no")
      \/ o = ReqOutcome(q, NoReq, NewResponse(q.n), "no")
      \/ /\ \/ o = ReqOutcome(q, NoReq, FromOrigin(q.n), "ok")
            \/ o = ReqOutcome(q, q, Response(q.n, "canned", "nohdr", 0), "failed")
            \/ o = ReqOutcome(q, NoReq, Response(q.n, "canned", "empty", 0), "failed")
         /\ ReqHandlers[i].does = "cffi"
  BY <1>1 DEF HandleReq, HandleRequest, Matches, ReqDeeds
<1>3. o.orig \in Requests /\ o.req \in Requests /\ o.resp \in Responses
  BY HandleReqTypes
<1> HIDE DEF mine
<1> QED
  BY <1>1, <1>2, <1>3 DEF ReqOutcome, NoResp, NewResponse, FromOrigin, Response,
     NoReq, Request, IsNil, Lending

(* Some handler reads the URL of a request of this kind. *)
Looking(kind) ==
  \/ \E i \in DOMAIN ReqHandlers : LooksAtURL(ReqHandlers[i], kind)
  \/ \E i \in DOMAIN RespHandlers : LooksAtURL(RespHandlers[i], kind)
Blind(c) ==
  /\ loc[c].mode = "mitm" /\ loc[c].orig.kind \in Unparsable
  /\ Looking(loc[c].orig.kind)

HandledEffect(c) ==
  LET l == loc[c]
      k == loc'[c]
  IN  /\ up' = up
      /\ k.n = l.n /\ k.orig.n = l.orig.n /\ k.req.n \in {0, l.orig.n}
      /\ k.orig.kind = l.orig.kind /\ k.req.kind \in {l.orig.kind, "get"}
      /\ k.ran = l.ran /\ k.again = l.again /\ k.ws = l.ws
      /\ SameSide(k, l) /\ k.client = l.client
      /\ k.defers = l.defers /\ k.bodies = l.bodies \cup ({k.resp.body} \ {0})
      /\ k.resp.made = "empty" => k.resp.body = 0
      /\ IsNil(k.resp) => k.resp.body = 0
      /\ ~Lending => k.resp.body = 0 /\ k.resp.made = "full"
      /\ sent'[c] = sent[c] \/ Sent(c, l.orig.n, "handler")
      /\ \/ pc'[c] = "reqh" /\ canned'[c] = canned[c] /\ IsNil(k.resp)
         \/ pc'[c] = "got" /\ canned'[c] = canned[c] \cup {l.n} /\ ~IsNil(k.resp)

FilterReqEffect(c) ==
  /\ pc[c] = "reqh" /\ NoReply(c)
  /\ \/ Crashes(c) /\ Blind(c) /\ NoSend(c)
     \/ HandledEffect(c)

(* A request handler that is called and does not panic, *)
LEMMA HandledDoes ==
  ASSUME TypeOK, HistOK, NEW c \in Clients, FilterRequest(c),
         ~MissesURL(c, ReqHandlers[loc[c].hix])
  PROVE  HandledEffect(c) /\ Alone(c)
<1>1. PICK o \in HandleReq(loc[c].hix, loc[c].orig) :
        /\ Goto(c, AfterReqHandler(o.resp),
                [loc[c] EXCEPT !.orig = o.orig, !.req = o.req, !.resp = o.resp,
                               !.hix = @ + 1,
                               !.bodies = @ \cup ({o.resp.body} \ {0})])
        /\ canned' = IF IsNil(o.resp) THEN canned
                     ELSE [canned EXCEPT ![c] = @ \cup {loc[c].n}]
        /\ IF o.asked = "no" THEN UNCHANGED sent
           ELSE Send(c, loc[c].orig, "handler", o.asked = "ok")
  BY DEF FilterRequest
<1>0. /\ pc[c] = "reqh" /\ up' = up /\ replies' = replies
      /\ loc[c].hix <= Len(ReqHandlers)
  BY DEF FilterRequest
<1>2. /\ up' = up /\ replies' = replies
      /\ loc[c].hix \in DOMAIN ReqHandlers
  BY <1>0, Chains DEF TypeOK, IndexInRange
<1>3. /\ o.orig \in Requests /\ o.req \in Requests /\ o.resp \in Responses
      /\ o.orig.n = loc[c].orig.n /\ o.req.n \in {0, loc[c].orig.n}
      /\ o.orig.kind = loc[c].orig.kind /\ o.req.kind \in {loc[c].orig.kind, "get"}
      /\ o.resp.made = "empty" => o.resp.body = 0
      /\ IsNil(o.resp) => o.resp.body = 0
      /\ ~Lending => o.resp.body = 0 /\ o.resp.made = "full"
  BY <1>2, LocTypes, HandleReqDoes
<1> DEFINE k == [loc[c] EXCEPT !.orig = o.orig, !.req = o.req, !.resp = o.resp,
                               !.hix = @ + 1,
                               !.bodies = @ \cup ({o.resp.body} \ {0})]
           p == AfterReqHandler(o.resp)
<1>4. /\ k.n = loc[c].n /\ k.orig = o.orig /\ k.req = o.req /\ k.resp = o.resp
      /\ k.ran = loc[c].ran /\ k.again = loc[c].again /\ k.ws = loc[c].ws
      /\ SameSide(k, loc[c]) /\ k.client = loc[c].client
      /\ k.defers = loc[c].defers
      /\ k.bodies = loc[c].bodies \cup ({o.resp.body} \ {0})
  BY LocTypes DEF Locals, SameSide
<1>5. p = IF IsNil(o.resp) THEN "reqh" ELSE "got"
  BY DEF AfterReqHandler
<1> HIDE DEF k, p
<1>6. /\ pc'[c] = p /\ loc'[c] = k
      /\ \A d \in Clients \ {c} : pc'[d] = pc[d] /\ loc'[d] = loc[d]
  BY <1>1, Moves DEF k, p
<1>7. /\ canned' \in [Clients -> SUBSET Nat]
      /\ \A d \in Clients \ {c} : canned'[d] = canned[d]
      /\ canned'[c] = IF IsNil(o.resp) THEN canned[c] ELSE canned[c] \cup {loc[c].n}
  <2>1. canned \in [Clients -> SUBSET Nat] /\ loc[c].n \in Nat
    BY LocTypes DEF HistOK
  <2>2. canned[c] \cup {loc[c].n} \in SUBSET Nat
    BY <2>1
  <2> QED
    BY <1>1, <2>1, <2>2
<1>8. \/ sent' = sent
      \/ /\ Sent(c, loc[c].orig.n, "handler") /\ sent' \in [Clients -> Seq(Sendings)]
         /\ \A d \in Clients \ {c} : sent'[d] = sent[d]
  <2>1. sent' = sent \/ Send(c, loc[c].orig, "handler", o.asked = "ok")
    BY <1>1
  <2>2. (o.asked = "ok") \in BOOLEAN /\ "handler" \in Vias
    BY DEF Vias
  <2> QED
    BY <2>1, <2>2, LocTypes, SendDoes
<1>9. Alone(c)
  BY <1>2, <1>6, <1>7, <1>8, AloneWith
<1> QED
  BY <1>2, <1>3, <1>4, <1>5, <1>6, <1>7, <1>8, <1>9 DEF HandledEffect

(* and any. *)
LEMMA FilterRequestDoes ==
  ASSUME TypeOK, HistOK, NEW c \in Clients, FilterRequest(c)
  PROVE  FilterReqEffect(c) /\ Alone(c)
<1> DEFINE h == ReqHandlers[loc[c].hix]
<1>0. pc[c] = "reqh" /\ replies' = replies /\ loc[c].hix <= Len(ReqHandlers)
  BY DEF FilterRequest
<1>1. pc[c] = "reqh" /\ replies' = replies /\ loc[c].hix \in DOMAIN ReqHandlers
  BY <1>0, Chains DEF TypeOK, IndexInRange
<1>2. CASE MissesURL(c, h)
  <2>1. Panic(c) /\ canned' = canned /\ sent' = sent
    BY <1>2 DEF FilterRequest
  <2>2. Panics(c) /\ \A d \in Clients \ {c} : pc'[d] = pc[d] /\ loc'[d] = loc[d]
    BY <2>1, PanicDoes
  <2>3. Blind(c)
    BY <1>1, <1>2 DEF MissesURL, Blind, Looking
  <2>4. Crashes(c)
    BY <2>2, <2>3 DEF Panics, Blind
  <2>5. Alone(c)
    BY <1>1, <2>1, <2>2, AloneWith
  <2> QED
    BY <1>1, <2>1, <2>3, <2>4, <2>5 DEF FilterReqEffect, NoReply, NoSend
<1>3. CASE ~MissesURL(c, h)
  BY <1>1, <1>3, HandledDoes DEF FilterReqEffect, NoReply
<1> QED
  BY <1>2, <1>3

RouteEffect(c) ==
  /\ pc[c] = "reqh" /\ NoReply(c) /\ NoSend(c)
  /\ \/ Crashes(c) /\ loc[c].req.kind = "badws"
     \/ Leaves(c) /\ loc[c].mode = "mitm" /\ up' = up
     \/ /\ loc'[c] = loc[c] /\ up' = up
        /\ \/ pc'[c] = "h2" /\ loc[c].mode = "mitm"
           \/ pc'[c] = "ws" /\ loc[c].mode # "httpmitm"
           \/ pc'[c] = "roundtrip"

(* What follows the request handlers. *)
LEMMA RouteDoes ==
  ASSUME TypeOK, HistOK, NEW c \in Clients, Route(c)
  PROVE  RouteEffect(c) /\ Alone(c)
<1>1. /\ pc[c] = "reqh"
      /\ canned' = canned /\ sent' = sent /\ replies' = replies
  BY DEF Route, hist
<1>2. \/ Panic(c) /\ loc[c].req.kind = "badws" /\ loc[c].mode = "mitm"
      \/ Return(c) /\ loc[c].mode = "mitm" /\ up' = up
      \/ Goto(c, "h2", loc[c]) /\ loc[c].mode = "mitm" /\ up' = up
      \/ Goto(c, "ws", loc[c]) /\ loc[c].mode # "httpmitm" /\ up' = up
      \/ Goto(c, "roundtrip", loc[c]) /\ up' = up
  BY DEF Route
<1>3. /\ \/ Panics(c) /\ loc[c].req.kind = "badws" /\ loc[c].mode = "mitm"
         \/ Leaves(c) /\ loc[c].mode = "mitm" /\ up' = up
         \/ /\ loc'[c] = loc[c] /\ up' = up
            /\ \/ pc'[c] = "h2" /\ loc[c].mode = "mitm"
               \/ pc'[c] = "ws" /\ loc[c].mode # "httpmitm"
               \/ pc'[c] = "roundtrip"
      /\ \A d \in Clients \ {c} : pc'[d] = pc[d] /\ loc'[d] = loc[d]
  BY <1>2, ReturnDoes, PanicDoes, Moves
<1>4. Alone(c)
  BY <1>1, <1>3, AloneWith
<1> QED
  BY <1>1, <1>3, <1>4 DEF RouteEffect, NoReply, NoSend, Panics

RoundTripEffect(c) ==
  LET l == loc[c]
      k == loc'[c]
  IN  /\ pc[c] = "roundtrip" /\ up' = up /\ canned'[c] = canned[c]
      /\ Sent(c, l.req.n, "proxy")
      /\ \/ /\ pc'[c] = "got" /\ NoReply(c) /\ SameReq(k, l) /\ SameSide(k, l)
            /\ k.again = l.again /\ ~k.ws /\ k.ran = <<>> /\ k.resp = FromOrigin(l.n)
            /\ k.bodies = l.bodies \cup {l.n} /\ k.defers = l.defers
            /\ k.client = l.client
         \/ /\ l.mode = "plain" /\ pc'[c] = "resph" /\ NoReply(c)
            /\ SameReq(k, l) /\ SameSide(k, l) /\ SameBodies(k, l)
            /\ k.again /\ ~k.ws /\ k.hix = 1 /\ k.ran = <<>> /\ k.resp = NoResp
            /\ k.client = l.client
         \/ l.mode = "mitm" /\ Leaves(c) /\ NoReply(c)
         \/ l.mode = "httpmitm" /\ Leaves(c) /\ Replied(c, "error")

(* A round trip. *)
LEMMA RoundTripDoes ==
  ASSUME TypeOK, HistOK, NEW c \in Clients, RoundTrip(c)
  PROVE  RoundTripEffect(c) /\ Alone(c)
<1> DEFINE l == [loc[c] EXCEPT !.hix = 1, !.ran = <<>>, !.ws = FALSE]
           n == loc[c].n
           good == [l EXCEPT !.resp = FromOrigin(n), !.bodies = @ \cup {n}]
           bad == [l EXCEPT !.resp = NoResp, !.again = TRUE]
<1>1. pc[c] = "roundtrip" /\ up' = up /\ canned' = canned
  BY DEF RoundTrip
<1>2. /\ l \in Locals /\ SameReq(l, loc[c]) /\ SameSide(l, loc[c])
      /\ SameBodies(l, loc[c]) /\ l.hix = 1 /\ l.ran = <<>>
      /\ l.again = loc[c].again /\ l.client = loc[c].client
  BY LocTypes, Values DEF Locals, SameReq, SameSide, SameBodies
<1>3. ~l.ws
  BY LocTypes, Zenon DEF Locals
<1>4. \E ok \in BOOLEAN : Send(c, loc[c].req, "proxy", ok)
  BY Values DEF RoundTrip
<1>5. /\ Sent(c, loc[c].req.n, "proxy") /\ sent' \in [Clients -> Seq(Sendings)]
      /\ \A d \in Clients \ {c} : sent'[d] = sent[d]
  <2>1. "proxy" \in Vias
    BY DEF Vias
  <2> QED
    BY <1>4, <2>1, LocTypes, SendDoes
<1>6. \/ Goto(c, "got", good) /\ replies' = replies
      \/ loc[c].mode = "plain" /\ Goto(c, "resph", bad) /\ replies' = replies
      \/ loc[c].mode = "mitm" /\ Return(c) /\ replies' = replies
      \/ loc[c].mode = "httpmitm" /\ HttpError(c)
  <2>1. l.mode = loc[c].mode
    BY <1>2 DEF SameSide
  <2> HIDE DEF good, bad
  <2> QED
    BY <2>1 DEF RoundTrip, good, bad
<1> HIDE DEF l
<1>7. /\ good.resp = FromOrigin(n) /\ good.bodies = l.bodies \cup {n}
      /\ good.defers = l.defers /\ SameReq(good, l) /\ SameSide(good, l)
      /\ good.again = l.again /\ good.ws = l.ws /\ good.ran = l.ran
      /\ good.client = l.client
  BY <1>2 DEF Locals, SameReq, SameSide
<1>8. /\ bad.resp = NoResp /\ SameBodies(bad, l) /\ SameReq(bad, l)
      /\ SameSide(bad, l) /\ bad.ws = l.ws /\ bad.ran = l.ran /\ bad.hix = l.hix
      /\ bad.client = l.client
  BY <1>2 DEF Locals, SameReq, SameSide, SameBodies
<1>9. bad.again
  BY <1>2, Zenon DEF Locals
<1> HIDE DEF good, bad
<1>10. CASE Goto(c, "got", good) /\ replies' = replies
  <2>1. /\ pc'[c] = "got" /\ loc'[c] = good
        /\ \A d \in Clients \ {c} : pc'[d] = pc[d] /\ loc'[d] = loc[d]
    BY <1>10, Moves
  <2>2. Alone(c)
    BY <1>1, <1>5, <1>10, <2>1, AloneWith
  <2> QED
    BY <1>1, <1>2, <1>3, <1>5, <1>7, <1>10, <2>1, <2>2
    DEF RoundTripEffect, NoReply, SameReq, SameSide, SameBodies
<1>11. CASE loc[c].mode = "plain" /\ Goto(c, "resph", bad) /\ replies' = replies
  <2>1. /\ pc'[c] = "resph" /\ loc'[c] = bad
        /\ \A d \in Clients \ {c} : pc'[d] = pc[d] /\ loc'[d] = loc[d]
    BY <1>11, Moves
  <2>2. Alone(c)
    BY <1>1, <1>5, <1>11, <2>1, AloneWith
  <2> QED
    BY <1>1, <1>2, <1>3, <1>5, <1>8, <1>9, <1>11, <2>1, <2>2
    DEF RoundTripEffect, NoReply, SameReq, SameSide, SameBodies
<1>12. CASE loc[c].mode = "mitm" /\ Return(c) /\ replies' = replies
  <2>1. Alone(c)
    BY <1>1, <1>5, <1>12, ReturnDoes, AloneWith
  <2> QED
    BY <1>1, <1>5, <1>12, <2>1, ReturnDoes DEF RoundTripEffect, NoReply
<1>13. CASE loc[c].mode = "httpmitm" /\ HttpError(c)
  <2>1. Alone(c)
    BY <1>1, <1>5, <1>13, HttpErrorDoes, AloneWith
  <2> QED
    BY <1>1, <1>5, <1>13, <2>1, HttpErrorDoes DEF RoundTripEffect
<1> QED
  BY <1>6, <1>10, <1>11, <1>12, <1>13

GotEffect(c) ==
  LET l == loc[c]
      k == loc'[c]
  IN  /\ pc[c] = "got" /\ up' = up /\ NoReply(c) /\ NoSend(c)
      /\ \/ l.mode = "plain" /\ l.resp.made = "empty" /\ Leaves(c)
         \/ /\ pc'[c] = "resph" /\ SameReq(k, l) /\ SameSide(k, l)
            /\ k.resp = l.resp /\ k.ran = l.ran /\ k.again = l.again /\ k.ws = l.ws
            /\ k.hix = 1 /\ k.bodies = l.bodies /\ k.client = l.client
            /\ k.defers = IF \/ l.mode = "plain"
                             \/ l.mode = "httpmitm" /\ l.n \notin canned[c]
                          THEN l.defers \cup ({l.resp.body} \ {0}) ELSE l.defers

(* The code between having a response and filtering it. *)
LEMMA GotDoes ==
  ASSUME TypeOK, HistOK, NEW c \in Clients, Got(c)
  PROVE  GotEffect(c) /\ Alone(c)
<1> DEFINE l == [loc[c] EXCEPT !.hix = 1]
           d == [l EXCEPT !.defers = @ \cup ({l.resp.body} \ {0})]
           defer == \/ loc[c].mode = "plain"
                    \/ loc[c].mode = "httpmitm" /\ loc[c].n \notin canned[c]
<1>1. pc[c] = "got" /\ canned' = canned /\ sent' = sent /\ replies' = replies
  BY DEF Got, hist
<1>2. /\ l \in Locals /\ SameReq(l, loc[c]) /\ SameSide(l, loc[c])
      /\ SameBodies(l, loc[c]) /\ l.hix = 1 /\ l.ran = loc[c].ran
      /\ l.resp = loc[c].resp /\ l.ws = loc[c].ws
      /\ l.again = loc[c].again /\ l.client = loc[c].client
  BY LocTypes DEF Locals, SameReq, SameSide, SameBodies
<1>3. \/ loc[c].mode = "plain" /\ loc[c].resp.made = "empty" /\ Panic(c)
      \/ Goto(c, "resph", d) /\ defer /\ up' = up
      \/ Goto(c, "resph", l) /\ ~defer /\ up' = up
  <2>1. l.mode = loc[c].mode /\ l.n = loc[c].n /\ l.resp = loc[c].resp
    BY <1>2 DEF SameSide, SameReq
  <2> QED
    BY <2>1 DEF Got
<1> HIDE DEF l, defer
<1>4. /\ SameReq(d, l) /\ SameSide(d, l) /\ d.hix = 1 /\ d.ran = l.ran
      /\ d.resp = l.resp /\ d.ws = l.ws /\ d.again = l.again
      /\ d.client = l.client /\ d.bodies = l.bodies
      /\ d.defers = l.defers \cup ({l.resp.body} \ {0})
  BY <1>2 DEF Locals, SameReq, SameSide
<1> HIDE DEF d
<1>5. CASE loc[c].mode = "plain" /\ loc[c].resp.made = "empty" /\ Panic(c)
  <2>1. Panics(c) /\ \A e \in Clients \ {c} : pc'[e] = pc[e] /\ loc'[e] = loc[e]
    BY <1>5, PanicDoes
  <2>2. Leaves(c) /\ up' = up
    BY <1>5, <2>1 DEF Panics, Crashes
  <2>3. Alone(c)
    BY <1>1, <2>1, AloneWith
  <2> QED
    BY <1>1, <1>5, <2>2, <2>3 DEF GotEffect, NoReply, NoSend
<1>6. ASSUME NEW k, Goto(c, "resph", k), up' = up,
             SameReq(k, l), SameSide(k, l), k.hix = 1, k.ran = l.ran,
             k.resp = l.resp, k.ws = l.ws, k.again = l.again,
             k.client = l.client, k.bodies = l.bodies,
             k.defers = IF defer THEN l.defers \cup ({l.resp.body} \ {0})
                        ELSE l.defers
      PROVE  GotEffect(c) /\ Alone(c)
  <2>1. /\ pc'[c] = "resph" /\ loc'[c] = k
        /\ \A e \in Clients \ {c} : pc'[e] = pc[e] /\ loc'[e] = loc[e]
    BY <1>6, Moves
  <2>2. Alone(c)
    BY <1>1, <2>1, AloneWith
  <2>3. /\ SameReq(k, loc[c]) /\ SameSide(k, loc[c]) /\ k.bodies = loc[c].bodies
        /\ k.defers = IF defer THEN loc[c].defers \cup ({loc[c].resp.body} \ {0})
                      ELSE loc[c].defers
    BY <1>2, <1>6 DEF SameReq, SameSide, SameBodies
  <2> QED
    BY <1>1, <1>2, <1>6, <2>1, <2>2, <2>3 DEF GotEffect, NoReply, NoSend, defer
<1>7. CASE Goto(c, "resph", d) /\ defer /\ up' = up
  BY <1>4, <1>2, <1>6, <1>7
<1>8. CASE Goto(c, "resph", l) /\ ~defer /\ up' = up
  BY <1>2, <1>6, <1>8 DEF SameReq, SameSide
<1> QED
  BY <1>3, <1>5, <1>7, <1>8

(* A response handler that may return nil. *)
Dropping == \E i \in DOMAIN RespHandlers : RespHandlers[i].does = "drop"

FilterRespEffect(c) ==
  LET l == loc[c]
      k == loc'[c]
  IN  /\ pc[c] = "resph" /\ l.hix \in 1..Len(RespHandlers)
      /\ NoReply(c) /\ NoSend(c)
      /\ \/ Panics(c) /\ (IsNil(l.resp) \/ l.resp.made # "full" \/ Blind(c))
         \/ /\ pc'[c] = "resph" /\ up' = up /\ SameReq(k, l) /\ SameSide(k, l)
            /\ k.again = l.again /\ k.ws = l.ws /\ k.hix = l.hix + 1
            /\ k.ran = Append(l.ran, l.hix) /\ k.defers = l.defers
            /\ k.client = l.client
            /\ \/ k.resp = l.resp /\ k.bodies = l.bodies
               \/ /\ k.resp = Response(l.n, "filter", "full", 0)
                  /\ k.bodies = l.bodies /\ Replacing
               \/ k.resp = NoResp /\ k.bodies = l.bodies /\ Replacing /\ Dropping
               \/ /\ k.resp = [l.resp EXCEPT !.body = 0]
                  /\ \/ k.bodies = l.bodies /\ Replacing
                     \/ k.bodies = l.bodies \ {l.resp.body}

(* A response handler. *)
LEMMA FilterResponseDoes ==
  ASSUME TypeOK, HistOK, NEW c \in Clients, FilterResponse(c)
  PROVE  FilterRespEffect(c) /\ Alone(c)
<1> DEFINE i == loc[c].hix
           rs == loc[c].resp
           bs(new) == IF RespHandlers[i].does = "bytes" /\ new # rs
                      THEN loc[c].bodies \ {rs.body} ELSE loc[c].bodies
           l(new) == [loc[c] EXCEPT
                        !.resp = new, !.hix = @ + 1, !.ran = Append(@, i),
                        !.bodies = IF RespHandlers[i].does = "bytes" /\ new # rs
                                   THEN @ \ {rs.body} ELSE @]
<1>1. pc[c] = "resph" /\ canned' = canned /\ sent' = sent /\ replies' = replies
  BY DEF FilterResponse
<1>2. /\ i \in 1..Len(RespHandlers) /\ i \in DOMAIN RespHandlers
      /\ RespHandlers[i].does \in RespDeeds
  <2>1. IndexInRange(pc[c], i) /\ i <= Len(RespHandlers) /\ pc[c] = "resph"
    BY DEF FilterResponse, TypeOK
  <2>2. i \in 1..Len(RespHandlers)
    BY <2>1, Chains DEF IndexInRange
  <2> HIDE DEF i
  <2> QED
    BY <2>2, Chains
<1>3. CASE RespPanics(c, i, rs) \/ MissesURL(c, RespHandlers[i])
  <2>1. Panics(c) /\ \A e \in Clients \ {c} : pc'[e] = pc[e] /\ loc'[e] = loc[e]
    BY <1>3, PanicDoes DEF FilterResponse
  <2>2. IsNil(rs) \/ rs.made # "full" \/ Blind(c)
    BY <1>2, <1>3 DEF RespPanics, MissesURL, Blind, Looking
  <2>3. Alone(c)
    BY <1>1, <2>1, AloneWith
  <2> QED
    BY <1>1, <1>2, <2>1, <2>2, <2>3 DEF FilterRespEffect, NoReply, NoSend
<1>4. CASE ~(RespPanics(c, i, rs) \/ MissesURL(c, RespHandlers[i]))
  <2>1. PICK new \in HandleResp(c, i, rs) : Goto(c, "resph", l(new)) /\ up' = up
    BY <1>4 DEF FilterResponse
  <2> DEFINE k == l(new)
  <2>2. /\ k.resp = new /\ SameReq(k, loc[c]) /\ SameSide(k, loc[c])
        /\ k.again = loc[c].again /\ k.ws = loc[c].ws /\ k.hix = i + 1
        /\ k.ran = Append(loc[c].ran, i) /\ k.defers = loc[c].defers
        /\ k.client = loc[c].client /\ k.bodies = bs(new)
    BY LocTypes DEF Locals, SameReq, SameSide
  <2>3. \/ new = rs /\ bs(new) = loc[c].bodies
        \/ /\ new = Response(loc[c].n, "filter", "full", 0)
           /\ bs(new) = loc[c].bodies /\ Replacing
        \/ new = NoResp /\ bs(new) = loc[c].bodies /\ Replacing /\ Dropping
        \/ /\ new = [rs EXCEPT !.body = 0]
           /\ \/ bs(new) = loc[c].bodies /\ Replacing
              \/ bs(new) = loc[c].bodies \ {rs.body}
    BY <1>2, <2>1 DEF HandleResp, Replacing, Dropping, RespDeeds
  <2> HIDE DEF k, bs
  <2>4. /\ pc'[c] = "resph" /\ loc'[c] = k
        /\ \A e \in Clients \ {c} : pc'[e] = pc[e] /\ loc'[e] = loc[e]
    BY <2>1, Moves DEF k
  <2>5. Alone(c)
    BY <1>1, <2>4, AloneWith
  <2> QED
    BY <1>1, <1>2, <2>1, <2>2, <2>3, <2>4, <2>5 DEF FilterRespEffect, NoReply, NoSend
<1> QED
  BY <1>3, <1>4

FilteredEffect(c) ==
  LET l == loc[c]
      k == loc'[c]
  IN  /\ pc[c] = "resph" /\ l.hix = Len(RespHandlers) + 1 /\ up' = up
      /\ NoReply(c) /\ NoSend(c)
      /\ pc'[c] = IF l.ws THEN "wsreply" ELSE IF l.again THEN "got" ELSE "reply"
      /\ SameReq(k, l) /\ SameSide(k, l) /\ SameBodies(k, l) /\ k.client = l.client
      /\ k.resp = l.resp /\ k.ran = l.ran /\ ~k.again /\ k.ws = l.ws

(* What follows the response handlers. *)
LEMMA FilteredDoes ==
  ASSUME TypeOK, HistOK, NEW c \in Clients, Filtered(c)
  PROVE  FilteredEffect(c) /\ Alone(c)
<1> DEFINE p == IF loc[c].ws THEN "wsreply"
                ELSE IF loc[c].again THEN "got" ELSE "reply"
           k == [loc[c] EXCEPT !.again = FALSE]
<1>1. /\ pc[c] = "resph" /\ up' = up
      /\ canned' = canned /\ sent' = sent /\ replies' = replies
  BY DEF Filtered, hist
<1>2. loc[c].hix = Len(RespHandlers) + 1
  BY Chains DEF Filtered, TypeOK, IndexInRange
<1>3. /\ SameReq(k, loc[c]) /\ SameSide(k, loc[c]) /\ SameBodies(k, loc[c])
      /\ k.client = loc[c].client /\ k.resp = loc[c].resp /\ k.ran = loc[c].ran
      /\ k.ws = loc[c].ws
  BY LocTypes DEF Locals, SameReq, SameSide, SameBodies
<1>4. ~k.again
  BY LocTypes, Zenon DEF Locals
<1>5. Goto(c, p, k)
  BY DEF Filtered
<1> HIDE DEF k
<1>6. /\ pc'[c] = p /\ loc'[c] = k
      /\ \A e \in Clients \ {c} : pc'[e] = pc[e] /\ loc'[e] = loc[e]
  BY <1>5, Moves
<1>7. Alone(c)
  BY <1>1, <1>6, AloneWith
<1> QED
  BY <1>1, <1>2, <1>3, <1>4, <1>6, <1>7 DEF FilteredEffect, NoReply, NoSend

(* All locals but the client and the bodies are as they were. *)
Same(k, l) == SameReq(k, l) /\ SamePass(k, l) /\ SameSide(k, l)

(* What the client of a connection is sent as a reply. *)
Source(resp) == IF IsNil(resp) THEN "error" ELSE resp.src

(* It is one of the sources a reply may have. *)
LEMMA SourceTypes ==
  ASSUME NEW r \in Responses PROVE Source(r) \in Sources /\ r.src \in Sources
BY DEF Source, Responses, Sources

ReplyPlainEffect(c) ==
  LET l == loc[c]
      k == loc'[c]
  IN  /\ pc[c] = "reply" /\ l.mode = "plain" /\ NoSend(c) /\ up' = up
      /\ \/ Leaves(c) /\ NoReply(c)
         \/ /\ ~l.hijacked /\ Replied(c, Source(l.resp)) /\ pc'[c] = "idle"
            /\ Same(k, l) /\ k.client = l.client
            /\ k.bodies \subseteq l.bodies \ l.defers /\ k.defers = {}

(* The reply of ServeHTTP. *)
LEMMA ReplyPlainDoes ==
  ASSUME TypeOK, HistOK, NEW c \in Clients, ReplyPlain(c)
  PROVE  ReplyPlainEffect(c) /\ Alone(c)
<1> DEFINE shut == [loc[c] EXCEPT !.bodies = @ \ {loc[c].resp.body}]
           k == RunDefers(shut)
           gone == ClientIs(k, "closed")
<1>1. /\ pc[c] = "reply" /\ loc[c].mode = "plain"
      /\ canned' = canned /\ sent' = sent
  BY DEF ReplyPlain
<1>2. /\ shut \in Locals /\ Same(shut, loc[c]) /\ shut.client = loc[c].client
      /\ shut.bodies = loc[c].bodies \ {loc[c].resp.body}
      /\ shut.defers = loc[c].defers
  <2>1. loc[c].bodies \ {loc[c].resp.body} \in SUBSET Nat
    BY LocTypes
  <2> QED
    BY <2>1, LocTypes DEF Locals, Same, SameReq, SamePass, SameSide
<1>3. \/ Panic(c) /\ replies' = replies
      \/ /\ up' = up /\ ~k.hijacked /\ Goto(c, "idle", k)
         /\ Reply(c, IF IsNil(k.resp) THEN "error" ELSE k.resp.src)
      \/ up' = up /\ replies' = replies /\ Goto(c, "done", gone)
      \/ up' = up /\ replies' = replies /\ Goto(c, "done", k)
  BY DEF ReplyPlain
<1> HIDE DEF shut
<1>4. /\ k \in Locals /\ Same(k, loc[c]) /\ k.client = loc[c].client
      /\ k.bodies \subseteq loc[c].bodies \ loc[c].defers /\ k.defers = {}
  BY <1>2, Updates DEF Same, SameReq, SamePass, SameSide
<1> HIDE DEF k
<1>5. /\ Same(gone, loc[c]) /\ gone.client = "closed"
      /\ gone.bodies \subseteq loc[c].bodies \ loc[c].defers /\ gone.defers = {}
  BY <1>4, Updates DEF Same, SameReq, SamePass, SameSide, SameBodies
<1> HIDE DEF gone
<1>6. CASE Panic(c) /\ replies' = replies
  <2>1. Panics(c) /\ \A e \in Clients \ {c} : pc'[e] = pc[e] /\ loc'[e] = loc[e]
    BY <1>6, PanicDoes
  <2>2. Leaves(c) /\ up' = up
    BY <1>1, <2>1 DEF Panics, Crashes
  <2>3. Alone(c)
    BY <1>1, <1>6, <2>1, AloneWith
  <2> QED
    BY <1>1, <1>6, <2>2, <2>3 DEF ReplyPlainEffect, NoReply, NoSend
<1>7. CASE /\ up' = up /\ ~k.hijacked /\ Goto(c, "idle", k)
           /\ Reply(c, IF IsNil(k.resp) THEN "error" ELSE k.resp.src)
  <2>1. /\ pc'[c] = "idle" /\ loc'[c] = k
        /\ \A e \in Clients \ {c} : pc'[e] = pc[e] /\ loc'[e] = loc[e]
    BY <1>7, Moves
  <2>2. k.resp = loc[c].resp /\ k.hijacked = loc[c].hijacked
    BY <1>4 DEF Same, SamePass, SameSide
  <2>3. Source(loc[c].resp) \in Sources /\ Reply(c, Source(loc[c].resp))
    BY <1>7, <2>2, LocTypes, SourceTypes DEF Source
  <2>4. /\ Replied(c, Source(loc[c].resp)) /\ replies' \in [Clients -> Seq(Replies)]
        /\ \A d \in Clients \ {c} : replies'[d] = replies[d]
    BY <2>3, ReplyDoes
  <2>5. Alone(c)
    BY <1>1, <2>1, <2>4, AloneWith
  <2> QED
    BY <1>1, <1>4, <1>7, <2>1, <2>2, <2>4, <2>5 DEF ReplyPlainEffect, NoSend
<1>8. CASE /\ up' = up /\ replies' = replies
           /\ Goto(c, "done", gone) \/ Goto(c, "done", k)
  <2>1. /\ pc'[c] = "done" /\ loc'[c] \in {gone, k}
        /\ \A e \in Clients \ {c} : pc'[e] = pc[e] /\ loc'[e] = loc[e]
    BY <1>8, Moves
  <2>2. Leaves(c)
    BY <1>1, <1>4, <1>5, <2>1 DEF Leaves, Same
  <2>3. Alone(c)
    BY <1>1, <1>8, <2>1, AloneWith
  <2> QED
    BY <1>1, <1>8, <2>2, <2>3 DEF ReplyPlainEffect, NoReply, NoSend
<1> QED
  BY <1>3, <1>6, <1>7, <1>8

ReplyMitmEffect(c) ==
  LET l == loc[c]
      k == loc'[c]
      defers == l.defers \cup ({l.resp.body} \ {0})
  IN  /\ pc[c] = "reply" /\ l.mode = "mitm" /\ NoSend(c)
      /\ \/ Panics(c) /\ NoReply(c) /\ (IsNil(l.resp) \/ l.resp.made # "full")
         \/ /\ up' = up /\ Replied(c, l.resp.src) /\ pc'[c] = "mread"
            /\ Same(k, l) /\ k.client = l.client
            /\ k.bodies = l.bodies /\ k.defers = defers
         \/ /\ up' = up
            /\ NoReply(c) \/ Replied(c, "cut")
            /\ Leaves(c) /\ k.bodies = l.bodies \ defers

(* The reply of the TLS loop. *)
LEMMA ReplyMitmDoes ==
  ASSUME TypeOK, HistOK, NEW c \in Clients, ReplyMitm(c)
  PROVE  ReplyMitmEffect(c) /\ Alone(c)
<1> DEFINE keep == [loc[c] EXCEPT !.defers = @ \cup ({loc[c].resp.body} \ {0})]
           gone == ClientIs(keep, "closed")
           k == RunDefers(gone)
<1>1. /\ pc[c] = "reply" /\ loc[c].mode = "mitm"
      /\ canned' = canned /\ sent' = sent
  BY DEF ReplyMitm
<1>2. /\ keep \in Locals /\ Same(keep, loc[c]) /\ keep.client = loc[c].client
      /\ keep.bodies = loc[c].bodies
      /\ keep.defers = loc[c].defers \cup ({loc[c].resp.body} \ {0})
  <2>1. loc[c].defers \cup ({loc[c].resp.body} \ {0}) \in SUBSET Nat
    BY LocTypes
  <2> QED
    BY <2>1, LocTypes DEF Locals, Same, SameReq, SamePass, SameSide
<1>3. \/ /\ Panic(c) /\ replies' = replies
         /\ IsNil(keep.resp) \/ keep.resp.made # "full"
      \/ up' = up /\ Reply(c, keep.resp.src) /\ Goto(c, "mread", keep)
      \/ /\ up' = up /\ Goto(c, "done", k)
         /\ Reply(c, "cut") \/ replies' = replies
  BY DEF ReplyMitm
<1> HIDE DEF keep
<1>4. /\ gone \in Locals /\ Same(gone, keep) /\ SameBodies(gone, keep)
      /\ gone.client = "closed"
  BY <1>2, Updates DEF Same
<1> HIDE DEF gone
<1>5. /\ Same(k, gone) /\ k.client = gone.client
      /\ k.bodies = gone.bodies \ gone.defers /\ k.defers = {}
  BY <1>4, Updates DEF Same
<1> HIDE DEF k
<1>6. keep.resp = loc[c].resp
  BY <1>2 DEF Same, SamePass
<1>7. CASE /\ Panic(c) /\ replies' = replies
           /\ IsNil(keep.resp) \/ keep.resp.made # "full"
  <2>1. Panics(c) /\ \A e \in Clients \ {c} : pc'[e] = pc[e] /\ loc'[e] = loc[e]
    BY <1>7, PanicDoes
  <2>2. Alone(c)
    BY <1>1, <1>7, <2>1, AloneWith
  <2> QED
    BY <1>1, <1>6, <1>7, <2>1, <2>2 DEF ReplyMitmEffect, NoReply, NoSend
<1>8. CASE up' = up /\ Reply(c, keep.resp.src) /\ Goto(c, "mread", keep)
  <2>1. /\ pc'[c] = "mread" /\ loc'[c] = keep
        /\ \A e \in Clients \ {c} : pc'[e] = pc[e] /\ loc'[e] = loc[e]
    BY <1>8, Moves
  <2>2. /\ Replied(c, loc[c].resp.src) /\ replies' \in [Clients -> Seq(Replies)]
        /\ \A d \in Clients \ {c} : replies'[d] = replies[d]
    BY <1>6, <1>8, LocTypes, SourceTypes, ReplyDoes
  <2>3. Alone(c)
    BY <1>1, <2>1, <2>2, AloneWith
  <2> QED
    BY <1>1, <1>2, <1>8, <2>1, <2>2, <2>3 DEF ReplyMitmEffect, NoSend
<1>9. CASE /\ up' = up /\ Goto(c, "done", k)
           /\ Reply(c, "cut") \/ replies' = replies
  <2>1. /\ pc'[c] = "done" /\ loc'[c] = k
        /\ \A e \in Clients \ {c} : pc'[e] = pc[e] /\ loc'[e] = loc[e]
    BY <1>9, Moves
  <2>2. Same(k, loc[c])
    BY <1>2, <1>4, <1>5 DEF Same, SameReq, SamePass, SameSide
  <2>3. k.bodies = loc[c].bodies \ (loc[c].defers \cup ({loc[c].resp.body} \ {0}))
    BY <1>2, <1>4, <1>5 DEF SameBodies
  <2>4. k.defers = {} /\ k.client = "closed"
    BY <1>4, <1>5
  <2>5. Leaves(c)
    BY <2>1, <2>2, <2>3, <2>4 DEF Leaves, Same
  <2>6. \/ replies' = replies
        \/ /\ Replied(c, "cut") /\ replies' \in [Clients -> Seq(Replies)]
           /\ \A d \in Clients \ {c} : replies'[d] = replies[d]
    <3>1. "cut" \in Sources
      BY DEF Sources
    <3> QED
      BY <1>9, <3>1, ReplyDoes
  <2>7. Alone(c)
    BY <1>1, <2>1, <2>6, AloneWith
  <2> QED
    BY <1>1, <1>9, <2>1, <2>3, <2>5, <2>6, <2>7 DEF ReplyMitmEffect, NoReply, NoSend
<1> QED
  BY <1>3, <1>7, <1>8, <1>9

ReplyHTTPEffect(c) ==
  LET l == loc[c]
      k == loc'[c]
  IN  /\ pc[c] = "reply" /\ l.mode = "httpmitm" /\ NoSend(c) /\ up' = up
      /\ \/ Leaves(c) /\ NoReply(c)
         \/ /\ Replied(c, l.resp.src) /\ pc'[c] = "mread"
            /\ Same(k, l) /\ k.client = l.client
            /\ k.bodies = l.bodies \ {l.resp.body} /\ k.defers = l.defers
         \/ Leaves(c) /\ Replied(c, "error")
         \/ pc'[c] = "broken" /\ k = l /\ Replied(c, "cut")

(* The reply of the plain HTTP loop, *)
LEMMA ReplyHTTPMitmDoes ==
  ASSUME TypeOK, HistOK, NEW c \in Clients, ReplyHTTPMitm(c)
  PROVE  ReplyHTTPEffect(c) /\ Alone(c)
<1> DEFINE shut == [loc[c] EXCEPT !.bodies = @ \ {loc[c].resp.body}]
<1>1. /\ pc[c] = "reply" /\ loc[c].mode = "httpmitm"
      /\ canned' = canned /\ sent' = sent
  BY DEF ReplyHTTPMitm
<1>2. /\ Same(shut, loc[c]) /\ shut.client = loc[c].client
      /\ shut.bodies = loc[c].bodies \ {loc[c].resp.body}
      /\ shut.defers = loc[c].defers
  BY LocTypes DEF Locals, Same, SameReq, SamePass, SameSide
<1>3. \/ Panic(c) /\ replies' = replies
      \/ up' = up /\ Reply(c, loc[c].resp.src) /\ Goto(c, "mread", shut)
      \/ up' = up /\ HttpError(c)
      \/ up' = up /\ Reply(c, "cut") /\ Goto(c, "broken", loc[c])
  BY DEF ReplyHTTPMitm
<1> HIDE DEF shut
<1>4. CASE Panic(c) /\ replies' = replies
  <2>1. Panics(c) /\ \A e \in Clients \ {c} : pc'[e] = pc[e] /\ loc'[e] = loc[e]
    BY <1>4, PanicDoes
  <2>2. Leaves(c) /\ up' = up
    BY <1>1, <2>1 DEF Panics, Crashes
  <2>3. Alone(c)
    BY <1>1, <1>4, <2>1, AloneWith
  <2> QED
    BY <1>1, <1>4, <2>2, <2>3 DEF ReplyHTTPEffect, NoReply, NoSend
<1>5. CASE up' = up /\ Reply(c, loc[c].resp.src) /\ Goto(c, "mread", shut)
  <2>1. /\ pc'[c] = "mread" /\ loc'[c] = shut
        /\ \A e \in Clients \ {c} : pc'[e] = pc[e] /\ loc'[e] = loc[e]
    BY <1>5, Moves
  <2>2. /\ Replied(c, loc[c].resp.src) /\ replies' \in [Clients -> Seq(Replies)]
        /\ \A d \in Clients \ {c} : replies'[d] = replies[d]
    BY <1>5, LocTypes, SourceTypes, ReplyDoes
  <2>3. Alone(c)
    BY <1>1, <2>1, <2>2, AloneWith
  <2> QED
    BY <1>1, <1>2, <1>5, <2>1, <2>2, <2>3 DEF ReplyHTTPEffect, NoSend
<1>6. CASE up' = up /\ HttpError(c)
  <2>1. Alone(c)
    BY <1>1, <1>6, HttpErrorDoes, AloneWith
  <2> QED
    BY <1>1, <1>6, <2>1, HttpErrorDoes DEF ReplyHTTPEffect, NoSend
<1>7. CASE up' = up /\ Reply(c, "cut") /\ Goto(c, "broken", loc[c])
  <2>1. /\ pc'[c] = "broken" /\ loc'[c] = loc[c]
        /\ \A e \in Clients \ {c} : pc'[e] = pc[e] /\ loc'[e] = loc[e]
    BY <1>7, Moves
  <2>2. "cut" \in Sources
    BY DEF Sources
  <2>3. /\ Replied(c, "cut") /\ replies' \in [Clients -> Seq(Replies)]
        /\ \A d \in Clients \ {c} : replies'[d] = replies[d]
    BY <1>7, <2>2, ReplyDoes
  <2>4. Alone(c)
    BY <1>1, <2>1, <2>3, AloneWith
  <2> QED
    BY <1>1, <1>7, <2>1, <2>3, <2>4 DEF ReplyHTTPEffect, NoSend
<1> QED
  BY <1>3, <1>4, <1>5, <1>6, <1>7

BrokenEffect(c) ==
  /\ pc[c] = "broken" /\ NoSend(c) /\ up' = up /\ Leaves(c) /\ Replied(c, "error")

(* and what it writes behind one that broke off. *)
LEMMA BrokenDoes ==
  ASSUME TypeOK, HistOK, NEW c \in Clients, Broken(c)
  PROVE  BrokenEffect(c) /\ Alone(c)
<1>1. /\ pc[c] = "broken" /\ HttpError(c) /\ up' = up
      /\ canned' = canned /\ sent' = sent
  BY DEF Broken
<1>2. Alone(c)
  BY <1>1, HttpErrorDoes, AloneWith
<1> QED
  BY <1>1, <1>2, HttpErrorDoes DEF BrokenEffect, NoSend

(* After a websocket ServeHTTP goes on to the round trip, the TLS loop     *)
(* returns.                                                                *)
AfterEffect(c) ==
  LET l == loc[c]
      k == loc'[c]
  IN  \/ /\ l.mode = "plain" /\ pc'[c] = "roundtrip"
         /\ SameReq(k, l) /\ SamePass(k, l) /\ k.mode = l.mode /\ k.todo = l.todo
         /\ k.hijacked \/ k.hijacked = l.hijacked
         /\ SameBodies(k, l) /\ k.client = l.client
      \/ l.mode # "plain" /\ Leaves(c)

(* AfterWebsocket, with its locals hijacked or not. *)
LEMMA AfterDoes ==
  ASSUME TypeOK, NEW c \in Clients, NEW l, l \in {loc[c], Hijack(loc[c])},
         AfterWebsocket(c, l)
  PROVE  /\ AfterEffect(c)
         /\ \A d \in Clients \ {c} : pc'[d] = pc[d] /\ loc'[d] = loc[d]
<1>1. /\ SameReq(l, loc[c]) /\ SamePass(l, loc[c]) /\ l.mode = loc[c].mode
      /\ l.todo = loc[c].todo
      /\ l.hijacked \/ l.hijacked = loc[c].hijacked
      /\ SameBodies(l, loc[c]) /\ l.client = loc[c].client
  BY LocTypes, Updates DEF SameReq, SamePass, SameBodies
<1>2. \/ loc[c].mode = "plain" /\ Goto(c, "roundtrip", l)
      \/ loc[c].mode # "plain" /\ Return(c)
  BY <1>1 DEF AfterWebsocket
<1>3. CASE loc[c].mode = "plain" /\ Goto(c, "roundtrip", l)
  <2>1. /\ pc'[c] = "roundtrip" /\ loc'[c] = l
        /\ \A e \in Clients \ {c} : pc'[e] = pc[e] /\ loc'[e] = loc[e]
    BY <1>3, Moves
  <2> QED
    BY <1>1, <1>3, <2>1 DEF AfterEffect
<1> QED
  BY <1>2, <1>3, ReturnDoes DEF AfterEffect

ServeWSEffect(c) ==
  LET l == loc[c]
      k == loc'[c]
  IN  /\ pc[c] = "ws" /\ up' = up /\ NoReply(c) /\ canned'[c] = canned[c]
      /\ sent'[c] = sent[c] \/ Sent(c, l.req.n, "websocket")
      /\ \/ AfterEffect(c)
         \/ /\ pc'[c] = "resph" /\ SameReq(k, l) /\ k.mode = l.mode
            /\ k.todo = l.todo /\ k.hijacked /\ k.ws /\ k.again = l.again
            /\ k.hix = 1 /\ k.ran = <<>>
            /\ k.resp = Response(l.n, "origin", "full", 0)
            /\ SameBodies(k, l) /\ k.client = l.client

(* The websocket handshake with the origin. *)
LEMMA ServeWebsocketDoes ==
  ASSUME TypeOK, HistOK, NEW c \in Clients, ServeWebsocket(c)
  PROVE  ServeWSEffect(c) /\ Alone(c)
<1> DEFINE l == Hijack(loc[c])
           k == [l EXCEPT !.resp = Response(l.n, "origin", "full", 0),
                          !.ws = TRUE, !.hix = 1, !.ran = <<>>]
<1>1. pc[c] = "ws" /\ up' = up /\ canned' = canned /\ replies' = replies
  BY DEF ServeWebsocket
<1>2. /\ l \in Locals /\ SameReq(l, loc[c]) /\ SamePass(l, loc[c])
      /\ l.mode = loc[c].mode /\ l.todo = loc[c].todo /\ l.hijacked
      /\ SameBodies(l, loc[c]) /\ l.client = loc[c].client
  BY LocTypes, Updates
<1>3. /\ \/ AfterWebsocket(c, loc[c]) \/ AfterWebsocket(c, l)
         \/ Goto(c, "resph", k)
      /\ sent' = sent \/ \E ok \in BOOLEAN : Send(c, l.req, "websocket", ok)
  BY Values DEF ServeWebsocket
<1> HIDE DEF l
<1>4. /\ k.resp = Response(l.n, "origin", "full", 0) /\ k.hix = 1 /\ k.ran = <<>>
      /\ SameReq(k, l) /\ k.mode = l.mode /\ k.todo = l.todo
      /\ k.hijacked = l.hijacked /\ k.again = l.again
      /\ SameBodies(k, l) /\ k.client = l.client
  BY <1>2 DEF Locals, SameReq, SameBodies
<1>5. k.ws
  BY <1>2, Zenon DEF Locals
<1> HIDE DEF k
<1>6. \/ sent' = sent
      \/ /\ Sent(c, loc[c].req.n, "websocket") /\ sent' \in [Clients -> Seq(Sendings)]
         /\ \A d \in Clients \ {c} : sent'[d] = sent[d]
  <2>1. "websocket" \in Vias /\ l.req = loc[c].req
    BY <1>2 DEF Vias, SameReq
  <2> QED
    BY <1>3, <2>1, LocTypes, SendDoes
<1>7. CASE AfterWebsocket(c, loc[c]) \/ AfterWebsocket(c, l)
  <2>1. /\ AfterEffect(c)
        /\ \A d \in Clients \ {c} : pc'[d] = pc[d] /\ loc'[d] = loc[d]
    BY <1>7, AfterDoes DEF l
  <2>2. Alone(c)
    BY <1>1, <1>6, <2>1, AloneWith
  <2> QED
    BY <1>1, <1>6, <2>1, <2>2 DEF ServeWSEffect, NoReply
<1>8. CASE Goto(c, "resph", k)
  <2>1. /\ pc'[c] = "resph" /\ loc'[c] = k
        /\ \A d \in Clients \ {c} : pc'[d] = pc[d] /\ loc'[d] = loc[d]
    BY <1>8, Moves
  <2>2. Alone(c)
    BY <1>1, <1>6, <2>1, AloneWith
  <2>3. /\ SameReq(k, loc[c]) /\ SameBodies(k, loc[c]) /\ k.again = loc[c].again
        /\ k.resp = Response(loc[c].n, "origin", "full", 0)
    BY <1>2, <1>4 DEF SameReq, SameBodies, SamePass
  <2> QED
    BY <1>1, <1>2, <1>4, <1>5, <1>6, <2>1, <2>2, <2>3 DEF ServeWSEffect, NoReply
<1> QED
  BY <1>3, <1>7, <1>8

ReplyWSEffect(c) ==
  LET l == loc[c]
  IN  /\ pc[c] = "wsreply" /\ NoSend(c)
      /\ \/ Panics(c) /\ NoReply(c) /\ IsNil(l.resp)
         \/ /\ up' = up /\ Replied(c, l.resp.src) /\ pc'[c] = "relay" /\ loc'[c] = l
         \/ up' = up /\ NoReply(c) /\ AfterEffect(c)

(* The websocket handshake's reply. *)
LEMMA ReplyWebsocketDoes ==
  ASSUME TypeOK, HistOK, NEW c \in Clients, ReplyWebsocket(c)
  PROVE  ReplyWSEffect(c) /\ Alone(c)
<1>1. pc[c] = "wsreply" /\ canned' = canned /\ sent' = sent
  BY DEF ReplyWebsocket
<1>2. \/ Panic(c) /\ replies' = replies /\ IsNil(loc[c].resp)
      \/ up' = up /\ Reply(c, loc[c].resp.src) /\ Goto(c, "relay", loc[c])
      \/ up' = up /\ replies' = replies /\ AfterWebsocket(c, loc[c])
  BY DEF ReplyWebsocket
<1>3. CASE Panic(c) /\ replies' = replies /\ IsNil(loc[c].resp)
  <2>1. Panics(c) /\ \A e \in Clients \ {c} : pc'[e] = pc[e] /\ loc'[e] = loc[e]
    BY <1>3, PanicDoes
  <2>2. Alone(c)
    BY <1>1, <1>3, <2>1, AloneWith
  <2> QED
    BY <1>1, <1>3, <2>1, <2>2 DEF ReplyWSEffect, NoReply, NoSend
<1>4. CASE up' = up /\ Reply(c, loc[c].resp.src) /\ Goto(c, "relay", loc[c])
  <2>1. /\ pc'[c] = "relay" /\ loc'[c] = loc[c]
        /\ \A e \in Clients \ {c} : pc'[e] = pc[e] /\ loc'[e] = loc[e]
    BY <1>4, Moves
  <2>2. /\ Replied(c, loc[c].resp.src) /\ replies' \in [Clients -> Seq(Replies)]
        /\ \A d \in Clients \ {c} : replies'[d] = replies[d]
    BY <1>4, LocTypes, SourceTypes, ReplyDoes
  <2>3. Alone(c)
    BY <1>1, <2>1, <2>2, AloneWith
  <2> QED
    BY <1>1, <1>4, <2>1, <2>2, <2>3 DEF ReplyWSEffect, NoSend
<1>5. CASE up' = up /\ replies' = replies /\ AfterWebsocket(c, loc[c])
  <2>1. /\ AfterEffect(c)
        /\ \A d \in Clients \ {c} : pc'[d] = pc[d] /\ loc'[d] = loc[d]
    BY <1>5, AfterDoes
  <2>2. Alone(c)
    BY <1>1, <1>5, <2>1, AloneWith
  <2> QED
    BY <1>1, <1>5, <2>1, <2>2 DEF ReplyWSEffect, NoReply, NoSend
<1> QED
  BY <1>2, <1>3, <1>4, <1>5

RelayEffect(c) ==
  pc[c] = "relay" /\ up' = up /\ NoReply(c) /\ NoSend(c) /\ AfterEffect(c)

(* The relay ends. *)
LEMMA RelayEndsDoes ==
  ASSUME TypeOK, HistOK, NEW c \in Clients, RelayEnds(c)
  PROVE  RelayEffect(c) /\ Alone(c)
<1>1. /\ pc[c] = "relay" /\ up' = up /\ canned' = canned /\ sent' = sent
      /\ replies' = replies /\ AfterWebsocket(c, loc[c])
  BY DEF RelayEnds, hist
<1>2. /\ AfterEffect(c)
      /\ \A d \in Clients \ {c} : pc'[d] = pc[d] /\ loc'[d] = loc[d]
  BY <1>1, AfterDoes
<1>3. Alone(c)
  BY <1>1, <1>2, AloneWith
<1> QED
  BY <1>1, <1>2, <1>3 DEF RelayEffect, NoReply, NoSend

-----------------------------------------------------------------------------
DecideEffect(c) ==
  LET l == loc[c]
      k == loc'[c]
  IN  /\ pc[c] = "https" /\ pc'[c] \in {"https", "connect"}
      /\ up' = up /\ NoReply(c) /\ NoSend(c)
      /\ SameReq(k, l) /\ k.ran = l.ran /\ k.again = l.again /\ k.ws = l.ws
      /\ k.resp \in {l.resp, NewResponse(l.n)}
      /\ k.mode = l.mode /\ k.hijacked = l.hijacked
      /\ SameBodies(k, l) /\ k.client = l.client

(* The https handlers decide about a CONNECT. *)
LEMMA DecideDoes ==
  ASSUME TypeOK, HistOK, NEW c \in Clients, HandleConnect(c) \/ OkConnect(c)
  PROVE  DecideEffect(c) /\ Alone(c)
<1> DEFINE i == loc[c].hix
           to(a) == [loc[c] EXCEPT !.todo = a]
           next == [loc[c] EXCEPT !.hix = @ + 1]
           no == BasicUnauthorized(loc[c])
           good(k) == /\ SameReq(k, loc[c]) /\ k.ran = loc[c].ran
                      /\ k.again = loc[c].again /\ k.ws = loc[c].ws
                      /\ k.resp \in {loc[c].resp, NewResponse(loc[c].n)}
                      /\ k.mode = loc[c].mode /\ k.hijacked = loc[c].hijacked
                      /\ SameBodies(k, loc[c]) /\ k.client = loc[c].client
<1>1. /\ pc[c] = "https" /\ up' = up
      /\ canned' = canned /\ sent' = sent /\ replies' = replies
  BY DEF HandleConnect, OkConnect, hist
<1>2. good(next) /\ good(no) /\ \A a : good(to(a))
  BY LocTypes DEF Locals, BasicUnauthorized, SameReq, SameBodies
<1>3. \E p \in {"https", "connect"} :
        Goto(c, p, next) \/ Goto(c, p, no) \/ \E a : Goto(c, p, to(a))
  <2>1. CASE OkConnect(c)
    BY <2>1 DEF OkConnect
  <2>2. CASE HandleConnect(c)
    <3>1. IndexInRange(pc[c], i) /\ pc[c] = "https" /\ i <= Len(HttpsHandlers)
      BY <2>2 DEF HandleConnect, TypeOK
    <3>2. i \in DOMAIN HttpsHandlers
      BY <3>1, Chains DEF IndexInRange
    <3>3. PICK d \in HttpsHandlers[i] :
            Goto(c, IF d = "skip" THEN "https" ELSE "connect",
                 CASE d = "skip" -> next
                   [] d = "unauthorized" -> no
                   [] d \in Actions -> to(d))
      BY <2>2 DEF HandleConnect
    <3>4. d = "skip" \/ d = "unauthorized" \/ d \in Actions
      BY <3>2, Chains
    <3>5. "skip" \notin Actions /\ "unauthorized" \notin Actions
      BY DEF Actions
    <3> HIDE DEF next, no, to
    <3> QED
      BY <3>3, <3>4, <3>5
  <2> QED
    BY <2>1, <2>2
<1>4. \E p \in {"https", "connect"} : \E k : Goto(c, p, k) /\ good(k)
  <2> HIDE DEF next, no, to, good
  <2> QED
    BY <1>2, <1>3
<1>5. PICK p \in {"https", "connect"} : \E k : Goto(c, p, k) /\ good(k)
  BY <1>4
<1>6. PICK k : Goto(c, p, k) /\ good(k)
  BY <1>5
<1>7. /\ pc'[c] = p /\ loc'[c] = k
      /\ \A d \in Clients \ {c} : pc'[d] = pc[d] /\ loc'[d] = loc[d]
  BY <1>6, Moves
<1>8. Alone(c)
  BY <1>1, <1>7, AloneWith
<1> QED
  BY <1>1, <1>6, <1>7, <1>8 DEF DecideEffect, NoReply, NoSend

ConnectEffect(c) ==
  LET l == loc[c]
      k == loc'[c]
  IN  /\ pc[c] \in {"connect", "tls", "tunnel"} /\ up' = up /\ NoSend(c)
      /\ \/ /\ pc[c] = "connect" /\ Replied(c, "established")
            /\ pc'[c] \in {"tunnel", "tls"} /\ k = l
         \/ /\ pc[c] = "connect" /\ Replied(c, "established")
            /\ pc'[c] = "mread" /\ k.mode = "httpmitm"
            /\ SameReq(k, l) /\ SamePass(k, l) /\ SameBodies(k, l)
            /\ k.client = l.client /\ k.hijacked = l.hijacked
         \/ /\ pc[c] = "connect" /\ Replied(c, "established")
            /\ l.todo = "httpmitm" /\ Leaves(c)
         \/ /\ pc[c] = "tls" /\ NoReply(c) /\ pc'[c] = "mread" /\ k.mode = "mitm"
            /\ SameReq(k, l) /\ SamePass(k, l) /\ SameBodies(k, l)
            /\ k.client = l.client /\ k.hijacked = l.hijacked
         \/ /\ pc[c] \in {"connect", "tls"} /\ Replied(c, "error")
            /\ Leaves(c) /\ k.client = "closed"
         \/ /\ pc'[c] = "done" /\ Same(k, l) /\ SameBodies(k, l)
            /\ k.client \in {"shut", "closed", "handed"}
            /\ \/ NoReply(c)
               \/ /\ pc[c] = "connect"
                  /\ Replied(c, "canned") \/ Replied(c, "auth407")

(* What follows the decision about a CONNECT. *)
LEMMA ConnectDoes ==
  ASSUME TypeOK, HistOK, NEW c \in Clients,
         \/ ConnectAccept(c) \/ ConnectHTTPMitm(c)
         \/ ConnectMitm(c) \/ TLSHandshake(c) \/ ConnectHijack(c)
         \/ ConnectProxyAuthHijack(c) \/ ConnectReject(c) \/ TunnelEnds(c)
  PROVE  ConnectEffect(c) /\ Alone(c)
<1> DEFINE in(m) == [loc[c] EXCEPT !.mode = m]
           quit(st) == ClientIs(loc[c], st)
           Done == {"shut", "closed", "handed"}
<1>1. /\ up' = up /\ canned' = canned /\ sent' = sent
      /\ pc[c] \in {"connect", "tls", "tunnel"}
  BY DEF ConnectAccept, ConnectHTTPMitm, ConnectMitm, Connect,
         TLSHandshake, ConnectHijack, ConnectProxyAuthHijack, ConnectReject,
         TunnelEnds, hist
<1>2. \A m : /\ in(m).mode = m /\ in(m).hijacked = loc[c].hijacked
             /\ SameReq(in(m), loc[c]) /\ SamePass(in(m), loc[c])
             /\ SameBodies(in(m), loc[c]) /\ in(m).client = loc[c].client
  BY LocTypes DEF Locals, SameReq, SamePass, SameBodies
<1>3. \A st \in Done : /\ Same(quit(st), loc[c])
                       /\ SameBodies(quit(st), loc[c]) /\ quit(st).client = st
  BY LocTypes, Updates DEF Same
<1>4. \/ /\ pc[c] = "connect" /\ Reply(c, "established")
         /\ \/ \E p \in {"tunnel", "tls"} : Goto(c, p, loc[c])
            \/ Goto(c, "mread", in("httpmitm"))
            \/ loc[c].todo = "httpmitm" /\ Return(c)
      \/ pc[c] = "tls" /\ replies' = replies /\ Goto(c, "mread", in("mitm"))
      \/ pc[c] \in {"connect", "tls"} /\ HttpError(c)
      \/ /\ \E st \in Done : Goto(c, "done", quit(st))
         /\ \/ replies' = replies
            \/ pc[c] = "connect" /\ \E s \in {"canned", "auth407"} : Reply(c, s)
  <2>1. CASE ConnectAccept(c) \/ ConnectHTTPMitm(c) \/ ConnectMitm(c)
    BY <2>1 DEF ConnectAccept, ConnectHTTPMitm, ConnectMitm, Connect
  <2>2. CASE TLSHandshake(c)
    BY <2>2 DEF TLSHandshake
  <2>3. CASE ConnectHijack(c) \/ ConnectProxyAuthHijack(c) \/ ConnectReject(c)
    BY <2>3 DEF ConnectHijack, ConnectProxyAuthHijack, ConnectReject, Connect
  <2>4. CASE TunnelEnds(c)
    BY <2>4 DEF TunnelEnds, hist
  <2> QED
    BY <2>1, <2>2, <2>3, <2>4
<1> HIDE DEF in, quit
<1>5. ASSUME NEW s \in {"established", "canned", "auth407"}, Reply(c, s)
      PROVE  /\ Replied(c, s) /\ replies' \in [Clients -> Seq(Replies)]
             /\ \A d \in Clients \ {c} : replies'[d] = replies[d]
  <2>1. s \in Sources
    BY DEF Sources
  <2> QED
    BY <1>5, <2>1, ReplyDoes
<1>6. CASE /\ pc[c] = "connect" /\ Reply(c, "established")
           /\ \/ \E p \in {"tunnel", "tls"} : Goto(c, p, loc[c])
              \/ Goto(c, "mread", in("httpmitm"))
              \/ loc[c].todo = "httpmitm" /\ Return(c)
  <2>1. /\ \/ pc'[c] \in {"tunnel", "tls"} /\ loc'[c] = loc[c]
           \/ pc'[c] = "mread" /\ loc'[c] = in("httpmitm")
           \/ loc[c].todo = "httpmitm" /\ Leaves(c)
        /\ \A d \in Clients \ {c} : pc'[d] = pc[d] /\ loc'[d] = loc[d]
    BY <1>6, Moves, ReturnDoes
  <2>2. Alone(c)
    BY <1>1, <1>5, <1>6, <2>1, AloneWith
  <2> QED
    BY <1>1, <1>2, <1>5, <1>6, <2>1, <2>2 DEF ConnectEffect, NoSend
<1>7. CASE pc[c] = "tls" /\ replies' = replies /\ Goto(c, "mread", in("mitm"))
  <2>1. /\ pc'[c] = "mread" /\ loc'[c] = in("mitm")
        /\ \A d \in Clients \ {c} : pc'[d] = pc[d] /\ loc'[d] = loc[d]
    BY <1>7, Moves
  <2>2. Alone(c)
    BY <1>1, <1>7, <2>1, AloneWith
  <2> QED
    BY <1>1, <1>2, <1>7, <2>1, <2>2 DEF ConnectEffect, NoSend, NoReply
<1>8. CASE pc[c] \in {"connect", "tls"} /\ HttpError(c)
  <2>1. Alone(c)
    BY <1>1, <1>8, HttpErrorDoes, AloneWith
  <2> QED
    BY <1>1, <1>8, <2>1, HttpErrorDoes DEF ConnectEffect, NoSend
<1>9. CASE /\ \E st \in Done : Goto(c, "done", quit(st))
           /\ \/ replies' = replies
              \/ pc[c] = "connect" /\ \E s \in {"canned", "auth407"} : Reply(c, s)
  <2>1. PICK st \in Done : Goto(c, "done", quit(st))
    BY <1>9
  <2>2. /\ pc'[c] = "done" /\ loc'[c] = quit(st)
        /\ \A d \in Clients \ {c} : pc'[d] = pc[d] /\ loc'[d] = loc[d]
    BY <2>1, Moves
  <2>3. /\ Same(loc'[c], loc[c]) /\ SameBodies(loc'[c], loc[c])
        /\ loc'[c].client \in Done
    BY <1>3, <2>2
  <2>4. Alone(c)
    BY <1>1, <1>5, <1>9, <2>2, AloneWith
  <2> QED
    BY <1>1, <1>5, <1>9, <2>2, <2>3, <2>4 DEF ConnectEffect, NoSend, NoReply
<1> QED
  BY <1>4, <1>6, <1>7, <1>8, <1>9

OtherEffect(c) ==
  LET l == loc[c]
      k == loc'[c]
  IN  /\ up' = up /\ canned'[c] = canned[c]
      /\ \/ /\ pc[c] = "idle" /\ pc'[c] = "done" /\ NoReply(c) /\ NoSend(c)
            /\ Same(k, l) /\ SameBodies(k, l) /\ k.client = "closed"
         \/ /\ pc[c] = "nonproxy" /\ pc'[c] = "idle" /\ k = l
            /\ Replied(c, "nonproxy") /\ NoSend(c)
         \/ pc[c] = "mread" /\ Leaves(c) /\ NoReply(c) /\ NoSend(c)
         \/ /\ pc[c] = "h2" /\ Leaves(c) /\ NoReply(c)
            /\ sent'[c] = sent[c] \/ Sent(c, l.req.n, "h2")

(* The other steps. *)
LEMMA OtherDoes ==
  ASSUME TypeOK, HistOK, NEW c \in Clients,
         ClientLeaves(c) \/ NonproxyHandler(c) \/ ReadFails(c) \/ ServeH2(c)
  PROVE  OtherEffect(c) /\ Alone(c)
<1>1. up' = up /\ canned' = canned
  BY DEF ClientLeaves, NonproxyHandler, ReadFails, ServeH2, hist
<1>2. CASE ClientLeaves(c)
  <2>1. /\ pc[c] = "idle" /\ Goto(c, "done", ClientIs(loc[c], "closed"))
        /\ sent' = sent /\ replies' = replies
    BY <1>2 DEF ClientLeaves, hist
  <2>2. /\ pc'[c] = "done" /\ loc'[c] = ClientIs(loc[c], "closed")
        /\ \A d \in Clients \ {c} : pc'[d] = pc[d] /\ loc'[d] = loc[d]
    BY <2>1, Moves
  <2>3. /\ Same(loc'[c], loc[c]) /\ SameBodies(loc'[c], loc[c])
        /\ loc'[c].client = "closed"
    BY <2>2, LocTypes, Updates DEF Same
  <2>4. Alone(c)
    BY <1>1, <2>1, <2>2, AloneWith
  <2> QED
    BY <1>1, <2>1, <2>2, <2>3, <2>4 DEF OtherEffect, NoSend, NoReply
<1>3. CASE NonproxyHandler(c)
  <2>1. /\ pc[c] = "nonproxy" /\ Goto(c, "idle", loc[c])
        /\ sent' = sent /\ Reply(c, "nonproxy") /\ "nonproxy" \in Sources
    BY <1>3 DEF NonproxyHandler, Sources
  <2>2. /\ pc'[c] = "idle" /\ loc'[c] = loc[c]
        /\ \A d \in Clients \ {c} : pc'[d] = pc[d] /\ loc'[d] = loc[d]
    BY <2>1, Moves
  <2>3. /\ Replied(c, "nonproxy") /\ replies' \in [Clients -> Seq(Replies)]
        /\ \A d \in Clients \ {c} : replies'[d] = replies[d]
    BY <2>1, ReplyDoes
  <2>4. Alone(c)
    BY <1>1, <2>1, <2>2, <2>3, AloneWith
  <2> QED
    BY <1>1, <2>1, <2>2, <2>3, <2>4 DEF OtherEffect, NoSend
<1>4. CASE ReadFails(c)
  <2>1. pc[c] = "mread" /\ Return(c) /\ sent' = sent /\ replies' = replies
    BY <1>4 DEF ReadFails, hist
  <2>2. Alone(c)
    BY <1>1, <2>1, ReturnDoes, AloneWith
  <2> QED
    BY <1>1, <2>1, <2>2, ReturnDoes DEF OtherEffect, NoSend, NoReply
<1>5. CASE ServeH2(c)
  <2>1. /\ pc[c] = "h2" /\ Return(c) /\ replies' = replies
        /\ sent' = sent \/ Send(c, loc[c].req, "h2", TRUE)
    BY <1>5 DEF ServeH2
  <2>2. \/ sent' = sent
        \/ /\ Sent(c, loc[c].req.n, "h2") /\ sent' \in [Clients -> Seq(Sendings)]
           /\ \A d \in Clients \ {c} : sent'[d] = sent[d]
    <3>1. "h2" \in Vias
      BY DEF Vias
    <3> QED
      BY <2>1, <3>1, Values, LocTypes, SendDoes
  <2>3. Alone(c)
    BY <1>1, <2>1, <2>2, ReturnDoes, AloneWith
  <2> QED
    BY <1>1, <2>1, <2>2, <2>3, ReturnDoes DEF OtherEffect, NoReply
<1> QED
  BY <1>2, <1>3, <1>4, <1>5

(* The effects together. *)
Effect(c) ==
  \/ ServeEffect(c) \/ ReadEffect(c) \/ FilterReqEffect(c) \/ RouteEffect(c)
  \/ RoundTripEffect(c) \/ GotEffect(c) \/ FilterRespEffect(c)
  \/ FilteredEffect(c) \/ ReplyPlainEffect(c) \/ ReplyMitmEffect(c)
  \/ ReplyHTTPEffect(c) \/ ServeWSEffect(c) \/ ReplyWSEffect(c)
  \/ RelayEffect(c) \/ DecideEffect(c) \/ ConnectEffect(c) \/ OtherEffect(c)
  \/ BrokenEffect(c)

(* Every step of a goroutine has one of these effects, and no other. *)
LEMMA StepDoes ==
  ASSUME TypeOK, HistOK, NEW c \in Clients, ClientStep(c) \/ ProxyStep(c)
  PROVE  Effect(c) /\ Alone(c)
<1>1. CASE ClientStep(c)
  BY <1>1, ServeHTTPDoes, OtherDoes, ReadRequestDoes, RelayEndsDoes, ConnectDoes
  DEF ClientStep, Effect
<1>2. CASE ProxyStep(c)
  BY <1>2, OtherDoes, FilterRequestDoes, RouteDoes, RoundTripDoes, GotDoes,
     FilterResponseDoes, FilteredDoes, ReplyPlainDoes, ReplyMitmDoes,
     ReplyHTTPMitmDoes, ServeWebsocketDoes, ReplyWebsocketDoes, DecideDoes,
     ConnectDoes, BrokenDoes DEF ProxyStep, Effect
<1> QED
  BY <1>1, <1>2

-----------------------------------------------------------------------------
(* Invariants.  What holds of a connection alone, by where its goroutine   *)
(* is.                                                                     *)

(* Where a goroutine is tells the kind of its connection: a plain one, a   *)
(* CONNECT, a tunnel of one or the other loop; and its request is the      *)
(* connection's current one.  A websocket upgrade that filters the         *)
(* handshake's response has hijacked its client.                           *)
Loops == {"plain", "mitm", "httpmitm"}
Serving == {"reqh", "roundtrip", "got", "resph", "reply", "ws", "wsreply",
            "relay", "h2", "broken"}
Upgrading(c) == pc[c] \in {"wsreply", "relay"} \/ (pc[c] = "resph" /\ loc[c].ws)

PlaceAt(c) ==
  /\ pc[c] \in {"idle", "nonproxy"} => loc[c].mode = "plain"
  /\ pc[c] \in {"https", "connect", "tls", "tunnel"} =>
       loc[c].mode = "https" /\ loc[c].orig.kind = "connect"
  /\ pc[c] \in Serving => loc[c].mode \in Loops
  /\ pc[c] = "mread" => loc[c].mode \in {"mitm", "httpmitm"}
  /\ pc[c] = "h2" => loc[c].mode = "mitm"
  /\ pc[c] = "broken" => loc[c].mode = "httpmitm"
  /\ pc[c] \in {"ws", "wsreply", "relay"} => loc[c].mode \in {"plain", "mitm"}
  /\ loc[c].orig.n = loc[c].n /\ loc[c].req.n \in {0, loc[c].n}
  /\ pc[c] \notin {"idle", "done"} => loc[c].n > 0
  /\ pc[c] \in {"reqh", "ws", "got"} => ~loc[c].ws
  /\ Upgrading(c) => loc[c].hijacked /\ loc[c].mode # "httpmitm"

(* Every step keeps a connection's place and kind together. *)
LEMMA PlaceStep ==
  ASSUME TypeOK, NEW c \in Clients, PlaceAt(c), Effect(c)
  PROVE  PlaceAt(c)'
<1> USE DEF PlaceAt, Serving, Loops, Upgrading, SameReq, SamePass, SameSide
<1>0. loc[c].n \in Nat /\ loc[c].orig.n \in Nat
  BY LocTypes
<1>1. CASE ServeEffect(c) \/ ReadEffect(c)
  BY <1>0, <1>1 DEF ServeEffect, ReadEffect, Arrived
<1>2. CASE FilterReqEffect(c)
  BY <1>0, <1>2 DEF FilterReqEffect, HandledEffect, Crashes
<1>3. CASE RouteEffect(c)
  BY <1>0, <1>3 DEF RouteEffect, Leaves, Crashes
<1>4. CASE RoundTripEffect(c)
  BY <1>0, <1>4 DEF RoundTripEffect, Leaves
<1>5. CASE GotEffect(c)
  BY <1>0, <1>5 DEF GotEffect, Leaves
<1>6. CASE FilterRespEffect(c)
  BY <1>0, <1>6 DEF FilterRespEffect, Panics, Crashes, Leaves
<1>7. CASE FilteredEffect(c)
  BY <1>0, <1>7 DEF FilteredEffect
<1>8. CASE ReplyPlainEffect(c) \/ ReplyMitmEffect(c) \/ ReplyHTTPEffect(c)
  BY <1>0, <1>8
  DEF ReplyPlainEffect, ReplyMitmEffect, ReplyHTTPEffect, Panics, Crashes, Leaves, Same
<1>9. CASE ServeWSEffect(c) \/ ReplyWSEffect(c) \/ RelayEffect(c)
  BY <1>0, <1>9
  DEF ServeWSEffect, ReplyWSEffect, RelayEffect, AfterEffect, Panics, Crashes, Leaves
<1>10. CASE DecideEffect(c)
  BY <1>0, <1>10 DEF DecideEffect
<1>11. CASE ConnectEffect(c)
  BY <1>0, <1>11 DEF ConnectEffect, Leaves, Same
<1>12. CASE OtherEffect(c) \/ BrokenEffect(c)
  BY <1>0, <1>12 DEF OtherEffect, BrokenEffect, Leaves, Same
<1> QED
  BY <1>1, <1>2, <1>3, <1>4, <1>5, <1>6, <1>7, <1>8, <1>9, <1>10, <1>11, <1>12
  DEF Effect

(* A CONNECT that is over has let go of its client: what leaves a CONNECT  *)
(* closes it, shuts it down or hands it over, and the TLS loop closes it.  *)
ReleasedAt(c) ==
  pc[c] = "done" /\ loc[c].mode \in {"https", "mitm"} /\ loc[c].todo # "httpmitm"
  => loc[c].client # "open"

(* Every step keeps this. *)
LEMMA ReleasedStep ==
  ASSUME NEW c \in Clients, PlaceAt(c), ReleasedAt(c), Effect(c)
  PROVE  ReleasedAt(c)'
<1> USE DEF ReleasedAt, SameSide
<1>0. /\ pc[c] \in Serving => loc[c].mode \in Loops
      /\ pc[c] \in {"idle", "nonproxy"} => loc[c].mode = "plain"
      /\ pc[c] = "mread" => loc[c].mode \in {"mitm", "httpmitm"}
  BY DEF PlaceAt
<1> USE DEF Serving, Loops
<1>1. CASE ServeEffect(c) \/ ReadEffect(c)
  BY <1>1 DEF ServeEffect, ReadEffect
<1>2. CASE FilterReqEffect(c) \/ RouteEffect(c)
  BY <1>0, <1>2 DEF FilterReqEffect, HandledEffect, RouteEffect, Leaves, Crashes
<1>3. CASE RoundTripEffect(c) \/ GotEffect(c)
  BY <1>0, <1>3 DEF RoundTripEffect, GotEffect, Leaves
<1>4. CASE FilterRespEffect(c) \/ FilteredEffect(c)
  BY <1>0, <1>4 DEF FilterRespEffect, FilteredEffect, Panics, Crashes, Leaves
<1>5. CASE ReplyPlainEffect(c) \/ ReplyMitmEffect(c) \/ ReplyHTTPEffect(c)
  BY <1>0, <1>5
  DEF ReplyPlainEffect, ReplyMitmEffect, ReplyHTTPEffect, Panics, Crashes, Leaves, Same
<1>6. CASE ServeWSEffect(c) \/ ReplyWSEffect(c) \/ RelayEffect(c)
  BY <1>0, <1>6
  DEF ServeWSEffect, ReplyWSEffect, RelayEffect, AfterEffect, Panics, Crashes, Leaves
<1>7. CASE DecideEffect(c) \/ ConnectEffect(c)
  BY <1>7 DEF DecideEffect, ConnectEffect, Leaves, Same
<1>8. CASE OtherEffect(c) \/ BrokenEffect(c)
  BY <1>0, <1>8 DEF OtherEffect, BrokenEffect, Leaves, Same
<1> QED
  BY <1>1, <1>2, <1>3, <1>4, <1>5, <1>6, <1>7, <1>8 DEF Effect

(* A sequence with one more element, *)
LEMMA Appended ==
  ASSUME NEW S, NEW s \in Seq(S), NEW e \in S, NEW t, t = Append(s, e)
  PROVE  /\ DOMAIN s = 1..Len(s) /\ Len(s) \in Nat
         /\ DOMAIN t = 1..(Len(s) + 1)
         /\ \A i \in DOMAIN s : t[i] = s[i]
         /\ t[Len(s) + 1] = e
OBVIOUS

(* as the replies to a client after one more reply, *)
LEMMA OneMoreReply ==
  ASSUME HistOK, NEW c \in Clients, NEW src, Replied(c, src)
  PROVE  \E new \in Nat :
           /\ replies'[c][new].n = loc[c].n /\ replies'[c][new].src = src
           /\ replies'[c][new].kind = loc[c].orig.kind
           /\ replies'[c][new].ran = loc[c].ran
           /\ DOMAIN replies'[c] = DOMAIN replies[c] \cup {new}
           /\ \A i \in DOMAIN replies[c] :
                i \in Nat /\ i < new /\ replies'[c][i] = replies[c][i]
<1>1. PICK r \in Replies : /\ r.n = loc[c].n /\ r.kind = loc[c].orig.kind
                           /\ r.src = src /\ r.ran = loc[c].ran
                           /\ replies'[c] = Append(replies[c], r)
  BY DEF Replied
<1>2. replies[c] \in Seq(Replies)
  BY DEF HistOK
<1>3. /\ DOMAIN replies[c] = 1..Len(replies[c]) /\ Len(replies[c]) \in Nat
      /\ DOMAIN replies'[c] = 1..(Len(replies[c]) + 1)
      /\ \A i \in DOMAIN replies[c] : replies'[c][i] = replies[c][i]
      /\ replies'[c][Len(replies[c]) + 1] = r
  BY <1>1, <1>2, Appended
<1> WITNESS Len(replies[c]) + 1 \in Nat
<1> QED
  BY <1>1, <1>3

(* or what its origins were sent after one more sending. *)
LEMMA OneMoreSending ==
  ASSUME HistOK, NEW c \in Clients, NEW n, NEW via, Sent(c, n, via)
  PROVE  \E new \in Nat :
           /\ sent'[c][new].n = n /\ sent'[c][new].via = via
           /\ DOMAIN sent'[c] = DOMAIN sent[c] \cup {new}
           /\ \A i \in DOMAIN sent[c] : sent'[c][i] = sent[c][i]
<1>1. PICK s \in Sendings :
        s.n = n /\ s.via = via /\ sent'[c] = Append(sent[c], s)
  BY DEF Sent
<1>2. sent[c] \in Seq(Sendings)
  BY DEF HistOK
<1>3. /\ DOMAIN sent[c] = 1..Len(sent[c]) /\ Len(sent[c]) \in Nat
      /\ DOMAIN sent'[c] = 1..(Len(sent[c]) + 1)
      /\ \A i \in DOMAIN sent[c] : sent'[c][i] = sent[c][i]
      /\ sent'[c][Len(sent[c]) + 1] = s
  BY <1>1, <1>2, Appended
<1> WITNESS Len(sent[c]) + 1 \in Nat
<1> QED
  BY <1>1, <1>3

(* Replies still to come.  While a reply is due, no reply to the current   *)
(* request has been written; afterwards none is written any more, but for  *)
(* the 502 of a CONNECT that could not make its certificate and the one    *)
(* behind a broken reply.  A plain connection that the websocket code has  *)
(* hijacked is owed none.                                                  *)
Due(c) ==
  \/ pc[c] \in {"nonproxy", "reqh", "ws", "wsreply", "https", "connect"}
  \/ pc[c] = "resph" /\ loc[c].ws
  \/ /\ pc[c] \in {"roundtrip", "got", "resph", "reply"}
     /\ ~(loc[c].mode = "plain" /\ loc[c].hijacked)

InOrder(c) ==
  \A i, j \in DOMAIN replies[c] :
    i < j => \/ replies[c][i].n < replies[c][j].n /\ replies[c][i].src # "cut"
             \/ /\ replies[c][i].n = replies[c][j].n
                /\ replies[c][i].src \in {"established", "cut"}
                /\ replies[c][j].src = "error"

(* What reply r on record says of where its goroutine is. *)
OrderOf(c, r) ==
  /\ r.n \in Nat /\ r.n <= loc[c].n
  /\ Due(c) => r.n < loc[c].n
  /\ pc[c] = "tls" /\ r.n = loc[c].n => r.src = "established"
  /\ pc[c] = "broken" /\ r.n = loc[c].n => r.src = "cut"
  /\ r.src = "cut" => pc[c] \in {"broken", "done"} /\ r.n = loc[c].n

OrderAt(c) == InOrder(c) /\ \A i \in DOMAIN replies[c] : OrderOf(c, replies[c][i])

(* Without a reply the order is kept, if the request stays the same and a  *)
(* reply that is due was due before; and by the arrival of a request.      *)
Quietly(c) ==
  /\ NoReply(c) /\ pc'[c] \notin {"tls", "broken"}
  /\ pc[c] \notin {"broken", "done"} \/ UNCHANGED <<pc, loc>>
  /\ \/ loc'[c].n = loc[c].n + 1
     \/ loc'[c].n = loc[c].n /\ (Due(c)' => Due(c))

LEMMA NoReplyKeepsOrder ==
  ASSUME NEW c \in Clients, loc[c].n \in Nat, OrderAt(c), Quietly(c)
  PROVE  OrderAt(c)'
<1> HIDE DEF Due
<1>1. replies'[c] = replies[c]
  BY DEF NoReply, Quietly
<1>2. InOrder(c)'
  BY <1>1 DEF OrderAt, InOrder
<1>3. ASSUME NEW i \in DOMAIN replies[c] PROVE OrderOf(c, replies[c][i])'
  BY <1>1 DEF OrderAt, OrderOf, Quietly
<1> QED
  BY <1>1, <1>2, <1>3 DEF OrderAt

(* A reply that is due, and the two kinds of 502 behind another, keep it.  *)
Loudly(c, src) ==
  /\ Replied(c, src) /\ loc'[c].n = loc[c].n /\ ~Due(c)'
  /\ \/ /\ Due(c)
        /\ pc'[c] = "tls" => src = "established"
        /\ pc'[c] = "broken" => src = "cut"
        /\ src = "cut" => pc'[c] \in {"broken", "done"}
     \/ pc[c] \in {"tls", "broken"} /\ src = "error" /\ pc'[c] = "done"

LEMMA ReplyKeepsOrder ==
  ASSUME TypeOK, HistOK, NEW c \in Clients, OrderAt(c), NEW src, Loudly(c, src)
  PROVE  OrderAt(c)'
<1>1. PICK new \in Nat :
        /\ replies'[c][new].n = loc[c].n /\ replies'[c][new].src = src
        /\ DOMAIN replies'[c] = DOMAIN replies[c] \cup {new}
        /\ \A i \in DOMAIN replies[c] :
             i \in Nat /\ i < new /\ replies'[c][i] = replies[c][i]
  BY OneMoreReply DEF Loudly
<1>2. loc[c].n \in Nat /\ loc'[c].n = loc[c].n /\ ~Due(c)'
  BY LocTypes DEF Loudly
<1>3. \A i \in DOMAIN replies[c] :
        \/ replies[c][i].n < loc[c].n /\ replies[c][i].src # "cut"
        \/ /\ replies[c][i].n = loc[c].n
           /\ replies[c][i].src \in {"established", "cut"}
           /\ src = "error" /\ pc'[c] = "done"
  <2> HIDE DEF Due
  <2> SUFFICES ASSUME NEW i \in DOMAIN replies[c]
               PROVE  \/ replies[c][i].n < loc[c].n /\ replies[c][i].src # "cut"
                      \/ /\ replies[c][i].n = loc[c].n
                         /\ replies[c][i].src \in {"established", "cut"}
                         /\ src = "error" /\ pc'[c] = "done"
    OBVIOUS
  <2>1. OrderOf(c, replies[c][i])
    BY DEF OrderAt
  <2> QED
    BY <1>2, <2>1 DEF OrderOf, Loudly
<1>4. InOrder(c)'
  <2> SUFFICES ASSUME NEW i \in DOMAIN replies'[c], NEW j \in DOMAIN replies'[c],
                      i < j
               PROVE  \/ /\ replies'[c][i].n < replies'[c][j].n
                         /\ replies'[c][i].src # "cut"
                      \/ /\ replies'[c][i].n = replies'[c][j].n
                         /\ replies'[c][i].src \in {"established", "cut"}
                         /\ replies'[c][j].src = "error"
    BY DEF InOrder
  <2>1. i \in DOMAIN replies[c]
    BY <1>1
  <2>2. CASE j \in DOMAIN replies[c]
    BY <1>1, <2>1, <2>2 DEF OrderAt, InOrder
  <2>3. CASE j = new
    BY <1>1, <1>3, <2>1, <2>3
  <2> QED
    BY <1>1, <2>2, <2>3
<1>5. ASSUME NEW i \in DOMAIN replies'[c] PROVE OrderOf(c, replies[c][i])'
  <2>1. CASE i \in DOMAIN replies[c]
    <3>1. OrderOf(c, replies[c][i]) /\ replies'[c][i] = replies[c][i]
      BY <1>1, <2>1 DEF OrderAt
    <3> HIDE DEF Due
    <3> QED
      BY <1>2, <1>3, <2>1, <3>1 DEF OrderOf, Loudly
  <2>2. CASE i = new
    <3> HIDE DEF Due
    <3> QED
      BY <1>1, <1>2, <2>2 DEF OrderOf, Loudly
  <2> QED
    BY <1>1, <2>1, <2>2
<1> QED
  BY <1>4, <1>5 DEF OrderAt

(* Every step keeps a client's replies in order.                           *)
LEMMA OrderStep ==
  ASSUME TypeOK, HistOK, NEW c \in Clients, PlaceAt(c), OrderAt(c), Effect(c)
  PROVE  OrderAt(c)'
<1>0. /\ loc[c].n \in Nat
      /\ loc[c].resp.src # "cut" /\ Source(loc[c].resp) # "cut"
  BY LocTypes DEF Source
<1>a. SUFFICES Quietly(c) \/ \E src : Loudly(c, src)
  BY <1>0, NoReplyKeepsOrder, ReplyKeepsOrder
<1> USE DEF Quietly, Loudly
<1> USE DEF Due, SameReq, SamePass, SameSide
<1>1. CASE ServeEffect(c) \/ ReadEffect(c)
  BY <1>0, <1>1 DEF ServeEffect, ReadEffect, Arrived
<1>2. CASE FilterReqEffect(c)
  BY <1>2 DEF FilterReqEffect, HandledEffect, Crashes
<1>3. CASE RouteEffect(c)
  BY <1>3 DEF RouteEffect, Leaves, Crashes
<1>4. CASE RoundTripEffect(c)
  BY <1>4 DEF RoundTripEffect, Leaves
<1>5. CASE GotEffect(c)
  BY <1>5 DEF GotEffect, Leaves, PlaceAt
<1>6. CASE FilterRespEffect(c)
  BY <1>6 DEF FilterRespEffect, Panics, Crashes, Leaves
<1>7. CASE FilteredEffect(c)
  BY <1>7 DEF FilteredEffect
<1>8. CASE ReplyPlainEffect(c)
  BY <1>0, <1>8 DEF ReplyPlainEffect, Leaves, Same
<1>9. CASE ReplyMitmEffect(c)
  BY <1>0, <1>9 DEF ReplyMitmEffect, Panics, Crashes, Leaves, Same
<1>10. CASE ReplyHTTPEffect(c)
  BY <1>0, <1>10 DEF ReplyHTTPEffect, Leaves, Same
<1>11. CASE ServeWSEffect(c)
  BY <1>11 DEF ServeWSEffect, AfterEffect, Leaves
<1>12. CASE ReplyWSEffect(c)
  BY <1>0, <1>12 DEF ReplyWSEffect, AfterEffect, Panics, Crashes, Leaves
<1>13. CASE RelayEffect(c)
  BY <1>13 DEF RelayEffect, AfterEffect, Leaves, PlaceAt, Upgrading
<1>14. CASE DecideEffect(c)
  BY <1>14 DEF DecideEffect
<1>15. CASE ConnectEffect(c)
  BY <1>15 DEF ConnectEffect, Leaves, Same
<1>16. CASE OtherEffect(c) \/ BrokenEffect(c)
  BY <1>16 DEF OtherEffect, BrokenEffect, Leaves, Same
<1> QED
  BY <1>1, <1>2, <1>3, <1>4, <1>5, <1>6, <1>7, <1>8, <1>9, <1>10, <1>11, <1>12,
     <1>13, <1>14, <1>15, <1>16 DEF Effect

(* A request that a handler answered is past the places from which it      *)
(* could be sent on, and while the handlers still have it nothing of it    *)
(* has been.                                                               *)
CannedAt(c) ==
  /\ \A m \in canned[c] : m > 0 /\ m <= loc[c].n
  /\ \A i \in DOMAIN sent[c] :
       /\ sent[c][i].n \in Nat /\ sent[c][i].n <= loc[c].n
       /\ sent[c][i].via # "handler" =>
            /\ sent[c][i].n \notin canned[c]
            /\ pc[c] = "reqh" => sent[c][i].n < loc[c].n
  /\ loc[c].n \in canned[c] =>
       /\ pc[c] \notin {"reqh", "roundtrip", "ws", "wsreply", "relay", "h2"}
       /\ pc[c] \in {"got", "resph", "reply"} => ~loc[c].ws

(* Steps that send nothing keep this, *)
LEMMA NoSendKeepsCanned ==
  ASSUME TypeOK, HistOK, NEW c \in Clients, CannedAt(c), NoSend(c),
         \/ UNCHANGED <<pc, loc>>
         \/ loc'[c].n = loc[c].n + 1
         \/ /\ loc'[c].n = loc[c].n /\ pc'[c] # "reqh"
            /\ loc[c].n \in canned[c] =>
                 /\ pc'[c] \notin {"roundtrip", "ws", "wsreply", "relay", "h2"}
                 /\ pc'[c] \in {"got", "resph", "reply"} => ~loc'[c].ws
  PROVE  CannedAt(c)'
<1>1. sent'[c] = sent[c] /\ canned'[c] = canned[c]
  BY DEF NoSend
<1>2. loc[c].n \in Nat /\ canned[c] \in SUBSET Nat
  BY LocTypes DEF HistOK
<1> QED
  BY <1>1, <1>2 DEF CannedAt

(* and so do those that send the current request, or no request at all     *)
(* (RemoveProxyHeaders' nil), when no handler has answered it.             *)
LEMMA SendKeepsCanned ==
  ASSUME TypeOK, HistOK, NEW c \in Clients, CannedAt(c),
         NEW n \in {0, loc[c].n}, NEW via, Sent(c, n, via),
         canned'[c] = canned[c], loc'[c].n = loc[c].n,
         via # "handler" => pc'[c] # "reqh",
         pc'[c] = "reqh" => pc[c] = "reqh",
         loc[c].n \notin canned[c]
  PROVE  CannedAt(c)'
<1>1. PICK new \in Nat :
        /\ sent'[c][new].n = n /\ sent'[c][new].via = via
        /\ DOMAIN sent'[c] = DOMAIN sent[c] \cup {new}
        /\ \A i \in DOMAIN sent[c] : sent'[c][i] = sent[c][i]
  BY OneMoreSending
<1>2. loc[c].n \in Nat /\ canned[c] \in SUBSET Nat
  BY LocTypes DEF HistOK
<1>3. 0 \notin canned[c]
  BY DEF CannedAt
<1>4. ASSUME NEW i \in DOMAIN sent'[c]
      PROVE  /\ sent'[c][i].n \in Nat /\ sent'[c][i].n <= loc[c].n
             /\ sent'[c][i].via # "handler" =>
                  /\ sent'[c][i].n \notin canned[c]
                  /\ pc'[c] = "reqh" => sent'[c][i].n < loc[c].n
  <2>1. CASE i \in DOMAIN sent[c]
    BY <1>1, <1>2, <2>1 DEF CannedAt
  <2>2. CASE i = new
    BY <1>1, <1>2, <1>3, <2>2
  <2> QED
    BY <1>1, <2>1, <2>2
<1> QED
  BY <1>2, <1>4 DEF CannedAt

(* A request handler that does not panic. *)
LEMMA FilterReqKeepsCanned ==
  ASSUME TypeOK, HistOK, NEW c \in Clients, PlaceAt(c), CannedAt(c),
         pc[c] = "reqh", HandledEffect(c)
  PROVE  CannedAt(c)'
<1>1. /\ pc[c] = "reqh" /\ loc[c].n \in Nat /\ canned[c] \in SUBSET Nat
      /\ loc[c].orig.n = loc[c].n /\ loc[c].n > 0 /\ ~loc[c].ws
      /\ loc'[c].n = loc[c].n /\ loc'[c].ws = loc[c].ws
  BY LocTypes DEF HistOK, HandledEffect, PlaceAt
<1>2. \/ pc'[c] = "reqh" /\ canned'[c] = canned[c]
      \/ pc'[c] = "got" /\ canned'[c] = canned[c] \cup {loc[c].n}
  BY DEF HandledEffect
<1>3. ASSUME NEW i \in DOMAIN sent'[c]
      PROVE  /\ sent'[c][i].n \in Nat /\ sent'[c][i].n <= loc[c].n
             /\ sent'[c][i].via # "handler" =>
                  /\ sent'[c][i].n \notin canned[c]
                  /\ sent'[c][i].n < loc[c].n
  <2>1. CASE sent'[c] = sent[c]
    BY <1>1, <2>1 DEF CannedAt
  <2>2. CASE Sent(c, loc[c].orig.n, "handler")
    <3>1. PICK new \in Nat :
            /\ sent'[c][new].n = loc[c].n /\ sent'[c][new].via = "handler"
            /\ DOMAIN sent'[c] = DOMAIN sent[c] \cup {new}
            /\ \A j \in DOMAIN sent[c] : sent'[c][j] = sent[c][j]
      BY <1>1, <2>2, OneMoreSending
    <3> QED
      BY <1>1, <3>1 DEF CannedAt
  <2> QED
    BY <2>1, <2>2 DEF HandledEffect
<1>4. \A m \in canned'[c] : m > 0 /\ m <= loc[c].n
  BY <1>1, <1>2 DEF CannedAt
<1>5. pc'[c] = "reqh" => loc[c].n \notin canned'[c]
  BY <1>1, <1>2 DEF CannedAt
<1> QED
  BY <1>1, <1>2, <1>3, <1>4, <1>5 DEF CannedAt

(* Every step keeps what was answered apart from what is sent. *)
LEMMA CannedStep ==
  ASSUME TypeOK, HistOK, NEW c \in Clients, PlaceAt(c), CannedAt(c), Effect(c)
  PROVE  CannedAt(c)'
<1> DEFINE Unsent ==
             /\ NoSend(c)
             /\ \/ UNCHANGED <<pc, loc>>
                \/ loc'[c].n = loc[c].n + 1
                \/ /\ loc'[c].n = loc[c].n /\ pc'[c] # "reqh"
                   /\ loc[c].n \in canned[c] =>
                        /\ pc'[c] \notin {"roundtrip", "ws", "wsreply", "relay", "h2"}
                        /\ pc'[c] \in {"got", "resph", "reply"} => ~loc'[c].ws
           Onward ==
             /\ \E via : Sent(c, loc[c].req.n, via)
             /\ canned'[c] = canned[c] /\ loc'[c].n = loc[c].n
             /\ pc'[c] # "reqh" /\ loc[c].n \notin canned[c]
<1>a. SUFFICES Unsent \/ Onward \/ (pc[c] = "reqh" /\ HandledEffect(c))
  <2>1. CASE Unsent
    BY <2>1, NoSendKeepsCanned
  <2>2. CASE Onward
    BY <2>2, SendKeepsCanned DEF PlaceAt
  <2> QED
    BY <2>1, <2>2, FilterReqKeepsCanned
<1>0. /\ loc[c].n \in canned[c] =>
           /\ pc[c] \notin {"reqh", "roundtrip", "ws", "wsreply", "relay", "h2"}
           /\ pc[c] \in {"got", "resph", "reply"} => ~loc[c].ws
      /\ pc[c] = "resph" /\ loc[c].ws => loc[c].n \notin canned[c]
  BY DEF CannedAt
<1> USE DEF SameReq, SamePass, SameSide
<1>1. CASE ServeEffect(c) \/ ReadEffect(c)
  BY <1>1 DEF ServeEffect, ReadEffect, Arrived
<1>2. CASE FilterReqEffect(c) \/ RouteEffect(c)
  BY <1>0, <1>2 DEF FilterReqEffect, RouteEffect, Leaves, Crashes
<1>3. CASE RoundTripEffect(c)
  BY <1>0, <1>3 DEF RoundTripEffect, Leaves
<1>4. CASE GotEffect(c)
  BY <1>0, <1>4 DEF GotEffect, Leaves
<1>5. CASE FilterRespEffect(c)
  BY <1>0, <1>5 DEF FilterRespEffect, Panics, Crashes, Leaves
<1>6. CASE FilteredEffect(c)
  BY <1>0, <1>6 DEF FilteredEffect
<1>7. CASE ReplyPlainEffect(c) \/ ReplyMitmEffect(c) \/ ReplyHTTPEffect(c)
  BY <1>0, <1>7
  DEF ReplyPlainEffect, ReplyMitmEffect, ReplyHTTPEffect, Panics, Crashes, Leaves, Same
<1>8. CASE ServeWSEffect(c)
  BY <1>0, <1>8 DEF ServeWSEffect, AfterEffect, Leaves, NoSend
<1>9. CASE ReplyWSEffect(c) \/ RelayEffect(c)
  BY <1>0, <1>9
  DEF ReplyWSEffect, RelayEffect, AfterEffect, Panics, Crashes, Leaves
<1>10. CASE DecideEffect(c) \/ ConnectEffect(c)
  BY <1>10 DEF DecideEffect, ConnectEffect, Leaves, Same
<1>11. CASE OtherEffect(c) \/ BrokenEffect(c)
  BY <1>0, <1>11 DEF OtherEffect, BrokenEffect, Leaves, Same, NoSend
<1> QED
  BY <1>1, <1>2, <1>3, <1>4, <1>5, <1>6, <1>7, <1>8, <1>9, <1>10, <1>11 DEF Effect

-----------------------------------------------------------------------------
(* What a goroutine's ran says of its way through the response handlers:   *)
(* they run in order from the first.  A response that came of ServeHTTP's  *)
(* failed transfer is made by the handlers (or nil), and goes through them *)
(* again.                                                                  *)
Upto(k) == [i \in 1..k |-> i]
Handmade(l) == l.mode = "plain" /\ l.resp.src \in {"none", "filter"}

RanAt(c) ==
  LET l == loc[c]
  IN  /\ pc[c] \notin {"resph", "done"} => ~l.again
      /\ pc[c] = "reqh" => l.ran = <<>>
      /\ pc[c] = "got" => \/ l.ran = <<>>
                          \/ l.ran = AllRespHandlers /\ Handmade(l)
      /\ pc[c] = "resph" =>
           \/ l.ran = Upto(l.hix - 1) /\ (l.again => Handmade(l))
           \/ /\ l.ran = AllRespHandlers \o Upto(l.hix - 1)
              /\ ~l.again /\ Handmade(l)
      /\ pc[c] \in {"reply", "wsreply"} =>
           \/ l.ran = AllRespHandlers
           \/ l.ran = AllRespHandlers \o AllRespHandlers /\ Handmade(l)

(* A sequence grows at its end. *)
LEMMA AppendConcat ==
  ASSUME NEW s \in Seq(Nat), NEW t \in Seq(Nat), NEW e \in Nat
  PROVE  Append(s \o t, e) = s \o Append(t, e)
<1>1. /\ Append(s \o t, e) \in Seq(Nat) /\ s \o Append(t, e) \in Seq(Nat)
      /\ Len(Append(s \o t, e)) = Len(s) + Len(t) + 1
      /\ Len(s \o Append(t, e)) = Len(s) + Len(t) + 1
  OBVIOUS
<1>2. \A i \in 1..(Len(s) + Len(t) + 1) :
        Append(s \o t, e)[i] = (s \o Append(t, e))[i]
  OBVIOUS
<1> QED
  BY <1>1, <1>2, SeqEqual

(* The sequences of the first handlers. *)
LEMMA UptoFacts ==
  /\ Upto(0) = <<>> /\ AllRespHandlers \o Upto(0) = AllRespHandlers
  /\ AllRespHandlers = Upto(Len(RespHandlers))
  /\ \A i \in 1..Len(RespHandlers) :
       /\ Append(Upto(i - 1), i) = Upto(i)
       /\ Append(AllRespHandlers \o Upto(i - 1), i) = AllRespHandlers \o Upto(i)
<1>1. Len(RespHandlers) \in Nat
  BY Chains
<1>2. \A k \in Nat : Upto(k) \in Seq(Nat) /\ Len(Upto(k)) = k
  BY DEF Upto
<1>3. Upto(0) = <<>>
  BY DEF Upto
<1>4. AllRespHandlers = Upto(Len(RespHandlers)) /\ AllRespHandlers \in Seq(Nat)
  BY <1>1, <1>2 DEF Upto, AllRespHandlers
<1>5. ASSUME NEW i \in 1..Len(RespHandlers)
      PROVE  Append(Upto(i - 1), i) = Upto(i)
  <2>1. i - 1 \in Nat /\ i \in Nat
    BY <1>1
  <2>2. \A j \in 1..i : Append(Upto(i - 1), i)[j] = Upto(i)[j]
    BY <2>1, <1>2 DEF Upto
  <2>3. /\ Append(Upto(i - 1), i) \in Seq(Nat) /\ Upto(i) \in Seq(Nat)
        /\ Len(Append(Upto(i - 1), i)) = i /\ Len(Upto(i)) = i
    BY <2>1, <1>2
  <2> QED
    BY <2>1, <2>2, <2>3, SeqEqual
<1>6. ASSUME NEW i \in 1..Len(RespHandlers)
      PROVE  Append(AllRespHandlers \o Upto(i - 1), i) = AllRespHandlers \o Upto(i)
  <2>1. i - 1 \in Nat /\ i \in Nat /\ Upto(i - 1) \in Seq(Nat)
    BY <1>1, <1>2
  <2> DEFINE a == AllRespHandlers
             u == Upto(i - 1)
  <2>2. a \in Seq(Nat) /\ u \in Seq(Nat) /\ i \in Nat
    BY <1>4, <2>1
  <2> HIDE DEF a, u
  <2>3. Append(a \o u, i) = a \o Append(u, i)
    BY <2>2, AppendConcat
  <2> QED
    BY <1>5, <2>3 DEF a, u
<1>7. AllRespHandlers \o Upto(0) = AllRespHandlers
  BY <1>3, <1>4
<1> QED
  BY <1>3, <1>4, <1>5, <1>6, <1>7

(* A step through the response handlers, *)
LEMMA FilterRespKeepsRan ==
  ASSUME TypeOK, NEW c \in Clients, RanAt(c), FilterRespEffect(c)
  PROVE  RanAt(c)'
<1>1. /\ pc[c] = "resph" /\ loc[c].hix \in 1..Len(RespHandlers)
      /\ Len(RespHandlers) \in Nat /\ loc[c].resp \in Responses
  BY LocTypes, Chains DEF FilterRespEffect
<1>2. \/ pc'[c] = "done" \/ UNCHANGED <<pc, loc>>
      \/ /\ pc'[c] = "resph" /\ loc'[c].again = loc[c].again
         /\ loc'[c].hix = loc[c].hix + 1 /\ loc'[c].hix - 1 = loc[c].hix
         /\ loc'[c].ran = Append(loc[c].ran, loc[c].hix)
         /\ Handmade(loc[c]) => Handmade(loc'[c])
  <2>1. CASE Panics(c)
    BY <2>1 DEF Panics, Crashes, Leaves
  <2>2. CASE ~Panics(c)
    <3>1. \/ loc'[c].resp \in {loc[c].resp, NoResp, [loc[c].resp EXCEPT !.body = 0]}
          \/ loc'[c].resp = Response(loc[c].n, "filter", "full", 0)
      BY <2>2 DEF FilterRespEffect
    <3>2. loc'[c].mode = loc[c].mode
      BY <2>2 DEF FilterRespEffect, SameSide
    <3>5. Handmade(loc[c]) => Handmade(loc'[c])
      BY <1>1, <3>1, <3>2 DEF Handmade, NoResp, Response, Responses
    <3>3. /\ pc'[c] = "resph" /\ loc'[c].again = loc[c].again
          /\ loc'[c].hix = loc[c].hix + 1
          /\ loc'[c].ran = Append(loc[c].ran, loc[c].hix)
      BY <2>2 DEF FilterRespEffect
    <3>4. loc'[c].hix - 1 = loc[c].hix
      BY <1>1, <3>3
    <3> QED
      BY <3>3, <3>4, <3>5
  <2> QED
    BY <2>1, <2>2
<1>3. \/ /\ loc[c].ran = Upto(loc[c].hix - 1)
         /\ loc[c].again => Handmade(loc[c])
      \/ /\ loc[c].ran = AllRespHandlers \o Upto(loc[c].hix - 1)
         /\ ~loc[c].again /\ Handmade(loc[c])
  BY <1>1 DEF RanAt
<1> QED
  BY <1>1, <1>2, <1>3, UptoFacts DEF RanAt

(* and every step. *)
LEMMA RanStep ==
  ASSUME TypeOK, NEW c \in Clients, RanAt(c), Effect(c)
  PROVE  RanAt(c)'
<1>0. loc[c].hix \in Nat /\ loc[c].again \in BOOLEAN /\ Len(RespHandlers) \in Nat
  BY LocTypes, Chains
<1> USE DEF RanAt, Handmade, SameReq, SamePass, SameSide
<1>1. CASE ServeEffect(c) \/ ReadEffect(c)
  BY <1>1 DEF ServeEffect, ReadEffect, Arrived
<1>2. CASE FilterReqEffect(c)
  BY <1>2, SMTT(30) DEF FilterReqEffect, HandledEffect, Crashes
<1>3. CASE RouteEffect(c)
  BY <1>3, SMTT(30) DEF RouteEffect, Leaves, Crashes
<1>4. CASE RoundTripEffect(c)
  BY <1>4, UptoFacts DEF RoundTripEffect, Leaves, NoResp, Response
<1>5. CASE GotEffect(c)
  BY <1>5, UptoFacts DEF GotEffect, Leaves
<1>6. CASE FilteredEffect(c)
  <2>1. loc[c].hix - 1 = Len(RespHandlers)
    BY <1>0, <1>6, SMTT(30) DEF FilteredEffect
  <2> QED
    BY <1>0, <1>6, <2>1, UptoFacts DEF FilteredEffect
<1>7. CASE ReplyPlainEffect(c) \/ ReplyMitmEffect(c) \/ ReplyHTTPEffect(c)
  BY <1>7, SMTT(30)
  DEF ReplyPlainEffect, ReplyMitmEffect, ReplyHTTPEffect, Panics, Crashes, Leaves, Same
<1>8. CASE ServeWSEffect(c) \/ RelayEffect(c)
  BY <1>8, UptoFacts DEF ServeWSEffect, RelayEffect, AfterEffect, Leaves
<1>9. CASE ReplyWSEffect(c)
  BY <1>9 DEF ReplyWSEffect, AfterEffect, Panics, Crashes, Leaves
<1>10. CASE DecideEffect(c) \/ ConnectEffect(c)
  BY <1>10 DEF DecideEffect, ConnectEffect, Leaves, Same
<1>11. CASE OtherEffect(c) \/ BrokenEffect(c)
  BY <1>11 DEF OtherEffect, BrokenEffect, Leaves, Same
<1> QED
  BY <1>1, <1>2, <1>3, <1>4, <1>5, <1>6, <1>7, <1>8, <1>9, <1>10, <1>11,
     FilterRespKeepsRan DEF Effect

(* What a client has been sent went through the response handlers. *)
WentThrough(r) ==
  /\ r.src = "origin" => r.ran = AllRespHandlers
  /\ r.src = "canned" /\ r.kind # "connect" => r.ran = AllRespHandlers
  /\ r.src = "cut" => r.ran = AllRespHandlers
  /\ r.src = "filter" => r.ran \in {AllRespHandlers,
                                    AllRespHandlers \o AllRespHandlers}
FilteredAt(c) == \A i \in DOMAIN replies[c] : WentThrough(replies[c][i])

(* A reply with a response that the chain has been run for, and one that   *)
(* the proxy makes itself, keep this. *)
LEMMA ReplyKeepsFiltered ==
  ASSUME HistOK, NEW c \in Clients, FilteredAt(c), NEW src, Replied(c, src),
         \/ src \in {"error", "nonproxy", "established", "auth407"}
         \/ src = "canned" /\ loc[c].orig.kind = "connect"
         \/ loc[c].ran = AllRespHandlers
         \/ /\ loc[c].ran = AllRespHandlers \o AllRespHandlers
            /\ src \in {"none", "filter"}
  PROVE  FilteredAt(c)'
<1>1. PICK new \in Nat :
        /\ replies'[c][new].src = src /\ replies'[c][new].kind = loc[c].orig.kind
        /\ replies'[c][new].ran = loc[c].ran
        /\ DOMAIN replies'[c] = DOMAIN replies[c] \cup {new}
        /\ \A i \in DOMAIN replies[c] : replies'[c][i] = replies[c][i]
  BY OneMoreReply
<1>2. WentThrough(replies'[c][new])
  BY <1>1 DEF WentThrough
<1> QED
  BY <1>1, <1>2 DEF FilteredAt

(* Every step adds only such replies. *)
LEMMA FilteredStep ==
  ASSUME HistOK, NEW c \in Clients, PlaceAt(c), RanAt(c), FilteredAt(c), Effect(c)
  PROVE  FilteredAt(c)'
<1> DEFINE Filtering ==
             \E src :
               /\ Replied(c, src)
               /\ \/ src \in {"error", "nonproxy", "established", "auth407"}
                  \/ src = "canned" /\ loc[c].orig.kind = "connect"
                  \/ loc[c].ran = AllRespHandlers
                  \/ /\ loc[c].ran = AllRespHandlers \o AllRespHandlers
                     /\ src \in {"none", "filter"}
<1>a. SUFFICES NoReply(c) \/ Filtering
  <2>1. CASE NoReply(c)
    BY <2>1 DEF NoReply, FilteredAt
  <2> QED
    BY <2>1, ReplyKeepsFiltered
<1>0. pc[c] \in {"reply", "wsreply"} =>
        \/ loc[c].ran = AllRespHandlers
        \/ /\ loc[c].ran = AllRespHandlers \o AllRespHandlers
           /\ loc[c].resp.src \in {"none", "filter"} /\ loc[c].mode = "plain"
  BY SMTT(30) DEF RanAt, Handmade
<1>1. CASE \/ ServeEffect(c) \/ ReadEffect(c) \/ FilterReqEffect(c) \/ RouteEffect(c)
           \/ GotEffect(c) \/ FilterRespEffect(c) \/ FilteredEffect(c)
           \/ ServeWSEffect(c) \/ RelayEffect(c) \/ DecideEffect(c)
  BY <1>1
  DEF ServeEffect, ReadEffect, FilterReqEffect, RouteEffect, GotEffect,
      FilterRespEffect, FilteredEffect, ServeWSEffect, RelayEffect, DecideEffect
<1>2. CASE RoundTripEffect(c) \/ OtherEffect(c) \/ BrokenEffect(c)
  BY <1>2 DEF RoundTripEffect, OtherEffect, BrokenEffect
<1>3. CASE ReplyPlainEffect(c)
  BY <1>0, <1>3 DEF ReplyPlainEffect, Source
<1>4. CASE ReplyMitmEffect(c) \/ ReplyHTTPEffect(c) \/ ReplyWSEffect(c)
  BY <1>0, <1>4 DEF ReplyMitmEffect, ReplyHTTPEffect, ReplyWSEffect
<1>5. CASE ConnectEffect(c)
  BY <1>5 DEF ConnectEffect, PlaceAt
<1> QED
  BY <1>1, <1>2, <1>3, <1>4, <1>5 DEF Effect

-----------------------------------------------------------------------------
(* Bodies.  At rest, a connection holds no body open.  While it serves a   *)
(* request each open body is the response's, or one whose close has been   *)
(* deferred; the TLS loop defers only when it writes the reply, so a       *)
(* handler that replaces a body there loses it, and the plain HTTP loop    *)
(* never defers the body that a request handler has borrowed.              *)
Tracked(mode) ==
  \/ mode \in {"plain", "https"}
  \/ ~Replacing /\ (mode = "httpmitm" => ~Lending)
Resting == {"idle", "nonproxy", "done", "https", "connect", "tls", "tunnel"}
Unfiltered(c) ==
  pc[c] = "got" \/ (pc[c] \in {"resph", "reply"} /\ loc[c].mode = "mitm")

BodiesAt(c) ==
  LET l == loc[c]
  IN  /\ 0 \notin l.bodies
      /\ l.resp.made = "empty" => l.resp.body = 0
      /\ pc[c] = "resph" /\ (l.ws \/ l.again) => l.resp.body = 0
      /\ pc[c] = "got" /\ ~Lending /\ l.n \in canned[c] => l.resp.body = 0
      /\ Tracked(l.mode) =>
           /\ pc[c] \in Resting => l.bodies = {}
           /\ Unfiltered(c) => l.bodies \subseteq l.defers \cup {l.resp.body}
           /\ ~Unfiltered(c) => l.bodies \subseteq l.defers

(* Every step keeps hold of the open bodies. *)
LEMMA BodiesStep ==
  ASSUME TypeOK, HistOK, NEW c \in Clients, PlaceAt(c), CannedAt(c), BodiesAt(c),
         RanAt(c), Effect(c)
  PROVE  BodiesAt(c)'
<1>0. /\ loc[c].n \in Nat /\ loc[c].resp \in Responses
      /\ loc[c].bodies \in SUBSET Nat /\ loc[c].defers \in SUBSET Nat
  BY LocTypes
<1>a. /\ pc[c] \in Serving => loc[c].mode \in Loops
      /\ pc[c] \notin {"idle", "done"} => loc[c].n > 0
      /\ pc[c] \in {"idle", "nonproxy"} => loc[c].mode = "plain"
      /\ pc[c] \in {"https", "connect", "tls", "tunnel"} => loc[c].mode = "https"
      /\ pc[c] = "got" => ~loc[c].ws
      /\ pc[c] \notin {"resph", "done"} => ~loc[c].again
  BY DEF PlaceAt, RanAt
<1>b. loc[c].n \in canned[c] => pc[c] # "roundtrip"
  BY DEF CannedAt
<1> USE DEF BodiesAt, Resting, Unfiltered, SameReq, SamePass, SameSide, SameBodies
<1>1. CASE ServeEffect(c) \/ ReadEffect(c)
  BY <1>0, <1>1, <1>a DEF ServeEffect, ReadEffect, Arrived, NoResp, Response, Tracked
<1>2. CASE FilterReqEffect(c)
  BY <1>0, <1>2, <1>a DEF FilterReqEffect, HandledEffect, Crashes, NoSend
<1>3. CASE RouteEffect(c)
  BY <1>0, <1>3, <1>a DEF RouteEffect, Leaves, Crashes, NoSend
<1>4. CASE RoundTripEffect(c)
  BY <1>0, <1>4, <1>a, <1>b
  DEF RoundTripEffect, Leaves, FromOrigin, NoResp, Response
<1>5. CASE GotEffect(c)
  BY <1>0, <1>5, <1>a DEF GotEffect, Leaves, Tracked, Serving, Loops, NoSend
<1>6. CASE FilterRespEffect(c)
  BY <1>0, <1>6, <1>a
  DEF FilterRespEffect, Panics, Crashes, Leaves, Tracked, Serving, Loops,
      NoResp, Response, Responses
<1>7. CASE FilteredEffect(c)
  BY <1>0, <1>7, <1>a DEF FilteredEffect
<1>8. CASE ReplyPlainEffect(c)
  BY <1>0, <1>8 DEF ReplyPlainEffect, Leaves, Same
<1>9. CASE ReplyMitmEffect(c)
  BY <1>0, <1>9 DEF ReplyMitmEffect, Panics, Crashes, Leaves, Same, NoSend
<1>10. CASE ReplyHTTPEffect(c)
  BY <1>0, <1>10 DEF ReplyHTTPEffect, Leaves, Same
<1>11. CASE ServeWSEffect(c)
  BY <1>0, <1>11, <1>a DEF ServeWSEffect, AfterEffect, Leaves, Response
<1>12. CASE ReplyWSEffect(c) \/ RelayEffect(c)
  BY <1>0, <1>12
  DEF ReplyWSEffect, RelayEffect, AfterEffect, Panics, Crashes, Leaves
<1>13. CASE DecideEffect(c)
  BY <1>0, <1>13 DEF DecideEffect, NewResponse, Response
<1>14. CASE ConnectEffect(c)
  BY <1>0, <1>14, <1>a DEF ConnectEffect, Leaves, Same, Tracked
<1>15. CASE OtherEffect(c) \/ BrokenEffect(c)
  BY <1>0, <1>15, <1>a DEF OtherEffect, BrokenEffect, Leaves, Same, NoSend
<1> QED
  BY <1>1, <1>2, <1>3, <1>4, <1>5, <1>6, <1>7, <1>8, <1>9, <1>10, <1>11, <1>12,
     <1>13, <1>14, <1>15 DEF Effect

-----------------------------------------------------------------------------
(* The inductive invariant of the pipeline: of every connection, all of    *)
(* the above.                                                              *)
PipelineAt(c) ==
  /\ PlaceAt(c) /\ ReleasedAt(c) /\ OrderAt(c) /\ CannedAt(c)
  /\ RanAt(c) /\ FilteredAt(c) /\ BodiesAt(c)
PipelineInv == TypeOK /\ HistOK /\ \A c \in Clients : PipelineAt(c)

(* A connection that no step touches keeps what holds of it. *)
LEMMA UntouchedKeepsPipeline ==
  ASSUME NEW d \in Clients, PipelineAt(d), pc'[d] = pc[d], loc'[d] = loc[d],
         canned'[d] = canned[d], sent'[d] = sent[d], replies'[d] = replies[d]
  PROVE  PipelineAt(d)'
<1> USE DEF PipelineAt
<1>1. (PlaceAt(d) /\ ReleasedAt(d))'
  BY DEF PlaceAt, ReleasedAt, Upgrading
<1>2. OrderAt(d)'
  BY DEF OrderAt, OrderOf, InOrder, Due
<1>3. CannedAt(d)'
  BY DEF CannedAt
<1>4. (RanAt(d) /\ FilteredAt(d))'
  BY DEF RanAt, FilteredAt
<1>5. BodiesAt(d)'
  BY DEF BodiesAt, Unfiltered
<1> QED
  BY <1>1, <1>2, <1>3, <1>4, <1>5

(* It holds initially, *)
LEMMA InitPipeline == Init => PipelineInv
<1> SUFFICES ASSUME Init PROVE PipelineInv
  OBVIOUS
<1>1. TypeOK
  BY InitTypes
<1>2. HistOK
  BY DEF Init, HistOK
<1>3. ASSUME NEW c \in Clients PROVE PipelineAt(c)
  <2>1. /\ pc[c] = "idle" /\ loc[c].mode = "plain" /\ loc[c].n = 0
        /\ loc[c].orig = NoReq /\ loc[c].req = NoReq /\ loc[c].resp = NoResp
        /\ loc[c].bodies = {} /\ loc[c].defers = {}
        /\ canned[c] = {} /\ sent[c] = <<>> /\ replies[c] = <<>>
    BY DEF Init
  <2>2. ~loc[c].ws /\ ~loc[c].again
    BY Zenon DEF Init
  <2>3. DOMAIN sent[c] = {} /\ DOMAIN replies[c] = {}
    BY <2>1
  <2>4. PlaceAt(c) /\ ReleasedAt(c)
    BY <2>1, <2>2
    DEF PlaceAt, ReleasedAt, Upgrading, Serving, Loops, NoReq, Request
  <2>5. OrderAt(c) /\ CannedAt(c) /\ FilteredAt(c)
    BY <2>1, <2>3 DEF OrderAt, OrderOf, InOrder, CannedAt, FilteredAt
  <2>6. RanAt(c) /\ BodiesAt(c)
    BY <2>1, <2>2
    DEF RanAt, BodiesAt, Unfiltered, Resting, NoResp, Response
  <2> QED
    BY <2>4, <2>5, <2>6 DEF PipelineAt
<1> QED
  BY <1>1, <1>2, <1>3 DEF PipelineInv

(* and every step of every goroutine keeps it. *)
LEMMA NextPipeline == PipelineInv /\ [Next]_vars => PipelineInv'
<1> SUFFICES ASSUME PipelineInv, [Next]_vars PROVE PipelineInv'
  OBVIOUS
<1>1. TypeOK /\ HistOK /\ TypeOK'
  BY NextTypes DEF PipelineInv
<1>2. CASE UNCHANGED vars
  <2>1. HistOK'
    BY <1>1, <1>2 DEF HistOK, vars
  <2>2. ASSUME NEW d \in Clients PROVE PipelineAt(d)'
    BY <1>2, UntouchedKeepsPipeline DEF PipelineInv, vars
  <2> QED
    BY <1>1, <2>1, <2>2 DEF PipelineInv
<1>3. ASSUME NEW c \in Clients, ClientStep(c) \/ ProxyStep(c)
      PROVE  PipelineInv'
  <2>1. Effect(c) /\ Alone(c)
    BY <1>1, <1>3, StepDoes
  <2>2. PipelineAt(c)
    BY DEF PipelineInv
  <2>3. PipelineAt(c)'
    BY <1>1, <2>1, <2>2, PlaceStep, ReleasedStep, OrderStep, CannedStep, RanStep,
       FilteredStep, BodiesStep DEF PipelineAt
  <2>4. ASSUME NEW d \in Clients \ {c} PROVE PipelineAt(d)'
    BY <2>1, UntouchedKeepsPipeline DEF Alone, PipelineInv
  <2>5. HistOK'
    BY <2>1 DEF Alone
  <2> QED
    BY <1>1, <2>3, <2>4, <2>5 DEF PipelineInv
<1> QED
  BY <1>2, <1>3 DEF Next, Quiet

(* Whatever the handlers and whatever the origins and clients do, a        *)
(* request that a request handler answered is not sent on: not by          *)
(* RoundTrip, not by serveWebsocket, not by the HTTP/2 relay.              *)
THEOREM CannedSkipsOriginHolds == Spec => []CannedSkipsOrigin
<1>1. PipelineInv => CannedSkipsOrigin
  BY DEF PipelineInv, PipelineAt, CannedAt, CannedSkipsOrigin
<1> QED
  BY <1>1, InitPipeline, NextPipeline, PTL DEF Spec

(* Clients get their replies in the order of their requests and one for    *)
(* each, though ServeHTTP goes on after a websocket, loops return early    *)
(* and httpError answers from several places; only a 502 may come behind   *)
(* another reply to the same request: a CONNECT's 200, or the part of a    *)
(* reply whose body broke off in the plain HTTP loop.                      *)
THEOREM RepliesInOrderHolds == Spec => []RepliesInOrder
<1>1. PipelineInv => RepliesInOrder
  BY DEF PipelineInv, PipelineAt, OrderAt, InOrder, RepliesInOrder
<1> QED
  BY <1>1, InitPipeline, NextPipeline, PTL DEF Spec

(* No response of an origin or of a request handler escapes a response     *)
(* handler or meets them in another order than that of their registration. *)
THEOREM RepliesFilteredHolds == Spec => []RepliesFiltered
<1>1. PipelineInv => RepliesFiltered
  BY DEF PipelineInv, PipelineAt, FilteredAt, WentThrough, RepliesFiltered
<1> QED
  BY <1>1, InitPipeline, NextPipeline, PTL DEF Spec

(* ServeHTTP leaves no body of an origin response open, nor do the tunnels *)
(* when response handlers replace nothing.                                 *)
THEOREM BodiesReleasedHolds == Spec => []BodiesReleased
<1>1. PipelineInv => BodiesReleased
  <2> SUFFICES ASSUME PipelineInv, NEW c \in Clients, pc[c] \in {"idle", "done"},
                      \/ loc[c].mode = "plain"
                      \/ ~Replacing /\ (loc[c].mode = "httpmitm" => ~Lending)
               PROVE  loc[c].bodies = {}
    BY DEF BodiesReleased
  <2> QED
    BY DEF PipelineInv, PipelineAt, BodiesAt, Tracked, Resting
<1> QED
  BY <1>1, InitPipeline, NextPipeline, PTL DEF Spec

(* No CONNECT ends with its client connection neither closed, shut down    *)
(* nor handed over (the plain HTTP tunnel apart).                          *)
THEOREM TunnelClientReleasedHolds == Spec => []TunnelClientReleased
<1>1. PipelineInv => TunnelClientReleased
  BY DEF PipelineInv, PipelineAt, ReleasedAt, TunnelClientReleased
<1> QED
  BY <1>1, InitPipeline, NextPipeline, PTL DEF Spec

-----------------------------------------------------------------------------
(* Survival.  A panic of the TLS loop is nobody's to recover.  It takes a  *)
(* response that is nil or lacks a Header, or the URL of a request that    *)
(* has none.  When no request handler answers as main.go's does and no     *)
(* response handler returns nil, the loop has only whole responses; and    *)
(* the requests whose URLs do not parse do no harm if no handler reads     *)
(* their URL and none of them is a websocket upgrade.                      *)
URLsUnread ==
  \A k \in TunnelKinds \cap Unparsable : k # "badws" /\ ~Looking(k)

(* The kinds of request that a CONNECT's goroutine may have in hand. *)
KindAt(c) ==
  loc[c].mode \in {"https", "mitm"} =>
    /\ loc[c].orig.kind \in TunnelKinds \cup {"connect"}
    /\ loc[c].req.kind \in TunnelKinds \cup {"connect", "get"}

WholeAt(c) ==
  loc[c].mode = "mitm" /\ pc[c] \in {"got", "resph", "reply", "wsreply"} =>
    ~IsNil(loc[c].resp) /\ loc[c].resp.made = "full"
SurvivesInv == PipelineInv /\ up /\ \A c \in Clients : KindAt(c) /\ WholeAt(c)

(* Every step keeps the kinds, *)
LEMMA KindStep ==
  ASSUME NEW c \in Clients, PlaceAt(c), KindAt(c), Effect(c)
  PROVE  KindAt(c)'
<1>0. /\ pc[c] \in {"idle", "nonproxy"} => loc[c].mode = "plain"
      /\ pc[c] \in {"https", "connect", "tls", "tunnel"} => loc[c].mode = "https"
  BY DEF PlaceAt
<1> USE DEF KindAt, SameReq, SamePass, SameSide
<1>1. CASE ServeEffect(c) \/ ReadEffect(c)
  BY <1>0, <1>1 DEF ServeEffect, ReadEffect, Arrived
<1>2. CASE FilterReqEffect(c) \/ RouteEffect(c)
  BY <1>2 DEF FilterReqEffect, HandledEffect, RouteEffect, Leaves, Crashes
<1>3. CASE RoundTripEffect(c) \/ GotEffect(c)
  BY <1>3 DEF RoundTripEffect, GotEffect, Leaves
<1>4. CASE FilterRespEffect(c) \/ FilteredEffect(c)
  BY <1>4 DEF FilterRespEffect, FilteredEffect, Panics, Crashes, Leaves
<1>5. CASE ReplyPlainEffect(c) \/ ReplyMitmEffect(c) \/ ReplyHTTPEffect(c)
  BY <1>5
  DEF ReplyPlainEffect, ReplyMitmEffect, ReplyHTTPEffect, Panics, Crashes, Leaves, Same
<1>6. CASE ServeWSEffect(c) \/ ReplyWSEffect(c) \/ RelayEffect(c)
  BY <1>6
  DEF ServeWSEffect, ReplyWSEffect, RelayEffect, AfterEffect, Panics, Crashes, Leaves
<1>7. CASE DecideEffect(c) \/ ConnectEffect(c)
  BY <1>0, <1>7 DEF DecideEffect, ConnectEffect, Leaves, Same
<1>8. CASE OtherEffect(c) \/ BrokenEffect(c)
  BY <1>8 DEF OtherEffect, BrokenEffect, Leaves, Same
<1> QED
  BY <1>1, <1>2, <1>3, <1>4, <1>5, <1>6, <1>7, <1>8 DEF Effect

(* and the connection survives it, with a whole response. *)
LEMMA WholeStep ==
  ASSUME ~Lending, ~Dropping, URLsUnread, TypeOK, NEW c \in Clients,
         PlaceAt(c), KindAt(c), WholeAt(c), up, Effect(c)
  PROVE  up' /\ WholeAt(c)'
<1>0. loc[c].n \in Nat /\ loc[c].resp \in Responses
  BY LocTypes
<1>a. /\ pc[c] \notin {"idle", "done"} => loc[c].n > 0
      /\ pc[c] \in {"https", "connect", "tls"} => loc[c].mode = "https"
  BY DEF PlaceAt
<1>b. ~Blind(c) /\ (loc[c].mode = "mitm" => loc[c].req.kind # "badws")
  BY DEF KindAt, Blind, URLsUnread, Unparsable
<1> USE DEF WholeAt, SameReq, SamePass, SameSide
<1>1. CASE ServeEffect(c) \/ ReadEffect(c)
  BY <1>1 DEF ServeEffect, ReadEffect
<1>9. CASE FilterReqEffect(c) \/ RouteEffect(c)
  BY <1>b, <1>9 DEF FilterReqEffect, HandledEffect, RouteEffect, Leaves, Crashes
<1>2. CASE RoundTripEffect(c)
  BY <1>0, <1>2, <1>a DEF RoundTripEffect, Leaves, FromOrigin, Response, IsNil
<1>3. CASE GotEffect(c) \/ FilteredEffect(c)
  BY <1>3 DEF GotEffect, FilteredEffect, Leaves
<1>4. CASE FilterRespEffect(c)
  <2>1. pc[c] = "resph"
    BY <1>4 DEF FilterRespEffect
  <2>2. CASE Panics(c) /\ (IsNil(loc[c].resp) \/ loc[c].resp.made # "full")
    BY <2>1, <2>2 DEF Panics, Crashes, Leaves
  <2>3. CASE ~(Panics(c) /\ (IsNil(loc[c].resp) \/ loc[c].resp.made # "full"))
    <3>1. /\ up' = up /\ pc'[c] = "resph" /\ loc'[c].mode = loc[c].mode
          /\ \/ loc'[c].resp \in {loc[c].resp, [loc[c].resp EXCEPT !.body = 0]}
             \/ loc'[c].resp = Response(loc[c].n, "filter", "full", 0)
      BY <1>b, <1>4, <2>3 DEF FilterRespEffect
    <3>2. /\ loc'[c].resp.n \in {loc[c].resp.n, loc[c].n}
          /\ loc'[c].resp.made \in {loc[c].resp.made, "full"}
      BY <1>0, <3>1 DEF Response, Responses
    <3> QED
      BY <1>0, <1>a, <2>1, <3>1, <3>2 DEF IsNil
  <2> QED
    BY <2>2, <2>3
<1>5. CASE ReplyPlainEffect(c) \/ ReplyMitmEffect(c) \/ ReplyHTTPEffect(c)
  BY <1>5
  DEF ReplyPlainEffect, ReplyMitmEffect, ReplyHTTPEffect, Panics, Crashes, Leaves, Same
<1>6. CASE ServeWSEffect(c)
  BY <1>0, <1>6, <1>a DEF ServeWSEffect, AfterEffect, Leaves, Response, IsNil
<1>7. CASE ReplyWSEffect(c) \/ RelayEffect(c)
  BY <1>7 DEF ReplyWSEffect, RelayEffect, AfterEffect, Panics, Crashes, Leaves
<1>8. CASE DecideEffect(c) \/ ConnectEffect(c) \/ OtherEffect(c) \/ BrokenEffect(c)
  BY <1>8, <1>a DEF DecideEffect, ConnectEffect, OtherEffect, BrokenEffect, Leaves, Same
<1> QED
  BY <1>1, <1>2, <1>3, <1>4, <1>5, <1>6, <1>7, <1>8, <1>9 DEF Effect

(* Every step of every goroutine survives. *)
LEMMA NextSurvives ==
  ASSUME ~Lending, ~Dropping, URLsUnread
  PROVE  SurvivesInv /\ [Next]_vars => SurvivesInv'
<1> SUFFICES ASSUME SurvivesInv, [Next]_vars PROVE SurvivesInv'
  OBVIOUS
<1>1. PipelineInv /\ PipelineInv' /\ TypeOK /\ HistOK
  BY NextPipeline DEF SurvivesInv, PipelineInv
<1>2. CASE UNCHANGED vars
  BY <1>1, <1>2 DEF SurvivesInv, KindAt, WholeAt, vars
<1>3. ASSUME NEW c \in Clients, ClientStep(c) \/ ProxyStep(c)
      PROVE  SurvivesInv'
  <2>1. Effect(c) /\ Alone(c)
    BY <1>1, <1>3, StepDoes
  <2>2. up' /\ WholeAt(c)' /\ KindAt(c)'
    BY <1>1, <2>1, KindStep, WholeStep DEF SurvivesInv, PipelineInv, PipelineAt
  <2>3. ASSUME NEW d \in Clients \ {c} PROVE WholeAt(d)' /\ KindAt(d)'
    BY <2>1 DEF SurvivesInv, KindAt, WholeAt, Alone
  <2> QED
    BY <1>1, <2>2, <2>3 DEF SurvivesInv
<1> QED
  BY <1>2, <1>3 DEF Next, Quiet

(* If no request handler answers as main.go's cffi handler does (a 502     *)
(* without a Header, an empty response), no response handler returns nil,  *)
(* and of the requests in tunnels whose URL does not parse none is an      *)
(* upgrade and none has its URL read by a handler, then no request,        *)
(* origin, client or interleaving takes the process down.                  *)
THEOREM ServerSurvivesHolds ==
  ASSUME ~Lending, ~Dropping, URLsUnread
  PROVE  Spec => []ServerSurvives
<1>1. Init => SurvivesInv
  <2> SUFFICES ASSUME Init PROVE SurvivesInv
    OBVIOUS
  <2>1. \A c \in Clients : pc[c] = "idle" /\ loc[c].mode = "plain"
    BY DEF Init
  <2>2. up
    BY Zenon DEF Init
  <2> QED
    BY <2>1, <2>2, InitPipeline DEF SurvivesInv, KindAt, WholeAt
<1>2. SurvivesInv => ServerSurvives
  BY DEF SurvivesInv, ServerSurvives
<1>3. SurvivesInv /\ [Next]_vars => SurvivesInv'
  BY NextSurvives
<1> QED
  BY <1>1, <1>2, <1>3, PTL DEF Spec
=============================================================================
