---------------------------- MODULE ProxyProofs -----------------------------
(***************************************************************************)
(* Proofs about Proxy for any set of connections, any number of requests   *)
(* on each and any handler chains: type correctness (with every handler    *)
(* index in range), and that sessions tell requests apart.                 *)
(***************************************************************************)
EXTENDS Proxy, TLAPS

(* Constants that the provers do not type by themselves. *)
LEMMA Values == FALSE \in BOOLEAN /\ TRUE \in BOOLEAN /\ <<>> \in Seq(Nat)
<1>1. FALSE \in BOOLEAN /\ TRUE \in BOOLEAN
  BY Zenon
<1>2. <<>> \in Seq(Nat)
  OBVIOUS
<1> QED
  BY <1>1, <1>2

(* Sequences. *)
LEMMA SeqFacts ==
  ASSUME NEW S, NEW s \in Seq(S)
  PROVE  Len(s) \in Nat /\ DOMAIN s = 1..Len(s) /\ \A i \in DOMAIN s : s[i] \in S
OBVIOUS

(* The handler chains are finite sequences. *)
LEMMA Chains ==
  /\ Len(ReqHandlers) \in Nat /\ DOMAIN ReqHandlers = 1..Len(ReqHandlers)
  /\ \A i \in DOMAIN ReqHandlers : ReqHandlers[i].does \in ReqDeeds
  /\ Len(RespHandlers) \in Nat /\ DOMAIN RespHandlers = 1..Len(RespHandlers)
  /\ \A i \in DOMAIN RespHandlers : RespHandlers[i].does \in RespDeeds
  /\ Len(HttpsHandlers) \in Nat /\ DOMAIN HttpsHandlers = 1..Len(HttpsHandlers)
  /\ \A i \in DOMAIN HttpsHandlers :
       HttpsHandlers[i] \in SUBSET (Actions \cup {"skip", "unauthorized"})
<1> DEFINE HQ == [on : SUBSET Kinds, looks : BOOLEAN, does : ReqDeeds]
           HR == [on : SUBSET Kinds, looks : BOOLEAN, does : RespDeeds]
           HC == SUBSET (Actions \cup {"skip", "unauthorized"})
<1>1. ReqHandlers \in Seq(HQ) /\ RespHandlers \in Seq(HR) /\ HttpsHandlers \in Seq(HC)
  BY HandlersAssumption
<1>2. /\ \A h \in HQ : h.does \in ReqDeeds
      /\ \A h \in HR : h.does \in RespDeeds
  OBVIOUS
<1> HIDE DEF HQ, HR
<1>3. /\ Len(ReqHandlers) \in Nat /\ DOMAIN ReqHandlers = 1..Len(ReqHandlers)
      /\ \A i \in DOMAIN ReqHandlers : ReqHandlers[i] \in HQ
  BY <1>1, SeqFacts
<1>4. /\ Len(RespHandlers) \in Nat /\ DOMAIN RespHandlers = 1..Len(RespHandlers)
      /\ \A i \in DOMAIN RespHandlers : RespHandlers[i] \in HR
  BY <1>1, SeqFacts
<1>5. /\ Len(HttpsHandlers) \in Nat /\ DOMAIN HttpsHandlers = 1..Len(HttpsHandlers)
      /\ \A i \in DOMAIN HttpsHandlers : HttpsHandlers[i] \in HC
  <2> HIDE DEF HC
  <2> QED
    BY <1>1, SeqFacts
<1> QED
  BY <1>2, <1>3, <1>4, <1>5

(* The requests and responses the code makes have their types. *)
LEMMA DataTypes ==
  /\ \A n \in Nat, k \in Kinds : Request(n, k) \in Requests
  /\ NoReq \in Requests /\ NoResp \in Responses
  /\ \A n \in Nat : FromOrigin(n) \in Responses /\ NewResponse(n) \in Responses
  /\ \A n \in Nat, b \in Nat,
        s \in {"none", "origin", "canned", "filter"},
        m \in {"full", "nohdr", "empty"} : Response(n, s, m, b) \in Responses
BY DEF Request, Requests, Kinds, NoReq, NoResp, Responses, Response,
       FromOrigin, NewResponse

(* Updates of a goroutine's locals keep their types. *)
LEMMA LocalsTypes ==
  ASSUME NEW l \in Locals
  PROVE  /\ RunDefers(l) \in Locals
         /\ Hijack(l) \in Locals
         /\ \A st \in {"open", "shut", "closed", "handed"} :
              ClientIs(l, st) \in Locals
         /\ \A h \in Nat : [l EXCEPT !.hix = h] \in Locals
         /\ l.orig \in Requests /\ l.req \in Requests /\ l.resp \in Responses
         /\ l.n \in Nat /\ l.hix \in Nat /\ l.ran \in Seq(Nat)
         /\ l.bodies \in SUBSET Nat /\ l.defers \in SUBSET Nat
BY Values DEF Locals, RunDefers, Hijack, ClientIs

(* What a step keeps when goroutine c moves to p with locals l. *)
LEMMA GotoTypes ==
  ASSUME pc \in [Clients -> Places], loc \in [Clients -> Locals],
         NEW c \in Clients, NEW p \in Places, NEW l \in Locals, Goto(c, p, l)
  PROVE  /\ pc' \in [Clients -> Places] /\ loc' \in [Clients -> Locals]
         /\ pc'[c] = p /\ loc'[c] = l
         /\ \A d \in Clients \ {c} : pc'[d] = pc[d] /\ loc'[d] = loc[d]
BY DEF Goto

(* The same for the whole type invariant. *)
LEMMA StepTypes ==
  ASSUME TypeOK, NEW c \in Clients, NEW p \in Places, NEW l \in Locals,
         Goto(c, p, l), IndexInRange(p, l.hix),
         ctx' \in [Clients -> Contexts], sess' \in Nat, up' \in BOOLEAN
  PROVE  TypeOK'
<1>1. /\ pc' \in [Clients -> Places] /\ loc' \in [Clients -> Locals]
      /\ pc'[c] = p /\ loc'[c] = l
      /\ \A d \in Clients \ {c} : pc'[d] = pc[d] /\ loc'[d] = loc[d]
  BY GotoTypes DEF TypeOK
<1>2. \A d \in Clients : IndexInRange(pc'[d], loc'[d].hix)
  BY <1>1 DEF TypeOK
<1> QED
  BY <1>1, <1>2 DEF TypeOK, IndexInRange

(* Leaving the serving function, by return or by a panic, keeps the types. *)
LEMMA ReturnTypes ==
  ASSUME TypeOK, NEW c \in Clients, UNCHANGED <<ctx, up>>, sess' \in Nat,
         Return(c)
  PROVE  TypeOK'
<1> DEFINE l == RunDefers(IF loc[c].mode = "mitm"
                          THEN ClientIs(loc[c], "closed") ELSE loc[c])
<1>1. l \in Locals /\ Goto(c, "done", l)
  BY LocalsTypes DEF Return, TypeOK
<1>2. "done" \in Places /\ IndexInRange("done", l.hix)
  BY DEF Places, IndexInRange
<1>3. ctx' \in [Clients -> Contexts] /\ up' \in BOOLEAN
  BY DEF TypeOK
<1> HIDE DEF l
<1> QED
  BY <1>1, <1>2, <1>3, StepTypes

(* httpError. *)
LEMMA HttpErrorTypes ==
  ASSUME TypeOK, NEW c \in Clients, UNCHANGED <<ctx, sess, up>>, HttpError(c)
  PROVE  TypeOK'
<1> DEFINE l == RunDefers(ClientIs(loc[c], "closed"))
<1>1. l \in Locals /\ Goto(c, "done", l)
  BY LocalsTypes DEF HttpError, TypeOK
<1>2. "done" \in Places /\ IndexInRange("done", l.hix)
  BY DEF Places, IndexInRange
<1>3. ctx' \in [Clients -> Contexts] /\ up' \in BOOLEAN /\ sess' \in Nat
  BY DEF TypeOK
<1> HIDE DEF l
<1> QED
  BY <1>1, <1>2, <1>3, StepTypes

(* A panic, recovered or not. *)
LEMMA PanicTypes ==
  ASSUME TypeOK, NEW c \in Clients, UNCHANGED <<ctx, sess>>, Panic(c)
  PROVE  TypeOK'
<1>1. CASE loc[c].mode = "mitm"
  <2>1. up' = FALSE /\ UNCHANGED <<pc, loc, ctx, sess>>
    BY <1>1 DEF Panic
  <2>2. up' \in BOOLEAN
    BY <2>1, Zenon
  <2> QED
    BY <2>1, <2>2 DEF TypeOK
<1>2. CASE loc[c].mode # "mitm"
  <2> DEFINE l == RunDefers(IF loc[c].hijacked THEN loc[c]
                            ELSE ClientIs(loc[c], "closed"))
  <2>1. l \in Locals /\ Goto(c, "done", l) /\ UNCHANGED up
    BY <1>2, LocalsTypes DEF Panic, TypeOK
  <2>2. "done" \in Places /\ IndexInRange("done", l.hix)
    BY DEF Places, IndexInRange
  <2>3. ctx' \in [Clients -> Contexts] /\ up' \in BOOLEAN /\ sess' \in Nat
    BY <2>1 DEF TypeOK
  <2> HIDE DEF l
  <2> QED
    BY <2>1, <2>2, <2>3, StepTypes
<1> QED
  BY <1>1, <1>2

(* A move that leaves contexts, sessions and the process alone. *)
LEMMA MoveTypes ==
  ASSUME TypeOK, NEW c \in Clients, NEW p \in Places, NEW l \in Locals,
         Goto(c, p, l), IndexInRange(p, l.hix), UNCHANGED <<ctx, sess, up>>
  PROVE  TypeOK'
<1>1. ctx' \in [Clients -> Contexts] /\ up' \in BOOLEAN /\ sess' \in Nat
  BY DEF TypeOK
<1> QED
  BY <1>1, StepTypes

(* Such a move to a place that uses no handler index. *)
LEMMA MoveAway ==
  ASSUME TypeOK, NEW c \in Clients,
         NEW p \in Places \ {"reqh", "resph", "https"}, NEW l \in Locals,
         Goto(c, p, l), UNCHANGED <<ctx, sess, up>>
  PROVE  TypeOK'
<1>1. IndexInRange(p, l.hix)
  BY DEF IndexInRange
<1> QED
  BY <1>1, MoveTypes

(* A request that has just arrived starts at the first handler. *)
LEMMA FreshTypes ==
  ASSUME TypeOK, NEW c \in Clients, NEW q \in Requests
  PROVE  Fresh(c, q) \in Locals /\ Fresh(c, q).hix = 1
<1>1. loc[c] \in Locals /\ q.n \in Nat
  BY DEF TypeOK, Requests
<1> QED
  BY <1>1, DataTypes, Values DEF Fresh, Locals

(* A new context with the next session. *)
LEMMA NewCtxTypes ==
  ASSUME TypeOK, NEW c \in Clients, NEW q \in Requests, NewCtx(c, q)
  PROVE  ctx' \in [Clients -> Contexts] /\ sess' \in Nat
<1>1. [session |-> sess + 1, req |-> q, err |-> FALSE] \in Contexts
  BY Values DEF TypeOK, Contexts
<1> QED
  BY <1>1 DEF TypeOK, NewCtx

(* A filter begins at the first handler, of an empty chain too. *)
LEMMA FirstIndex == \A p \in Places : IndexInRange(p, 1)
BY Chains DEF IndexInRange

-----------------------------------------------------------------------------
(* The arrival of a request, outside and inside a tunnel. *)
LEMMA ServeHTTPTypes ==
  ASSUME TypeOK, NEW c \in Clients, ServeHTTP(c)
  PROVE  TypeOK'
<1>1. PICK k \in PlainKinds :
        LET q == Request(loc[c].n + 1, k)
        IN  /\ NewCtx(c, q)
            /\ Goto(c, CASE k = "connect" -> "https"
                         [] k = "rel"     -> "nonproxy"
                         [] OTHER         -> "reqh",
                    IF k = "connect"
                    THEN Hijack([Fresh(c, q) EXCEPT !.mode = "https"])
                    ELSE Fresh(c, q))
  BY DEF ServeHTTP
<1> DEFINE q == Request(loc[c].n + 1, k)
           p == CASE k = "connect" -> "https"
                  [] k = "rel"     -> "nonproxy"
                  [] OTHER         -> "reqh"
           l == IF k = "connect"
                THEN Hijack([Fresh(c, q) EXCEPT !.mode = "https"])
                ELSE Fresh(c, q)
<1>2. q \in Requests
  <2>1. k \in Kinds
    BY HandlersAssumption DEF Kinds
  <2>2. loc[c].n + 1 \in Nat
    BY LocalsTypes DEF TypeOK
  <2> QED
    BY <2>1, <2>2, DataTypes
<1>3. Fresh(c, q) \in Locals /\ Fresh(c, q).hix = 1
  BY <1>2, FreshTypes
<1>4. l \in Locals /\ l.hix = 1
  <2> HIDE DEF q
  <2>1. [Fresh(c, q) EXCEPT !.mode = "https"] \in Locals
    BY <1>3 DEF Locals
  <2>2. [Fresh(c, q) EXCEPT !.mode = "https"].hix = 1
    BY <1>3 DEF Locals
  <2>3. Hijack([Fresh(c, q) EXCEPT !.mode = "https"]).hix = 1
    BY <2>1, <2>2 DEF Hijack, Locals
  <2> QED
    BY <1>3, <2>1, <2>3, LocalsTypes
<1>5. p \in Places
  BY DEF Places
<1>6. ctx' \in [Clients -> Contexts] /\ sess' \in Nat /\ up' \in BOOLEAN
  BY <1>1, <1>2, NewCtxTypes DEF ServeHTTP, TypeOK
<1>7. Goto(c, p, l) /\ IndexInRange(p, l.hix)
  BY <1>1, <1>4, <1>5, FirstIndex
<1> HIDE DEF p, l, q
<1> QED
  BY <1>4, <1>5, <1>6, <1>7, StepTypes

(* Types are kept by the arrival of a request in a tunnel, *)
LEMMA ReadRequestTypes ==
  ASSUME TypeOK, NEW c \in Clients, ReadRequest(c)
  PROVE  TypeOK'
<1>1. PICK k \in TunnelKinds :
        LET q == Request(loc[c].n + 1, k)
        IN  /\ IF loc[c].mode = "mitm" THEN NewCtx(c, q)
               ELSE UNCHANGED <<ctx, sess>>
            /\ Goto(c, "reqh", Fresh(c, q))
  BY DEF ReadRequest
<1> DEFINE q == Request(loc[c].n + 1, k)
<1>2. q \in Requests
  <2>1. k \in Kinds
    BY HandlersAssumption DEF Kinds
  <2>2. loc[c].n + 1 \in Nat
    BY LocalsTypes DEF TypeOK
  <2> QED
    BY <2>1, <2>2, DataTypes
<1>3. Fresh(c, q) \in Locals /\ Fresh(c, q).hix = 1
  BY <1>2, FreshTypes
<1>4. ctx' \in [Clients -> Contexts] /\ sess' \in Nat /\ up' \in BOOLEAN
  BY <1>1, <1>2, NewCtxTypes DEF ReadRequest, TypeOK
<1>5. "reqh" \in Places /\ IndexInRange("reqh", 1)
  BY FirstIndex DEF Places
<1>6. Goto(c, "reqh", Fresh(c, q))
  BY <1>1
<1> HIDE DEF q
<1> QED
  BY <1>3, <1>4, <1>5, <1>6, StepTypes

(* What a request handler returns has its type. *)
LEMMA HandleReqTypes ==
  ASSUME NEW i \in DOMAIN ReqHandlers, NEW q \in Requests,
         NEW o \in HandleReq(i, q)
  PROVE  o.orig \in Requests /\ o.req \in Requests /\ o.resp \in Responses
<1> DEFINE mine == [q EXCEPT !.rw = @ \cup {i}]
<1>1. /\ i \in Nat /\ q.n \in Nat /\ ReqHandlers[i].does \in ReqDeeds
      /\ mine \in Requests
  BY Chains DEF Requests
<1>2. \/ o = ReqOutcome(q, q, NoResp, "no")
      \/ o = ReqOutcome(mine, mine, NoResp, "no")
      \/ o = ReqOutcome(q, mine, NoResp, "no")
      \/ o = ReqOutcome(q, NoReq, NewResponse(q.n), "no")
      \/ o = ReqOutcome(q, NoReq, FromOrigin(q.n), "ok")
      \/ o = ReqOutcome(q, q, Response(q.n, "canned", "nohdr", 0), "failed")
      \/ o = ReqOutcome(q, NoReq, Response(q.n, "canned", "empty", 0), "failed")
  BY <1>1 DEF HandleReq, HandleRequest, Matches, ReqDeeds
<1> HIDE DEF mine
<1> QED
  BY <1>1, <1>2, DataTypes DEF ReqOutcome

(* by a request handler, *)
LEMMA FilterRequestTypes ==
  ASSUME TypeOK, NEW c \in Clients, FilterRequest(c)
  PROVE  TypeOK'
<1>1. CASE Panic(c)
  <2>1. UNCHANGED <<ctx, sess>>
    BY DEF FilterRequest
  <2> QED
    BY <1>1, <2>1, PanicTypes
<1>2. CASE ~Panic(c)
  <2>1. PICK o \in HandleReq(loc[c].hix, loc[c].orig) :
          Goto(c, AfterReqHandler(o.resp),
               [loc[c] EXCEPT !.orig = o.orig, !.req = o.req, !.resp = o.resp,
                              !.hix = @ + 1,
                              !.bodies = @ \cup ({o.resp.body} \ {0})])
    BY <1>2 DEF FilterRequest
  <2> DEFINE l == [loc[c] EXCEPT !.orig = o.orig, !.req = o.req, !.resp = o.resp,
                                 !.hix = @ + 1,
                                 !.bodies = @ \cup ({o.resp.body} \ {0})]
  <2>2. loc[c] \in Locals /\ loc[c].hix \in DOMAIN ReqHandlers
    <3>1. pc[c] = "reqh" /\ loc[c].hix <= Len(ReqHandlers)
      BY DEF FilterRequest
    <3> QED
      BY <3>1, Chains DEF TypeOK, IndexInRange
  <2>3. o.orig \in Requests /\ o.req \in Requests /\ o.resp \in Responses
    BY <2>2, LocalsTypes, HandleReqTypes
  <2>4. l \in Locals /\ l.hix = loc[c].hix + 1
    <3>1. o.resp.body \in Nat
      BY <2>3 DEF Responses
    <3>2. loc[c].bodies \cup ({o.resp.body} \ {0}) \in SUBSET Nat
      BY <2>2, <3>1, LocalsTypes
    <3>3. loc[c].hix + 1 \in Nat
      BY <2>2, LocalsTypes
    <3>4. l = [loc[c] EXCEPT !.orig = o.orig, !.req = o.req, !.resp = o.resp,
                             !.hix = loc[c].hix + 1,
                             !.bodies = loc[c].bodies \cup ({o.resp.body} \ {0})]
      BY <2>2 DEF Locals
    <3> QED
      BY <2>2, <2>3, <3>2, <3>3, <3>4 DEF Locals
  <2>5. AfterReqHandler(o.resp) \in {"reqh", "got"}
    BY DEF AfterReqHandler
  <2>6. IndexInRange(AfterReqHandler(o.resp), l.hix)
    BY <2>2, <2>4, <2>5, Chains DEF IndexInRange
  <2>7. AfterReqHandler(o.resp) \in Places
    BY <2>5 DEF Places
  <2>8. UNCHANGED <<ctx, sess, up>>
    BY <1>2 DEF FilterRequest
  <2>9. Goto(c, AfterReqHandler(o.resp), l)
    BY <2>1
  <2> HIDE DEF l
  <2> QED
    BY <2>4, <2>6, <2>7, <2>8, <2>9, MoveTypes
<1> QED
  BY <1>1, <1>2

(* by what follows the request handlers, *)
LEMMA RouteTypes ==
  ASSUME TypeOK, NEW c \in Clients, Route(c)
  PROVE  TypeOK'
<1>1. UNCHANGED <<ctx, sess>> /\ sess' \in Nat
  BY DEF Route, TypeOK
<1>2. CASE Return(c) /\ UNCHANGED up
  BY <1>1, <1>2, ReturnTypes
<1>3. ASSUME NEW p \in {"h2", "ws", "roundtrip"}, Goto(c, p, loc[c]), UNCHANGED up
      PROVE  TypeOK'
  <2>1. p \in Places \ {"reqh", "resph", "https"} /\ loc[c] \in Locals
    BY DEF Places, TypeOK
  <2> QED
    BY <1>1, <1>3, <2>1, MoveAway
<1> QED
  BY <1>1, <1>2, <1>3, PanicTypes DEF Route

(* by a round trip, *)
LEMMA RoundTripTypes ==
  ASSUME TypeOK, NEW c \in Clients, RoundTrip(c)
  PROVE  TypeOK'
<1> DEFINE l == [loc[c] EXCEPT !.hix = 1, !.ran = <<>>, !.ws = FALSE]
           n == loc[c].n
           good == [l EXCEPT !.resp = FromOrigin(n), !.bodies = @ \cup {n}]
           bad == [l EXCEPT !.resp = NoResp, !.again = TRUE]
<1>1. UNCHANGED <<sess, up>> /\ sess' \in Nat /\ up' \in BOOLEAN
  BY DEF RoundTrip, TypeOK
<1>2. loc[c] \in Locals /\ n \in Nat
  BY LocalsTypes DEF TypeOK
<1>3. l \in Locals /\ l.hix = 1
  BY <1>2, Values DEF Locals
<1>4. good \in Locals /\ good.hix = 1
  <2> HIDE DEF l
  <2>1. FromOrigin(n) \in Responses /\ l.bodies \cup {n} \in SUBSET Nat
    BY <1>2, <1>3, DataTypes, LocalsTypes
  <2> QED
    BY <1>3, <2>1 DEF Locals
<1>5. bad \in Locals /\ bad.hix = 1
  <2> HIDE DEF l
  <2> QED
    BY <1>3, DataTypes, Values DEF Locals
<1>6. \/ Goto(c, "got", good) /\ UNCHANGED ctx
      \/ ctx' = [ctx EXCEPT ![c].err = TRUE] /\ Goto(c, "resph", bad)
      \/ Return(c) /\ UNCHANGED ctx
      \/ HttpError(c) /\ UNCHANGED ctx
  BY DEF RoundTrip
<1>7. CASE Goto(c, "got", good) /\ UNCHANGED ctx
  <2> HIDE DEF good
  <2>1. "got" \in Places \ {"reqh", "resph", "https"}
    BY DEF Places
  <2> QED
    BY <1>1, <1>4, <1>7, <2>1, MoveAway
<1>8. CASE ctx' = [ctx EXCEPT ![c].err = TRUE] /\ Goto(c, "resph", bad)
  <2> HIDE DEF bad
  <2>1. ctx' \in [Clients -> Contexts]
    BY <1>8, Values DEF TypeOK, Contexts
  <2>2. "resph" \in Places /\ IndexInRange("resph", bad.hix)
    BY <1>5, FirstIndex DEF Places
  <2> QED
    BY <1>1, <1>5, <1>8, <2>1, <2>2, StepTypes
<1>9. CASE Return(c) /\ UNCHANGED ctx
  BY <1>1, <1>9, ReturnTypes
<1>10. CASE HttpError(c) /\ UNCHANGED ctx
  BY <1>1, <1>10, HttpErrorTypes
<1> QED
  BY <1>6, <1>7, <1>8, <1>9, <1>10

(* by what the loops do with its result, *)
LEMMA GotTypes ==
  ASSUME TypeOK, NEW c \in Clients, Got(c)
  PROVE  TypeOK'
<1> DEFINE l == [loc[c] EXCEPT !.hix = 1]
           d == [l EXCEPT !.defers = @ \cup ({l.resp.body} \ {0})]
<1>1. UNCHANGED <<ctx, sess>>
  BY DEF Got
<1>2. l \in Locals /\ l.hix = 1
  BY ZenonT(30) DEF TypeOK, Locals
<1>3. d \in Locals /\ d.hix = 1
  <2> HIDE DEF l
  <2>1. l.resp.body \in Nat /\ l.defers \in SUBSET Nat
    BY <1>2 DEF Locals, Responses
  <2>2. l.defers \cup ({l.resp.body} \ {0}) \in SUBSET Nat
    BY <2>1
  <2> QED
    BY <1>2, <2>2 DEF Locals
<1>4. \/ Panic(c)
      \/ Goto(c, "resph", l) /\ UNCHANGED up
      \/ Goto(c, "resph", d) /\ UNCHANGED up
  BY DEF Got
<1>5. "resph" \in Places /\ IndexInRange("resph", 1)
  BY FirstIndex DEF Places
<1> HIDE DEF l, d
<1> QED
  BY <1>1, <1>2, <1>3, <1>4, <1>5, PanicTypes, MoveTypes

(* What a response handler returns has its type. *)
LEMMA HandleRespTypes ==
  ASSUME NEW c, NEW i \in DOMAIN RespHandlers, NEW rs \in Responses,
         loc[c].n \in Nat, NEW new \in HandleResp(c, i, rs)
  PROVE  new \in Responses
<1>1. \/ new = rs
      \/ new = Response(loc[c].n, "filter", "full", 0)
      \/ new = NoResp
      \/ new = [rs EXCEPT !.body = 0]
  BY Chains DEF HandleResp, RespDeeds
<1>2. [rs EXCEPT !.body = 0] \in Responses
  BY DEF Responses
<1> QED
  BY <1>1, <1>2, DataTypes

(* by a response handler, *)
LEMMA FilterResponseTypes ==
  ASSUME TypeOK, NEW c \in Clients, FilterResponse(c)
  PROVE  TypeOK'
<1> DEFINE i == loc[c].hix
           rs == loc[c].resp
           l(new) == [loc[c] EXCEPT
                        !.resp = new, !.hix = @ + 1, !.ran = Append(@, i),
                        !.bodies = IF RespHandlers[i].does = "bytes" /\ new # rs
                                   THEN @ \ {rs.body} ELSE @]
<1>1. UNCHANGED <<ctx, sess>>
  BY DEF FilterResponse
<1>2. /\ loc[c] \in Locals /\ i \in DOMAIN RespHandlers /\ i \in Nat
      /\ loc[c].n \in Nat /\ rs \in Responses
  <2>1. loc[c] \in Locals
    BY DEF TypeOK
  <2>2. i \in 1..Len(RespHandlers)
    <3>1. pc[c] = "resph" /\ i <= Len(RespHandlers)
      BY DEF FilterResponse
    <3>2. IndexInRange(pc[c], i)
      BY DEF TypeOK
    <3> QED
      BY <3>1, <3>2, Chains DEF IndexInRange
  <2> HIDE DEF i
  <2> QED
    BY <2>1, <2>2, Chains, LocalsTypes
<1>3. CASE Panic(c)
  BY <1>1, <1>3, PanicTypes
<1>4. CASE /\ \E new \in HandleResp(c, i, rs) : Goto(c, "resph", l(new))
           /\ UNCHANGED up
  <2>1. PICK new \in HandleResp(c, i, rs) : Goto(c, "resph", l(new))
    BY <1>4
  <2>2. new \in Responses
    BY <1>2, HandleRespTypes
  <2> DEFINE bs == IF RespHandlers[i].does = "bytes" /\ new # rs
                   THEN loc[c].bodies \ {rs.body} ELSE loc[c].bodies
  <2>3. bs \in SUBSET Nat /\ Append(loc[c].ran, i) \in Seq(Nat) /\ i + 1 \in Nat
    BY <1>2, LocalsTypes
  <2>4. l(new) = [loc[c] EXCEPT !.resp = new, !.hix = i + 1,
                                !.ran = Append(loc[c].ran, i), !.bodies = bs]
    BY <1>2 DEF Locals
  <2>5. l(new) \in Locals /\ l(new).hix = i + 1
    <3> HIDE DEF bs
    <3> QED
      BY <1>2, <2>2, <2>3, <2>4 DEF Locals
  <2>6. "resph" \in Places /\ IndexInRange("resph", i + 1)
    BY <1>2, Chains DEF Places, IndexInRange
  <2> HIDE DEF l, i
  <2> QED
    BY <1>1, <1>4, <2>1, <2>5, <2>6, MoveTypes
<1> QED
  BY <1>3, <1>4 DEF FilterResponse

(* by what follows the response handlers, *)
LEMMA FilteredTypes ==
  ASSUME TypeOK, NEW c \in Clients, Filtered(c)
  PROVE  TypeOK'
<1> DEFINE p == IF loc[c].ws THEN "wsreply"
                ELSE IF loc[c].again THEN "got" ELSE "reply"
           l == [loc[c] EXCEPT !.again = FALSE]
<1>1. UNCHANGED <<ctx, sess, up>> /\ Goto(c, p, l)
  BY DEF Filtered
<1>2. p \in Places \ {"reqh", "resph", "https"}
  BY DEF Places
<1>3. l \in Locals
  BY Values, ZenonT(30) DEF TypeOK, Locals
<1> HIDE DEF p, l
<1> QED
  BY <1>1, <1>2, <1>3, MoveAway

(* The three ways a reply is written. *)
LEMMA ReplyTypes ==
  ASSUME TypeOK, NEW c \in Clients,
         ReplyPlain(c) \/ ReplyMitm(c) \/ ReplyHTTPMitm(c) \/ Broken(c)
  PROVE  TypeOK'
<1> DEFINE shut == [loc[c] EXCEPT !.bodies = @ \ {loc[c].resp.body}]
           keep == [loc[c] EXCEPT !.defers = @ \cup ({loc[c].resp.body} \ {0})]
<1>1. UNCHANGED <<ctx, sess>>
  BY DEF ReplyPlain, ReplyMitm, ReplyHTTPMitm, Broken
<1>2. loc[c] \in Locals
  BY DEF TypeOK
<1>3. shut \in Locals
  <2>1. loc[c].bodies \ {loc[c].resp.body} \in SUBSET Nat
    BY <1>2, LocalsTypes
  <2> QED
    BY <1>2, <2>1 DEF Locals
<1>4. keep \in Locals
  <2>1. loc[c].resp.body \in Nat
    BY <1>2 DEF Locals, Responses
  <2>2. loc[c].defers \cup ({loc[c].resp.body} \ {0}) \in SUBSET Nat
    BY <1>2, <2>1, LocalsTypes
  <2> QED
    BY <1>2, <2>2 DEF Locals
<1>5. /\ RunDefers(shut) \in Locals /\ ClientIs(RunDefers(shut), "closed") \in Locals
      /\ RunDefers(ClientIs(keep, "closed")) \in Locals
  <2> HIDE DEF shut, keep
  <2>1. RunDefers(shut) \in Locals /\ ClientIs(keep, "closed") \in Locals
    BY <1>3, <1>4, LocalsTypes
  <2> QED
    BY <2>1, LocalsTypes
<1>6. {"idle", "done", "mread", "broken"} \subseteq Places \ {"reqh", "resph", "https"}
  BY DEF Places
<1>7. \/ Panic(c)
      \/ UNCHANGED up /\ \/ Goto(c, "idle", RunDefers(shut))
                         \/ Goto(c, "done", ClientIs(RunDefers(shut), "closed"))
                         \/ Goto(c, "done", RunDefers(shut))
                         \/ Goto(c, "mread", keep)
                         \/ Goto(c, "done", RunDefers(ClientIs(keep, "closed")))
                         \/ Goto(c, "mread", shut)
                         \/ Goto(c, "broken", loc[c])
                         \/ HttpError(c)
  <2>1. CASE ReplyPlain(c)
    BY <2>1 DEF ReplyPlain
  <2>2. CASE ReplyMitm(c)
    BY <2>2 DEF ReplyMitm
  <2>3. CASE ReplyHTTPMitm(c)
    BY <2>3 DEF ReplyHTTPMitm
  <2>4. CASE Broken(c)
    BY <2>4 DEF Broken
  <2> QED
    BY <2>1, <2>2, <2>3, <2>4
<1> HIDE DEF shut, keep
<1> QED
  BY <1>1, <1>2, <1>3, <1>4, <1>5, <1>6, <1>7, PanicTypes, HttpErrorTypes, MoveAway

(* Websockets. *)
LEMMA AfterWebsocketTypes ==
  ASSUME TypeOK, NEW c \in Clients, NEW l \in Locals,
         UNCHANGED <<ctx, sess, up>>, AfterWebsocket(c, l)
  PROVE  TypeOK'
<1>1. "roundtrip" \in Places \ {"reqh", "resph", "https"} /\ sess' \in Nat
  BY DEF Places, TypeOK
<1> QED
  BY <1>1, MoveAway, ReturnTypes DEF AfterWebsocket

(* by websockets, *)
LEMMA WebsocketTypes ==
  ASSUME TypeOK, NEW c \in Clients,
         ServeWebsocket(c) \/ ReplyWebsocket(c) \/ RelayEnds(c)
  PROVE  TypeOK'
<1> DEFINE l == Hijack(loc[c])
           upgraded == [l EXCEPT !.resp = Response(l.n, "origin", "full", 0),
                                 !.ws = TRUE, !.hix = 1, !.ran = <<>>]
<1>1. UNCHANGED <<ctx, sess>>
  BY DEF ServeWebsocket, ReplyWebsocket, RelayEnds
<1>2. loc[c] \in Locals /\ l \in Locals
  BY LocalsTypes DEF TypeOK
<1>3. upgraded \in Locals /\ upgraded.hix = 1
  <2> HIDE DEF l
  <2>1. Response(l.n, "origin", "full", 0) \in Responses
    BY <1>2, LocalsTypes, DataTypes
  <2> QED
    BY <1>2, <2>1, Values DEF Locals
<1>4. \/ Panic(c)
      \/ UNCHANGED up /\ \/ AfterWebsocket(c, loc[c])
                         \/ AfterWebsocket(c, l)
                         \/ Goto(c, "resph", upgraded)
                         \/ Goto(c, "relay", loc[c])
  BY DEF ServeWebsocket, ReplyWebsocket, RelayEnds
<1>5. /\ "relay" \in Places \ {"reqh", "resph", "https"}
      /\ "resph" \in Places /\ IndexInRange("resph", 1)
  BY FirstIndex DEF Places
<1> HIDE DEF l, upgraded
<1> QED
  BY <1>1, <1>2, <1>3, <1>4, <1>5, PanicTypes, AfterWebsocketTypes, MoveAway,
     MoveTypes

(* CONNECT. *)
LEMMA HandleConnectTypes ==
  ASSUME TypeOK, NEW c \in Clients, HandleConnect(c)
  PROVE  TypeOK'
<1> DEFINE i == loc[c].hix
           to(a) == [loc[c] EXCEPT !.todo = a]
           next == [loc[c] EXCEPT !.hix = @ + 1]
           no == BasicUnauthorized(loc[c])
<1>1. UNCHANGED <<ctx, sess, up>>
  BY DEF HandleConnect
<1>2. loc[c] \in Locals /\ i \in 1..Len(HttpsHandlers)
  <2>1. pc[c] = "https" /\ i <= Len(HttpsHandlers)
    BY DEF HandleConnect
  <2>2. IndexInRange(pc[c], i) /\ loc[c] \in Locals
    BY DEF TypeOK
  <2> QED
    BY <2>1, <2>2, Chains DEF IndexInRange
<1>3. next \in Locals /\ next.hix = i + 1
  <2>1. next = [loc[c] EXCEPT !.hix = i + 1] /\ i + 1 \in Nat
    BY <1>2, LocalsTypes
  <2> HIDE DEF i, next
  <2> QED
    BY <1>2, <2>1 DEF Locals
<1>4. no \in Locals
  <2>1. NewResponse(loc[c].n) \in Responses
    BY <1>2, LocalsTypes, DataTypes
  <2> QED
    BY <1>2, <2>1 DEF Locals, Actions, BasicUnauthorized
<1>5. \A a \in Actions : to(a) \in Locals
  BY <1>2 DEF Locals
<1>6. \/ Goto(c, "https", next)
      \/ Goto(c, "connect", no)
      \/ \E a \in Actions : Goto(c, "connect", to(a))
  <2>1. PICK d \in HttpsHandlers[i] :
          Goto(c, IF d = "skip" THEN "https" ELSE "connect",
               CASE d = "skip" -> next
                 [] d = "unauthorized" -> no
                 [] d \in Actions -> to(d))
    BY DEF HandleConnect
  <2>2. d = "skip" \/ d = "unauthorized" \/ d \in Actions
    BY <1>2, Chains
  <2>3. "skip" \notin Actions /\ "unauthorized" \notin Actions
    BY DEF Actions
  <2> HIDE DEF next, no, to
  <2> QED
    BY <2>1, <2>2, <2>3
<1>7. /\ "connect" \in Places \ {"reqh", "resph", "https"}
      /\ "https" \in Places /\ IndexInRange("https", i + 1)
  BY <1>2, Chains DEF Places, IndexInRange
<1> HIDE DEF next, no, to, i
<1> QED
  BY <1>1, <1>3, <1>4, <1>5, <1>6, <1>7, MoveTypes, MoveAway

(* and by what follows the decision about a CONNECT. *)
LEMMA ConnectTypes ==
  ASSUME TypeOK, NEW c \in Clients,
         \/ OkConnect(c) \/ ConnectAccept(c) \/ ConnectHTTPMitm(c)
         \/ ConnectMitm(c) \/ TLSHandshake(c) \/ ConnectHijack(c)
         \/ ConnectProxyAuthHijack(c) \/ ConnectReject(c) \/ TunnelEnds(c)
  PROVE  TypeOK'
<1> DEFINE in(m) == [loc[c] EXCEPT !.mode = m]
           accept == [loc[c] EXCEPT !.todo = "accept"]
<1>1. UNCHANGED <<ctx, sess, up>> /\ sess' \in Nat
  BY DEF OkConnect, ConnectAccept, ConnectHTTPMitm, ConnectMitm, Connect,
         TLSHandshake, ConnectHijack, ConnectProxyAuthHijack, ConnectReject,
         TunnelEnds, TypeOK
<1>2. loc[c] \in Locals
  BY DEF TypeOK
<1>3. in("httpmitm") \in Locals /\ in("mitm") \in Locals /\ accept \in Locals
  BY <1>2 DEF Locals, Actions
<1>4. \A st \in {"shut", "closed", "handed"} : ClientIs(loc[c], st) \in Locals
  BY <1>2, LocalsTypes
<1>5. \/ HttpError(c) \/ Return(c)
      \/ Goto(c, "connect", accept)
      \/ Goto(c, "tunnel", loc[c]) \/ Goto(c, "tls", loc[c])
      \/ Goto(c, "mread", in("httpmitm")) \/ Goto(c, "mread", in("mitm"))
      \/ \E st \in {"shut", "closed", "handed"} :
           Goto(c, "done", ClientIs(loc[c], st))
  BY DEF OkConnect, ConnectAccept, ConnectHTTPMitm, ConnectMitm,
         TLSHandshake, ConnectHijack, ConnectProxyAuthHijack, ConnectReject,
         TunnelEnds
<1>6. {"connect", "tunnel", "tls", "mread", "done"}
        \subseteq Places \ {"reqh", "resph", "https"}
  BY DEF Places
<1> HIDE DEF in, accept
<1> QED
  BY <1>1, <1>2, <1>3, <1>4, <1>5, <1>6, HttpErrorTypes, ReturnTypes, MoveAway

(* The other steps. *)
LEMMA OtherTypes ==
  ASSUME TypeOK, NEW c \in Clients,
         ClientLeaves(c) \/ NonproxyHandler(c) \/ ReadFails(c) \/ ServeH2(c)
  PROVE  TypeOK'
<1>1. CASE ReadFails(c) \/ ServeH2(c)
  <2>1. /\ UNCHANGED <<ctx, up>> /\ Return(c)
        /\ sess' = sess \/ sess' = sess + 1
    BY <1>1 DEF ReadFails, ServeH2
  <2>2. sess' \in Nat
    BY <2>1 DEF TypeOK
  <2> QED
    BY <2>1, <2>2, ReturnTypes
<1>2. CASE ClientLeaves(c) \/ NonproxyHandler(c)
  <2>1. /\ UNCHANGED <<ctx, sess, up>>
        /\ \/ Goto(c, "done", ClientIs(loc[c], "closed"))
           \/ Goto(c, "idle", loc[c])
    BY <1>2 DEF ClientLeaves, NonproxyHandler
  <2>2. loc[c] \in Locals /\ ClientIs(loc[c], "closed") \in Locals
    BY LocalsTypes DEF TypeOK
  <2>3. {"done", "idle"} \subseteq Places \ {"reqh", "resph", "https"}
    BY DEF Places
  <2> QED
    BY <2>1, <2>2, <2>3, MoveAway
<1> QED
  BY <1>1, <1>2

(* The proxy starts in its types. *)
LEMMA InitTypes == Init => TypeOK
<1> SUFFICES ASSUME Init PROVE TypeOK
  OBVIOUS
<1> DEFINE l0 == [mode |-> "plain", n |-> 0, orig |-> NoReq, req |-> NoReq,
                  resp |-> NoResp, hix |-> 1, ran |-> <<>>, again |-> FALSE,
                  ws |-> FALSE, hijacked |-> FALSE, todo |-> "accept",
                  bodies |-> {}, defers |-> {}, client |-> "open"]
           x0 == [session |-> 0, req |-> NoReq, err |-> FALSE]
<1>1. l0 \in Locals /\ x0 \in Contexts
  BY DataTypes, Values DEF Locals, Contexts, Actions
<1>2. "idle" \in Places /\ IndexInRange("idle", l0.hix)
  BY DEF Places, IndexInRange
<1>3. /\ pc = [c \in Clients |-> "idle"] /\ loc = [c \in Clients |-> l0]
      /\ ctx = [c \in Clients |-> x0] /\ sess \in Nat
  BY DEF Init
<1>4. up \in BOOLEAN
  BY Zenon DEF Init
<1> HIDE DEF l0, x0
<1> QED
  BY <1>1, <1>2, <1>3, <1>4 DEF TypeOK

(* Every step of every goroutine keeps the types. *)
LEMMA NextTypes == TypeOK /\ [Next]_vars => TypeOK'
<1> SUFFICES ASSUME TypeOK, [Next]_vars PROVE TypeOK'
  OBVIOUS
<1>1. CASE UNCHANGED vars
  BY <1>1 DEF vars, TypeOK
<1>2. ASSUME NEW c \in Clients, ClientStep(c) PROVE TypeOK'
  BY <1>2, ServeHTTPTypes, OtherTypes, ReadRequestTypes, WebsocketTypes,
     ConnectTypes DEF ClientStep
<1>3. ASSUME NEW c \in Clients, ProxyStep(c) PROVE TypeOK'
  BY <1>3, OtherTypes, FilterRequestTypes, RouteTypes, RoundTripTypes, GotTypes,
     FilterResponseTypes, FilteredTypes, ReplyTypes, WebsocketTypes,
     HandleConnectTypes, ConnectTypes DEF ProxyStep
<1> QED
  BY <1>1, <1>2, <1>3 DEF Next, Quiet

(* The proxy keeps its locals, contexts and counters well typed and never  *)
(* indexes a handler chain out of range, whatever handlers are registered. *)
THEOREM TypeCorrect == Spec => []TypeOK
BY InitTypes, NextTypes, PTL DEF Spec

-----------------------------------------------------------------------------
(* Sessions.  SessionUnique is not inductive: it needs that no two         *)
(* connections share a session, that sessions in use and on record are not *)
(* ahead of the counter, and that what is on record under a connection's   *)
(* session is about that connection's current request.                     *)
ModeInv ==
  \A c \in Clients :
    /\ pc[c] \in {"https", "connect", "tls"} => loc[c].mode = "https"
    /\ pc[c] = "mread" => loc[c].mode \in {"mitm", "httpmitm"}
    /\ pc[c] \notin {"idle", "done"} => ctx[c].session > 0

CtxInv ==
  /\ \A c \in Clients : ctx[c].session <= sess
  /\ \A c, d \in Clients :
       c # d /\ ctx[c].session = ctx[d].session => ctx[c].session = 0

SeenInv ==
  /\ \A e \in seen : e.session \in Nat /\ 0 < e.session /\ e.session <= sess
  /\ \A e \in seen, c \in Clients :
       e.session = ctx[c].session =>
         /\ e.c = c
         /\ e.mode # "httpmitm" /\ loc[c].mode # "httpmitm" => e.n = loc[c].n

SessionInv == TypeOK /\ ModeInv /\ CtxInv /\ SeenInv /\ SessionUnique

(* A step that stays with its request keeps the session invariant, whether *)
(* or not it calls a handler with the connection's context.                *)
LEMMA StillKeepsSessions ==
  ASSUME SessionInv, TypeOK', NEW c \in Clients,
         \A d \in Clients : ctx'[d].session = ctx[d].session,
         sess' = sess \/ sess' = sess + 1,
         \/ seen' = seen
         \/ (\E ph : Called(c, ph)) /\ pc[c] \notin {"idle", "done"},
         \A d \in Clients : \/ loc'[d].mode = "httpmitm"
                            \/ /\ loc'[d].n = loc[d].n
                               /\ loc[d].mode # "httpmitm",
         ModeInv'
  PROVE  SessionInv'
<1> USE DEF SessionInv
<1>1. /\ sess \in Nat /\ sess' \in Nat /\ sess <= sess'
      /\ \A d \in Clients : ctx[d].session \in Nat
  BY DEF TypeOK, Contexts
<1>2. CtxInv'
  BY <1>1 DEF CtxInv
<1>3. ASSUME NEW e \in seen', e \notin seen
      PROVE  /\ e.c = c /\ e.n = loc[c].n /\ e.mode = loc[c].mode
             /\ e.session = ctx[c].session /\ 0 < ctx[c].session
  <2>1. (\E ph : Called(c, ph)) /\ pc[c] \notin {"idle", "done"}
    BY <1>3
  <2>2. ctx[c].session > 0
    BY <2>1 DEF ModeInv
  <2> QED
    BY <1>1, <1>3, <2>1, <2>2 DEF Called
<1>4. SeenInv'
  <2>1. ASSUME NEW e \in seen'
        PROVE  e.session \in Nat /\ 0 < e.session /\ e.session <= sess'
    <3>1. CASE e \in seen
      BY <1>1, <3>1 DEF SeenInv
    <3>2. CASE e \notin seen
      BY <1>1, <1>3, <3>2 DEF CtxInv
    <3> QED
      BY <3>1, <3>2
  <2>2. ASSUME NEW e \in seen', NEW d \in Clients, e.session = ctx'[d].session
        PROVE  /\ e.c = d
               /\ e.mode # "httpmitm" /\ loc'[d].mode # "httpmitm"
                    => e.n = loc'[d].n
    <3>1. CASE e \in seen
      BY <2>2, <3>1 DEF SeenInv
    <3>2. CASE e \notin seen
      <4>1. e.session = ctx[c].session /\ 0 < ctx[c].session
        BY <1>3, <3>2
      <4>2. ctx[c].session = ctx[d].session /\ ctx[c].session # 0
        <5>1. ctx'[d].session = ctx[d].session
          OBVIOUS
        <5>2. ctx[c].session = ctx[d].session
          BY <2>2, <4>1, <5>1
        <5>3. ctx[c].session # 0
          BY <1>1, <4>1
        <5> QED
          BY <5>2, <5>3
      <4>3. c = d
        BY <4>2 DEF CtxInv
      <4> QED
        BY <1>3, <3>2, <4>3
    <3> QED
      BY <3>1, <3>2
  <2> QED
    BY <2>1, <2>2 DEF SeenInv
<1>5. SessionUnique'
  <2> SUFFICES ASSUME NEW a \in seen', NEW b \in seen', a.session = b.session,
                      a.mode # "httpmitm", b.mode # "httpmitm"
               PROVE  a.c = b.c /\ a.n = b.n
    BY DEF SessionUnique
  <2>1. CASE a \in seen /\ b \in seen
    BY <2>1 DEF SessionUnique
  <2>2. CASE a \in seen /\ b \notin seen
    BY <1>3, <2>2 DEF SeenInv
  <2>3. CASE a \notin seen /\ b \in seen
    BY <1>3, <2>3 DEF SeenInv
  <2>4. CASE a \notin seen /\ b \notin seen
    BY <1>3, <2>4
  <2> QED
    BY <2>1, <2>2, <2>3, <2>4
<1> QED
  BY <1>2, <1>4, <1>5

(* A request with a new context and the next session keeps it too. *)
LEMMA ArrivalKeepsSessions ==
  ASSUME SessionInv, TypeOK', NEW c \in Clients, NEW q,
         NewCtx(c, q), seen' = seen, ModeInv',
         \A d \in Clients \ {c} : loc'[d] = loc[d]
  PROVE  SessionInv'
<1> USE DEF SessionInv
<1>1. /\ sess \in Nat /\ sess' = sess + 1 /\ ctx'[c].session = sess + 1
      /\ \A d \in Clients : ctx[d].session \in Nat
      /\ \A d \in Clients \ {c} : ctx'[d].session = ctx[d].session
  BY DEF TypeOK, NewCtx, Contexts
<1>2. CtxInv'
  BY <1>1 DEF CtxInv
<1>3. SeenInv'
  BY <1>1 DEF SeenInv
<1>4. SessionUnique'
  BY DEF SessionUnique
<1> QED
  BY <1>2, <1>3, <1>4

(* Goroutine c moves and the others stay where they are. *)
LEMMA Moves ==
  ASSUME TypeOK, NEW c \in Clients, NEW p, NEW l, Goto(c, p, l)
  PROVE  /\ pc'[c] = p /\ loc'[c] = l
         /\ \A d \in Clients \ {c} : pc'[d] = pc[d] /\ loc'[d] = loc[d]
BY DEF TypeOK, Goto

(* A goroutine with a request in hand goes to p with locals l of the same  *)
(* request, or of any request in the plain HTTP tunnel.                    *)
Keeps(c, p, l) ==
  /\ Goto(c, p, l)
  /\ l.mode = "httpmitm" \/ (l.n = loc[c].n /\ loc[c].mode # "httpmitm")
  /\ p \in {"https", "connect", "tls"} => l.mode = "https"
  /\ p = "mread" => l.mode \in {"mitm", "httpmitm"}
  /\ p \in {"idle", "done"} \/ pc[c] \notin {"idle", "done"}

(* Such a step keeps the sessions apart. *)
LEMMA KeepsSessions ==
  ASSUME SessionInv, TypeOK', NEW c \in Clients, NEW p, NEW l, Keeps(c, p, l),
         \A d \in Clients : ctx'[d].session = ctx[d].session,
         sess' = sess \/ sess' = sess + 1,
         \/ seen' = seen
         \/ (\E ph : Called(c, ph)) /\ pc[c] \notin {"idle", "done"}
  PROVE  SessionInv'
<1>1. /\ pc'[c] = p /\ loc'[c] = l
      /\ \A d \in Clients \ {c} : pc'[d] = pc[d] /\ loc'[d] = loc[d]
  BY Moves DEF SessionInv, Keeps
<1>2. ModeInv'
  BY <1>1 DEF SessionInv, ModeInv, Keeps
<1>3. \A d \in Clients : \/ loc'[d].mode = "httpmitm"
                         \/ /\ loc'[d].n = loc[d].n
                            /\ loc[d].mode # "httpmitm"
  BY <1>1 DEF Keeps
<1> QED
  BY <1>2, <1>3, StillKeepsSessions

(* A goroutine that leaves, by return, by an error or by a panic, keeps    *)
(* the session invariant.                                                  *)
LEMMA LeavingKeepsSessions ==
  ASSUME SessionInv, TypeOK', NEW c \in Clients,
         \A d \in Clients : ctx'[d].session = ctx[d].session,
         sess' = sess \/ sess' = sess + 1,
         \/ seen' = seen
         \/ (\E ph : Called(c, ph)) /\ pc[c] \notin {"idle", "done"},
         Return(c) \/ HttpError(c) \/ Panic(c)
  PROVE  SessionInv'
<1>1. loc[c] \in Locals
  BY DEF SessionInv, TypeOK
<1>2. CASE UNCHANGED <<pc, loc>>
  <2>1. ModeInv'
    BY <1>2 DEF SessionInv, ModeInv
  <2> QED
    BY <1>2, <2>1, StillKeepsSessions
<1>3. CASE Return(c) \/ HttpError(c) \/ (Panic(c) /\ loc[c].mode # "mitm")
  <2>1. PICK l : /\ Goto(c, "done", l)
                 /\ \/ l = RunDefers(loc[c])
                    \/ l = RunDefers(ClientIs(loc[c], "closed"))
    BY <1>3 DEF Return, HttpError, Panic
  <2>2. l.n = loc[c].n /\ l.mode = loc[c].mode
    BY <1>1, <2>1 DEF RunDefers, ClientIs, Locals
  <2>3. Keeps(c, "done", l)
    BY <2>1, <2>2 DEF Keeps
  <2> QED
    BY <2>3, KeepsSessions
<1> QED
  BY <1>2, <1>3 DEF Panic

(* The steps that bring a request. *)
LEMMA ServeHTTPSessions ==
  ASSUME SessionInv, TypeOK', NEW c \in Clients, ServeHTTP(c)
  PROVE  SessionInv'
<1>0. PICK k \in PlainKinds : \E p, l :
        /\ NewCtx(c, Request(loc[c].n + 1, k)) /\ Goto(c, p, l)
        /\ p \in {"https", "nonproxy", "reqh"}
        /\ p = "https" => l = Hijack([Fresh(c, Request(loc[c].n + 1, k))
                                        EXCEPT !.mode = "https"])
  BY DEF ServeHTTP
<1>1. PICK p, l :
        /\ NewCtx(c, Request(loc[c].n + 1, k)) /\ Goto(c, p, l)
        /\ p \in {"https", "nonproxy", "reqh"}
        /\ p = "https" => l = Hijack([Fresh(c, Request(loc[c].n + 1, k))
                                        EXCEPT !.mode = "https"])
  BY <1>0
<1>2. /\ pc'[c] = p /\ loc'[c] = l
      /\ \A d \in Clients \ {c} : pc'[d] = pc[d] /\ loc'[d] = loc[d]
  BY <1>1, Moves DEF SessionInv
<1>3. p = "https" => l.mode = "https"
  <2>1. loc[c] \in Locals
    BY DEF SessionInv, TypeOK
  <2> QED
    BY <1>1, <2>1 DEF Hijack, Fresh, Locals
<1>4. /\ ctx'[c].session = sess + 1 /\ sess \in Nat
      /\ \A d \in Clients \ {c} : ctx'[d] = ctx[d]
  BY <1>1 DEF SessionInv, TypeOK, NewCtx
<1>5. ModeInv'
  BY <1>1, <1>2, <1>3, <1>4 DEF SessionInv, ModeInv
<1>6. seen' = seen
  BY DEF ServeHTTP, hist
<1> QED
  BY <1>1, <1>2, <1>5, <1>6, ArrivalKeepsSessions

(* A request in the TLS loop takes a session of its own. *)
LEMMA ReadRequestSessions ==
  ASSUME SessionInv, TypeOK', NEW c \in Clients, ReadRequest(c)
  PROVE  SessionInv'
<1>1. PICK k \in TunnelKinds :
        /\ IF loc[c].mode = "mitm" THEN NewCtx(c, Request(loc[c].n + 1, k))
           ELSE UNCHANGED <<ctx, sess>>
        /\ Goto(c, "reqh", Fresh(c, Request(loc[c].n + 1, k)))
  BY DEF ReadRequest
<1> DEFINE q == Request(loc[c].n + 1, k)
           l == Fresh(c, q)
<1>2. pc[c] = "mread" /\ loc[c].mode \in {"mitm", "httpmitm"} /\ seen' = seen
  BY DEF ReadRequest, hist, SessionInv, ModeInv
<1>3. l.mode = loc[c].mode
  BY DEF SessionInv, TypeOK, Locals, Fresh
<1> HIDE DEF q, l
<1>4. CASE loc[c].mode = "mitm"
  <2>1. /\ pc'[c] = "reqh"
        /\ \A d \in Clients \ {c} : pc'[d] = pc[d] /\ loc'[d] = loc[d]
    BY <1>1, Moves DEF SessionInv
  <2>2. NewCtx(c, q)
    BY <1>1, <1>4 DEF q
  <2>3. /\ ctx'[c].session = sess + 1 /\ sess \in Nat
        /\ \A d \in Clients \ {c} : ctx'[d] = ctx[d]
    BY <2>2 DEF SessionInv, TypeOK, NewCtx
  <2>4. ModeInv'
    BY <2>1, <2>3 DEF SessionInv, ModeInv
  <2> QED
    BY <1>2, <2>1, <2>2, <2>4, ArrivalKeepsSessions
<1>5. CASE loc[c].mode = "httpmitm"
  <2>1. Keeps(c, "reqh", l)
    BY <1>1, <1>2, <1>3, <1>5 DEF Keeps, l, q
  <2> QED
    BY <1>1, <1>2, <1>5, <2>1, KeepsSessions
<1> QED
  BY <1>2, <1>4, <1>5

(* A goroutine that goes on with its request, outside the CONNECT code. *)
LEMMA WorkKeepsSessions ==
  ASSUME SessionInv, TypeOK', NEW c \in Clients, NEW p, NEW l, Goto(c, p, l),
         l.n = loc[c].n, l.mode = loc[c].mode,
         p \notin {"https", "connect", "tls", "mread"},
         pc[c] \notin {"idle", "done"},
         \A d \in Clients : ctx'[d].session = ctx[d].session,
         sess' = sess \/ sess' = sess + 1,
         seen' = seen \/ \E ph : Called(c, ph)
  PROVE  SessionInv'
<1>1. Keeps(c, p, l)
  BY DEF Keeps
<1> QED
  BY <1>1, KeepsSessions

(* A request handler is called with its request's session. *)
LEMMA FilterRequestSessions ==
  ASSUME SessionInv, TypeOK', NEW c \in Clients, FilterRequest(c)
  PROVE  SessionInv'
<1>0. pc[c] = "reqh" /\ Called(c, "req") /\ UNCHANGED <<ctx, sess>>
  BY DEF FilterRequest
<1>1. CASE Panic(c)
  BY <1>0, <1>1, LeavingKeepsSessions
<1>2. CASE ~Panic(c)
  <2>1. PICK o \in HandleReq(loc[c].hix, loc[c].orig) :
          Goto(c, AfterReqHandler(o.resp),
               [loc[c] EXCEPT !.orig = o.orig, !.req = o.req, !.resp = o.resp,
                              !.hix = @ + 1,
                              !.bodies = @ \cup ({o.resp.body} \ {0})])
    BY <1>2 DEF FilterRequest
  <2> DEFINE l == [loc[c] EXCEPT !.orig = o.orig, !.req = o.req, !.resp = o.resp,
                                 !.hix = @ + 1,
                                 !.bodies = @ \cup ({o.resp.body} \ {0})]
  <2>2. l.n = loc[c].n /\ l.mode = loc[c].mode
    BY DEF SessionInv, TypeOK, Locals
  <2>3. AfterReqHandler(o.resp) \in {"reqh", "got"}
    BY DEF AfterReqHandler
  <2> HIDE DEF l
  <2>5. Goto(c, AfterReqHandler(o.resp), l)
    BY <2>1 DEF l
  <2> QED
    BY <1>0, <2>2, <2>3, <2>5, WorkKeepsSessions
<1> QED
  BY <1>1, <1>2

(* What follows the request handlers calls none. *)
LEMMA RouteSessions ==
  ASSUME SessionInv, TypeOK', NEW c \in Clients, Route(c)
  PROVE  SessionInv'
<1>1. pc[c] = "reqh" /\ UNCHANGED <<ctx, sess, seen>>
  BY DEF Route, hist
<1>2. \/ Return(c) \/ Panic(c)
      \/ \E p \in {"h2", "ws", "roundtrip"} : Goto(c, p, loc[c])
  BY DEF Route
<1> QED
  BY <1>1, <1>2, LeavingKeepsSessions, WorkKeepsSessions

(* A round trip calls none. *)
LEMMA RoundTripSessions ==
  ASSUME SessionInv, TypeOK', NEW c \in Clients, RoundTrip(c)
  PROVE  SessionInv'
<1> DEFINE l == [loc[c] EXCEPT !.hix = 1, !.ran = <<>>, !.ws = FALSE]
           good == [l EXCEPT !.resp = FromOrigin(loc[c].n),
                             !.bodies = @ \cup {loc[c].n}]
           bad == [l EXCEPT !.resp = NoResp, !.again = TRUE]
<1>1. /\ pc[c] = "roundtrip" /\ sess' = sess /\ seen' = seen
      /\ ctx' = ctx \/ ctx' = [ctx EXCEPT ![c].err = TRUE]
  BY DEF RoundTrip
<1>2. \A d \in Clients : ctx'[d].session = ctx[d].session
  BY <1>1 DEF SessionInv, TypeOK, Contexts
<1>3. /\ good.n = loc[c].n /\ good.mode = loc[c].mode
      /\ bad.n = loc[c].n /\ bad.mode = loc[c].mode
  BY DEF SessionInv, TypeOK, Locals
<1>4. Goto(c, "got", good) \/ Goto(c, "resph", bad) \/ Return(c) \/ HttpError(c)
  BY DEF RoundTrip
<1> HIDE DEF good, bad
<1> QED
  BY <1>1, <1>2, <1>3, <1>4, LeavingKeepsSessions, WorkKeepsSessions

(* A response handler is called with its request's session. *)
LEMMA ResponseSessions ==
  ASSUME SessionInv, TypeOK', NEW c \in Clients,
         Got(c) \/ FilterResponse(c) \/ Filtered(c)
  PROVE  SessionInv'
<1> DEFINE i == loc[c].hix
           rs == loc[c].resp
           l == [loc[c] EXCEPT !.hix = 1]
           defer == [l EXCEPT !.defers = @ \cup ({l.resp.body} \ {0})]
           after(new) == [loc[c] EXCEPT
                            !.resp = new, !.hix = @ + 1, !.ran = Append(@, i),
                            !.bodies = IF RespHandlers[i].does = "bytes" /\ new # rs
                                       THEN @ \ {rs.body} ELSE @]
           once == [loc[c] EXCEPT !.again = FALSE]
<1>1. /\ pc[c] \in {"got", "resph"} /\ UNCHANGED <<ctx, sess>>
      /\ seen' = seen \/ Called(c, "resp")
  BY DEF Got, FilterResponse, Filtered, hist
<1>2. /\ l.n = loc[c].n /\ l.mode = loc[c].mode
      /\ defer.n = loc[c].n /\ defer.mode = loc[c].mode
      /\ once.n = loc[c].n /\ once.mode = loc[c].mode
  BY DEF SessionInv, TypeOK, Locals
<1>3. \A new : after(new).n = loc[c].n /\ after(new).mode = loc[c].mode
  BY SMTT(30) DEF SessionInv, TypeOK, Locals
<1>4. \/ Panic(c)
      \/ Goto(c, "resph", l) \/ Goto(c, "resph", defer)
      \/ \E new : Goto(c, "resph", after(new))
      \/ \E p \in {"wsreply", "got", "reply"} : Goto(c, p, once)
  <2>1. CASE Got(c)
    BY <2>1, ZenonT(30) DEF Got
  <2>2. CASE FilterResponse(c)
    BY <2>2 DEF FilterResponse
  <2>3. CASE Filtered(c)
    BY <2>3 DEF Filtered
  <2> QED
    BY <2>1, <2>2, <2>3
<1> HIDE DEF l, defer, after, once
<1>5. CASE Panic(c)
  BY <1>1, <1>5, LeavingKeepsSessions
<1> QED
  BY <1>1, <1>2, <1>3, <1>4, <1>5, WorkKeepsSessions

(* A reply ends a request, or its connection. *)
LEMMA ReplySessions ==
  ASSUME SessionInv, TypeOK', NEW c \in Clients,
         ReplyPlain(c) \/ ReplyMitm(c) \/ ReplyHTTPMitm(c) \/ Broken(c)
  PROVE  SessionInv'
<1> DEFINE shut == [loc[c] EXCEPT !.bodies = @ \ {loc[c].resp.body}]
           keep == [loc[c] EXCEPT !.defers = @ \cup ({loc[c].resp.body} \ {0})]
<1>1. pc[c] \in {"reply", "broken"} /\ UNCHANGED <<ctx, sess, seen>>
  BY DEF ReplyPlain, ReplyMitm, ReplyHTTPMitm, Broken
<1>2. \A l \in {shut, keep, RunDefers(shut), ClientIs(RunDefers(shut), "closed"),
                RunDefers(ClientIs(keep, "closed"))} :
        l.n = loc[c].n /\ l.mode = loc[c].mode
  <2>1. loc[c] \in Locals
    BY DEF SessionInv, TypeOK
  <2>2. \A l \in {shut, keep} : l.n = loc[c].n /\ l.mode = loc[c].mode
    BY <2>1 DEF Locals
  <2>3. \A l \in {RunDefers(shut), ClientIs(RunDefers(shut), "closed")} :
          l.n = loc[c].n /\ l.mode = loc[c].mode
    BY <2>1 DEF Locals, RunDefers, ClientIs
  <2>4. /\ RunDefers(ClientIs(keep, "closed")).n = loc[c].n
        /\ RunDefers(ClientIs(keep, "closed")).mode = loc[c].mode
    BY <2>1 DEF Locals, RunDefers, ClientIs
  <2> HIDE DEF shut, keep
  <2> QED
    BY <2>2, <2>3, <2>4
<1>3. \/ Panic(c)
      \/ \E p \in {"idle", "done"},
            l \in {RunDefers(shut), ClientIs(RunDefers(shut), "closed"),
                   RunDefers(ClientIs(keep, "closed"))} : Goto(c, p, l)
      \/ HttpError(c)
      \/ Goto(c, "broken", loc[c])
      \/ Goto(c, "mread", keep) /\ loc[c].mode = "mitm"
      \/ Goto(c, "mread", shut) /\ loc[c].mode = "httpmitm"
  <2>1. CASE ReplyPlain(c)
    BY <2>1 DEF ReplyPlain
  <2>2. CASE ReplyMitm(c)
    BY <2>2 DEF ReplyMitm
  <2>3. CASE ReplyHTTPMitm(c)
    BY <2>3 DEF ReplyHTTPMitm
  <2>4. CASE Broken(c)
    BY <2>4 DEF Broken
  <2> QED
    BY <2>1, <2>2, <2>3, <2>4
<1> HIDE DEF shut, keep
<1>4. CASE \/ Goto(c, "mread", keep) /\ loc[c].mode = "mitm"
           \/ Goto(c, "mread", shut) /\ loc[c].mode = "httpmitm"
  <2>1. Keeps(c, "mread", keep) \/ Keeps(c, "mread", shut)
    BY <1>1, <1>2, <1>4 DEF Keeps
  <2> QED
    BY <1>1, <2>1, KeepsSessions
<1> QED
  BY <1>1, <1>2, <1>3, <1>4, LeavingKeepsSessions, WorkKeepsSessions

(* A websocket keeps the session of its upgrade. *)
LEMMA WebsocketSessions ==
  ASSUME SessionInv, TypeOK', NEW c \in Clients,
         ServeWebsocket(c) \/ ReplyWebsocket(c) \/ RelayEnds(c)
  PROVE  SessionInv'
<1> DEFINE l == Hijack(loc[c])
           upgraded == [l EXCEPT !.resp = Response(l.n, "origin", "full", 0),
                                 !.ws = TRUE, !.hix = 1, !.ran = <<>>]
<1>1. pc[c] \in {"ws", "wsreply", "relay"} /\ UNCHANGED <<ctx, sess, seen>>
  BY DEF ServeWebsocket, ReplyWebsocket, RelayEnds, hist
<1>2. /\ l.n = loc[c].n /\ l.mode = loc[c].mode
      /\ upgraded.n = loc[c].n /\ upgraded.mode = loc[c].mode
  BY DEF SessionInv, TypeOK, Locals, Hijack
<1>3. \/ Panic(c) \/ Return(c)
      \/ Goto(c, "roundtrip", loc[c]) \/ Goto(c, "roundtrip", l)
      \/ Goto(c, "resph", upgraded) \/ Goto(c, "relay", loc[c])
  BY DEF ServeWebsocket, ReplyWebsocket, RelayEnds, AfterWebsocket
<1> HIDE DEF l, upgraded
<1> QED
  BY <1>1, <1>2, <1>3, LeavingKeepsSessions, WorkKeepsSessions

(* A tunnel begins with the session of its CONNECT. *)
LEMMA ConnectSessions ==
  ASSUME SessionInv, TypeOK', NEW c \in Clients,
         \/ OkConnect(c) \/ ConnectAccept(c) \/ ConnectHTTPMitm(c)
         \/ ConnectMitm(c) \/ TLSHandshake(c) \/ ConnectHijack(c)
         \/ ConnectProxyAuthHijack(c) \/ ConnectReject(c) \/ TunnelEnds(c)
  PROVE  SessionInv'
<1> DEFINE in(m) == [loc[c] EXCEPT !.mode = m]
           accept == [loc[c] EXCEPT !.todo = "accept"]
<1>1. /\ UNCHANGED <<ctx, sess, seen>>
      /\ pc[c] \in {"https", "connect", "tls", "tunnel"}
  BY DEF OkConnect, ConnectAccept, ConnectHTTPMitm, ConnectMitm, Connect,
         TLSHandshake, ConnectHijack, ConnectProxyAuthHijack, ConnectReject,
         TunnelEnds, hist
<1>2. /\ \A m : in(m).n = loc[c].n /\ in(m).mode = m
      /\ accept.n = loc[c].n /\ accept.mode = loc[c].mode
      /\ \A st : /\ ClientIs(loc[c], st).n = loc[c].n
                 /\ ClientIs(loc[c], st).mode = loc[c].mode
  BY DEF SessionInv, TypeOK, Locals, ClientIs
<1>3. \/ HttpError(c) \/ Return(c)
      \/ Goto(c, "tunnel", loc[c])
      \/ \E st \in {"shut", "closed", "handed"} :
           Goto(c, "done", ClientIs(loc[c], st))
      \/ /\ pc[c] \in {"https", "connect", "tls"}
         /\ \/ Goto(c, "connect", accept) \/ Goto(c, "tls", loc[c])
            \/ Goto(c, "mread", in("httpmitm")) \/ Goto(c, "mread", in("mitm"))
  BY DEF OkConnect, ConnectAccept, ConnectHTTPMitm, ConnectMitm, Connect,
         TLSHandshake, ConnectHijack, ConnectProxyAuthHijack, ConnectReject,
         TunnelEnds
<1>4. pc[c] \in {"https", "connect", "tls"} => loc[c].mode = "https"
  BY DEF SessionInv, ModeInv
<1> HIDE DEF in, accept
<1>5. CASE /\ pc[c] \in {"https", "connect", "tls"}
           /\ \/ Goto(c, "connect", accept) \/ Goto(c, "tls", loc[c])
              \/ Goto(c, "mread", in("httpmitm")) \/ Goto(c, "mread", in("mitm"))
  <2>1. \/ Keeps(c, "connect", accept) \/ Keeps(c, "tls", loc[c])
        \/ Keeps(c, "mread", in("httpmitm")) \/ Keeps(c, "mread", in("mitm"))
    BY <1>2, <1>4, <1>5 DEF Keeps
  <2> QED
    BY <1>1, <2>1, KeepsSessions
<1> QED
  BY <1>1, <1>2, <1>3, <1>5, LeavingKeepsSessions, WorkKeepsSessions

(* An https handler is called with the session of the CONNECT. *)
LEMMA HandleConnectSessions ==
  ASSUME SessionInv, TypeOK', NEW c \in Clients, HandleConnect(c)
  PROVE  SessionInv'
<1>1. /\ UNCHANGED <<ctx, sess>> /\ Called(c, "connect")
      /\ pc[c] = "https" /\ loc[c].mode = "https"
  BY DEF HandleConnect, SessionInv, ModeInv
<1> DEFINE next == [loc[c] EXCEPT !.hix = @ + 1]
           no == BasicUnauthorized(loc[c])
           to(a) == [loc[c] EXCEPT !.todo = a]
<1>2. /\ next.n = loc[c].n /\ next.mode = loc[c].mode
      /\ no.n = loc[c].n /\ no.mode = loc[c].mode
      /\ \A a : to(a).n = loc[c].n /\ to(a).mode = loc[c].mode
  BY DEF SessionInv, TypeOK, Locals, BasicUnauthorized
<1>3. loc[c].hix \in DOMAIN HttpsHandlers
  <2>1. pc[c] = "https" /\ loc[c].hix <= Len(HttpsHandlers)
    BY DEF HandleConnect
  <2>2. IndexInRange(pc[c], loc[c].hix)
    BY DEF SessionInv, TypeOK
  <2> QED
    BY <2>1, <2>2, Chains DEF IndexInRange
<1>4. \E p \in {"https", "connect"} :
        Goto(c, p, next) \/ Goto(c, p, no) \/ \E a : Goto(c, p, to(a))
  <2>1. PICK d \in HttpsHandlers[loc[c].hix] :
          Goto(c, IF d = "skip" THEN "https" ELSE "connect",
               CASE d = "skip" -> next
                 [] d = "unauthorized" -> no
                 [] d \in Actions -> to(d))
    BY DEF HandleConnect
  <2>2. d = "skip" \/ d = "unauthorized" \/ d \in Actions
    BY <1>3, Chains
  <2>3. "skip" \notin Actions /\ "unauthorized" \notin Actions
    BY DEF Actions
  <2> HIDE DEF next, no, to
  <2> QED
    BY <2>1, <2>2, <2>3
<1> HIDE DEF next, no, to
<1>5. \E p, l : Keeps(c, p, l)
  BY <1>1, <1>2, <1>4 DEF Keeps
<1> QED
  BY <1>1, <1>5, KeepsSessions

(* Steps that begin or end a connection. *)
LEMMA OtherSessions ==
  ASSUME SessionInv, TypeOK', NEW c \in Clients,
         ClientLeaves(c) \/ NonproxyHandler(c) \/ ReadFails(c) \/ ServeH2(c)
  PROVE  SessionInv'
<1>1. UNCHANGED <<ctx, seen>> /\ (sess' = sess \/ sess' = sess + 1)
  BY DEF ClientLeaves, NonproxyHandler, ReadFails, ServeH2, hist
<1>2. CASE ReadFails(c) \/ ServeH2(c)
  BY <1>1, <1>2, LeavingKeepsSessions DEF ReadFails, ServeH2
<1>3. CASE ClientLeaves(c) \/ NonproxyHandler(c)
  <2>1. \/ Goto(c, "done", ClientIs(loc[c], "closed"))
        \/ Goto(c, "idle", loc[c])
    BY <1>3 DEF ClientLeaves, NonproxyHandler
  <2>2. /\ ClientIs(loc[c], "closed").n = loc[c].n
        /\ ClientIs(loc[c], "closed").mode = loc[c].mode
    BY DEF SessionInv, TypeOK, Locals, ClientIs
  <2>3. Keeps(c, "done", ClientIs(loc[c], "closed")) \/ Keeps(c, "idle", loc[c])
    BY <2>1, <2>2 DEF Keeps
  <2> QED
    BY <1>1, <2>3, KeepsSessions
<1> QED
  BY <1>2, <1>3

(* No session is in use at first. *)
LEMMA InitSessions == Init => SessionInv
BY InitTypes DEF Init, SessionInv, ModeInv, CtxInv, SeenInv, SessionUnique

(* Every step of every goroutine keeps the sessions apart. *)
LEMMA NextSessions == SessionInv /\ [Next]_vars => SessionInv'
<1> SUFFICES ASSUME SessionInv, [Next]_vars PROVE SessionInv'
  OBVIOUS
<1>1. TypeOK'
  BY NextTypes DEF SessionInv
<1>2. CASE UNCHANGED vars
  BY <1>1, <1>2 DEF vars, SessionInv, ModeInv, CtxInv, SeenInv, SessionUnique
<1>3. ASSUME NEW c \in Clients, ClientStep(c) PROVE SessionInv'
  BY <1>1, <1>3, ServeHTTPSessions, OtherSessions, ReadRequestSessions,
     WebsocketSessions, ConnectSessions DEF ClientStep
<1>4. ASSUME NEW c \in Clients, ProxyStep(c) PROVE SessionInv'
  BY <1>1, <1>4, OtherSessions, FilterRequestSessions, RouteSessions,
     RoundTripSessions, ResponseSessions, ReplySessions, WebsocketSessions,
     HandleConnectSessions, ConnectSessions DEF ProxyStep
<1> QED
  BY <1>2, <1>3, <1>4 DEF Next, Quiet

(* However many connections run at once and however their requests and     *)
(* tunnels interleave, the session number of a ProxyCtx belongs to one     *)
(* request of one connection (the plain HTTP tunnel apart).                *)
THEOREM SessionsTellRequestsApart == Spec => []SessionUnique
<1>1. SessionInv => SessionUnique
  BY DEF SessionInv
<1> QED
  BY <1>1, InitSessions, NextSessions, PTL DEF Spec
=============================================================================
