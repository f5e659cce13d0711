----------------------------- MODULE Transport ------------------------------
(***************************************************************************)
(* goproxy/transport/transport.go: the pool of persistent connections, the *)
(* round trip of a caller and the readLoop of each connection.             *)
(*                                                                         *)
(* Callers, readLoops and servers interleave; a step ends where the code   *)
(* takes a lock, uses a channel or waits for the network.  A caller makes  *)
(* one request, and with it comes the response body it has to finish.      *)
(* Servers and dials are environment.                                      *)
(***************************************************************************)
EXTENDS Integers, Sequences, FiniteSets

CONSTANTS Callers,              \* goroutines in DetailedRoundTrip
          Conns,                \* persistConns that can be made
          Methods,              \* connectMethods of the requests
          MaxIdleConnsPerHost,
          DisableKeepAlives,
          BodyEnds,             \* how callers finish a body
          ServerCloses,         \* when a server closes its connection
          ReplyCloses,          \* whether a reply may ask for a close
          DialErrors,           \* how getConn may fail
          MaxJunk               \* bound: unsolicited replies

(* A connectMethod: proxyURL is set or nil, the scheme and the address. *)
ConnectMethods == [proxy : BOOLEAN, scheme : {"http", "https"}, addr : Nat]

ASSUME TransportAssumption ==
  /\ IsFiniteSet(Callers)
  /\ Methods \subseteq ConnectMethods /\ Methods # {}
  /\ MaxIdleConnsPerHost \in Int /\ MaxJunk \in Nat
  /\ DisableKeepAlives \in BOOLEAN
  /\ BodyEnds \subseteq {"eof", "close", "closeerr"}
  /\ ServerCloses \in {"never", "owing", "any"}
  /\ ReplyCloses \subseteq BOOLEAN
  /\ DialErrors \subseteq {"dial", "connect", "tls"}
  /\ {"none", "err", "junk"} \cap Callers = {}
  /\ "none" \notin Conns

VARIABLES idleConn,  \* t.idleConn; <<>> stands for a key that is absent
          pconn,     \* the persistConns, their readLoops and servers
          call,      \* the callers and their bodies
          junk       \* unsolicited replies sent so far

vars == <<idleConn, pconn, call, junk>>

DefaultMaxIdleConnsPerHost == 2
MaxIdle == IF MaxIdleConnsPerHost = 0 THEN DefaultMaxIdleConnsPerHost
           ELSE MaxIdleConnsPerHost

(* connectMethod.String(): the key under which a connection is pooled.     *)
(* Mistake: the address is left out.                                       *)
CacheKeyNoAddr(cm) == <<cm.proxy, cm.scheme>>

CacheKey(cm) == <<cm.proxy, cm.scheme, cm.addr>>

Keys == {CacheKey(cm) : cm \in Methods}

-----------------------------------------------------------------------------
(* Updates of a persistConn; the socket is closed whenever broken is set.  *)
CloseLocked(p) == [p EXCEPT !.broken = TRUE, !.sock = "closed"]

(* A connection on which a read returns at once: data, EOF or closed. *)
Readable(p) == p.inbox # <<>> \/ p.eof \/ p.sock = "closed"

(* Mistake: a connection for which the pool has no room is let go open. *)
PutIdleConnDrops(c, p) ==
  LET key == CacheKey(p.cm)
  IN  IF Len(idleConn[key]) >= MaxIdle \/ p.broken \/ DisableKeepAlives
      THEN /\ UNCHANGED idleConn
           /\ pconn' = [pconn EXCEPT ![c] = [p EXCEPT !.alive = FALSE]]
      ELSE /\ idleConn' = [idleConn EXCEPT ![key] = Append(@, c)]
           /\ pconn' = [pconn EXCEPT ![c] = p]

(* Mistake: the pool may grow one beyond its limit. *)
PutIdleConnOneMore(c, p) ==
  LET key == CacheKey(p.cm)
  IN  IF Len(idleConn[key]) > MaxIdle \/ p.broken \/ DisableKeepAlives
      THEN /\ UNCHANGED idleConn
           /\ pconn' = [pconn EXCEPT ![c] = CloseLocked([p EXCEPT !.alive = FALSE])]
      ELSE /\ idleConn' = [idleConn EXCEPT ![key] = Append(@, c)]
           /\ pconn' = [pconn EXCEPT ![c] = p]

(* putIdleConn of connection c, whose state is p by now; a false result    *)
(* clears readLoop's alive.                                                *)
PutIdleConn(c, p) ==
  LET key  == CacheKey(p.cm)
      over == \/ DisableKeepAlives \/ MaxIdleConnsPerHost < 0
              \/ ~p.broken /\ Len(idleConn[key]) >= MaxIdle
  IN  IF over \/ p.broken
      THEN /\ pconn' = [pconn EXCEPT
                          ![c] = [IF over THEN CloseLocked(p) ELSE p
                                    EXCEPT !.alive = FALSE]]
           /\ UNCHANGED idleConn
      ELSE /\ idleConn' = [idleConn EXCEPT ![key] = Append(@, c)]
           /\ pconn' = [pconn EXCEPT ![c] = p]

-----------------------------------------------------------------------------
(* Callers.  Place g is at: "start", "dial", "begin", "write", "send",     *)
(* "await", then with a body "body", "put", "signal", "clear"; "done".     *)
Step(g, p, r) == call' = [call EXCEPT ![g] = [r EXCEPT !.pc = p]]

(* roundTrip or getConn returns an error. *)
Fail(g) == Step(g, "done", [call[g] EXCEPT !.res = "err"])

(* The connections of a pool that are not broken. *)
Good(key) == {i \in DOMAIN idleConn[key] : ~pconn[idleConn[key][i]].broken}

(* Mistake: the connection stays in the pool. *)
GetIdleConnKeeps(g) ==
  LET key == CacheKey(call[g].cm)
  IN  /\ call[g].pc = "start"
      /\ IF Good(key) = {} THEN Step(g, "dial", call[g])
         ELSE \E i \in Good(key) :
                Step(g, "begin", [call[g] EXCEPT !.conn = idleConn[key][i]])
      /\ UNCHANGED <<idleConn, pconn, junk>>

(* getIdleConn: pops from the end until it has one that is not broken. *)
GetIdleConn(g) ==
  LET key == CacheKey(call[g].cm)
  IN  /\ call[g].pc = "start"
      /\ \/ /\ Good(key) = {}
            /\ Step(g, "dial", call[g])
            /\ idleConn' = [idleConn EXCEPT ![key] = <<>>]
         \/ \E i \in Good(key) :
              /\ \A j \in Good(key) : j <= i
              /\ Step(g, "begin", [call[g] EXCEPT !.conn = idleConn[key][i]])
              /\ idleConn' = [idleConn EXCEPT ![key] = SubSeq(@, 1, i - 1)]
      /\ UNCHANGED <<pconn, junk>>

(* The rest of getConn: a dial, CONNECT to a proxy for https, and TLS.     *)
(* The CONNECT code closes the connection when it fails, the TLS code does *)
(* not.  (A refusal without a reason phrase makes f[1] panic, with the     *)
(* connection closed as for any other: the caller fails all the same, with *)
(* its goroutine.)                                                         *)
GetConn(g) ==
  /\ call[g].pc = "dial"
  /\ \/ "dial" \in DialErrors /\ Fail(g) /\ UNCHANGED pconn
     \/ \E c \in Conns :
          LET p  == [pconn[c] EXCEPT !.sock = "open", !.cm = call[g].cm]
              cm == call[g].cm
          IN  /\ pconn[c].sock = "none"
              /\ \/ /\ pconn' = [pconn EXCEPT ![c] = [p EXCEPT !.rl = "peek"]]
                    /\ Step(g, "begin", [call[g] EXCEPT !.conn = c])
                 \/ /\ "connect" \in DialErrors
                    /\ cm.scheme = "https" /\ cm.proxy
                    /\ pconn' = [pconn EXCEPT ![c] = [p EXCEPT !.sock = "closed"]]
                    /\ Fail(g)
                 \/ /\ "tls" \in DialErrors /\ cm.scheme = "https"
                    /\ pconn' = [pconn EXCEPT ![c] = p]
                    /\ Fail(g)
  /\ UNCHANGED <<idleConn, junk>>

(* roundTrip counts the response it expects. *)
Expect(g) ==
  /\ call[g].pc = "begin"
  /\ pconn' = [pconn EXCEPT ![call[g].conn].expected = @ + 1]
  /\ Step(g, "write", call[g])
  /\ UNCHANGED <<idleConn, junk>>

(* It writes the request.  A request that fits bw is "written" to a dead   *)
(* connection too: the result of Flush is not looked at.  A failed write   *)
(* closes the connection and leaves numExpectedResponses as it is.         *)
Write(g) ==
  /\ call[g].pc = "write"
  /\ LET c == call[g].conn
         p == pconn[c]
     IN  \/ /\ p.sock = "open" /\ ~p.eof
            /\ pconn' = [pconn EXCEPT ![c].wire = Append(@, g)]
            /\ Step(g, "send", call[g])
         \/ /\ p.sock = "closed" \/ p.eof
            /\ UNCHANGED pconn
            /\ Step(g, "send", call[g])
         \/ /\ pconn' = [pconn EXCEPT ![c] = CloseLocked(p)]
            /\ Fail(g)
  /\ UNCHANGED <<idleConn, junk>>

(* pc.reqch <- requestAndChan{...}: a channel of capacity 50. *)
Send(g) ==
  /\ call[g].pc = "send" /\ Len(pconn[call[g].conn].reqch) < 50
  /\ pconn' = [pconn EXCEPT ![call[g].conn].reqch = Append(@, g)]
  /\ Step(g, "await", call[g])
  /\ UNCHANGED <<idleConn, junk>>

(* re := <-ch, and the response is no longer expected; the caller goes on  *)
(* with the body if there is one.                                          *)
Receive(g) ==
  /\ call[g].pc = "await" /\ call[g].res # "none"
  /\ pconn' = [pconn EXCEPT ![call[g].conn].expected = @ - 1]
  /\ Step(g, IF call[g].body THEN "body" ELSE "done", call[g])
  /\ UNCHANGED <<idleConn, junk>>

(* Mistake: the end of a body goes unnoticed. *)
EndBodyForgets(g) ==
  /\ call[g].pc = "body"
  /\ Step(g, "done", [call[g] EXCEPT !.closed = TRUE])
  /\ UNCHANGED <<idleConn, pconn, junk>>

(* bodyEOFSignal: Read to EOF or Close; fn is nil unless readLoop set it.  *)
(* A body whose Close fails does not run fn.  (A Close after EOF finds fn  *)
(* nil again and does nothing.)                                            *)
EndBody(g) ==
  /\ call[g].pc = "body"
  /\ \E end \in BodyEnds :
       Step(g, IF call[g].fn /\ end # "closeerr" THEN "put" ELSE "done",
            [call[g] EXCEPT !.closed = @ \/ end # "eof"])
  /\ UNCHANGED <<idleConn, pconn, junk>>

(* fn: putIdleConn, *)
BodyPut(g) ==
  /\ call[g].pc = "put"
  /\ PutIdleConn(call[g].conn, pconn[call[g].conn])
  /\ Step(g, "signal", [call[g] EXCEPT !.runs = @ + 1])
  /\ UNCHANGED junk

(* Where the loop goes at its end. *)
Loop(p) == [p EXCEPT !.rl = IF p.alive THEN "peek" ELSE "exit"]

(* then waitForBodyRead <- true, which readLoop has to be there to take, *)
BodySignal(g) ==
  /\ call[g].pc = "signal" /\ pconn[call[g].conn].rl = "waitbody"
  /\ pconn' = [pconn EXCEPT ![call[g].conn] = Loop(@)]
  /\ Step(g, "clear", call[g])
  /\ UNCHANGED <<idleConn, junk>>

(* and es.fn = nil when fn has returned. *)
BodyClear(g) ==
  /\ call[g].pc = "clear"
  /\ Step(g, "done", [call[g] EXCEPT !.fn = FALSE])
  /\ UNCHANGED <<idleConn, pconn, junk>>

-----------------------------------------------------------------------------
(* readLoop.  Peek returns, and a connection on which nothing is expected  *)
(* is closed.                                                              *)
(* Mistake: the last expected response is taken for an unsolicited one. *)
PeekOffByOne(c) ==
  LET p == pconn[c]
  IN  /\ p.rl = "peek" /\ Readable(p)
      /\ pconn' = [pconn EXCEPT
                     ![c] = IF p.expected <= 1
                            THEN CloseLocked([p EXCEPT !.rl = "exit"])
                            ELSE [p EXCEPT !.rl = "recv"]]
      /\ UNCHANGED <<idleConn, call, junk>>

Peek(c) ==
  LET p == pconn[c]
  IN  /\ p.rl = "peek" /\ Readable(p)
      /\ pconn' = [pconn EXCEPT
                     ![c] = IF p.expected = 0
                            THEN CloseLocked([p EXCEPT !.rl = "exit"])
                            ELSE [p EXCEPT !.rl = "recv"]]
      /\ UNCHANGED <<idleConn, call, junk>>

(* rc := <-pc.reqch, and lastbody.Close(): if the body was read to its end *)
(* and not closed, and its fn is still set, fn runs in readLoop, which     *)
(* then waits for itself.                                                  *)
Recv(c) ==
  LET p == [pconn[c] EXCEPT !.cur = Head(pconn[c].reqch),
                            !.reqch = Tail(pconn[c].reqch),
                            !.lastbody = "none"]
      b == pconn[c].lastbody
      again == b # "none" /\ ~call[b].closed /\ call[b].fn
  IN  /\ pconn[c].rl = "recv" /\ pconn[c].reqch # <<>>
      /\ IF again
         THEN PutIdleConn(c, [p EXCEPT !.rl = "stuck"])
         ELSE pconn' = [pconn EXCEPT ![c] = [p EXCEPT !.rl = "read"]]
              /\ UNCHANGED idleConn
      /\ call' = IF b = "none" THEN call
                 ELSE [call EXCEPT ![b].closed = TRUE,
                                   ![b].runs = IF again THEN @ + 1 ELSE @]
      /\ UNCHANGED junk

(* Mistake: readLoop, too, counts a failed response down. *)
ReadErrorUncounts(c) ==
  LET p == pconn[c]
  IN  /\ p.rl = "read" /\ Readable(p)
      /\ pconn' = [pconn EXCEPT
                     ![c] = [CloseLocked(p) EXCEPT !.alive = FALSE,
                                                   !.rl = "deliver",
                                                   !.got = "err",
                                                   !.expected = @ - 1]]
      /\ UNCHANGED <<idleConn, call, junk>>

(* ReadResponse fails: the connection is closed, the error is delivered. *)
ReadError(c) ==
  LET p == pconn[c]
  IN  /\ p.rl = "read" /\ Readable(p)
      /\ pconn' = [pconn EXCEPT
                     ![c] = [CloseLocked(p) EXCEPT !.alive = FALSE,
                                                   !.rl = "deliver",
                                                   !.got = "err",
                                                   !.hasBody = FALSE]]
      /\ UNCHANGED <<idleConn, call, junk>>

(* Mistake: what has been read of a response stays in br. *)
AdvanceNot(inbox) == inbox

(* The input behind a response and its body. *)
Advance(inbox) == Tail(inbox)

(* A response without a body puts its connection in the pool before it is  *)
(* delivered; one with a body leaves that to fn; one that closes the       *)
(* connection does neither.                                                *)
ReadResponse(c) ==
  LET r == Head(pconn[c].inbox)
      p == [pconn[c] EXCEPT !.inbox = Advance(@), !.rl = "deliver",
                            !.got = r.of, !.hasBody = r.body,
                            !.alive = ~r.close]
  IN  /\ pconn[c].rl = "read" /\ pconn[c].inbox # <<>>
      /\ \/ /\ ~r.close /\ ~r.body
            /\ PutIdleConn(c, p)
            /\ UNCHANGED call
         \/ /\ ~r.close /\ r.body
            /\ pconn' = [pconn EXCEPT ![c] = [p EXCEPT !.lastbody = p.cur]]
            /\ call' = [call EXCEPT ![p.cur].fn = TRUE]
            /\ UNCHANGED idleConn
         \/ /\ r.close
            /\ pconn' = [pconn EXCEPT ![c] = p]
            /\ UNCHANGED <<idleConn, call>>
      /\ UNCHANGED junk

(* rc.ch <- responseAndError{resp, err}; then wait for the body. *)
Deliver(c) ==
  LET p == pconn[c]
  IN  /\ p.rl = "deliver"
      /\ call' = [call EXCEPT ![p.cur].res = p.got, ![p.cur].body = p.hasBody]
      /\ pconn' = [pconn EXCEPT
                     ![c] = IF p.alive /\ p.hasBody
                            THEN [p EXCEPT !.rl = "waitbody"] ELSE Loop(p)]
      /\ UNCHANGED <<idleConn, junk>>

(* CloseIdleConnections. *)
CloseIdleConnections ==
  /\ \E k \in Keys : idleConn[k] # <<>>
  /\ pconn' = [c \in Conns |->
                 IF \E k \in Keys : \E i \in DOMAIN idleConn[k] : idleConn[k][i] = c
                 THEN CloseLocked(pconn[c]) ELSE pconn[c]]
  /\ idleConn' = [k \in Keys |-> <<>>]
  /\ UNCHANGED <<call, junk>>

-----------------------------------------------------------------------------
(* Servers answer the requests of a connection in order, *)
ServerReplies(c) ==
  /\ pconn[c].sock = "open" /\ ~pconn[c].eof /\ pconn[c].wire # <<>>
  /\ \E body \in BOOLEAN, close \in ReplyCloses :
       pconn' = [pconn EXCEPT
                   ![c].wire = Tail(@),
                   ![c].inbox = Append(@, [of |-> Head(pconn[c].wire),
                                           body |-> body, close |-> close])]
  /\ UNCHANGED <<idleConn, call, junk>>

(* close the connection, at any time or only while they owe an answer, *)
ServerGoes(c) ==
  /\ pconn[c].sock = "open" /\ ~pconn[c].eof
  /\ \/ ServerCloses = "any"
     \/ ServerCloses = "owing" /\ pconn[c].wire # <<>>
  /\ pconn' = [pconn EXCEPT ![c].eof = TRUE]
  /\ UNCHANGED <<idleConn, call, junk>>

(* or send what nobody asked for. *)
ServerJunk(c) ==
  /\ pconn[c].sock = "open" /\ ~pconn[c].eof /\ junk < MaxJunk
  /\ pconn' = [pconn EXCEPT ![c].inbox =
                 Append(@, [of |-> "junk", body |-> FALSE, close |-> FALSE])]
  /\ junk' = junk + 1
  /\ UNCHANGED <<idleConn, call>>

-----------------------------------------------------------------------------
Init ==
  /\ idleConn = [k \in Keys |-> <<>>]
  /\ \E cms \in [Callers -> Methods] :
       call = [g \in Callers |->
                 [pc |-> "start", cm |-> cms[g], conn |-> "none",
                  res |-> "none", body |-> FALSE, fn |-> FALSE,
                  closed |-> FALSE, runs |-> 0]]
  /\ pconn = [c \in Conns |->
                [cm |-> CHOOSE cm \in Methods : TRUE, sock |-> "none",
                 broken |-> FALSE, expected |-> 0, reqch |-> <<>>,
                 wire |-> <<>>, inbox |-> <<>>, eof |-> FALSE, rl |-> "none",
                 cur |-> "none", got |-> "none", hasBody |-> FALSE,
                 alive |-> TRUE, lastbody |-> "none"]]
  /\ junk = 0

CallerStep(g) ==
  \/ GetIdleConn(g) \/ GetConn(g) \/ Expect(g) \/ Write(g) \/ Send(g)
  \/ Receive(g) \/ EndBody(g) \/ BodyPut(g) \/ BodySignal(g) \/ BodyClear(g)

ReadLoop(c) ==
  Peek(c) \/ Recv(c) \/ ReadError(c) \/ ReadResponse(c) \/ Deliver(c)

Server(c) == ServerReplies(c) \/ ServerGoes(c) \/ ServerJunk(c)

(* Every caller is done: what is left may rest. *)
Finished == (\A g \in Callers : call[g].pc = "done") /\ UNCHANGED vars

Next ==
  \/ Finished
  \/ \E g \in Callers : CallerStep(g)
  \/ \E c \in Conns : ReadLoop(c) \/ Server(c)
  \/ CloseIdleConnections

Spec == Init /\ [][Next]_vars

(* Goroutines that can run do run, and a server that has a request answers *)
(* it or closes.                                                           *)
FairSpec ==
  /\ Spec
  /\ \A g \in Callers : WF_vars(CallerStep(g))
  /\ \A c \in Conns : /\ WF_vars(ReadLoop(c))
                      /\ WF_vars(ServerReplies(c) \/ ServerGoes(c))

-----------------------------------------------------------------------------
CallerPlaces == {"start", "dial", "begin", "write", "send", "await", "body",
                 "put", "signal", "clear", "done"}
LoopPlaces == {"none", "peek", "recv", "read", "deliver", "waitbody", "stuck",
               "exit"}
Results == Callers \cup {"none", "err", "junk"}

TypeOK ==
  /\ idleConn \in [Keys -> Seq(Conns)]
  /\ call \in [Callers -> [pc : CallerPlaces, cm : Methods,
                           conn : Conns \cup {"none"}, res : Results,
                           body : BOOLEAN, fn : BOOLEAN, closed : BOOLEAN,
                           runs : Nat]]
  /\ pconn \in [Conns -> [cm : Methods, sock : {"none", "open", "closed"},
                          broken : BOOLEAN, expected : Nat,
                          reqch : Seq(Callers), wire : Seq(Callers),
                          inbox : Seq([of : Results, body : BOOLEAN,
                                       close : BOOLEAN]),
                          eof : BOOLEAN, rl : LoopPlaces,
                          cur : Callers \cup {"none"}, got : Results,
                          hasBody : BOOLEAN, alive : BOOLEAN,
                          lastbody : Callers \cup {"none"}]]
  /\ junk \in 0..MaxJunk

(* The places of connection c in the pool. *)
Pooled(c) == UNION {{<<k, i>> : i \in {j \in DOMAIN idleConn[k] :
                                          idleConn[k][j] = c}} : k \in Keys}

(* "runs fn (if non-nil) at most once". *)
FnAtMostOnce == \A g \in Callers : call[g].runs <= 1

(* The callers that connection c serves: their request is still to be      *)
(* answered, or the body of the answer still to be read.                   *)
Users(c) ==
  {g \in Callers :
     /\ call[g].conn = c
     /\ \/ call[g].pc \in {"begin", "write", "send", "body", "put"}
        \/ /\ call[g].pc = "await"
           /\ IF call[g].res # "none" THEN call[g].body
              ELSE pconn[c].cur = g /\ pconn[c].rl = "deliver" => pconn[c].hasBody}

(* A connection serves one caller at a time, to the end of its body, is in *)
(* the pool at most once, and not while it serves one: another caller's    *)
(* request is not mixed with a body that is being read, and                *)
(* CloseIdleConnections closes nobody's.  It holds until a body's fn has   *)
(* run twice, which puts a connection back that serves the next caller     *)
(* (see FnAtMostOnce).                                                     *)
ExclusiveUse ==
  FnAtMostOnce =>
    \A c \in Conns : Cardinality(Users(c)) + Cardinality(Pooled(c)) <= 1

(* A caller gets the response to its own request or an error, whatever     *)
(* connections are shared, closed or dropped, as long as servers answer    *)
(* only what they are asked.                                               *)
ResponseMatches ==
  junk = 0 => \A g \in Callers : call[g].res \in {"none", "err", g}

(* A request goes over a connection to the right first hop, with or        *)
(* without TLS, to the right site (behind an http proxy, to any).          *)
RightTarget ==
  \A g \in Callers : call[g].conn # "none" =>
    LET to == pconn[call[g].conn].cm
        cm == call[g].cm
    IN  /\ to.proxy = cm.proxy /\ to.scheme = cm.scheme
        /\ to.addr = cm.addr \/ (cm.proxy /\ cm.scheme = "http")

(* The pool never holds more connections to a host than it is allowed to,  *)
(* however many bodies end at once; with a negative limit it holds none.   *)
IdleBounded ==
  \A k \in Keys : idleConn[k] # <<>> => Len(idleConn[k]) <= MaxIdle

(* No socket is lost: one that is open is in the pool or belongs to a      *)
(* caller that has not finished (no reply asks for a close, no TLS         *)
(* handshake and no Close of a body fails: each of these leaves one open). *)
SocketsAccounted ==
  \A c \in Conns : pconn[c].sock = "open" =>
    \/ Pooled(c) # {}
    \/ \E g \in Callers : call[g].conn = c /\ call[g].pc # "done"

(* Every round trip ends with a response or an error. *)
RoundTripReturns ==
  \A g \in Callers :
    <>(call[g].pc \in {"body", "put", "signal", "clear", "done"})

(* readLoop does not wait for a finished body for ever. *)
BodyReleasesLoop ==
  \A c \in Conns : (pconn[c].rl = "waitbody") ~> (pconn[c].rl # "waitbody")

=============================================================================
