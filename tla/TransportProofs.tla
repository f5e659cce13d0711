-------------------------- MODULE TransportProofs ---------------------------
(***************************************************************************)
(* Proofs about Transport for any number of callers, connections and       *)
(* connect methods.                                                        *)
(***************************************************************************)
EXTENDS Transport, TLAPS, SequenceTheorems, FiniteSetTheorems

Inbox == [of : Results, body : BOOLEAN, close : BOOLEAN]

CallRecs == [pc : CallerPlaces, cm : Methods, conn : Conns \cup {"none"},
             res : Results, body : BOOLEAN, fn : BOOLEAN, closed : BOOLEAN,
             runs : Nat]

ConnRecs == [cm : Methods, sock : {"none", "open", "closed"}, broken : BOOLEAN,
             expected : Nat, reqch : Seq(Callers), wire : Seq(Callers),
             inbox : Seq(Inbox), eof : BOOLEAN, rl : LoopPlaces,
             cur : Callers \cup {"none"}, got : Results, hasBody : BOOLEAN,
             alive : BOOLEAN, lastbody : Callers \cup {"none"}]

(* TypeOK, with its sets named. *)
LEMMA Types ==
  TypeOK <=> /\ idleConn \in [Keys -> Seq(Conns)] /\ call \in [Callers -> CallRecs]
             /\ pconn \in [Conns -> ConnRecs] /\ junk \in 0..MaxJunk
BY DEF TypeOK, CallRecs, ConnRecs, Inbox

(* The fields of a caller's record, *)
LEMMA CallTypes ==
  ASSUME TypeOK, NEW g \in Callers
  PROVE  /\ call[g] \in CallRecs
         /\ call[g].pc \in CallerPlaces /\ call[g].cm \in Methods
         /\ call[g].conn \in Conns \cup {"none"} /\ call[g].res \in Results
         /\ call[g].body \in BOOLEAN /\ call[g].fn \in BOOLEAN
         /\ call[g].closed \in BOOLEAN /\ call[g].runs \in Nat
BY Types DEF CallRecs

(* and of a connection's. *)
LEMMA ConnTypes ==
  ASSUME TypeOK, NEW c \in Conns
  PROVE  /\ pconn[c] \in ConnRecs
         /\ pconn[c].cm \in Methods /\ pconn[c].sock \in {"none", "open", "closed"}
         /\ pconn[c].broken \in BOOLEAN /\ pconn[c].expected \in Nat
         /\ pconn[c].reqch \in Seq(Callers) /\ pconn[c].wire \in Seq(Callers)
         /\ pconn[c].inbox \in Seq(Inbox) /\ pconn[c].eof \in BOOLEAN
         /\ pconn[c].rl \in LoopPlaces /\ pconn[c].cur \in Callers \cup {"none"}
         /\ pconn[c].got \in Results /\ pconn[c].hasBody \in BOOLEAN
         /\ pconn[c].alive \in BOOLEAN /\ pconn[c].lastbody \in Callers \cup {"none"}
BY Types DEF ConnRecs

-----------------------------------------------------------------------------
(* What a step does to the callers: to all but g nothing, ... *)
OthersCall(g) == \A h \in Callers : h # g => call'[h] = call[h]

SameConnOf(g) == call'[g].cm = call[g].cm /\ call'[g].conn = call[g].conn

(* ... and g goes to another place. *)
Moves(g, place) ==
  /\ call' \in [Callers -> CallRecs] /\ OthersCall(g) /\ call'[g].pc = place
  /\ SameConnOf(g) /\ call'[g].res = call[g].res /\ call'[g].body = call[g].body
  /\ call'[g].fn = call[g].fn /\ call'[g].closed = call[g].closed
  /\ call'[g].runs = call[g].runs

(* A caller that only changes its place moves there. *)
LEMMA StepMoves ==
  ASSUME TypeOK, NEW g \in Callers, NEW place \in CallerPlaces, Step(g, place, call[g])
  PROVE  Moves(g, place)
<1>1. call' = [call EXCEPT ![g] = [call[g] EXCEPT !.pc = place]]
  BY DEF Step
<1>2. call \in [Callers -> CallRecs] /\ call[g] \in CallRecs
  BY Types
<1> DEFINE r == [call[g] EXCEPT !.pc = place]
<1>3. /\ r \in CallRecs /\ r.pc = place /\ r.cm = call[g].cm /\ r.conn = call[g].conn
      /\ r.res = call[g].res /\ r.body = call[g].body /\ r.fn = call[g].fn
      /\ r.closed = call[g].closed /\ r.runs = call[g].runs
  BY <1>2 DEF CallRecs
<1>4. /\ call' \in [Callers -> CallRecs] /\ call'[g] = r
      /\ \A h \in Callers : h # g => call'[h] = call[h]
  BY <1>1, <1>2, <1>3
<1> QED
  BY <1>3, <1>4 DEF Moves, OthersCall, SameConnOf

(* A round trip fails. *)
Fails(g) ==
  /\ call' \in [Callers -> CallRecs] /\ OthersCall(g) /\ call'[g].pc = "done"
  /\ SameConnOf(g) /\ call'[g].res = "err" /\ call'[g].fn = call[g].fn
  /\ call'[g].closed = call[g].closed /\ call'[g].runs = call[g].runs

(* What failing does to a caller, in full. *)
LEMMA FailFails ==
  ASSUME TypeOK, NEW g \in Callers, Fail(g)
  PROVE  Fails(g)
<1>1. call' = [call EXCEPT ![g] = [[call[g] EXCEPT !.res = "err"] EXCEPT !.pc = "done"]]
  BY DEF Step, Fail
<1>2. call \in [Callers -> CallRecs] /\ call[g] \in CallRecs
  BY Types
<1> DEFINE r == [[call[g] EXCEPT !.res = "err"] EXCEPT !.pc = "done"]
<1>3. "err" \in Results /\ "done" \in CallerPlaces
  BY DEF Results, CallerPlaces
<1>4. /\ r \in CallRecs /\ r.pc = "done" /\ r.cm = call[g].cm /\ r.conn = call[g].conn
      /\ r.res = "err" /\ r.fn = call[g].fn /\ r.closed = call[g].closed
      /\ r.runs = call[g].runs
  BY <1>2, <1>3 DEF CallRecs
<1>5. /\ call' \in [Callers -> CallRecs] /\ call'[g] = r
      /\ \A h \in Callers : h # g => call'[h] = call[h]
  BY <1>1, <1>2, <1>4
<1> QED
  BY <1>4, <1>5 DEF Fails, OthersCall, SameConnOf

(* A caller is given a connection. *)
Gets(g, c) ==
  /\ call' \in [Callers -> CallRecs] /\ OthersCall(g) /\ call'[g].pc = "begin"
  /\ call'[g].cm = call[g].cm /\ call'[g].conn = c /\ call'[g].res = call[g].res
  /\ call'[g].body = call[g].body
  /\ call'[g].fn = call[g].fn /\ call'[g].closed = call[g].closed
  /\ call'[g].runs = call[g].runs

(* What a caller that is given connection c looks like. *)
LEMMA StepGets ==
  ASSUME TypeOK, NEW g \in Callers, NEW c \in Conns,
         Step(g, "begin", [call[g] EXCEPT !.conn = c])
  PROVE  Gets(g, c)
<1>1. call' = [call EXCEPT ![g] = [[call[g] EXCEPT !.conn = c] EXCEPT !.pc = "begin"]]
  BY DEF Step
<1>2. call \in [Callers -> CallRecs] /\ call[g] \in CallRecs
  BY Types
<1> DEFINE r == [[call[g] EXCEPT !.conn = c] EXCEPT !.pc = "begin"]
<1>3. "begin" \in CallerPlaces
  BY DEF CallerPlaces
<1>4. /\ r \in CallRecs /\ r.pc = "begin" /\ r.cm = call[g].cm /\ r.conn = c
      /\ r.res = call[g].res /\ r.fn = call[g].fn /\ r.closed = call[g].closed
      /\ r.runs = call[g].runs /\ r.body = call[g].body
  BY <1>2, <1>3 DEF CallRecs
<1>5. /\ call' \in [Callers -> CallRecs] /\ call'[g] = r
      /\ \A h \in Callers : h # g => call'[h] = call[h]
  BY <1>1, <1>2, <1>4
<1> QED
  BY <1>4, <1>5 DEF Gets, OthersCall

(* A body ends: with fn still to run, or without. *)
Ends(g) ==
  /\ call' \in [Callers -> CallRecs] /\ OthersCall(g) /\ SameConnOf(g)
  /\ call[g].pc = "body"
  /\ call'[g].pc = "done" \/ (call'[g].pc = "put" /\ call[g].fn)
  /\ "closeerr" \notin BodyEnds /\ call[g].fn => call'[g].pc = "put"
  /\ call'[g].res = call[g].res /\ call'[g].fn = call[g].fn
  /\ call[g].closed => call'[g].closed
  /\ call'[g].runs = call[g].runs

(* What the end of a body does to its reader and to nothing else. *)
LEMMA EndBodyEnds ==
  ASSUME TypeOK, NEW g \in Callers, EndBody(g)
  PROVE  Ends(g) /\ UNCHANGED <<idleConn, pconn, junk>>
<1> DEFINE pl(end) == IF call[g].fn /\ end # "closeerr" THEN "put" ELSE "done"
<1>1. PICK end \in BodyEnds :
        Step(g, pl(end), [call[g] EXCEPT !.closed = @ \/ end # "eof"])
  BY DEF EndBody
<1>2. call \in [Callers -> CallRecs] /\ call[g] \in CallRecs
  BY Types
<1> DEFINE r == [[call[g] EXCEPT !.closed = @ \/ end # "eof"] EXCEPT !.pc = pl(end)]
<1>3. call' = [call EXCEPT ![g] = r]
  BY <1>1 DEF Step
<1>4. pl(end) \in {"put", "done"} /\ pl(end) \in CallerPlaces
  BY DEF CallerPlaces
<1>5. (call[g].closed \/ end # "eof") \in BOOLEAN
  BY Zenon
<1>6. /\ r \in CallRecs /\ r.pc = pl(end) /\ r.cm = call[g].cm /\ r.conn = call[g].conn
      /\ r.res = call[g].res /\ r.fn = call[g].fn
      /\ r.runs = call[g].runs
  BY <1>2, <1>4, <1>5 DEF CallRecs
<1>7. call[g].closed => r.closed
  BY <1>2, Zenon DEF CallRecs
<1>8. /\ pl(end) = "put" => call[g].fn
      /\ "closeerr" \notin BodyEnds /\ call[g].fn => pl(end) = "put"
  OBVIOUS
<1> HIDE DEF r, pl
<1>9. /\ call' \in [Callers -> CallRecs] /\ call'[g] = r
      /\ \A h \in Callers : h # g => call'[h] = call[h]
  BY <1>2, <1>3, <1>6
<1>10. call[g].closed => call'[g].closed
  BY <1>7, <1>9
<1>11. UNCHANGED <<idleConn, pconn, junk>> /\ call[g].pc = "body"
  BY DEF EndBody
<1> QED
  BY <1>4, <1>6, <1>8, <1>9, <1>10, <1>11 DEF Ends, OthersCall, SameConnOf

(* fn has been called, *)
Puts(g) ==
  /\ call' \in [Callers -> CallRecs] /\ OthersCall(g) /\ call'[g].pc = "signal"
  /\ SameConnOf(g) /\ call'[g].res = call[g].res /\ call'[g].fn = call[g].fn
  /\ call'[g].closed = call[g].closed /\ call'[g].runs = call[g].runs + 1

(* A caller in its body's fn has put the connection back once more. *)
LEMMA StepPuts ==
  ASSUME TypeOK, NEW g \in Callers,
         Step(g, "signal", [call[g] EXCEPT !.runs = @ + 1])
  PROVE  Puts(g)
<1>1. call' = [call EXCEPT ![g] =
                 [[call[g] EXCEPT !.runs = call[g].runs + 1] EXCEPT !.pc = "signal"]]
  BY DEF Step
<1>2. call \in [Callers -> CallRecs] /\ call[g] \in CallRecs /\ call[g].runs + 1 \in Nat
  BY Types, CallTypes
<1> DEFINE r == [[call[g] EXCEPT !.runs = call[g].runs + 1] EXCEPT !.pc = "signal"]
<1>3. "signal" \in CallerPlaces
  BY DEF CallerPlaces
<1>4. /\ r \in CallRecs /\ r.pc = "signal" /\ r.cm = call[g].cm /\ r.conn = call[g].conn
      /\ r.res = call[g].res /\ r.fn = call[g].fn /\ r.closed = call[g].closed
      /\ r.runs = call[g].runs + 1
  BY <1>2, <1>3 DEF CallRecs
<1> HIDE DEF r
<1>5. /\ call' \in [Callers -> CallRecs] /\ call'[g] = r
      /\ \A h \in Callers : h # g => call'[h] = call[h]
  BY <1>1, <1>2, <1>4 DEF r
<1> QED
  BY <1>4, <1>5 DEF Puts, OthersCall, SameConnOf

(* and has returned. *)
Clears(g) ==
  /\ call' \in [Callers -> CallRecs] /\ OthersCall(g) /\ call'[g].pc = "done"
  /\ SameConnOf(g) /\ call'[g].res = call[g].res /\ ~call'[g].fn
  /\ call'[g].closed = call[g].closed /\ call'[g].runs = call[g].runs

(* A caller's body forgets its fn. *)
LEMMA StepClears ==
  ASSUME TypeOK, NEW g \in Callers,
         Step(g, "done", [call[g] EXCEPT !.fn = FALSE])
  PROVE  Clears(g)
<1> DEFINE r == [[call[g] EXCEPT !.fn = FALSE] EXCEPT !.pc = "done"]
<1>1. call' = [call EXCEPT ![g] = r]
  BY DEF Step
<1>2. call \in [Callers -> CallRecs] /\ call[g] \in CallRecs
  BY Types
<1>3. "done" \in CallerPlaces
  BY DEF CallerPlaces
<1>4. /\ r \in CallRecs /\ r.pc = "done" /\ r.cm = call[g].cm /\ r.conn = call[g].conn
      /\ r.res = call[g].res /\ r.closed = call[g].closed
      /\ r.runs = call[g].runs
  BY <1>2, <1>3 DEF CallRecs
<1>5. ~r.fn
  BY <1>2, Zenon DEF CallRecs
<1> HIDE DEF r
<1>6. /\ call' \in [Callers -> CallRecs] /\ call'[g] = r
      /\ \A h \in Callers : h # g => call'[h] = call[h]
  BY <1>1, <1>2, <1>4
<1> QED
  BY <1>4, <1>5, <1>6 DEF Clears, OthersCall, SameConnOf

-----------------------------------------------------------------------------
(* What a step does to the connections: to all but c nothing, and c is in  *)
(* state p then.                                                           *)
OthersConn(c) == \A d \in Conns : d # c => pconn'[d] = pconn[d]

Becomes(c, p) ==
  pconn' \in [Conns -> ConnRecs] /\ pconn'[c] = p /\ OthersConn(c)

(* Replacing one connection's record leaves the others alone. *)
LEMMA ConnBecomes ==
  ASSUME TypeOK, NEW c \in Conns, NEW p \in ConnRecs, pconn' = [pconn EXCEPT ![c] = p]
  PROVE  Becomes(c, p)
BY Types DEF Becomes, OthersConn

(* Parts of a connection that a step leaves alone. *)
SameSock(q, p) == q.cm = p.cm /\ q.sock = p.sock /\ q.broken = p.broken
SameQueues(q, p) == q.reqch = p.reqch /\ q.wire = p.wire /\ q.inbox = p.inbox
SameLoop(q, p) ==
  /\ q.rl = p.rl /\ q.cur = p.cur /\ q.got = p.got /\ q.hasBody = p.hasBody
  /\ q.alive = p.alive /\ q.lastbody = p.lastbody

(* The connection is closed. *)
Closed(q, p) == q.cm = p.cm /\ q.sock = "closed" /\ q.broken

(* closeLocked closes the socket and touches neither the queues nor the    *)
(* readLoop.                                                               *)
LEMMA CloseLockedFacts ==
  ASSUME NEW p \in ConnRecs
  PROVE  /\ CloseLocked(p) \in ConnRecs /\ Closed(CloseLocked(p), p)
         /\ SameQueues(CloseLocked(p), p) /\ SameLoop(CloseLocked(p), p)
         /\ CloseLocked(p).expected = p.expected
<1>1. /\ CloseLocked(p) \in ConnRecs /\ CloseLocked(p).cm = p.cm
      /\ CloseLocked(p).sock = "closed" /\ CloseLocked(p).expected = p.expected
  BY DEF CloseLocked, ConnRecs
<1>2. CloseLocked(p).broken
  BY Zenon DEF CloseLocked, ConnRecs
<1>3. SameQueues(CloseLocked(p), p) /\ SameLoop(CloseLocked(p), p)
  BY DEF SameQueues, SameLoop, CloseLocked, ConnRecs
<1> QED
  BY <1>1, <1>2, <1>3 DEF Closed

(* A response is expected, or no longer. *)
LEMMA Counting ==
  ASSUME TypeOK, NEW c \in Conns, NEW n \in Nat,
         pconn' = [pconn EXCEPT ![c].expected = n]
  PROVE  /\ pconn' \in [Conns -> ConnRecs] /\ OthersConn(c)
         /\ SameSock(pconn'[c], pconn[c]) /\ SameQueues(pconn'[c], pconn[c])
         /\ SameLoop(pconn'[c], pconn[c]) /\ pconn'[c].expected = n
<1> DEFINE p == [pconn[c] EXCEPT !.expected = n]
<1>1. pconn' = [pconn EXCEPT ![c] = p] /\ pconn[c] \in ConnRecs
  BY ConnTypes
<1>2. p \in ConnRecs /\ p.expected = n /\ SameSock(p, pconn[c])
  BY <1>1 DEF ConnRecs, SameSock
<1>3. SameQueues(p, pconn[c]) /\ SameLoop(p, pconn[c])
  BY <1>1 DEF ConnRecs, SameQueues, SameLoop
<1> HIDE DEF p
<1>4. Becomes(c, p)
  BY <1>1, <1>2, ConnBecomes
<1> QED
  BY <1>2, <1>3, <1>4 DEF Becomes

(* A request is written. *)
LEMMA Writing ==
  ASSUME TypeOK, NEW c \in Conns, NEW s \in Seq(Callers),
         pconn' = [pconn EXCEPT ![c].wire = s]
  PROVE  /\ pconn' \in [Conns -> ConnRecs] /\ OthersConn(c)
         /\ SameSock(pconn'[c], pconn[c]) /\ SameLoop(pconn'[c], pconn[c])
         /\ pconn'[c].expected = pconn[c].expected
         /\ pconn'[c].reqch = pconn[c].reqch /\ pconn'[c].inbox = pconn[c].inbox
         /\ pconn'[c].wire = s
<1> DEFINE p == [pconn[c] EXCEPT !.wire = s]
<1>1. pconn' = [pconn EXCEPT ![c] = p] /\ pconn[c] \in ConnRecs
  BY ConnTypes
<1>2. /\ p \in ConnRecs /\ p.expected = pconn[c].expected /\ SameSock(p, pconn[c])
      /\ p.reqch = pconn[c].reqch /\ p.inbox = pconn[c].inbox /\ p.wire = s
  BY <1>1 DEF ConnRecs, SameSock
<1>3. SameLoop(p, pconn[c])
  BY <1>1 DEF ConnRecs, SameLoop
<1> HIDE DEF p
<1>4. Becomes(c, p)
  BY <1>1, <1>2, ConnBecomes
<1> QED
  BY <1>2, <1>3, <1>4 DEF Becomes

(* It is announced to readLoop. *)
LEMMA Announcing ==
  ASSUME TypeOK, NEW c \in Conns, NEW s \in Seq(Callers),
         pconn' = [pconn EXCEPT ![c].reqch = s]
  PROVE  /\ pconn' \in [Conns -> ConnRecs] /\ OthersConn(c)
         /\ SameSock(pconn'[c], pconn[c]) /\ SameLoop(pconn'[c], pconn[c])
         /\ pconn'[c].expected = pconn[c].expected
         /\ pconn'[c].wire = pconn[c].wire /\ pconn'[c].inbox = pconn[c].inbox
         /\ pconn'[c].reqch = s
<1> DEFINE p == [pconn[c] EXCEPT !.reqch = s]
<1>1. pconn' = [pconn EXCEPT ![c] = p] /\ pconn[c] \in ConnRecs
  BY ConnTypes
<1>2. /\ p \in ConnRecs /\ p.expected = pconn[c].expected /\ SameSock(p, pconn[c])
      /\ p.wire = pconn[c].wire /\ p.inbox = pconn[c].inbox /\ p.reqch = s
  BY <1>1 DEF ConnRecs, SameSock
<1>3. SameLoop(p, pconn[c])
  BY <1>1 DEF ConnRecs, SameLoop
<1> HIDE DEF p
<1>4. Becomes(c, p)
  BY <1>1, <1>2, ConnBecomes
<1> QED
  BY <1>2, <1>3, <1>4 DEF Becomes

(* readLoop goes to another place. *)
LEMMA RlFacts ==
  ASSUME NEW p \in ConnRecs, NEW l \in LoopPlaces
  PROVE  LET q == [p EXCEPT !.rl = l]
         IN  /\ q \in ConnRecs /\ SameSock(q, p) /\ SameQueues(q, p)
             /\ q.expected = p.expected /\ q.rl = l /\ q.cur = p.cur /\ q.got = p.got
             /\ q.hasBody = p.hasBody /\ q.alive = p.alive /\ q.lastbody = p.lastbody
<1> DEFINE q == [p EXCEPT !.rl = l]
<1>1. q \in ConnRecs /\ SameSock(q, p) /\ SameQueues(q, p) /\ q.expected = p.expected
  BY DEF ConnRecs, SameSock, SameQueues
<1>2. /\ q.rl = l /\ q.cur = p.cur /\ q.got = p.got
      /\ q.hasBody = p.hasBody /\ q.alive = p.alive /\ q.lastbody = p.lastbody
  BY DEF ConnRecs
<1> QED
  BY <1>1, <1>2

(* Where it goes at its end. *)
LEMMA LoopFacts ==
  ASSUME NEW p \in ConnRecs
  PROVE  /\ Loop(p) \in ConnRecs /\ SameSock(Loop(p), p) /\ SameQueues(Loop(p), p)
         /\ Loop(p).expected = p.expected /\ Loop(p).cur = p.cur /\ Loop(p).got = p.got
         /\ Loop(p).hasBody = p.hasBody /\ Loop(p).alive = p.alive
         /\ Loop(p).lastbody = p.lastbody
         /\ Loop(p).rl \in {"peek", "exit"}
         /\ p.alive <=> Loop(p).rl = "peek"
<1> DEFINE l == IF p.alive THEN "peek" ELSE "exit"
<1>1. l \in LoopPlaces /\ l \in {"peek", "exit"} /\ (p.alive <=> l = "peek")
  BY DEF LoopPlaces
<1>2. Loop(p) = [p EXCEPT !.rl = l]
  BY DEF Loop
<1> HIDE DEF l
<1> QED
  BY <1>1, <1>2, RlFacts

(* putIdleConn: the connection is closed or let go, or it is in the pool.  *)
Refuses(c, p) ==
  /\ UNCHANGED idleConn /\ ~pconn'[c].alive
  /\ \/ pconn'[c].sock = "closed" /\ pconn'[c].broken
     \/ p.broken /\ pconn'[c].sock = p.sock /\ pconn'[c].broken

Accepts(c, p) ==
  /\ idleConn' = [idleConn EXCEPT ![CacheKey(p.cm)] = Append(@, c)]
  /\ Len(idleConn[CacheKey(p.cm)]) < MaxIdle
  /\ ~p.broken /\ pconn'[c] = p

(* putIdleConn either refuses the connection and closes it, or appends it  *)
(* to the pool of its key.                                                 *)
LEMMA Idling ==
  ASSUME TypeOK, NEW c \in Conns, NEW p \in ConnRecs, PutIdleConn(c, p)
  PROVE  /\ pconn' \in [Conns -> ConnRecs] /\ OthersConn(c)
         /\ SameQueues(pconn'[c], p) /\ pconn'[c].cm = p.cm
         /\ pconn'[c].expected = p.expected /\ pconn'[c].rl = p.rl
         /\ pconn'[c].cur = p.cur /\ pconn'[c].got = p.got
         /\ pconn'[c].hasBody = p.hasBody /\ pconn'[c].lastbody = p.lastbody
         /\ Refuses(c, p) \/ Accepts(c, p)
<1> DEFINE key == CacheKey(p.cm)
           over == \/ DisableKeepAlives \/ MaxIdleConnsPerHost < 0
                   \/ (~p.broken /\ Len(idleConn[key]) >= MaxIdle)
           q == IF over THEN CloseLocked(p) ELSE p
           r == [q EXCEPT !.alive = FALSE]
<1>1. CASE over \/ p.broken
  <2>1. pconn' = [pconn EXCEPT ![c] = r] /\ UNCHANGED idleConn
    BY <1>1 DEF PutIdleConn
  <2>2. /\ q \in ConnRecs /\ q.cm = p.cm /\ SameQueues(q, p) /\ SameLoop(q, p)
        /\ q.expected = p.expected
        /\ (q.sock = "closed" /\ q.broken) \/ (p.broken /\ q.sock = p.sock /\ q.broken)
    <3>1. CASE over
      <4>1. q = CloseLocked(p)
        BY <3>1
      <4> HIDE DEF q, over
      <4> QED
        BY <4>1, CloseLockedFacts DEF Closed
    <3>2. CASE ~over
      <4>1. q = p
        BY <3>2
      <4>2. p.broken
        BY <1>1, <3>2
      <4> HIDE DEF q, over
      <4> QED
        BY <4>1, <4>2 DEF SameQueues, SameLoop
    <3> QED
      BY <3>1, <3>2
  <2> HIDE DEF q, over
  <2>3. /\ r \in ConnRecs /\ r.cm = q.cm /\ r.sock = q.sock /\ r.broken = q.broken
        /\ SameQueues(r, q) /\ r.expected = q.expected
    BY <2>2 DEF ConnRecs, SameQueues
  <2>4. /\ r.rl = q.rl /\ r.cur = q.cur /\ r.got = q.got /\ r.hasBody = q.hasBody
        /\ r.lastbody = q.lastbody
    BY <2>2 DEF ConnRecs
  <2>5. ~r.alive
    BY <2>2, Zenon DEF ConnRecs
  <2> HIDE DEF r
  <2>6. Becomes(c, r)
    BY <2>1, <2>3, ConnBecomes
  <2>7. pconn' \in [Conns -> ConnRecs] /\ OthersConn(c) /\ pconn'[c] = r
    BY <2>6 DEF Becomes
  <2>8. Refuses(c, p)
    BY <2>1, <2>2, <2>3, <2>5, <2>7 DEF Refuses
  <2>9. SameQueues(r, p)
    BY <2>2, <2>3 DEF SameQueues
  <2> QED
    BY <2>2, <2>3, <2>4, <2>7, <2>8, <2>9 DEF SameLoop
<1>2. CASE ~(over \/ p.broken)
  <2>1. /\ idleConn' = [idleConn EXCEPT ![key] = Append(@, c)]
        /\ pconn' = [pconn EXCEPT ![c] = p]
    BY <1>2 DEF PutIdleConn
  <2>2. Becomes(c, p)
    BY <2>1, ConnBecomes
  <2>3. ~p.broken /\ ~(Len(idleConn[key]) >= MaxIdle)
    BY <1>2
  <2>4. Len(idleConn[key]) < MaxIdle
    <3>1. key \in Keys
      BY DEF Keys, ConnRecs
    <3>2. Len(idleConn[key]) \in Nat
      BY <3>1, Types
    <3>3. MaxIdle \in Int
      BY TransportAssumption DEF MaxIdle, DefaultMaxIdleConnsPerHost
    <3> QED
      BY <2>3, <3>2, <3>3
  <2>5. Accepts(c, p)
    BY <2>1, <2>2, <2>3, <2>4 DEF Accepts, Becomes
  <2> QED
    BY <2>2, <2>5 DEF Becomes, SameQueues
<1> QED
  BY <1>1, <1>2

-----------------------------------------------------------------------------
(* The steps of readLoop. *)
InPool(c) == \E k \in Keys : \E i \in DOMAIN idleConn[k] : idleConn[k][i] = c

PeekEffect(c) ==
  /\ pconn' \in [Conns -> ConnRecs] /\ OthersConn(c) /\ UNCHANGED <<idleConn, call, junk>>
  /\ SameQueues(pconn'[c], pconn[c]) /\ pconn'[c].expected = pconn[c].expected
  /\ pconn'[c].cur = pconn[c].cur /\ pconn'[c].lastbody = pconn[c].lastbody
  /\ pconn[c].rl = "peek"
  /\ \/ Closed(pconn'[c], pconn[c]) /\ pconn'[c].rl = "exit"
     \/ SameSock(pconn'[c], pconn[c]) /\ pconn'[c].rl = "recv"

(* readLoop's Peek: everything it can do to a connection. *)
LEMMA PeekDoes == ASSUME TypeOK, NEW c \in Conns, Peek(c) PROVE PeekEffect(c)
<1> DEFINE p == pconn[c]
           q == [p EXCEPT !.rl = "exit"]
           u == [p EXCEPT !.rl = "recv"]
<1>1. p \in ConnRecs /\ "exit" \in LoopPlaces /\ "recv" \in LoopPlaces
  BY ConnTypes DEF LoopPlaces
<1>2. p.rl = "peek" /\ UNCHANGED <<idleConn, call, junk>>
  BY DEF Peek
<1>3. CASE p.expected = 0
  <2>1. pconn' = [pconn EXCEPT ![c] = CloseLocked(q)]
    BY <1>3 DEF Peek
  <2> HIDE DEF p
  <2>2. /\ q \in ConnRecs /\ SameSock(q, p) /\ SameQueues(q, p)
        /\ q.expected = p.expected /\ q.rl = "exit" /\ q.cur = p.cur
        /\ q.lastbody = p.lastbody
    BY <1>1, RlFacts
  <2> HIDE DEF q
  <2>3. /\ CloseLocked(q) \in ConnRecs /\ Closed(CloseLocked(q), q)
        /\ SameQueues(CloseLocked(q), q) /\ SameLoop(CloseLocked(q), q)
        /\ CloseLocked(q).expected = q.expected
    BY <2>2, CloseLockedFacts
  <2>4. Becomes(c, CloseLocked(q))
    BY <2>1, <2>3, ConnBecomes
  <2> QED
    BY <1>2, <2>2, <2>3, <2>4 DEF PeekEffect, Becomes, Closed, SameQueues, SameLoop,
       SameSock, p
<1>4. CASE p.expected # 0
  <2>1. pconn' = [pconn EXCEPT ![c] = u]
    BY <1>4 DEF Peek
  <2> HIDE DEF p
  <2>2. /\ u \in ConnRecs /\ SameSock(u, p) /\ SameQueues(u, p)
        /\ u.expected = p.expected /\ u.rl = "recv" /\ u.cur = p.cur
        /\ u.lastbody = p.lastbody
    BY <1>1, RlFacts
  <2> HIDE DEF u
  <2>3. Becomes(c, u)
    BY <2>1, <2>2, ConnBecomes
  <2> QED
    BY <1>2, <2>2, <2>3 DEF PeekEffect, Becomes, p
<1> QED
  BY <1>3, <1>4

ReadErrorEffect(c) ==
  /\ pconn' \in [Conns -> ConnRecs] /\ OthersConn(c) /\ UNCHANGED <<idleConn, call, junk>>
  /\ SameQueues(pconn'[c], pconn[c]) /\ pconn'[c].expected = pconn[c].expected
  /\ pconn'[c].cur = pconn[c].cur /\ pconn'[c].lastbody = pconn[c].lastbody
  /\ Closed(pconn'[c], pconn[c]) /\ pconn[c].rl = "read" /\ pconn'[c].rl = "deliver"
  /\ pconn'[c].got = "err" /\ ~pconn'[c].alive /\ ~pconn'[c].hasBody

(* The readLoop's read fails: everything that changes. *)
LEMMA ReadErrorDoes ==
  ASSUME TypeOK, NEW c \in Conns, ReadError(c) PROVE ReadErrorEffect(c)
<1> DEFINE p == CloseLocked(pconn[c])
           q == [p EXCEPT !.alive = FALSE, !.rl = "deliver", !.got = "err",
                          !.hasBody = FALSE]
<1>1. /\ pconn[c].rl = "read" /\ UNCHANGED <<idleConn, call, junk>>
      /\ pconn' = [pconn EXCEPT ![c] = q]
  BY DEF ReadError
<1>2. /\ p \in ConnRecs /\ Closed(p, pconn[c]) /\ SameQueues(p, pconn[c])
      /\ SameLoop(p, pconn[c]) /\ p.expected = pconn[c].expected
  BY ConnTypes, CloseLockedFacts
<1> HIDE DEF p
<1>3. "deliver" \in LoopPlaces /\ "err" \in Results
  BY DEF LoopPlaces, Results
<1>4. q \in ConnRecs
  BY <1>2, <1>3 DEF ConnRecs
<1>5. /\ q.cm = p.cm /\ q.sock = p.sock /\ q.broken = p.broken /\ SameQueues(q, p)
      /\ q.expected = p.expected
  BY <1>2, <1>3 DEF ConnRecs, SameQueues
<1>6. /\ q.rl = "deliver" /\ q.cur = p.cur /\ q.got = "err" /\ q.lastbody = p.lastbody
  BY <1>2, <1>3 DEF ConnRecs
<1>7. ~q.alive /\ ~q.hasBody
  BY <1>2, Zenon DEF ConnRecs
<1> HIDE DEF q
<1>8. Becomes(c, q)
  BY <1>1, <1>4, ConnBecomes
<1> QED
  BY <1>1, <1>2, <1>5, <1>6, <1>7, <1>8 DEF ReadErrorEffect, Becomes, Closed, SameQueues,
     SameLoop

RecvEffect(c) ==
  /\ pconn' \in [Conns -> ConnRecs] /\ OthersConn(c) /\ junk' = junk
  /\ pconn'[c].cm = pconn[c].cm /\ pconn'[c].expected = pconn[c].expected
  /\ pconn[c].rl = "recv" /\ pconn[c].reqch # <<>>
  /\ pconn'[c].cur = Head(pconn[c].reqch) /\ pconn'[c].reqch = Tail(pconn[c].reqch)
  /\ pconn'[c].wire = pconn[c].wire /\ pconn'[c].inbox = pconn[c].inbox
  /\ pconn'[c].lastbody = "none"

(* readLoop has closed lastbody. *)
LastClosed ==
  /\ call' \in [Callers -> CallRecs]
  /\ \A h \in Callers :
       /\ call'[h].pc = call[h].pc /\ call'[h].cm = call[h].cm
       /\ call'[h].conn = call[h].conn /\ call'[h].res = call[h].res
       /\ call'[h].body = call[h].body /\ call'[h].fn = call[h].fn
       /\ call[h].closed => call'[h].closed
       /\ call'[h].runs \in {call[h].runs, call[h].runs + 1}

(* It would run fn a second time. *)
RunsAgain(c) ==
  /\ pconn[c].lastbody \in Callers
  /\ ~call[pconn[c].lastbody].closed /\ call[pconn[c].lastbody].fn

(* The readLoop takes a request off its channel; if the last body's fn has *)
(* not been cleared it runs it again.                                      *)
LEMMA RecvDoes ==
  ASSUME TypeOK, NEW c \in Conns, Recv(c)
  PROVE  /\ RecvEffect(c)
         /\ \/ /\ RunsAgain(c) /\ pconn'[c].rl = "stuck"
               /\ \E p \in ConnRecs : /\ p.cm = pconn[c].cm /\ p.sock = pconn[c].sock
                                      /\ Refuses(c, p) \/ Accepts(c, p)
            \/ /\ ~RunsAgain(c) /\ pconn'[c].rl = "read" /\ UNCHANGED idleConn
               /\ SameSock(pconn'[c], pconn[c])
<1> DEFINE o == pconn[c]
           p == [o EXCEPT !.cur = Head(o.reqch), !.reqch = Tail(o.reqch),
                          !.lastbody = "none"]
           b == o.lastbody
           again == b # "none" /\ ~call[b].closed /\ call[b].fn
<1>1. /\ o.rl = "recv" /\ o.reqch # <<>> /\ junk' = junk
      /\ IF again
         THEN PutIdleConn(c, [p EXCEPT !.rl = "stuck"])
         ELSE pconn' = [pconn EXCEPT ![c] = [p EXCEPT !.rl = "read"]] /\ UNCHANGED idleConn
  BY DEF Recv
<1>2. o \in ConnRecs /\ o.reqch \in Seq(Callers) /\ b \in Callers \cup {"none"}
  BY ConnTypes
<1>3. again <=> RunsAgain(c)
  BY <1>2, TransportAssumption DEF RunsAgain
<1> HIDE DEF o, again
<1>4. Head(o.reqch) \in Callers /\ Tail(o.reqch) \in Seq(Callers)
  BY <1>1, <1>2, HeadTailProperties
<1>5. /\ p \in ConnRecs /\ p.cm = o.cm /\ p.sock = o.sock /\ p.broken = o.broken
      /\ p.expected = o.expected
      /\ p.cur = Head(o.reqch) /\ p.reqch = Tail(o.reqch) /\ p.wire = o.wire
      /\ p.inbox = o.inbox /\ p.lastbody = "none"
  BY <1>2, <1>4 DEF ConnRecs
<1> HIDE DEF p
<1>6. "stuck" \in LoopPlaces /\ "read" \in LoopPlaces
  BY DEF LoopPlaces
<1>7. CASE again
  <2> DEFINE q == [p EXCEPT !.rl = "stuck"]
  <2>1. /\ q \in ConnRecs /\ SameSock(q, p) /\ SameQueues(q, p)
        /\ q.expected = p.expected /\ q.rl = "stuck" /\ q.cur = p.cur
        /\ q.lastbody = p.lastbody
    BY <1>5, <1>6, RlFacts
  <2>2. PutIdleConn(c, q)
    BY <1>1, <1>7
  <2> HIDE DEF q
  <2>3. /\ pconn' \in [Conns -> ConnRecs] /\ OthersConn(c)
        /\ SameQueues(pconn'[c], q) /\ pconn'[c].cm = q.cm
        /\ pconn'[c].expected = q.expected /\ pconn'[c].rl = q.rl
        /\ pconn'[c].cur = q.cur /\ pconn'[c].lastbody = q.lastbody
        /\ Refuses(c, q) \/ Accepts(c, q)
    BY <2>1, <2>2, Idling
  <2>4. RecvEffect(c)
    BY <1>1, <1>5, <2>1, <2>3 DEF RecvEffect, SameQueues, SameSock, o
  <2>5. \E s \in ConnRecs : /\ s.cm = pconn[c].cm /\ s.sock = pconn[c].sock
                            /\ Refuses(c, s) \/ Accepts(c, s)
    <3>1. q.cm = pconn[c].cm /\ q.sock = pconn[c].sock
      BY <1>5, <2>1 DEF SameSock, o
    <3> QED
      BY <2>1, <2>3, <3>1
  <2> QED
    BY <1>3, <1>7, <2>1, <2>3, <2>4, <2>5
<1>8. CASE ~again
  <2> DEFINE q == [p EXCEPT !.rl = "read"]
  <2>1. /\ q \in ConnRecs /\ SameSock(q, p) /\ SameQueues(q, p)
        /\ q.expected = p.expected /\ q.rl = "read" /\ q.cur = p.cur
        /\ q.lastbody = p.lastbody
    BY <1>5, <1>6, RlFacts
  <2>2. pconn' = [pconn EXCEPT ![c] = q] /\ UNCHANGED idleConn
    BY <1>1, <1>8
  <2> HIDE DEF q
  <2>3. Becomes(c, q)
    BY <2>1, <2>2, ConnBecomes
  <2>4. RecvEffect(c)
    BY <1>1, <1>5, <2>1, <2>3 DEF RecvEffect, SameQueues, SameSock, Becomes, o
  <2>5. SameSock(pconn'[c], pconn[c])
    BY <1>5, <2>1, <2>3 DEF SameSock, Becomes, o
  <2> QED
    BY <1>3, <1>8, <2>1, <2>2, <2>3, <2>4, <2>5 DEF Becomes
<1> QED
  BY <1>7, <1>8

(* Recv closes the last body, and counts its fn if it runs it. *)
LEMMA RecvCloses ==
  ASSUME TypeOK, NEW c \in Conns, Recv(c)
  PROVE  /\ LastClosed
         /\ RunsAgain(c) =>
              call'[pconn[c].lastbody].runs = call[pconn[c].lastbody].runs + 1
<1> DEFINE b == pconn[c].lastbody
           again == b # "none" /\ ~call[b].closed /\ call[b].fn
<1>1. call' = IF b = "none" THEN call
              ELSE [call EXCEPT ![b].closed = TRUE,
                                ![b].runs = IF again THEN @ + 1 ELSE @]
  BY DEF Recv
<1>2. call \in [Callers -> CallRecs] /\ b \in Callers \cup {"none"}
  BY Types, ConnTypes
<1>3. CASE b = "none"
  BY <1>1, <1>2, <1>3, TransportAssumption DEF LastClosed, RunsAgain
<1>4. CASE b # "none"
  <2> DEFINE n == IF again THEN call[b].runs + 1 ELSE call[b].runs
             s == [call[b] EXCEPT !.closed = TRUE, !.runs = n]
  <2>1. b \in Callers /\ call[b] \in CallRecs /\ call[b].runs \in Nat
    BY <1>2, <1>4, CallTypes
  <2>2. /\ n \in Nat /\ n \in {call[b].runs, call[b].runs + 1}
        /\ RunsAgain(c) => n = call[b].runs + 1
    BY <1>4, <2>1 DEF RunsAgain
  <2>3. call' = [call EXCEPT ![b] = s]
    BY <1>1, <1>2, <1>4
  <2> HIDE DEF n
  <2>4. /\ s \in CallRecs /\ s.pc = call[b].pc /\ s.cm = call[b].cm
        /\ s.conn = call[b].conn /\ s.res = call[b].res /\ s.body = call[b].body
        /\ s.fn = call[b].fn /\ s.runs = n
    BY <2>1, <2>2 DEF CallRecs
  <2>5. s.closed
    BY <2>1, Zenon DEF CallRecs
  <2> HIDE DEF s
  <2>6. /\ call' \in [Callers -> CallRecs] /\ call'[b] = s
        /\ \A h \in Callers : h # b => call'[h] = call[h]
    BY <1>2, <2>1, <2>3, <2>4
  <2> QED
    BY <2>2, <2>4, <2>5, <2>6 DEF LastClosed
<1> QED
  BY <1>3, <1>4

ReadResponseEffect(c) ==
  /\ pconn' \in [Conns -> ConnRecs] /\ OthersConn(c) /\ junk' = junk
  /\ pconn'[c].cm = pconn[c].cm /\ pconn'[c].expected = pconn[c].expected
  /\ pconn[c].rl = "read" /\ pconn'[c].rl = "deliver" /\ pconn[c].inbox # <<>>
  /\ pconn'[c].cur = pconn[c].cur /\ pconn'[c].reqch = pconn[c].reqch
  /\ pconn'[c].wire = pconn[c].wire /\ pconn'[c].inbox = Tail(pconn[c].inbox)
  /\ pconn'[c].got = Head(pconn[c].inbox).of

(* A response without a body: putIdleConn. *)
Bodyless(c) ==
  /\ call' = call /\ ~pconn'[c].hasBody /\ pconn'[c].lastbody = pconn[c].lastbody
  /\ \E p \in ConnRecs : /\ SameSock(p, pconn[c])
                         /\ Refuses(c, p) \/ Accepts(c, p)

(* One with a body: its bodyEOFSignal gets fn. *)
WithBody(c) ==
  /\ idleConn' = idleConn /\ SameSock(pconn'[c], pconn[c])
  /\ pconn'[c].hasBody /\ pconn'[c].alive /\ pconn'[c].lastbody = pconn[c].cur
  /\ call' = [call EXCEPT ![pconn[c].cur].fn = TRUE]

(* One that asks for a close. *)
Closing(c) ==
  /\ idleConn' = idleConn /\ SameSock(pconn'[c], pconn[c]) /\ call' = call
  /\ Head(pconn[c].inbox).close /\ ~pconn'[c].alive
  /\ pconn'[c].lastbody = pconn[c].lastbody

(* The readLoop reads a response: without a body, with one, or one that    *)
(* closes the connection.                                                  *)
LEMMA ReadResponseDoes ==
  ASSUME TypeOK, NEW c \in Conns, ReadResponse(c)
  PROVE  ReadResponseEffect(c) /\ (Bodyless(c) \/ WithBody(c) \/ Closing(c))
<1> DEFINE o == pconn[c]
           m == Head(o.inbox)
           p == [o EXCEPT !.inbox = Tail(@), !.rl = "deliver", !.got = m.of,
                          !.hasBody = m.body, !.alive = ~m.close]
<1>1. /\ o.rl = "read" /\ o.inbox # <<>> /\ junk' = junk
      /\ \/ ~m.close /\ ~m.body /\ PutIdleConn(c, p) /\ call' = call
         \/ /\ ~m.close /\ m.body /\ idleConn' = idleConn
            /\ pconn' = [pconn EXCEPT ![c] = [p EXCEPT !.lastbody = p.cur]]
            /\ call' = [call EXCEPT ![p.cur].fn = TRUE]
         \/ m.close /\ pconn' = [pconn EXCEPT ![c] = p] /\ UNCHANGED <<idleConn, call>>
  BY DEF ReadResponse, Advance
<1>2. o \in ConnRecs /\ o.inbox \in Seq(Inbox) /\ o.cur \in Callers \cup {"none"}
  BY ConnTypes
<1> HIDE DEF o
<1>3. m \in Inbox /\ Tail(o.inbox) \in Seq(Inbox)
  BY <1>1, <1>2, HeadTailProperties
<1>4. m.of \in Results /\ m.body \in BOOLEAN /\ m.close \in BOOLEAN /\ (~m.close) \in BOOLEAN
  BY <1>3, Zenon DEF Inbox
<1> HIDE DEF m
<1>5. "deliver" \in LoopPlaces
  BY DEF LoopPlaces
<1>6. /\ p \in ConnRecs /\ p.cm = o.cm /\ p.sock = o.sock /\ p.broken = o.broken
      /\ p.expected = o.expected /\ p.inbox = Tail(o.inbox) /\ p.got = m.of
      /\ p.rl = "deliver" /\ p.cur = o.cur /\ p.reqch = o.reqch /\ p.wire = o.wire
      /\ p.lastbody = o.lastbody
  BY <1>2, <1>3, <1>4, <1>5 DEF ConnRecs
<1>7. /\ p.hasBody <=> m.body
      /\ p.alive <=> ~m.close
  BY <1>2, Zenon DEF ConnRecs
<1> HIDE DEF p
<1>8. CASE ~m.close /\ ~m.body /\ PutIdleConn(c, p) /\ call' = call
  <2>1. /\ pconn' \in [Conns -> ConnRecs] /\ OthersConn(c)
        /\ SameQueues(pconn'[c], p) /\ pconn'[c].cm = p.cm
        /\ pconn'[c].expected = p.expected /\ pconn'[c].rl = p.rl
        /\ pconn'[c].cur = p.cur /\ pconn'[c].got = p.got
        /\ pconn'[c].hasBody = p.hasBody /\ pconn'[c].lastbody = p.lastbody
        /\ Refuses(c, p) \/ Accepts(c, p)
    BY <1>6, <1>8, Idling
  <2>2. ReadResponseEffect(c)
    BY <1>1, <1>6, <2>1 DEF ReadResponseEffect, SameQueues, o, m
  <2>3. \E s \in ConnRecs : SameSock(s, pconn[c]) /\ (Refuses(c, s) \/ Accepts(c, s))
    <3>1. SameSock(p, pconn[c])
      BY <1>6 DEF SameSock, o
    <3> QED
      BY <1>6, <2>1, <3>1
  <2>4. ~pconn'[c].hasBody
    BY <1>7, <1>8, <2>1
  <2> QED
    BY <1>6, <1>8, <2>1, <2>2, <2>3, <2>4 DEF Bodyless, o
<1>9. CASE /\ ~m.close /\ m.body /\ idleConn' = idleConn
           /\ pconn' = [pconn EXCEPT ![c] = [p EXCEPT !.lastbody = p.cur]]
           /\ call' = [call EXCEPT ![p.cur].fn = TRUE]
  <2> DEFINE q == [p EXCEPT !.lastbody = p.cur]
  <2>1. /\ q \in ConnRecs /\ q.cm = p.cm /\ q.sock = p.sock /\ q.broken = p.broken
        /\ q.expected = p.expected /\ q.inbox = p.inbox /\ q.got = p.got
        /\ q.rl = p.rl /\ q.cur = p.cur /\ q.reqch = p.reqch /\ q.wire = p.wire
        /\ q.lastbody = p.cur /\ q.hasBody = p.hasBody /\ q.alive = p.alive
    BY <1>2, <1>6 DEF ConnRecs
  <2> HIDE DEF q
  <2>2. Becomes(c, q)
    BY <1>9, <2>1, ConnBecomes DEF q
  <2>3. ReadResponseEffect(c)
    BY <1>1, <1>6, <2>1, <2>2 DEF ReadResponseEffect, Becomes, o, m
  <2>4. WithBody(c)
    BY <1>6, <1>7, <1>9, <2>1, <2>2 DEF WithBody, Becomes, SameSock, o
  <2> QED
    BY <2>3, <2>4
<1>10. CASE m.close /\ pconn' = [pconn EXCEPT ![c] = p] /\ UNCHANGED <<idleConn, call>>
  <2>1. Becomes(c, p)
    BY <1>6, <1>10, ConnBecomes
  <2>2. ReadResponseEffect(c)
    BY <1>1, <1>6, <2>1 DEF ReadResponseEffect, Becomes, o, m
  <2>3. Closing(c)
    BY <1>6, <1>7, <1>10, <2>1 DEF Closing, Becomes, SameSock, o, m
  <2> QED
    BY <2>2, <2>3
<1> QED
  BY <1>1, <1>8, <1>9, <1>10

(* fn is set. *)
LEMMA SettingFn ==
  ASSUME TypeOK, NEW g \in Callers, call' = [call EXCEPT ![g].fn = TRUE]
  PROVE  /\ call' \in [Callers -> CallRecs] /\ OthersCall(g) /\ SameConnOf(g)
         /\ call'[g].pc = call[g].pc /\ call'[g].res = call[g].res
         /\ call'[g].body = call[g].body /\ call'[g].closed = call[g].closed
         /\ call'[g].fn /\ call'[g].runs = call[g].runs
<1> DEFINE r == [call[g] EXCEPT !.fn = TRUE]
<1>1. call' = [call EXCEPT ![g] = r]
  OBVIOUS
<1>2. call \in [Callers -> CallRecs] /\ call[g] \in CallRecs
  BY Types
<1>3. /\ r \in CallRecs /\ r.pc = call[g].pc /\ r.cm = call[g].cm /\ r.conn = call[g].conn
      /\ r.res = call[g].res /\ r.body = call[g].body /\ r.closed = call[g].closed
      /\ r.runs = call[g].runs
  BY <1>2 DEF CallRecs
<1>4. r.fn
  BY <1>2, Zenon DEF CallRecs
<1> HIDE DEF r
<1>5. /\ call' \in [Callers -> CallRecs] /\ call'[g] = r
      /\ \A h \in Callers : h # g => call'[h] = call[h]
  BY <1>1, <1>2, <1>3
<1> QED
  BY <1>3, <1>4, <1>5 DEF OthersCall, SameConnOf

DeliverEffect(c) ==
  /\ pconn' \in [Conns -> ConnRecs] /\ OthersConn(c) /\ UNCHANGED <<idleConn, junk>>
  /\ pconn[c].rl = "deliver"
  /\ SameSock(pconn'[c], pconn[c]) /\ SameQueues(pconn'[c], pconn[c])
  /\ pconn'[c].expected = pconn[c].expected /\ pconn'[c].cur = pconn[c].cur
  /\ pconn'[c].lastbody = pconn[c].lastbody
  /\ \/ pconn'[c].rl = "waitbody" /\ pconn[c].hasBody /\ pconn[c].alive
     \/ pconn'[c].rl = "peek" /\ ~pconn[c].hasBody /\ pconn[c].alive
     \/ pconn'[c].rl = "exit" /\ ~pconn[c].alive
  /\ call' \in [Callers -> CallRecs] /\ OthersCall(pconn[c].cur)
  /\ SameConnOf(pconn[c].cur)
  /\ call'[pconn[c].cur].pc = call[pconn[c].cur].pc
  /\ call'[pconn[c].cur].fn = call[pconn[c].cur].fn
  /\ call'[pconn[c].cur].closed = call[pconn[c].cur].closed
  /\ call'[pconn[c].cur].runs = call[pconn[c].cur].runs
  /\ call'[pconn[c].cur].res = pconn[c].got
  /\ call'[pconn[c].cur].body = pconn[c].hasBody

(* The readLoop hands its answer to the caller that waits for it. *)
LEMMA DeliverDoes ==
  ASSUME TypeOK, NEW c \in Conns, Deliver(c), pconn[c].cur # "none"
  PROVE  DeliverEffect(c)
<1> DEFINE p == pconn[c]
           g == p.cur
           q == IF p.alive /\ p.hasBody THEN [p EXCEPT !.rl = "waitbody"] ELSE Loop(p)
<1>1. /\ p.rl = "deliver" /\ UNCHANGED <<idleConn, junk>>
      /\ call' = [call EXCEPT ![g].res = p.got, ![g].body = p.hasBody]
      /\ pconn' = [pconn EXCEPT ![c] = q]
  BY DEF Deliver
<1>2. p \in ConnRecs /\ g \in Callers /\ p.got \in Results /\ p.hasBody \in BOOLEAN
  BY ConnTypes
<1>3. call \in [Callers -> CallRecs] /\ call[g] \in CallRecs
  BY <1>2, Types
<1> HIDE DEF p
<1>4. /\ q \in ConnRecs /\ SameSock(q, p) /\ SameQueues(q, p) /\ q.expected = p.expected
      /\ q.cur = p.cur /\ q.lastbody = p.lastbody
      /\ \/ q.rl = "waitbody" /\ p.hasBody /\ p.alive
         \/ q.rl = "peek" /\ ~p.hasBody /\ p.alive
         \/ q.rl = "exit" /\ ~p.alive
  <2>1. CASE p.alive /\ p.hasBody
    <3>1. q = [p EXCEPT !.rl = "waitbody"] /\ "waitbody" \in LoopPlaces
      BY <2>1 DEF LoopPlaces
    <3> HIDE DEF q
    <3> QED
      BY <1>2, <2>1, <3>1, RlFacts
  <2>2. CASE ~(p.alive /\ p.hasBody)
    <3>1. q = Loop(p)
      BY <2>2
    <3> HIDE DEF q
    <3>2. /\ q \in ConnRecs /\ SameSock(q, p) /\ SameQueues(q, p)
          /\ q.expected = p.expected /\ q.cur = p.cur /\ q.lastbody = p.lastbody
          /\ q.rl \in {"peek", "exit"}
          /\ p.alive <=> q.rl = "peek"
      BY <1>2, <3>1, LoopFacts
    <3> QED
      BY <2>2, <3>2
  <2> QED
    BY <2>1, <2>2
<1> HIDE DEF q
<1>5. Becomes(c, q)
  BY <1>1, <1>4, ConnBecomes
<1> DEFINE r == [call[g] EXCEPT !.res = p.got, !.body = p.hasBody]
<1>6. call' = [call EXCEPT ![g] = r]
  BY <1>1, <1>2, <1>3
<1>7. /\ r \in CallRecs /\ r.pc = call[g].pc /\ r.cm = call[g].cm /\ r.conn = call[g].conn
      /\ r.res = p.got /\ r.body = p.hasBody /\ r.closed = call[g].closed
      /\ r.fn = call[g].fn /\ r.runs = call[g].runs
  BY <1>2, <1>3 DEF CallRecs
<1> HIDE DEF r, g
<1>8. /\ call' \in [Callers -> CallRecs] /\ call'[g] = r
      /\ \A h \in Callers : h # g => call'[h] = call[h]
  BY <1>2, <1>3, <1>6, <1>7
<1>9. OthersCall(g) /\ SameConnOf(g)
  BY <1>7, <1>8 DEF OthersCall, SameConnOf
<1> QED
  BY <1>1, <1>4, <1>5, <1>7, <1>8, <1>9 DEF DeliverEffect, Becomes, p, g

-----------------------------------------------------------------------------
(* Servers. *)
Arrives(c, x) ==
  /\ x \in Inbox
  /\ pconn' \in [Conns -> ConnRecs] /\ OthersConn(c) /\ UNCHANGED <<idleConn, call>>
  /\ SameSock(pconn'[c], pconn[c]) /\ SameLoop(pconn'[c], pconn[c])
  /\ pconn[c].sock # "none"
  /\ pconn'[c].expected = pconn[c].expected /\ pconn'[c].reqch = pconn[c].reqch
  /\ pconn'[c].inbox = Append(pconn[c].inbox, x)

(* The server answers the oldest request on the wire, and its answer       *)
(* arrives.                                                                *)
LEMMA RepliesDoes ==
  ASSUME TypeOK, NEW c \in Conns, ServerReplies(c)
  PROVE  /\ pconn[c].wire # <<>> /\ pconn'[c].wire = Tail(pconn[c].wire) /\ junk' = junk
         /\ \E x \in Inbox : /\ x.of = Head(pconn[c].wire) /\ x.close \in ReplyCloses
                             /\ Arrives(c, x)
<1> DEFINE o == pconn[c]
<1>1. /\ o.sock = "open" /\ o.wire # <<>> /\ UNCHANGED <<idleConn, call, junk>>
  BY DEF ServerReplies
<1>2. PICK body \in BOOLEAN, close \in ReplyCloses :
        pconn' = [pconn EXCEPT ![c].wire = Tail(@),
                               ![c].inbox = Append(@, [of |-> Head(pconn[c].wire),
                                                       body |-> body, close |-> close])]
  BY DEF ServerReplies
<1> DEFINE x == [of |-> Head(o.wire), body |-> body, close |-> close]
           p == [o EXCEPT !.wire = Tail(o.wire), !.inbox = Append(o.inbox, x)]
<1>3. o \in ConnRecs /\ o.wire \in Seq(Callers) /\ o.inbox \in Seq(Inbox)
  BY ConnTypes
<1>4. pconn' = [pconn EXCEPT ![c] = p]
  BY <1>2, Types
<1> HIDE DEF o
<1>5. Head(o.wire) \in Callers /\ Tail(o.wire) \in Seq(Callers)
  BY <1>1, <1>3, HeadTailProperties
<1>6. close \in BOOLEAN /\ Head(o.wire) \in Results
  BY <1>5, TransportAssumption DEF Results
<1>7. x \in Inbox /\ x.of = Head(o.wire) /\ x.close = close
  BY <1>6 DEF Inbox
<1> HIDE DEF x
<1>8. Append(o.inbox, x) \in Seq(Inbox)
  BY <1>3, <1>7
<1>9. /\ p \in ConnRecs /\ SameSock(p, o) /\ p.expected = o.expected /\ p.reqch = o.reqch
      /\ p.wire = Tail(o.wire) /\ p.inbox = Append(o.inbox, x)
  BY <1>3, <1>5, <1>8 DEF ConnRecs, SameSock
<1>10. SameLoop(p, o)
  BY <1>3 DEF ConnRecs, SameLoop
<1> HIDE DEF p
<1>11. Becomes(c, p)
  BY <1>4, <1>9, ConnBecomes
<1>12. Arrives(c, x)
  BY <1>1, <1>7, <1>9, <1>10, <1>11 DEF Arrives, Becomes, o
<1> QED
  BY <1>1, <1>7, <1>9, <1>11, <1>12 DEF Becomes, o

(* The server sends what nobody asked for. *)
LEMMA JunkDoes ==
  ASSUME TypeOK, NEW c \in Conns, ServerJunk(c)
  PROVE  /\ pconn'[c].wire = pconn[c].wire /\ junk' = junk + 1 /\ junk' \in 0..MaxJunk
         /\ \E x \in Inbox : /\ x.of = "junk" /\ ~x.close
                             /\ Arrives(c, x)
<1> DEFINE o == pconn[c]
           x == [of |-> "junk", body |-> FALSE, close |-> FALSE]
           p == [o EXCEPT !.inbox = Append(o.inbox, x)]
<1>1. /\ o.sock = "open" /\ UNCHANGED <<idleConn, call>> /\ junk < MaxJunk
      /\ junk' = junk + 1 /\ pconn' = [pconn EXCEPT ![c] = p]
  BY DEF ServerJunk
<1>2. o \in ConnRecs /\ o.inbox \in Seq(Inbox)
  BY ConnTypes
<1> HIDE DEF o
<1>3. "junk" \in Results
  BY DEF Results
<1>4. x \in Inbox /\ x.of = "junk"
  BY <1>3 DEF Inbox
<1>5. ~x.close
  BY Zenon
<1> HIDE DEF x
<1>6. Append(o.inbox, x) \in Seq(Inbox)
  BY <1>2, <1>4
<1>7. /\ p \in ConnRecs /\ SameSock(p, o) /\ p.expected = o.expected /\ p.reqch = o.reqch
      /\ p.wire = o.wire /\ p.inbox = Append(o.inbox, x)
  BY <1>2, <1>6 DEF ConnRecs, SameSock
<1>8. SameLoop(p, o)
  BY <1>2 DEF ConnRecs, SameLoop
<1> HIDE DEF p
<1>9. Becomes(c, p)
  BY <1>1, <1>7, ConnBecomes
<1>10. Arrives(c, x)
  BY <1>1, <1>4, <1>7, <1>8, <1>9 DEF Arrives, Becomes, o
<1>11. junk' \in 0..MaxJunk
  BY <1>1, Types, TransportAssumption
<1> QED
  BY <1>1, <1>4, <1>5, <1>7, <1>9, <1>10, <1>11 DEF Becomes, o

(* The server leaves: only the end of its stream changes. *)
LEMMA GoesDoes ==
  ASSUME TypeOK, NEW c \in Conns, ServerGoes(c)
  PROVE  /\ pconn' \in [Conns -> ConnRecs] /\ OthersConn(c)
         /\ UNCHANGED <<idleConn, call, junk>>
         /\ SameSock(pconn'[c], pconn[c]) /\ SameQueues(pconn'[c], pconn[c])
         /\ SameLoop(pconn'[c], pconn[c]) /\ pconn'[c].expected = pconn[c].expected
<1> DEFINE p == [pconn[c] EXCEPT !.eof = TRUE]
<1>1. pconn' = [pconn EXCEPT ![c] = p] /\ UNCHANGED <<idleConn, call, junk>>
  BY DEF ServerGoes
<1>2. pconn[c] \in ConnRecs
  BY ConnTypes
<1>3. p \in ConnRecs /\ SameSock(p, pconn[c]) /\ p.expected = pconn[c].expected
  BY <1>2 DEF ConnRecs, SameSock
<1>4. SameQueues(p, pconn[c]) /\ SameLoop(p, pconn[c])
  BY <1>2 DEF ConnRecs, SameQueues, SameLoop
<1> HIDE DEF p
<1>5. Becomes(c, p)
  BY <1>1, <1>3, ConnBecomes
<1> QED
  BY <1>1, <1>3, <1>4, <1>5 DEF Becomes

-----------------------------------------------------------------------------
(* The pool. *)
LEMMA PoolTypes ==
  ASSUME TypeOK, NEW k \in Keys
  PROVE  /\ idleConn[k] \in Seq(Conns) /\ Len(idleConn[k]) \in Nat
         /\ DOMAIN idleConn[k] = 1..Len(idleConn[k])
         /\ \A i \in DOMAIN idleConn[k] : idleConn[k][i] \in Conns
BY Types

(* Every connect method has a key of the pool. *)
LEMMA KeyOfMethod == \A cm \in Methods : CacheKey(cm) \in Keys
BY DEF Keys

(* The first of each key are left. *)
Shrinks ==
  /\ idleConn' \in [Keys -> Seq(Conns)]
  /\ \A k \in Keys :
       /\ idleConn'[k] # <<>> =>
            idleConn[k] # <<>> /\ Len(idleConn'[k]) <= Len(idleConn[k])
       /\ \A i \in DOMAIN idleConn'[k] :
            i \in DOMAIN idleConn[k] /\ idleConn'[k][i] = idleConn[k][i]

(* All that are removed are broken, but for one. *)
RemovesBroken(c) ==
  \A k \in Keys : \A i \in DOMAIN idleConn[k] :
    \/ i \in DOMAIN idleConn'[k]
    \/ pconn[idleConn[k][i]].broken
    \/ idleConn[k][i] = c

(* A pool that stays as it is has not grown. *)
LEMMA SamePoolShrinks ==
  ASSUME TypeOK, idleConn' = idleConn
  PROVE  Shrinks
<1> SUFFICES ASSUME NEW k \in Keys PROVE Len(idleConn[k]) <= Len(idleConn[k])
  BY Types DEF Shrinks
<1> QED
  BY PoolTypes

(* A connection is taken out of the pool for g. *)
TakesFromPool(g) ==
  \E k \in Keys : \E i \in DOMAIN idleConn[k] :
    /\ k = CacheKey(call[g].cm) /\ Gets(g, idleConn[k][i])
    /\ i \notin DOMAIN idleConn'[k] /\ RemovesBroken(idleConn[k][i])
    /\ idleConn[k][i] \in Conns

(* getIdleConn drops what it finds broken and takes the last sound         *)
(* connection, or sends its caller to dial.                                *)
LEMMA GetIdleConnDoes ==
  ASSUME TypeOK, NEW g \in Callers, GetIdleConn(g)
  PROVE  /\ call[g].pc = "start" /\ UNCHANGED <<pconn, junk>> /\ Shrinks
         /\ \/ Moves(g, "dial") /\ RemovesBroken("none")
            \/ TakesFromPool(g)
<1> DEFINE k == CacheKey(call[g].cm)
<1>1. k \in Keys
  BY CallTypes, KeyOfMethod
<1>2. call[g].pc = "start" /\ UNCHANGED <<pconn, junk>>
  BY DEF GetIdleConn
<1>3. idleConn \in [Keys -> Seq(Conns)]
  BY Types
<1>4. /\ idleConn[k] \in Seq(Conns) /\ Len(idleConn[k]) \in Nat
      /\ DOMAIN idleConn[k] = 1..Len(idleConn[k])
      /\ \A i \in DOMAIN idleConn[k] : idleConn[k][i] \in Conns
  BY <1>1, PoolTypes
<1>5. \A l \in Keys : Len(idleConn[l]) <= Len(idleConn[l])
  BY PoolTypes
<1>6. CASE /\ Good(k) = {} /\ Step(g, "dial", call[g])
           /\ idleConn' = [idleConn EXCEPT ![k] = <<>>]
  <2>1. "dial" \in CallerPlaces
    BY DEF CallerPlaces
  <2>2. Moves(g, "dial")
    BY <1>6, <2>1, StepMoves
  <2> HIDE DEF k
  <2>3. /\ idleConn' \in [Keys -> Seq(Conns)] /\ idleConn'[k] = <<>>
        /\ \A l \in Keys : l # k => idleConn'[l] = idleConn[l]
    BY <1>1, <1>3, <1>6
  <2>4. Shrinks
    <3>1. DOMAIN idleConn'[k] = {}
      BY <2>3
    <3> QED
      BY <1>5, <2>3, <3>1 DEF Shrinks
  <2>5. RemovesBroken("none")
    BY <1>6, <2>3 DEF RemovesBroken, Good
  <2> QED
    BY <1>2, <2>2, <2>4, <2>5
<1>7. ASSUME NEW i \in Good(k), \A j \in Good(k) : j <= i,
             Step(g, "begin", [call[g] EXCEPT !.conn = idleConn[k][i]]),
             idleConn' = [idleConn EXCEPT ![k] = SubSeq(@, 1, i - 1)]
      PROVE  Shrinks /\ TakesFromPool(g)
  <2>1. i \in DOMAIN idleConn[k] /\ i \in 1..Len(idleConn[k]) /\ idleConn[k][i] \in Conns
    BY <1>4 DEF Good
  <2>2. Gets(g, idleConn[k][i])
    BY <1>7, <2>1, StepGets
  <2> HIDE DEF k
  <2> DEFINE s == SubSeq(idleConn[k], 1, i - 1)
  <2>3. idleConn' = [idleConn EXCEPT ![k] = s]
    BY <1>7
  <2>4. /\ s \in Seq(Conns) /\ Len(s) = i - 1 /\ DOMAIN s = 1..(i - 1)
        /\ \A j \in 1..(i - 1) : s[j] = idleConn[k][j]
    <3>1. i - 1 \in Nat /\ i - 1 <= Len(idleConn[k])
      BY <1>4, <2>1
    <3>2. \A j \in 1..(i - 1) : j \in 1..Len(idleConn[k]) /\ idleConn[k][j] \in Conns
      BY <1>4, <2>1
    <3>3. /\ Len(s) = i - 1
          /\ \A j \in 1..(i - 1) : s[j] = idleConn[k][j]
      BY <1>4, <2>1, <3>1
    <3>4. s \in Seq(Conns)
      BY <1>4, <2>1, <3>1
    <3> QED
      BY <3>3, <3>4
  <2> HIDE DEF s
  <2>5. /\ idleConn' \in [Keys -> Seq(Conns)] /\ idleConn'[k] = s
        /\ \A l \in Keys : l # k => idleConn'[l] = idleConn[l]
    BY <1>1, <1>3, <2>3, <2>4
  <2>6. /\ i \notin 1..(i - 1) /\ i \in Nat
        /\ \A j \in 1..(i - 1) : j \in 1..Len(idleConn[k])
        /\ i - 1 <= Len(idleConn[k])
        /\ \A j \in 1..Len(idleConn[k]) : j \in 1..(i - 1) \/ j = i \/ ~(j <= i)
    BY <1>4, <2>1
  <2>7. Shrinks
    <3>1. idleConn[k] # <<>>
      BY <1>4, <2>1
    <3> QED
      BY <1>4, <1>5, <2>4, <2>5, <2>6, <3>1 DEF Shrinks
  <2>8. RemovesBroken(idleConn[k][i])
    <3> SUFFICES ASSUME NEW j \in DOMAIN idleConn[k], j \notin 1..(i - 1), j # i
                 PROVE  pconn[idleConn[k][j]].broken
      BY <2>4, <2>5 DEF RemovesBroken
    <3>1. ~(j <= i)
      BY <1>4, <2>6
    <3> QED
      BY <1>7, <3>1 DEF Good
  <2>9. i \notin DOMAIN idleConn'[k]
    BY <2>4, <2>5, <2>6
  <2> QED
    BY <1>1, <2>1, <2>2, <2>7, <2>8, <2>9 DEF TakesFromPool, k
<1> QED
  BY <1>2, <1>6, <1>7 DEF GetIdleConn

(* A connection is put into it. *)
Grows(c, k) ==
  /\ idleConn' \in [Keys -> Seq(Conns)] /\ k \in Keys
  /\ Len(idleConn'[k]) = Len(idleConn[k]) + 1
  /\ Len(idleConn[k]) + 1 \in DOMAIN idleConn'[k]
  /\ \A l \in Keys : l # k => idleConn'[l] = idleConn[l]
  /\ \A l \in Keys : \A i \in DOMAIN idleConn[l] :
       i \in DOMAIN idleConn'[l] /\ idleConn'[l][i] = idleConn[l][i]
  /\ \A l \in Keys : \A i \in DOMAIN idleConn'[l] :
       \/ i \in DOMAIN idleConn[l] /\ idleConn'[l][i] = idleConn[l][i]
       \/ l = k /\ i = Len(idleConn[k]) + 1 /\ idleConn'[l][i] = c

(* A connection accepted back is appended to the pool of its own key. *)
LEMMA AcceptsGrows ==
  ASSUME TypeOK, NEW c \in Conns, NEW p \in ConnRecs, Accepts(c, p)
  PROVE  Grows(c, CacheKey(p.cm))
<1> DEFINE k == CacheKey(p.cm)
<1>1. k \in Keys
  BY KeyOfMethod DEF ConnRecs
<1>2. idleConn' = [idleConn EXCEPT ![k] = Append(@, c)]
  BY DEF Accepts
<1> HIDE DEF k
<1>3. idleConn \in [Keys -> Seq(Conns)] /\ idleConn[k] \in Seq(Conns)
  BY <1>1, Types
<1> DEFINE s == Append(idleConn[k], c)
<1>4. /\ s \in Seq(Conns) /\ Len(s) = Len(idleConn[k]) + 1
      /\ DOMAIN idleConn[k] = 1..Len(idleConn[k])
      /\ DOMAIN s = 1..(Len(idleConn[k]) + 1) /\ Len(idleConn[k]) \in Nat
      /\ \A i \in 1..Len(idleConn[k]) : s[i] = idleConn[k][i]
      /\ s[Len(idleConn[k]) + 1] = c
  BY <1>3
<1> HIDE DEF s
<1>5. /\ idleConn' \in [Keys -> Seq(Conns)] /\ idleConn'[k] = s
      /\ \A l \in Keys : l # k => idleConn'[l] = idleConn[l]
  BY <1>1, <1>2, <1>3, <1>4 DEF s
<1>6. /\ \A i \in 1..(Len(idleConn[k]) + 1) :
           i \in 1..Len(idleConn[k]) \/ i = Len(idleConn[k]) + 1
      /\ \A i \in 1..Len(idleConn[k]) : i \in 1..(Len(idleConn[k]) + 1)
      /\ Len(idleConn[k]) + 1 \in 1..(Len(idleConn[k]) + 1)
  BY <1>4
<1> QED
  BY <1>1, <1>4, <1>5, <1>6 DEF Grows, k

(* CloseIdleConnections empties the pool and closes what was in it. *)
LEMMA CloseIdleDoes ==
  ASSUME TypeOK, CloseIdleConnections
  PROVE  /\ UNCHANGED <<call, junk>> /\ pconn' \in [Conns -> ConnRecs] /\ Shrinks
         /\ idleConn' = [k \in Keys |-> <<>>]
         /\ \A c \in Conns :
              /\ SameQueues(pconn'[c], pconn[c]) /\ SameLoop(pconn'[c], pconn[c])
              /\ pconn'[c].expected = pconn[c].expected
              /\ InPool(c) => Closed(pconn'[c], pconn[c])
              /\ ~InPool(c) => SameSock(pconn'[c], pconn[c])
<1>1. /\ UNCHANGED <<call, junk>> /\ idleConn' = [k \in Keys |-> <<>>]
      /\ pconn' = [c \in Conns |-> IF InPool(c) THEN CloseLocked(pconn[c]) ELSE pconn[c]]
  BY DEF CloseIdleConnections, InPool
<1>2. ASSUME NEW c \in Conns
      PROVE  /\ pconn'[c] \in ConnRecs
             /\ SameQueues(pconn'[c], pconn[c]) /\ SameLoop(pconn'[c], pconn[c])
             /\ pconn'[c].expected = pconn[c].expected
             /\ InPool(c) => Closed(pconn'[c], pconn[c])
             /\ ~InPool(c) => SameSock(pconn'[c], pconn[c])
  <2>1. pconn[c] \in ConnRecs
    BY ConnTypes
  <2>2. CASE InPool(c)
    <3>1. pconn'[c] = CloseLocked(pconn[c])
      BY <1>1, <2>2
    <3> QED
      BY <2>1, <2>2, <3>1, CloseLockedFacts
  <2>3. CASE ~InPool(c)
    <3>1. pconn'[c] = pconn[c]
      BY <1>1, <2>3
    <3> QED
      BY <2>1, <2>3, <3>1 DEF SameQueues, SameLoop, SameSock
  <2> QED
    BY <2>2, <2>3
<1>3. pconn' \in [Conns -> ConnRecs]
  BY <1>1, <1>2
<1>4. Shrinks
  <2>1. \A k \in Keys : idleConn'[k] = <<>> /\ DOMAIN idleConn'[k] = {}
    BY <1>1
  <2>2. idleConn' \in [Keys -> Seq(Conns)]
    BY <1>1, SMTT(30)
  <2> QED
    BY <2>1, <2>2 DEF Shrinks
<1> QED
  BY <1>1, <1>2, <1>3, <1>4

(* A connection is dialled: it carries a request, or failed further on. *)
Dials(g, c) ==
  /\ pconn[c].sock = "none"
  /\ pconn' \in [Conns -> ConnRecs] /\ OthersConn(c)
  /\ pconn'[c].cm = call[g].cm /\ pconn'[c].broken = pconn[c].broken
  /\ pconn'[c].expected = pconn[c].expected /\ SameQueues(pconn'[c], pconn[c])
  /\ pconn'[c].cur = pconn[c].cur /\ pconn'[c].lastbody = pconn[c].lastbody
  /\ \/ Gets(g, c) /\ pconn'[c].sock = "open" /\ pconn'[c].rl = "peek"
     \/ Fails(g) /\ pconn'[c].sock = "closed" /\ pconn'[c].rl = pconn[c].rl
     \/ /\ Fails(g) /\ "tls" \in DialErrors
        /\ pconn'[c].sock = "open" /\ pconn'[c].rl = pconn[c].rl

(* A dial fails, or gives its caller a connection of its own. *)
LEMMA GetConnDoes ==
  ASSUME TypeOK, NEW g \in Callers, GetConn(g)
  PROVE  /\ call[g].pc = "dial" /\ UNCHANGED <<idleConn, junk>>
         /\ \/ Fails(g) /\ UNCHANGED pconn
            \/ \E c \in Conns : Dials(g, c)
<1>1. call[g].pc = "dial" /\ UNCHANGED <<idleConn, junk>>
  BY Zenon DEF GetConn
<1> DEFINE cm == call[g].cm
           p(c) == [pconn[c] EXCEPT !.sock = "open", !.cm = cm]
<1>2. cm \in Methods
  BY CallTypes
<1>3. CASE Fail(g) /\ UNCHANGED pconn
  BY <1>1, <1>3, FailFails
<1>4. ASSUME NEW c \in Conns, pconn[c].sock = "none",
             \/ /\ pconn' = [pconn EXCEPT ![c] = [p(c) EXCEPT !.rl = "peek"]]
                /\ Step(g, "begin", [call[g] EXCEPT !.conn = c])
             \/ /\ pconn' = [pconn EXCEPT ![c] = [p(c) EXCEPT !.sock = "closed"]]
                /\ Fail(g)
             \/ "tls" \in DialErrors /\ pconn' = [pconn EXCEPT ![c] = p(c)] /\ Fail(g)
      PROVE  Dials(g, c)
  <2> DEFINE o == pconn[c]
             u == [o EXCEPT !.sock = "open", !.cm = cm]
  <2>1. o \in ConnRecs
    BY ConnTypes
  <2>2. /\ u \in ConnRecs /\ u.cm = cm /\ u.sock = "open" /\ u.broken = o.broken
        /\ u.expected = o.expected /\ SameQueues(u, o) /\ SameLoop(u, o)
    <3> HIDE DEF cm, o
    <3>1. /\ u \in ConnRecs /\ u.cm = cm /\ u.sock = "open" /\ u.broken = o.broken
          /\ u.expected = o.expected
      BY <1>2, <2>1 DEF ConnRecs
    <3>2. SameQueues(u, o) /\ SameLoop(u, o)
      BY <2>1 DEF ConnRecs, SameQueues, SameLoop
    <3> QED
      BY <3>1, <3>2
  <2>3. /\ \/ /\ pconn' = [pconn EXCEPT ![c] = [u EXCEPT !.rl = "peek"]]
              /\ Step(g, "begin", [call[g] EXCEPT !.conn = c])
           \/ /\ pconn' = [pconn EXCEPT ![c] = [u EXCEPT !.sock = "closed"]]
              /\ Fail(g)
           \/ "tls" \in DialErrors /\ pconn' = [pconn EXCEPT ![c] = u] /\ Fail(g)
    BY <1>4
  <2> HIDE DEF u, o, cm, p
  <2>4. CASE /\ pconn' = [pconn EXCEPT ![c] = [u EXCEPT !.rl = "peek"]]
             /\ Step(g, "begin", [call[g] EXCEPT !.conn = c])
    <3> DEFINE q == [u EXCEPT !.rl = "peek"]
    <3>1. "peek" \in LoopPlaces
      BY DEF LoopPlaces
    <3>2. /\ q \in ConnRecs /\ SameSock(q, u) /\ SameQueues(q, u)
          /\ q.expected = u.expected /\ q.rl = "peek" /\ q.cur = u.cur
          /\ q.lastbody = u.lastbody
      BY <2>2, <3>1, RlFacts
    <3> HIDE DEF q
    <3>3. Becomes(c, q)
      BY <2>4, <3>2, ConnBecomes DEF q
    <3>4. Gets(g, c)
      BY <2>4, StepGets
    <3> QED
      BY <1>4, <2>2, <3>2, <3>3, <3>4 DEF Dials, Becomes, SameSock, SameQueues, SameLoop,
         o, cm
  <2>5. CASE pconn' = [pconn EXCEPT ![c] = [u EXCEPT !.sock = "closed"]] /\ Fail(g)
    <3> DEFINE q == [u EXCEPT !.sock = "closed"]
    <3>1. /\ q \in ConnRecs /\ q.cm = u.cm /\ q.sock = "closed" /\ q.broken = u.broken
          /\ q.expected = u.expected /\ SameQueues(q, u)
      BY <2>2 DEF ConnRecs, SameQueues
    <3>2. SameLoop(q, u)
      BY <2>2 DEF ConnRecs, SameLoop
    <3> HIDE DEF q
    <3>3. Becomes(c, q)
      BY <2>5, <3>1, ConnBecomes DEF q
    <3>4. Fails(g)
      BY <2>5, FailFails
    <3> QED
      BY <1>4, <2>2, <3>1, <3>2, <3>3, <3>4
      DEF Dials, Becomes, SameQueues, SameLoop, o, cm
  <2>6. CASE "tls" \in DialErrors /\ pconn' = [pconn EXCEPT ![c] = u] /\ Fail(g)
    <3>1. Becomes(c, u)
      BY <2>2, <2>6, ConnBecomes
    <3>2. Fails(g)
      BY <2>6, FailFails
    <3> QED
      BY <1>4, <2>2, <2>6, <3>1, <3>2 DEF Dials, Becomes, SameQueues, SameLoop, o, cm
  <2> QED
    BY <2>3, <2>4, <2>5, <2>6
<1> QED
  BY <1>1, <1>3, <1>4, ZenonT(30) DEF GetConn

-----------------------------------------------------------------------------
(* What holds of every transport, whatever its callers do with bodies.     *)
Using == {"begin", "write", "send", "await", "body", "put", "signal", "clear"}
Expecting == {"write", "send", "await"}

(* A connection is pooled under its own key and used for no other; it has  *)
(* been dialled then.                                                      *)
KeyInv ==
  /\ \A k \in Keys : \A i \in DOMAIN idleConn[k] :
       /\ pconn[idleConn[k][i]].sock # "none"
       /\ CacheKey(pconn[idleConn[k][i]].cm) = k
  /\ \A g \in Callers :
       /\ call[g].pc \in Using => call[g].conn # "none"
       /\ call[g].pc \in {"start", "dial"} => call[g].conn = "none"
       /\ call[g].conn # "none" =>
            /\ pconn[call[g].conn].sock # "none"
            /\ CacheKey(pconn[call[g].conn].cm) = CacheKey(call[g].cm)
  /\ \A c \in Conns :
       /\ pconn[c].rl \in {"read", "deliver"} => pconn[c].cur # "none"
       /\ pconn[c].rl # "none" => pconn[c].sock # "none"

(* numExpectedResponses covers the callers that will count it down. *)
Counted(c) == {g \in Callers : call[g].conn = c /\ call[g].pc \in Expecting}
CountInv == \A c \in Conns : Cardinality(Counted(c)) <= pconn[c].expected

BaseInv == TypeOK /\ KeyInv /\ CountInv /\ IdleBounded

(* There are finitely many callers, so those that count on an answer can   *)
(* be counted.                                                             *)
LEMMA CountedFinite ==
  \A c \in Conns : IsFiniteSet(Counted(c)) /\ Cardinality(Counted(c)) \in Nat
<1> SUFFICES ASSUME NEW c \in Conns
             PROVE  IsFiniteSet(Counted(c)) /\ Cardinality(Counted(c)) \in Nat
  OBVIOUS
<1>1. Counted(c) \subseteq Callers /\ IsFiniteSet(Callers)
  BY TransportAssumption DEF Counted
<1> QED
  BY <1>1, FS_Subset, FS_CardinalityType

(* Most steps leave all that alone. *)
ConnsKeep ==
  \A d \in Conns :
    /\ pconn[d].sock # "none" =>
         pconn'[d].sock # "none" /\ pconn'[d].cm = pconn[d].cm
    /\ pconn'[d].rl \in {"read", "deliver"} => pconn'[d].cur # "none"
    /\ pconn'[d].rl # "none" => pconn'[d].sock # "none"

CallsKeep ==
  \A h \in Callers :
    /\ call'[h].cm = call[h].cm /\ call'[h].conn = call[h].conn
    /\ call'[h].pc \in Using => call[h].pc \in Using
    /\ call'[h].pc \in {"start", "dial"} => call[h].pc \in {"start", "dial"}
    /\ call'[h].pc \in Expecting => call[h].pc \in Expecting

(* numExpectedResponses stays enough while no caller starts to expect an   *)
(* answer.                                                                 *)
LEMMA CountsKeep ==
  ASSUME TypeOK, TypeOK', CountInv,
         \A h \in Callers : call'[h].pc \in Expecting =>
           call[h].pc \in Expecting /\ call'[h].conn = call[h].conn,
         \A d \in Conns : pconn'[d].expected = pconn[d].expected
  PROVE  CountInv'
<1> SUFFICES ASSUME NEW d \in Conns
             PROVE  Cardinality(Counted(d)') <= pconn'[d].expected
  BY DEF CountInv
<1>1. Counted(d)' \subseteq Counted(d)
  BY DEF Counted
<1>2. IsFiniteSet(Counted(d)) /\ Cardinality(Counted(d)) \in Nat
  BY CountedFinite
<1>3. IsFiniteSet(Counted(d)') /\ Cardinality(Counted(d)') <= Cardinality(Counted(d))
  BY <1>1, <1>2, FS_Subset
<1>4. Cardinality(Counted(d)') \in Nat
  BY <1>3, FS_CardinalityType
<1>5. pconn'[d].expected = pconn[d].expected /\ pconn[d].expected \in Nat
  BY ConnTypes
<1>6. Cardinality(Counted(d)) <= pconn[d].expected
  BY DEF CountInv
<1> QED
  BY <1>2, <1>3, <1>4, <1>5, <1>6

(* A step that keeps connections and callers keeps the keys they agree on. *)
LEMMA CallKeys ==
  ASSUME TypeOK, KeyInv, ConnsKeep, CallsKeep
  PROVE  \A g \in Callers :
           /\ call'[g].pc \in Using => call'[g].conn # "none"
           /\ call'[g].pc \in {"start", "dial"} => call'[g].conn = "none"
           /\ call'[g].conn # "none" =>
                /\ pconn'[call'[g].conn].sock # "none"
                /\ CacheKey(pconn'[call'[g].conn].cm) = CacheKey(call'[g].cm)
<1> SUFFICES ASSUME NEW g \in Callers
             PROVE  /\ call'[g].pc \in Using => call'[g].conn # "none"
                    /\ call'[g].pc \in {"start", "dial"} => call'[g].conn = "none"
                    /\ call'[g].conn # "none" =>
                         /\ pconn'[call'[g].conn].sock # "none"
                         /\ CacheKey(pconn'[call'[g].conn].cm) = CacheKey(call'[g].cm)
  OBVIOUS
<1>1. call'[g].cm = call[g].cm /\ call'[g].conn = call[g].conn
  BY DEF CallsKeep
<1>2. call[g].conn # "none" => call[g].conn \in Conns
  BY CallTypes
<1> QED
  BY <1>1, <1>2 DEF KeyInv, ConnsKeep, CallsKeep

(* A pool that only shrinks stays within its limit. *)
LEMMA ShrinksBounded ==
  ASSUME BaseInv, Shrinks PROVE IdleBounded'
<1> SUFFICES ASSUME NEW k \in Keys, idleConn'[k] # <<>>
             PROVE  Len(idleConn'[k]) <= MaxIdle
  BY DEF IdleBounded
<1>1. idleConn[k] # <<>> /\ Len(idleConn'[k]) <= Len(idleConn[k])
  BY DEF Shrinks
<1>2. Len(idleConn[k]) <= MaxIdle
  BY <1>1 DEF BaseInv, IdleBounded
<1>3. Len(idleConn[k]) \in Nat /\ Len(idleConn'[k]) \in Nat
  BY PoolTypes, Types DEF BaseInv, Shrinks
<1>4. MaxIdle \in Int
  BY TransportAssumption DEF MaxIdle, DefaultMaxIdleConnsPerHost
<1> QED
  BY <1>1, <1>2, <1>3, <1>4

(* A step that neither dials nor pools nor counts keeps the basic          *)
(* invariant.                                                              *)
LEMMA BaseFrame ==
  ASSUME BaseInv, TypeOK', ConnsKeep, CallsKeep, Shrinks,
         \A d \in Conns : pconn'[d].expected = pconn[d].expected
  PROVE  BaseInv'
<1>1. CountInv'
  BY CountsKeep DEF BaseInv, CallsKeep
<1>2. KeyInv'
  <2>1. \A k \in Keys : \A i \in DOMAIN idleConn'[k] :
          /\ pconn'[idleConn'[k][i]].sock # "none"
          /\ CacheKey(pconn'[idleConn'[k][i]].cm) = k
    <3> SUFFICES ASSUME NEW k \in Keys, NEW i \in DOMAIN idleConn'[k]
                 PROVE  /\ pconn'[idleConn'[k][i]].sock # "none"
                        /\ CacheKey(pconn'[idleConn'[k][i]].cm) = k
      OBVIOUS
    <3>1. i \in DOMAIN idleConn[k] /\ idleConn'[k][i] = idleConn[k][i]
      BY DEF Shrinks
    <3>2. idleConn[k][i] \in Conns
      BY <3>1, PoolTypes DEF BaseInv
    <3>3. /\ pconn[idleConn[k][i]].sock # "none"
          /\ CacheKey(pconn[idleConn[k][i]].cm) = k
      BY <3>1 DEF BaseInv, KeyInv
    <3> QED
      BY <3>1, <3>2, <3>3 DEF ConnsKeep
  <2> QED
    BY <2>1, CallKeys DEF BaseInv, KeyInv, ConnsKeep
<1>3. IdleBounded'
  BY ShrinksBounded
<1> QED
  BY <1>1, <1>2, <1>3 DEF BaseInv

(* Neither does it break when a pool below its limit takes back a          *)
(* connection of its key.                                                  *)
LEMMA BaseGrows ==
  ASSUME BaseInv, TypeOK', ConnsKeep, CallsKeep, NEW c \in Conns, NEW l \in Keys,
         Grows(c, l), Len(idleConn[l]) < MaxIdle,
         pconn[c].sock # "none", CacheKey(pconn[c].cm) = l,
         \A d \in Conns : pconn'[d].expected = pconn[d].expected
  PROVE  BaseInv'
<1>1. CountInv'
  BY CountsKeep DEF BaseInv, CallsKeep
<1>2. KeyInv'
  <2>1. \A k \in Keys : \A i \in DOMAIN idleConn'[k] :
          /\ pconn'[idleConn'[k][i]].sock # "none"
          /\ CacheKey(pconn'[idleConn'[k][i]].cm) = k
    <3> SUFFICES ASSUME NEW k \in Keys, NEW i \in DOMAIN idleConn'[k]
                 PROVE  /\ pconn'[idleConn'[k][i]].sock # "none"
                        /\ CacheKey(pconn'[idleConn'[k][i]].cm) = k
      OBVIOUS
    <3>1. CASE i \in DOMAIN idleConn[k] /\ idleConn'[k][i] = idleConn[k][i]
      <4>1. idleConn[k][i] \in Conns
        BY <3>1, PoolTypes DEF BaseInv
      <4>2. /\ pconn[idleConn[k][i]].sock # "none"
            /\ CacheKey(pconn[idleConn[k][i]].cm) = k
        BY <3>1 DEF BaseInv, KeyInv
      <4> QED
        BY <3>1, <4>1, <4>2 DEF ConnsKeep
    <3>2. CASE k = l /\ idleConn'[k][i] = c
      BY <3>2 DEF ConnsKeep
    <3> QED
      BY <3>1, <3>2 DEF Grows
  <2> QED
    BY <2>1, CallKeys DEF BaseInv, KeyInv, ConnsKeep
<1>3. IdleBounded'
  <2>1. Len(idleConn[l]) \in Nat /\ Len(idleConn'[l]) = Len(idleConn[l]) + 1
    BY PoolTypes DEF BaseInv, Grows
  <2>2. MaxIdle \in Int
    BY TransportAssumption DEF MaxIdle, DefaultMaxIdleConnsPerHost
  <2>3. Len(idleConn'[l]) <= MaxIdle
    BY <2>1, <2>2
  <2> QED
    BY <2>3 DEF IdleBounded, BaseInv, Grows
<1> QED
  BY <1>1, <1>2, <1>3 DEF BaseInv

(* TypeOK of the next state, with its sets named. *)
LEMMA TypesNext ==
  ASSUME idleConn' \in [Keys -> Seq(Conns)], call' \in [Callers -> CallRecs],
         pconn' \in [Conns -> ConnRecs], junk' \in 0..MaxJunk
  PROVE  TypeOK'
BY DEF TypeOK, CallRecs, ConnRecs, Inbox

(* A step that changes one connection keeps what KeyInv says of them all, *)
LEMMA OneConnKeeps ==
  ASSUME BaseInv, NEW c \in Conns, OthersConn(c),
         pconn[c].sock # "none" =>
           pconn'[c].sock # "none" /\ pconn'[c].cm = pconn[c].cm,
         pconn'[c].rl \in {"read", "deliver"} => pconn'[c].cur # "none",
         pconn'[c].rl # "none" => pconn[c].rl # "none" \/ pconn'[c].sock # "none"
  PROVE  ConnsKeep
BY DEF ConnsKeep, OthersConn, BaseInv, KeyInv

(* so does one that changes none, *)
LEMMA NoConnKeeps == ASSUME BaseInv, pconn' = pconn PROVE ConnsKeep
BY DEF ConnsKeep, BaseInv, KeyInv

(* and a step of one caller keeps what it says of the callers. *)
LEMMA OneCallKeeps ==
  ASSUME NEW g \in Callers, OthersCall(g), SameConnOf(g),
         call'[g].pc \in Using => call[g].pc \in Using,
         call'[g].pc \notin {"start", "dial"} \/ call[g].pc = "start",
         call'[g].pc \in Expecting => call[g].pc \in Expecting
  PROVE  CallsKeep
BY DEF CallsKeep, OthersCall, SameConnOf

(* A step of no caller keeps what callers are bound to. *)
LEMMA NoCallKeeps == ASSUME call' = call PROVE CallsKeep
BY DEF CallsKeep

(* A connection that a caller is using. *)
LEMMA UsedConn ==
  ASSUME BaseInv, NEW g \in Callers, call[g].pc \in Using
  PROVE  /\ call[g].conn \in Conns /\ pconn[call[g].conn].sock # "none"
         /\ pconn[call[g].conn] \in ConnRecs
<1>1. call[g].conn # "none" /\ call[g].conn \in Conns \cup {"none"}
  BY CallTypes DEF BaseInv, KeyInv
<1> QED
  BY <1>1, ConnTypes DEF BaseInv, KeyInv

-----------------------------------------------------------------------------
(* The steps that count: *)
LEMMA ExpectBase ==
  ASSUME BaseInv, NEW g \in Callers, Expect(g) PROVE BaseInv'
<1> DEFINE c == call[g].conn
           n == pconn[c].expected + 1
<1>1. /\ call[g].pc = "begin" /\ UNCHANGED <<idleConn, junk>>
      /\ pconn' = [pconn EXCEPT ![c].expected = n] /\ Step(g, "write", call[g])
  BY DEF Expect
<1>2. c \in Conns /\ TypeOK /\ pconn[c].expected \in Nat
  BY <1>1, UsedConn, ConnTypes DEF BaseInv, Using
<1>3. /\ pconn' \in [Conns -> ConnRecs] /\ OthersConn(c)
      /\ SameSock(pconn'[c], pconn[c]) /\ SameLoop(pconn'[c], pconn[c])
      /\ pconn'[c].expected = n
  <2>1. n \in Nat
    BY <1>2
  <2> HIDE DEF n, c
  <2> QED
    BY <1>1, <1>2, <2>1, Counting
<1>4. Moves(g, "write")
  BY <1>1, <1>2, StepMoves DEF CallerPlaces
<1>5. TypeOK'
  <2>1. idleConn' \in [Keys -> Seq(Conns)] /\ junk' \in 0..MaxJunk
    BY <1>1, <1>2, Types, SMTT(30)
  <2> QED
    BY <2>1, <1>3, <1>4, TypesNext DEF Moves
<1>6. ConnsKeep
  BY <1>2, <1>3, OneConnKeeps DEF SameSock, SameLoop, BaseInv, KeyInv
<1>7. KeyInv' /\ IdleBounded'
  <2>1. \A h \in Callers :
          /\ call'[h].cm = call[h].cm /\ call'[h].conn = call[h].conn
          /\ call'[h].pc \in Using => call[h].pc \in Using
          /\ call'[h].pc \in {"start", "dial"} => call[h].pc \in {"start", "dial"}
    BY <1>1, <1>4 DEF Moves, OthersCall, SameConnOf, Using
  <2>2. \A h \in Callers : call[h].conn \in Conns \cup {"none"}
    BY <1>2, CallTypes
  <2>3. \A k \in Keys : \A i \in DOMAIN idleConn[k] : idleConn[k][i] \in Conns
    BY <1>2, PoolTypes
  <2>4. \A d \in Conns : /\ pconn[d].sock # "none" =>
                              pconn'[d].sock # "none" /\ pconn'[d].cm = pconn[d].cm
                         /\ pconn'[d].rl \in {"read", "deliver"} => pconn'[d].cur # "none"
                         /\ pconn'[d].rl # "none" => pconn'[d].sock # "none"
    BY <1>6 DEF ConnsKeep
  <2> HIDE DEF c, n
  <2>5. \A k \in Keys : \A i \in DOMAIN idleConn'[k] :
          /\ pconn'[idleConn'[k][i]].sock # "none"
          /\ CacheKey(pconn'[idleConn'[k][i]].cm) = k
    BY <1>1, <2>3, <2>4 DEF BaseInv, KeyInv
  <2>6. \A h \in Callers :
          /\ call'[h].pc \in Using => call'[h].conn # "none"
          /\ call'[h].pc \in {"start", "dial"} => call'[h].conn = "none"
          /\ call'[h].conn # "none" =>
               /\ pconn'[call'[h].conn].sock # "none"
               /\ CacheKey(pconn'[call'[h].conn].cm) = CacheKey(call'[h].cm)
    BY <2>1, <2>2, <2>4 DEF BaseInv, KeyInv
  <2> QED
    BY <1>1, <2>4, <2>5, <2>6 DEF BaseInv, KeyInv, IdleBounded
<1>8. CountInv'
  <2> SUFFICES ASSUME NEW d \in Conns
               PROVE  Cardinality(Counted(d)') <= pconn'[d].expected
    BY DEF CountInv
  <2>1. /\ IsFiniteSet(Counted(d)) /\ Cardinality(Counted(d)) \in Nat
        /\ Cardinality(Counted(d)) <= pconn[d].expected /\ pconn[d].expected \in Nat
    BY <1>2, CountedFinite, ConnTypes DEF BaseInv, CountInv
  <2>2. CASE d = c
    <3>1. Counted(d)' = Counted(d) \cup {g} /\ g \notin Counted(d)
      BY <1>1, <1>4, <2>2 DEF Counted, Moves, OthersCall, SameConnOf, Expecting
    <3>2. Cardinality(Counted(d)') = Cardinality(Counted(d)) + 1
      BY <2>1, <3>1, FS_AddElement
    <3> QED
      BY <1>3, <2>1, <2>2, <3>2
  <2>3. CASE d # c
    <3>1. Counted(d)' = Counted(d)
      BY <1>1, <1>4, <2>3 DEF Counted, Moves, OthersCall, SameConnOf
    <3> QED
      BY <1>3, <2>1, <2>3, <3>1 DEF OthersConn
  <2> QED
    BY <2>2, <2>3
<1> QED
  BY <1>5, <1>7, <1>8 DEF BaseInv

(* and a response that is received was still expected. *)
LEMMA ReceiveBase ==
  ASSUME BaseInv, NEW g \in Callers, Receive(g) PROVE BaseInv'
<1> DEFINE c == call[g].conn
           n == pconn[c].expected - 1
           place == IF call[g].body THEN "body" ELSE "done"
<1>1. /\ call[g].pc = "await" /\ UNCHANGED <<idleConn, junk>>
      /\ pconn' = [pconn EXCEPT ![c].expected = n] /\ Step(g, place, call[g])
  BY DEF Receive
<1>2. c \in Conns /\ TypeOK /\ pconn[c].expected \in Nat
  BY <1>1, UsedConn, ConnTypes DEF BaseInv, Using
<1>3. \A d \in Conns : /\ IsFiniteSet(Counted(d)) /\ Cardinality(Counted(d)) \in Nat
                       /\ Cardinality(Counted(d)) <= pconn[d].expected
                       /\ pconn[d].expected \in Nat
  BY <1>2, CountedFinite, ConnTypes DEF BaseInv, CountInv
<1>4. n \in Nat
  <2>1. g \in Counted(c)
    BY <1>1 DEF Counted, Expecting
  <2>2. Cardinality(Counted(c)) # 0
    BY <1>2, <1>3, <2>1, FS_EmptySet
  <2> QED
    BY <1>2, <1>3, <2>2
<1>5. place \in {"body", "done"} /\ place \in CallerPlaces
  BY DEF CallerPlaces
<1> HIDE DEF place
<1>6. Moves(g, place)
  BY <1>1, <1>2, <1>5, StepMoves
<1>7. /\ pconn' \in [Conns -> ConnRecs] /\ OthersConn(c)
      /\ SameSock(pconn'[c], pconn[c]) /\ SameLoop(pconn'[c], pconn[c])
      /\ pconn'[c].expected = n
  <2> HIDE DEF n, c
  <2> QED
    BY <1>1, <1>2, <1>4, Counting
<1>8. TypeOK'
  <2>1. idleConn' \in [Keys -> Seq(Conns)] /\ junk' \in 0..MaxJunk
    BY <1>1, <1>2, Types
  <2> QED
    BY <2>1, <1>7, <1>6, TypesNext DEF Moves
<1>9. ConnsKeep
  BY <1>2, <1>7, OneConnKeeps DEF SameSock, SameLoop, BaseInv, KeyInv
<1>10. CallsKeep
  BY <1>1, <1>5, <1>6, OneCallKeeps DEF Moves, Using, Expecting
<1>11. KeyInv'
  <2>1. \A k \in Keys : \A i \in DOMAIN idleConn[k] : idleConn[k][i] \in Conns
    BY <1>2, PoolTypes
  <2>2. \A k \in Keys : \A i \in DOMAIN idleConn'[k] :
          /\ pconn'[idleConn'[k][i]].sock # "none"
          /\ CacheKey(pconn'[idleConn'[k][i]].cm) = k
    BY <1>1, <1>9, <2>1 DEF BaseInv, KeyInv, ConnsKeep
  <2> QED
    BY <1>9, <1>10, <2>2, CallKeys DEF BaseInv, KeyInv, ConnsKeep
<1>12. IdleBounded'
  BY <1>1 DEF BaseInv, IdleBounded
<1>13. CountInv'
  <2> SUFFICES ASSUME NEW d \in Conns
               PROVE  Cardinality(Counted(d)') <= pconn'[d].expected
    BY DEF CountInv
  <2>1. CASE d = c
    <3>1. Counted(d)' = Counted(d) \ {g} /\ g \in Counted(d)
      BY <1>1, <1>5, <1>6, <2>1 DEF Counted, Moves, OthersCall, SameConnOf, Expecting
    <3>2. Cardinality(Counted(d)') = Cardinality(Counted(d)) - 1
      BY <1>3, <3>1, FS_RemoveElement
    <3> QED
      BY <1>3, <1>7, <2>1, <3>2
  <2>2. CASE d # c
    <3>1. Counted(d)' = Counted(d)
      BY <1>1, <1>6, <2>2 DEF Counted, Moves, OthersCall, SameConnOf
    <3> QED
      BY <1>3, <1>7, <2>2, <3>1 DEF OthersConn
  <2> QED
    BY <2>1, <2>2
<1> QED
  BY <1>8, <1>11, <1>12, <1>13 DEF BaseInv

-----------------------------------------------------------------------------
(* A caller is given a connection with its own key. *)
LEMMA GivesConn ==
  ASSUME BaseInv, TypeOK', ConnsKeep, Shrinks, NEW g \in Callers, NEW c \in Conns,
         Gets(g, c), pconn'[c].sock # "none",
         CacheKey(pconn'[c].cm) = CacheKey(call[g].cm),
         \A d \in Conns : pconn'[d].expected = pconn[d].expected
  PROVE  BaseInv'
<1>1. CountInv'
  BY CountsKeep DEF BaseInv, Gets, OthersCall, Expecting
<1>2. \A h \in Callers :
        /\ call'[h].pc \in Using => call'[h].conn # "none"
        /\ call'[h].pc \in {"start", "dial"} => call'[h].conn = "none"
        /\ call'[h].conn # "none" =>
             /\ pconn'[call'[h].conn].sock # "none"
             /\ CacheKey(pconn'[call'[h].conn].cm) = CacheKey(call'[h].cm)
  <2> SUFFICES ASSUME NEW h \in Callers
               PROVE  /\ call'[h].pc \in Using => call'[h].conn # "none"
                      /\ call'[h].pc \in {"start", "dial"} => call'[h].conn = "none"
                      /\ call'[h].conn # "none" =>
                           /\ pconn'[call'[h].conn].sock # "none"
                           /\ CacheKey(pconn'[call'[h].conn].cm) = CacheKey(call'[h].cm)
    OBVIOUS
  <2>1. CASE h = g
    <3>1. c # "none"
      BY TransportAssumption
    <3> QED
      BY <2>1, <3>1 DEF Gets
  <2>2. CASE h # g
    <3>1. call'[h] = call[h] /\ call[h].conn \in Conns \cup {"none"}
      BY <2>2, CallTypes DEF Gets, OthersCall, BaseInv
    <3> QED
      BY <3>1 DEF BaseInv, KeyInv, ConnsKeep
  <2> QED
    BY <2>1, <2>2
<1>3. \A k \in Keys : \A i \in DOMAIN idleConn'[k] :
        /\ pconn'[idleConn'[k][i]].sock # "none"
        /\ CacheKey(pconn'[idleConn'[k][i]].cm) = k
  <2> SUFFICES ASSUME NEW k \in Keys, NEW i \in DOMAIN idleConn'[k]
               PROVE  /\ pconn'[idleConn'[k][i]].sock # "none"
                      /\ CacheKey(pconn'[idleConn'[k][i]].cm) = k
    OBVIOUS
  <2>1. i \in DOMAIN idleConn[k] /\ idleConn'[k][i] = idleConn[k][i]
    BY DEF Shrinks
  <2>2. idleConn[k][i] \in Conns
    BY <2>1, PoolTypes DEF BaseInv
  <2>3. /\ pconn[idleConn[k][i]].sock # "none"
        /\ CacheKey(pconn[idleConn[k][i]].cm) = k
    BY <2>1 DEF BaseInv, KeyInv
  <2> QED
    BY <2>1, <2>2, <2>3 DEF ConnsKeep
<1>4. KeyInv'
  BY <1>2, <1>3 DEF KeyInv, ConnsKeep
<1>5. IdleBounded'
  BY ShrinksBounded
<1> QED
  BY <1>1, <1>4, <1>5 DEF BaseInv

(* getIdleConn: the connection has the key it was found under. *)
LEMMA GetIdleConnBase ==
  ASSUME BaseInv, NEW g \in Callers, GetIdleConn(g) PROVE BaseInv'
<1>1. TypeOK
  BY DEF BaseInv
<1>2. /\ call[g].pc = "start" /\ UNCHANGED <<pconn, junk>> /\ Shrinks
      /\ (Moves(g, "dial") /\ RemovesBroken("none")) \/ TakesFromPool(g)
  BY <1>1, GetIdleConnDoes
<1>3. ConnsKeep /\ \A d \in Conns : pconn'[d].expected = pconn[d].expected
  BY <1>2, NoConnKeeps
<1>4. call' \in [Callers -> CallRecs] => TypeOK'
  BY <1>1, <1>2, Types, TypesNext DEF Shrinks
<1>5. CASE Moves(g, "dial")
  <2>1. CallsKeep
    BY <1>2, <1>5, OneCallKeeps DEF Moves, Using, Expecting
  <2> QED
    BY <1>2, <1>3, <1>4, <1>5, <2>1, BaseFrame DEF Moves
<1>6. CASE TakesFromPool(g)
  <2>0. PICK k \in Keys : \E i \in DOMAIN idleConn[k] :
          /\ k = CacheKey(call[g].cm) /\ Gets(g, idleConn[k][i]) /\ idleConn[k][i] \in Conns
    BY <1>6 DEF TakesFromPool
  <2>1. PICK i \in DOMAIN idleConn[k] :
          /\ k = CacheKey(call[g].cm) /\ Gets(g, idleConn[k][i]) /\ idleConn[k][i] \in Conns
    BY <2>0
  <2>2. /\ pconn'[idleConn[k][i]].sock # "none"
        /\ CacheKey(pconn'[idleConn[k][i]].cm) = CacheKey(call[g].cm)
    BY <1>2, <2>1 DEF BaseInv, KeyInv
  <2>3. TypeOK'
    BY <1>4, <2>1 DEF Gets
  <2> QED
    BY <1>2, <1>3, <2>1, <2>2, <2>3, GivesConn
<1> QED
  BY <1>2, <1>5, <1>6

(* getConn dials to the address of the request. *)
LEMMA GetConnBase ==
  ASSUME BaseInv, NEW g \in Callers, GetConn(g) PROVE BaseInv'
<1>1. TypeOK
  BY DEF BaseInv
<1>2. /\ call[g].pc = "dial" /\ UNCHANGED <<idleConn, junk>>
      /\ (Fails(g) /\ UNCHANGED pconn) \/ \E c \in Conns : Dials(g, c)
  BY <1>1, GetConnDoes
<1>3. Shrinks
  BY <1>1, <1>2, SamePoolShrinks
<1>4. /\ call' \in [Callers -> CallRecs] /\ pconn' \in [Conns -> ConnRecs] => TypeOK'
  BY <1>1, <1>2, Types, TypesNext
<1>5. Fails(g) => CallsKeep
  BY <1>2, OneCallKeeps DEF Fails, Using, Expecting
<1>6. CASE Fails(g) /\ UNCHANGED pconn
  <2>1. TypeOK'
    BY <1>1, <1>4, <1>6, Types DEF Fails
  <2> QED
    BY <1>3, <1>5, <1>6, <2>1, NoConnKeeps, BaseFrame
<1>7. ASSUME NEW c \in Conns, Dials(g, c) PROVE BaseInv'
  <2>1. TypeOK'
    BY <1>4, <1>7 DEF Dials, Fails, Gets
  <2>2. ConnsKeep
    BY <1>7, OneConnKeeps DEF Dials, BaseInv, KeyInv
  <2>3. \A d \in Conns : pconn'[d].expected = pconn[d].expected
    BY <1>7 DEF Dials, OthersConn
  <2>4. CASE Fails(g)
    BY <1>3, <1>5, <2>1, <2>2, <2>3, <2>4, BaseFrame
  <2>5. CASE Gets(g, c) /\ pconn'[c].sock = "open"
    BY <1>3, <1>7, <2>1, <2>2, <2>3, <2>5, GivesConn, SMTT(30) DEF Dials
  <2> QED
    BY <1>7, <2>4, <2>5 DEF Dials
<1> QED
  BY <1>2, <1>6, <1>7

(* roundTrip writes its request, announces it, *)
LEMMA WriteDoes ==
  ASSUME TypeOK, NEW g \in Callers, call[g].conn \in Conns, Write(g)
  PROVE  LET c == call[g].conn IN
         /\ call[g].pc = "write" /\ UNCHANGED <<idleConn, junk>>
         /\ pconn' \in [Conns -> ConnRecs] /\ OthersConn(c)
         /\ SameLoop(pconn'[c], pconn[c]) /\ pconn'[c].expected = pconn[c].expected
         /\ pconn'[c].reqch = pconn[c].reqch /\ pconn'[c].inbox = pconn[c].inbox
         /\ \/ /\ Moves(g, "send") /\ SameSock(pconn'[c], pconn[c])
               /\ pconn'[c].wire \in {pconn[c].wire, Append(pconn[c].wire, g)}
            \/ /\ Fails(g) /\ Closed(pconn'[c], pconn[c])
               /\ pconn'[c].wire = pconn[c].wire
<1> DEFINE c == call[g].conn
           p == pconn[c]
<1>1. /\ call[g].pc = "write" /\ UNCHANGED <<idleConn, junk>>
      /\ \/ /\ pconn' = [pconn EXCEPT ![c].wire = Append(p.wire, g)]
            /\ Step(g, "send", call[g])
         \/ UNCHANGED pconn /\ Step(g, "send", call[g])
         \/ pconn' = [pconn EXCEPT ![c] = CloseLocked(p)] /\ Fail(g)
  BY DEF Write
<1>2. c \in Conns /\ p \in ConnRecs /\ p.wire \in Seq(Callers)
  BY ConnTypes
<1>3. Step(g, "send", call[g]) => Moves(g, "send")
  BY StepMoves DEF CallerPlaces
<1>4. Fail(g) => Fails(g)
  BY FailFails, SMTT(30)
<1> HIDE DEF c
<1>5. CASE /\ pconn' = [pconn EXCEPT ![c].wire = Append(p.wire, g)]
           /\ Step(g, "send", call[g])
  <2> DEFINE s == Append(p.wire, g)
  <2>1. s \in Seq(Callers)
    BY <1>2
  <2>2. pconn' = [pconn EXCEPT ![c].wire = s]
    BY <1>5
  <2> HIDE DEF s
  <2>3. /\ pconn' \in [Conns -> ConnRecs] /\ OthersConn(c)
        /\ SameSock(pconn'[c], pconn[c]) /\ SameLoop(pconn'[c], pconn[c])
        /\ pconn'[c].expected = pconn[c].expected
        /\ pconn'[c].reqch = pconn[c].reqch /\ pconn'[c].inbox = pconn[c].inbox
        /\ pconn'[c].wire = s
    BY <1>2, <2>1, <2>2, Writing
  <2> QED
    BY <1>1, <1>3, <1>5, <2>3 DEF s, c
<1>6. CASE UNCHANGED pconn /\ Step(g, "send", call[g])
  <2>1. /\ pconn' \in [Conns -> ConnRecs] /\ OthersConn(c)
        /\ SameSock(pconn'[c], pconn[c]) /\ SameLoop(pconn'[c], pconn[c])
    BY <1>6, Types, SMTT(30) DEF OthersConn, SameSock, SameLoop
  <2> QED
    BY <1>1, <1>3, <1>6, <2>1 DEF c
<1>7. CASE pconn' = [pconn EXCEPT ![c] = CloseLocked(p)] /\ Fail(g)
  <2>1. /\ CloseLocked(p) \in ConnRecs /\ Closed(CloseLocked(p), p)
        /\ SameQueues(CloseLocked(p), p) /\ SameLoop(CloseLocked(p), p)
        /\ CloseLocked(p).expected = p.expected
    BY <1>2, CloseLockedFacts
  <2>2. Becomes(c, CloseLocked(p))
    BY <1>2, <1>7, <2>1, ConnBecomes
  <2> QED
    BY <1>1, <1>4, <1>7, <2>1, <2>2 DEF Becomes, SameQueues, c
<1> QED
  BY <1>1, <1>5, <1>6, <1>7

(* A caller puts its request on the connection's channel and waits. *)
LEMMA SendDoes ==
  ASSUME TypeOK, NEW g \in Callers, call[g].conn \in Conns, Send(g)
  PROVE  LET c == call[g].conn IN
         /\ call[g].pc = "send" /\ UNCHANGED <<idleConn, junk>> /\ Moves(g, "await")
         /\ pconn' \in [Conns -> ConnRecs] /\ OthersConn(c)
         /\ SameSock(pconn'[c], pconn[c]) /\ SameLoop(pconn'[c], pconn[c])
         /\ pconn'[c].expected = pconn[c].expected
         /\ pconn'[c].wire = pconn[c].wire /\ pconn'[c].inbox = pconn[c].inbox
         /\ pconn'[c].reqch = Append(pconn[c].reqch, g)
<1> DEFINE c == call[g].conn
           s == Append(pconn[c].reqch, g)
<1>1. /\ call[g].pc = "send" /\ UNCHANGED <<idleConn, junk>>
      /\ pconn' = [pconn EXCEPT ![c].reqch = s] /\ Step(g, "await", call[g])
  BY DEF Send
<1>2. c \in Conns /\ s \in Seq(Callers)
  BY ConnTypes
<1>3. Moves(g, "await")
  BY <1>1, StepMoves DEF CallerPlaces
<1> HIDE DEF s, c
<1>4. /\ pconn' \in [Conns -> ConnRecs] /\ OthersConn(c)
      /\ SameSock(pconn'[c], pconn[c]) /\ SameLoop(pconn'[c], pconn[c])
      /\ pconn'[c].expected = pconn[c].expected
      /\ pconn'[c].wire = pconn[c].wire /\ pconn'[c].inbox = pconn[c].inbox
      /\ pconn'[c].reqch = s
  BY <1>1, <1>2, Announcing
<1> QED
  BY <1>1, <1>3, <1>4 DEF c, s

(* fn puts the connection away, *)
LEMMA BodyPutDoes ==
  ASSUME TypeOK, NEW g \in Callers, call[g].conn \in Conns, BodyPut(g)
  PROVE  LET c == call[g].conn
             p == pconn[c] IN
         /\ call[g].pc = "put" /\ junk' = junk /\ Puts(g)
         /\ pconn' \in [Conns -> ConnRecs] /\ OthersConn(c)
         /\ SameQueues(pconn'[c], p) /\ pconn'[c].cm = p.cm
         /\ pconn'[c].expected = p.expected /\ pconn'[c].rl = p.rl
         /\ pconn'[c].cur = p.cur /\ pconn'[c].got = p.got
         /\ pconn'[c].hasBody = p.hasBody /\ pconn'[c].lastbody = p.lastbody
         /\ Refuses(c, p) \/ Accepts(c, p)
<1> DEFINE c == call[g].conn
           p == pconn[c]
<1>1. /\ call[g].pc = "put" /\ junk' = junk /\ PutIdleConn(c, p)
      /\ Step(g, "signal", [call[g] EXCEPT !.runs = @ + 1])
  BY DEF BodyPut
<1>2. p \in ConnRecs /\ c \in Conns
  BY ConnTypes
<1>3. Puts(g)
  BY <1>1, StepPuts
<1> HIDE DEF p
<1>4. /\ pconn' \in [Conns -> ConnRecs] /\ OthersConn(c)
      /\ SameQueues(pconn'[c], p) /\ pconn'[c].cm = p.cm
      /\ pconn'[c].expected = p.expected /\ pconn'[c].rl = p.rl
      /\ pconn'[c].cur = p.cur /\ pconn'[c].got = p.got
      /\ pconn'[c].hasBody = p.hasBody /\ pconn'[c].lastbody = p.lastbody
      /\ Refuses(c, p) \/ Accepts(c, p)
  BY <1>1, <1>2, Idling
<1> QED
  BY <1>1, <1>3, <1>4 DEF p

(* and lets readLoop go on. *)
LEMMA BodySignalDoes ==
  ASSUME TypeOK, NEW g \in Callers, call[g].conn \in Conns, BodySignal(g)
  PROVE  LET c == call[g].conn
             p == pconn[c] IN
         /\ call[g].pc = "signal" /\ p.rl = "waitbody" /\ UNCHANGED <<idleConn, junk>>
         /\ Moves(g, "clear") /\ pconn' \in [Conns -> ConnRecs] /\ OthersConn(c)
         /\ SameSock(pconn'[c], p) /\ SameQueues(pconn'[c], p)
         /\ pconn'[c].expected = p.expected /\ pconn'[c].cur = p.cur
         /\ pconn'[c].lastbody = p.lastbody /\ pconn'[c].rl \in {"peek", "exit"}
<1> DEFINE c == call[g].conn
           p == pconn[c]
<1>1. /\ call[g].pc = "signal" /\ p.rl = "waitbody" /\ UNCHANGED <<idleConn, junk>>
      /\ pconn' = [pconn EXCEPT ![c] = Loop(p)] /\ Step(g, "clear", call[g])
  BY DEF BodySignal
<1>2. p \in ConnRecs /\ c \in Conns
  BY ConnTypes
<1>3. Moves(g, "clear")
  BY <1>1, StepMoves DEF CallerPlaces
<1> HIDE DEF p
<1>4. /\ Loop(p) \in ConnRecs /\ SameSock(Loop(p), p) /\ SameQueues(Loop(p), p)
      /\ Loop(p).expected = p.expected /\ Loop(p).cur = p.cur
      /\ Loop(p).lastbody = p.lastbody /\ Loop(p).rl \in {"peek", "exit"}
  BY <1>2, LoopFacts
<1>5. Becomes(c, Loop(p))
  BY <1>1, <1>2, <1>4, ConnBecomes
<1> QED
  BY <1>1, <1>3, <1>4, <1>5 DEF Becomes, p

-----------------------------------------------------------------------------
(* Whatever putIdleConn does, the base invariant is kept. *)
LEMMA PutBase ==
  ASSUME BaseInv, NEW c \in Conns, NEW p \in ConnRecs, Refuses(c, p) \/ Accepts(c, p),
         p.cm = pconn[c].cm, pconn[c].sock # "none",
         call' \in [Callers -> CallRecs], pconn' \in [Conns -> ConnRecs], junk' = junk,
         ConnsKeep, CallsKeep,
         \A d \in Conns : pconn'[d].expected = pconn[d].expected
  PROVE  BaseInv'
<1>1. TypeOK /\ junk' \in 0..MaxJunk
  BY Types DEF BaseInv
<1>2. CASE Refuses(c, p)
  <2>1. idleConn' = idleConn
    BY <1>2 DEF Refuses
  <2>2. TypeOK' /\ Shrinks
    BY <1>1, <2>1, Types, TypesNext, SamePoolShrinks
  <2> QED
    BY <2>2, BaseFrame
<1>3. CASE Accepts(c, p)
  <2> DEFINE l == CacheKey(p.cm)
  <2>1. l \in Keys /\ l = CacheKey(pconn[c].cm)
    BY KeyOfMethod DEF ConnRecs
  <2>2. Grows(c, l) /\ Len(idleConn[l]) < MaxIdle
    BY <1>1, <1>3, AcceptsGrows DEF Accepts
  <2> HIDE DEF l
  <2>3. TypeOK'
    BY <1>1, <2>2, TypesNext DEF Grows
  <2> QED
    BY <2>1, <2>2, <2>3, BaseGrows
<1> QED
  BY <1>2, <1>3

(* A step that leaves the pool alone. *)
LEMMA PoolKeptBase ==
  ASSUME BaseInv, idleConn' = idleConn, junk' = junk,
         call' \in [Callers -> CallRecs], pconn' \in [Conns -> ConnRecs],
         ConnsKeep, CallsKeep,
         \A d \in Conns : pconn'[d].expected = pconn[d].expected
  PROVE  BaseInv'
<1>1. TypeOK /\ junk' \in 0..MaxJunk
  BY Types DEF BaseInv
<1>2. TypeOK' /\ Shrinks
  BY <1>1, Types, TypesNext, SamePoolShrinks
<1> QED
  BY <1>2, BaseFrame

(* The other steps of a caller. *)
LEMMA CallerBase ==
  ASSUME BaseInv, NEW g \in Callers, CallerStep(g) PROVE BaseInv'
<1> DEFINE c == call[g].conn
<1>1. TypeOK
  BY DEF BaseInv
<1>2. call[g].pc \in Using =>
        c \in Conns /\ pconn[c].sock # "none" /\ pconn[c] \in ConnRecs
  BY UsedConn
<1> HIDE DEF c
<1>3. CASE Write(g)
  <2>1. c \in Conns
    BY <1>2, <1>3 DEF Write, Using
  <2>2. /\ call[g].pc = "write" /\ UNCHANGED <<idleConn, junk>>
        /\ pconn' \in [Conns -> ConnRecs] /\ OthersConn(c)
        /\ SameLoop(pconn'[c], pconn[c]) /\ pconn'[c].expected = pconn[c].expected
        /\ \/ Moves(g, "send") /\ SameSock(pconn'[c], pconn[c])
           \/ Fails(g) /\ Closed(pconn'[c], pconn[c])
    BY <1>1, <1>3, <2>1, WriteDoes DEF c
  <2>3. ConnsKeep
    BY <2>1, <2>2, OneConnKeeps DEF SameSock, SameLoop, Closed, BaseInv, KeyInv
  <2>4. CallsKeep /\ call' \in [Callers -> CallRecs]
    BY <2>2, OneCallKeeps DEF Moves, Fails, Using, Expecting
  <2> QED
    BY <2>2, <2>3, <2>4, PoolKeptBase DEF OthersConn
<1>4. CASE Send(g)
  <2>1. c \in Conns
    BY <1>2, <1>4 DEF Send, Using
  <2>2. /\ call[g].pc = "send" /\ UNCHANGED <<idleConn, junk>> /\ Moves(g, "await")
        /\ pconn' \in [Conns -> ConnRecs] /\ OthersConn(c)
        /\ SameSock(pconn'[c], pconn[c]) /\ SameLoop(pconn'[c], pconn[c])
        /\ pconn'[c].expected = pconn[c].expected
    BY <1>1, <1>4, <2>1, SendDoes DEF c
  <2>3. ConnsKeep
    BY <2>1, <2>2, OneConnKeeps DEF SameSock, SameLoop, BaseInv, KeyInv
  <2>4. CallsKeep /\ call' \in [Callers -> CallRecs]
    BY <2>2, OneCallKeeps DEF Moves, Using, Expecting
  <2> QED
    BY <2>2, <2>3, <2>4, PoolKeptBase DEF OthersConn
<1>5. CASE EndBody(g)
  <2>1. Ends(g) /\ UNCHANGED <<idleConn, pconn, junk>>
    BY <1>1, <1>5, EndBodyEnds
  <2>2. CallsKeep /\ call' \in [Callers -> CallRecs]
    BY <2>1, OneCallKeeps DEF Ends, Using, Expecting
  <2> QED
    BY <1>1, <2>1, <2>2, NoConnKeeps, PoolKeptBase, Types
<1>6. CASE BodyPut(g)
  <2>1. c \in Conns /\ pconn[c].sock # "none" /\ pconn[c] \in ConnRecs
    BY <1>2, <1>6 DEF BodyPut, Using
  <2>2. /\ call[g].pc = "put" /\ junk' = junk /\ Puts(g)
        /\ pconn' \in [Conns -> ConnRecs] /\ OthersConn(c) /\ pconn'[c].cm = pconn[c].cm
        /\ pconn'[c].expected = pconn[c].expected /\ pconn'[c].rl = pconn[c].rl
        /\ pconn'[c].cur = pconn[c].cur
        /\ Refuses(c, pconn[c]) \/ Accepts(c, pconn[c])
    BY <1>1, <1>6, <2>1, BodyPutDoes DEF c
  <2>3. pconn'[c].sock # "none"
    BY <2>1, <2>2 DEF Refuses, Accepts
  <2>4. ConnsKeep
    BY <2>1, <2>2, <2>3, OneConnKeeps DEF BaseInv, KeyInv
  <2>5. CallsKeep /\ call' \in [Callers -> CallRecs]
    BY <2>2, OneCallKeeps DEF Puts, Using, Expecting
  <2> QED
    BY <2>1, <2>2, <2>4, <2>5, PutBase DEF OthersConn
<1>7. CASE BodySignal(g)
  <2>1. c \in Conns
    BY <1>2, <1>7 DEF BodySignal, Using
  <2>2. /\ call[g].pc = "signal" /\ UNCHANGED <<idleConn, junk>> /\ Moves(g, "clear")
        /\ pconn[c].rl = "waitbody"
        /\ pconn' \in [Conns -> ConnRecs] /\ OthersConn(c) /\ SameSock(pconn'[c], pconn[c])
        /\ pconn'[c].expected = pconn[c].expected /\ pconn'[c].rl \in {"peek", "exit"}
    BY <1>1, <1>7, <2>1, BodySignalDoes DEF c
  <2>3. ConnsKeep
    BY <2>1, <2>2, OneConnKeeps DEF SameSock
  <2>4. CallsKeep /\ call' \in [Callers -> CallRecs]
    BY <2>2, OneCallKeeps DEF Moves, Using, Expecting
  <2> QED
    BY <2>2, <2>3, <2>4, PoolKeptBase DEF OthersConn
<1>8. CASE BodyClear(g)
  <2>1. /\ call[g].pc = "clear" /\ UNCHANGED <<idleConn, pconn, junk>>
        /\ Step(g, "done", [call[g] EXCEPT !.fn = FALSE])
    BY <1>8 DEF BodyClear
  <2>2. Clears(g)
    BY <1>1, <2>1, StepClears
  <2>3. CallsKeep /\ call' \in [Callers -> CallRecs]
    BY <2>1, <2>2, OneCallKeeps DEF Clears, Using, Expecting
  <2> QED
    BY <1>1, <2>1, <2>3, NoConnKeeps, PoolKeptBase, Types
<1> QED
  BY <1>3, <1>4, <1>5, <1>6, <1>7, <1>8, GetIdleConnBase, GetConnBase, ExpectBase,
     ReceiveBase DEF CallerStep

(* The steps of readLoop. *)
LEMMA ReadLoopBase ==
  ASSUME BaseInv, NEW c \in Conns, ReadLoop(c) PROVE BaseInv'
<1>1. TypeOK /\ call \in [Callers -> CallRecs]
  BY Types DEF BaseInv
<1>2. pconn[c].rl # "none" => pconn[c].sock # "none"
  BY DEF BaseInv, KeyInv
<1>3. CASE Peek(c)
  <2>1. PeekEffect(c)
    BY <1>1, <1>3, PeekDoes
  <2>2. ConnsKeep
    BY <1>2, <2>1, OneConnKeeps DEF PeekEffect, Closed, SameSock
  <2> QED
    BY <1>1, <2>1, <2>2, NoCallKeeps, PoolKeptBase DEF PeekEffect, OthersConn
<1>4. CASE Recv(c)
  <2>1. RecvEffect(c) /\ LastClosed
    BY <1>1, <1>4, RecvDoes, RecvCloses
  <2>2. CallsKeep /\ call' \in [Callers -> CallRecs]
    BY <2>1 DEF LastClosed, CallsKeep
  <2>3. pconn'[c].cur # "none" /\ pconn[c].sock # "none"
    <3>1. Head(pconn[c].reqch) \in Callers
      BY <1>1, <2>1, ConnTypes, HeadTailProperties DEF RecvEffect
    <3> QED
      BY <1>2, <2>1, <3>1, TransportAssumption DEF RecvEffect
  <2>4. \A d \in Conns : pconn'[d].expected = pconn[d].expected
    BY <2>1 DEF RecvEffect, OthersConn
  <2>5. CASE \E p \in ConnRecs : /\ p.cm = pconn[c].cm /\ p.sock = pconn[c].sock
                                 /\ Refuses(c, p) \/ Accepts(c, p)
    <3>1. PICK p \in ConnRecs : /\ p.cm = pconn[c].cm /\ p.sock = pconn[c].sock
                                /\ Refuses(c, p) \/ Accepts(c, p)
      BY <2>5
    <3>2. pconn'[c].sock # "none"
      BY <2>3, <3>1 DEF Refuses, Accepts
    <3>3. ConnsKeep
      BY <2>1, <2>3, <3>2, OneConnKeeps DEF RecvEffect
    <3> QED
      BY <2>1, <2>2, <2>3, <2>4, <3>1, <3>3, PutBase DEF RecvEffect
  <2>6. CASE UNCHANGED idleConn /\ SameSock(pconn'[c], pconn[c])
    <3>1. ConnsKeep
      BY <2>1, <2>3, <2>6, OneConnKeeps DEF RecvEffect, SameSock
    <3> QED
      BY <2>1, <2>2, <2>4, <2>6, <3>1, PoolKeptBase DEF RecvEffect
  <2> QED
    BY <1>1, <1>4, <2>5, <2>6, RecvDoes
<1>5. CASE ReadError(c)
  <2>1. ReadErrorEffect(c)
    BY <1>1, <1>5, ReadErrorDoes
  <2>2. pconn[c].cur # "none"
    BY <2>1 DEF ReadErrorEffect, BaseInv, KeyInv
  <2>3. ConnsKeep
    BY <1>2, <2>1, <2>2, OneConnKeeps DEF ReadErrorEffect, Closed
  <2> QED
    BY <1>1, <2>1, <2>3, NoCallKeeps, PoolKeptBase DEF ReadErrorEffect, OthersConn
<1>6. CASE ReadResponse(c)
  <2>1. ReadResponseEffect(c) /\ (Bodyless(c) \/ WithBody(c) \/ Closing(c))
    BY <1>1, <1>6, ReadResponseDoes
  <2>2. pconn[c].cur # "none" /\ pconn[c].cur \in Callers /\ pconn[c].sock # "none"
    BY <1>1, <1>2, <2>1, ConnTypes DEF ReadResponseEffect, BaseInv, KeyInv
  <2>3. \A d \in Conns : pconn'[d].expected = pconn[d].expected
    BY <2>1 DEF ReadResponseEffect, OthersConn
  <2>4. CASE Bodyless(c)
    <3>1. PICK p \in ConnRecs : SameSock(p, pconn[c]) /\ (Refuses(c, p) \/ Accepts(c, p))
      BY <2>4 DEF Bodyless
    <3>2. pconn'[c].sock # "none"
      BY <2>2, <3>1 DEF Refuses, Accepts, SameSock
    <3>3. ConnsKeep
      BY <2>1, <2>2, <3>2, OneConnKeeps DEF ReadResponseEffect
    <3>4. CallsKeep /\ call' \in [Callers -> CallRecs]
      BY <1>1, <2>4, NoCallKeeps DEF Bodyless
    <3> QED
      BY <2>1, <2>2, <2>3, <3>1, <3>3, <3>4, PutBase DEF ReadResponseEffect, SameSock
  <2>5. CASE WithBody(c) \/ Closing(c)
    <3>1. ConnsKeep
      BY <2>1, <2>2, <2>5, OneConnKeeps
      DEF ReadResponseEffect, SameSock, WithBody, Closing
    <3>2. CallsKeep /\ call' \in [Callers -> CallRecs]
      <4>1. CASE WithBody(c)
        <5>1. /\ call' \in [Callers -> CallRecs] /\ OthersCall(pconn[c].cur)
              /\ SameConnOf(pconn[c].cur)
              /\ call'[pconn[c].cur].pc = call[pconn[c].cur].pc
          BY <1>1, <2>2, <4>1, SettingFn DEF WithBody
        <5> QED
          BY <5>1 DEF CallsKeep, OthersCall, SameConnOf
      <4>2. CASE Closing(c)
        BY <1>1, <4>2, NoCallKeeps DEF Closing
      <4> QED
        BY <2>5, <4>1, <4>2
    <3> QED
      BY <2>1, <2>3, <2>5, <3>1, <3>2, PoolKeptBase
      DEF ReadResponseEffect, WithBody, Closing
  <2> QED
    BY <2>1, <2>4, <2>5
<1>7. CASE Deliver(c)
  <2>1. pconn[c].rl = "deliver" /\ pconn[c].cur # "none"
    BY <1>7 DEF Deliver, BaseInv, KeyInv
  <2>2. DeliverEffect(c)
    BY <1>1, <1>7, <2>1, DeliverDoes
  <2>3. ConnsKeep
    BY <1>2, <2>1, <2>2, OneConnKeeps DEF DeliverEffect, SameSock
  <2>4. CallsKeep
    BY <2>2 DEF DeliverEffect, CallsKeep, OthersCall, SameConnOf
  <2> QED
    BY <2>2, <2>3, <2>4, PoolKeptBase DEF DeliverEffect, OthersConn
<1> QED
  BY <1>3, <1>4, <1>5, <1>6, <1>7 DEF ReadLoop

(* The steps of servers. *)
LEMMA ServerBase ==
  ASSUME BaseInv, NEW c \in Conns, Server(c) PROVE BaseInv'
<1>1. /\ TypeOK /\ idleConn \in [Keys -> Seq(Conns)] /\ call \in [Callers -> CallRecs]
      /\ junk \in 0..MaxJunk
  BY Types DEF BaseInv
<1>2. ASSUME NEW x \in Inbox, Arrives(c, x), junk' \in 0..MaxJunk
      PROVE  BaseInv'
  <2>1. ConnsKeep
    BY <1>2, OneConnKeeps DEF Arrives, SameSock, SameLoop, BaseInv, KeyInv
  <2>2. TypeOK' /\ Shrinks
    BY <1>1, <1>2, TypesNext, SamePoolShrinks DEF Arrives
  <2> QED
    BY <1>2, <2>1, <2>2, NoCallKeeps, BaseFrame DEF Arrives, OthersConn
<1>3. CASE ServerReplies(c)
  BY <1>1, <1>2, <1>3, RepliesDoes
<1>4. CASE ServerJunk(c)
  BY <1>1, <1>2, <1>4, JunkDoes
<1>5. CASE ServerGoes(c)
  <2>1. /\ pconn' \in [Conns -> ConnRecs] /\ OthersConn(c)
        /\ UNCHANGED <<idleConn, call, junk>>
        /\ SameSock(pconn'[c], pconn[c])
        /\ SameLoop(pconn'[c], pconn[c]) /\ pconn'[c].expected = pconn[c].expected
    BY <1>1, <1>5, GoesDoes
  <2>2. ConnsKeep
    BY <2>1, OneConnKeeps DEF SameSock, SameLoop, BaseInv, KeyInv
  <2> QED
    BY <1>1, <2>1, <2>2, NoCallKeeps, PoolKeptBase DEF OthersConn
<1> QED
  BY <1>3, <1>4, <1>5 DEF Server

(* CloseIdleConnections. *)
LEMMA CloseIdleBase == ASSUME BaseInv, CloseIdleConnections PROVE BaseInv'
<1>1. TypeOK /\ junk \in 0..MaxJunk /\ call \in [Callers -> CallRecs]
  BY Types DEF BaseInv
<1>2. /\ UNCHANGED <<call, junk>> /\ pconn' \in [Conns -> ConnRecs] /\ Shrinks
      /\ \A c \in Conns :
           /\ SameLoop(pconn'[c], pconn[c]) /\ pconn'[c].expected = pconn[c].expected
           /\ Closed(pconn'[c], pconn[c]) \/ SameSock(pconn'[c], pconn[c])
  BY <1>1, CloseIdleDoes
<1>3. ConnsKeep
  BY <1>2 DEF ConnsKeep, SameLoop, Closed, SameSock, BaseInv, KeyInv
<1>4. TypeOK'
  BY <1>1, <1>2, TypesNext DEF Shrinks
<1> QED
  BY <1>2, <1>3, <1>4, NoCallKeeps, BaseFrame

(* The initial states. *)
LEMMA InitBase == Init => BaseInv
<1> SUFFICES ASSUME Init PROVE BaseInv
  OBVIOUS
<1> DEFINE m == CHOOSE cm \in Methods : TRUE
           q == [cm |-> m, sock |-> "none", broken |-> FALSE, expected |-> 0,
                 reqch |-> <<>>, wire |-> <<>>, inbox |-> <<>>, eof |-> FALSE,
                 rl |-> "none", cur |-> "none", got |-> "none", hasBody |-> FALSE,
                 alive |-> TRUE, lastbody |-> "none"]
<1>1. m \in Methods
  BY TransportAssumption
<1>2. pconn = [c \in Conns |-> q] /\ idleConn = [k \in Keys |-> <<>>] /\ junk = 0
  BY DEF Init
<1> HIDE DEF m
<1>3. q \in ConnRecs /\ q.expected = 0 /\ q.rl = "none"
  BY <1>1 DEF ConnRecs, LoopPlaces, Results
<1> HIDE DEF q
<1>4. /\ pconn \in [Conns -> ConnRecs]
      /\ \A c \in Conns : pconn[c].expected = 0 /\ pconn[c].rl = "none"
  BY <1>2, <1>3
<1>5. PICK cms \in [Callers -> Methods] :
        call = [g \in Callers |->
                  [pc |-> "start", cm |-> cms[g], conn |-> "none",
                   res |-> "none", body |-> FALSE, fn |-> FALSE,
                   closed |-> FALSE, runs |-> 0]]
  BY DEF Init
<1>6. /\ call \in [Callers -> CallRecs]
      /\ \A g \in Callers : call[g].pc = "start" /\ call[g].conn = "none"
  BY <1>5 DEF CallRecs, CallerPlaces, Results
<1>7. idleConn \in [Keys -> Seq(Conns)] /\ \A k \in Keys : idleConn[k] = <<>>
  BY <1>2
<1>8. TypeOK
  BY <1>2, <1>4, <1>6, <1>7, Types, TransportAssumption
<1>9. KeyInv
  BY <1>4, <1>6, <1>7 DEF KeyInv, Using
<1>10. CountInv
  <2>1. \A c \in Conns : Counted(c) = {}
    BY <1>6 DEF Counted, Expecting
  <2>2. \A c \in Conns : Cardinality(Counted(c)) = 0
    BY <2>1, FS_EmptySet
  <2> QED
    BY <1>4, <2>2 DEF CountInv
<1> QED
  BY <1>7, <1>8, <1>9, <1>10 DEF BaseInv, IdleBounded

(* Every step. *)
LEMMA NextBase == BaseInv /\ [Next]_vars => BaseInv'
<1> SUFFICES ASSUME BaseInv, [Next]_vars PROVE BaseInv'
  OBVIOUS
<1>1. CASE UNCHANGED vars
  BY <1>1 DEF vars, BaseInv, TypeOK, KeyInv, CountInv, Counted, IdleBounded
<1>2. CASE Finished
  BY <1>1, <1>2 DEF Finished
<1>3. CASE \E g \in Callers : CallerStep(g)
  BY <1>3, CallerBase
<1>4. CASE \E c \in Conns : ReadLoop(c) \/ Server(c)
  BY <1>4, ReadLoopBase, ServerBase
<1>5. CASE CloseIdleConnections
  BY <1>5, CloseIdleBase
<1> QED
  BY <1>1, <1>2, <1>3, <1>4, <1>5 DEF Next

(* The basic invariant holds always: by Init, by Next, and by induction    *)
(* over steps.                                                             *)
LEMMA BaseAlways == Spec => []BaseInv
BY InitBase, NextBase, PTL DEF Spec

(* Every variable keeps its type; in particular numExpectedResponses never *)
(* goes below zero, though it counts up before a write that may fail and   *)
(* is not counted down then.                                               *)
THEOREM TypeCorrect == Spec => []TypeOK
<1>1. BaseInv => TypeOK
  BY DEF BaseInv
<1> QED
  BY <1>1, BaseAlways, PTL

(* getIdleConn and getConn give a request a connection to the right first  *)
(* hop, scheme and address, whatever is pooled, dialled or closed in       *)
(* between, and however bodies end.                                        *)
THEOREM RightTargetHolds == Spec => []RightTarget
<1>1. BaseInv => RightTarget
  <2> SUFFICES ASSUME BaseInv, NEW g \in Callers, call[g].conn # "none"
               PROVE  LET to == pconn[call[g].conn].cm
                          cm == call[g].cm
                      IN  /\ to.proxy = cm.proxy /\ to.scheme = cm.scheme
                          /\ to.addr = cm.addr \/ (cm.proxy /\ cm.scheme = "http")
    BY DEF RightTarget
  <2> DEFINE to == pconn[call[g].conn].cm
             cm == call[g].cm
  <2>1. CacheKey(to) = CacheKey(cm)
    BY DEF BaseInv, KeyInv
  <2> HIDE DEF to, cm
  <2>2. <<to.proxy, to.scheme, to.addr>> = <<cm.proxy, cm.scheme, cm.addr>>
    BY <2>1 DEF CacheKey
  <2>3. to.proxy = cm.proxy /\ to.scheme = cm.scheme /\ to.addr = cm.addr
    BY <2>2
  <2> QED
    BY <2>3 DEF to, cm
<1> QED
  BY <1>1, BaseAlways, PTL

(* putIdleConn keeps at most MaxIdleConnsPerHost connections to a host. *)
THEOREM IdleBoundedHolds == Spec => []IdleBounded
<1>1. BaseInv => IdleBounded
  BY DEF BaseInv
<1> QED
  BY <1>1, BaseAlways, PTL

-----------------------------------------------------------------------------
(* What holds as long as no fn has run twice: a body that is read to EOF   *)
(* leaves its fn in place for a moment, and readLoop may run it again.     *)
(*                                                                         *)
(* readLoop hands caller g its answer, *)
Delivering(g, c) == pconn[c].cur = g /\ pconn[c].rl = "deliver"

(* g waits for an answer over c that is yet to come, *)
Waits(g, c) ==
  /\ call[g].conn = c /\ call[g].pc = "await" /\ call[g].res = "none"
  /\ ~Delivering(g, c)

(* or is going to, *)
Uses(g, c) ==
  \/ Waits(g, c)
  \/ call[g].conn = c /\ call[g].pc \in {"begin", "write", "send"}

(* or it has a body from c whose fn has not given c back yet, *)
Reads(g, c) ==
  call[g].conn = c /\ call[g].fn /\ call[g].pc \in {"await", "body", "put"}

(* or it has, or is about to be handed, any other body from c: *)
BodyComes(g, c) == Delivering(g, c) /\ pconn[c].hasBody

Served(g, c) ==
  /\ call[g].conn = c /\ call[g].pc \in {"await", "body"}
  /\ \/ call[g].body
     \/ call[g].pc = "await" /\ call[g].res = "none" /\ BodyComes(g, c)

(* connection c belongs to g. *)
Holds(g, c) == Uses(g, c) \/ Reads(g, c) \/ Served(g, c)

(* A connection belongs to one caller at most, and to none when pooled, *)
TokenInv ==
  \A c \in Conns :
    /\ \A g, h \in Callers : Holds(g, c) /\ Holds(h, c) => g = h
    /\ InPool(c) => \A g \in Callers : ~Holds(g, c)

(* where it is at one place only. *)
PoolInv ==
  \A k, l \in Keys : \A i \in DOMAIN idleConn[k], j \in DOMAIN idleConn[l] :
    idleConn[k][i] = idleConn[l][j] => k = l /\ i = j

(* A body that is through: it has been closed, or its fn has run. *)
Spent(body) == body.closed \/ body.runs # 0

(* readLoop has one request to answer at most, and its caller waits for    *)
(* it; lastbody is a body that is through by the time of the next.         *)
LoopAt(c) ==
  /\ pconn[c].sock = "none" =>
       /\ pconn[c].rl = "none" /\ pconn[c].reqch = <<>> /\ pconn[c].lastbody = "none"
       /\ pconn[c].wire = <<>> /\ pconn[c].inbox = <<>>
  /\ pconn[c].reqch # <<>> => Len(pconn[c].reqch) = 1 /\ Waits(pconn[c].reqch[1], c)
  /\ pconn[c].rl = "read" => pconn[c].reqch = <<>> /\ Waits(pconn[c].cur, c)
  /\ pconn[c].rl = "deliver" =>
       /\ call[pconn[c].cur].conn = c /\ call[pconn[c].cur].pc = "await"
       /\ call[pconn[c].cur].res = "none" /\ pconn[c].got # "none"
  /\ pconn[c].rl = "read" \/ (pconn[c].rl = "deliver" /\ ~pconn[c].hasBody)
       => pconn[c].lastbody = "none"
  /\ pconn[c].rl \in {"peek", "recv"} /\ pconn[c].lastbody # "none"
       => Spent(call[pconn[c].lastbody])
  /\ \A i \in DOMAIN pconn[c].inbox :
       /\ pconn[c].inbox[i].of # "none"
       /\ pconn[c].inbox[i].close => TRUE \in ReplyCloses

LoopInv == \A c \in Conns : LoopAt(c)

(* While fn may still run, readLoop waits for it, with g's body as         *)
(* lastbody; and it has run by the time readLoop is told.                  *)
Early == {"start", "dial", "begin", "write", "send"}

BodyAt(g) ==
  /\ call[g].fn /\ call[g].pc \in {"await", "body", "put", "signal"} =>
       pconn[call[g].conn].lastbody = g
  /\ call[g].fn /\ call[g].pc = "await" =>
       \/ /\ pconn[call[g].conn].rl = "deliver" /\ pconn[call[g].conn].cur = g
          /\ pconn[call[g].conn].hasBody /\ pconn[call[g].conn].alive
       \/ pconn[call[g].conn].rl = "waitbody" /\ call[g].res # "none" /\ call[g].body
  /\ call[g].fn /\ call[g].pc \in {"body", "put", "signal"} =>
       pconn[call[g].conn].rl = "waitbody"
  /\ call[g].pc \in {"put", "signal"} => call[g].fn
  /\ call[g].pc = "signal" => call[g].runs # 0
  /\ call[g].pc = "body" => call[g].body
  /\ call[g].pc \in Early => ~call[g].fn /\ call[g].res = "none"
  /\ call[g].pc \in Early \/ (call[g].pc = "await" /\ call[g].res = "none")
       => ~call[g].body

BodyInv == \A g \in Callers : BodyAt(g)

ShareInv == TokenInv /\ PoolInv /\ LoopInv /\ BodyInv

(* No caller comes to hold a connection. *)
HoldsKeep == \A g \in Callers, c \in Conns : Holds(g, c)' => Holds(g, c)

(* In a pool that shrinks, *)
LEMMA InPoolShrinks ==
  ASSUME Shrinks PROVE \A c \in Conns : InPool(c)' => InPool(c)
BY DEF Shrinks, InPool

(* A pool that only loses connections still holds each at most once. *)
LEMMA PoolShrinks == ASSUME PoolInv, Shrinks PROVE PoolInv'
BY DEF PoolInv, Shrinks

(* Use stays exclusive if nobody gains a connection. *)
LEMMA TokenKeeps ==
  ASSUME TokenInv, HoldsKeep, \A c \in Conns : InPool(c)' => InPool(c)
  PROVE  TokenInv'
<1> SUFFICES ASSUME NEW c \in Conns
             PROVE  /\ \A g, h \in Callers : Holds(g, c)' /\ Holds(h, c)' => g = h
                    /\ InPool(c)' => \A g \in Callers : ~Holds(g, c)'
  BY DEF TokenInv
<1>1. \A g \in Callers : Holds(g, c)' => Holds(g, c)
  BY DEF HoldsKeep
<1> QED
  BY <1>1 DEF TokenInv

(* and in one that a connection nobody holds any more is put into. *)
LEMMA InPoolGrows ==
  ASSUME NEW c \in Conns, NEW k \in Keys, Grows(c, k)
  PROVE  \A d \in Conns : InPool(d)' => InPool(d) \/ d = c
BY DEF Grows, InPool

(* A connection that was not in the pool may be added to it. *)
LEMMA PoolGrows ==
  ASSUME TypeOK, PoolInv, NEW c \in Conns, NEW l \in Keys, Grows(c, l), ~InPool(c)
  PROVE  PoolInv'
<1> SUFFICES ASSUME NEW k \in Keys, NEW m \in Keys,
                    NEW i \in DOMAIN idleConn'[k], NEW j \in DOMAIN idleConn'[m],
                    idleConn'[k][i] = idleConn'[m][j]
             PROVE  k = m /\ i = j
  BY DEF PoolInv
<1>1. \/ i \in DOMAIN idleConn[k] /\ idleConn'[k][i] = idleConn[k][i]
      \/ k = l /\ i = Len(idleConn[l]) + 1 /\ idleConn'[k][i] = c
  BY DEF Grows
<1>2. \/ j \in DOMAIN idleConn[m] /\ idleConn'[m][j] = idleConn[m][j]
      \/ m = l /\ j = Len(idleConn[l]) + 1 /\ idleConn'[m][j] = c
  BY DEF Grows
<1>3. i \in DOMAIN idleConn[k] => idleConn[k][i] # c
  BY DEF InPool
<1>4. j \in DOMAIN idleConn[m] => idleConn[m][j] # c
  BY DEF InPool
<1> QED
  BY <1>1, <1>2, <1>3, <1>4 DEF PoolInv

(* It may also be added as far as exclusive use is concerned, if nobody    *)
(* holds it.                                                               *)
LEMMA TokenGrows ==
  ASSUME TokenInv, HoldsKeep, NEW c \in Conns, NEW k \in Keys, Grows(c, k),
         \A g \in Callers : ~Holds(g, c)'
  PROVE  TokenInv'
<1> SUFFICES ASSUME NEW d \in Conns
             PROVE  /\ \A g, h \in Callers : Holds(g, d)' /\ Holds(h, d)' => g = h
                    /\ InPool(d)' => \A g \in Callers : ~Holds(g, d)'
  BY DEF TokenInv
<1>1. \A g \in Callers : Holds(g, d)' => Holds(g, d)
  BY DEF HoldsKeep
<1>2. InPool(d)' => InPool(d) \/ d = c
  BY InPoolGrows
<1>3. CASE d = c
  BY <1>3
<1>4. CASE d # c
  BY <1>1, <1>2, <1>4 DEF TokenInv
<1> QED
  BY <1>3, <1>4

(* putIdleConn of a connection that c's holder lets go. *)
LEMMA PutShare ==
  ASSUME TypeOK, TokenInv, PoolInv, HoldsKeep, NEW c \in Conns, NEW p \in ConnRecs,
         Refuses(c, p) \/ Accepts(c, p),
         \E g \in Callers : Holds(g, c), \A g \in Callers : ~Holds(g, c)'
  PROVE  TokenInv' /\ PoolInv'
<1>1. CASE Refuses(c, p)
  <2>1. Shrinks
    BY <1>1, SamePoolShrinks DEF Refuses
  <2> QED
    BY <2>1, InPoolShrinks, PoolShrinks, TokenKeeps
<1>2. CASE Accepts(c, p)
  <2> DEFINE k == CacheKey(p.cm)
  <2>1. Grows(c, k) /\ k \in Keys
    BY <1>2, AcceptsGrows DEF Grows
  <2> HIDE DEF k
  <2>2. ~InPool(c)
    BY DEF TokenInv
  <2> QED
    BY <2>1, <2>2, PoolGrows, TokenGrows
<1> QED
  BY <1>1, <1>2

(* A step of one caller that leaves every readLoop at its place. *)
DeliveringSame ==
  \A h \in Callers, d \in Conns :
    /\ Delivering(h, d)' <=> Delivering(h, d)
    /\ BodyComes(h, d)' <=> BodyComes(h, d)

(* A step of one caller under which it holds no more than before: nobody   *)
(* does.                                                                   *)
LEMMA HoldsByCaller ==
  ASSUME NEW g \in Callers, OthersCall(g), DeliveringSame,
         \A c \in Conns : Holds(g, c)' => Holds(g, c)
  PROVE  HoldsKeep
<1> SUFFICES ASSUME NEW h \in Callers, NEW c \in Conns, h # g
             PROVE  Holds(h, c)' => Holds(h, c)
  BY DEF HoldsKeep
<1>1. call'[h] = call[h]
  BY DEF OthersCall
<1>2. (Delivering(h, c)' <=> Delivering(h, c)) /\ (BodyComes(h, c)' <=> BodyComes(h, c))
  BY DEF DeliveringSame
<1> QED
  BY <1>1, <1>2 DEF Holds, Uses, Waits, Reads, Served

(* A step of one readLoop, before it delivers. *)
SameCalls ==
  \A h \in Callers :
    /\ call'[h].pc = call[h].pc /\ call'[h].conn = call[h].conn
    /\ call'[h].res = call[h].res /\ call'[h].fn = call[h].fn
    /\ call'[h].body = call[h].body
    /\ call[h].runs # 0 => call'[h].runs # 0
    /\ Spent(call[h]) => Spent(call'[h])

(* Nor does anybody under a step of a readLoop that is not about to        *)
(* deliver.                                                                *)
LEMMA HoldsByLoop ==
  ASSUME NEW c \in Conns, OthersConn(c), pconn[c].rl # "deliver", SameCalls
  PROVE  HoldsKeep
BY DEF OthersConn, SameCalls, HoldsKeep, Holds, Uses, Waits, Reads, Served, Delivering,
   BodyComes

(* Those who wait for c go on waiting, and closed bodies stay closed. *)
Stays(c) ==
  \A h \in Callers :
    /\ Spent(call[h]) => Spent(call'[h])
    /\ call[h].conn = c /\ call[h].pc = "await" /\ call[h].res = "none" =>
         call'[h].conn = c /\ call'[h].pc = "await" /\ call'[h].res = "none"

(* The callers that LoopAt speaks of. *)
LEMMA LoopCallers ==
  ASSUME BaseInv, NEW c \in Conns
  PROVE  /\ pconn[c].reqch # <<>> => pconn[c].reqch[1] \in Callers
         /\ pconn[c].rl \in {"read", "deliver"} => pconn[c].cur \in Callers
         /\ pconn[c].lastbody # "none" => pconn[c].lastbody \in Callers
<1>1. /\ pconn[c].reqch \in Seq(Callers) /\ pconn[c].cur \in Callers \cup {"none"}
      /\ pconn[c].lastbody \in Callers \cup {"none"}
  BY ConnTypes DEF BaseInv
<1>2. pconn[c].reqch # <<>> => pconn[c].reqch[1] \in Callers
  BY <1>1
<1> QED
  BY <1>1, <1>2 DEF BaseInv, KeyInv

(* What LoopAt says of readLoop itself. *)
SamePlace(q, p) ==
  /\ q.rl = p.rl /\ q.cur = p.cur /\ q.got = p.got /\ q.hasBody = p.hasBody
  /\ q.lastbody = p.lastbody

(* A connection that a step leaves alone. *)
LEMMA LoopFrame ==
  ASSUME BaseInv, NEW c \in Conns, LoopAt(c), Stays(c), SamePlace(pconn'[c], pconn[c]),
         pconn'[c].reqch = pconn[c].reqch, pconn'[c].inbox = pconn[c].inbox,
         pconn'[c].sock = "none" =>
           pconn[c].sock = "none" /\ pconn'[c].wire = pconn[c].wire
  PROVE  LoopAt(c)'
<1>1. /\ pconn[c].reqch # <<>> => pconn[c].reqch[1] \in Callers
      /\ pconn[c].rl \in {"read", "deliver"} => pconn[c].cur \in Callers
      /\ pconn[c].lastbody # "none" => pconn[c].lastbody \in Callers
  BY LoopCallers
<1>2. \A h \in Callers : Waits(h, c) => Waits(h, c)'
  BY DEF Waits, Stays, Spent, Delivering, BodyComes, SamePlace
<1>3. pconn'[c].sock = "none" =>
        /\ pconn'[c].rl = "none" /\ pconn'[c].reqch = <<>> /\ pconn'[c].lastbody = "none"
        /\ pconn'[c].wire = <<>> /\ pconn'[c].inbox = <<>>
  BY DEF LoopAt, SamePlace
<1>4. pconn'[c].reqch # <<>> => Len(pconn'[c].reqch) = 1 /\ Waits(pconn[c].reqch[1], c)'
  <2>1. pconn[c].reqch # <<>> => Len(pconn[c].reqch) = 1 /\ Waits(pconn[c].reqch[1], c)
    BY DEF LoopAt
  <2> QED
    BY <1>1, <1>2, <2>1 DEF Waits, Delivering, BodyComes
<1>5. pconn'[c].rl = "read" => pconn'[c].reqch = <<>> /\ Waits(pconn[c].cur, c)'
  <2>1. pconn[c].rl = "read" => pconn[c].reqch = <<>> /\ Waits(pconn[c].cur, c)
    BY DEF LoopAt
  <2>2. pconn'[c].cur = pconn[c].cur /\ pconn'[c].rl = pconn[c].rl
    BY DEF SamePlace
  <2> QED
    BY <1>1, <1>2, <2>1, <2>2 DEF Waits, Delivering, BodyComes
<1>6. pconn'[c].rl = "deliver" =>
        /\ call'[pconn'[c].cur].conn = c /\ call'[pconn'[c].cur].pc = "await"
        /\ call'[pconn'[c].cur].res = "none" /\ pconn'[c].got # "none"
  BY <1>1 DEF LoopAt, Stays, Spent, SamePlace
<1>7. /\ pconn'[c].rl = "read" \/ (pconn'[c].rl = "deliver" /\ ~pconn'[c].hasBody)
           => pconn'[c].lastbody = "none"
      /\ pconn'[c].rl \in {"peek", "recv"} /\ pconn'[c].lastbody # "none"
           => Spent(call'[pconn'[c].lastbody])
  BY <1>1 DEF LoopAt, Stays, Spent, SamePlace
<1>8. \A i \in DOMAIN pconn'[c].inbox :
        /\ pconn'[c].inbox[i].of # "none"
        /\ pconn'[c].inbox[i].close => TRUE \in ReplyCloses
  BY DEF LoopAt
<1> QED
  BY <1>3, <1>4, <1>5, <1>6, <1>7, <1>8 DEF LoopAt

(* All connections but one, *)
LEMMA LoopOthers ==
  ASSUME BaseInv, LoopInv, NEW c \in Conns, OthersConn(c), LoopAt(c)',
         \A d \in Conns : d # c => Stays(d)
  PROVE  LoopInv'
<1> SUFFICES ASSUME NEW d \in Conns, d # c PROVE LoopAt(d)'
  BY DEF LoopInv
<1>1. pconn'[d] = pconn[d]
  BY DEF OthersConn
<1> QED
  BY <1>1, LoopFrame DEF LoopInv, SamePlace

(* or all of them. *)
LEMMA LoopAll ==
  ASSUME BaseInv, LoopInv, pconn' = pconn, \A d \in Conns : Stays(d)
  PROVE  LoopInv'
BY LoopFrame DEF LoopInv, SamePlace

(* A caller whose body a step leaves alone. *)
LEMMA BodyFrame ==
  ASSUME BaseInv, NEW g \in Callers, BodyAt(g),
         call'[g].pc = call[g].pc, call'[g].conn = call[g].conn,
         call'[g].res = call[g].res, call'[g].fn = call[g].fn,
         call'[g].body = call[g].body, call[g].runs # 0 => call'[g].runs # 0,
         \A c \in Conns : call[g].conn = c =>
           \/ pconn[c].rl \notin {"deliver", "waitbody"}
           \/ pconn[c].lastbody # g
           \/ /\ pconn'[c].lastbody = pconn[c].lastbody /\ pconn'[c].rl = pconn[c].rl
              /\ pconn'[c].cur = pconn[c].cur /\ pconn'[c].hasBody = pconn[c].hasBody
              /\ pconn'[c].alive = pconn[c].alive \/ pconn[c].rl = "waitbody"
  PROVE  BodyAt(g)'
<1>1. call[g].pc \in {"await", "body", "put", "signal"} => call[g].conn \in Conns
  BY UsedConn DEF Using
<1>2. CASE call[g].pc \in {"await", "body", "put", "signal"} /\ call[g].fn
  <2> DEFINE c == call[g].conn
  <2>1. /\ c \in Conns /\ pconn[c].lastbody = g
        /\ pconn[c].rl \in {"deliver", "waitbody"}
    BY <1>1, <1>2 DEF BodyAt
  <2>2. /\ pconn'[c].lastbody = pconn[c].lastbody /\ pconn'[c].rl = pconn[c].rl
        /\ pconn'[c].cur = pconn[c].cur /\ pconn'[c].hasBody = pconn[c].hasBody
        /\ pconn'[c].alive = pconn[c].alive \/ pconn[c].rl = "waitbody"
    BY <2>1
  <2> QED
    BY <1>2, <2>1, <2>2 DEF BodyAt, Early
<1>3. CASE ~(call[g].pc \in {"await", "body", "put", "signal"} /\ call[g].fn)
  BY <1>3 DEF BodyAt
<1> QED
  BY <1>2, <1>3

(* A step of one caller that touches no readLoop but at most that of a     *)
(* connection whose readLoop is not with a body.                           *)
LEMMA BodyOthers ==
  ASSUME BaseInv, BodyInv, NEW g \in Callers, OthersCall(g), BodyAt(g)',
         \A c \in Conns :
           \/ SameLoop(pconn'[c], pconn[c])
           \/ pconn[c].rl \notin {"deliver", "waitbody"}
           \/ pconn[c].lastbody = g
  PROVE  BodyInv'
<1> SUFFICES ASSUME NEW h \in Callers, h # g PROVE BodyAt(h)'
  BY DEF BodyInv
<1>1. call'[h] = call[h]
  BY DEF OthersCall
<1> QED
  BY <1>1, BodyFrame DEF BodyInv, SameLoop

(* A step of a readLoop that is not with a body. *)
LEMMA BodyLoop ==
  ASSUME BaseInv, BodyInv, SameCalls, NEW c \in Conns, OthersConn(c),
         SameLoop(pconn'[c], pconn[c]) \/ pconn[c].rl \notin {"deliver", "waitbody"}
  PROVE  BodyInv'
<1> SUFFICES ASSUME NEW h \in Callers PROVE BodyAt(h)'
  BY DEF BodyInv
<1> QED
  BY BodyFrame DEF BodyInv, SameCalls, SameLoop, OthersConn

(* Callers that do not move stay where each connection's readLoop expects  *)
(* them.                                                                   *)
LEMMA SameCallsStay == ASSUME SameCalls PROVE \A d \in Conns : Stays(d)
BY DEF SameCalls, Stays, Spent

-----------------------------------------------------------------------------
(* g comes to hold c, which nobody held. *)
LEMMA TokenGives ==
  ASSUME TokenInv, NEW g \in Callers, NEW c \in Conns,
         \A h \in Callers, d \in Conns : Holds(h, d)' => Holds(h, d) \/ (h = g /\ d = c),
         \A h \in Callers : ~Holds(h, c), ~InPool(c)',
         \A d \in Conns : InPool(d)' => InPool(d)
  PROVE  TokenInv'
<1> SUFFICES ASSUME NEW d \in Conns
             PROVE  /\ \A h, i \in Callers : Holds(h, d)' /\ Holds(i, d)' => h = i
                    /\ InPool(d)' => \A h \in Callers : ~Holds(h, d)'
  BY DEF TokenInv
<1>1. CASE d = c
  BY <1>1
<1>2. CASE d # c
  <2>1. \A h \in Callers : Holds(h, d)' => Holds(h, d)
    BY <1>2
  <2> QED
    BY <2>1 DEF TokenInv
<1> QED
  BY <1>1, <1>2

(* A caller that is given a connection. *)
LEMMA GetsFacts ==
  ASSUME BaseInv, ShareInv, NEW g \in Callers, NEW c \in Conns, Gets(g, c),
         call[g].pc \in {"start", "dial"}
  PROVE  /\ \A h \in Callers, d \in Conns :
              h # g \/ d # c => (Holds(h, d)' => call'[h] = call[h] /\ h # g)
         /\ \A d \in Conns : Stays(d)
         /\ BodyAt(g)'
<1>1. ~call[g].fn /\ call[g].res = "none" /\ ~call[g].body
  BY DEF ShareInv, BodyInv, BodyAt, Early
<1>2. \A h \in Callers, d \in Conns :
        h # g \/ d # c => (Holds(h, d)' => call'[h] = call[h] /\ h # g)
  BY <1>1 DEF Gets, OthersCall, Holds, Uses, Waits, Reads, Served
<1>3. \A d \in Conns : Stays(d)
  BY DEF Gets, OthersCall, Stays, Spent
<1>4. BodyAt(g)'
  BY <1>1 DEF Gets, BodyAt, Early
<1> QED
  BY <1>2, <1>3, <1>4

(* Taking a connection out of the pool keeps it to one user. *)
LEMMA GetIdleConnShare ==
  ASSUME BaseInv, ShareInv, NEW g \in Callers, GetIdleConn(g)
  PROVE  ShareInv'
<1>1. TypeOK /\ TokenInv /\ PoolInv /\ LoopInv /\ BodyInv
  BY DEF BaseInv, ShareInv
<1>2. /\ call[g].pc = "start" /\ UNCHANGED <<pconn, junk>> /\ Shrinks
      /\ (Moves(g, "dial") /\ RemovesBroken("none")) \/ TakesFromPool(g)
  BY <1>1, GetIdleConnDoes
<1>3. PoolInv' /\ \A c \in Conns : InPool(c)' => InPool(c)
  BY <1>1, <1>2, PoolShrinks, InPoolShrinks
<1>4. DeliveringSame /\ \A c \in Conns : SameLoop(pconn'[c], pconn[c])
  BY <1>2 DEF DeliveringSame, Delivering, BodyComes, SameLoop
<1>5. CASE Moves(g, "dial")
  <2>1. HoldsKeep
    BY <1>4, <1>5, HoldsByCaller DEF Moves, Holds, Uses, Waits, Reads, Served
  <2>2. TokenInv'
    BY <1>1, <1>3, <2>1, TokenKeeps
  <2>3. \A d \in Conns : Stays(d)
    BY <1>2, <1>5 DEF Moves, OthersCall, Stays, Spent
  <2>4. LoopInv'
    BY <1>1, <1>2, <2>3, LoopAll
  <2>5. BodyAt(g)'
    BY <1>1, <1>2, <1>5 DEF Moves, BodyInv, BodyAt, Early
  <2>6. BodyInv'
    BY <1>1, <1>4, <1>5, <2>5, BodyOthers DEF Moves
  <2> QED
    BY <1>3, <2>2, <2>4, <2>6 DEF ShareInv
<1>6. CASE TakesFromPool(g)
  <2>1. PICK k \in Keys : \E i \in DOMAIN idleConn[k] :
          /\ Gets(g, idleConn[k][i]) /\ idleConn[k][i] \in Conns
          /\ i \notin DOMAIN idleConn'[k]
    BY <1>6 DEF TakesFromPool
  <2>2. PICK i \in DOMAIN idleConn[k] :
          /\ Gets(g, idleConn[k][i]) /\ idleConn[k][i] \in Conns
          /\ i \notin DOMAIN idleConn'[k]
    BY <2>1
  <2>0. PICK c \in Conns : c = idleConn[k][i]
    BY <2>2
  <2>3. Gets(g, c) /\ InPool(c)
    BY <2>0, <2>2 DEF InPool
  <2>4. ~InPool(c)'
    <3> SUFFICES ASSUME NEW l \in Keys, NEW j \in DOMAIN idleConn'[l], idleConn'[l][j] = c
                 PROVE  FALSE
      BY <1>2 DEF InPool
    <3>1. j \in DOMAIN idleConn[l] /\ idleConn'[l][j] = idleConn[l][j]
      BY <1>2 DEF Shrinks
    <3>2. l = k /\ j = i
      BY <1>1, <2>0, <3>1 DEF PoolInv
    <3> QED
      BY <2>2, <3>2
  <2>5. /\ \A h \in Callers, d \in Conns :
             h # g \/ d # c => (Holds(h, d)' => call'[h] = call[h] /\ h # g)
        /\ \A d \in Conns : Stays(d)
        /\ BodyAt(g)'
    BY <1>2, <2>3, GetsFacts
  <2>6. \A h \in Callers, d \in Conns : Holds(h, d)' => Holds(h, d) \/ (h = g /\ d = c)
    BY <1>4, <2>5 DEF Holds, Uses, Waits, Reads, Served, DeliveringSame
  <2>7. \A h \in Callers : ~Holds(h, c)
    BY <1>1, <2>3 DEF TokenInv
  <2>8. TokenInv'
    BY <1>1, <1>3, <2>3, <2>4, <2>6, <2>7, TokenGives
  <2>9. LoopInv'
    BY <1>1, <1>2, <2>5, LoopAll
  <2>10. BodyInv'
    BY <1>1, <1>4, <2>3, <2>5, BodyOthers DEF Gets
  <2> QED
    BY <1>3, <2>8, <2>9, <2>10 DEF ShareInv
<1> QED
  BY <1>2, <1>5, <1>6

(* A round trip that fails leaves its connection to nobody. *)
LEMMA FailsFacts ==
  ASSUME BaseInv, ShareInv, NEW g \in Callers, Fails(g), call[g].pc \in {"dial", "write"}
  PROVE  /\ \A c \in Conns : ~Holds(g, c)'
         /\ \A d \in Conns : Stays(d)
         /\ BodyAt(g)'
<1>1. ~call[g].fn
  BY DEF ShareInv, BodyInv, BodyAt, Early
<1>2. \A c \in Conns : ~Holds(g, c)'
  BY DEF Fails, Holds, Uses, Waits, Reads, Served
<1>3. \A d \in Conns : Stays(d)
  BY DEF Fails, OthersCall, Stays, Spent
<1>4. BodyAt(g)'
  BY <1>1 DEF Fails, BodyAt, Early
<1> QED
  BY <1>2, <1>3, <1>4

(* A connection that has not been dialled. *)
LEMMA Unused ==
  ASSUME BaseInv, NEW c \in Conns, pconn[c].sock = "none"
  PROVE  /\ ~InPool(c) /\ \A h \in Callers : call[h].conn # c /\ ~Holds(h, c)
         /\ pconn[c].rl = "none"
<1>1. \A h \in Callers : call[h].conn # c
  BY TransportAssumption DEF BaseInv, KeyInv
<1>2. ~InPool(c)
  BY DEF BaseInv, KeyInv, InPool
<1>3. pconn[c].rl = "none"
  BY DEF BaseInv, KeyInv
<1> QED
  BY <1>1, <1>2, <1>3 DEF Holds, Uses, Waits, Reads, Served

(* A dialled connection is its caller's alone. *)
LEMMA GetConnShare ==
  ASSUME BaseInv, ShareInv, NEW g \in Callers, GetConn(g)
  PROVE  ShareInv'
<1>1. TypeOK /\ TokenInv /\ PoolInv /\ LoopInv /\ BodyInv
  BY DEF BaseInv, ShareInv
<1>2. /\ call[g].pc = "dial" /\ UNCHANGED <<idleConn, junk>>
      /\ (Fails(g) /\ UNCHANGED pconn) \/ \E c \in Conns : Dials(g, c)
  BY <1>1, GetConnDoes
<1>3. PoolInv' /\ (\A c \in Conns : InPool(c)' => InPool(c)) /\ Shrinks
  BY <1>1, <1>2, SamePoolShrinks, PoolShrinks, InPoolShrinks
<1>4. Fails(g) => /\ \A c \in Conns : ~Holds(g, c)'
                  /\ \A d \in Conns : Stays(d)
                  /\ BodyAt(g)' /\ OthersCall(g)
  BY <1>2, FailsFacts DEF Fails
<1>5. CASE Fails(g) /\ UNCHANGED pconn
  <2>1. DeliveringSame /\ \A c \in Conns : SameLoop(pconn'[c], pconn[c])
    BY <1>5 DEF DeliveringSame, Delivering, BodyComes, SameLoop
  <2>2. HoldsKeep
    BY <1>4, <1>5, <2>1, HoldsByCaller
  <2>3. TokenInv'
    BY <1>1, <1>3, <2>2, TokenKeeps
  <2>4. LoopInv'
    BY <1>1, <1>4, <1>5, LoopAll
  <2>5. BodyInv'
    BY <1>1, <1>4, <1>5, <2>1, BodyOthers
  <2> QED
    BY <1>3, <2>3, <2>4, <2>5 DEF ShareInv
<1>6. ASSUME NEW c \in Conns, Dials(g, c) PROVE ShareInv'
  <2>1. /\ ~InPool(c) /\ \A h \in Callers : call[h].conn # c /\ ~Holds(h, c)
        /\ pconn[c].rl = "none"
    BY <1>6, Unused DEF Dials
  <2>2. OthersConn(c) /\ pconn'[c].rl \in {"none", "peek"}
    BY <1>6, <2>1 DEF Dials
  <2>3. DeliveringSame
    BY <2>1, <2>2 DEF DeliveringSame, Delivering, BodyComes, OthersConn
  <2>4. \A d \in Conns : SameLoop(pconn'[d], pconn[d]) \/ pconn[d].rl = "none"
    BY <2>1, <2>2 DEF OthersConn, SameLoop
  <2>5. (\A d \in Conns : Stays(d)) => LoopAt(c)' /\ LoopInv'
    <3>1. /\ pconn[c].reqch = <<>> /\ pconn[c].lastbody = "none"
          /\ pconn[c].wire = <<>> /\ pconn[c].inbox = <<>>
      BY <1>1, <1>6 DEF LoopInv, LoopAt, Dials
    <3>2. /\ pconn'[c].reqch = <<>> /\ pconn'[c].lastbody = "none"
          /\ pconn'[c].wire = <<>> /\ pconn'[c].inbox = <<>>
          /\ pconn'[c].sock # "none"
      BY <1>6, <3>1 DEF Dials, SameQueues
    <3>3. LoopAt(c)'
      BY <2>2, <3>2 DEF LoopAt
    <3> QED
      BY <1>1, <2>2, <3>3, LoopOthers
  <2>6. CASE Fails(g)
    <3>1. HoldsKeep
      BY <1>4, <2>3, <2>6, HoldsByCaller
    <3>2. TokenInv'
      BY <1>1, <1>3, <3>1, TokenKeeps
    <3>3. BodyInv'
      BY <1>1, <1>4, <2>4, <2>6, BodyOthers
    <3> QED
      BY <1>3, <1>4, <2>5, <2>6, <3>2, <3>3 DEF ShareInv
  <2>7. CASE Gets(g, c)
    <3>1. /\ \A h \in Callers, d \in Conns :
               h # g \/ d # c => (Holds(h, d)' => call'[h] = call[h] /\ h # g)
          /\ \A d \in Conns : Stays(d)
          /\ BodyAt(g)' /\ OthersCall(g)
      BY <1>2, <2>7, GetsFacts DEF Gets
    <3>2. \A h \in Callers, d \in Conns : Holds(h, d)' => Holds(h, d) \/ (h = g /\ d = c)
      BY <2>3, <3>1 DEF Holds, Uses, Waits, Reads, Served, DeliveringSame
    <3>3. TokenInv'
      BY <1>1, <1>3, <2>1, <3>2, TokenGives
    <3>4. BodyInv'
      BY <1>1, <2>4, <3>1, BodyOthers
    <3> QED
      BY <1>3, <2>5, <3>1, <3>3, <3>4 DEF ShareInv
  <2> QED
    BY <1>6, <2>6, <2>7 DEF Dials
<1> QED
  BY <1>2, <1>5, <1>6

(* A step of one caller that leaves the pool, the announced requests and   *)
(* every readLoop alone.                                                   *)
LEMMA QuietShare ==
  ASSUME BaseInv, ShareInv, NEW g \in Callers, OthersCall(g), idleConn' = idleConn,
         \A d \in Conns :
           /\ SameLoop(pconn'[d], pconn[d]) /\ pconn'[d].reqch = pconn[d].reqch
           /\ pconn'[d].inbox = pconn[d].inbox
           /\ pconn'[d].sock = "none" =>
                pconn[d].sock = "none" /\ pconn'[d].wire = pconn[d].wire,
         \A c \in Conns : Holds(g, c)' => Holds(g, c),
         \A d \in Conns : Stays(d), BodyAt(g)'
  PROVE  ShareInv'
<1>1. TypeOK /\ TokenInv /\ PoolInv /\ LoopInv /\ BodyInv
  BY DEF BaseInv, ShareInv
<1>2. Shrinks
  BY <1>1, SamePoolShrinks
<1>3. PoolInv' /\ \A c \in Conns : InPool(c)' => InPool(c)
  BY <1>1, <1>2, PoolShrinks, InPoolShrinks
<1>4. DeliveringSame
  BY DEF DeliveringSame, Delivering, BodyComes, SameLoop
<1>5. TokenInv'
  BY <1>1, <1>3, <1>4, HoldsByCaller, TokenKeeps
<1>6. LoopInv'
  BY <1>1, LoopFrame DEF LoopInv, SameLoop, SamePlace
<1>7. BodyInv'
  BY <1>1, BodyOthers
<1> QED
  BY <1>3, <1>5, <1>6, <1>7 DEF ShareInv

(* Counting on an answer changes nobody's hold on a connection. *)
LEMMA ExpectShare ==
  ASSUME BaseInv, ShareInv, NEW g \in Callers, Expect(g) PROVE ShareInv'
<1> DEFINE c == call[g].conn
           n == pconn[c].expected + 1
<1>1. /\ call[g].pc = "begin" /\ UNCHANGED <<idleConn, junk>>
      /\ pconn' = [pconn EXCEPT ![c].expected = n] /\ Step(g, "write", call[g])
  BY DEF Expect
<1>2. c \in Conns /\ TypeOK /\ pconn[c].expected \in Nat
  BY <1>1, UsedConn, ConnTypes DEF BaseInv, Using
<1>3. n \in Nat
  BY <1>2
<1> HIDE DEF n, c
<1>4. /\ OthersConn(c) /\ SameSock(pconn'[c], pconn[c]) /\ SameLoop(pconn'[c], pconn[c])
      /\ SameQueues(pconn'[c], pconn[c])
  BY <1>1, <1>2, <1>3, Counting
<1>5. Moves(g, "write")
  BY <1>1, <1>2, StepMoves DEF CallerPlaces
<1>6. \A d \in Conns :
        /\ SameLoop(pconn'[d], pconn[d]) /\ pconn'[d].reqch = pconn[d].reqch
        /\ pconn'[d].inbox = pconn[d].inbox
        /\ pconn'[d].sock = "none" =>
             pconn[d].sock = "none" /\ pconn'[d].wire = pconn[d].wire
  BY <1>4 DEF OthersConn, SameSock, SameLoop, SameQueues
<1>7. \A d \in Conns : (Holds(g, d)' => Holds(g, d)) /\ Stays(d)
  BY <1>1, <1>5
  DEF Moves, OthersCall, SameConnOf, Stays, Spent, Holds, Uses, Waits, Reads, Served
<1>8. BodyAt(g)'
  BY <1>1, <1>5 DEF Moves, SameConnOf, ShareInv, BodyInv, BodyAt, Early
<1> QED
  BY <1>1, <1>5, <1>6, <1>7, <1>8, QuietShare DEF Moves

(* Writing a request, or failing to, neither. *)
LEMMA WriteShare ==
  ASSUME BaseInv, ShareInv, NEW g \in Callers, Write(g) PROVE ShareInv'
<1> DEFINE c == call[g].conn
<1>1. c \in Conns /\ pconn[c].sock # "none" /\ TypeOK
  BY UsedConn DEF Write, Using, BaseInv
<1>2. /\ call[g].pc = "write" /\ UNCHANGED <<idleConn, junk>> /\ OthersConn(c)
      /\ SameLoop(pconn'[c], pconn[c])
      /\ pconn'[c].reqch = pconn[c].reqch /\ pconn'[c].inbox = pconn[c].inbox
      /\ \/ Moves(g, "send") /\ SameSock(pconn'[c], pconn[c])
         \/ Fails(g) /\ Closed(pconn'[c], pconn[c])
  BY <1>1, WriteDoes
<1> HIDE DEF c
<1>3. \A d \in Conns :
        /\ SameLoop(pconn'[d], pconn[d]) /\ pconn'[d].reqch = pconn[d].reqch
        /\ pconn'[d].inbox = pconn[d].inbox
        /\ pconn'[d].sock = "none" =>
             pconn[d].sock = "none" /\ pconn'[d].wire = pconn[d].wire
  BY <1>1, <1>2 DEF OthersConn, SameSock, Closed, SameLoop
<1>4. CASE Moves(g, "send")
  <2>1. \A d \in Conns : (Holds(g, d)' => Holds(g, d)) /\ Stays(d)
    BY <1>2, <1>4
    DEF Moves, OthersCall, SameConnOf, Stays, Spent, Holds, Uses, Waits, Reads, Served
  <2>2. BodyAt(g)'
    BY <1>2, <1>4 DEF Moves, SameConnOf, ShareInv, BodyInv, BodyAt, Early
  <2> QED
    BY <1>2, <1>3, <1>4, <2>1, <2>2, QuietShare DEF Moves
<1>5. CASE Fails(g)
  <2>1. (\A d \in Conns : ~Holds(g, d)' /\ Stays(d)) /\ BodyAt(g)'
    BY <1>2, <1>5, FailsFacts
  <2> QED
    BY <1>2, <1>3, <1>5, <2>1, QuietShare DEF Fails
<1> QED
  BY <1>2, <1>4, <1>5

(* A request is announced over a connection that has none. *)
LEMMA SendShare ==
  ASSUME BaseInv, ShareInv, NEW g \in Callers, Send(g) PROVE ShareInv'
<1>0. PICK c \in Conns : c = call[g].conn
  BY UsedConn DEF Send, Using
<1>1. /\ pconn[c].sock # "none" /\ TypeOK
      /\ TokenInv /\ PoolInv /\ LoopInv /\ BodyInv
  BY <1>0, UsedConn DEF Send, Using, BaseInv, ShareInv
<1>2. /\ call[g].pc = "send" /\ UNCHANGED <<idleConn, junk>> /\ Moves(g, "await")
      /\ OthersConn(c)
      /\ SameSock(pconn'[c], pconn[c]) /\ SameLoop(pconn'[c], pconn[c])
      /\ pconn'[c].wire = pconn[c].wire /\ pconn'[c].inbox = pconn[c].inbox
      /\ pconn'[c].reqch = Append(pconn[c].reqch, g)
  BY <1>0, <1>1, SendDoes
<1>3. Shrinks
  BY <1>1, <1>2, SamePoolShrinks
<1>4. PoolInv' /\ \A d \in Conns : InPool(d)' => InPool(d)
  BY <1>1, <1>3, PoolShrinks, InPoolShrinks
<1>5. /\ DeliveringSame
      /\ \A d \in Conns : SameLoop(pconn'[d], pconn[d])
  BY <1>2 DEF DeliveringSame, Delivering, BodyComes, OthersConn, SameLoop
<1>6. Holds(g, c)
  BY <1>0, <1>2 DEF Holds, Uses
<1>7. ~call[g].fn /\ call[g].res = "none" /\ ~call[g].body
  BY <1>1, <1>2 DEF BodyInv, BodyAt, Early
<1>8. HoldsKeep
  <2>1. \A d \in Conns : Holds(g, d)' => Holds(g, d)
    BY <1>2 DEF Moves, SameConnOf, Holds, Uses, Waits, Reads, Served
  <2> QED
    BY <1>2, <1>5, <2>1, HoldsByCaller DEF Moves
<1>9. TokenInv'
  BY <1>1, <1>4, <1>8, TokenKeeps
<1>10. \A d \in Conns : Stays(d)
  BY <1>2 DEF Moves, OthersCall, Stays, Spent
<1>11. /\ pconn[c].reqch # <<>> => pconn[c].reqch[1] \in Callers
       /\ pconn[c].rl \in {"read", "deliver"} => pconn[c].cur \in Callers
       /\ pconn[c].lastbody # "none" => pconn[c].lastbody \in Callers
  BY LoopCallers
<1>12. LoopAt(c)
  BY <1>1 DEF LoopInv
<1>13. \A h \in Callers : ~Waits(h, c)
  <2> SUFFICES ASSUME NEW h \in Callers, Waits(h, c) PROVE FALSE
    OBVIOUS
  <2>1. h = g
    BY <1>1, <1>6 DEF TokenInv, Holds, Uses
  <2> QED
    BY <1>2, <2>1 DEF Waits
<1>14. pconn[c].reqch = <<>> /\ pconn[c].rl # "read"
  BY <1>11, <1>12, <1>13 DEF LoopAt
<1>15. pconn'[c].reqch = <<g>>
  BY <1>2, <1>14
<1>16. ~Delivering(g, c)
  BY <1>2, <1>12, SMTT(30) DEF LoopAt, Delivering, BodyComes
<1>17. Waits(g, c)'
  BY <1>0, <1>2, <1>5, <1>7, <1>16 DEF Waits, Moves, SameConnOf, DeliveringSame
<1>18. LoopAt(c)'
  <2>1. pconn'[c].reqch[1] = g /\ Len(pconn'[c].reqch) = 1
    BY <1>15
  <2>2. pconn'[c].sock # "none"
    BY <1>1, <1>2 DEF SameSock
  <2>3. pconn'[c].rl # "read"
    BY <1>2, <1>14 DEF SameLoop
  <2>4. Waits(pconn[c].reqch[1], c)'
    BY <1>17, <2>1
  <2>5. pconn'[c].rl = "deliver" =>
          /\ call'[pconn'[c].cur].conn = c /\ call'[pconn'[c].cur].pc = "await"
          /\ call'[pconn'[c].cur].res = "none" /\ pconn'[c].got # "none"
    BY <1>2, <1>10, <1>11, <1>12 DEF LoopAt, Stays, Spent, SameLoop
  <2>6. /\ (pconn'[c].rl = "deliver" /\ ~pconn'[c].hasBody) => pconn'[c].lastbody = "none"
        /\ pconn'[c].rl \in {"peek", "recv"} /\ pconn'[c].lastbody # "none"
             => Spent(call'[pconn'[c].lastbody])
    BY <1>2, <1>10, <1>11, <1>12 DEF LoopAt, Stays, Spent, SameLoop
  <2>7. \A i \in DOMAIN pconn'[c].inbox :
          /\ pconn'[c].inbox[i].of # "none"
          /\ pconn'[c].inbox[i].close => TRUE \in ReplyCloses
    BY <1>2, <1>12 DEF LoopAt
  <2> QED
    BY <2>1, <2>2, <2>3, <2>4, <2>5, <2>6, <2>7 DEF LoopAt
<1>19. LoopInv'
  BY <1>1, <1>2, <1>10, <1>18, LoopOthers
<1>20. BodyAt(g)'
  BY <1>2, <1>7 DEF Moves, BodyAt, Early
<1>21. BodyInv'
  BY <1>1, <1>2, <1>5, <1>20, BodyOthers DEF Moves
<1> QED
  BY <1>4, <1>9, <1>19, <1>21 DEF ShareInv

(* A caller that receives its answer takes over the connection only as the *)
(* reader of a body.                                                       *)
LEMMA ReceiveShare ==
  ASSUME BaseInv, ShareInv, NEW g \in Callers, Receive(g) PROVE ShareInv'
<1>0. PICK c \in Conns : c = call[g].conn
  BY UsedConn DEF Receive, Using
<1> DEFINE n == pconn[c].expected - 1
           place == IF call[g].body THEN "body" ELSE "done"
<1>1. /\ call[g].pc = "await" /\ call[g].res # "none" /\ UNCHANGED <<idleConn, junk>>
      /\ pconn' = [pconn EXCEPT ![c].expected = n] /\ Step(g, place, call[g])
  BY <1>0 DEF Receive
<1>2. TypeOK /\ pconn[c].expected \in Nat
  BY ConnTypes DEF BaseInv
<1>3. n \in Nat
  <2>1. /\ IsFiniteSet(Counted(c)) /\ Cardinality(Counted(c)) \in Nat
        /\ Cardinality(Counted(c)) <= pconn[c].expected
    BY CountedFinite DEF BaseInv, CountInv
  <2>2. g \in Counted(c)
    BY <1>0, <1>1 DEF Counted, Expecting
  <2>3. Cardinality(Counted(c)) # 0
    BY <2>1, <2>2, FS_EmptySet
  <2> QED
    BY <1>2, <2>1, <2>3
<1>4. place \in {"body", "done"} /\ place \in CallerPlaces /\ (call[g].body <=> place = "body")
  BY DEF CallerPlaces
<1> HIDE DEF n, place
<1>5. /\ OthersConn(c) /\ SameSock(pconn'[c], pconn[c]) /\ SameLoop(pconn'[c], pconn[c])
      /\ SameQueues(pconn'[c], pconn[c])
  BY <1>1, <1>2, <1>3, Counting
<1>6. Moves(g, place)
  BY <1>1, <1>2, <1>4, StepMoves
<1>7. \A d \in Conns :
        /\ SameLoop(pconn'[d], pconn[d]) /\ pconn'[d].reqch = pconn[d].reqch
        /\ pconn'[d].inbox = pconn[d].inbox
        /\ pconn'[d].sock = "none" =>
             pconn[d].sock = "none" /\ pconn'[d].wire = pconn[d].wire
  BY <1>5 DEF OthersConn, SameSock, SameLoop, SameQueues
<1>8. \A d \in Conns : (Holds(g, d)' => Holds(g, d)) /\ Stays(d)
  BY <1>1, <1>4, <1>6
  DEF Moves, OthersCall, SameConnOf, Stays, Spent, Holds, Uses, Waits, Reads, Served
<1>9. BodyAt(g)'
  <2>1. call[g].fn => call[g].body /\ pconn[c].lastbody = g /\ pconn[c].rl = "waitbody"
    <3>1. BodyAt(g) /\ LoopAt(c)
      BY DEF ShareInv, BodyInv, LoopInv
    <3> QED
      BY <1>0, <1>1, <3>1 DEF BodyAt, LoopAt
  <2>2. call'[g].fn => pconn'[c].lastbody = g /\ pconn'[c].rl = "waitbody"
    BY <1>6, <1>7, <2>1 DEF SameLoop, Moves
  <2>3. /\ call'[g].conn = c /\ call'[g].pc \in {"body", "done"}
        /\ call'[g].pc = "body" => call'[g].body
    BY <1>0, <1>4, <1>6 DEF Moves, SameConnOf
  <2> QED
    BY <2>2, <2>3, SMTT(30) DEF BodyAt, Early
<1> QED
  BY <1>1, <1>6, <1>7, <1>8, <1>9, QuietShare DEF Moves

(* A body that ends leaves its connection to fn, if there is one. *)
LEMMA EndBodyShare ==
  ASSUME BaseInv, ShareInv, NEW g \in Callers, EndBody(g) PROVE ShareInv'
<1>1. Ends(g) /\ UNCHANGED <<idleConn, pconn, junk>>
  BY EndBodyEnds DEF BaseInv
<1>2. \A d \in Conns :
        /\ SameLoop(pconn'[d], pconn[d]) /\ pconn'[d].reqch = pconn[d].reqch
        /\ pconn'[d].inbox = pconn[d].inbox
        /\ pconn'[d].sock = "none" =>
             pconn[d].sock = "none" /\ pconn'[d].wire = pconn[d].wire
  BY <1>1 DEF SameLoop
<1>3. \A d \in Conns : Holds(g, d)' => Holds(g, d)
  BY <1>1 DEF Ends, SameConnOf, Holds, Uses, Waits, Reads, Served
<1>4. \A d \in Conns : Stays(d)
  BY <1>1 DEF Ends, OthersCall, Stays, Spent
<1>5. BodyAt(g)'
  <2>1. call'[g].conn = call[g].conn /\ pconn' = pconn
        /\ call'[g].fn = call[g].fn /\ call[g].pc = "body"
        /\ (call'[g].pc = "done" \/ (call'[g].pc = "put" /\ call[g].fn))
    BY <1>1 DEF Ends, SameConnOf
  <2>2. BodyAt(g)
    BY DEF ShareInv, BodyInv
  <2> QED
    BY <2>1, <2>2 DEF BodyAt, Early
<1> QED
  BY <1>1, <1>2, <1>3, <1>4, <1>5, QuietShare DEF Ends

(* fn gives the connection away once. *)
LEMMA BodyPutShare ==
  ASSUME BaseInv, ShareInv, NEW g \in Callers, BodyPut(g) PROVE ShareInv'
<1>0. PICK c \in Conns : c = call[g].conn
  BY UsedConn DEF BodyPut, Using
<1>1. /\ pconn[c].sock # "none" /\ TypeOK /\ pconn[c] \in ConnRecs
      /\ TokenInv /\ PoolInv /\ LoopInv /\ BodyInv
  BY <1>0, UsedConn DEF BodyPut, Using, BaseInv, ShareInv
<1>2. /\ call[g].pc = "put" /\ Puts(g) /\ OthersConn(c)
      /\ SameQueues(pconn'[c], pconn[c]) /\ SamePlace(pconn'[c], pconn[c])
      /\ Refuses(c, pconn[c]) \/ Accepts(c, pconn[c])
  BY <1>0, <1>1, BodyPutDoes DEF SamePlace
<1>3. /\ call[g].fn /\ pconn[c].lastbody = g /\ pconn[c].rl = "waitbody"
  BY <1>0, <1>1, <1>2 DEF BodyInv, BodyAt
<1>4. Holds(g, c) /\ \A d \in Conns : ~Holds(g, d)'
  BY <1>0, <1>2, <1>3 DEF Puts, Holds, Reads, Served, Uses, Waits
<1>5. DeliveringSame
  BY <1>2 DEF DeliveringSame, Delivering, BodyComes, OthersConn, SamePlace
<1>6. HoldsKeep
  BY <1>2, <1>4, <1>5, HoldsByCaller DEF Puts
<1>7. \A h \in Callers : ~Holds(h, c)'
  BY <1>1, <1>4, <1>6 DEF HoldsKeep, TokenInv
<1>8. TokenInv' /\ PoolInv'
  BY <1>1, <1>2, <1>4, <1>6, <1>7, PutShare
<1>9. \A d \in Conns : Stays(d)
  <2>1. call'[g].runs # 0 /\ call[g].pc # "await"
    <3>1. call[g].runs \in Nat /\ call'[g].runs = call[g].runs + 1
      BY <1>1, <1>2, Types DEF Puts, CallRecs
    <3> QED
      BY <1>2, <3>1
  <2>2. \A h \in Callers : h # g => call'[h] = call[h]
    BY <1>2 DEF Puts, OthersCall
  <2> QED
    BY <2>1, <2>2 DEF Stays, Spent
<1>10. pconn'[c].sock # "none"
  BY <1>1, <1>2 DEF Refuses, Accepts
<1>11. LoopAt(c)'
  BY <1>1, <1>2, <1>9, <1>10, LoopFrame DEF LoopInv, SameQueues
<1>12. LoopInv'
  BY <1>1, <1>2, <1>9, <1>11, LoopOthers
<1>13. BodyAt(g)'
  <2>1. call[g].runs \in Nat
    BY <1>1, CallTypes
  <2>2. call'[g].runs # 0
    BY <1>2, <2>1 DEF Puts
  <2> QED
    BY <1>0, <1>2, <1>3, <2>2 DEF Puts, SameConnOf, SamePlace, BodyAt, Early
<1>14. \A d \in Conns : SameLoop(pconn'[d], pconn[d]) \/ pconn[d].lastbody = g
  BY <1>2, <1>3 DEF OthersConn, SameLoop
<1>15. BodyInv'
  BY <1>1, <1>2, <1>13, <1>14, BodyOthers DEF Puts
<1> QED
  BY <1>8, <1>12, <1>15 DEF ShareInv

(* The signal to the readLoop comes after the connection was put back. *)
LEMMA BodySignalShare ==
  ASSUME BaseInv, ShareInv, NEW g \in Callers, BodySignal(g) PROVE ShareInv'
<1>0. PICK c \in Conns : c = call[g].conn
  BY UsedConn DEF BodySignal, Using
<1>1. /\ pconn[c].sock # "none" /\ TypeOK
      /\ TokenInv /\ PoolInv /\ LoopInv /\ BodyInv
  BY <1>0, UsedConn DEF BodySignal, Using, BaseInv, ShareInv
<1>2. /\ call[g].pc = "signal" /\ pconn[c].rl = "waitbody" /\ UNCHANGED <<idleConn, junk>>
      /\ Moves(g, "clear") /\ OthersConn(c)
      /\ SameSock(pconn'[c], pconn[c]) /\ SameQueues(pconn'[c], pconn[c])
      /\ pconn'[c].lastbody = pconn[c].lastbody /\ pconn'[c].rl \in {"peek", "exit"}
  BY <1>0, <1>1, BodySignalDoes
<1>3. call[g].fn /\ call[g].runs # 0 /\ pconn[c].lastbody = g
  BY <1>0, <1>1, <1>2 DEF BodyInv, BodyAt
<1>4. Shrinks
  BY <1>1, <1>2, SamePoolShrinks
<1>5. PoolInv' /\ \A d \in Conns : InPool(d)' => InPool(d)
  BY <1>1, <1>4, PoolShrinks, InPoolShrinks
<1>6. DeliveringSame
  BY <1>2 DEF DeliveringSame, Delivering, BodyComes, OthersConn
<1>7. HoldsKeep
  <2>1. \A d \in Conns : ~Holds(g, d)'
    BY <1>2 DEF Moves, Holds, Uses, Waits, Reads, Served
  <2> QED
    BY <1>2, <1>6, <2>1, HoldsByCaller DEF Moves
<1>8. TokenInv'
  BY <1>1, <1>5, <1>7, TokenKeeps
<1>9. \A d \in Conns : Stays(d)
  BY <1>2 DEF Moves, OthersCall, Stays, Spent
<1>10. LoopAt(c)'
  <2>1. LoopAt(c)
    BY <1>1 DEF LoopInv
  <2>2. pconn'[c].sock # "none" /\ pconn'[c].reqch = pconn[c].reqch
        /\ pconn'[c].inbox = pconn[c].inbox
    BY <1>1, <1>2 DEF SameSock, SameQueues
  <2>3. pconn'[c].reqch # <<>> => Len(pconn'[c].reqch) = 1 /\ Waits(pconn[c].reqch[1], c)'
    <3>1. pconn[c].reqch # <<>> => pconn[c].reqch[1] \in Callers
      BY LoopCallers
    <3>2. \A h \in Callers : Waits(h, c) => Waits(h, c)'
      BY <1>6, <1>9 DEF Waits, Stays, Spent, DeliveringSame
    <3>3. pconn[c].reqch # <<>> => Len(pconn[c].reqch) = 1 /\ Waits(pconn[c].reqch[1], c)
      BY <2>1 DEF LoopAt
    <3> QED
      BY <2>2, <3>1, <3>2, <3>3 DEF Waits, Delivering, BodyComes
  <2>4. Spent(call'[pconn'[c].lastbody])
    BY <1>2, <1>3 DEF Moves, Spent
  <2>5. \A i \in DOMAIN pconn'[c].inbox :
          /\ pconn'[c].inbox[i].of # "none"
          /\ pconn'[c].inbox[i].close => TRUE \in ReplyCloses
    BY <2>1, <2>2 DEF LoopAt
  <2> QED
    BY <1>2, <2>2, <2>3, <2>4, <2>5 DEF LoopAt
<1>11. LoopInv'
  BY <1>1, <1>2, <1>9, <1>10, LoopOthers
<1>12. BodyAt(g)'
  BY <1>2 DEF Moves, BodyAt, Early
<1>13. \A d \in Conns : SameLoop(pconn'[d], pconn[d]) \/ pconn[d].lastbody = g
  BY <1>2, <1>3 DEF OthersConn, SameLoop
<1>14. BodyInv'
  BY <1>1, <1>2, <1>12, <1>13, BodyOthers DEF Moves
<1> QED
  BY <1>5, <1>8, <1>11, <1>14 DEF ShareInv

(* When fn is cleared the caller has let go of the connection. *)
LEMMA BodyClearShare ==
  ASSUME BaseInv, ShareInv, NEW g \in Callers, BodyClear(g) PROVE ShareInv'
<1>1. /\ call[g].pc = "clear" /\ UNCHANGED <<idleConn, pconn, junk>>
      /\ Step(g, "done", [call[g] EXCEPT !.fn = FALSE])
  BY DEF BodyClear
<1>2. Clears(g)
  BY <1>1, StepClears DEF BaseInv
<1>3. \A d \in Conns :
        /\ SameLoop(pconn'[d], pconn[d]) /\ pconn'[d].reqch = pconn[d].reqch
        /\ pconn'[d].inbox = pconn[d].inbox
        /\ pconn'[d].sock = "none" =>
             pconn[d].sock = "none" /\ pconn'[d].wire = pconn[d].wire
  BY <1>1 DEF SameLoop
<1>4. \A d \in Conns : (Holds(g, d)' => Holds(g, d)) /\ Stays(d)
  BY <1>1, <1>2 DEF Clears, OthersCall, Stays, Spent, Holds, Uses, Waits, Reads, Served
<1>5. BodyAt(g)'
  BY <1>2 DEF Clears, BodyAt, Early
<1> QED
  BY <1>1, <1>2, <1>3, <1>4, <1>5, QuietShare DEF Clears

-----------------------------------------------------------------------------
(* readLoop, before it delivers. *)
LEMMA SharedLoop ==
  ASSUME BaseInv, ShareInv, NEW c \in Conns, OthersConn(c), SameCalls,
         pconn[c].rl \notin {"deliver", "waitbody"}, LoopAt(c)'
  PROVE  HoldsKeep /\ LoopInv' /\ BodyInv'
<1>1. LoopInv /\ BodyInv
  BY DEF ShareInv
<1>2. HoldsKeep
  BY HoldsByLoop
<1>3. \A d \in Conns : Stays(d)
  BY SameCallsStay
<1>4. LoopInv'
  BY <1>1, <1>3, LoopOthers
<1>5. BodyInv'
  BY <1>1, BodyLoop
<1> QED
  BY <1>2, <1>4, <1>5

(* With the pool as it was. *)
LEMMA SharedPool ==
  ASSUME BaseInv, ShareInv, HoldsKeep, idleConn' = idleConn PROVE TokenInv' /\ PoolInv'
<1>1. Shrinks
  BY SamePoolShrinks DEF BaseInv
<1> QED
  BY <1>1, PoolShrinks, InPoolShrinks, TokenKeeps DEF ShareInv

(* Who waits for a connection's answer does not depend on the readLoop's   *)
(* own steps.                                                              *)
LEMMA SameCallsWait ==
  ASSUME SameCalls, NEW c \in Conns, pconn[c].rl # "deliver", pconn'[c].rl # "deliver"
  PROVE  \A h \in Callers : Waits(h, c)' <=> Waits(h, c)
BY DEF SameCalls, Waits, Delivering, BodyComes

(* The readLoop's wait for input keeps connections to one user each. *)
LEMMA PeekShare ==
  ASSUME BaseInv, ShareInv, NEW c \in Conns, Peek(c) PROVE ShareInv'
<1>1. PeekEffect(c)
  BY PeekDoes DEF BaseInv
<1>2. SameCalls /\ pconn[c].rl = "peek" /\ OthersConn(c) /\ idleConn' = idleConn
  BY <1>1 DEF PeekEffect, SameCalls
<1>3. LoopAt(c)'
  <2>1. LoopAt(c)
    BY DEF ShareInv, LoopInv
  <2>2. /\ pconn'[c].rl \in {"exit", "recv"} /\ pconn'[c].lastbody = pconn[c].lastbody
        /\ pconn'[c].reqch = pconn[c].reqch /\ pconn'[c].inbox = pconn[c].inbox
    BY <1>1 DEF PeekEffect, SameQueues
  <2>3. pconn'[c].sock # "none"
    <3>1. pconn[c].sock # "none"
      BY <1>2 DEF BaseInv, KeyInv
    <3> QED
      BY <1>1, <3>1 DEF PeekEffect, Closed, SameSock
  <2>4. pconn[c].reqch # <<>> => Len(pconn'[c].reqch) = 1 /\ Waits(pconn[c].reqch[1], c)'
    <3>1. \A h \in Callers : Waits(h, c)' <=> Waits(h, c)
      BY <1>2, <2>2, SameCallsWait
    <3>2. pconn[c].reqch # <<>> => pconn[c].reqch[1] \in Callers
      BY LoopCallers
    <3>3. pconn[c].reqch # <<>> => Len(pconn[c].reqch) = 1 /\ Waits(pconn[c].reqch[1], c)
      BY <2>1 DEF LoopAt
    <3> QED
      BY <2>2, <3>1, <3>2, <3>3 DEF Waits, Delivering, BodyComes
  <2>5. pconn'[c].lastbody # "none" => Spent(call'[pconn'[c].lastbody])
    BY <1>1, <1>2, <2>1, <2>2 DEF LoopAt, PeekEffect
  <2>6. \A i \in DOMAIN pconn'[c].inbox :
          /\ pconn'[c].inbox[i].of # "none"
          /\ pconn'[c].inbox[i].close => TRUE \in ReplyCloses
    BY <2>1, <2>2 DEF LoopAt
  <2> QED
    BY <2>2, <2>3, <2>4, <2>5, <2>6 DEF LoopAt
<1>4. HoldsKeep /\ LoopInv' /\ BodyInv'
  BY <1>2, <1>3, SharedLoop
<1> QED
  BY <1>2, <1>4, SharedPool DEF ShareInv

(* A queue of one request: its head, and nothing behind it. *)
LEMMA OneRequest ==
  ASSUME NEW s \in Seq(Callers), Len(s) = 1
  PROVE  Head(s) = s[1] /\ Tail(s) = <<>> /\ s[1] \in Callers
<1>1. s # <<>>
  BY EmptySeq
<1>2. Tail(s) \in Seq(Callers) /\ Len(Tail(s)) = 0 /\ Head(s) \in Callers
  BY <1>1, HeadTailProperties
<1>3. Tail(s) = <<>>
  BY <1>2, EmptySeq
<1>4. Head(s) = s[1]
  OBVIOUS
<1> QED
  BY <1>2, <1>3, <1>4

(* If fn does not run a second time, it does not run in readLoop, which    *)
(* would then wait for itself: it has run before.                          *)
LEMMA RunsNot ==
  ASSUME FnAtMostOnce', BaseInv, ShareInv, NEW c \in Conns, Recv(c)
  PROVE  ~RunsAgain(c)
<1> SUFFICES ASSUME RunsAgain(c) PROVE FALSE
  OBVIOUS
<1>1. PICK b \in Callers : b = pconn[c].lastbody /\ ~call[b].closed
  BY DEF RunsAgain
<1>2. Spent(call[b])
  BY <1>1, TransportAssumption DEF Recv, ShareInv, LoopInv, LoopAt
<1>3. call[b].runs \in Nat /\ call[b].runs # 0
  BY <1>1, <1>2, CallTypes DEF Spent, BaseInv
<1>4. call'[b].runs = call[b].runs + 1
  BY <1>1, RecvCloses DEF BaseInv
<1>5. call'[b].runs <= 1
  BY DEF FnAtMostOnce
<1> QED
  BY <1>3, <1>4, <1>5

(* A request that is received keeps connections to one user each. *)
LEMMA RecvShare ==
  ASSUME FnAtMostOnce', BaseInv, ShareInv, NEW c \in Conns, Recv(c) PROVE ShareInv'
<1>1. RecvEffect(c) /\ LastClosed
  BY RecvDoes, RecvCloses DEF BaseInv
<1>2. LoopAt(c)
  BY DEF ShareInv, LoopInv
<1>3. ~RunsAgain(c)
  BY RunsNot
<1>4. pconn'[c].rl = "read" /\ idleConn' = idleConn /\ SameSock(pconn'[c], pconn[c])
  BY <1>3, RecvDoes DEF BaseInv
<1>5. SameCalls
  <2>1. \A h \in Callers : call[h].runs \in Nat
    BY CallTypes DEF BaseInv
  <2>2. \A h \in Callers : call[h].runs # 0 => call'[h].runs # 0
    BY <1>1, <2>1 DEF LastClosed
  <2> QED
    BY <1>1, <2>2 DEF LastClosed, SameCalls, Spent
<1>6. pconn[c].rl = "recv" /\ OthersConn(c) /\ pconn[c].reqch # <<>>
  BY <1>1 DEF RecvEffect
<1>7. LoopAt(c)'
  <2>1. Len(pconn[c].reqch) = 1 /\ Waits(pconn[c].reqch[1], c)
    BY <1>2, <1>6 DEF LoopAt
  <2>2. pconn[c].reqch \in Seq(Callers)
    BY ConnTypes DEF BaseInv
  <2>3. /\ Head(pconn[c].reqch) = pconn[c].reqch[1] /\ Tail(pconn[c].reqch) = <<>>
        /\ pconn[c].reqch[1] \in Callers
    BY <2>1, <2>2, OneRequest
  <2>4. \A h \in Callers : Waits(h, c)' <=> Waits(h, c)
    BY <1>4, <1>5, <1>6, SameCallsWait
  <2>5. /\ pconn'[c].cur = pconn[c].reqch[1] /\ pconn'[c].reqch = <<>>
        /\ pconn'[c].inbox = pconn[c].inbox /\ pconn'[c].lastbody = "none"
    BY <1>1, <2>3 DEF RecvEffect
  <2>6. Waits(pconn[c].cur, c)'
    BY <2>1, <2>3, <2>4, <2>5 DEF Waits, Delivering, BodyComes
  <2>7. pconn'[c].sock # "none"
    BY <1>4, <1>6 DEF SameSock, BaseInv, KeyInv
  <2>8. \A i \in DOMAIN pconn'[c].inbox :
          /\ pconn'[c].inbox[i].of # "none"
          /\ pconn'[c].inbox[i].close => TRUE \in ReplyCloses
    BY <1>2, <2>5 DEF LoopAt
  <2> QED
    BY <1>4, <2>5, <2>6, <2>7, <2>8 DEF LoopAt
<1>8. HoldsKeep /\ LoopInv' /\ BodyInv'
  BY <1>5, <1>6, <1>7, SharedLoop
<1> QED
  BY <1>4, <1>8, SharedPool DEF ShareInv

(* readLoop has an answer, or an error, for the caller at hand. *)
LEMMA AnswerLoop ==
  ASSUME BaseInv, ShareInv, NEW c \in Conns, pconn[c].rl = "read",
         pconn'[c].rl = "deliver", pconn'[c].cur = pconn[c].cur,
         pconn'[c].reqch = pconn[c].reqch, pconn'[c].got # "none",
         pconn'[c].lastbody = pconn[c].lastbody \/ pconn'[c].hasBody,
         pconn'[c].inbox \in {pconn[c].inbox, Tail(pconn[c].inbox)},
         pconn'[c].inbox # pconn[c].inbox => pconn[c].inbox # <<>>,
         pconn'[c].sock # "none", \A d \in Conns : Stays(d)
  PROVE  LoopAt(c)'
<1>1. LoopAt(c)
  BY DEF ShareInv, LoopInv
<1>2. pconn[c].reqch = <<>> /\ Waits(pconn[c].cur, c) /\ pconn[c].lastbody = "none"
  BY <1>1 DEF LoopAt
<1>3. pconn[c].cur \in Callers
  BY LoopCallers
<1>4. /\ call'[pconn'[c].cur].conn = c /\ call'[pconn'[c].cur].pc = "await"
      /\ call'[pconn'[c].cur].res = "none"
  BY <1>2, <1>3 DEF Waits, Stays, Spent
<1>5. \A i \in DOMAIN pconn'[c].inbox :
        /\ pconn'[c].inbox[i].of # "none"
        /\ pconn'[c].inbox[i].close => TRUE \in ReplyCloses
  <2>1. \A i \in DOMAIN pconn[c].inbox :
          /\ pconn[c].inbox[i].of # "none"
          /\ pconn[c].inbox[i].close => TRUE \in ReplyCloses
    BY <1>1 DEF LoopAt
  <2>2. CASE pconn'[c].inbox = pconn[c].inbox
    BY <2>1, <2>2
  <2>3. CASE pconn'[c].inbox = Tail(pconn[c].inbox) /\ pconn[c].inbox # <<>>
    <3> DEFINE s == pconn[c].inbox
    <3>1. s \in Seq(Inbox)
      BY ConnTypes DEF BaseInv
    <3> HIDE DEF s
    <3>2. \A i \in DOMAIN Tail(s) : i + 1 \in DOMAIN s /\ Tail(s)[i] = s[i + 1]
      BY <2>3, <3>1 DEF s
    <3> QED
      BY <2>1, <2>3, <3>2 DEF s
  <2> QED
    BY <2>2, <2>3
<1> QED
  BY <1>2, <1>4, <1>5 DEF LoopAt

(* A failed read keeps connections to one user each. *)
LEMMA ReadErrorShare ==
  ASSUME BaseInv, ShareInv, NEW c \in Conns, ReadError(c) PROVE ShareInv'
<1>1. ReadErrorEffect(c)
  BY ReadErrorDoes DEF BaseInv
<1>2. SameCalls /\ pconn[c].rl = "read" /\ OthersConn(c) /\ idleConn' = idleConn
  BY <1>1 DEF ReadErrorEffect, SameCalls
<1>3. LoopAt(c)'
  <2>1. \A d \in Conns : Stays(d)
    BY <1>2, SameCallsStay
  <2> QED
    BY <1>1, <2>1, AnswerLoop DEF ReadErrorEffect, SameQueues, Closed
<1>4. HoldsKeep /\ LoopInv' /\ BodyInv'
  BY <1>2, <1>3, SharedLoop
<1> QED
  BY <1>2, <1>4, SharedPool DEF ShareInv

(* A response that is read: the connection passes to the pool, to the      *)
(* body's reader, or to nobody.                                            *)
LEMMA ReadResponseShare ==
  ASSUME BaseInv, ShareInv, NEW c \in Conns, ReadResponse(c) PROVE ShareInv'
<1>1. ReadResponseEffect(c) /\ (Bodyless(c) \/ WithBody(c) \/ Closing(c))
  BY ReadResponseDoes DEF BaseInv
<1>2. /\ pconn[c].rl = "read" /\ OthersConn(c) /\ pconn[c].sock # "none"
      /\ pconn[c].inbox # <<>>
      /\ TypeOK /\ TokenInv /\ PoolInv /\ LoopInv /\ BodyInv /\ LoopAt(c)
  BY <1>1 DEF ReadResponseEffect, BaseInv, KeyInv, ShareInv, LoopInv
<1>3. PICK g \in Callers : g = pconn[c].cur
  BY <1>2, LoopCallers
<1>4. Waits(g, c)
  BY <1>2, <1>3 DEF LoopAt
<1>5. pconn'[c].got # "none"
  <2>1. pconn[c].inbox \in Seq(Inbox)
    BY <1>2, ConnTypes
  <2>2. Head(pconn[c].inbox) = pconn[c].inbox[1] /\ 1 \in DOMAIN pconn[c].inbox
    BY <1>2, <2>1
  <2>3. pconn[c].inbox[1].of # "none"
    BY <1>2, <2>2 DEF LoopAt
  <2> QED
    BY <1>1, <2>2, <2>3 DEF ReadResponseEffect
<1>6. (\A d \in Conns : Stays(d)) /\ pconn'[c].sock # "none"
      /\ (pconn'[c].lastbody = pconn[c].lastbody \/ pconn'[c].hasBody) => LoopAt(c)'
  BY <1>1, <1>2, <1>5, AnswerLoop DEF ReadResponseEffect
<1>7. CASE Bodyless(c)
  <2>1. SameCalls
    BY <1>7 DEF Bodyless, SameCalls
  <2>2. PICK p \in ConnRecs : SameSock(p, pconn[c]) /\ (Refuses(c, p) \/ Accepts(c, p))
    BY <1>7 DEF Bodyless
  <2>3. pconn'[c].sock # "none"
    BY <1>2, <2>2 DEF Refuses, Accepts, SameSock
  <2>4. LoopAt(c)'
    BY <1>6, <1>7, <2>1, <2>3, SameCallsStay DEF Bodyless
  <2>5. HoldsKeep /\ LoopInv' /\ BodyInv'
    BY <1>2, <2>1, <2>4, SharedLoop
  <2>6. Holds(g, c)
    BY <1>4 DEF Holds, Uses
  <2>7. \A h \in Callers : ~Holds(h, c)'
    <3> SUFFICES ASSUME NEW h \in Callers, Holds(h, c)' PROVE FALSE
      OBVIOUS
    <3>1. h = g
      BY <1>2, <2>5, <2>6 DEF HoldsKeep, TokenInv
    <3>2. Delivering(g, c)' /\ ~BodyComes(g, c)'
      BY <1>1, <1>3, <1>7 DEF Delivering, BodyComes, ReadResponseEffect, Bodyless
    <3>3. ~call'[g].fn /\ ~call'[g].body /\ call'[g].pc = "await"
      BY <1>2, <1>4, <2>1 DEF BodyInv, BodyAt, Waits, SameCalls
    <3> QED
      BY <3>1, <3>2, <3>3 DEF Holds, Uses, Waits, Reads, Served
  <2>8. TokenInv' /\ PoolInv'
    BY <1>2, <2>2, <2>5, <2>6, <2>7, PutShare
  <2> QED
    BY <2>5, <2>8 DEF ShareInv
<1>8. CASE Closing(c)
  <2>1. SameCalls /\ idleConn' = idleConn
    BY <1>8 DEF Closing, SameCalls
  <2>2. LoopAt(c)'
    BY <1>2, <1>6, <1>8, <2>1, SameCallsStay DEF Closing, SameSock
  <2>3. HoldsKeep /\ LoopInv' /\ BodyInv'
    BY <1>2, <2>1, <2>2, SharedLoop
  <2> QED
    BY <2>1, <2>3, SharedPool DEF ShareInv
<1>9. CASE WithBody(c)
  <2>1. /\ call' \in [Callers -> CallRecs] /\ OthersCall(g) /\ SameConnOf(g)
        /\ call'[g].pc = call[g].pc /\ call'[g].res = call[g].res
        /\ call'[g].body = call[g].body /\ call'[g].closed = call[g].closed
        /\ call'[g].fn /\ call'[g].runs = call[g].runs
    BY <1>2, <1>3, <1>9, SettingFn DEF WithBody
  <2>2. \A d \in Conns : Stays(d)
    BY <2>1 DEF OthersCall, SameConnOf, Stays, Spent
  <2>3. LoopAt(c)'
    BY <1>2, <1>6, <1>9, <2>2 DEF WithBody, SameSock
  <2>4. LoopInv'
    BY <1>2, <2>2, <2>3, LoopOthers
  <2>5. HoldsKeep
    <3> SUFFICES ASSUME NEW h \in Callers, NEW d \in Conns, Holds(h, d)'
                 PROVE  Holds(h, d)
      BY DEF HoldsKeep
    <3>1. CASE h = g
      <4>1. call'[g].conn = c /\ d = c
        BY <1>4, <2>1, <3>1 DEF SameConnOf, Waits, Holds, Uses, Reads, Served
      <4> QED
        BY <1>4, <3>1, <4>1 DEF Holds, Uses
    <3>2. CASE h # g
      <4>1. call'[h] = call[h]
        BY <2>1, <3>2 DEF OthersCall
      <4>2. Delivering(h, d) => Delivering(h, d)'
        BY <1>2 DEF Delivering, OthersConn
      <4>3. BodyComes(h, d)' => BodyComes(h, d)
        BY <1>1, <1>2, <1>3, <3>2
        DEF Delivering, BodyComes, OthersConn, ReadResponseEffect
      <4> QED
        BY <4>1, <4>2, <4>3 DEF Holds, Uses, Waits, Reads, Served
    <3> QED
      BY <3>1, <3>2
  <2>6. BodyAt(g)'
    <3>1. /\ pconn'[c].rl = "deliver" /\ pconn'[c].cur = g /\ pconn'[c].lastbody = g
          /\ pconn'[c].hasBody /\ pconn'[c].alive
      BY <1>1, <1>3, <1>9 DEF ReadResponseEffect, WithBody
    <3>2. call'[g].conn = c /\ call'[g].pc = "await" /\ ~call'[g].body
      BY <1>2, <1>4, <2>1 DEF Waits, SameConnOf, BodyInv, BodyAt
    <3> QED
      BY <3>1, <3>2 DEF BodyAt, Early
  <2>7. BodyInv'
    BY <1>2, <2>1, <2>6, BodyOthers DEF OthersConn, SameLoop
  <2>8. idleConn' = idleConn
    BY <1>9 DEF WithBody
  <2> QED
    BY <2>4, <2>5, <2>7, <2>8, SharedPool DEF ShareInv
<1> QED
  BY <1>1, <1>7, <1>8, <1>9

(* Delivery ends the wait of the caller at hand. *)
LEMMA DeliverShare ==
  ASSUME BaseInv, ShareInv, NEW c \in Conns, Deliver(c) PROVE ShareInv'
<1>1. /\ TypeOK /\ TokenInv /\ PoolInv /\ LoopInv /\ BodyInv /\ LoopAt(c)
      /\ pconn[c].rl = "deliver"
  BY DEF BaseInv, ShareInv, LoopInv, Deliver
<1>2. PICK g \in Callers : g = pconn[c].cur
  BY <1>1, LoopCallers
<1>3. DeliverEffect(c)
  BY <1>1, <1>2, TransportAssumption, DeliverDoes
<1>4. /\ OthersConn(c) /\ idleConn' = idleConn /\ OthersCall(g) /\ SameConnOf(g)
      /\ call'[g].pc = call[g].pc /\ call'[g].fn = call[g].fn
      /\ call'[g].closed = call[g].closed /\ call'[g].runs = call[g].runs
      /\ call'[g].res = pconn[c].got /\ call'[g].body = pconn[c].hasBody
      /\ \/ pconn'[c].rl = "waitbody" /\ pconn[c].hasBody /\ pconn[c].alive
         \/ pconn'[c].rl = "peek" /\ ~pconn[c].hasBody /\ pconn[c].alive
         \/ pconn'[c].rl = "exit" /\ ~pconn[c].alive
      /\ pconn'[c].lastbody = pconn[c].lastbody
      /\ pconn'[c].reqch = pconn[c].reqch /\ pconn'[c].inbox = pconn[c].inbox
      /\ pconn'[c].sock = pconn[c].sock
  BY <1>2, <1>3 DEF DeliverEffect, SameQueues, SameSock
<1>5. /\ call[g].conn = c /\ call[g].pc = "await" /\ call[g].res = "none"
      /\ call'[g].res # "none"
  BY <1>1, <1>2, <1>4 DEF LoopAt
<1>6. HoldsKeep
  <2> SUFFICES ASSUME NEW h \in Callers, NEW d \in Conns, Holds(h, d)'
               PROVE  Holds(h, d)
    BY DEF HoldsKeep
  <2>1. CASE h = g
    <3>1. call'[g].conn = c /\ call'[g].pc = "await" /\ call'[g].fn = call[g].fn
          /\ call'[g].res # "none" /\ call'[g].body = pconn[c].hasBody
      BY <1>4, <1>5 DEF SameConnOf
    <3>2. d = c /\ (call[g].fn \/ pconn[c].hasBody)
      BY <2>1, <3>1 DEF Holds, Uses, Waits, Reads, Served
    <3>3. pconn[c].hasBody => BodyComes(g, c)
      BY <1>1, <1>2 DEF BodyComes, Delivering
    <3> QED
      BY <1>5, <2>1, <3>2, <3>3 DEF Holds, Reads, Served
  <2>2. CASE h # g
    <3>1. call'[h] = call[h]
      BY <1>4, <2>2 DEF OthersCall
    <3>2. Delivering(h, d) => Delivering(h, d)'
      BY <1>2, <1>4, <2>2 DEF Delivering, OthersConn
    <3>3. BodyComes(h, d)' => BodyComes(h, d)
      BY <1>4, <2>2 DEF Delivering, BodyComes, OthersConn
    <3> QED
      BY <3>1, <3>2, <3>3 DEF Holds, Uses, Waits, Reads, Served
  <2> QED
    BY <2>1, <2>2
<1>7. \A d \in Conns : d # c => Stays(d)
  BY <1>4, <1>5 DEF OthersCall, SameConnOf, Stays, Spent
<1>8. LoopAt(c)'
  <2>1. pconn[c].reqch # <<>> => Len(pconn'[c].reqch) = 1 /\ Waits(pconn[c].reqch[1], c)'
    <3> SUFFICES ASSUME pconn[c].reqch # <<>>
                 PROVE  Len(pconn'[c].reqch) = 1 /\ Waits(pconn[c].reqch[1], c)'
      OBVIOUS
    <3>1. Len(pconn[c].reqch) = 1 /\ Waits(pconn[c].reqch[1], c)
      BY <1>1 DEF LoopAt
    <3>2. PICK h \in Callers : h = pconn[c].reqch[1]
      BY LoopCallers
    <3>3. Waits(h, c) /\ h # g
      BY <1>1, <1>2, <3>1, <3>2 DEF Waits, Delivering, BodyComes
    <3>4. call'[h] = call[h] /\ pconn'[c].rl # "deliver"
      BY <1>4, <3>3 DEF OthersCall
    <3>5. pconn'[c].reqch[1] = h
      BY <1>4, <3>2
    <3> QED
      BY <1>4, <3>1, <3>3, <3>4, <3>5 DEF Waits, Delivering, BodyComes
  <2>2. pconn'[c].rl = "peek" => pconn'[c].lastbody = "none"
    BY <1>1, <1>4 DEF LoopAt
  <2>3. pconn'[c].sock # "none"
    BY <1>1, <1>4 DEF BaseInv, KeyInv
  <2>4. \A i \in DOMAIN pconn'[c].inbox :
          /\ pconn'[c].inbox[i].of # "none"
          /\ pconn'[c].inbox[i].close => TRUE \in ReplyCloses
    BY <1>1, <1>4 DEF LoopAt
  <2> QED
    BY <1>4, <2>1, <2>2, <2>3, <2>4 DEF LoopAt
<1>9. LoopInv'
  BY <1>1, <1>4, <1>7, <1>8, LoopOthers
<1>10. BodyAt(g)'
  <2>1. call[g].fn =>
          pconn[c].lastbody = g /\ pconn[c].hasBody /\ pconn[c].alive
    BY <1>1, <1>5 DEF BodyInv, BodyAt
  <2>2. call'[g].fn =>
          pconn'[c].lastbody = g /\ pconn'[c].rl = "waitbody" /\ call'[g].body
    BY <1>4, <2>1
  <2> QED
    BY <1>4, <1>5, <2>2 DEF SameConnOf, BodyAt, Early
<1>11. BodyInv'
  <2> SUFFICES ASSUME NEW h \in Callers, h # g PROVE BodyAt(h)'
    BY <1>10 DEF BodyInv
  <2>1. call'[h] = call[h] /\ BodyAt(h)
    BY <1>1, <1>4 DEF OthersCall, BodyInv
  <2>2. CASE call[h].fn /\ call[h].pc \in {"await", "body", "put", "signal"}
    <3>1. call[h].conn # c
      BY <1>1, <1>2, <2>1, <2>2 DEF BodyAt
    <3> QED
      BY <1>4, <2>1, <3>1, BodyFrame DEF OthersConn
  <2>3. CASE ~(call[h].fn /\ call[h].pc \in {"await", "body", "put", "signal"})
    BY <2>1, <2>3 DEF BodyAt
  <2> QED
    BY <2>2, <2>3
<1> QED
  BY <1>4, <1>6, <1>9, <1>11, SharedPool DEF ShareInv

(* So every step of a readLoop keeps connections to one user each, as long *)
(* as no fn runs twice, ...                                                *)
LEMMA ReadLoopShare ==
  ASSUME FnAtMostOnce', BaseInv, ShareInv, NEW c \in Conns, ReadLoop(c) PROVE ShareInv'
BY PeekShare, RecvShare, ReadErrorShare, ReadResponseShare, DeliverShare DEF ReadLoop

(* ... and so does every step of a caller. *)
LEMMA CallerShare ==
  ASSUME BaseInv, ShareInv, NEW g \in Callers, CallerStep(g) PROVE ShareInv'
BY GetIdleConnShare, GetConnShare, ExpectShare, WriteShare, SendShare, ReceiveShare,
   EndBodyShare, BodyPutShare, BodySignalShare, BodyClearShare DEF CallerStep

-----------------------------------------------------------------------------
(* What servers do, and CloseIdleConnections, disturbs no one who waits. *)
LEMMA AllShare ==
  ASSUME BaseInv, ShareInv, call' = call, Shrinks,
         \A d \in Conns : SameLoop(pconn'[d], pconn[d])
  PROVE  TokenInv' /\ PoolInv' /\ BodyInv' /\ \A d \in Conns : Stays(d)
<1>1. HoldsKeep
  BY DEF HoldsKeep, Holds, Uses, Waits, Reads, Served, Delivering, BodyComes, SameLoop
<1>2. TokenInv' /\ PoolInv'
  BY <1>1, PoolShrinks, InPoolShrinks, TokenKeeps DEF ShareInv
<1>3. BodyInv'
  BY BodyFrame DEF BodyInv, ShareInv, SameLoop
<1> QED
  BY <1>2, <1>3 DEF Stays, Spent

(* Bytes that arrive on a connection change neither its user nor its place *)
(* in the pool.                                                            *)
LEMMA ArrivesShare ==
  ASSUME BaseInv, ShareInv, NEW c \in Conns, NEW x \in Inbox, Arrives(c, x),
         x.of # "none", x.close => TRUE \in ReplyCloses
  PROVE  ShareInv'
<1>1. /\ OthersConn(c) /\ idleConn' = idleConn /\ call' = call
      /\ SameLoop(pconn'[c], pconn[c]) /\ SameSock(pconn'[c], pconn[c])
      /\ pconn[c].sock # "none" /\ pconn'[c].reqch = pconn[c].reqch
      /\ pconn'[c].inbox = Append(pconn[c].inbox, x)
  BY DEF Arrives
<1>2. \A d \in Conns : SameLoop(pconn'[d], pconn[d])
  BY <1>1 DEF OthersConn, SameLoop
<1>3. Shrinks
  BY <1>1, SamePoolShrinks DEF BaseInv
<1>4. TokenInv' /\ PoolInv' /\ BodyInv' /\ \A d \in Conns : Stays(d)
  BY <1>1, <1>2, <1>3, AllShare
<1>5. LoopAt(c)'
  <2>1. LoopAt(c)
    BY DEF ShareInv, LoopInv
  <2>2. \A i \in DOMAIN pconn'[c].inbox :
          /\ pconn'[c].inbox[i].of # "none"
          /\ pconn'[c].inbox[i].close => TRUE \in ReplyCloses
    <3> DEFINE s == pconn[c].inbox
    <3>1. s \in Seq(Inbox)
      BY ConnTypes DEF BaseInv
    <3> HIDE DEF s
    <3>2. \A i \in DOMAIN Append(s, x) :
            (i \in DOMAIN s /\ Append(s, x)[i] = s[i]) \/ Append(s, x)[i] = x
      BY <3>1
    <3>3. \A i \in DOMAIN s : s[i].of # "none" /\ (s[i].close => TRUE \in ReplyCloses)
      BY <2>1 DEF LoopAt, s
    <3> QED
      BY <1>1, <3>2, <3>3 DEF s
  <2>3. /\ pconn'[c].sock # "none" /\ pconn'[c].rl = pconn[c].rl
        /\ pconn'[c].cur = pconn[c].cur /\ pconn'[c].got = pconn[c].got
        /\ pconn'[c].hasBody = pconn[c].hasBody /\ pconn'[c].lastbody = pconn[c].lastbody
    BY <1>1 DEF SameSock, SameLoop
  <2>4. \A h \in Callers : Waits(h, c)' <=> Waits(h, c)
    BY <1>1, <2>3 DEF Waits, Delivering, BodyComes
  <2>5. pconn'[c].reqch # <<>> => Len(pconn'[c].reqch) = 1 /\ Waits(pconn[c].reqch[1], c)'
    BY <1>1, <2>1, <2>3, <2>4, LoopCallers DEF LoopAt, Waits, Delivering, BodyComes
  <2>6. pconn'[c].rl = "read" => pconn'[c].reqch = <<>> /\ Waits(pconn[c].cur, c)'
    BY <1>1, <2>1, <2>3, <2>4, LoopCallers DEF LoopAt, Waits, Delivering, BodyComes
  <2>7. pconn'[c].reqch[1] = pconn[c].reqch[1]
    BY <1>1
  <2>8. pconn'[c].reqch # <<>> => Waits(pconn[c].reqch[1], c)'
    BY <2>5
  <2> QED
    BY <1>1, <2>1, <2>2, <2>3, <2>5, <2>6, <2>7 DEF LoopAt
<1>6. LoopInv'
  BY <1>1, <1>4, <1>5, LoopOthers DEF ShareInv
<1> QED
  BY <1>4, <1>6 DEF ShareInv

(* No step of a server changes who uses a connection. *)
LEMMA ServerShare ==
  ASSUME BaseInv, ShareInv, NEW c \in Conns, Server(c) PROVE ShareInv'
<1>1. TypeOK
  BY DEF BaseInv
<1>2. CASE ServerReplies(c)
  <2>1. PICK x \in Inbox : /\ x.of = Head(pconn[c].wire) /\ x.close \in ReplyCloses
                           /\ Arrives(c, x)
    BY <1>1, <1>2, RepliesDoes
  <2>2. x.of # "none"
    <3>1. pconn[c].wire # <<>> /\ pconn[c].wire \in Seq(Callers)
      BY <1>1, <1>2, ConnTypes DEF ServerReplies
    <3>2. Head(pconn[c].wire) \in Callers
      BY <3>1, HeadTailProperties
    <3> QED
      BY <2>1, <3>2, TransportAssumption
  <2>3. x.close => TRUE \in ReplyCloses
    <3>1. x.close \in BOOLEAN
      BY DEF Inbox
    <3> QED
      BY <2>1, <3>1, Zenon
  <2> QED
    BY <2>1, <2>2, <2>3, ArrivesShare
<1>3. CASE ServerJunk(c)
  <2>1. PICK x \in Inbox : x.of = "junk" /\ ~x.close /\ Arrives(c, x)
    BY <1>1, <1>3, JunkDoes
  <2> QED
    BY <2>1, ArrivesShare
<1>4. CASE ServerGoes(c)
  <2>1. /\ OthersConn(c) /\ UNCHANGED <<idleConn, call>>
        /\ SameSock(pconn'[c], pconn[c]) /\ SameQueues(pconn'[c], pconn[c])
        /\ SameLoop(pconn'[c], pconn[c])
    BY <1>1, <1>4, GoesDoes
  <2>2. \A d \in Conns : SameLoop(pconn'[d], pconn[d])
    BY <2>1 DEF OthersConn, SameLoop
  <2>3. Shrinks
    BY <1>1, <2>1, SamePoolShrinks
  <2>4. TokenInv' /\ PoolInv' /\ BodyInv' /\ \A d \in Conns : Stays(d)
    BY <2>1, <2>2, <2>3, AllShare
  <2>5. LoopAt(c)'
    BY <2>1, <2>4, LoopFrame
    DEF ShareInv, LoopInv, SameLoop, SamePlace, SameSock, SameQueues
  <2>6. LoopInv'
    BY <2>1, <2>4, <2>5, LoopOthers DEF ShareInv
  <2> QED
    BY <2>4, <2>6 DEF ShareInv
<1> QED
  BY <1>2, <1>3, <1>4 DEF Server

(* CloseIdleConnections closes only what nobody uses. *)
LEMMA CloseIdleShare ==
  ASSUME BaseInv, ShareInv, CloseIdleConnections PROVE ShareInv'
<1>1. /\ call' = call /\ Shrinks
      /\ \A c \in Conns :
           /\ SameQueues(pconn'[c], pconn[c]) /\ SameLoop(pconn'[c], pconn[c])
           /\ Closed(pconn'[c], pconn[c]) \/ SameSock(pconn'[c], pconn[c])
  BY CloseIdleDoes DEF BaseInv
<1>2. TokenInv' /\ PoolInv' /\ BodyInv' /\ \A d \in Conns : Stays(d)
  BY <1>1, AllShare
<1>3. LoopInv'
  <2> SUFFICES ASSUME NEW d \in Conns PROVE LoopAt(d)'
    BY DEF LoopInv
  <2>1. /\ LoopAt(d) /\ Stays(d) /\ SamePlace(pconn'[d], pconn[d])
        /\ pconn'[d].reqch = pconn[d].reqch /\ pconn'[d].inbox = pconn[d].inbox
        /\ pconn'[d].wire = pconn[d].wire
        /\ pconn'[d].sock = "none" => pconn[d].sock = "none"
    BY <1>1, <1>2 DEF ShareInv, LoopInv, SameQueues, SameLoop, SamePlace, Closed, SameSock
  <2> QED
    BY <2>1, LoopFrame
<1> QED
  BY <1>2, <1>3 DEF ShareInv

(* At first there are no connections to share. *)
LEMMA InitShare == Init => ShareInv
<1> SUFFICES ASSUME Init PROVE ShareInv
  OBVIOUS
<1>1. /\ \A c \in Conns :
           /\ pconn[c].sock = "none" /\ pconn[c].rl = "none" /\ pconn[c].reqch = <<>>
           /\ pconn[c].lastbody = "none" /\ pconn[c].wire = <<>> /\ pconn[c].inbox = <<>>
      /\ \A k \in Keys : idleConn[k] = <<>>
  BY DEF Init
<1>2. \A g \in Callers : /\ call[g].pc = "start" /\ call[g].conn = "none"
                         /\ call[g].res = "none" /\ ~call[g].fn /\ ~call[g].body
  BY DEF Init
<1>3. \A k \in Keys : DOMAIN idleConn[k] = {}
  BY <1>1
<1>4. TokenInv
  BY <1>2, <1>3 DEF TokenInv, InPool, Holds, Uses, Waits, Reads, Served
<1>5. PoolInv
  BY <1>3 DEF PoolInv
<1>6. LoopInv
  <2>1. \A c \in Conns : DOMAIN pconn[c].inbox = {}
    BY <1>1
  <2> QED
    BY <1>1, <2>1 DEF LoopInv, LoopAt
<1>7. BodyInv
  BY <1>2 DEF BodyInv, BodyAt, Early
<1> QED
  BY <1>4, <1>5, <1>6, <1>7 DEF ShareInv

(* Every step keeps connections to one user each. *)
LEMMA NextShare ==
  ASSUME FnAtMostOnce', BaseInv, ShareInv, [Next]_vars PROVE ShareInv'
<1>1. CASE UNCHANGED vars
  <2>1. idleConn' = idleConn /\ pconn' = pconn /\ call' = call
    BY <1>1 DEF vars
  <2>2. Shrinks /\ \A d \in Conns : SameLoop(pconn'[d], pconn[d])
    BY <2>1, SamePoolShrinks DEF BaseInv, SameLoop
  <2>3. TokenInv' /\ PoolInv' /\ BodyInv' /\ \A d \in Conns : Stays(d)
    BY <2>1, <2>2, AllShare
  <2>4. LoopInv'
    BY <2>1, <2>3, LoopAll DEF ShareInv
  <2> QED
    BY <2>3, <2>4 DEF ShareInv
<1>2. CASE Finished
  BY <1>1, <1>2 DEF Finished
<1>3. CASE \E g \in Callers : CallerStep(g)
  BY <1>3, CallerShare
<1>4. CASE \E c \in Conns : ReadLoop(c) \/ Server(c)
  BY <1>4, ReadLoopShare, ServerShare
<1>5. CASE CloseIdleConnections
  BY <1>5, CloseIdleShare
<1> QED
  BY <1>1, <1>2, <1>3, <1>4, <1>5 DEF Next

(* A fn that has run has run: the count of no body goes down, ... *)
RunsKeep == \A h \in Callers : call[h].runs <= call'[h].runs

(* whoever moves, *)
LEMMA CallerRuns ==
  ASSUME TypeOK, NEW g \in Callers, CallerStep(g) PROVE RunsKeep
<1>1. OthersCall(g) /\ call'[g].runs \in {call[g].runs, call[g].runs + 1} => RunsKeep
  BY CallTypes DEF OthersCall, RunsKeep
<1>2. CASE GetIdleConn(g)
  BY <1>1, <1>2, GetIdleConnDoes DEF Moves, TakesFromPool, Gets
<1>3. CASE GetConn(g)
  BY <1>1, <1>3, GetConnDoes DEF Fails, Dials, Gets
<1>4. CASE Expect(g) \/ Send(g) \/ Receive(g) \/ BodySignal(g)
  <2>1. PICK place \in {"write", "await", "body", "done", "clear"} : Step(g, place, call[g])
    BY <1>4 DEF Expect, Send, Receive, BodySignal
  <2>2. place \in CallerPlaces
    BY DEF CallerPlaces
  <2> QED
    BY <1>1, <2>1, <2>2, StepMoves DEF Moves
<1>5. CASE Write(g)
  <2>1. "send" \in CallerPlaces
    BY DEF CallerPlaces
  <2>2. Moves(g, "send") \/ Fails(g)
    BY <1>5, <2>1, StepMoves, FailFails DEF Write
  <2> QED
    BY <1>1, <2>2 DEF Moves, Fails
<1>6. CASE EndBody(g)
  BY <1>1, <1>6, EndBodyEnds DEF Ends
<1>7. CASE BodyPut(g)
  <2>1. Puts(g)
    BY <1>7, StepPuts DEF BodyPut
  <2> QED
    BY <1>1, <2>1 DEF Puts
<1>8. CASE BodyClear(g)
  <2>1. Clears(g)
    BY <1>8, StepClears DEF BodyClear
  <2> QED
    BY <1>1, <2>1 DEF Clears
<1> QED
  BY <1>2, <1>3, <1>4, <1>5, <1>6, <1>7, <1>8 DEF CallerStep

(* readLoops included: a fn that has run at most once had before, too. *)
LEMMA RunsGrow ==
  ASSUME BaseInv, [Next]_vars, FnAtMostOnce' PROVE FnAtMostOnce
<1>1. TypeOK
  BY DEF BaseInv
<1>2. RunsKeep
  <2>1. CASE call' = call
    BY <2>1, CallTypes, <1>1 DEF RunsKeep
  <2>2. ASSUME NEW g \in Callers, CallerStep(g) PROVE RunsKeep
    BY <1>1, <2>2, CallerRuns
  <2>3. ASSUME NEW c \in Conns, Recv(c) PROVE RunsKeep
    <3>1. LastClosed
      BY <1>1, <2>3, RecvCloses
    <3> QED
      BY <1>1, <3>1, CallTypes DEF LastClosed, RunsKeep
  <2>4. ASSUME NEW c \in Conns, ReadResponse(c) PROVE RunsKeep
    <3>1. call' = call \/ WithBody(c)
      BY <1>1, <2>4, ReadResponseDoes DEF Bodyless, Closing
    <3>2. pconn[c].cur \in Callers
      BY <2>4, LoopCallers DEF ReadResponse
    <3>3. WithBody(c) => OthersCall(pconn[c].cur)
                         /\ call'[pconn[c].cur].runs = call[pconn[c].cur].runs
      BY <1>1, <3>2, SettingFn DEF WithBody
    <3> QED
      BY <1>1, <2>1, <3>1, <3>2, <3>3, CallTypes DEF OthersCall, RunsKeep
  <2>5. ASSUME NEW c \in Conns, Deliver(c) PROVE RunsKeep
    <3>1. pconn[c].cur \in Callers /\ DeliverEffect(c)
      BY <1>1, <2>5, LoopCallers, TransportAssumption, DeliverDoes DEF Deliver
    <3> QED
      BY <1>1, <3>1, CallTypes DEF DeliverEffect, OthersCall, RunsKeep
  <2>6. CASE \E c \in Conns : ReadLoop(c) \/ Server(c)
    BY <2>1, <2>3, <2>4, <2>5, <2>6
    DEF ReadLoop, Peek, ReadError, Server, ServerReplies, ServerGoes, ServerJunk
  <2>7. CASE CloseIdleConnections \/ Finished \/ UNCHANGED vars
    BY <2>1, <2>7 DEF CloseIdleConnections, Finished, vars
  <2> QED
    BY <2>2, <2>6, <2>7 DEF Next
<1>3. \A h \in Callers : call[h].runs \in Nat /\ call'[h].runs \in Nat
  <2>1. TypeOK'
    BY NextBase DEF BaseInv
  <2> QED
    BY <1>1, <2>1, CallTypes DEF TypeOK
<1> QED
  BY <1>2, <1>3 DEF RunsKeep, FnAtMostOnce

(* Hence the invariant of exclusive use. *)
LEMMA ShareAlways == Spec => [](FnAtMostOnce => ShareInv)
<1>1. /\ BaseInv /\ (FnAtMostOnce => ShareInv) /\ [Next]_vars
      => (BaseInv /\ (FnAtMostOnce => ShareInv))'
  <2> SUFFICES ASSUME BaseInv, FnAtMostOnce => ShareInv, [Next]_vars
               PROVE  (BaseInv /\ (FnAtMostOnce => ShareInv))'
    OBVIOUS
  <2>1. BaseInv'
    BY NextBase
  <2>2. ASSUME FnAtMostOnce' PROVE ShareInv'
    <3>1. FnAtMostOnce
      BY <2>2, RunsGrow
    <3> QED
      BY <2>2, <3>1, NextShare
  <2> QED
    BY <2>1, <2>2
<1>2. Init => BaseInv /\ (FnAtMostOnce => ShareInv)
  BY InitBase, InitShare
<1> QED
  BY <1>1, <1>2, PTL DEF Spec

(* A connection never serves two callers, from the request to the end of   *)
(* its answer's body, is never pooled twice, and never both: what          *)
(* putIdleConn, getIdleConn, readLoop and the bodies' fn hand on to each   *)
(* other is given away once, until a fn runs twice.                        *)
THEOREM ExclusiveUseHolds == Spec => []ExclusiveUse
<1>1. BaseInv /\ (FnAtMostOnce => ShareInv) => ExclusiveUse
  <2> SUFFICES ASSUME BaseInv, ShareInv, NEW c \in Conns
               PROVE  Cardinality(Users(c)) + Cardinality(Pooled(c)) <= 1
    BY DEF ExclusiveUse
  <2>1. \A g \in Users(c) : Holds(g, c) /\ g \in Callers
    <3> SUFFICES ASSUME NEW g \in Users(c) PROVE Holds(g, c)
      BY DEF Users
    <3>1. CASE call[g].pc \in {"begin", "write", "send"}
      BY <3>1 DEF Users, Holds, Uses
    <3>2. CASE call[g].pc = "put"
      <4>1. call[g].fn
        BY <3>2 DEF Users, ShareInv, BodyInv, BodyAt
      <4> QED
        BY <3>2, <4>1 DEF Users, Holds, Reads
    <3>3. CASE call[g].pc = "body"
      <4>1. call[g].body
        BY <3>3 DEF Users, ShareInv, BodyInv, BodyAt
      <4> QED
        BY <3>3, <4>1 DEF Users, Holds, Served
    <3>4. CASE call[g].pc = "await"
      BY <3>4 DEF Users, Holds, Uses, Waits, Served, Delivering, BodyComes
    <3> QED
      BY <3>1, <3>2, <3>3, <3>4 DEF Users
  <2>2. \A a, b \in Users(c) : a = b
    BY <2>1 DEF ShareInv, TokenInv
  <2>3. \A a, b \in Pooled(c) : a = b
    BY DEF Pooled, ShareInv, PoolInv
  <2>4. Users(c) = {} \/ Pooled(c) = {}
    <3>1. Pooled(c) # {} => InPool(c)
      BY DEF Pooled, InPool
    <3> QED
      BY <2>1, <3>1 DEF ShareInv, TokenInv
  <2>5. \A S : (\A a, b \in S : a = b) => Cardinality(S) \in {0, 1}
    <3> SUFFICES ASSUME NEW S, \A a, b \in S : a = b, S # {} PROVE Cardinality(S) = 1
      BY FS_EmptySet
    <3>1. PICK a \in S : S = {a}
      OBVIOUS
    <3> QED
      BY <3>1, FS_Singleton
  <2>6. Cardinality(Users(c)) \in {0, 1} /\ Cardinality(Pooled(c)) \in {0, 1}
    BY <2>2, <2>3, <2>5
  <2>7. Cardinality(Users(c)) = 0 \/ Cardinality(Pooled(c)) = 0
    BY <2>4, FS_EmptySet
  <2> QED
    BY <2>6, <2>7
<1> QED
  BY <1>1, BaseAlways, ShareAlways, PTL

-----------------------------------------------------------------------------
(* Whose answer comes over a connection.  It is at its end, or an error is *)
(* all it has left, *)
Dead(c) == pconn[c].rl = "exit" \/ (pconn[c].rl = "deliver" /\ pconn[c].got = "err")

(* or what is on its way is for a caller that has asked over it. *)
Asked(g, c) ==
  g \in Callers /\ call[g].conn = c /\ (call[g].pc = "send" \/ Waits(g, c))

WireAt(c) ==
  junk = 0 =>
    /\ pconn[c].rl = "deliver" =>
         /\ pconn[c].got \in {"err", pconn[c].cur}
         /\ pconn[c].got = "err" => ~pconn[c].alive
    /\ ~Dead(c) =>
         /\ \A i \in DOMAIN pconn[c].wire : Asked(pconn[c].wire[i], c)
         /\ \A i \in DOMAIN pconn[c].inbox : Asked(pconn[c].inbox[i].of, c)
         /\ Len(pconn[c].wire) + Len(pconn[c].inbox) <= 1

AnswerInv == (\A c \in Conns : WireAt(c)) /\ ResponseMatches

(* Most steps leave what is on its way alone, *)
WireKeeps(c) ==
  /\ pconn'[c].wire = pconn[c].wire /\ pconn'[c].inbox = pconn[c].inbox
  /\ Dead(c) => Dead(c)'
  /\ pconn'[c].rl = "deliver" =>
       /\ pconn[c].rl = "deliver" /\ pconn'[c].got = pconn[c].got
       /\ pconn'[c].cur = pconn[c].cur /\ pconn'[c].alive = pconn[c].alive

(* and those whom it is for. *)
AsksKeep(c) == \A h \in Callers : Asked(h, c) => Asked(h, c)'

(* What is on the way on a connection stays in order while only the caller *)
(* moves.                                                                  *)
LEMMA WireFrame ==
  ASSUME NEW c \in Conns, WireAt(c), WireKeeps(c), AsksKeep(c), junk' = junk
  PROVE  WireAt(c)'
<1>1. \A x : Asked(x, c) => Asked(x, c)'
  BY DEF AsksKeep, Asked
<1>2. junk' = 0 /\ pconn'[c].rl = "deliver" =>
        /\ pconn'[c].got \in {"err", pconn'[c].cur}
        /\ pconn'[c].got = "err" => ~pconn'[c].alive
  BY DEF WireAt, WireKeeps
<1>3. ASSUME junk' = 0, ~Dead(c)'
      PROVE  /\ \A i \in DOMAIN pconn'[c].wire : Asked(pconn[c].wire[i], c)'
             /\ \A i \in DOMAIN pconn'[c].inbox : Asked(pconn[c].inbox[i].of, c)'
             /\ Len(pconn'[c].wire) + Len(pconn'[c].inbox) <= 1
  <2>1. /\ \A i \in DOMAIN pconn[c].wire : Asked(pconn[c].wire[i], c)
        /\ \A i \in DOMAIN pconn[c].inbox : Asked(pconn[c].inbox[i].of, c)
        /\ Len(pconn[c].wire) + Len(pconn[c].inbox) <= 1
    BY <1>3 DEF WireAt, WireKeeps
  <2>2. pconn'[c].wire = pconn[c].wire /\ pconn'[c].inbox = pconn[c].inbox
    BY DEF WireKeeps
  <2>3. ASSUME NEW i \in DOMAIN pconn'[c].wire PROVE Asked(pconn[c].wire[i], c)'
    <3>1. PICK x : x = pconn[c].wire[i]
      OBVIOUS
    <3>2. Asked(x, c)
      BY <2>1, <2>2, <3>1
    <3>3. Asked(x, c)'
      BY <1>1, <3>2
    <3>4. pconn'[c].wire[i] = x
      BY <2>2, <3>1
    <3> QED
      BY <3>3, <3>4
  <2>4. ASSUME NEW i \in DOMAIN pconn'[c].inbox PROVE Asked(pconn[c].inbox[i].of, c)'
    <3>1. PICK x : x = pconn[c].inbox[i].of
      OBVIOUS
    <3>2. Asked(x, c)
      BY <2>1, <2>2, <3>1
    <3>3. Asked(x, c)'
      BY <1>1, <3>2
    <3>4. pconn'[c].inbox[i].of = x
      BY <2>2, <3>1
    <3> QED
      BY <3>3, <3>4
  <2> QED
    BY <2>1, <2>2, <2>3, <2>4
<1> QED
  BY <1>2, <1>3 DEF WireAt

(* Answers stay right if no connection's queues change and callers gain no *)
(* answer but an error.                                                    *)
LEMMA AnswerFrame ==
  ASSUME AnswerInv, junk' = junk, \A c \in Conns : WireKeeps(c) /\ AsksKeep(c),
         \A h \in Callers : call'[h].res \in {call[h].res, "err"}
  PROVE  AnswerInv'
<1>1. \A c \in Conns : WireAt(c)'
  BY WireFrame DEF AnswerInv
<1>2. ResponseMatches'
  BY DEF AnswerInv, ResponseMatches
<1> QED
  BY <1>1, <1>2 DEF AnswerInv

(* A step of one caller: *)
LEMMA AsksByCaller ==
  ASSUME NEW g \in Callers, OthersCall(g), DeliveringSame,
         \A c \in Conns : Asked(g, c) => Asked(g, c)'
  PROVE  \A c \in Conns : AsksKeep(c)
<1> SUFFICES ASSUME NEW c \in Conns, NEW h \in Callers, h # g, Asked(h, c)
             PROVE  Asked(h, c)'
  BY DEF AsksKeep
<1>1. call'[h] = call[h]
  BY DEF OthersCall
<1>2. Delivering(h, c)' <=> Delivering(h, c)
  BY DEF DeliveringSame
<1> QED
  BY <1>1, <1>2 DEF Asked, Waits

(* one that has not asked or has been answered, *)
LEMMA NotAsking ==
  ASSUME NEW g \in Callers,
         call[g].pc \notin {"send", "await"} \/ (call[g].pc = "await" /\ call[g].res # "none")
  PROVE  \A c \in Conns : ~Asked(g, c)
BY DEF Asked, Waits

(* A caller that keeps what it asked keeps answers right. *)
LEMMA QuietAnswer ==
  ASSUME AnswerInv, NEW g \in Callers, OthersCall(g), junk' = junk,
         call'[g].res \in {call[g].res, "err"},
         \A c \in Conns : Asked(g, c) => Asked(g, c)',
         \A c \in Conns : SameLoop(pconn'[c], pconn[c]) /\ pconn'[c].wire = pconn[c].wire
                          /\ pconn'[c].inbox = pconn[c].inbox
  PROVE  AnswerInv'
<1>1. DeliveringSame /\ \A c \in Conns : WireKeeps(c)
  BY DEF DeliveringSame, Delivering, BodyComes, SameLoop, WireKeeps, Dead
<1>2. \A h \in Callers : call'[h].res \in {call[h].res, "err"}
  BY DEF OthersCall
<1> QED
  BY <1>1, <1>2, AsksByCaller, AnswerFrame

(* Every step of a caller but its write keeps answers right. *)
LEMMA CallerAnswer ==
  ASSUME BaseInv, ShareInv, AnswerInv, NEW g \in Callers, CallerStep(g), ~Write(g)
  PROVE  AnswerInv'
<1>1. TypeOK
  BY DEF BaseInv
<1>2. \A d \in Conns : SameLoop(pconn[d], pconn[d])
  BY DEF SameLoop
<1>3. CASE GetIdleConn(g)
  <2>1. /\ call[g].pc = "start" /\ UNCHANGED <<pconn, junk>> /\ OthersCall(g)
        /\ call'[g].res = call[g].res
    BY <1>1, <1>3, GetIdleConnDoes DEF Moves, TakesFromPool, Gets
  <2> QED
    BY <1>2, <2>1, NotAsking, QuietAnswer
<1>4. CASE GetConn(g)
  <2>1. /\ call[g].pc = "dial" /\ UNCHANGED <<idleConn, junk>>
        /\ (Fails(g) /\ UNCHANGED pconn) \/ \E c \in Conns : Dials(g, c)
    BY <1>1, <1>4, GetConnDoes
  <2>2. \A c \in Conns : ~Asked(g, c)
    BY <2>1, NotAsking
  <2>3. CASE Fails(g) /\ UNCHANGED pconn
    BY <1>2, <2>1, <2>2, <2>3, QuietAnswer DEF Fails
  <2>4. ASSUME NEW c \in Conns, Dials(g, c) PROVE AnswerInv'
    <3>1. pconn[c].rl = "none"
      BY <2>4, Unused DEF Dials
    <3>2. /\ OthersConn(c) /\ SameQueues(pconn'[c], pconn[c])
          /\ pconn'[c].rl \in {"none", "peek"}
          /\ OthersCall(g) /\ call'[g].res \in {call[g].res, "err"}
      BY <2>4, <3>1 DEF Dials, Gets, Fails
    <3>3. DeliveringSame /\ \A d \in Conns : WireKeeps(d)
      BY <3>1, <3>2
      DEF DeliveringSame, Delivering, BodyComes, WireKeeps, Dead, OthersConn, SameQueues
    <3>4. \A h \in Callers : call'[h].res \in {call[h].res, "err"}
      BY <3>2 DEF OthersCall
    <3> QED
      BY <2>1, <2>2, <3>2, <3>3, <3>4, AsksByCaller, AnswerFrame
  <2> QED
    BY <2>1, <2>3, <2>4
<1>5. CASE Expect(g) \/ Receive(g)
  <2>1. /\ junk' = junk
        /\ call[g].pc = "begin" \/ (call[g].pc = "await" /\ call[g].res # "none")
    BY <1>5 DEF Expect, Receive
  <2>2. PICK c \in Conns : c = call[g].conn
    BY <2>1, UsedConn DEF Using
  <2>3. PICK n \in Int : pconn' = [pconn EXCEPT ![c].expected = n]
    <3>1. pconn[c].expected + 1 \in Int /\ pconn[c].expected - 1 \in Int
      BY <1>1, ConnTypes
    <3> QED
      BY <1>5, <2>2, <3>1 DEF Expect, Receive
  <2>4. n \in Nat
    <3>1. pconn'[c] \in ConnRecs
      <4>1. BaseInv'
        BY <1>5, ExpectBase, ReceiveBase
      <4> QED
        BY <4>1 DEF BaseInv, TypeOK, ConnRecs, Inbox
    <3>2. pconn'[c].expected = n
      BY <1>1, <2>3, Types DEF ConnRecs
    <3> QED
      BY <3>1, <3>2 DEF ConnRecs
  <2>5. /\ OthersConn(c) /\ SameQueues(pconn'[c], pconn[c])
        /\ SameLoop(pconn'[c], pconn[c])
    BY <1>1, <2>3, <2>4, Counting
  <2>6. OthersCall(g) /\ call'[g].res = call[g].res
    <3>1. PICK place \in CallerPlaces : Step(g, place, call[g])
      BY <1>5 DEF Expect, Receive, CallerPlaces
    <3> QED
      BY <1>1, <3>1, StepMoves DEF Moves
  <2>7. \A d \in Conns : SameLoop(pconn'[d], pconn[d]) /\ SameQueues(pconn'[d], pconn[d])
    BY <2>5 DEF OthersConn, SameLoop, SameQueues
  <2> QED
    BY <2>1, <2>6, <2>7, NotAsking, QuietAnswer DEF SameQueues
<1>6. CASE Send(g)
  <2>0. PICK c \in Conns : c = call[g].conn
    BY <1>6, UsedConn DEF Send, Using
  <2>1. /\ call[g].pc = "send" /\ junk' = junk /\ Moves(g, "await") /\ OthersConn(c)
        /\ SameLoop(pconn'[c], pconn[c])
        /\ pconn'[c].wire = pconn[c].wire /\ pconn'[c].inbox = pconn[c].inbox
    BY <1>1, <1>6, <2>0, SendDoes
  <2>2. \A d \in Conns : SameLoop(pconn'[d], pconn[d]) /\ pconn'[d].wire = pconn[d].wire
                         /\ pconn'[d].inbox = pconn[d].inbox
    BY <2>1 DEF OthersConn, SameLoop
  <2>3. call[g].res = "none" /\ ~Delivering(g, c)
    BY <2>1 DEF ShareInv, BodyInv, BodyAt, Early, LoopInv, LoopAt, Delivering, BodyComes
  <2>4. \A d \in Conns : Asked(g, d) => Asked(g, d)'
    <3> SUFFICES ASSUME NEW d \in Conns, Asked(g, d) PROVE Asked(g, d)'
      OBVIOUS
    <3>1. d = c
      BY <2>0 DEF Asked, Waits
    <3>2. /\ call'[g].conn = c /\ call'[g].pc = "await" /\ call'[g].res = "none"
      BY <2>0, <2>1, <2>3 DEF Moves, SameConnOf
    <3>3. ~Delivering(g, c)'
      BY <2>1, <2>3 DEF Delivering, BodyComes, SameLoop
    <3> QED
      BY <3>1, <3>2, <3>3 DEF Asked, Waits
  <2> QED
    BY <2>1, <2>2, <2>4, QuietAnswer DEF Moves
<1>7. CASE EndBody(g)
  <2>1. Ends(g) /\ UNCHANGED <<idleConn, pconn, junk>>
    BY <1>1, <1>7, EndBodyEnds
  <2> QED
    BY <1>2, <2>1, NotAsking, QuietAnswer DEF Ends
<1>8. CASE BodyPut(g)
  <2>0. PICK c \in Conns : c = call[g].conn
    BY <1>8, UsedConn DEF BodyPut, Using
  <2>1. /\ call[g].pc = "put" /\ junk' = junk /\ Puts(g) /\ OthersConn(c)
        /\ SameQueues(pconn'[c], pconn[c]) /\ SamePlace(pconn'[c], pconn[c])
    BY <1>1, <1>8, <2>0, BodyPutDoes DEF SamePlace
  <2>2. pconn[c].rl = "waitbody"
    BY <2>0, <2>1 DEF ShareInv, BodyInv, BodyAt
  <2>3. DeliveringSame /\ \A d \in Conns : WireKeeps(d)
    BY <2>1, <2>2
    DEF DeliveringSame, Delivering, BodyComes, WireKeeps, Dead, OthersConn, SameQueues,
       SamePlace
  <2>4. \A h \in Callers : call'[h].res \in {call[h].res, "err"}
    BY <2>1 DEF Puts, OthersCall
  <2>5. OthersCall(g) /\ \A d \in Conns : ~Asked(g, d)
    BY <2>1, NotAsking DEF Puts
  <2> QED
    BY <2>1, <2>3, <2>4, <2>5, AsksByCaller, AnswerFrame
<1>9. CASE BodySignal(g)
  <2>0. PICK c \in Conns : c = call[g].conn
    BY <1>9, UsedConn DEF BodySignal, Using
  <2>1. /\ call[g].pc = "signal" /\ pconn[c].rl = "waitbody" /\ junk' = junk
        /\ Moves(g, "clear") /\ OthersConn(c)
        /\ SameQueues(pconn'[c], pconn[c]) /\ pconn'[c].rl \in {"peek", "exit"}
    BY <1>1, <1>9, <2>0, BodySignalDoes
  <2>2. DeliveringSame /\ \A d \in Conns : WireKeeps(d)
    BY <2>1
    DEF DeliveringSame, Delivering, BodyComes, WireKeeps, Dead, OthersConn, SameQueues
  <2>3. \A h \in Callers : call'[h].res \in {call[h].res, "err"}
    BY <2>1 DEF Moves, OthersCall
  <2>4. OthersCall(g) /\ \A d \in Conns : ~Asked(g, d)
    BY <2>1, NotAsking DEF Moves
  <2> QED
    BY <2>1, <2>2, <2>3, <2>4, AsksByCaller, AnswerFrame
<1>10. CASE BodyClear(g)
  <2>1. /\ call[g].pc = "clear" /\ UNCHANGED <<idleConn, pconn, junk>>
        /\ Step(g, "done", [call[g] EXCEPT !.fn = FALSE])
    BY <1>10 DEF BodyClear
  <2>2. Clears(g)
    BY <1>1, <2>1, StepClears
  <2> QED
    BY <1>2, <2>1, <2>2, NotAsking, QuietAnswer DEF Clears
<1> QED
  BY <1>3, <1>4, <1>5, <1>6, <1>7, <1>8, <1>9, <1>10 DEF CallerStep

(* Two lengths of which one is not zero and which add up to one at most. *)
LEMMA OneOfTwo == \A m, n \in Nat : m # 0 /\ (n + m <= 1 \/ m + n <= 1) => m = 1 /\ n = 0
OBVIOUS

(* A sequence without length is the empty one. *)
LEMMA NoLength == \A S : \A s \in Seq(S) : Len(s) = 0 => s = <<>>
BY EmptySeq

(* A caller that is about to write has a connection of its own, and so     *)
(* nothing else is on its way there.                                       *)
LEMMA NothingOnTheWay ==
  ASSUME ShareInv, NEW c \in Conns, WireAt(c), NEW g \in Callers, junk = 0, ~Dead(c),
         Holds(g, c), ~Asked(g, c), TypeOK
  PROVE  pconn[c].wire = <<>> /\ pconn[c].inbox = <<>>
<1>1. \A h \in Callers : ~Asked(h, c)
  BY DEF ShareInv, TokenInv, Holds, Uses, Asked
<1>2. pconn[c].wire \in Seq(Callers) /\ pconn[c].inbox \in Seq(Inbox)
  BY ConnTypes
<1>3. \A x : Asked(x, c) => x \in Callers
  BY DEF Asked
<1>4. DOMAIN pconn[c].wire = {}
  BY <1>1, <1>3 DEF WireAt
<1>5. DOMAIN pconn[c].inbox = {}
  BY <1>1, <1>3 DEF WireAt
<1>6. \A S : \A s \in Seq(S) : DOMAIN s = {} => s = <<>>
  BY EmptySeq, LenProperties
<1> QED
  BY <1>2, <1>4, <1>5, <1>6

(* A write finds nothing on the way on its connection, so the request and  *)
(* its answer are the only ones there.                                     *)
LEMMA WriteAnswer ==
  ASSUME BaseInv, ShareInv, AnswerInv, NEW g \in Callers, Write(g)
  PROVE  AnswerInv'
<1>1. TypeOK
  BY DEF BaseInv
<1>2. PICK c \in Conns : c = call[g].conn
  BY UsedConn DEF Write, Using
<1>3. /\ call[g].pc = "write" /\ junk' = junk /\ OthersConn(c)
      /\ SameLoop(pconn'[c], pconn[c]) /\ pconn'[c].inbox = pconn[c].inbox
      /\ \/ /\ Moves(g, "send")
            /\ pconn'[c].wire \in {pconn[c].wire, Append(pconn[c].wire, g)}
         \/ Fails(g) /\ pconn'[c].wire = pconn[c].wire
  BY <1>1, <1>2, WriteDoes
<1>4. \A d \in Conns : ~Asked(g, d)
  BY <1>3, NotAsking
<1>5. OthersCall(g) /\ call'[g].res \in {call[g].res, "err"}
  BY <1>3 DEF Moves, Fails
<1>6. CASE pconn'[c].wire = pconn[c].wire
  <2>1. \A d \in Conns : SameLoop(pconn'[d], pconn[d]) /\ pconn'[d].wire = pconn[d].wire
                         /\ pconn'[d].inbox = pconn[d].inbox
    BY <1>3, <1>6 DEF OthersConn, SameLoop
  <2> QED
    BY <1>3, <1>4, <1>5, <2>1, QuietAnswer
<1>7. CASE Moves(g, "send") /\ pconn'[c].wire = Append(pconn[c].wire, g)
  <2>1. DeliveringSame /\ \A d \in Conns : d # c => WireKeeps(d)
    BY <1>3
    DEF DeliveringSame, Delivering, BodyComes, SameLoop, WireKeeps, Dead, OthersConn
  <2>2. \A d \in Conns : AsksKeep(d)
    BY <1>4, <1>5, <2>1, AsksByCaller
  <2>3. \A d \in Conns : d # c => WireAt(d)'
    BY <1>3, <2>1, <2>2, WireFrame DEF AnswerInv
  <2>4. ResponseMatches'
    BY <1>3, <1>7, SMTT(30) DEF AnswerInv, ResponseMatches, Moves, OthersCall
  <2>5. WireAt(c) /\ Holds(g, c)
    BY <1>2, <1>3 DEF AnswerInv, Holds, Uses
  <2>6. Dead(c)' <=> Dead(c)
    BY <1>3 DEF Dead, SameLoop
  <2>7. ASSUME junk' = 0, ~Dead(c)'
        PROVE  /\ \A i \in DOMAIN pconn'[c].wire : pconn'[c].wire[i] = g
               /\ pconn'[c].inbox = <<>> /\ Len(pconn'[c].wire) = 1
    <3>1. pconn[c].wire = <<>> /\ pconn[c].inbox = <<>>
      BY <1>1, <1>3, <1>4, <2>5, <2>6, <2>7, NothingOnTheWay
    <3>2. pconn'[c].wire = <<g>> /\ pconn'[c].inbox = <<>>
      BY <1>3, <1>7, <3>1
    <3> QED
      BY <3>2
  <2>8. Asked(g, c)'
    BY <1>2, <1>7 DEF Asked, Moves, SameConnOf
  <2>9. WireAt(c)'
    <3>1. junk' = 0 /\ pconn'[c].rl = "deliver" =>
            /\ pconn'[c].got \in {"err", pconn'[c].cur}
            /\ pconn'[c].got = "err" => ~pconn'[c].alive
      BY <1>3, <2>5 DEF WireAt, SameLoop
    <3>2. ASSUME junk' = 0, ~Dead(c)'
          PROVE  /\ \A i \in DOMAIN pconn'[c].wire : Asked(pconn[c].wire[i], c)'
                 /\ \A i \in DOMAIN pconn'[c].inbox : Asked(pconn[c].inbox[i].of, c)'
                 /\ Len(pconn'[c].wire) + Len(pconn'[c].inbox) <= 1
      <4>1. \A i \in DOMAIN pconn'[c].wire : Asked(pconn[c].wire[i], c)'
        BY <2>7, <2>8, <3>2
      <4>2. DOMAIN pconn'[c].inbox = {} /\ Len(pconn'[c].inbox) = 0
        BY <2>7, <3>2
      <4>3. Len(pconn'[c].wire) + Len(pconn'[c].inbox) <= 1
        <5>1. Len(pconn'[c].wire) = 1 /\ Len(pconn'[c].inbox) = 0
          BY <2>7, <3>2, <4>2
        <5> QED
          BY <5>1
      <4>4. \A i \in DOMAIN pconn'[c].inbox : Asked(pconn[c].inbox[i].of, c)'
        BY <4>2
      <4> QED
        BY <4>1, <4>3, <4>4
    <3> QED
      BY <3>1, <3>2 DEF WireAt
  <2> QED
    BY <2>3, <2>4, <2>9 DEF AnswerInv
<1> QED
  BY <1>3, <1>6, <1>7

(* A step of a connection's readLoop or server: *)
SameAnswers ==
  \A h \in Callers : /\ call'[h].pc = call[h].pc /\ call'[h].conn = call[h].conn
                     /\ call'[h].res = call[h].res

(* A step of one connection changes nothing of what is asked on the others. *)
LEMMA AsksByConn ==
  ASSUME NEW c \in Conns, OthersConn(c), SameAnswers
  PROVE  /\ \A d \in Conns : d # c => AsksKeep(d)
         /\ pconn'[c].rl # "deliver" \/ SameLoop(pconn'[c], pconn[c]) => AsksKeep(c)
         /\ ResponseMatches /\ junk' = junk => ResponseMatches'
<1>1. \A d \in Conns : d # c => AsksKeep(d)
  BY DEF AsksKeep, Asked, Waits, Delivering, BodyComes, OthersConn, SameAnswers
<1>2. pconn'[c].rl # "deliver" \/ SameLoop(pconn'[c], pconn[c]) => AsksKeep(c)
  BY DEF AsksKeep, Asked, Waits, Delivering, BodyComes, SameLoop, SameAnswers
<1>3. ResponseMatches /\ junk' = junk => ResponseMatches'
  BY DEF ResponseMatches, SameAnswers
<1> QED
  BY <1>1, <1>2, <1>3

(* Answers stay right if the one connection that moved is in order. *)
LEMMA AnswerByConn ==
  ASSUME AnswerInv, NEW c \in Conns, OthersConn(c), junk' = junk, WireAt(c)',
         ResponseMatches', \A d \in Conns : d # c => AsksKeep(d)
  PROVE  AnswerInv'
<1>1. \A d \in Conns : d # c => WireKeeps(d)
  BY DEF WireKeeps, OthersConn, Dead
<1>2. \A d \in Conns : d # c => WireAt(d)'
  BY <1>1, WireFrame DEF AnswerInv
<1> QED
  BY <1>2 DEF AnswerInv

(* Without junk, what the readLoop finds in its inbox is the answer to the *)
(* request it has taken, and nothing follows it.                           *)
LEMMA OnlyItsOwn ==
  ASSUME BaseInv, ShareInv, NEW c \in Conns, WireAt(c), junk = 0,
         pconn[c].rl = "read", pconn[c].inbox # <<>>
  PROVE  /\ pconn[c].cur \in Callers /\ Head(pconn[c].inbox).of = pconn[c].cur
         /\ Tail(pconn[c].inbox) = <<>> /\ pconn[c].wire = <<>>
<1>1. ~Dead(c)
  BY DEF Dead
<1>2. pconn[c].wire \in Seq(Callers) /\ pconn[c].inbox \in Seq(Inbox)
  BY ConnTypes DEF BaseInv
<1>3. Len(pconn[c].inbox) \in Nat \ {0} /\ Len(pconn[c].wire) \in Nat
  BY <1>2, EmptySeq, LenProperties
<1>4. Len(pconn[c].inbox) = 1 /\ Len(pconn[c].wire) = 0
  <2>1. Len(pconn[c].wire) + Len(pconn[c].inbox) <= 1
    BY <1>1 DEF WireAt
  <2>2. Len(pconn[c].inbox) \in Nat /\ Len(pconn[c].inbox) # 0
    BY <1>3
  <2> QED
    BY <1>3, <2>1, <2>2, OneOfTwo
<1>5. Tail(pconn[c].inbox) = <<>> /\ pconn[c].wire = <<>>
  <2>1. Tail(pconn[c].inbox) \in Seq(Inbox) /\ Len(Tail(pconn[c].inbox)) = 0
    BY <1>2, <1>4, HeadTailProperties
  <2> QED
    BY <1>2, <1>4, <2>1, NoLength
<1>6. 1 \in DOMAIN pconn[c].inbox /\ Head(pconn[c].inbox) = pconn[c].inbox[1]
  BY <1>2, <1>4
<1>7. Asked(Head(pconn[c].inbox).of, c)
  BY <1>1, <1>6 DEF WireAt
<1>8. pconn[c].cur \in Callers /\ Waits(pconn[c].cur, c)
  BY LoopCallers DEF ShareInv, LoopInv, LoopAt
<1>9. Head(pconn[c].inbox).of = pconn[c].cur
  BY <1>7, <1>8 DEF ShareInv, TokenInv, Holds, Uses, Asked
<1> QED
  BY <1>5, <1>8, <1>9

(* The readLoop delivers what it read to the caller that asked for it. *)
LEMMA ReadLoopAnswer ==
  ASSUME BaseInv, ShareInv, AnswerInv, NEW c \in Conns, ReadLoop(c)
  PROVE  AnswerInv'
<1>1. TypeOK /\ WireAt(c)
  BY DEF BaseInv, AnswerInv
<1>2. CASE Peek(c)
  <2>1. PeekEffect(c)
    BY <1>1, <1>2, PeekDoes
  <2>2. OthersConn(c) /\ SameAnswers /\ junk' = junk
    BY <2>1 DEF PeekEffect, SameAnswers
  <2>3. WireKeeps(c) /\ pconn'[c].rl # "deliver"
    BY <2>1 DEF PeekEffect, WireKeeps, Dead, SameQueues
  <2>4. AsksKeep(c) /\ ResponseMatches' /\ \A d \in Conns : d # c => AsksKeep(d)
    BY <2>2, <2>3, AsksByConn DEF AnswerInv
  <2>5. WireAt(c)'
    BY <1>1, <2>2, <2>3, <2>4, WireFrame
  <2> QED
    BY <2>2, <2>4, <2>5, AnswerByConn
<1>3. CASE Recv(c)
  <2>1. RecvEffect(c) /\ LastClosed /\ pconn'[c].rl \in {"stuck", "read"}
    BY <1>1, <1>3, RecvDoes, RecvCloses
  <2>2. OthersConn(c) /\ SameAnswers /\ junk' = junk
    BY <2>1 DEF RecvEffect, LastClosed, SameAnswers
  <2>3. WireKeeps(c) /\ pconn'[c].rl # "deliver"
    BY <2>1 DEF RecvEffect, WireKeeps, Dead
  <2>4. AsksKeep(c) /\ ResponseMatches' /\ \A d \in Conns : d # c => AsksKeep(d)
    BY <2>2, <2>3, AsksByConn DEF AnswerInv
  <2>5. WireAt(c)'
    BY <1>1, <2>2, <2>3, <2>4, WireFrame
  <2> QED
    BY <2>2, <2>4, <2>5, AnswerByConn
<1>4. CASE ReadError(c)
  <2>1. ReadErrorEffect(c)
    BY <1>1, <1>4, ReadErrorDoes
  <2>2. OthersConn(c) /\ SameAnswers /\ junk' = junk
    BY <2>1 DEF ReadErrorEffect, SameAnswers
  <2>3. ResponseMatches' /\ \A d \in Conns : d # c => AsksKeep(d)
    BY <2>2, AsksByConn DEF AnswerInv
  <2>4. WireAt(c)'
    BY <2>1 DEF ReadErrorEffect, WireAt, Dead
  <2> QED
    BY <2>2, <2>3, <2>4, AnswerByConn
<1>5. CASE ReadResponse(c)
  <2>1. ReadResponseEffect(c) /\ (Bodyless(c) \/ WithBody(c) \/ Closing(c))
    BY <1>1, <1>5, ReadResponseDoes
  <2>2. SameAnswers
    <3>1. pconn[c].cur \in Callers
      BY <2>1, LoopCallers DEF ReadResponseEffect
    <3>2. CASE call' = call
      BY <3>2 DEF SameAnswers
    <3>3. CASE WithBody(c)
      <4>1. PICK g \in Callers : g = pconn[c].cur
        BY <3>1
      <4>2. /\ \A h \in Callers : h # g => call'[h] = call[h]
            /\ call'[g].pc = call[g].pc /\ call'[g].conn = call[g].conn
            /\ call'[g].res = call[g].res
        BY <1>1, <3>3, <4>1, SettingFn DEF WithBody, OthersCall, SameConnOf
      <4> QED
        BY <4>2 DEF SameAnswers
    <3> QED
      BY <2>1, <3>2, <3>3 DEF Bodyless, Closing
  <2>3. OthersConn(c) /\ junk' = junk
    BY <2>1 DEF ReadResponseEffect
  <2>4. ResponseMatches' /\ \A d \in Conns : d # c => AsksKeep(d)
    BY <2>2, <2>3, AsksByConn DEF AnswerInv
  <2>5. ASSUME junk' = 0
        PROVE  /\ pconn'[c].got = pconn[c].cur /\ pconn[c].cur \in Callers
               /\ pconn'[c].wire = <<>> /\ pconn'[c].inbox = <<>>
    BY <1>1, <2>1, <2>3, <2>5, OnlyItsOwn DEF ReadResponseEffect
  <2>6. WireAt(c)'
    <3>1. ASSUME junk' = 0
          PROVE  pconn'[c].got = pconn'[c].cur /\ pconn'[c].got # "err"
      BY <2>1, <2>5, <3>1, TransportAssumption DEF ReadResponseEffect
    <3>2. ASSUME junk' = 0
          PROVE  /\ DOMAIN pconn'[c].wire = {} /\ DOMAIN pconn'[c].inbox = {}
                 /\ Len(pconn'[c].wire) = 0 /\ Len(pconn'[c].inbox) = 0
      BY <2>5, <3>2
    <3>3. ASSUME junk' = 0
          PROVE  /\ \A i \in DOMAIN pconn'[c].wire : Asked(pconn[c].wire[i], c)'
                 /\ \A i \in DOMAIN pconn'[c].inbox : Asked(pconn[c].inbox[i].of, c)'
      BY <3>2, <3>3
    <3>4. ASSUME junk' = 0
          PROVE  Len(pconn'[c].wire) + Len(pconn'[c].inbox) <= 1
      <4>1. Len(pconn'[c].wire) = 0 /\ Len(pconn'[c].inbox) = 0
        BY <3>2, <3>4
      <4> QED
        BY <4>1
    <3> QED
      BY <3>1, <3>3, <3>4 DEF WireAt
  <2> QED
    BY <2>3, <2>4, <2>6, AnswerByConn
<1>6. CASE Deliver(c)
  <2>1. PICK g \in Callers : g = pconn[c].cur /\ g # "none"
    BY <1>6, LoopCallers, TransportAssumption DEF Deliver
  <2>2. DeliverEffect(c)
    BY <1>1, <1>6, <2>1, DeliverDoes
  <2>3. /\ OthersConn(c) /\ junk' = junk /\ OthersCall(g) /\ SameConnOf(g)
        /\ call'[g].pc = call[g].pc /\ call'[g].res = pconn[c].got
        /\ pconn[c].rl = "deliver" /\ SameQueues(pconn'[c], pconn[c])
        /\ pconn'[c].rl # "deliver" /\ (~pconn[c].alive => pconn'[c].rl = "exit")
    BY <2>1, <2>2 DEF DeliverEffect
  <2>4. Delivering(g, c) /\ call[g].conn = c
    BY <2>1, <2>3 DEF Delivering, BodyComes, ShareInv, LoopInv, LoopAt
  <2>5. \A d \in Conns : AsksKeep(d)
    <3> SUFFICES ASSUME NEW d \in Conns, NEW h \in Callers, Asked(h, d)
                 PROVE  Asked(h, d)'
      BY DEF AsksKeep
    <3>1. CASE h = g
      <4>1. d = c /\ call[g].pc = "send"
        BY <2>4, <3>1 DEF Asked, Waits
      <4> QED
        BY <2>3, <3>1, <4>1, <2>4 DEF Asked, SameConnOf
    <3>2. CASE h # g
      <4>1. call'[h] = call[h]
        BY <2>3, <3>2 DEF OthersCall
      <4>2. ~Delivering(h, d) => ~Delivering(h, d)'
        BY <2>3 DEF Delivering, BodyComes, OthersConn
      <4> QED
        BY <4>1, <4>2 DEF Asked, Waits
    <3> QED
      BY <3>1, <3>2
  <2>6. WireAt(c)'
    <3>1. CASE junk = 0
      <4>1. WireKeeps(c)
        BY <1>1, <2>3, <3>1 DEF WireAt, WireKeeps, Dead, SameQueues
      <4> QED
        BY <1>1, <2>3, <2>5, <4>1, WireFrame
    <3>2. CASE junk # 0
      BY <2>3, <3>2 DEF WireAt
    <3> QED
      BY <3>1, <3>2
  <2>7. ResponseMatches'
    <3>1. junk = 0 => pconn[c].got \in {"err", g}
      BY <1>1, <2>1, <2>3 DEF WireAt
    <3> QED
      BY <2>3, <3>1 DEF AnswerInv, ResponseMatches, OthersCall
  <2> QED
    BY <2>3, <2>5, <2>6, <2>7, AnswerByConn
<1> QED
  BY <1>2, <1>3, <1>4, <1>5, <1>6 DEF ReadLoop

(* The server answers in the order of the requests. *)
LEMMA ServerAnswer ==
  ASSUME BaseInv, ShareInv, AnswerInv, NEW c \in Conns, Server(c)
  PROVE  AnswerInv'
<1>1. TypeOK /\ WireAt(c) /\ ResponseMatches /\ junk \in Nat
  BY Types DEF BaseInv, AnswerInv
<1>2. CASE ServerReplies(c)
  <2>1. pconn[c].wire # <<>> /\ pconn'[c].wire = Tail(pconn[c].wire) /\ junk' = junk
    BY <1>1, <1>2, RepliesDoes
  <2>2. PICK x \in Inbox : x.of = Head(pconn[c].wire) /\ Arrives(c, x)
    BY <1>1, <1>2, RepliesDoes
  <2>3. /\ OthersConn(c) /\ SameAnswers /\ SameLoop(pconn'[c], pconn[c])
        /\ pconn'[c].inbox = Append(pconn[c].inbox, x)
    BY <2>2 DEF Arrives, SameAnswers
  <2>4. AsksKeep(c) /\ ResponseMatches' /\ \A d \in Conns : d # c => AsksKeep(d)
    BY <1>1, <2>1, <2>3, AsksByConn
  <2>5. ASSUME junk = 0, ~Dead(c)
        PROVE  /\ Asked(x.of, c)
               /\ pconn'[c].wire = <<>> /\ pconn'[c].inbox = <<x>>
    <3>1. pconn[c].wire \in Seq(Callers) /\ pconn[c].inbox \in Seq(Inbox)
      BY <1>1, ConnTypes
    <3>2. Len(pconn[c].wire) \in Nat \ {0} /\ Len(pconn[c].inbox) \in Nat
      BY <2>1, <3>1, EmptySeq, LenProperties
    <3>3. Len(pconn[c].wire) + Len(pconn[c].inbox) <= 1
      BY <1>1, <2>5 DEF WireAt
    <3>4. Len(pconn[c].wire) = 1 /\ Len(pconn[c].inbox) = 0
      <4>1. /\ Len(pconn[c].wire) \in Nat /\ Len(pconn[c].wire) # 0
            /\ Len(pconn[c].wire) + Len(pconn[c].inbox) <= 1
        BY <3>2, <3>3
      <4> QED
        BY <3>2, <4>1, OneOfTwo
    <3>5. Tail(pconn[c].wire) \in Seq(Callers) /\ Len(Tail(pconn[c].wire)) = 0
      BY <2>1, <3>1, <3>4, HeadTailProperties
    <3>6. Tail(pconn[c].wire) = <<>> /\ pconn[c].inbox = <<>>
      BY <3>1, <3>4, <3>5, NoLength
    <3>7. 1 \in DOMAIN pconn[c].wire /\ Head(pconn[c].wire) = pconn[c].wire[1]
      BY <3>1, <3>4
    <3>8. Asked(x.of, c)
      BY <1>1, <2>2, <2>5, <3>7 DEF WireAt
    <3> QED
      BY <2>1, <2>3, <3>6, <3>8
  <2>6. WireAt(c)'
    <3>1. (Dead(c)' <=> Dead(c)) /\ junk' = junk
      BY <2>1, <2>3 DEF Dead, SameLoop
    <3>2. junk' = 0 /\ pconn'[c].rl = "deliver" =>
            /\ pconn'[c].got \in {"err", pconn'[c].cur}
            /\ pconn'[c].got = "err" => ~pconn'[c].alive
      BY <1>1, <2>1, <2>3 DEF WireAt, SameLoop
    <3>3. ASSUME junk' = 0, ~Dead(c)'
          PROVE  /\ \A i \in DOMAIN pconn'[c].wire : Asked(pconn[c].wire[i], c)'
                 /\ \A i \in DOMAIN pconn'[c].inbox : Asked(pconn[c].inbox[i].of, c)'
                 /\ Len(pconn'[c].wire) + Len(pconn'[c].inbox) <= 1
      <4>1. Asked(x.of, c) /\ pconn'[c].wire = <<>> /\ pconn'[c].inbox = <<x>>
        BY <2>5, <3>1, <3>3
      <4>2. PICK h : h = x.of
        OBVIOUS
      <4>3. Asked(h, c) /\ h \in Callers
        BY <4>1, <4>2 DEF Asked
      <4>4. Asked(h, c)'
        BY <2>4, <4>3 DEF AsksKeep
      <4>5. /\ DOMAIN pconn'[c].wire = {} /\ Len(pconn'[c].wire) = 0
            /\ Len(pconn'[c].inbox) = 1
        BY <4>1
      <4>6. \A i \in DOMAIN pconn'[c].inbox : pconn'[c].inbox[i].of = h
        BY <4>1, <4>2
      <4>7. \A i \in DOMAIN pconn'[c].inbox : Asked(pconn[c].inbox[i].of, c)'
        BY <4>4, <4>6
      <4>8. \A i \in DOMAIN pconn'[c].wire : Asked(pconn[c].wire[i], c)'
        BY <4>5
      <4>9. Len(pconn'[c].wire) + Len(pconn'[c].inbox) <= 1
        BY <4>5
      <4> QED
        BY <4>7, <4>8, <4>9
    <3> QED
      BY <3>2, <3>3 DEF WireAt
  <2> QED
    BY <2>1, <2>3, <2>4, <2>6, AnswerByConn
<1>3. CASE ServerJunk(c)
  <2>1. junk' # 0
    BY <1>1, <1>3, JunkDoes
  <2> QED
    BY <2>1 DEF AnswerInv, WireAt, ResponseMatches
<1>4. CASE ServerGoes(c)
  <2>1. /\ OthersConn(c) /\ junk' = junk /\ SameAnswers
        /\ SameLoop(pconn'[c], pconn[c]) /\ SameQueues(pconn'[c], pconn[c])
    BY <1>1, <1>4, GoesDoes DEF SameAnswers
  <2>2. AsksKeep(c) /\ ResponseMatches' /\ \A d \in Conns : d # c => AsksKeep(d)
    BY <1>1, <2>1, AsksByConn
  <2>3. WireKeeps(c)
    BY <2>1 DEF WireKeeps, Dead, SameLoop, SameQueues
  <2>4. WireAt(c)'
    BY <1>1, <2>1, <2>2, <2>3, WireFrame
  <2> QED
    BY <2>1, <2>2, <2>4, AnswerByConn
<1> QED
  BY <1>2, <1>3, <1>4 DEF Server

(* A step that leaves every caller and what is on its way alone. *)
LEMMA StillAnswer ==
  ASSUME AnswerInv, call' = call, junk' = junk,
         \A c \in Conns : SameLoop(pconn'[c], pconn[c]) /\ SameQueues(pconn'[c], pconn[c])
  PROVE  AnswerInv'
<1>1. \A c \in Conns : WireKeeps(c) /\ AsksKeep(c)
  BY DEF WireKeeps, Dead, SameLoop, SameQueues, AsksKeep, Asked, Waits, Delivering,
     BodyComes
<1> QED
  BY <1>1, AnswerFrame

(* At first nothing was asked. *)
LEMMA InitAnswer == Init => AnswerInv
<1> SUFFICES ASSUME Init PROVE AnswerInv
  OBVIOUS
<1>1. \A c \in Conns : /\ pconn[c].rl = "none"
                       /\ pconn[c].wire = <<>> /\ pconn[c].inbox = <<>>
  BY DEF Init
<1>2. \A g \in Callers : call[g].res = "none"
  BY DEF Init
<1>3. ASSUME NEW c \in Conns PROVE WireAt(c)
  <2>1. /\ DOMAIN pconn[c].wire = {} /\ DOMAIN pconn[c].inbox = {}
        /\ Len(pconn[c].wire) = 0 /\ Len(pconn[c].inbox) = 0
    BY <1>1
  <2>2. Len(pconn[c].wire) + Len(pconn[c].inbox) <= 1
    BY <2>1
  <2> QED
    BY <1>1, <2>1, <2>2 DEF WireAt
<1>4. ResponseMatches
  BY <1>2 DEF ResponseMatches
<1> QED
  BY <1>3, <1>4 DEF AnswerInv

(* Every step keeps answers right. *)
LEMMA NextAnswer ==
  ASSUME BaseInv, ShareInv, AnswerInv, [Next]_vars PROVE AnswerInv'
<1>1. CASE UNCHANGED vars
  <2>1. pconn' = pconn /\ call' = call /\ junk' = junk
    BY <1>1 DEF vars
  <2>2. \A c \in Conns : SameLoop(pconn'[c], pconn[c]) /\ SameQueues(pconn'[c], pconn[c])
    BY <2>1 DEF SameLoop, SameQueues
  <2> QED
    BY <2>1, <2>2, StillAnswer
<1>2. CASE Finished
  BY <1>1, <1>2 DEF Finished
<1>3. CASE \E g \in Callers : CallerStep(g)
  BY <1>3, WriteAnswer, CallerAnswer
<1>4. CASE \E c \in Conns : ReadLoop(c) \/ Server(c)
  BY <1>4, ReadLoopAnswer, ServerAnswer
<1>5. CASE CloseIdleConnections
  <2>1. /\ call' = call
        /\ \A c \in Conns :
             SameLoop(pconn'[c], pconn[c]) /\ SameQueues(pconn'[c], pconn[c])
    BY <1>5, CloseIdleDoes DEF BaseInv
  <2>2. junk' = junk
    BY <1>5 DEF CloseIdleConnections
  <2> QED
    BY <2>1, <2>2, StillAnswer
<1> QED
  BY <1>1, <1>2, <1>3, <1>4, <1>5 DEF Next

(* A caller gets the response to its own request or an error, however      *)
(* callers, readLoops and servers interleave, connections are closed and   *)
(* requests are written to connections that are dead, until a fn runs      *)
(* twice.                                                                  *)
THEOREM ResponseMatchesHolds == Spec => [](FnAtMostOnce => ResponseMatches)
<1> DEFINE I == FnAtMostOnce => ShareInv /\ AnswerInv
<1>1. BaseInv /\ I /\ [Next]_vars => (BaseInv /\ I)'
  <2> SUFFICES ASSUME BaseInv, I, [Next]_vars PROVE (BaseInv /\ I)'
    OBVIOUS
  <2>1. BaseInv'
    BY NextBase
  <2>2. ASSUME FnAtMostOnce' PROVE ShareInv' /\ AnswerInv'
    <3>1. FnAtMostOnce
      BY <2>2, RunsGrow
    <3> QED
      BY <2>2, <3>1, NextShare, NextAnswer
  <2> QED
    BY <2>1, <2>2
<1>2. Init => BaseInv /\ I
  BY InitBase, InitShare, InitAnswer
<1>3. I => (FnAtMostOnce => ResponseMatches)
  BY DEF AnswerInv
<1> HIDE DEF I
<1> QED
  BY <1>1, <1>2, <1>3, PTL DEF Spec

-----------------------------------------------------------------------------
(* Whose a socket is.  Where replies do not ask for a close, and no TLS    *)
(* handshake and no Close of a body fails, *)
NoneLeftOpen ==
  /\ TRUE \notin ReplyCloses /\ "tls" \notin DialErrors
  /\ "closeerr" \notin BodyEnds

(* a connection that is open is in the pool or belongs to a caller that is *)
(* going to give it back.                                                  *)
Owns(g, c) == Uses(g, c) \/ Reads(g, c)

Owned(c) == InPool(c) \/ \E g \in Callers : Owns(g, c)

SockAt(c) ==
  /\ pconn[c].broken => pconn[c].sock = "closed"
  /\ pconn[c].sock = "open" => Owned(c)

SockInv == \A c \in Conns : SockAt(c)

(* What a step has to say of a connection that is open behind it. *)
SockKeeps(c) ==
  /\ pconn'[c].broken => pconn'[c].sock = "closed"
  /\ pconn'[c].sock = "open" =>
       /\ pconn[c].sock = "open" \/ Owned(c)'
       /\ InPool(c) => Owned(c)'

(* One that stays as it is. *)
LEMMA SameSockKeeps ==
  ASSUME SockInv, NEW c \in Conns, SameSock(pconn'[c], pconn[c]),
         pconn'[c].sock = "open" /\ InPool(c) => Owned(c)'
  PROVE  SockKeeps(c)
BY DEF SockInv, SockAt, SameSock, SockKeeps

(* A step of one caller. *)
LEMMA SockByCaller ==
  ASSUME SockInv, NEW g \in Callers, OthersCall(g), DeliveringSame,
         \A c \in Conns : SockKeeps(c),
         \A c \in Conns : Owns(g, c) /\ pconn'[c].sock = "open" => Owned(c)'
  PROVE  SockInv'
<1> SUFFICES ASSUME NEW c \in Conns PROVE SockAt(c)'
  BY DEF SockInv
<1>1. ASSUME NEW h \in Callers, h # g, Owns(h, c) PROVE Owned(c)'
  <2>1. call'[h] = call[h]
    BY <1>1 DEF OthersCall
  <2>2. Delivering(h, c)' <=> Delivering(h, c)
    BY DEF DeliveringSame
  <2>3. Owns(h, c)'
    BY <1>1, <2>1, <2>2 DEF Owns, Uses, Waits, Reads, Served
  <2> QED
    BY <2>3 DEF Owned
<1>2. pconn'[c].sock = "open" => Owned(c)'
  <2> SUFFICES ASSUME pconn'[c].sock = "open", ~Owned(c)' PROVE FALSE
    OBVIOUS
  <2>1. pconn[c].sock = "open" /\ ~InPool(c)
    BY DEF SockKeeps
  <2>2. PICK h \in Callers : Owns(h, c)
    BY <2>1 DEF SockInv, SockAt, Owned
  <2> QED
    BY <1>1, <2>2
<1>3. pconn'[c].broken => pconn'[c].sock = "closed"
  BY DEF SockKeeps
<1> QED
  BY <1>2, <1>3 DEF SockAt

(* One that leaves the pool and every socket alone. *)
LEMMA QuietSock ==
  ASSUME SockInv, NEW g \in Callers, OthersCall(g), DeliveringSame, idleConn' = idleConn,
         \A c \in Conns : SameSock(pconn'[c], pconn[c]),
         \A c \in Conns : Owns(g, c) => Owns(g, c)'
  PROVE  SockInv'
<1>1. \A c \in Conns : InPool(c) => Owned(c)'
  BY DEF InPool, Owned
<1>2. \A c \in Conns : SockKeeps(c)
  BY <1>1, SameSockKeeps
<1>3. \A c \in Conns : Owns(g, c) => Owned(c)'
  BY DEF Owned
<1> QED
  BY <1>2, <1>3, SockByCaller

(* A connection that leaves the pool is closed or becomes its caller's. *)
LEMMA GetIdleConnSock ==
  ASSUME BaseInv, ShareInv, SockInv, NEW g \in Callers, GetIdleConn(g)
  PROVE  SockInv'
<1>1. /\ call[g].pc = "start" /\ UNCHANGED <<pconn, junk>> /\ Shrinks
      /\ (Moves(g, "dial") /\ RemovesBroken("none")) \/ TakesFromPool(g)
  BY GetIdleConnDoes DEF BaseInv
<1>2. DeliveringSame /\ OthersCall(g) /\ \A c \in Conns : ~Owns(g, c)
  BY <1>1
  DEF DeliveringSame, Delivering, BodyComes, Moves, TakesFromPool, Gets, Owns, Uses, Waits,
     Reads, Served
<1>3. \A d \in Conns : d # "none"
  BY TransportAssumption
<1>4. ASSUME NEW c \in Conns, pconn'[c].sock = "open", InPool(c) PROVE Owned(c)'
  <2>1. ~pconn[c].broken
    BY <1>1, <1>4 DEF SockInv, SockAt
  <2>2. PICK k \in Keys : \E i \in DOMAIN idleConn[k] : idleConn[k][i] = c
    BY <1>4 DEF InPool
  <2>3. PICK i \in DOMAIN idleConn[k] : idleConn[k][i] = c
    BY <2>2
  <2>4. CASE i \in DOMAIN idleConn'[k]
    <3>1. idleConn'[k][i] = c
      BY <1>1, <2>3, <2>4 DEF Shrinks
    <3> QED
      BY <2>4, <3>1 DEF Owned, InPool
  <2>5. CASE i \notin DOMAIN idleConn'[k]
    <3>1. ~RemovesBroken("none")
      BY <1>3, <2>1, <2>3, <2>5 DEF RemovesBroken
    <3>2. PICK d \in Conns : Gets(g, d) /\ RemovesBroken(d)
      BY <1>1, <3>1 DEF TakesFromPool
    <3>3. d = c
      BY <2>1, <2>3, <2>5, <3>2 DEF RemovesBroken
    <3>4. Owns(g, c)'
      BY <3>2, <3>3 DEF Gets, Owns, Uses
    <3> QED
      BY <3>4 DEF Owned
  <2> QED
    BY <2>4, <2>5
<1>5. \A c \in Conns : SockKeeps(c)
  BY <1>1, <1>4, SameSockKeeps DEF SameSock
<1> QED
  BY <1>2, <1>5, SockByCaller

(* A dial leaves no socket behind, if none fails after the connection was  *)
(* made.                                                                   *)
LEMMA GetConnSock ==
  ASSUME NoneLeftOpen, BaseInv, ShareInv, SockInv, NEW g \in Callers, GetConn(g)
  PROVE  SockInv'
<1>1. /\ call[g].pc = "dial" /\ UNCHANGED <<idleConn, junk>>
      /\ (Fails(g) /\ UNCHANGED pconn) \/ \E c \in Conns : Dials(g, c)
  BY GetConnDoes DEF BaseInv
<1>2. \A c \in Conns : ~Owns(g, c)
  BY <1>1 DEF Owns, Uses, Waits, Reads, Served
<1>3. \A c \in Conns : InPool(c) => Owned(c)'
  BY <1>1 DEF InPool, Owned
<1>4. CASE Fails(g) /\ UNCHANGED pconn
  <2>1. \A c \in Conns : SameSock(pconn'[c], pconn[c])
    BY <1>4 DEF SameSock
  <2>2. DeliveringSame /\ OthersCall(g)
    BY <1>4 DEF DeliveringSame, Delivering, BodyComes, Fails
  <2> QED
    BY <1>1, <1>2, <2>1, <2>2, QuietSock
<1>5. ASSUME NEW c \in Conns, Dials(g, c) PROVE SockInv'
  <2>1. pconn[c].rl = "none"
    BY <1>5, Unused DEF Dials
  <2>2. OthersConn(c) /\ OthersCall(g) /\ pconn'[c].rl \in {"none", "peek"}
    BY <1>5, <2>1 DEF Dials, Gets, Fails
  <2>3. DeliveringSame
    BY <2>1, <2>2 DEF DeliveringSame, Delivering, BodyComes, OthersConn
  <2>4. ~pconn'[c].broken
    <3>1. pconn'[c].broken = pconn[c].broken /\ pconn[c].sock = "none"
      BY <1>5 DEF Dials
    <3> QED
      BY <3>1 DEF SockInv, SockAt
  <2>5. pconn'[c].sock = "open" => Owned(c)'
    <3>1. pconn'[c].sock = "open" => Gets(g, c)
      BY <1>5 DEF Dials, NoneLeftOpen
    <3>2. Gets(g, c) => Owns(g, c)'
      BY DEF Gets, Owns, Uses
    <3> QED
      BY <3>1, <3>2 DEF Owned
  <2>6. SockKeeps(c)
    BY <2>4, <2>5 DEF SockKeeps
  <2>7. \A d \in Conns : d # c => SockKeeps(d)
    BY <1>3, <2>2, SameSockKeeps DEF OthersConn, SameSock
  <2>8. \A d \in Conns : SockKeeps(d)
    BY <2>6, <2>7
  <2> QED
    BY <1>2, <2>2, <2>3, <2>8, SockByCaller
<1> QED
  BY <1>1, <1>4, <1>5

(* In a pool that grows, *)
LEMMA GrownPool ==
  ASSUME TypeOK, NEW c \in Conns, NEW k \in Keys, Grows(c, k)
  PROVE  (\A d \in Conns : InPool(d) => InPool(d)') /\ InPool(c)'
<1>1. \A d \in Conns : InPool(d) => InPool(d)'
  BY DEF Grows, InPool
<1>2. InPool(c)'
  <2>1. PICK i : i = Len(idleConn[k]) + 1 /\ i \in DOMAIN idleConn'[k]
    BY DEF Grows
  <2>2. i \notin DOMAIN idleConn[k]
    BY <2>1, PoolTypes
  <2>3. idleConn'[k][i] = c
    BY <2>1, <2>2 DEF Grows
  <2> QED
    BY <2>1, <2>3 DEF InPool
<1> QED
  BY <1>1, <1>2

(* roundTrip counts up or down. *)
LEMMA CountsDoes ==
  ASSUME BaseInv, NEW g \in Callers, Expect(g) \/ Receive(g)
  PROVE  /\ UNCHANGED <<idleConn, junk>>
         /\ \A d \in Conns : SameSock(pconn'[d], pconn[d]) /\ SameLoop(pconn'[d], pconn[d])
         /\ \/ call[g].pc = "begin" /\ Moves(g, "write")
            \/ /\ call[g].pc = "await" /\ call[g].res # "none"
               /\ \/ call[g].body /\ Moves(g, "body")
                  \/ ~call[g].body /\ Moves(g, "done")
<1>1. TypeOK /\ call[g].pc \in Using /\ UNCHANGED <<idleConn, junk>>
  BY DEF BaseInv, Expect, Receive, Using
<1>2. PICK c \in Conns : c = call[g].conn
  BY <1>1, UsedConn
<1>3. PICK n \in Int : pconn' = [pconn EXCEPT ![c].expected = n]
  <2>1. pconn[c].expected + 1 \in Int /\ pconn[c].expected - 1 \in Int
    BY <1>1, ConnTypes
  <2> QED
    BY <1>2, <2>1 DEF Expect, Receive
<1>4. n \in Nat
  <2>1. pconn'[c] \in ConnRecs
    <3>1. BaseInv'
      BY ExpectBase, ReceiveBase
    <3> QED
      BY <3>1 DEF BaseInv, TypeOK, ConnRecs, Inbox
  <2>2. pconn'[c].expected = n
    BY <1>1, <1>3, Types DEF ConnRecs
  <2> QED
    BY <2>1, <2>2 DEF ConnRecs
<1>5. /\ OthersConn(c) /\ SameSock(pconn'[c], pconn[c]) /\ SameLoop(pconn'[c], pconn[c])
  BY <1>1, <1>3, <1>4, Counting
<1>6. \A d \in Conns : SameSock(pconn'[d], pconn[d]) /\ SameLoop(pconn'[d], pconn[d])
  BY <1>5 DEF OthersConn, SameSock, SameLoop
<1>7. {"write", "body", "done"} \subseteq CallerPlaces
  BY DEF CallerPlaces
<1>8. CASE Expect(g)
  <2>1. call[g].pc = "begin" /\ Step(g, "write", call[g])
    BY <1>8 DEF Expect
  <2> QED
    BY <1>1, <1>6, <1>7, <2>1, StepMoves
<1>9. CASE Receive(g)
  <2>1. /\ call[g].pc = "await" /\ call[g].res # "none"
        /\ \/ call[g].body /\ Step(g, "body", call[g])
           \/ ~call[g].body /\ Step(g, "done", call[g])
    BY <1>9 DEF Receive
  <2> QED
    BY <1>1, <1>6, <1>7, <2>1, StepMoves
<1> QED
  BY <1>8, <1>9

(* Every step of a caller leaves each open socket with an owner. *)
LEMMA CallerSock ==
  ASSUME NoneLeftOpen, BaseInv, ShareInv, SockInv, NEW g \in Callers, CallerStep(g)
  PROVE  SockInv'
<1>1. TypeOK
  BY DEF BaseInv
<1>2. CASE GetIdleConn(g) \/ GetConn(g)
  BY <1>2, GetIdleConnSock, GetConnSock
<1>3. CASE Expect(g) \/ Receive(g)
  <2>1. /\ idleConn' = idleConn /\ OthersCall(g) /\ SameConnOf(g)
        /\ call'[g].fn = call[g].fn
        /\ \A d \in Conns : SameSock(pconn'[d], pconn[d]) /\ SameLoop(pconn'[d], pconn[d])
        /\ \/ call[g].pc = "begin" /\ call'[g].pc = "write"
           \/ /\ call[g].pc = "await" /\ call[g].res # "none"
              /\ call[g].body => call'[g].pc = "body"
    BY <1>3, CountsDoes DEF Moves
  <2>2. DeliveringSame
    BY <2>1, SMTT(30) DEF DeliveringSame, Delivering, BodyComes, SameLoop
  <2>3. call[g].pc = "await" /\ call[g].res # "none" /\ call[g].fn => call[g].body
    <3> SUFFICES ASSUME call[g].pc = "await", call[g].res # "none", call[g].fn
                 PROVE  call[g].body
      OBVIOUS
    <3>1. PICK c \in Conns : c = call[g].conn
      BY UsedConn DEF Using
    <3>2. BodyAt(g) /\ LoopAt(c)
      BY DEF ShareInv, BodyInv, LoopInv
    <3> QED
      BY <3>1, <3>2 DEF BodyAt, LoopAt
  <2>4. \A d \in Conns : Owns(g, d) => Owns(g, d)'
    BY <2>1, <2>3 DEF Owns, Uses, Waits, Reads, Served, SameConnOf
  <2> QED
    BY <2>1, <2>2, <2>4, QuietSock
<1>4. CASE Write(g)
  <2>1. PICK c \in Conns : c = call[g].conn
    BY <1>4, UsedConn DEF Write, Using
  <2>2. /\ call[g].pc = "write" /\ idleConn' = idleConn /\ OthersConn(c) /\ OthersCall(g)
        /\ SameLoop(pconn'[c], pconn[c])
        /\ \/ Moves(g, "send") /\ SameSock(pconn'[c], pconn[c])
           \/ Fails(g) /\ Closed(pconn'[c], pconn[c])
    BY <1>1, <1>4, <2>1, WriteDoes DEF Moves, Fails
  <2>3. DeliveringSame
    BY <2>2 DEF DeliveringSame, Delivering, BodyComes, SameLoop, OthersConn
  <2>4. \A d \in Conns : InPool(d) => Owned(d)'
    BY <2>2 DEF InPool, Owned
  <2>5. \A d \in Conns : SameSock(pconn'[d], pconn[d]) \/ (d = c /\ Closed(pconn'[d], pconn[d]))
    BY <2>2 DEF OthersConn, SameSock
  <2>6. \A d \in Conns : SockKeeps(d)
    BY <2>4, <2>5, SameSockKeeps DEF SockKeeps, Closed
  <2>7. \A d \in Conns : Owns(g, d) /\ pconn'[d].sock = "open" => Owned(d)'
    <3> SUFFICES ASSUME NEW d \in Conns, Owns(g, d), pconn'[d].sock = "open"
                 PROVE  Owns(g, d)'
      BY DEF Owned
    <3>1. d = c
      BY <2>1 DEF Owns, Uses, Waits, Reads, Served
    <3>2. Moves(g, "send")
      BY <2>2, <3>1 DEF Closed
    <3> QED
      BY <2>1, <3>1, <3>2 DEF Moves, SameConnOf, Owns, Uses
  <2> QED
    BY <2>2, <2>3, <2>6, <2>7, SockByCaller
<1>5. CASE Send(g)
  <2>1. PICK c \in Conns : c = call[g].conn
    BY <1>5, UsedConn DEF Send, Using
  <2>2. /\ call[g].pc = "send" /\ idleConn' = idleConn /\ Moves(g, "await") /\ OthersConn(c)
        /\ SameSock(pconn'[c], pconn[c]) /\ SameLoop(pconn'[c], pconn[c])
    BY <1>1, <1>5, <2>1, SendDoes
  <2>3. \A d \in Conns : SameSock(pconn'[d], pconn[d]) /\ SameLoop(pconn'[d], pconn[d])
    BY <2>2 DEF OthersConn, SameSock, SameLoop
  <2>4. DeliveringSame
    BY <2>3 DEF DeliveringSame, Delivering, BodyComes, SameLoop
  <2>5. call[g].res = "none" /\ \A d \in Conns : ~Delivering(g, d)
    BY <2>2 DEF ShareInv, BodyInv, BodyAt, Early, LoopInv, LoopAt, Delivering, BodyComes
  <2>6. \A d \in Conns : Owns(g, d) => Owns(g, d)'
    BY <2>2, <2>4, <2>5
    DEF DeliveringSame, Owns, Uses, Waits, Reads, Served, Moves, SameConnOf
  <2> QED
    BY <2>2, <2>3, <2>4, <2>6, QuietSock DEF Moves
<1>6. CASE EndBody(g)
  <2>1. Ends(g) /\ UNCHANGED <<idleConn, pconn>>
    BY <1>1, <1>6, EndBodyEnds
  <2>2. DeliveringSame /\ \A d \in Conns : SameSock(pconn'[d], pconn[d])
    BY <2>1 DEF DeliveringSame, Delivering, BodyComes, SameSock
  <2>3. \A d \in Conns : Owns(g, d) => Owns(g, d)'
    BY <2>1 DEF Ends, NoneLeftOpen, Owns, Uses, Waits, Reads, Served, SameConnOf
  <2> QED
    BY <2>1, <2>2, <2>3, QuietSock DEF Ends
<1>7. CASE BodyPut(g)
  <2>1. PICK c \in Conns : c = call[g].conn
    BY <1>7, UsedConn DEF BodyPut, Using
  <2>2. /\ call[g].pc = "put" /\ Puts(g) /\ OthersConn(c)
        /\ SamePlace(pconn'[c], pconn[c])
        /\ Refuses(c, pconn[c]) \/ Accepts(c, pconn[c])
    BY <1>1, <1>7, <2>1, BodyPutDoes DEF SamePlace
  <2>3. OthersCall(g) /\ DeliveringSame
    BY <2>2 DEF Puts, DeliveringSame, Delivering, BodyComes, OthersConn, SamePlace
  <2>4. CASE Refuses(c, pconn[c])
    <3>1. \A d \in Conns : InPool(d) => Owned(d)'
      BY <2>4 DEF Refuses, InPool, Owned
    <3>2. pconn'[c].sock = "closed" /\ pconn'[c].broken
      BY <2>4 DEF Refuses, SockInv, SockAt
    <3>3. \A d \in Conns : SockKeeps(d)
      BY <2>2, <3>1, <3>2, SameSockKeeps DEF OthersConn, SameSock, SockKeeps
    <3>4. \A d \in Conns : Owns(g, d) /\ pconn'[d].sock = "open" => Owned(d)'
      BY <2>1, <3>2 DEF Owns, Uses, Waits, Reads, Served
    <3> QED
      BY <2>3, <3>3, <3>4, SockByCaller
  <2>5. CASE Accepts(c, pconn[c])
    <3>1. PICK k \in Keys : Grows(c, k)
      BY <1>1, <2>5, ConnTypes, KeyOfMethod, AcceptsGrows
    <3>2. (\A d \in Conns : InPool(d) => InPool(d)') /\ InPool(c)'
      BY <1>1, <3>1, GrownPool
    <3>3. \A d \in Conns : SameSock(pconn'[d], pconn[d])
      BY <2>2, <2>5 DEF Accepts, OthersConn, SameSock
    <3>4. \A d \in Conns : SockKeeps(d)
      BY <3>2, <3>3, SameSockKeeps DEF Owned
    <3>5. \A d \in Conns : Owns(g, d) => Owned(d)'
      BY <2>1, <3>2 DEF Owns, Uses, Waits, Reads, Served, Owned
    <3> QED
      BY <2>3, <3>4, <3>5, SockByCaller
  <2> QED
    BY <2>2, <2>4, <2>5
<1>8. CASE BodySignal(g)
  <2>1. PICK c \in Conns : c = call[g].conn
    BY <1>8, UsedConn DEF BodySignal, Using
  <2>2. /\ call[g].pc = "signal" /\ pconn[c].rl = "waitbody" /\ idleConn' = idleConn
        /\ OthersCall(g) /\ OthersConn(c)
        /\ SameSock(pconn'[c], pconn[c]) /\ pconn'[c].rl \in {"peek", "exit"}
    BY <1>1, <1>8, <2>1, BodySignalDoes DEF Moves
  <2>3. DeliveringSame
    BY <2>2 DEF DeliveringSame, Delivering, BodyComes, OthersConn
  <2>4. \A d \in Conns : ~Owns(g, d) /\ SameSock(pconn'[d], pconn[d])
    BY <2>2 DEF Owns, Uses, Waits, Reads, Served, OthersConn, SameSock
  <2> QED
    BY <2>2, <2>3, <2>4, QuietSock
<1>9. CASE BodyClear(g)
  <2>1. /\ call[g].pc = "clear" /\ UNCHANGED <<idleConn, pconn, junk>>
        /\ Step(g, "done", [call[g] EXCEPT !.fn = FALSE])
    BY <1>9 DEF BodyClear
  <2>2. OthersCall(g)
    BY <1>1, <2>1, StepClears DEF Clears
  <2>3. DeliveringSame
    BY <2>1 DEF DeliveringSame, Delivering, BodyComes
  <2>4. \A d \in Conns : ~Owns(g, d) /\ SameSock(pconn'[d], pconn[d])
    BY <2>1 DEF Owns, Uses, Waits, Reads, Served, SameSock
  <2> QED
    BY <2>1, <2>2, <2>3, <2>4, QuietSock
<1> QED
  BY <1>2, <1>3, <1>4, <1>5, <1>6, <1>7, <1>8, <1>9 DEF CallerStep

(* A step of one connection's readLoop or server. *)
LEMMA SockByConn ==
  ASSUME SockInv, NEW c \in Conns, OthersConn(c), SockKeeps(c),
         \A h \in Callers : /\ call'[h].pc = call[h].pc /\ call'[h].conn = call[h].conn
                            /\ call[h].fn => call'[h].fn
                            /\ call'[h].res = call[h].res \/ ~Waits(h, call[h].conn),
         \A d \in Conns : InPool(d) => Owned(d)',
         pconn'[c].sock = "open" =>
           \A h \in Callers : Owns(h, c) => Owned(c)'
  PROVE  SockInv'
<1>1. ASSUME NEW d \in Conns, d # c, pconn'[d].sock = "open" PROVE Owned(d)'
  <2>1. pconn'[d] = pconn[d]
    BY <1>1 DEF OthersConn
  <2>2. Owned(d)
    BY <1>1, <2>1 DEF SockInv, SockAt
  <2>3. ASSUME NEW h \in Callers, Owns(h, d) PROVE Owns(h, d)'
    BY <2>1, <2>3 DEF Owns, Uses, Waits, Reads, Served, Delivering, BodyComes
  <2> QED
    BY <2>2, <2>3 DEF Owned
<1>2. pconn'[c].sock = "open" => Owned(c)'
  BY DEF SockKeeps, SockInv, SockAt, Owned
<1>3. \A d \in Conns : pconn'[d].broken => pconn'[d].sock = "closed"
  BY DEF OthersConn, SockInv, SockAt, SockKeeps
<1> QED
  BY <1>1, <1>2, <1>3 DEF SockInv, SockAt

(* The readLoop hands an open socket to the pool or to a reader, or closes *)
(* it.                                                                     *)
LEMMA ReadLoopSock ==
  ASSUME NoneLeftOpen, FnAtMostOnce', BaseInv, ShareInv, SockInv, NEW c \in Conns,
         ReadLoop(c)
  PROVE  SockInv'
<1>1. TypeOK /\ LoopAt(c)
  BY DEF BaseInv, ShareInv, LoopInv
<1>2. idleConn' = idleConn => \A d \in Conns : InPool(d) => Owned(d)'
  BY DEF InPool, Owned
<1>3. CASE Peek(c)
  <2>1. /\ OthersConn(c) /\ idleConn' = idleConn /\ call' = call
        /\ pconn'[c].rl \in {"exit", "recv"}
        /\ Closed(pconn'[c], pconn[c]) \/ SameSock(pconn'[c], pconn[c])
    BY <1>1, <1>3, PeekDoes DEF PeekEffect
  <2>2. SockKeeps(c)
    BY <1>2, <2>1, SameSockKeeps DEF SockKeeps, Closed
  <2>3. \A h \in Callers : Owns(h, c) => Owned(c)'
    BY <2>1 DEF Owns, Uses, Waits, Reads, Served, Delivering, BodyComes, Owned
  <2> QED
    BY <1>2, <2>1, <2>2, <2>3, SockByConn
<1>4. CASE Recv(c)
  <2>1. RecvEffect(c) /\ LastClosed
    BY <1>1, <1>4, RecvDoes, RecvCloses
  <2>2. ~RunsAgain(c)
    BY <1>4, RunsNot
  <2>3. pconn'[c].rl = "read" /\ idleConn' = idleConn /\ SameSock(pconn'[c], pconn[c])
    BY <1>1, <1>4, <2>2, RecvDoes
  <2>4. SockKeeps(c)
    BY <1>2, <2>3, SameSockKeeps
  <2>5. /\ OthersConn(c)
        /\ \A h \in Callers : /\ call'[h].pc = call[h].pc /\ call'[h].conn = call[h].conn
                              /\ call'[h].fn = call[h].fn /\ call'[h].res = call[h].res
    BY <2>1 DEF RecvEffect, LastClosed
  <2>6. \A h \in Callers : Owns(h, c) => Owned(c)'
    BY <2>3, <2>5 DEF Owns, Uses, Waits, Reads, Served, Delivering, BodyComes, Owned
  <2> QED
    BY <1>2, <2>3, <2>4, <2>5, <2>6, SockByConn
<1>5. CASE ReadError(c)
  <2>1. /\ OthersConn(c) /\ idleConn' = idleConn /\ call' = call
        /\ Closed(pconn'[c], pconn[c])
    BY <1>1, <1>5, ReadErrorDoes DEF ReadErrorEffect
  <2>2. SockKeeps(c) /\ pconn'[c].sock # "open"
    BY <2>1 DEF SockKeeps, Closed
  <2> QED
    BY <1>2, <2>1, <2>2, SockByConn
<1>6. CASE ReadResponse(c)
  <2>1. ReadResponseEffect(c) /\ (Bodyless(c) \/ WithBody(c) \/ Closing(c))
    BY <1>1, <1>6, ReadResponseDoes
  <2>2. OthersConn(c)
    BY <2>1 DEF ReadResponseEffect
  <2>3. PICK g \in Callers : g = pconn[c].cur
    BY <2>1, LoopCallers DEF ReadResponseEffect
  <2>4. Waits(g, c)
    BY <1>1, <2>1, <2>3 DEF ReadResponseEffect, LoopAt
  <2>5. CASE Bodyless(c)
    <3>1. PICK p \in ConnRecs : SameSock(p, pconn[c]) /\ (Refuses(c, p) \/ Accepts(c, p))
      BY <2>5 DEF Bodyless
    <3>2. call' = call
      BY <2>5 DEF Bodyless
    <3>3. CASE Refuses(c, p)
      <4>1. pconn'[c].sock = "closed" /\ idleConn' = idleConn
        BY <3>1, <3>3 DEF Refuses, SockInv, SockAt, SameSock
      <4>2. SockKeeps(c) /\ pconn'[c].sock # "open"
        BY <4>1 DEF SockKeeps
      <4> QED
        BY <1>2, <2>2, <3>2, <4>1, <4>2, SockByConn
    <3>4. CASE Accepts(c, p)
      <4>1. PICK k \in Keys : Grows(c, k)
        BY <1>1, <3>4, KeyOfMethod, AcceptsGrows DEF ConnRecs
      <4>2. (\A d \in Conns : InPool(d) => InPool(d)') /\ InPool(c)'
        BY <1>1, <4>1, GrownPool
      <4>3. SameSock(pconn'[c], pconn[c])
        BY <3>1, <3>4 DEF Accepts, SameSock
      <4>4. (\A d \in Conns : InPool(d) => Owned(d)') /\ Owned(c)'
        BY <4>2 DEF Owned
      <4>5. SockKeeps(c)
        BY <4>3, <4>4, SameSockKeeps
      <4> QED
        BY <2>2, <3>2, <4>4, <4>5, SockByConn
    <3> QED
      BY <3>1, <3>3, <3>4
  <2>6. CASE WithBody(c)
    <3>1. /\ OthersCall(g) /\ SameConnOf(g) /\ call'[g].pc = call[g].pc
          /\ call'[g].res = call[g].res /\ call'[g].fn
      BY <1>1, <2>3, <2>6, SettingFn DEF WithBody
    <3>2. \A h \in Callers : /\ call'[h].pc = call[h].pc /\ call'[h].conn = call[h].conn
                             /\ call[h].fn => call'[h].fn
                             /\ call'[h].res = call[h].res
      BY <3>1 DEF OthersCall, SameConnOf
    <3>3. Owned(c)'
      BY <2>4, <3>1 DEF Waits, SameConnOf, Owned, Owns, Reads, Served
    <3>4. SockKeeps(c) /\ idleConn' = idleConn
      BY <2>6, <3>3, SameSockKeeps DEF WithBody
    <3> QED
      BY <1>2, <2>2, <3>2, <3>3, <3>4, SockByConn
  <2>7. CASE Closing(c)
    <3>1. pconn[c].inbox # <<>> /\ pconn[c].inbox \in Seq(Inbox)
      BY <1>1, <2>1, ConnTypes DEF ReadResponseEffect
    <3>2. 1 \in DOMAIN pconn[c].inbox /\ pconn[c].inbox[1] = Head(pconn[c].inbox)
      BY <3>1
    <3> QED
      BY <1>1, <2>7, <3>2 DEF Closing, LoopAt, NoneLeftOpen
  <2> QED
    BY <2>1, <2>5, <2>6, <2>7
<1>7. CASE Deliver(c)
  <2>1. PICK g \in Callers : g = pconn[c].cur /\ g # "none"
    BY <1>7, LoopCallers, TransportAssumption DEF Deliver
  <2>2. DeliverEffect(c)
    BY <1>1, <1>7, <2>1, DeliverDoes
  <2>3. /\ OthersConn(c) /\ idleConn' = idleConn /\ OthersCall(g) /\ SameConnOf(g)
        /\ call'[g].pc = call[g].pc /\ call'[g].fn = call[g].fn
        /\ pconn[c].rl = "deliver" /\ SameSock(pconn'[c], pconn[c])
        /\ pconn'[c].rl # "deliver"
    BY <2>1, <2>2 DEF DeliverEffect
  <2>4. Delivering(g, c) /\ call[g].conn = c /\ call[g].pc = "await"
    BY <1>1, <2>1, <2>3 DEF Delivering, BodyComes, LoopAt
  <2>5. \A h \in Callers : /\ call'[h].pc = call[h].pc /\ call'[h].conn = call[h].conn
                           /\ call'[h].fn = call[h].fn
                           /\ call'[h].res = call[h].res \/ ~Waits(h, call[h].conn)
    BY <2>3, <2>4 DEF OthersCall, SameConnOf, Waits
  <2>6. SockKeeps(c)
    BY <1>2, <2>3, SameSockKeeps
  <2>7. ASSUME NEW h \in Callers, Owns(h, c) PROVE Owned(c)'
    <3>1. ~Delivering(h, c)'
      BY <2>3 DEF Delivering, BodyComes
    <3>2. Uses(h, c) => Uses(h, c)'
      BY <2>5, <3>1 DEF Uses, Waits
    <3>3. Reads(h, c) => Reads(h, c)'
      BY <2>5 DEF Reads, Served
    <3> QED
      BY <2>7, <3>2, <3>3 DEF Owns, Owned
  <2> QED
    BY <1>2, <2>3, <2>5, <2>6, <2>7, SockByConn
<1> QED
  BY <1>3, <1>4, <1>5, <1>6, <1>7 DEF ReadLoop

(* The server opens and closes none of the proxy's sockets. *)
LEMMA ServerSock ==
  ASSUME TypeOK, SockInv, NEW c \in Conns, Server(c)
  PROVE  SockInv'
<1>1. /\ OthersConn(c) /\ UNCHANGED <<idleConn, call>>
      /\ SameSock(pconn'[c], pconn[c]) /\ SameLoop(pconn'[c], pconn[c])
  BY RepliesDoes, JunkDoes, GoesDoes DEF Server, Arrives
<1>2. \A d \in Conns : InPool(d) => Owned(d)'
  BY <1>1 DEF InPool, Owned
<1>3. \A h \in Callers : Owns(h, c) => Owned(c)'
  BY <1>1 DEF Owns, Uses, Waits, Reads, Served, Delivering, BodyComes, SameLoop, Owned
<1>4. SockKeeps(c)
  BY <1>1, <1>2, SameSockKeeps
<1> QED
  BY <1>1, <1>2, <1>3, <1>4, SockByConn

(* CloseIdleConnections closes every socket it takes out of the pool. *)
LEMMA CloseIdleSock ==
  ASSUME TypeOK, SockInv, CloseIdleConnections PROVE SockInv'
<1>1. /\ call' = call
      /\ \A c \in Conns :
           /\ SameLoop(pconn'[c], pconn[c])
           /\ InPool(c) => Closed(pconn'[c], pconn[c])
           /\ ~InPool(c) => SameSock(pconn'[c], pconn[c])
  BY CloseIdleDoes
<1> SUFFICES ASSUME NEW c \in Conns PROVE SockAt(c)'
  BY DEF SockInv
<1>2. CASE InPool(c)
  BY <1>1, <1>2 DEF SockAt, Closed
<1>3. CASE ~InPool(c)
  <2>1. pconn[c].sock = "open" => \E g \in Callers : Owns(g, c)
    BY <1>3 DEF SockInv, SockAt, Owned
  <2>2. \A g \in Callers : Owns(g, c) => Owns(g, c)'
    BY <1>1 DEF Owns, Uses, Waits, Reads, Served, Delivering, BodyComes, SameLoop
  <2> QED
    BY <1>1, <1>3, <2>1, <2>2 DEF SockInv, SockAt, SameSock, Owned
<1> QED
  BY <1>2, <1>3

(* Every step leaves each open socket with an owner. *)
LEMMA NextSock ==
  ASSUME NoneLeftOpen, FnAtMostOnce', BaseInv, ShareInv, SockInv, [Next]_vars
  PROVE  SockInv'
<1>1. CASE UNCHANGED vars
  <2>1. idleConn' = idleConn /\ pconn' = pconn /\ call' = call
    BY <1>1 DEF vars
  <2>2. \A c \in Conns : Owned(c)' <=> Owned(c)
    BY <2>1 DEF Owned, InPool, Owns, Uses, Waits, Reads, Served, Delivering, BodyComes
  <2> QED
    BY <2>1, <2>2 DEF SockInv, SockAt
<1>2. CASE Finished
  BY <1>1, <1>2 DEF Finished
<1>3. CASE \E g \in Callers : CallerStep(g)
  BY <1>3, CallerSock
<1>4. CASE \E c \in Conns : ReadLoop(c) \/ Server(c)
  BY <1>4, ReadLoopSock, ServerSock DEF BaseInv
<1>5. CASE CloseIdleConnections
  BY <1>5, CloseIdleSock DEF BaseInv
<1> QED
  BY <1>1, <1>2, <1>3, <1>4, <1>5 DEF Next

(* No socket is lost: where no reply asks for a close and no TLS handshake *)
(* and no Close of a body fails, a connection that is open is in the pool  *)
(* or its caller has not finished, until a fn runs twice.                  *)
THEOREM SocketsAccountedHolds ==
  ASSUME NoneLeftOpen PROVE Spec => [](FnAtMostOnce => SocketsAccounted)
<1> DEFINE I == FnAtMostOnce => ShareInv /\ SockInv
<1>1. Init => BaseInv /\ I
  <2> SUFFICES ASSUME Init PROVE BaseInv /\ ShareInv /\ SockInv
    OBVIOUS
  <2>1. \A c \in Conns : pconn[c].sock = "none" /\ ~pconn[c].broken
    BY DEF Init
  <2> QED
    BY <2>1, InitBase, InitShare DEF SockInv, SockAt
<1>2. BaseInv /\ I /\ [Next]_vars => (BaseInv /\ I)'
  <2> SUFFICES ASSUME BaseInv, I, [Next]_vars PROVE (BaseInv /\ I)'
    OBVIOUS
  <2>1. BaseInv'
    BY NextBase
  <2>2. ASSUME FnAtMostOnce' PROVE ShareInv' /\ SockInv'
    <3>1. FnAtMostOnce
      BY <2>2, RunsGrow
    <3> QED
      BY <2>2, <3>1, NextShare, NextSock
  <2> QED
    BY <2>1, <2>2
<1>3. SockInv => SocketsAccounted
  <2> SUFFICES ASSUME SockInv, NEW c \in Conns, pconn[c].sock = "open"
               PROVE  \/ Pooled(c) # {}
                      \/ \E g \in Callers : call[g].conn = c /\ call[g].pc # "done"
    BY DEF SocketsAccounted
  <2>1. ASSUME InPool(c) PROVE Pooled(c) # {}
    <3>1. PICK k \in Keys : \E i \in DOMAIN idleConn[k] : idleConn[k][i] = c
      BY <2>1 DEF InPool
    <3>2. PICK i \in DOMAIN idleConn[k] : idleConn[k][i] = c
      BY <3>1
    <3>3. <<k, i>> \in {<<k, j>> : j \in {l \in DOMAIN idleConn[k] : idleConn[k][l] = c}}
      BY <3>2
    <3>4. <<k, i>> \in Pooled(c)
      BY <3>3 DEF Pooled
    <3> QED
      BY <3>4
  <2>2. \A g \in Callers : Owns(g, c) => call[g].conn = c /\ call[g].pc # "done"
    BY DEF Owns, Uses, Waits, Reads, Served
  <2> QED
    BY <2>1, <2>2 DEF SockInv, SockAt, Owned
<1>4. I => (FnAtMostOnce => SocketsAccounted)
  BY <1>3
<1> HIDE DEF I
<1> QED
  BY <1>1, <1>2, <1>4, PTL DEF Spec

=============================================================================
