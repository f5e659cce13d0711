------------------------------ MODULE MitmLoop ------------------------------
(***************************************************************************)
(* The wire side of the two man-in-the-middle loops of handleHttps         *)
(* (https.go) and of the chunked writer (chunked.go): how the requests of  *)
(* one client are cut out of its byte stream, and what that client can     *)
(* make of the replies: those of the TLS loop are put together write by    *)
(* write, those of the HTTP loop by resp.Write, with httpError behind them *)
(* when it fails.  Module Proxy has the handlers, the contexts and the     *)
(* bodies of the same loops.                                               *)
(*                                                                         *)
(* Loop "tls" keeps one reader for the connection, loop "http" makes a new *)
(* one for every request.  A request is a head and, for a POST, a body; a  *)
(* response body is what its reads return: full and empty ones, and an     *)
(* end or an error.                                                        *)
(***************************************************************************)
EXTENDS Integers, Sequences, FiniteSets

CONSTANTS Loops,    \* the loops to look at
          MaxReqs,  \* bound: requests the client sends
          MaxReads, \* bound: reads of one response body
          BufSize   \* what the reader takes from the connection at once

ASSUME MitmLoopAssumption ==
  /\ Loops \subseteq {"tls", "http"}
  /\ MaxReqs \in Nat /\ MaxReads \in Nat /\ BufSize \in Nat \ {0}

VARIABLES loop,    \* which loop this is
          pc,      \* where it is
          wire,    \* sent by the client, not yet read from the connection
          buf,     \* what the reader holds
          cur,     \* the request being served
          body,    \* reads of the response body still to come
          broken,  \* whether the body ends in an error
          client,  \* the client: what it has sent, how it is doing
          seen,    \* the client's decoder of replies
          served,  \* history: requests the loop has read
          made,    \* history: the reply the handlers made to each
          slips    \* history: what the client or a handler did out of turn

vars == <<loop, pc, wire, buf, cur, body, broken, client, seen, served, made,
          slips>>

Kinds == {"GET", "POST", "HEAD", "UPGRADE"}
Requests == [no : 1..MaxReqs, kind : Kinds]
Tokens == [part : {"head", "body"}, req : Requests]
None == [no |-> 0, kind |-> "GET"]

-----------------------------------------------------------------------------
(* The client's side: it knows which replies it expects and reads them     *)
(* token by token.  After a 204 or 304 and after a HEAD it expects no      *)
(* body, after anything else the chunks up to the last one.                *)
Status == {"status", "bodyless"}

Bodyless(d) == d.code = "bodyless" \/ client.sent[Len(d.done) + 1].kind = "HEAD"

Complete(d) == [d EXCEPT !.at = "status", !.got = 0,
                         !.done = Append(@, d.got)]

Decode(d, token) ==
  CASE d.at = "status" /\ token \in Status ->
         [d EXCEPT !.at = "header", !.code = token]
    [] d.at = "header" /\ token = "header" -> [d EXCEPT !.at = "blank"]
    [] d.at = "blank" /\ token = "crlf" ->
         IF Bodyless(d) THEN Complete(d) ELSE [d EXCEPT !.at = "size"]
    [] d.at = "size" /\ token = "size" -> [d EXCEPT !.at = "data"]
    [] d.at = "data" /\ token = "data" -> [d EXCEPT !.at = "crlf", !.got = @ + 1]
    [] d.at = "crlf" /\ token = "crlf" -> [d EXCEPT !.at = "size"]
    [] d.at = "size" /\ token = "0" -> [d EXCEPT !.at = "end"]
    [] d.at = "end" /\ token = "crlf" -> Complete(d)
    [] OTHER -> [d EXCEPT !.at = "lost"]

ClientSends ==
  /\ client.open /\ ~client.owes /\ Len(client.sent) < MaxReqs
  /\ \E k \in Kinds :
       LET req == [no |-> Len(client.sent) + 1, kind |-> k]
       IN  /\ wire' = Append(wire, [part |-> "head", req |-> req])
           /\ client' = [client EXCEPT !.sent = Append(@, req),
                                       !.owes = k = "POST"]
           /\ slips' = [slips EXCEPT !.early =
                             @ \/ Len(seen.done) < Len(client.sent)]
  /\ UNCHANGED <<loop, pc, buf, cur, body, broken, seen, served, made>>

ClientSendsBody ==
  /\ client.open /\ client.owes
  /\ wire' = Append(wire, [part |-> "body",
                           req |-> client.sent[Len(client.sent)]])
  /\ client' = [client EXCEPT !.owes = FALSE]
  /\ UNCHANGED <<loop, pc, buf, cur, body, broken, seen, served, made, slips>>

ClientFinishes ==
  /\ client.open
  /\ client' = [client EXCEPT !.open = FALSE]
  /\ UNCHANGED <<loop, pc, wire, buf, cur, body, broken, seen, served, made,
                 slips>>

(* The connection breaks: what was not yet read is lost, writes fail. *)
ClientVanishes ==
  /\ ~client.gone /\ pc # "returned"
  /\ client' = [client EXCEPT !.open = FALSE, !.gone = TRUE]
  /\ wire' = <<>>
  /\ UNCHANGED <<loop, pc, buf, cur, body, broken, seen, served, made, slips>>

-----------------------------------------------------------------------------
(* Reading. *)
AtEOF == buf = <<>> /\ wire = <<>> /\ ~client.open

(* bufio.Reader.fill: whatever is there, up to the size of the buffer. *)
Fill ==
  /\ pc \in {"top", "read", "body"} /\ buf = <<>>
  /\ ~(loop = "http" /\ pc = "top")
  /\ \E k \in 1..Len(wire) : /\ k <= BufSize
                             /\ buf' = SubSeq(wire, 1, k)
                             /\ wire' = SubSeq(wire, k + 1, Len(wire))
  /\ UNCHANGED <<loop, pc, cur, body, broken, client, seen, served, made, slips>>

Goto(l) == pc' = l

(* Mistake: an error is logged and the loop goes on. *)
ReturnGoesOn == pc' = "top"

(* The loop ends; the TLS one closes its client. *)
Return == Goto("returned")

(* The head of the loop.  TLS: isEof peeks.  HTTP: bufio.NewReader, and    *)
(* what the last reader still held is gone.                                *)
NextReader ==
  /\ pc = "top"
  /\ \/ loop = "http" /\ buf' = <<>> /\ Goto("read")
     \/ loop = "tls" /\ buf # <<>> /\ UNCHANGED buf /\ Goto("read")
     \/ loop = "tls" /\ AtEOF /\ UNCHANGED buf /\ Return
  /\ UNCHANGED <<loop, wire, cur, body, broken, client, seen, served, made,
                 slips>>

(* http.ReadRequest: a head, or something else that fails to parse, or the *)
(* end of the input.                                                       *)
ReadRequest ==
  /\ pc = "read"
  /\ \/ /\ buf # <<>> /\ Head(buf).part = "head"
        /\ cur' = Head(buf).req
        /\ served' = Append(served, Head(buf).req.no)
        /\ buf' = Tail(buf)
        /\ Goto("filter")
        /\ UNCHANGED slips
     \/ /\ buf # <<>> /\ Head(buf).part = "body"
        /\ slips' = [slips EXCEPT !.misread = TRUE]
        /\ buf' = Tail(buf)
        /\ Return
        /\ UNCHANGED <<cur, served>>
     \/ AtEOF /\ Return /\ UNCHANGED <<cur, served, buf, slips>>
  /\ UNCHANGED <<loop, wire, body, broken, client, seen, made>>

(* How many reads of a body return data. *)
FullReads(r) == Cardinality({i \in DOMAIN r : r[i]})

(* What the handlers, and behind them the origin, make of a request; a     *)
(* 204 or 304 comes without a body.                                        *)
Answer ==
  \E r \in UNION {[1..n -> BOOLEAN] : n \in 0..MaxReads}, b \in BOOLEAN,
     s \in Status :
    /\ s = "bodyless" => r = <<>> /\ ~b
    /\ body' = r /\ broken' = b
    /\ made' = Append(made, [status |-> s,
                             whole |-> ~b \/ cur.kind = "HEAD",
                             size |-> IF cur.kind = "HEAD" THEN 0
                                      ELSE FullReads(r)])
    /\ Goto("status")

NoAnswer == UNCHANGED <<body, broken, made>>

(* filterRequest: a handler answers without a look at the body, or the     *)
(* request goes on.  An upgrade then belongs to the relay, and a URL may   *)
(* be illegal.                                                             *)
FilterRequest ==
  /\ pc = "filter"
  /\ \/ /\ Answer
        /\ slips' = [slips EXCEPT !.unread = @ \/ cur.kind = "POST"]
     \/ /\ loop = "http" \/ cur.kind # "UPGRADE"
        /\ Goto("body") /\ NoAnswer /\ UNCHANGED slips
     \/ loop = "tls" /\ Return /\ NoAnswer /\ UNCHANGED slips
  /\ UNCHANGED <<loop, wire, buf, cur, client, seen, served>>

(* Mistake: the rest of a request body is left where it is. *)
DrainNothing == UNCHANGED buf

(* The request body is read to its end: by req.Body.Close() behind the     *)
(* round trip of the TLS loop, by req.Write in the HTTP loop, or by the    *)
(* handler that answers.                                                   *)
Drain ==
  IF cur.kind # "POST" THEN UNCHANGED buf
  ELSE /\ buf # <<>> /\ Head(buf).part = "body"
       /\ buf' = Tail(buf)

(* httpError's reply, made by the loop and not by a handler. *)
OwnReply == /\ made' = Append(made, [status |-> "status", whole |-> TRUE,
                                     size |-> 0])
            /\ UNCHANGED <<body, broken>>
            /\ Goto("text")

(* The round trip, whose error ends the loop, or an answer to a body that  *)
(* the client did not finish.                                              *)
RoundTrip ==
  /\ pc = "body"
  /\ \/ Drain
     \/ AtEOF /\ UNCHANGED buf
  /\ \/ Answer
     \/ loop = "tls" /\ Return /\ NoAnswer
     \/ loop = "http" /\ OwnReply
  /\ UNCHANGED <<loop, wire, cur, client, seen, served, slips>>

-----------------------------------------------------------------------------
(* Writing.  A write to a client that is gone fails, sooner or later. *)
Put(token, next) ==
  \/ ~client.gone /\ seen' = Decode(seen, token) /\ Goto(next)
  \/ client.gone /\ UNCHANGED seen /\ (Goto(next) \/ Return)

Writing == UNCHANGED <<loop, wire, buf, cur, broken, client, served, made, slips>>

(* How resp.Write marks the end of a body: by its length, by chunks, or by *)
(* the end of the connection.                                              *)
Framings == {"count", "size", "rest"}

(* What a reply in one piece makes of the decoder.  The body is there to   *)
(* its end, or to where it broke.                                          *)
Received(d, framing, reply) ==
  LET e == [d EXCEPT !.code = reply.status, !.got = reply.size]
      bare == reply.status = "bodyless" \/ cur.kind = "HEAD"
  IN  CASE d.at = "status" /\ bare = Bodyless(e) ->
             IF bare \/ (reply.whole /\ framing # "rest") THEN Complete(e)
             ELSE [e EXCEPT !.at = framing]
        [] d.at = "rest" -> d
        [] OTHER -> [d EXCEPT !.at = "lost"]

(* resp.Write of the HTTP loop.  A body that breaks ends it in the middle, *)
(* or, at its first byte, before the status.                               *)
ReplyHTTP ==
  /\ pc = "status" /\ loop = "http"
  /\ LET reply == made[Len(made)]
     IN  \/ /\ ~client.gone
            /\ \E f \in Framings : seen' = Received(seen, f, reply)
            /\ Goto(IF reply.whole THEN "top" ELSE "text")
         \/ broken /\ FullReads(body) = 0 /\ UNCHANGED seen /\ Goto("text")
         \/ client.gone /\ UNCHANGED seen
                        /\ (Goto("text") \/ (reply.whole /\ Goto("top")))
  /\ UNCHANGED body /\ Writing

(* The text of httpError: a reply of its own, or behind a part of another  *)
(* the bytes that this one's length still asks for, no chunk size, and     *)
(* whatever comes before the end of the connection.  Then it is closed.    *)
HttpError ==
  /\ pc = "text"
  /\ \/ client.gone /\ UNCHANGED seen
     \/ /\ ~client.gone
        /\ \/ seen.at \in {"status", "count", "rest"} /\ seen' = Complete(seen)
           \/ seen.at \in {"count", "lost"} /\ UNCHANGED seen
           \/ seen.at = "size" /\ seen' = [seen EXCEPT !.at = "lost"]
  /\ Return
  /\ UNCHANGED body /\ Writing

(* The reply of the TLS loop: status line, header, an empty line. *)
WriteStatus ==
  /\ pc = "status" /\ loop = "tls"
  /\ Put(made[Len(made)].status, "header")
  /\ UNCHANGED body /\ Writing

WriteHeader ==
  /\ pc = "header" /\ Put("header", "blank")
  /\ UNCHANGED body /\ Writing

WriteBlank ==
  /\ pc = "blank" /\ Put("crlf", IF cur.kind = "HEAD" THEN "top" ELSE "copy")
  /\ UNCHANGED body /\ Writing

(* Mistake: an empty write makes a chunk, too. *)
SkipNone(full) == FALSE

(* "Don't send 0-length data". *)
SkipWrite(full) == ~full

(* Mistake: the error that ends a body is taken for its end. *)
CopyEndsAnyhow == Goto("last")

CopyEnds == IF broken THEN Return ELSE Goto("last")

(* io.Copy: reads of the body become writes of the chunked writer. *)
Copy ==
  /\ pc = "copy"
  /\ \/ body = <<>> /\ CopyEnds /\ UNCHANGED body
     \/ body # <<>> /\ SkipWrite(Head(body)) /\ body' = Tail(body) /\ Goto("copy")
     \/ body # <<>> /\ ~SkipWrite(Head(body)) /\ Goto("size") /\ UNCHANGED body
  /\ UNCHANGED seen /\ Writing

(* chunkedWriter.Write: the size, the data, the end of the line. *)
WriteSize ==
  /\ pc = "size" /\ Put(IF Head(body) THEN "size" ELSE "0", "data")
  /\ UNCHANGED body /\ Writing

WriteData ==
  /\ pc = "data" /\ Put("data", "chunk")
  /\ UNCHANGED body /\ Writing

WriteChunkEnd ==
  /\ pc = "chunk" /\ Put("crlf", "copy")
  /\ body' = Tail(body) /\ Writing

(* chunkedWriter.Close and the trailer. *)
WriteLast ==
  /\ pc = "last" /\ Put("0", "trailer")
  /\ UNCHANGED body /\ Writing

WriteTrailer ==
  /\ pc = "trailer" /\ Put("crlf", "top")
  /\ UNCHANGED body /\ Writing

-----------------------------------------------------------------------------
Init ==
  /\ loop \in Loops
  /\ pc = "top" /\ wire = <<>> /\ buf = <<>> /\ cur = None
  /\ body = <<>> /\ broken = FALSE
  /\ client = [sent |-> <<>>, owes |-> FALSE, open |-> TRUE, gone |-> FALSE]
  /\ seen = [at |-> "status", code |-> "status", got |-> 0, done |-> <<>>]
  /\ served = <<>> /\ made = <<>>
  /\ slips = [early |-> FALSE, unread |-> FALSE, misread |-> FALSE]

ClientStep == ClientSends \/ ClientSendsBody \/ ClientFinishes \/ ClientVanishes

LoopStep ==
  \/ Fill \/ NextReader \/ ReadRequest \/ FilterRequest \/ RoundTrip
  \/ ReplyHTTP \/ HttpError \/ WriteStatus \/ WriteHeader \/ WriteBlank
  \/ Copy \/ WriteSize \/ WriteData \/ WriteChunkEnd
  \/ WriteLast \/ WriteTrailer

Next == ClientStep \/ LoopStep

(* The loop's goroutine runs, and its handlers, the origin and the writes  *)
(* come to an end; what the client does is up to it.                       *)
Spec == Init /\ [][Next]_vars /\ WF_vars(LoopStep)

-----------------------------------------------------------------------------
(* Types. *)
TypeOK ==
  /\ loop \in Loops
  /\ pc \in {"top", "read", "filter", "body", "status", "header", "blank",
             "copy", "size", "data", "chunk", "last", "trailer", "text",
             "returned"}
  /\ wire \in Seq(Tokens) /\ buf \in Seq(Tokens)
  /\ cur \in Requests \cup {None}
  /\ body \in Seq(BOOLEAN) /\ broken \in BOOLEAN
  /\ client \in [sent : Seq(Requests), owes : BOOLEAN, open : BOOLEAN,
                 gone : BOOLEAN]
  /\ seen \in [at : {"status", "header", "blank", "size", "data", "crlf",
                     "end", "count", "rest", "lost"},
               code : Status, got : Nat, done : Seq(Nat)]
  /\ served \in Seq(1..MaxReqs)
  /\ made \in Seq([status : Status, whole : BOOLEAN, size : Nat])
  /\ slips \in [early : BOOLEAN, unread : BOOLEAN, misread : BOOLEAN]

(* The TLS loop loses its place only behind a handler that answers a       *)
(* request whose body is unread, the HTTP loop also when the client sends  *)
(* before it has its last reply.                                           *)
InStep == ~slips.unread /\ (loop = "tls" \/ ~slips.early)

(* The requests the loop serves are the client's, in order and none left   *)
(* out, and nothing else is taken for one, as long as it is in step.       *)
InSync ==
  InStep => ~slips.misread /\ \A i \in DOMAIN served : served[i] = i

(* A client can make out every reply, whatever the sizes of the reads      *)
(* behind it and wherever the loop stops.  The exceptions: in the TLS loop *)
(* what comes behind a 204 or 304, which are given a chunked body; in the  *)
(* HTTP loop a client out of step, and httpError's text behind a body that *)
(* broke off in the middle of its chunks.                                  *)
RepliesDecode ==
  seen.at = "lost" =>
    IF loop = "tls" THEN \E i \in DOMAIN made : made[i].status = "bodyless"
    ELSE ~InStep \/ \E i \in DOMAIN made : ~made[i].whole

(* A reply that the client takes for complete has all of the response's    *)
(* body.  In the TLS loop one whose body broke off is never complete.  In  *)
(* the HTTP loop httpError's text can stand for what is missing, but only  *)
(* of that one, which is the last, as long as the client is in step.       *)
CompleteOnlyIfWhole ==
  \A i \in DOMAIN seen.done :
    \/ made[i].whole /\ seen.done[i] = made[i].size
    \/ loop = "http" /\ (~InStep \/ (~made[i].whole /\ i = Len(made)))

(* The loop returns once its client is done, in whatever request that is.  *)
LoopReturns == ~client.open ~> pc = "returned"
=============================================================================
