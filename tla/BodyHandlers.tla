---------------------------- MODULE BodyHandlers ----------------------------
(***************************************************************************)
(* What the response handlers that rewrite bodies do to one: HandleImage   *)
(* (ext/image), HandleString and HandleStringReader (ext/html) and         *)
(* HandleBytes (dispatcher.go), in a chain, and what the client is sent    *)
(* then.  Bodies are streams of the bytes 1..StreamLen: stream 0 is the    *)
(* origin's, which may break off, the next ones are made by handlers.  An  *)
(* image is decoded through a reader of module RegretableReader.           *)
(***************************************************************************)
EXTENDS Integers, Sequences

CONSTANTS StreamLen,  \* length of a body
          BufSize,    \* the 16 kB that HandleImage can take back
          MaxRead,    \* largest slice passed to Read
          Chains      \* the chains of handlers to look at

Handlers == {"image", "string", "bytes"}

ASSUME BodyHandlersAssumption ==
  /\ StreamLen \in Nat /\ BufSize \in Nat /\ MaxRead \in Nat
  /\ Chains \subseteq Seq(Handlers)

(* There is one reader here: two image handlers in a chain would need two. *)
ASSUME OneReaderAssumption ==
  \A c \in Chains : \A i, j \in DOMAIN c :
    c[i] = "image" /\ c[j] = "image" => i = j

VARIABLES src, overflow, r, w, buf, out,  \* the RegretableReader
          path,    \* who serves the response: ServeHTTP or the TLS loop
          chain,   \* the handlers
          ix, pc,  \* which of them runs, and where it is
          top,     \* what resp.Body reads from: the stream or the reader on it
          stream,  \* which stream that is
          closes,  \* whether resp.Body.Close() reaches the origin's body
          origin,  \* the origin's body
          sized,   \* whether the reply will have the origin's Content-Length
          recd,    \* what the client has been sent
          odd      \* history: encodings that failed, images that went wrong

reader == <<src, overflow, r, w, buf, out>>
task == <<path, chain>>
vars == <<reader, task, ix, pc, top, stream, closes, origin, sized, recd, odd>>

Regretable == INSTANCE RegretableReader

-----------------------------------------------------------------------------
(* Bodies. *)
End == IF stream = 0 THEN origin.end ELSE StreamLen
Fails == stream = 0 /\ origin.fails

(* resp.Body.Read. *)
ReadBody ==
  \/ /\ top = "stream"
     /\ \E n \in 1..MaxRead : /\ src + n <= End
                              /\ src' = src + n
                              /\ out' = Regretable!Returns(
                                            [i \in 1..n |-> src + i])
     /\ UNCHANGED <<overflow, r, w, buf>>
  \/ top = "reader" /\ Regretable!Read /\ src' <= End

Exhausted == src = End /\ (top = "stream" \/ overflow \/ r >= w)

FreshReader ==
  /\ overflow' = FALSE /\ r' = 0 /\ w' = 0
  /\ buf' = [i \in 0..(BufSize - 1) |-> 0]
  /\ out' = Regretable!Returns(<<>>)

(* resp.Body = io.NopCloser(...) of something a handler made. *)
NewBody ==
  /\ stream' = stream + 1 /\ top' = "stream" /\ src' = 0
  /\ FreshReader

SameBody == UNCHANGED <<reader, top, stream>>

(* Mistake: every other handler is left out. *)
NextHandlerButOne == ix' = ix + 2 /\ pc' = "handler"

NextHandler == ix' = ix + 1 /\ pc' = "handler"

Runs(h) == pc = "handler" /\ ix <= Len(chain) /\ chain[ix] = h

-----------------------------------------------------------------------------
(* HandleImage. *)
ImageSkipped ==
  /\ Runs("image") /\ NextHandler /\ SameBody
  /\ UNCHANGED <<task, closes, origin, sized, recd, odd>>

(* NewRegretableReaderCloserSize around the body. *)
ImageStarts ==
  /\ Runs("image") /\ pc' = "decode" /\ top' = "reader"
  /\ FreshReader /\ sized' = FALSE
  /\ UNCHANGED <<src, task, ix, stream, closes, origin, recd, odd>>

DecodeReads ==
  /\ pc = "decode" /\ ReadBody
  /\ UNCHANGED <<task, ix, pc, top, stream, closes, origin, sized, recd, odd>>

(* Mistake: what the decoder has read is not put back. *)
DecodeFailsUnregretted ==
  /\ pc = "decode" /\ NextHandler
  /\ UNCHANGED <<reader, task, top, stream, closes, origin, sized, recd, odd>>

(* An error, from the decoder or from the body: Regret, which panics if    *)
(* the decoder has read more than the reader could keep.                   *)
DecodeFails ==
  /\ pc = "decode" /\ Regretable!Regret
  /\ IF out'.ok THEN NextHandler ELSE pc' = "panic" /\ UNCHANGED ix
  /\ UNCHANGED <<task, top, stream, closes, origin, sized, recd, odd>>

(* The decoder may be through before the end of the body.  The result is   *)
(* encoded into a new body; if that fails resp goes on as it is, and a     *)
(* content type with a parameter is one the switch does not know.          *)
DecodeSucceeds ==
  /\ pc = "decode" /\ src > 0
  /\ \/ /\ NewBody /\ NextHandler
        /\ closes' = FALSE
        /\ odd' = odd \cup {"replaced"}
     \/ /\ NextHandler /\ SameBody
        /\ odd' = odd \cup {"unencoded"} /\ UNCHANGED closes
     \/ /\ pc' = "panic" /\ SameBody
        /\ odd' = odd \cup {"type"} /\ UNCHANGED <<ix, closes>>
  /\ UNCHANGED <<task, origin, sized, recd>>

-----------------------------------------------------------------------------
(* HandleString and HandleBytes. *)

(* No converter for the charset: resp is returned as it is. *)
CharsetUnknown ==
  /\ Runs("string") /\ NextHandler /\ SameBody
  /\ UNCHANGED <<task, closes, origin, sized, recd, odd>>

ReadAllStarts ==
  /\ Runs("string") \/ Runs("bytes")
  /\ pc' = "readall"
  /\ UNCHANGED <<reader, task, ix, top, stream, closes, origin, sized, recd,
                 odd>>

ReadAllReads ==
  /\ pc = "readall" /\ ReadBody
  /\ UNCHANGED <<task, ix, pc, top, stream, closes, origin, sized, recd, odd>>

(* io.ReadAll fails: the body goes on from where it broke, in HandleString *)
(* inside a wrapper.                                                       *)
ReadAllFails ==
  /\ pc = "readall" /\ Exhausted /\ Fails
  /\ NextHandler /\ SameBody
  /\ sized' = (sized /\ chain[ix] = "bytes")
  /\ UNCHANGED <<task, closes, origin, recd, odd>>

(* Mistake: closing the wrapper closes what it reads only. *)
ClosesFirst(c) == FALSE

(* readFirstCloseBoth: closing it closes the body it stands for, too. *)
ClosesBoth(c) == c

(* The body is replaced: HandleString keeps the old one to close it later, *)
(* HandleBytes closes it now.                                              *)
ReadAllDone ==
  /\ pc = "readall" /\ Exhausted /\ ~Fails
  /\ NewBody /\ NextHandler
  /\ IF chain[ix] = "string"
     THEN closes' = ClosesBoth(closes) /\ UNCHANGED origin
     ELSE /\ closes' = FALSE
          /\ origin' = [origin EXCEPT !.closed = @ \/ closes]
  /\ sized' = FALSE
  /\ UNCHANGED <<task, recd, odd>>

-----------------------------------------------------------------------------
(* The response is sent; the body's end, or an error. *)
Send ==
  /\ pc = "handler" /\ ix > Len(chain)
  /\ ReadBody
  /\ recd' = recd \o out'.bytes
  /\ UNCHANGED <<task, ix, pc, top, stream, closes, origin, sized, odd>>

(* The client can tell that a body broke off if the TLS loop leaves out    *)
(* the last chunk, or if the reply falls short of its Content-Length; this *)
(* ServeHTTP deletes when the body is no longer origBody.  A reply without *)
(* one is ended properly by the server: the error of the copy is logged.   *)
LooksCut == IF path = "tls" THEN Fails ELSE sized /\ Len(recd) < StreamLen

Sent ==
  /\ pc = "handler" /\ ix > Len(chain) /\ Exhausted
  /\ pc' = (IF LooksCut THEN "cut" ELSE "complete")
  /\ UNCHANGED <<reader, task, ix, top, stream, closes, origin, sized, recd,
                 odd>>

(* resp.Body is closed in the end; ServeHTTP also closes the body that the *)
(* origin sent.                                                            *)
Close == origin' = [origin EXCEPT !.closed = @ \/ closes \/ path = "plain"]

(* ServeHTTP closes when the reply is out; in the TLS loop the close is    *)
(* deferred until the goroutine of the tunnel returns, after a body that   *)
(* broke off at once and else behind any number of further requests.       *)
Returns ==
  /\ pc \in {"complete", "cut"} /\ pc' = "over"
  /\ Close
  /\ UNCHANGED <<reader, task, ix, top, stream, closes, sized, recd, odd>>

(* A panic runs the deferred close of ServeHTTP; one in the TLS loop ends  *)
(* the process.                                                            *)
Recover ==
  /\ pc = "panic" /\ path = "plain" /\ pc' = "over"
  /\ origin' = [origin EXCEPT !.closed = TRUE]
  /\ UNCHANGED <<reader, task, ix, top, stream, closes, sized, recd, odd>>

-----------------------------------------------------------------------------
Init ==
  /\ Regretable!Init
  /\ path \in {"plain", "tls"} /\ chain \in Chains
  /\ ix = 1 /\ pc = "handler" /\ top = "stream" /\ stream = 0 /\ closes = TRUE
  /\ origin \in {o \in [end : 0..StreamLen, fails : BOOLEAN, closed : {FALSE}] :
                   o.fails \/ o.end = StreamLen}
  /\ sized \in BOOLEAN /\ recd = <<>> /\ odd = {}

Next ==
  \/ ImageSkipped \/ ImageStarts \/ DecodeReads \/ DecodeFails \/ DecodeSucceeds
  \/ CharsetUnknown \/ ReadAllStarts \/ ReadAllReads \/ ReadAllFails
  \/ ReadAllDone \/ Send \/ Sent \/ Returns \/ Recover

Spec == Init /\ [][Next]_vars

-----------------------------------------------------------------------------
(* Types. *)
TypeOK ==
  /\ Regretable!TypeOK
  /\ path \in {"plain", "tls"} /\ chain \in Chains
  /\ ix \in 1..(Len(chain) + 1)
  /\ pc \in {"handler", "decode", "readall", "panic", "cut", "complete",
             "over"}
  /\ top \in {"stream", "reader"} /\ stream \in 0..Len(chain)
  /\ closes \in BOOLEAN /\ sized \in BOOLEAN
  /\ origin \in [end : 0..StreamLen, fails : BOOLEAN, closed : BOOLEAN]
  /\ recd \in Seq(1..StreamLen)
  /\ odd \subseteq {"replaced", "unencoded", "type"}

(* A client that is sent a body to its end gets all of one: the origin's,  *)
(* which handlers have looked at and put back, or one that a handler made. *)
(* A body that broke off does not look complete, however many handlers     *)
(* read it, in the TLS loop and while ServeHTTP keeps the Content-Length.  *)
(* The exceptions are a broken body in a reply of ServeHTTP without one,   *)
(* and an image that is decoded and cannot be encoded again ("returning    *)
(* orig"), of which only the rest is left.                                 *)
WholeBody ==
  (pc = "complete" /\ "unencoded" \notin odd 
   /\ (Fails => path = "tls" \/ sized))
    => recd = [i \in 1..StreamLen |-> i]

(* HandleImage panics only behind a decoder that has read more than the    *)
(* reader keeps, or for a content type with parameters.                    *)
PanicsOnlyIf ==
  pc = "panic" => "type" \in odd \/ r > BufSize

(* The origin's body is closed by the time ServeHTTP, or the goroutine of  *)
(* a tunnel in the TLS loop, has returned, whatever handlers have put in   *)
(* its place and also behind a panic that is recovered; the exception is   *)
(* an image that was replaced, whose body the TLS loop has lost.  Within a *)
(* tunnel the body of a reply that is out is still open.                   *)
OriginReleased ==
  pc = "over" => origin.closed \/ (path = "tls" /\ "replaced" \in odd)
=============================================================================
