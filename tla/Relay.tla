------------------------------- MODULE Relay --------------------------------
(***************************************************************************)
(* What becomes of a connection once the proxy only passes bytes on:       *)
(* accepted CONNECT tunnels and the dial before them (https.go), websocket *)
(* upgrades (websocket.go) and HTTP/2 sessions (h2.go).  A relay has two   *)
(* peers and two goroutines; goroutine p copies what peer p sends to the   *)
(* other peer.  Modes:                                                     *)
(*   half  CONNECT, both connections can be half-closed: copyAndClose      *)
(*   wait  CONNECT, one of them cannot: copyOrWarn and a WaitGroup         *)
(*   ws    an upgrade that ServeHTTP serves, wss one in the TLS loop       *)
(*   h2    an HTTP/2 session in the TLS loop                               *)
(* An item is what one read returns; in an HTTP/2 session it is a frame.   *)
(***************************************************************************)
EXTENDS Integers, Sequences

CONSTANTS Modes,    \* the modes to look at
          MaxSend,  \* bound: items each peer sends
          Room      \* items that fit between the proxy and a slow reader

ASSUME RelayAssumption ==
  /\ Modes \subseteq {"half", "wait", "ws", "wss", "h2"}
  /\ MaxSend \in [{"client", "target"} -> Nat] /\ Room \in Nat \ {0}

VARIABLES mode,  \* which relay this is
          main,  \* where the goroutine is that set the relay up
          conn,  \* the proxy's connection to each peer, and the peer behind it
          copy,  \* the copying goroutines
          errs,  \* results in errChan, or that RoundTrip has taken
          out,   \* written to the other peer and not yet read by it
          rcvd,  \* history: what the other peer has read of p's items
          saw,   \* peers that have read to the end
          eager  \* history: peers that sent while a reader was yet to be dropped

vars == <<mode, main, conn, copy, errs, out, rcvd, saw, eager>>

Peers == {"client", "target"}
Other(p) == IF p = "client" THEN "target" ELSE "client"

(* Frames: one that ends its stream, one of an unknown type, any other. *)
Items == {"data", "end", "bad"}
ItemsOf(m) == IF m = "h2" THEN Items ELSE {"data"}

-----------------------------------------------------------------------------
(* Connections. *)
Closed(c) == [c EXCEPT !.sock = "closed"]
CloseConns(ps) ==
  conn' = [p \in Peers |-> IF p \in ps THEN Closed(conn[p]) ELSE conn[p]]

(* A read of the connection to p: an item is there, the peer has ended its *)
(* stream or the read side was shut, the connection is dead.               *)
HasItem(p) ==
  /\ conn[p].sock = "open" /\ ~conn[p].gone /\ ~conn[p].shutR
  /\ conn[p].taken < Len(conn[p].sent)
AtEOF(p) ==
  /\ conn[p].sock = "open" /\ ~conn[p].gone
  /\ \/ conn[p].shutR
     \/ conn[p].fin /\ conn[p].taken = Len(conn[p].sent)
Dead(p) == conn[p].sock = "closed" \/ conn[p].gone

(* Closed on a peer that has sent more than was read: the peer gets a      *)
(* reset.                                                                  *)
Torn(p) == conn[p].sock = "closed" /\ conn[p].taken < Len(conn[p].sent)

(* A frame of kind i has been read from p. *)
Took(p, i) == \E k \in 1..conn[p].taken : conn[p].sent[k] = i

(* What may end the stream of p before its last item: the relay was never  *)
(* set up, or a peer was lost; one peer of a websocket has finished, and   *)
(* both streams end; in an HTTP/2 session, a frame of an unknown type, or  *)
(* the first stream to be ended in this direction when the other has had   *)
(* its own or is at its end; a reset.                                      *)
CutShort(p) ==
  LET q == Other(p)
  IN  \/ main = "failed" \/ \E r \in Peers : conn[r].gone
      \/ mode \in {"ws", "wss"} /\ conn[q].fin
      \/ /\ mode = "h2"
         /\ \/ \E r \in Peers : Took(r, "bad")
            \/ Took(p, "end") /\ (Took(q, "end") \/ conn[q].fin)
      \/ mode \in {"ws", "wss", "h2"} /\ Torn(q)

Stream == INSTANCE DuplexStream WITH
  sent  <- [p \in Peers |-> Len(conn[p].sent)],
  fin   <- [p \in Peers |-> conn[p].fin],
  ended <- [p \in Peers |-> saw[Other(p)]],
  lossy <- eager,
  cut   <- [p \in Peers |-> CutShort(p)]

(* A reader that is thrown away takes up to k of the items that have       *)
(* arrived with it.                                                        *)
Arrived(p) == 0..(Len(conn[p].sent) - conn[p].taken)

Swallow(p, k) ==
  conn' = [conn EXCEPT ![p].taken = @ + k]

-----------------------------------------------------------------------------
(* Setting the relay up. *)

(* The dial or what follows it fails: a CONNECT gets a 502 and its client  *)
(* is closed, the TLS loop closes its client, ServeHTTP keeps it.  ps are  *)
(* the other connections that the failing function closes.                 *)
SetupFails(ps) ==
  /\ main' = "failed"
  /\ CloseConns(ps \cup (IF mode = "ws" THEN {} ELSE {"client"}))

(* The client is taken over: what the server's reader, or that of the TLS  *)
(* loop, holds of its next bytes is dropped; HTTP/2 goes on with the same  *)
(* reader.  ServeHTTP dials a websocket's target first, and gives up if    *)
(* its client cannot be hijacked.                                          *)
Hijack ==
  /\ main = "hijack"
  /\ \/ /\ \E k \in Arrived("client") : /\ mode = "h2" => k = 0
                                        /\ Swallow("client", k)
        /\ main' = (IF mode = "ws" THEN "hello" ELSE "dial")
     \/ mode = "ws" /\ SetupFails({"target"})
  /\ UNCHANGED <<mode, copy, errs, out, rcvd, saw, eager>>

Connected == IF mode = "ws" THEN "hijack" ELSE "hello"

(* connectDial: direct, or to the upstream proxy that is asked for a       *)
(* tunnel; an HTTP/2 session is always dialed direct.                      *)
Dial ==
  /\ main = "dial"
  /\ \/ /\ main' \in {Connected} \cup (IF mode = "h2" THEN {} ELSE {"ask"})
        /\ conn' = [conn EXCEPT !["target"].sock = "open"]
     \/ SetupFails({})
  /\ UNCHANGED <<mode, copy, errs, out, rcvd, saw, eager>>

(* The upstream proxy's answer: 200, and what its reader holds is dropped; *)
(* an error; a refusal, after which the connection is closed, unless the   *)
(* refusal cannot be read to its end.                                      *)
ConnectAnswer ==
  /\ main = "ask"
  /\ \/ main' = Connected /\ \E k \in Arrived("target") : Swallow("target", k)
     \/ SetupFails({"target"})
     \/ SetupFails({})
  /\ UNCHANGED <<mode, copy, errs, out, rcvd, saw, eager>>

(* The last step before the copies start.  A websocket handshake reads the *)
(* target's reply with a reader that the copies do not use.                *)
Handshake ==
  /\ main = "hello"
  /\ \/ /\ \E k \in Arrived("target") : /\ mode \notin {"ws", "wss"} => k = 0
                                        /\ Swallow("target", k)
        /\ main' = "relay"
        /\ copy' = [p \in Peers |-> "read"]
     \/ /\ mode \in {"ws", "wss", "h2"}
        /\ SetupFails({"target"})
        /\ UNCHANGED copy
  /\ UNCHANGED <<mode, errs, out, rcvd, saw, eager>>

-----------------------------------------------------------------------------
(* The copies. *)
CopyTo(p, pc) == copy' = [copy EXCEPT ![p] = pc]

(* The error that ended a copy is told from EOF only in an HTTP/2 session; *)
(* elsewhere it is logged.                                                 *)
CopyFails(p) == CopyTo(p, IF mode = "h2" THEN "failed" ELSE "ended")

(* io.Copy, or the loop over proxyFrame, reads.  A frame of an unknown     *)
(* type ends the loop.                                                     *)
CopyRead(p) ==
  /\ copy[p] = "read"
  /\ \/ /\ HasItem(p)
        /\ IF conn[p].sent[conn[p].taken + 1] = "bad" THEN CopyFails(p)
           ELSE CopyTo(p, "write")
        /\ conn' = [conn EXCEPT ![p].taken = @ + 1]
     \/ AtEOF(p) /\ CopyTo(p, "ended") /\ UNCHANGED conn
     \/ Dead(p) /\ CopyFails(p) /\ UNCHANGED conn
  /\ UNCHANGED <<mode, main, errs, out, rcvd, saw, eager>>

(* proxyFrame returns io.EOF behind the end of any stream. *)
AfterWrite(p) ==
  IF conn[p].sent[conn[p].taken] = "end" THEN "ended" ELSE "read"

(* Mistake: an item is read over a failed write. *)
CopyWriteRetries(p) ==
  /\ copy[p] = "write"
  /\ out' = [out EXCEPT ![p] = Append(@, conn[p].taken)]
  /\ CopyTo(p, IF Len(out[p]) < Room THEN "read" ELSE "write")
  /\ UNCHANGED <<mode, main, conn, errs, rcvd, saw, eager>>

(* The write waits for room; to a dead connection it fails, and one that   *)
(* the peer has just left may still take an item to nowhere.               *)
CopyWrite(p) ==
  LET q == Other(p)
  IN  /\ copy[p] = "write"
      /\ \/ /\ ~Dead(q) /\ ~conn[q].shutW /\ Len(out[p]) < Room
            /\ out' = [out EXCEPT ![p] = Append(@, conn[p].taken)]
            /\ CopyTo(p, AfterWrite(p))
         \/ /\ conn[q].gone /\ conn[q].sock = "open"
            /\ CopyTo(p, AfterWrite(p)) /\ UNCHANGED out
         \/ /\ Dead(q) \/ conn[q].shutW
            /\ CopyFails(p) /\ UNCHANGED out
      /\ UNCHANGED <<mode, main, conn, errs, rcvd, saw, eager>>

(* Mistake: only the connection that was read from is shut down. *)
CloseWriteMissing(p) ==
  /\ mode = "half" /\ copy[p] = "ended"
  /\ CopyTo(p, "shutR")
  /\ UNCHANGED <<mode, main, conn, errs, out, rcvd, saw, eager>>

(* copyAndClose: dst.CloseWrite(), then src.CloseRead(). *)
CloseWrite(p) ==
  /\ mode = "half" /\ copy[p] = "ended"
  /\ conn' = [conn EXCEPT ![Other(p)].shutW = TRUE]
  /\ CopyTo(p, "shutR")
  /\ UNCHANGED <<mode, main, errs, out, rcvd, saw, eager>>

CloseRead(p) ==
  /\ mode = "half" /\ copy[p] = "shutR"
  /\ conn' = [conn EXCEPT ![p].shutR = TRUE]
  /\ CopyTo(p, "done")
  /\ UNCHANGED <<mode, main, errs, out, rcvd, saw, eager>>

(* copyOrWarn: wg.Done(). *)
WgDone(p) ==
  /\ mode = "wait" /\ copy[p] = "ended"
  /\ CopyTo(p, "done")
  /\ UNCHANGED <<mode, main, conn, errs, out, rcvd, saw, eager>>

(* Mistake: errChan has no buffer, a result needs a receiver. *)
NoErrRoom == main = "relay" /\ errs = 0

(* errChan holds the results of both copies. *)
ErrRoom == errs < 2

ReportErr(p) ==
  /\ mode \in {"ws", "wss"} /\ copy[p] = "ended" /\ ErrRoom
  /\ errs' = errs + 1
  /\ CopyTo(p, "done")
  /\ UNCHANGED <<mode, main, conn, out, rcvd, saw, eager>>

-----------------------------------------------------------------------------
(* The goroutine that waits for the copies. *)

(* Mistake: the WaitGroup is given one copy to wait for. *)
WaitedForOne == \E p \in Peers : copy[p] = "done"

Waited == \A p \in Peers : copy[p] = "done"

(* wg.Wait() and the first of the two closes. *)
WgWait ==
  /\ mode = "wait" /\ main = "relay" /\ Waited
  /\ CloseConns({"client"})
  /\ main' = "closing"
  /\ UNCHANGED <<mode, copy, errs, out, rcvd, saw, eager>>

(* Mistake: the results of both copies are awaited. *)
BothReported == errs = 2

OneReported == errs > 0

(* proxyWebsocket returns with the first result, serveWebsocket closes the *)
(* target.                                                                 *)
FirstErr ==
  /\ mode \in {"ws", "wss"} /\ main = "relay" /\ OneReported
  /\ errs' = errs - 1
  /\ CloseConns({"target"})
  /\ main' = "closing"
  /\ UNCHANGED <<mode, copy, out, rcvd, saw, eager>>

(* RoundTrip's select takes a result from a copy that offers one; it       *)
(* returns with an error, or with the second EOF, and closes the target.   *)
Select(p) ==
  /\ mode = "h2" /\ main = "relay" /\ copy[p] \in {"ended", "failed"}
  /\ CopyTo(p, "done")
  /\ errs' = errs + 1
  /\ IF copy[p] = "failed" \/ errs + 1 = 2
     THEN main' = "closing" /\ CloseConns({"target"})
     ELSE UNCHANGED <<main, conn>>
  /\ UNCHANGED <<mode, out, rcvd, saw, eager>>

(* The second close: of the target where the client was first, and of the  *)
(* client of the TLS loop; ServeHTTP does not close its client.            *)
SecondClose ==
  /\ main = "closing"
  /\ CloseConns(CASE mode = "wait" -> {"target"}
                  [] mode = "ws" -> {}
                  [] mode \in {"wss", "h2"} -> {"client"})
  /\ main' = "done"
  /\ UNCHANGED <<mode, copy, errs, out, rcvd, saw, eager>>

-----------------------------------------------------------------------------
(* The peers. *)

(* A reader that will be thrown away still reads from p. *)
AtRisk(p) ==
  IF p = "client"
  THEN \/ mode # "h2" /\ main = "hijack"
       \/ mode = "ws" /\ main \in {"dial", "ask"}
  ELSE \/ main = "ask"
       \/ mode \in {"ws", "wss"} /\ main \in {"hijack", "hello"}

(* The target can speak once the proxy, or the upstream one, has reached   *)
(* it.                                                                     *)
Reachable(p) == conn[p].sock = "open" /\ main # "failed"

PeerSends(p) ==
  /\ Reachable(p) /\ ~conn[p].fin /\ Len(conn[p].sent) < MaxSend[p]
  /\ \E i \in ItemsOf(mode) :
       conn' = [conn EXCEPT ![p].sent = Append(@, i)]
  /\ eager' = [eager EXCEPT ![p] = @ \/ AtRisk(p)]
  /\ UNCHANGED <<mode, main, copy, errs, out, rcvd, saw>>

(* The peer ends its stream, or is lost. *)
PeerFinishes(p) ==
  /\ Reachable(p) /\ ~conn[p].fin
  /\ conn' = [conn EXCEPT ![p].fin = TRUE]
  /\ UNCHANGED <<mode, main, copy, errs, out, rcvd, saw, eager>>

PeerVanishes(p) ==
  /\ Reachable(p) /\ ~conn[p].gone
  /\ conn' = [conn EXCEPT ![p].gone = TRUE, ![p].fin = TRUE]
  /\ UNCHANGED <<mode, main, copy, errs, out, rcvd, saw, eager>>

PeerReads(p) ==
  LET q == Other(p)
  IN  /\ ~conn[p].gone /\ out[q] # <<>>
      /\ rcvd' = [rcvd EXCEPT ![q] = Append(@, Head(out[q]))]
      /\ out' = [out EXCEPT ![q] = Tail(@)]
      /\ UNCHANGED <<mode, main, conn, copy, errs, saw, eager>>

(* A reset takes what has not been read with it. *)
Reset(p) ==
  /\ Torn(p) /\ out[Other(p)] # <<>>
  /\ out' = [out EXCEPT ![Other(p)] = <<>>]
  /\ UNCHANGED <<mode, main, conn, copy, errs, rcvd, saw, eager>>

PeerSeesEnd(p) ==
  /\ ~conn[p].gone /\ out[Other(p)] = <<>> /\ ~saw[p]
  /\ conn[p].shutW \/ conn[p].sock = "closed"
  /\ saw' = [saw EXCEPT ![p] = TRUE]
  /\ UNCHANGED <<mode, main, conn, copy, errs, out, rcvd, eager>>

-----------------------------------------------------------------------------
Init ==
  /\ mode \in Modes
  /\ main = (IF mode = "ws" THEN "dial" ELSE "hijack")
  /\ conn = [p \in Peers |-> [sock |-> IF p = "client" THEN "open" ELSE "none",
                              sent |-> <<>>, taken |-> 0, fin |-> FALSE,
                              gone |-> FALSE, shutR |-> FALSE, shutW |-> FALSE]]
  /\ copy = [p \in Peers |-> "none"]
  /\ errs = 0
  /\ out = [p \in Peers |-> <<>>]
  /\ rcvd = [p \in Peers |-> <<>>]
  /\ saw = [p \in Peers |-> FALSE]
  /\ eager = [p \in Peers |-> FALSE]

Setup == Hijack \/ Dial \/ ConnectAnswer \/ Handshake

CopyStep(p) == CopyRead(p) \/ CopyWrite(p) \/ CloseWrite(p) \/ CloseRead(p)
               \/ WgDone(p) \/ ReportErr(p)

MainStep == WgWait \/ FirstErr \/ (\E p \in Peers : Select(p)) \/ SecondClose

PeerStep(p) == PeerSends(p) \/ PeerFinishes(p) \/ PeerVanishes(p) \/ Reset(p)

PeerTakes(p) == PeerReads(p) \/ PeerSeesEnd(p)

Next ==
  \/ Setup \/ MainStep
  \/ \E p \in Peers : CopyStep(p) \/ PeerStep(p) \/ PeerTakes(p)

Spec == Init /\ [][Next]_vars

(* Goroutines that can run do run, and peers read what they are sent;      *)
(* whether they send, finish or vanish is up to them.                      *)
FairSpec ==
  /\ Spec
  /\ WF_vars(Setup) /\ WF_vars(MainStep)
  /\ \A p \in Peers : WF_vars(CopyStep(p)) /\ WF_vars(PeerTakes(p))

-----------------------------------------------------------------------------
(* Types; a copy writes what it has taken, and never more than fits. *)
TypeOK ==
  /\ mode \in Modes
  /\ main \in {"hijack", "dial", "ask", "hello", "relay", "closing", "done",
               "failed"}
  /\ conn \in [Peers -> [sock : {"none", "open", "closed"}, sent : Seq(Items),
                         taken : Nat, fin : BOOLEAN, gone : BOOLEAN,
                         shutR : BOOLEAN, shutW : BOOLEAN]]
  /\ copy \in [Peers -> {"none", "read", "write", "ended", "failed", "shutR",
                         "done"}]
  /\ errs \in 0..2
  /\ out \in [Peers -> Seq(Nat)] /\ rcvd \in [Peers -> Seq(Nat)]
  /\ saw \in [Peers -> BOOLEAN] /\ eager \in [Peers -> BOOLEAN]
  /\ \A p \in Peers : /\ conn[p].taken <= Len(conn[p].sent)
                      /\ copy[p] = "write" => conn[p].taken > 0
                      /\ Len(out[p]) <= Room

(* A relay is two streams: what a peer reads is what the other sent, in    *)
(* order and without a gap, whatever the copies, closes and failures.      *)
(* Items are left out only where a peer speaks before the relay stands     *)
(* (the readers that setup throws away).  The end of a stream is shown     *)
(* only behind its last item: always in an accepted tunnel that has lost   *)
(* neither peer; in a websocket unless the other peer has finished; in an  *)
(* HTTP/2 session, which ends all its streams behind the first that each   *)
(* direction ends (CutShort), only then.                                   *)
ImplementsDuplexStream == Stream!Spec

(* Half-closable tunnels pass the end on: when one peer has finished, or   *)
(* is lost, the other reads to the end of what it was sent, also while its *)
(* own stream goes on.                                                     *)
EndReachesPeer ==
  \A p \in Peers :
    (mode = "half" /\ main = "relay" /\ conn[p].fin)
      ~> (saw[Other(p)] \/ conn[Other(p)].gone)

(* A relay is taken down: a tunnel that waits for both copies when both    *)
(* peers are through, a websocket as soon as one is, HTTP/2 when a copy    *)
(* has failed or each has ended.  Nothing is left open then but the client *)
(* that ServeHTTP keeps.                                                   *)
TakenDown ==
  (/\ main = "relay"
   /\ CASE mode = "half" -> FALSE
        [] mode = "wait" -> \A p \in Peers : conn[p].fin
        [] mode \in {"ws", "wss"} -> \E p \in Peers : conn[p].fin
        [] mode = "h2" -> \/ \A p \in Peers : conn[p].fin \/ copy[p] = "done"
                          \/ \E p \in Peers : copy[p] = "failed")
    ~> (/\ main = "done" /\ conn["target"].sock = "closed"
        /\ conn["client"].sock = "closed" \/ mode = "ws")

(* No copying goroutine outlives a websocket relay in the TLS loop, nor    *)
(* one of ServeHTTP whose client has finished: each finds room in errChan. *)
CopiesEnd ==
  (/\ main = "done"
   /\ mode = "wss" \/ (mode = "ws" /\ conn["client"].fin))
    ~> Waited
=============================================================================
