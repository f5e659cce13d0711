---------------------------- MODULE RelayProofs -----------------------------
(***************************************************************************)
(* Proofs about Relay for every set of modes, every number of items and    *)
(* every size of the room between the proxy and a slow reader: its types,  *)
(* and that it implements DuplexStream.                                    *)
(*                                                                         *)
(* Both rest on an inductive invariant, Inv.  What is between the peers is *)
(* accounted for item by item: behind what a peer has read comes what is   *)
(* in `out', then the item that a copy is about to write, then what the    *)
(* copy has yet to take; a gap can only come from setup (an eager peer),   *)
(* from a lost peer, or from a copy that has failed.  A second one,        *)
(* PassInv, says why websockets and HTTP/2 sessions are taken down.        *)
(***************************************************************************)
EXTENDS Relay, TLAPS

Setting == {"hijack", "dial", "ask", "hello"}
Tunnels == {"half", "wait"}
Intact == \A p \in Peers : ~conn[p].gone

(* Until the copies start nothing is written; the target is silent until   *)
(* it is dialed, and a peer that speaks while a reader is to be dropped is *)
(* noted.                                                                  *)
SetupInv ==
  /\ main \in Setting => conn["client"].sock = "open" /\ errs = 0
  /\ main = "dial" \/ (main = "hijack" /\ mode # "ws")
       => conn["target"].sock = "none" /\ conn["target"].sent = <<>>
  /\ main \in {"ask", "hello"} \/ (main = "hijack" /\ mode = "ws")
       => conn["target"].sock = "open"
  /\ \A p \in Peers : copy[p] = "none" <=> main \in Setting \cup {"failed"}
  /\ mode = "h2" /\ main = "relay" => errs <= 1
  /\ mode = "h2" => main # "ask"
  /\ \A p \in Peers : AtRisk(p) /\ conn[p].sent # <<>> => eager[p]
  /\ \A p \in Peers : copy[p] = "none" =>
       /\ out[p] = <<>> /\ rcvd[p] = <<>>
       /\ ~conn[p].shutR /\ ~conn[Other(p)].shutW
       /\ eager[p] \/ conn[p].taken = 0

(* Items on their way are numbered upwards, from the last one read to the  *)
(* last one taken.                                                         *)
Rising(p) ==
  /\ Stream!Last(rcvd[p]) \in Nat
  /\ copy[p] # "write" => Stream!Last(rcvd[p]) <= conn[p].taken
  /\ copy[p] = "write" => Stream!Last(rcvd[p]) < conn[p].taken
  /\ \A i \in DOMAIN out[p] :
       /\ Stream!Last(rcvd[p]) < out[p][i]
       /\ out[p][i] <= conn[p].taken
       /\ copy[p] = "write" => out[p][i] < conn[p].taken
       /\ \A j \in DOMAIN out[p] : i < j => out[p][i] < out[p][j]

(* Without an eager peer there is no gap among them. *)
Gapless(p) ==
  ~eager[p] =>
    /\ Stream!Last(rcvd[p]) = Len(rcvd[p])
    /\ \A i \in DOMAIN out[p] : out[p][i] = Len(rcvd[p]) + i
    /\ ~conn[Other(p)].gone /\ conn[Other(p)].sock # "closed" =>
         /\ copy[p] = "read" => conn[p].taken = Len(rcvd[p]) + Len(out[p])
         /\ copy[p] = "write" => conn[p].taken = Len(rcvd[p]) + Len(out[p]) + 1

(* A peer that has been shown the end is sent nothing more. *)
EndIsLast(p) ==
  saw[p] => /\ out[Other(p)] = <<>>
            /\ conn[p].shutW \/ conn[p].sock = "closed"

(* A copy of a tunnel ends behind the last item of its peer, and only then *)
(* are its connections shut or closed; copies that wait for each other are *)
(* both through when the tunnel is closed.                                 *)
TunnelInv(p) ==
  mode \in Tunnels =>
    /\ \A i \in DOMAIN conn[p].sent : conn[p].sent[i] = "data"
    /\ main = "relay" => conn[p].sock = "open"
    /\ main \in {"closing", "done"} => copy[p] = "done"
    /\ mode = "half" => main \notin {"closing", "done"}
    /\ copy[p] \in {"read", "write", "ended"}
         => ~conn[p].shutR /\ ~conn[Other(p)].shutW
    /\ copy[p] # "failed"
    /\ Intact /\ copy[p] \in {"ended", "shutR", "done"} =>
         /\ conn[p].fin /\ conn[p].taken = Len(conn[p].sent)
         /\ eager[p] \/ Len(rcvd[p]) + Len(out[p]) = conn[p].taken

(* The inductive invariant. *)
FlowInv == \A p \in Peers : Rising(p) /\ Gapless(p) /\ EndIsLast(p) /\ TunnelInv(p)
Inv == TypeOK /\ SetupInv /\ FlowInv

-----------------------------------------------------------------------------
(* Peers come in a pair. *)
LEMMA Pair ==
  /\ Peers = {"client", "target"}
  /\ Other("client") = "target" /\ Other("target") = "client"
  /\ \A p \in Peers : Other(p) \in Peers /\ Other(p) # p /\ Other(Other(p)) = p
BY DEF Peers, Other

(* The proxy's side of a connection, and what a step leaves of it. *)
Ends == [sock : {"none", "open", "closed"}, sent : Seq(Items), taken : Nat,
         fin : BOOLEAN, gone : BOOLEAN, shutR : BOOLEAN, shutW : BOOLEAN]

SameSock == \A p \in Peers : conn'[p].sock = conn[p].sock
SameSent == \A p \in Peers : conn'[p].sent = conn[p].sent
SameTaken == \A p \in Peers : conn'[p].taken = conn[p].taken
SameFin == \A p \in Peers : conn'[p].fin = conn[p].fin
SameGone == \A p \in Peers : conn'[p].gone = conn[p].gone
SameShutR == \A p \in Peers : conn'[p].shutR = conn[p].shutR
SameShutW == \A p \in Peers : conn'[p].shutW = conn[p].shutW

(* Closing connections changes nothing but their sockets. *)
LEMMA Closing ==
  ASSUME conn \in [Peers -> Ends], NEW ps, CloseConns(ps)
  PROVE  /\ conn' \in [Peers -> Ends]
         /\ SameSent /\ SameTaken /\ SameFin /\ SameGone /\ SameShutR
         /\ SameShutW
         /\ \A p \in Peers :
              conn'[p].sock = IF p \in ps THEN "closed" ELSE conn[p].sock
BY DEF CloseConns, Closed, Ends, SameSent, SameTaken, SameFin, SameGone,
       SameShutR, SameShutW

(* Nor does an update of a field change the others or another connection. *)
LEMMA Opening ==
  ASSUME conn \in [Peers -> Ends], NEW q \in Peers,
         conn' = [conn EXCEPT ![q].sock = "open"]
  PROVE  /\ conn' \in [Peers -> Ends]
         /\ SameSent /\ SameTaken /\ SameFin /\ SameGone
         /\ SameShutR /\ SameShutW
         /\ \A p \in Peers :
              conn'[p].sock = IF p = q THEN "open" ELSE conn[p].sock
<1> DEFINE d == [conn[q] EXCEPT !.sock = "open"]
<1>1. conn' = [conn EXCEPT ![q] = d] /\ conn[q] \in Ends
  OBVIOUS
<1>2. d \in Ends /\ d.sock = "open"
  BY <1>1 DEF Ends
<1>3. /\ d.sent = conn[q].sent /\ d.taken = conn[q].taken /\ d.fin = conn[q].fin
      /\ d.gone = conn[q].gone /\ d.shutR = conn[q].shutR /\ d.shutW = conn[q].shutW
  BY <1>1 DEF Ends
<1> HIDE DEF d
<1>4. /\ conn' \in [Peers -> Ends] /\ conn'[q] = d
      /\ \A p \in Peers : p # q => conn'[p] = conn[p]
  BY <1>1, <1>2
<1> QED
  BY <1>2, <1>3, <1>4 DEF SameSent, SameTaken, SameFin, SameGone, SameShutR, SameShutW

(* A copy takes an item. *)
LEMMA Taking ==
  ASSUME conn \in [Peers -> Ends], NEW q \in Peers,
         NEW x \in Nat, conn' = [conn EXCEPT ![q].taken = x]
  PROVE  /\ conn' \in [Peers -> Ends]
         /\ SameSock /\ SameSent /\ SameFin /\ SameGone
         /\ SameShutR /\ SameShutW
         /\ \A p \in Peers :
              conn'[p].taken = IF p = q THEN x ELSE conn[p].taken
<1> DEFINE d == [conn[q] EXCEPT !.taken = x]
<1>1. conn' = [conn EXCEPT ![q] = d] /\ conn[q] \in Ends
  OBVIOUS
<1>2. d \in Ends /\ d.taken = x
  BY <1>1 DEF Ends
<1>3. /\ d.sock = conn[q].sock /\ d.sent = conn[q].sent /\ d.fin = conn[q].fin
      /\ d.gone = conn[q].gone /\ d.shutR = conn[q].shutR /\ d.shutW = conn[q].shutW
  BY <1>1 DEF Ends
<1> HIDE DEF d
<1>4. /\ conn' \in [Peers -> Ends] /\ conn'[q] = d
      /\ \A p \in Peers : p # q => conn'[p] = conn[p]
  BY <1>1, <1>2
<1> QED
  BY <1>2, <1>3, <1>4 DEF SameSock, SameSent, SameFin, SameGone, SameShutR, SameShutW

(* A peer sends one. *)
LEMMA Sending ==
  ASSUME conn \in [Peers -> Ends], NEW q \in Peers,
         NEW x \in Seq(Items), conn' = [conn EXCEPT ![q].sent = x]
  PROVE  /\ conn' \in [Peers -> Ends]
         /\ SameSock /\ SameTaken /\ SameFin /\ SameGone
         /\ SameShutR /\ SameShutW
         /\ \A p \in Peers :
              conn'[p].sent = IF p = q THEN x ELSE conn[p].sent
<1> DEFINE d == [conn[q] EXCEPT !.sent = x]
<1>1. conn' = [conn EXCEPT ![q] = d] /\ conn[q] \in Ends
  OBVIOUS
<1>2. d \in Ends /\ d.sent = x
  BY <1>1 DEF Ends
<1>3. /\ d.sock = conn[q].sock /\ d.taken = conn[q].taken /\ d.fin = conn[q].fin
      /\ d.gone = conn[q].gone /\ d.shutR = conn[q].shutR /\ d.shutW = conn[q].shutW
  BY <1>1 DEF Ends
<1> HIDE DEF d
<1>4. /\ conn' \in [Peers -> Ends] /\ conn'[q] = d
      /\ \A p \in Peers : p # q => conn'[p] = conn[p]
  BY <1>1, <1>2
<1> QED
  BY <1>2, <1>3, <1>4 DEF SameSock, SameTaken, SameFin, SameGone, SameShutR, SameShutW

(* A peer ends its stream. *)
LEMMA Finishing ==
  ASSUME conn \in [Peers -> Ends], NEW q \in Peers,
         conn' = [conn EXCEPT ![q].fin = TRUE]
  PROVE  /\ conn' \in [Peers -> Ends]
         /\ SameSock /\ SameSent /\ SameTaken /\ SameGone
         /\ SameShutR /\ SameShutW
         /\ \A p \in Peers :
              conn'[p].fin = IF p = q THEN TRUE ELSE conn[p].fin
<1> DEFINE d == [conn[q] EXCEPT !.fin = TRUE]
<1>1. conn' = [conn EXCEPT ![q] = d] /\ conn[q] \in Ends
  OBVIOUS
<1>2. d \in Ends /\ d.fin = TRUE
  BY <1>1 DEF Ends
<1>3. /\ d.sock = conn[q].sock /\ d.sent = conn[q].sent /\ d.taken = conn[q].taken
      /\ d.gone = conn[q].gone /\ d.shutR = conn[q].shutR /\ d.shutW = conn[q].shutW
  BY <1>1 DEF Ends
<1> HIDE DEF d
<1>4. /\ conn' \in [Peers -> Ends] /\ conn'[q] = d
      /\ \A p \in Peers : p # q => conn'[p] = conn[p]
  BY <1>1, <1>2
<1> QED
  BY <1>2, <1>3, <1>4 DEF SameSock, SameSent, SameTaken, SameGone, SameShutR, SameShutW

(* A peer is lost. *)
LEMMA Vanishing ==
  ASSUME conn \in [Peers -> Ends], NEW q \in Peers,
         conn' = [conn EXCEPT ![q].gone = TRUE, ![q].fin = TRUE]
  PROVE  /\ conn' \in [Peers -> Ends]
         /\ SameSock /\ SameSent /\ SameTaken /\ SameShutR
         /\ SameShutW
         /\ \A p \in Peers :
              conn'[p].gone = IF p = q THEN TRUE ELSE conn[p].gone
         /\ \A p \in Peers :
              conn'[p].fin = IF p = q THEN TRUE ELSE conn[p].fin
<1> DEFINE d == [conn[q] EXCEPT !.gone = TRUE, !.fin = TRUE]
<1>1. conn' = [conn EXCEPT ![q] = d] /\ conn[q] \in Ends
  OBVIOUS
<1>2. d \in Ends /\ d.gone = TRUE /\ d.fin = TRUE
  BY <1>1 DEF Ends
<1>3. /\ d.sock = conn[q].sock /\ d.sent = conn[q].sent /\ d.taken = conn[q].taken
      /\ d.shutR = conn[q].shutR /\ d.shutW = conn[q].shutW
  BY <1>1 DEF Ends
<1> HIDE DEF d
<1>4. /\ conn' \in [Peers -> Ends] /\ conn'[q] = d
      /\ \A p \in Peers : p # q => conn'[p] = conn[p]
  BY <1>1, <1>2
<1> QED
  BY <1>2, <1>3, <1>4 DEF SameSock, SameSent, SameTaken, SameShutR, SameShutW

(* CloseRead. *)
LEMMA ShuttingR ==
  ASSUME conn \in [Peers -> Ends], NEW q \in Peers,
         conn' = [conn EXCEPT ![q].shutR = TRUE]
  PROVE  /\ conn' \in [Peers -> Ends]
         /\ SameSock /\ SameSent /\ SameTaken /\ SameFin
         /\ SameGone /\ SameShutW
         /\ \A p \in Peers :
              conn'[p].shutR = IF p = q THEN TRUE ELSE conn[p].shutR
<1> DEFINE d == [conn[q] EXCEPT !.shutR = TRUE]
<1>1. conn' = [conn EXCEPT ![q] = d] /\ conn[q] \in Ends
  OBVIOUS
<1>2. d \in Ends /\ d.shutR = TRUE
  BY <1>1 DEF Ends
<1>3. /\ d.sock = conn[q].sock /\ d.sent = conn[q].sent /\ d.taken = conn[q].taken
      /\ d.fin = conn[q].fin /\ d.gone = conn[q].gone /\ d.shutW = conn[q].shutW
  BY <1>1 DEF Ends
<1> HIDE DEF d
<1>4. /\ conn' \in [Peers -> Ends] /\ conn'[q] = d
      /\ \A p \in Peers : p # q => conn'[p] = conn[p]
  BY <1>1, <1>2
<1> QED
  BY <1>2, <1>3, <1>4 DEF SameSock, SameSent, SameTaken, SameFin, SameGone, SameShutW

(* CloseWrite. *)
LEMMA ShuttingW ==
  ASSUME conn \in [Peers -> Ends], NEW q \in Peers,
         conn' = [conn EXCEPT ![q].shutW = TRUE]
  PROVE  /\ conn' \in [Peers -> Ends]
         /\ SameSock /\ SameSent /\ SameTaken /\ SameFin
         /\ SameGone /\ SameShutR
         /\ \A p \in Peers :
              conn'[p].shutW = IF p = q THEN TRUE ELSE conn[p].shutW
<1> DEFINE d == [conn[q] EXCEPT !.shutW = TRUE]
<1>1. conn' = [conn EXCEPT ![q] = d] /\ conn[q] \in Ends
  OBVIOUS
<1>2. d \in Ends /\ d.shutW = TRUE
  BY <1>1 DEF Ends
<1>3. /\ d.sock = conn[q].sock /\ d.sent = conn[q].sent /\ d.taken = conn[q].taken
      /\ d.fin = conn[q].fin /\ d.gone = conn[q].gone /\ d.shutR = conn[q].shutR
  BY <1>1 DEF Ends
<1> HIDE DEF d
<1>4. /\ conn' \in [Peers -> Ends] /\ conn'[q] = d
      /\ \A p \in Peers : p # q => conn'[p] = conn[p]
  BY <1>1, <1>2
<1> QED
  BY <1>2, <1>3, <1>4 DEF SameSock, SameSent, SameTaken, SameFin, SameGone, SameShutR

-----------------------------------------------------------------------------
(* The pieces of TypeOK, by the names the proofs use. *)
LEMMA Types ==
  ASSUME TypeOK
  PROVE  /\ mode \in Modes /\ mode \in {"half", "wait", "ws", "wss", "h2"}
         /\ conn \in [Peers -> Ends]
         /\ \A p \in Peers : /\ conn[p].sock \in {"none", "open", "closed"}
                             /\ conn[p].sent \in Seq(Items)
                             /\ conn[p].taken \in Nat
                             /\ Len(conn[p].sent) \in Nat
BY RelayAssumption DEF TypeOK, Ends

(* Nothing has been received at first. *)
LEMMA LastOfNone == Stream!Last(<<>>) = 0
BY DEF Stream!Last

(* A step of setup that leaves the copies where they are keeps the flow of *)
(* items: there are none yet.                                              *)
LEMMA SetupFlow ==
  ASSUME Inv, main \in Setting, main' \in Setting \cup {"failed"},
         UNCHANGED <<mode, copy, errs, out, rcvd, saw, eager>>,
         conn' \in [Peers -> Ends],
         SameSent, SameFin, SameGone, SameShutR, SameShutW,
         \A p \in Peers : conn[p].sock = "closed" => conn'[p].sock = "closed",
         \A p \in Peers : conn'[p].taken <= Len(conn'[p].sent)
  PROVE  TypeOK' /\ FlowInv'
<1>1. TypeOK'
  BY DEF Inv, TypeOK, Ends, Setting, SetupInv
<1> SUFFICES ASSUME NEW p \in Peers
             PROVE  Rising(p)' /\ Gapless(p)' /\ EndIsLast(p)' /\ TunnelInv(p)'
  BY <1>1 DEF FlowInv
<1>2. /\ copy[p] = "none" /\ out[p] = <<>> /\ rcvd[p] = <<>>
      /\ conn'[p].taken \in Nat /\ Other(p) \in Peers
      /\ EndIsLast(p) /\ TunnelInv(p)
  BY Pair DEF Inv, SetupInv, FlowInv, Setting, Ends
<1>3. Rising(p)' /\ Gapless(p)'
  BY <1>2, LastOfNone DEF Rising, Gapless
<1>4. EndIsLast(p)'
  BY <1>2 DEF EndIsLast, SameShutW
<1>5. TunnelInv(p)'
  BY <1>2 DEF TunnelInv, SameSent, Setting
<1> QED
  BY <1>3, <1>4, <1>5

(* The dial or what follows it fails. *)
LEMMA SetupFailsInv ==
  ASSUME Inv, main \in Setting, NEW ps, SetupFails(ps),
         UNCHANGED <<mode, copy, errs, out, rcvd, saw, eager>>
  PROVE  Inv'
<1>1. TypeOK /\ SetupInv
  BY DEF Inv
<1>2. PICK qs : main' = "failed" /\ CloseConns(qs)
  BY DEF SetupFails
<1>3. /\ conn' \in [Peers -> Ends]
      /\ SameSent /\ SameTaken /\ SameFin /\ SameGone /\ SameShutR /\ SameShutW
      /\ \A p \in Peers : conn[p].sock = "closed" => conn'[p].sock = "closed"
  BY <1>1, <1>2, Types, Closing
<1>4. \A p \in Peers : conn'[p].taken <= Len(conn'[p].sent)
  BY <1>1, <1>3 DEF TypeOK, SameTaken, SameSent
<1>5. TypeOK' /\ FlowInv'
  BY <1>2, <1>3, <1>4, SetupFlow
<1>6. SetupInv'
  BY <1>1, <1>2, <1>3, Pair
     DEF SetupInv, AtRisk, SameTaken, SameShutR, SameShutW, Setting
<1> QED
  BY <1>5, <1>6 DEF Inv

(* A reader is dropped: what it takes with it was sent by an eager peer. *)
LEMMA SwallowTakes ==
  ASSUME Inv, main \in Setting, NEW q \in Peers, NEW k \in Arrived(q),
         Swallow(q, k), AtRisk(q) \/ k = 0
  PROVE  /\ conn' \in [Peers -> Ends]
         /\ SameSock /\ SameSent /\ SameFin /\ SameGone /\ SameShutR /\ SameShutW
         /\ \A p \in Peers : /\ conn'[p].taken <= Len(conn'[p].sent)
                             /\ eager[p] \/ conn'[p].taken = 0
<1>1. TypeOK /\ SetupInv
  BY DEF Inv
<1> DEFINE n == conn[q].taken + k
<1>2. n \in Nat /\ n <= Len(conn[q].sent)
  BY <1>1, Types DEF Arrived
<1>3. eager[q] \/ n = 0
  <2>1. eager[q] \/ conn[q].taken = 0
    BY <1>1 DEF SetupInv, Setting
  <2>2. eager[q] \/ k = 0
    <3>1. CASE conn[q].sent = <<>>
      BY <1>2, <3>1, <1>1, Types DEF Arrived
    <3>2. CASE conn[q].sent # <<>>
      BY <1>1, <3>2 DEF SetupInv
    <3> QED
      BY <3>1, <3>2
  <2> QED
    BY <2>1, <2>2, <1>1, Types
<1>4. conn' = [conn EXCEPT ![q].taken = n]
  BY DEF Swallow
<1> HIDE DEF n
<1>5. /\ conn' \in [Peers -> Ends]
      /\ SameSock /\ SameSent /\ SameFin /\ SameGone /\ SameShutR /\ SameShutW
      /\ \A p \in Peers : conn'[p].taken = IF p = q THEN n ELSE conn[p].taken
  BY <1>1, <1>2, <1>4, Types, Taking
<1>6. \A p \in Peers : eager[p] \/ conn[p].taken = 0
  BY <1>1 DEF SetupInv, Setting
<1> QED
  BY <1>1, <1>2, <1>3, <1>5, <1>6 DEF TypeOK, SameSent

(* The client is hijacked; what its reader has buffered is lost. *)
LEMMA HijackInv == ASSUME Inv, Hijack PROVE Inv'
<1>1. main = "hijack" /\ main \in Setting
  BY DEF Hijack, Setting
<1>2. UNCHANGED <<mode, copy, errs, out, rcvd, saw, eager>>
  BY DEF Hijack
<1>3. CASE SetupFails({"target"})
  BY <1>1, <1>2, <1>3, SetupFailsInv
<1>4. CASE /\ \E k \in Arrived("client") : /\ mode = "h2" => k = 0
                                           /\ Swallow("client", k)
           /\ main' = (IF mode = "ws" THEN "hello" ELSE "dial")
  <2>1. PICK k \in Arrived("client") : /\ mode = "h2" => k = 0
                                       /\ Swallow("client", k)
    BY <1>4
  <2>2. AtRisk("client") \/ k = 0
    BY <1>1, <2>1 DEF AtRisk
  <2>3. /\ conn' \in [Peers -> Ends]
        /\ SameSock /\ SameSent /\ SameFin /\ SameGone /\ SameShutR /\ SameShutW
        /\ \A p \in Peers : /\ conn'[p].taken <= Len(conn'[p].sent)
                            /\ eager[p] \/ conn'[p].taken = 0
    BY <1>1, <2>1, <2>2, Pair, SwallowTakes
  <2>4. TypeOK' /\ FlowInv'
    BY <1>1, <1>2, <1>4, <2>3, SetupFlow DEF Setting, SameSock
  <2>5. SetupInv'
    BY <1>1, <1>2, <1>4, <2>3, Pair
       DEF Inv, SetupInv, AtRisk, SameSock, SameSent, SameShutR, SameShutW,
           Setting
  <2> QED
    BY <2>4, <2>5 DEF Inv
<1> QED
  BY <1>3, <1>4 DEF Hijack

(* The remote end is dialled, or that fails. *)
LEMMA DialInv == ASSUME Inv, Dial PROVE Inv'
<1>1. main = "dial" /\ main \in Setting
  BY DEF Dial, Setting
<1>2. UNCHANGED <<mode, copy, errs, out, rcvd, saw, eager>>
  BY DEF Dial
<1>3. CASE SetupFails({})
  BY <1>1, <1>2, <1>3, SetupFailsInv
<1>4. CASE /\ main' \in {Connected} \cup (IF mode = "h2" THEN {} ELSE {"ask"})
           /\ conn' = [conn EXCEPT !["target"].sock = "open"]
  <2>1. /\ conn' \in [Peers -> Ends]
        /\ SameSent /\ SameTaken /\ SameFin /\ SameGone /\ SameShutR /\ SameShutW
        /\ \A p \in Peers :
             conn'[p].sock = IF p = "target" THEN "open" ELSE conn[p].sock
    BY <1>4, Types, Opening, Pair DEF Inv
  <2>2. conn["target"].sock = "none" /\ conn["target"].sent = <<>>
    BY <1>1 DEF Inv, SetupInv
  <2>3. \A p \in Peers : conn'[p].taken <= Len(conn'[p].sent)
    BY <2>1 DEF Inv, TypeOK, SameTaken, SameSent
  <2>4. main' \in Setting
    BY <1>4 DEF Connected, Setting
  <2>5. TypeOK' /\ FlowInv'
    BY <1>1, <1>2, <2>1, <2>2, <2>3, <2>4, SetupFlow
  <2>6. SetupInv'
    BY <1>1, <1>2, <1>4, <2>1, <2>2, <2>4, Pair
       DEF Inv, SetupInv, AtRisk, Connected, SameTaken, SameSent, SameShutR,
           SameShutW, Setting
  <2> QED
    BY <2>5, <2>6 DEF Inv
<1> QED
  BY <1>3, <1>4 DEF Dial

(* The upstream proxy answers the CONNECT. *)
LEMMA ConnectAnswerInv == ASSUME Inv, ConnectAnswer PROVE Inv'
<1>1. main = "ask" /\ main \in Setting
  BY DEF ConnectAnswer, Setting
<1>2. UNCHANGED <<mode, copy, errs, out, rcvd, saw, eager>>
  BY DEF ConnectAnswer
<1>3. CASE SetupFails({}) \/ SetupFails({"target"})
  BY <1>1, <1>2, <1>3, SetupFailsInv
<1>4. CASE main' = Connected /\ \E k \in Arrived("target") : Swallow("target", k)
  <2>1. PICK k \in Arrived("target") : Swallow("target", k)
    BY <1>4
  <2>2. AtRisk("target")
    BY <1>1 DEF AtRisk
  <2>3. /\ conn' \in [Peers -> Ends]
        /\ SameSock /\ SameSent /\ SameFin /\ SameGone /\ SameShutR /\ SameShutW
        /\ \A p \in Peers : /\ conn'[p].taken <= Len(conn'[p].sent)
                            /\ eager[p] \/ conn'[p].taken = 0
    BY <1>1, <2>1, <2>2, Pair, SwallowTakes
  <2>4. main' \in Setting
    BY <1>4 DEF Connected, Setting
  <2>5. TypeOK' /\ FlowInv'
    BY <1>1, <1>2, <2>3, <2>4, SetupFlow DEF SameSock
  <2>6. SetupInv'
    BY <1>1, <1>2, <1>4, <2>3, <2>4, Pair
       DEF Inv, SetupInv, AtRisk, Connected, SameSock, SameSent, SameShutR,
           SameShutW, Setting
  <2> QED
    BY <2>5, <2>6 DEF Inv
<1> QED
  BY <1>3, <1>4 DEF ConnectAnswer

(* The websocket or TLS handshake with the remote end. *)
LEMMA HandshakeInv == ASSUME Inv, Handshake PROVE Inv'
<1>1. main = "hello" /\ main \in Setting
  BY DEF Handshake, Setting
<1>2. UNCHANGED <<mode, errs, out, rcvd, saw, eager>>
  BY DEF Handshake
<1>3. CASE SetupFails({"target"}) /\ UNCHANGED copy
  BY <1>1, <1>2, <1>3, SetupFailsInv
<1>4. CASE /\ \E k \in Arrived("target") : /\ mode \notin {"ws", "wss"} => k = 0
                                           /\ Swallow("target", k)
           /\ main' = "relay"
           /\ copy' = [p \in Peers |-> "read"]
  <2>1. PICK k \in Arrived("target") : /\ mode \notin {"ws", "wss"} => k = 0
                                       /\ Swallow("target", k)
    BY <1>4
  <2>2. AtRisk("target") \/ k = 0
    BY <1>1, <2>1 DEF AtRisk
  <2>3. /\ conn' \in [Peers -> Ends]
        /\ SameSock /\ SameSent /\ SameFin /\ SameGone /\ SameShutR /\ SameShutW
        /\ \A p \in Peers : /\ conn'[p].taken <= Len(conn'[p].sent)
                            /\ eager[p] \/ conn'[p].taken = 0
    BY <1>1, <2>1, <2>2, Pair, SwallowTakes
  <2>4. TypeOK'
    BY <1>1, <1>2, <1>4, <2>3 DEF Inv, TypeOK, Ends
  <2>5. SetupInv'
    BY <1>1, <1>2, <1>4, <2>3 DEF Inv, SetupInv, AtRisk, Setting
  <2>6. ASSUME NEW p \in Peers
        PROVE  Rising(p)' /\ Gapless(p)' /\ EndIsLast(p)' /\ TunnelInv(p)'
    <3>1. /\ copy[p] = "none" /\ out[p] = <<>> /\ rcvd[p] = <<>>
          /\ conn'[p].taken \in Nat /\ Other(p) \in Peers
          /\ EndIsLast(p) /\ TunnelInv(p)
          /\ ~conn[p].shutR /\ ~conn[Other(p)].shutW
          /\ conn[p].sock = "open"
      BY <1>1, <2>3, Pair DEF Inv, SetupInv, FlowInv, Setting, Ends
    <3>2. copy'[p] = "read"
      BY <1>4
    <3>3. Rising(p)' /\ Gapless(p)'
      BY <1>2, <2>3, <3>1, <3>2, LastOfNone DEF Rising, Gapless
    <3>4. EndIsLast(p)'
      BY <1>2, <2>3, <3>1 DEF EndIsLast, SameShutW, SameSock
    <3>5. TunnelInv(p)'
      BY <1>2, <1>4, <2>3, <3>1, <3>2
         DEF TunnelInv, SameSent, SameSock, SameShutR, SameShutW
    <3> QED
      BY <3>3, <3>4, <3>5
  <2> QED
    BY <2>4, <2>5, <2>6 DEF Inv, FlowInv
<1> QED
  BY <1>3, <1>4 DEF Handshake

-----------------------------------------------------------------------------
(* Steps behind the setup. *)
Running == {"relay", "closing", "done"}

(* A copy runs only once the setup is through, and then both do. *)
LEMMA AfterSetup ==
  ASSUME Inv, NEW p \in Peers, copy[p] # "none"
  PROVE  /\ main \in Running
         /\ \A q \in Peers : copy[q] # "none"
BY DEF Inv, TypeOK, SetupInv, Setting, Running

(* Behind the setup SetupInv comes down to the number of errors. *)
LEMMA RunningSetup ==
  ASSUME Inv, UNCHANGED mode, main' \in Running,
         \A p \in Peers : copy'[p] # "none",
         mode = "h2" /\ main' = "relay" => errs' <= 1
  PROVE  SetupInv'
BY DEF SetupInv, AtRisk, Running, Setting

(* What the invariant says of peer p. *)
Known(p) ==
  /\ Rising(p) /\ Gapless(p) /\ EndIsLast(p) /\ TunnelInv(p)
  /\ Other(p) \in Peers /\ Other(p) # p /\ Other(Other(p)) = p
  /\ conn[p].sock \in {"none", "open", "closed"}
  /\ conn[p].sent \in Seq(Items) /\ Len(conn[p].sent) \in Nat
  /\ conn[p].taken \in Nat /\ conn[p].taken <= Len(conn[p].sent)
  /\ out[p] \in Seq(Nat) /\ rcvd[p] \in Seq(Nat)
  /\ Len(out[p]) \in Nat /\ Len(rcvd[p]) \in Nat
  /\ copy[p] = "write" => conn[p].taken > 0
  /\ Len(out[p]) <= Room
  /\ mode = "h2" /\ main = "relay" => errs <= 1

(* The invariant says so of each. *)
LEMMA Parts == ASSUME Inv, NEW p \in Peers PROVE Known(p)
<1>1. /\ Rising(p) /\ Gapless(p) /\ EndIsLast(p) /\ TunnelInv(p)
      /\ mode = "h2" /\ main = "relay" => errs <= 1
  BY DEF Inv, FlowInv, SetupInv
<1>2. TypeOK
  BY DEF Inv
<1>3. /\ conn[p].taken <= Len(conn[p].sent)
      /\ copy[p] = "write" => conn[p].taken > 0
      /\ Len(out[p]) <= Room
      /\ out[p] \in Seq(Nat) /\ rcvd[p] \in Seq(Nat)
  BY <1>2 DEF TypeOK
<1> QED
  BY <1>1, <1>2, <1>3, Pair, Types DEF Known

Places == {"none", "read", "write", "ended", "failed", "shutR", "done"}

(* What a step behind the setup has to keep. *)
LEMMA RunStep ==
  ASSUME Inv, UNCHANGED <<mode, eager>>, main' \in Running,
         conn' \in [Peers -> Ends], copy' \in [Peers -> Places],
         errs' \in 0..2, out' \in [Peers -> Seq(Nat)],
         rcvd' \in [Peers -> Seq(Nat)], saw' \in [Peers -> BOOLEAN],
         mode = "h2" /\ main' = "relay" => errs' <= 1,
         \A p \in Peers : /\ conn'[p].taken <= Len(conn'[p].sent)
                          /\ copy'[p] = "write" => conn'[p].taken > 0
                          /\ copy'[p] # "none"
                          /\ Len(out'[p]) <= Room,
         \A p \in Peers :
           Rising(p)' /\ Gapless(p)' /\ EndIsLast(p)' /\ TunnelInv(p)'
  PROVE  Inv'
<1>1. TypeOK'
  BY DEF Inv, TypeOK, Ends, Running, Places
<1>2. SetupInv'
  BY RunningSetup
<1> QED
  BY <1>1, <1>2 DEF Inv, FlowInv

(* A copy comes to its end, or goes on from there, without a look at the   *)
(* connections.                                                            *)
LEMMA CopyMoves ==
  ASSUME Inv, NEW q \in Peers, copy[q] # "none",
         NEW pc \in {"ended", "failed", "shutR", "done"}, CopyTo(q, pc),
         UNCHANGED <<mode, main, conn, out, rcvd, saw, eager>>,
         errs' \in 0..2, mode = "h2" /\ main = "relay" => errs' <= 1,
         mode \in Tunnels =>
           /\ copy[q] # "done" /\ pc # "failed"
           /\ pc = "ended" => ~conn[q].shutR /\ ~conn[Other(q)].shutW
           /\ Intact => /\ conn[q].fin /\ conn[q].taken = Len(conn[q].sent)
                        /\ \/ eager[q]
                           \/ Len(rcvd[q]) + Len(out[q]) = conn[q].taken
  PROVE  Inv'
<1>1. TypeOK /\ main \in Running /\ \A p \in Peers : copy[p] # "none"
  BY AfterSetup DEF Inv
<1>2. /\ copy' \in [Peers -> Places]
      /\ \A p \in Peers : copy'[p] = IF p = q THEN pc ELSE copy[p]
  BY <1>1 DEF CopyTo, TypeOK, Places
<1>3. /\ conn' \in [Peers -> Ends] /\ out' \in [Peers -> Seq(Nat)]
      /\ rcvd' \in [Peers -> Seq(Nat)] /\ saw' \in [Peers -> BOOLEAN]
  BY <1>1 DEF TypeOK, Ends
<1>4. ASSUME NEW p \in Peers
      PROVE  /\ conn'[p].taken <= Len(conn'[p].sent)
             /\ copy'[p] = "write" => conn'[p].taken > 0
             /\ copy'[p] # "none"
             /\ Len(out'[p]) <= Room
             /\ Rising(p)' /\ Gapless(p)' /\ EndIsLast(p)' /\ TunnelInv(p)'
  <2>1. Known(p)
    BY Parts
  <2>2. Rising(p)'
    BY <1>2, <2>1 DEF Rising, Known
  <2>3. Gapless(p)'
    BY <1>2, <2>1 DEF Gapless, Known
  <2>4. EndIsLast(p)'
    BY <2>1 DEF EndIsLast, Known
  <2>5. TunnelInv(p)'
    <3>1. mode \in Tunnels /\ p = q => main = "relay"
      BY <1>1, <2>1 DEF Known, TunnelInv, Running
    <3> QED
      BY <1>1, <1>2, <2>1, <3>1 DEF TunnelInv, Known, Intact
  <2> QED
    BY <1>1, <1>2, <2>1, <2>2, <2>3, <2>4, <2>5 DEF Known
<1> QED
  BY <1>1, <1>2, <1>3, <1>4, RunStep

(* A copy takes the next item, or sees the end or an error. *)
LEMMA CopyReadInv == ASSUME Inv, NEW q \in Peers, CopyRead(q) PROVE Inv'
<1>1. copy[q] = "read" /\ UNCHANGED <<mode, main, errs, out, rcvd, saw, eager>>
  BY DEF CopyRead
<1>2. TypeOK /\ Known(q)
  BY Parts DEF Inv
<1>3. main \in Running /\ \A p \in Peers : copy[p] # "none"
  BY <1>1, AfterSetup
<1>4. CASE /\ HasItem(q)
           /\ IF conn[q].sent[conn[q].taken + 1] = "bad" THEN CopyFails(q)
              ELSE CopyTo(q, "write")
           /\ conn' = [conn EXCEPT ![q].taken = @ + 1]
  <2>1. PICK pc \in {"write", "failed", "ended"} :
          copy' = [copy EXCEPT ![q] = pc] /\ (mode \in Tunnels => pc = "write")
    <3>1. mode \in Tunnels => conn[q].sent[conn[q].taken + 1] = "data"
      BY <1>2, <1>4 DEF HasItem, TunnelInv, Known
    <3> QED
      BY <1>4, <3>1 DEF CopyTo, CopyFails
  <2> DEFINE n == conn[q].taken + 1
  <2>2. n \in Nat /\ n <= Len(conn[q].sent)
    BY <1>2, <1>4 DEF HasItem, Known
  <2>3. conn' = [conn EXCEPT ![q].taken = n]
    BY <1>4
  <2>4. /\ conn' \in [Peers -> Ends]
        /\ SameSock /\ SameSent /\ SameFin /\ SameGone /\ SameShutR /\ SameShutW
        /\ \A p \in Peers : conn'[p].taken = IF p = q THEN n ELSE conn[p].taken
    <3> HIDE DEF n
    <3> QED
      BY <1>2, <2>2, <2>3, Types, Taking
  <2>5. copy' \in [Peers -> Places]
    BY <1>2, <2>1 DEF TypeOK, Places
  <2>6. \A p \in Peers : copy'[p] = IF p = q THEN pc ELSE copy[p]
    BY <1>2, <2>1 DEF TypeOK
  <2>7. /\ errs' \in 0..2 /\ out' \in [Peers -> Seq(Nat)]
        /\ rcvd' \in [Peers -> Seq(Nat)] /\ saw' \in [Peers -> BOOLEAN]
    BY <1>1, <1>2 DEF TypeOK
  <2>8. ASSUME NEW p \in Peers
        PROVE  /\ conn'[p].taken <= Len(conn'[p].sent)
               /\ copy'[p] = "write" => conn'[p].taken > 0
               /\ copy'[p] # "none" /\ Len(out'[p]) <= Room
               /\ Rising(p)' /\ Gapless(p)' /\ EndIsLast(p)' /\ TunnelInv(p)'
    <3>1. Known(p)
      BY Parts
    <3>2. Rising(p)'
      BY <1>1, <2>4, <2>6, <3>1 DEF Rising, Known
    <3>3. Gapless(p)'
      BY <1>1, <2>4, <2>6, <3>1 DEF Gapless, SameGone, SameSock, Known
    <3>4. EndIsLast(p)'
      BY <1>1, <2>4, <3>1 DEF EndIsLast, SameShutW, SameSock, Known
    <3>5. TunnelInv(p)'
      BY <1>1, <2>1, <2>4, <2>6, <3>1, ZenonT(30)
         DEF TunnelInv, Intact, SameSent, SameSock, SameShutR, SameShutW, SameFin,
             SameGone, Known
    <3>6. /\ conn'[p].taken <= Len(conn'[p].sent)
          /\ copy'[p] = "write" => conn'[p].taken > 0
          /\ copy'[p] # "none" /\ Len(out'[p]) <= Room
      BY <1>1, <1>2, <1>3, <2>1, <2>2, <2>4, <2>6, <3>1 DEF Known, SameSent
    <3> QED
      BY <3>2, <3>3, <3>4, <3>5, <3>6
  <2> HIDE DEF n
  <2> QED
    BY <1>1, <1>2, <1>3, <2>4, <2>5, <2>7, <2>8, RunStep DEF Known
<1>5. CASE AtEOF(q) /\ CopyTo(q, "ended") /\ UNCHANGED conn
  <2>1. mode \in Tunnels =>
          /\ ~conn[q].shutR /\ ~conn[Other(q)].shutW
          /\ Intact => /\ conn[q].fin /\ conn[q].taken = Len(conn[q].sent)
                       /\ \/ eager[q]
                          \/ Len(rcvd[q]) + Len(out[q]) = conn[q].taken
    <3>1. mode \in Tunnels => conn[Other(q)].sock = "open"
      <4>1. Known(Other(q))
        BY <1>2, Parts DEF Known
      <4> QED
        BY <1>1, <1>2, <1>3, <4>1 DEF Known, TunnelInv, Running
    <3>2. mode \in Tunnels => ~conn[q].shutR /\ ~conn[Other(q)].shutW
      BY <1>1, <1>2 DEF Known, TunnelInv
    <3> QED
      BY <1>1, <1>2, <1>5, <3>1, <3>2 DEF AtEOF, Known, Gapless, Intact
  <2>2. errs' \in 0..2 /\ (mode = "h2" /\ main = "relay" => errs' <= 1)
    BY <1>1, <1>2 DEF TypeOK, Known
  <2> QED
    BY <1>1, <1>5, <2>1, <2>2, CopyMoves
<1>6. CASE Dead(q) /\ CopyFails(q) /\ UNCHANGED conn
  <2>1. PICK pc \in {"ended", "failed"} :
          CopyTo(q, pc) /\ (mode # "h2" => pc = "ended")
    BY <1>6 DEF CopyFails
  <2>2. mode \in Tunnels =>
          pc = "ended" /\ ~conn[q].shutR /\ ~conn[Other(q)].shutW /\ ~Intact
    BY <1>1, <1>2, <1>3, <1>6, <2>1
       DEF Dead, Known, TunnelInv, Intact, Running, Tunnels
  <2>3. errs' \in 0..2 /\ (mode = "h2" /\ main = "relay" => errs' <= 1)
    BY <1>1, <1>2 DEF TypeOK, Known
  <2> QED
    BY <1>1, <1>6, <2>1, <2>2, <2>3, CopyMoves
<1> QED
  BY <1>4, <1>5, <1>6 DEF CopyRead

(* Behind a write the last item of a flow is the one that was written. *)
LEMMA Appending ==
  ASSUME NEW s \in Seq(Nat), NEW x \in Nat
  PROVE  /\ Append(s, x) \in Seq(Nat) /\ Len(Append(s, x)) = Len(s) + 1
         /\ Append(s, x)[Len(s) + 1] = x
         /\ \A i \in 1..Len(s) : Append(s, x)[i] = s[i]
         /\ DOMAIN s = 1..Len(s)
         /\ DOMAIN Append(s, x) = 1..(Len(s) + 1)
         /\ Stream!Last(Append(s, x)) = x
BY DEF Stream!Last

(* A sequence of consecutive numbers, continued by the next. *)
LEMMA GaplessAppend ==
  ASSUME NEW s \in Seq(Nat), NEW l \in Nat, NEW x \in Nat,
         \A i \in DOMAIN s : s[i] = l + i, x = l + Len(s) + 1
  PROVE  /\ \A i \in DOMAIN Append(s, x) : Append(s, x)[i] = l + i
         /\ x = l + Len(Append(s, x))
OBVIOUS

(* A copy writes the item it has taken to the other peer. *)
LEMMA CopyWriteInv == ASSUME Inv, NEW q \in Peers, CopyWrite(q) PROVE Inv'
<1> DEFINE o == Other(q)
<1>1. /\ copy[q] = "write"
      /\ UNCHANGED <<mode, main, conn, errs, rcvd, saw, eager>>
  BY DEF CopyWrite
<1>2. TypeOK /\ Known(q) /\ o \in Peers
  BY Parts DEF Inv, Known
<1>3. main \in Running /\ \A p \in Peers : copy[p] # "none"
  BY <1>1, AfterSetup
<1>4. AfterWrite(q) \in {"read", "ended"} /\ (mode \in Tunnels => AfterWrite(q) = "read")
  BY <1>1, <1>2 DEF AfterWrite, Known, TunnelInv
<1>5. /\ errs' \in 0..2 /\ (mode = "h2" /\ main = "relay" => errs' <= 1)
      /\ rcvd' \in [Peers -> Seq(Nat)] /\ saw' \in [Peers -> BOOLEAN]
      /\ conn' \in [Peers -> Ends]
  BY <1>1, <1>2 DEF TypeOK, Known, Ends
<1>6. CASE /\ ~Dead(o) /\ ~conn[o].shutW /\ Len(out[q]) < Room
           /\ out' = [out EXCEPT ![q] = Append(@, conn[q].taken)]
           /\ CopyTo(q, AfterWrite(q))
  <2>1. /\ copy' \in [Peers -> Places]
        /\ \A p \in Peers : copy'[p] = IF p = q THEN AfterWrite(q) ELSE copy[p]
    BY <1>2, <1>4, <1>6 DEF CopyTo, TypeOK, Places
  <2>2. /\ out' \in [Peers -> Seq(Nat)]
        /\ \A p \in Peers : out'[p] = IF p = q THEN Append(out[q], conn[q].taken)
                                      ELSE out[p]
    BY <1>2, <1>6 DEF TypeOK, Known
  <2>3. ASSUME NEW p \in Peers
        PROVE  /\ conn'[p].taken <= Len(conn'[p].sent)
               /\ copy'[p] = "write" => conn'[p].taken > 0
               /\ copy'[p] # "none" /\ Len(out'[p]) <= Room
               /\ Rising(p)' /\ Gapless(p)' /\ EndIsLast(p)' /\ TunnelInv(p)'
    <3>1. Known(p)
      BY Parts
    <3>2. CASE p = q
      <4>1. /\ out[q] \in Seq(Nat) /\ conn[q].taken \in Nat /\ Room \in Nat
            /\ out'[q] = Append(out[q], conn[q].taken)
            /\ Len(out[q]) \in Nat /\ Len(rcvd[q]) \in Nat
            /\ Rising(q) /\ Gapless(q) /\ EndIsLast(q) /\ TunnelInv(q)
        BY <1>2, <2>2, RelayAssumption DEF Known
      <4>2. Rising(q)'
        BY <1>1, <1>4, <2>1, <4>1, Appending, SMTT(30) DEF Rising
      <4>3. Gapless(q)'
        <5> SUFFICES ASSUME ~eager[q] PROVE Gapless(q)'
          BY <1>1 DEF Gapless
        <5>1. PICK l \in Nat : l = Len(rcvd[q])
          BY <1>2 DEF Known
        <5>2. /\ Stream!Last(rcvd[q]) = l
              /\ \A i \in DOMAIN out[q] : out[q][i] = l + i
              /\ conn[q].taken = l + Len(out[q]) + 1
          BY <1>1, <1>6, <4>1, <5>1 DEF Gapless, Dead
        <5>3. /\ \A i \in DOMAIN out'[q] : out'[q][i] = l + i
              /\ conn[q].taken = l + Len(out'[q])
          <6>1. out[q] \in Seq(Nat) /\ conn[q].taken \in Nat
            BY <4>1
          <6>2. out'[q] = Append(out[q], conn[q].taken)
            BY <4>1
          <6> QED
            BY <5>2, <6>1, <6>2, GaplessAppend
        <5>4. copy'[q] # "write"
          BY <1>4, <2>1
        <5> QED
          BY <1>1, <5>1, <5>2, <5>3, <5>4 DEF Gapless
      <4>4. EndIsLast(q)'
        BY <1>1, <1>2, <2>2, <4>1 DEF EndIsLast, Known
      <4>5. TunnelInv(q)'
        BY <1>1, <1>4, <2>1, <4>1 DEF TunnelInv, Intact
      <4>6. Len(out'[q]) <= Room
        BY <1>6, <4>1, Appending
      <4> QED
        BY <1>1, <1>2, <1>4, <2>1, <3>2, <4>2, <4>3, <4>4, <4>5, <4>6 DEF Known
    <3>3. CASE p # q
      <4>1. out'[p] = out[p] /\ copy'[p] = copy[p] /\ q = Other(p)
        BY <2>1, <2>2, <3>3, Pair
      <4>2. Rising(p)' /\ Gapless(p)'
        BY <1>1, <3>1, <4>1 DEF Rising, Gapless, Known
      <4>3. EndIsLast(p)'
        <5>1. p = o
          BY <3>3, Pair
        <5>2. ~saw[p]
          BY <1>6, <3>1, <5>1 DEF Known, EndIsLast, Dead
        <5> QED
          BY <1>1, <5>2 DEF EndIsLast
      <4>4. TunnelInv(p)'
        BY <1>1, <3>1, <4>1 DEF TunnelInv, Known, Intact
      <4> QED
        BY <1>1, <1>3, <3>1, <4>1, <4>2, <4>3, <4>4 DEF Known
    <3> QED
      BY <3>2, <3>3
  <2> QED
    BY <1>1, <1>3, <1>5, <2>1, <2>2, <2>3, RunStep
<1>7. CASE /\ conn[o].gone /\ conn[o].sock = "open"
           /\ CopyTo(q, AfterWrite(q)) /\ UNCHANGED out
  <2>1. /\ copy' \in [Peers -> Places]
        /\ \A p \in Peers : copy'[p] = IF p = q THEN AfterWrite(q) ELSE copy[p]
    BY <1>2, <1>4, <1>7 DEF CopyTo, TypeOK, Places
  <2>2. out' \in [Peers -> Seq(Nat)]
    BY <1>2, <1>7 DEF TypeOK
  <2>3. ASSUME NEW p \in Peers
        PROVE  /\ conn'[p].taken <= Len(conn'[p].sent)
               /\ copy'[p] = "write" => conn'[p].taken > 0
               /\ copy'[p] # "none" /\ Len(out'[p]) <= Room
               /\ Rising(p)' /\ Gapless(p)' /\ EndIsLast(p)' /\ TunnelInv(p)'
    <3>1. Known(p)
      BY Parts
    <3>2. Rising(p)'
      BY <1>1, <1>4, <1>7, <2>1, <3>1 DEF Rising, Known
    <3>3. Gapless(p)'
      BY <1>1, <1>7, <2>1, <3>1 DEF Gapless, Known
    <3>4. EndIsLast(p)'
      BY <1>1, <1>7, <3>1 DEF EndIsLast, Known
    <3>5. TunnelInv(p)'
      BY <1>1, <1>2, <1>4, <1>7, <2>1, <3>1 DEF TunnelInv, Known, Intact
    <3> QED
      BY <1>1, <1>3, <1>4, <1>7, <2>1, <3>1, <3>2, <3>3, <3>4, <3>5 DEF Known
  <2> QED
    BY <1>1, <1>3, <1>5, <2>1, <2>2, <2>3, RunStep
<1>8. CASE /\ Dead(o) \/ conn[o].shutW
           /\ CopyFails(q) /\ UNCHANGED out
  <2>1. PICK pc \in {"ended", "failed"} :
          CopyTo(q, pc) /\ (mode # "h2" => pc = "ended")
    BY <1>8 DEF CopyFails
  <2>2. mode \in Tunnels =>
          pc = "ended" /\ ~conn[q].shutR /\ ~conn[o].shutW /\ ~Intact
    <3>1. Known(o)
      BY <1>2, Parts
    <3> QED
      BY <1>1, <1>2, <1>3, <1>8, <2>1, <3>1
         DEF Dead, Known, TunnelInv, Intact, Running, Tunnels
  <2> QED
    BY <1>1, <1>5, <1>8, <2>1, <2>2, CopyMoves
<1> QED
  BY <1>6, <1>7, <1>8 DEF CopyWrite

(* The ends of the copies. *)
LEMMA CloseWriteInv == ASSUME Inv, NEW q \in Peers, CloseWrite(q) PROVE Inv'
<1>1. /\ mode = "half" /\ copy[q] = "ended" /\ CopyTo(q, "shutR")
      /\ UNCHANGED <<mode, main, errs, out, rcvd, saw, eager>>
  BY DEF CloseWrite
<1>2. TypeOK /\ Known(q)
  BY Parts DEF Inv
<1>3. main \in Running /\ \A p \in Peers : copy[p] # "none"
  BY <1>1, AfterSetup
<1>4. /\ conn' \in [Peers -> Ends]
      /\ SameSock /\ SameSent /\ SameTaken /\ SameFin /\ SameGone /\ SameShutR
      /\ \A p \in Peers :
           conn'[p].shutW = IF p = Other(q) THEN TRUE ELSE conn[p].shutW
  BY <1>2, Types, ShuttingW DEF CloseWrite, Known
<1>5. /\ copy' \in [Peers -> Places]
      /\ \A p \in Peers : copy'[p] = IF p = q THEN "shutR" ELSE copy[p]
  BY <1>1, <1>2 DEF CopyTo, TypeOK, Places
<1>6. /\ errs' \in 0..2 /\ out' \in [Peers -> Seq(Nat)]
      /\ rcvd' \in [Peers -> Seq(Nat)] /\ saw' \in [Peers -> BOOLEAN]
  BY <1>1, <1>2 DEF TypeOK
<1>7. ASSUME NEW p \in Peers
      PROVE  /\ conn'[p].taken <= Len(conn'[p].sent)
             /\ copy'[p] = "write" => conn'[p].taken > 0
             /\ copy'[p] # "none" /\ Len(out'[p]) <= Room
             /\ Rising(p)' /\ Gapless(p)' /\ EndIsLast(p)' /\ TunnelInv(p)'
  <2>1. Known(p) /\ (Other(p) = Other(q) => p = q)
    BY Parts, Pair
  <2>2. Rising(p)'
    BY <1>1, <1>4, <1>5, <2>1 DEF Rising, Known, SameTaken
  <2>3. Gapless(p)'
    BY <1>1, <1>4, <1>5, <2>1 DEF Gapless, Known, SameGone, SameSock, SameTaken
  <2>4. EndIsLast(p)'
    BY <1>1, <1>4, <2>1 DEF EndIsLast, Known, SameSock
  <2>5. TunnelInv(p)'
    <3>1. p # q => conn'[Other(p)].shutW = conn[Other(p)].shutW
      BY <1>4, <2>1 DEF Known
    <3>2. CASE p = q
      BY <1>1, <1>2, <1>4, <1>5, <3>2
         DEF TunnelInv, Known, Intact, SameSock, SameSent, SameTaken, SameFin,
             SameGone
    <3>3. CASE p # q
      BY <1>1, <1>4, <1>5, <2>1, <3>1, <3>3
         DEF TunnelInv, Known, Intact, SameSock, SameSent, SameTaken, SameFin,
             SameGone, SameShutR
    <3> QED
      BY <3>2, <3>3
  <2> QED
    BY <1>1, <1>3, <1>4, <1>5, <2>1, <2>2, <2>3, <2>4, <2>5
       DEF Known, SameTaken, SameSent
<1> QED
  BY <1>1, <1>3, <1>4, <1>5, <1>6, <1>7, RunStep

(* CloseRead on the connection that was copied from. *)
LEMMA CloseReadInv == ASSUME Inv, NEW q \in Peers, CloseRead(q) PROVE Inv'
<1>1. /\ mode = "half" /\ copy[q] = "shutR" /\ CopyTo(q, "done")
      /\ UNCHANGED <<mode, main, errs, out, rcvd, saw, eager>>
  BY DEF CloseRead
<1>2. TypeOK /\ Known(q)
  BY Parts DEF Inv
<1>3. main \in Running /\ \A p \in Peers : copy[p] # "none"
  BY <1>1, AfterSetup
<1>4. /\ conn' \in [Peers -> Ends]
      /\ SameSock /\ SameSent /\ SameTaken /\ SameFin /\ SameGone /\ SameShutW
      /\ \A p \in Peers : conn'[p].shutR = IF p = q THEN TRUE ELSE conn[p].shutR
  BY <1>2, Types, ShuttingR DEF CloseRead
<1>5. /\ copy' \in [Peers -> Places]
      /\ \A p \in Peers : copy'[p] = IF p = q THEN "done" ELSE copy[p]
  BY <1>1, <1>2 DEF CopyTo, TypeOK, Places
<1>6. /\ errs' \in 0..2 /\ out' \in [Peers -> Seq(Nat)]
      /\ rcvd' \in [Peers -> Seq(Nat)] /\ saw' \in [Peers -> BOOLEAN]
  BY <1>1, <1>2 DEF TypeOK
<1>7. ASSUME NEW p \in Peers
      PROVE  /\ conn'[p].taken <= Len(conn'[p].sent)
             /\ copy'[p] = "write" => conn'[p].taken > 0
             /\ copy'[p] # "none" /\ Len(out'[p]) <= Room
             /\ Rising(p)' /\ Gapless(p)' /\ EndIsLast(p)' /\ TunnelInv(p)'
  <2>1. Known(p)
    BY Parts
  <2>2. Rising(p)'
    BY <1>1, <1>4, <1>5, <2>1 DEF Rising, Known, SameTaken
  <2>3. Gapless(p)'
    BY <1>1, <1>4, <1>5, <2>1 DEF Gapless, Known, SameGone, SameSock, SameTaken
  <2>4. EndIsLast(p)'
    BY <1>1, <1>4, <2>1 DEF EndIsLast, Known, SameSock, SameShutW
  <2>5. TunnelInv(p)'
    <3>1. p # q => conn'[p].shutR = conn[p].shutR
      BY <1>4
    <3>2. CASE p = q
      BY <1>1, <1>2, <1>4, <1>5, <3>2
         DEF TunnelInv, Known, Intact, SameSock, SameSent, SameTaken, SameFin,
             SameGone
    <3>3. CASE p # q
      BY <1>1, <1>4, <1>5, <2>1, <3>1, <3>3
         DEF TunnelInv, Known, Intact, SameSock, SameSent, SameTaken, SameFin,
             SameGone, SameShutW
    <3> QED
      BY <3>2, <3>3
  <2> QED
    BY <1>1, <1>3, <1>4, <1>5, <2>1, <2>2, <2>3, <2>4, <2>5
       DEF Known, SameTaken, SameSent
<1> QED
  BY <1>1, <1>3, <1>4, <1>5, <1>6, <1>7, RunStep

(* A copy of an accepted tunnel is through. *)
LEMMA WgDoneInv == ASSUME Inv, NEW q \in Peers, WgDone(q) PROVE Inv'
<1>1. /\ copy[q] = "ended" /\ CopyTo(q, "done")
      /\ UNCHANGED <<mode, main, conn, errs, out, rcvd, saw, eager>>
  BY DEF WgDone
<1>2. TypeOK /\ Known(q)
  BY Parts DEF Inv
<1>3. errs' \in 0..2 /\ (mode = "h2" /\ main = "relay" => errs' <= 1)
  BY <1>1, <1>2 DEF TypeOK, Known
<1>4. mode \in Tunnels /\ Intact =>
        /\ conn[q].fin /\ conn[q].taken = Len(conn[q].sent)
        /\ eager[q] \/ Len(rcvd[q]) + Len(out[q]) = conn[q].taken
  BY <1>1, <1>2 DEF Known, TunnelInv
<1> QED
  BY <1>1, <1>3, <1>4, CopyMoves

(* A copy reports its error, or its end, on the channel. *)
LEMMA ReportErrInv == ASSUME Inv, NEW q \in Peers, ReportErr(q) PROVE Inv'
<1>1. /\ mode \in {"ws", "wss"} /\ copy[q] = "ended" /\ CopyTo(q, "done")
      /\ errs < 2 /\ errs' = errs + 1
      /\ UNCHANGED <<mode, main, conn, out, rcvd, saw, eager>>
  BY DEF ReportErr, ErrRoom
<1>2. errs' \in 0..2 /\ mode \notin Tunnels /\ mode # "h2"
  BY <1>1 DEF Inv, TypeOK, Tunnels
<1> QED
  BY <1>1, <1>2, CopyMoves

-----------------------------------------------------------------------------
(* The goroutine that waits for the copies. *)
LEMMA CloseStep ==
  ASSUME Inv, NEW qs, CloseConns(qs), main' \in {"closing", "done"},
         UNCHANGED <<mode, out, rcvd, saw, eager>>,
         copy' \in [Peers -> Places], errs' \in 0..2,
         \A p \in Peers : /\ copy[p] # "none"
                          /\ copy'[p] = copy[p] \/ copy'[p] = "done",
         mode \in Tunnels =>
           mode # "half" /\ \A p \in Peers : copy[p] = "done"
  PROVE  Inv'
<1>1. TypeOK
  BY DEF Inv
<1>2. /\ conn' \in [Peers -> Ends]
      /\ SameSent /\ SameTaken /\ SameFin /\ SameGone /\ SameShutR /\ SameShutW
      /\ \A p \in Peers : conn[p].sock = "closed" => conn'[p].sock = "closed"
  BY <1>1, Types, Closing
<1>3. /\ out' \in [Peers -> Seq(Nat)] /\ rcvd' \in [Peers -> Seq(Nat)]
      /\ saw' \in [Peers -> BOOLEAN]
  BY <1>1 DEF TypeOK
<1>4. ASSUME NEW p \in Peers
      PROVE  /\ conn'[p].taken <= Len(conn'[p].sent)
             /\ copy'[p] = "write" => conn'[p].taken > 0
             /\ copy'[p] # "none" /\ Len(out'[p]) <= Room
             /\ Rising(p)' /\ Gapless(p)' /\ EndIsLast(p)' /\ TunnelInv(p)'
  <2>1. Known(p)
    BY Parts
  <2>2. Rising(p)'
    BY <1>2, <2>1 DEF Rising, Known, SameTaken
  <2>3. Gapless(p)'
    BY <1>2, <2>1 DEF Gapless, Known, SameGone, SameTaken
  <2>4. EndIsLast(p)'
    BY <1>2, <2>1 DEF EndIsLast, Known, SameShutW
  <2>5. TunnelInv(p)'
    BY <1>2, <2>1 DEF TunnelInv, Known, Intact, SameSent, SameTaken, SameFin,
                      SameGone
  <2> QED
    BY <1>2, <2>1, <2>2, <2>3, <2>4, <2>5 DEF Known, SameTaken, SameSent
<1> QED
  BY <1>2, <1>3, <1>4, RunStep DEF Running

(* The goroutine that waits for both copies goes on. *)
LEMMA WgWaitInv == ASSUME Inv, WgWait PROVE Inv'
<1>1. /\ mode = "wait" /\ main = "relay" /\ CloseConns({"client"})
      /\ main' = "closing" /\ \A p \in Peers : copy[p] = "done"
      /\ UNCHANGED <<mode, copy, errs, out, rcvd, saw, eager>>
  BY DEF WgWait, Waited
<1>2. copy' \in [Peers -> Places] /\ errs' \in 0..2
  BY <1>1 DEF Inv, TypeOK, Places
<1> QED
  BY <1>1, <1>2, CloseStep

(* The websocket proxy goes on with the first error. *)
LEMMA FirstErrInv == ASSUME Inv, FirstErr PROVE Inv'
<1>1. /\ mode \in {"ws", "wss"} /\ main = "relay" /\ CloseConns({"target"})
      /\ main' = "closing" /\ errs > 0 /\ errs' = errs - 1
      /\ UNCHANGED <<mode, copy, out, rcvd, saw, eager>>
  BY DEF FirstErr, OneReported
<1>2. /\ copy' \in [Peers -> Places] /\ errs' \in 0..2
      /\ \A p \in Peers : copy[p] # "none"
  BY <1>1 DEF Inv, TypeOK, Places, SetupInv, Setting
<1> QED
  BY <1>1, <1>2, CloseStep DEF Tunnels

(* RoundTrip of h2.go goes on with an end of either copy. *)
LEMMA SelectInv == ASSUME Inv, NEW q \in Peers, Select(q) PROVE Inv'
<1>1. /\ mode = "h2" /\ main = "relay" /\ copy[q] \in {"ended", "failed"}
      /\ CopyTo(q, "done") /\ errs' = errs + 1
      /\ UNCHANGED <<mode, out, rcvd, saw, eager>>
  BY DEF Select
<1>2. TypeOK /\ Known(q) /\ \A p \in Peers : copy[p] # "none"
  BY <1>1, Parts, AfterSetup DEF Inv
<1>3. copy' \in [Peers -> Places] /\ errs' \in 0..2
  BY <1>1, <1>2 DEF TypeOK, Places, CopyTo, Known
<1>4. \A p \in Peers : copy'[p] = copy[p] \/ copy'[p] = "done"
  BY <1>1, <1>2 DEF CopyTo, TypeOK
<1>7. mode \notin Tunnels
  BY <1>1 DEF Tunnels
<1>5. CASE main' = "closing" /\ CloseConns({"target"})
  BY <1>1, <1>2, <1>3, <1>4, <1>5, <1>7, CloseStep
<1>6. CASE errs + 1 # 2 /\ UNCHANGED <<main, conn>>
  <2>1. errs' <= 1
    BY <1>1, <1>2, <1>6 DEF TypeOK, Known
  <2> QED
    BY <1>1, <1>2, <1>3, <1>6, <1>7, <2>1, CopyMoves
<1> QED
  BY <1>5, <1>6 DEF Select

(* The deferred closes of both connections. *)
LEMMA SecondCloseInv == ASSUME Inv, SecondClose PROVE Inv'
<1>1. /\ main = "closing" /\ main' = "done"
      /\ UNCHANGED <<mode, copy, errs, out, rcvd, saw, eager>>
  BY DEF SecondClose
<1>2. PICK qs : CloseConns(qs)
  BY DEF SecondClose
<1>3. /\ copy' \in [Peers -> Places] /\ errs' \in 0..2
      /\ \A p \in Peers : copy[p] # "none"
  BY <1>1 DEF Inv, TypeOK, Places, SetupInv, Setting
<1>4. mode \in Tunnels =>
        mode # "half" /\ \A p \in Peers : copy[p] = "done"
  BY <1>1, Pair DEF Inv, FlowInv, TunnelInv
<1> QED
  BY <1>1, <1>2, <1>3, <1>4, CloseStep

-----------------------------------------------------------------------------
(* The peers: they act at any time, so what setup has to keep is at stake, *)
(* too.                                                                    *)
LEMMA SentAppend ==
  ASSUME NEW s \in Seq(Items), NEW x \in Items
  PROVE  /\ Append(s, x) \in Seq(Items) /\ Len(Append(s, x)) = Len(s) + 1
         /\ \A j \in DOMAIN Append(s, x) :
              Append(s, x)[j] = x \/ (j \in DOMAIN s /\ Append(s, x)[j] = s[j])
OBVIOUS

(* A peer sends an item, perhaps while the setup can lose it. *)
LEMMA PeerSendsInv == ASSUME Inv, NEW q \in Peers, PeerSends(q) PROVE Inv'
<1>1. /\ conn[q].sock = "open" /\ main # "failed" /\ ~conn[q].fin
      /\ UNCHANGED <<mode, main, copy, errs, out, rcvd, saw>>
      /\ eager' = [eager EXCEPT ![q] = @ \/ AtRisk(q)]
  BY DEF PeerSends, Reachable
<1>2. TypeOK /\ Known(q)
  BY Parts DEF Inv
<1>3. PICK i \in ItemsOf(mode) :
        conn' = [conn EXCEPT ![q].sent = Append(conn[q].sent, i)]
  BY DEF PeerSends
<1> DEFINE s == Append(conn[q].sent, i)
<1>4. /\ s \in Seq(Items) /\ Len(s) = Len(conn[q].sent) + 1
      /\ mode \in Tunnels => \A j \in DOMAIN s : s[j] = "data"
  <2>1. i \in Items /\ (mode \in Tunnels => i = "data")
    BY <1>3 DEF ItemsOf, Items, Tunnels
  <2>2. /\ conn[q].sent \in Seq(Items)
        /\ mode \in Tunnels =>
             \A j \in DOMAIN conn[q].sent : conn[q].sent[j] = "data"
    BY <1>2 DEF Known, TunnelInv
  <2>3. /\ s \in Seq(Items) /\ Len(s) = Len(conn[q].sent) + 1
        /\ \A j \in DOMAIN s :
             s[j] = i \/ (j \in DOMAIN conn[q].sent /\ s[j] = conn[q].sent[j])
    BY <2>1, <2>2, SentAppend
  <2> HIDE DEF s
  <2> QED
    BY <2>1, <2>2, <2>3
<1>5. conn' = [conn EXCEPT ![q].sent = s]
  BY <1>3
<1> HIDE DEF s
<1>6. /\ conn' \in [Peers -> Ends]
      /\ SameSock /\ SameTaken /\ SameFin /\ SameGone /\ SameShutR /\ SameShutW
      /\ \A p \in Peers : conn'[p].sent = IF p = q THEN s ELSE conn[p].sent
  BY <1>2, <1>4, <1>5, Types, Sending
<1>7. /\ eager' \in [Peers -> BOOLEAN]
      /\ \A p \in Peers : (eager[p] => eager'[p]) /\ (p # q => eager'[p] = eager[p])
      /\ AtRisk(q) => eager'[q]
  BY <1>1, <1>2, Zenon DEF TypeOK
<1>8. TypeOK'
  <2>1. ASSUME NEW p \in Peers PROVE conn'[p].taken <= Len(conn'[p].sent)
    <3>1. Known(p)
      BY Parts
    <3>2. CASE p = q
      <4>1. PICK m \in Nat : m = Len(conn[q].sent)
        BY <1>2 DEF Known
      <4>2. conn[q].taken \in Nat /\ conn[q].taken <= m /\ Len(s) = m + 1
        BY <1>2, <1>4, <4>1 DEF Known
      <4> QED
        BY <1>6, <3>2, <4>1, <4>2 DEF SameTaken
    <3>3. CASE p # q
      BY <1>6, <3>1, <3>3 DEF SameTaken, Known
    <3> QED
      BY <3>2, <3>3
  <2> QED
    BY <1>1, <1>2, <1>6, <1>7, <2>1 DEF TypeOK, Ends, SameTaken
<1>9. SetupInv'
  <2>1. q = "target" =>
          ~(main = "dial" \/ (main = "hijack" /\ mode # "ws"))
    BY <1>1 DEF Inv, SetupInv
  <2>2. \A p \in Peers : AtRisk(p)' = AtRisk(p)
    BY <1>1 DEF AtRisk
  <2>3. \A p \in Peers : (AtRisk(p) /\ conn[p].sent # <<>> => eager[p])
    BY DEF Inv, SetupInv
  <2>4. \A p \in Peers : (AtRisk(p) /\ conn[p].sent # <<>> => eager[p])'
    BY <1>6, <1>7, <2>2, <2>3
  <2>5. \A p \in Peers : copy[p] = "none" =>
          /\ out[p] = <<>> /\ rcvd[p] = <<>>
          /\ ~conn[p].shutR /\ ~conn[Other(p)].shutW
          /\ eager[p] \/ conn[p].taken = 0
    BY DEF Inv, SetupInv
  <2>6. \A p \in Peers : copy[p] = "none" =>
          /\ out'[p] = <<>> /\ rcvd'[p] = <<>>
          /\ ~conn'[p].shutR /\ ~conn'[Other(p)].shutW
          /\ eager'[p] \/ conn'[p].taken = 0
    BY <1>1, <1>6, <1>7, <2>5, Pair DEF SameShutR, SameShutW, SameTaken
  <2> QED
    BY <1>1, <1>6, <2>1, <2>4, <2>6, Pair DEF Inv, SetupInv, SameSock
<1>10. ASSUME NEW p \in Peers
       PROVE  Rising(p)' /\ Gapless(p)' /\ EndIsLast(p)' /\ TunnelInv(p)'
  <2>1. Known(p)
    BY Parts
  <2>2. Rising(p)'
    BY <1>1, <1>6, <2>1 DEF Rising, Known, SameTaken
  <2>3. Gapless(p)'
    BY <1>1, <1>6, <1>7, <2>1 DEF Gapless, Known, SameGone, SameSock, SameTaken
  <2>4. EndIsLast(p)'
    BY <1>1, <1>6, <2>1 DEF EndIsLast, Known, SameSock, SameShutW
  <2>5. TunnelInv(p)'
    <3>1. CASE p = q
      BY <1>1, <1>2, <1>4, <1>6, <3>1
         DEF TunnelInv, Known, Intact, SameSock, SameGone, SameShutR, SameShutW
    <3>2. CASE p # q
      BY <1>1, <1>6, <1>7, <2>1, <3>2, ZenonT(30)
         DEF TunnelInv, Known, Intact, SameSock, SameTaken, SameFin, SameGone,
             SameShutR, SameShutW
    <3> QED
      BY <3>1, <3>2
  <2> QED
    BY <2>2, <2>3, <2>4, <2>5
<1> QED
  BY <1>8, <1>9, <1>10 DEF Inv, FlowInv

(* A reset loses what is on its way to a peer, which was not all of what    *)
(* a tunnel has to deliver: a tunnel is closed behind the last item.       *)
LEMMA ResetInv == ASSUME Inv, NEW r \in Peers, Reset(r) PROVE Inv'
<1> DEFINE q == Other(r)
<1>1. /\ Torn(r) /\ out[q] # <<>> /\ out' = [out EXCEPT ![q] = <<>>]
      /\ UNCHANGED <<mode, main, conn, copy, errs, rcvd, saw, eager>>
  BY DEF Reset
<1>2. TypeOK /\ q \in Peers /\ Other(q) = r /\ Known(q) /\ Known(r)
  BY Pair, Parts DEF Inv
<1> HIDE DEF q
<1>3. /\ out' \in [Peers -> Seq(Nat)] /\ out'[q] = <<>>
      /\ \A p \in Peers : p # q => out'[p] = out[p]
  BY <1>1, <1>2 DEF TypeOK
<1>4. /\ <<>> \in Seq(Nat) /\ Len(<<>>) = 0 /\ DOMAIN <<>> = {} /\ 0 <= Room
  BY RelayAssumption
<1>5. \A p \in Peers : Len(out'[p]) <= Room
  <2> SUFFICES ASSUME NEW p \in Peers PROVE Len(out'[p]) <= Room
    OBVIOUS
  <2> QED
    BY <1>2, <1>3, <1>4 DEF TypeOK
<1>6. TypeOK'
  BY <1>1, <1>2, <1>3, <1>5 DEF TypeOK
<1>7. copy[q] # "none"
  BY <1>1, <1>2 DEF Inv, SetupInv
<1>8. SetupInv'
  BY <1>1, <1>3, <1>7 DEF Inv, SetupInv, AtRisk
<1>9. ASSUME NEW p \in Peers
      PROVE  Rising(p)' /\ Gapless(p)' /\ EndIsLast(p)' /\ TunnelInv(p)'
  <2>1. Known(p)
    BY Parts
  <2>2. CASE p # q
    <3>1. Rising(p)' /\ Gapless(p)' /\ TunnelInv(p)'
      BY <1>1, <1>3, <2>1, <2>2 DEF Rising, Gapless, TunnelInv, Known, Intact
    <3>2. EndIsLast(p)'
      BY <1>1, <1>2, <1>3, <1>4, <2>1, <2>2 DEF EndIsLast, Known
    <3> QED
      BY <3>1, <3>2
  <2>3. CASE p = q
    <3>1. Rising(p)'
      BY <1>1, <1>3, <1>4, <2>1, <2>3 DEF Rising, Known
    <3>2. Gapless(p)'
      BY <1>1, <1>2, <1>3, <1>4, <2>1, <2>3 DEF Gapless, Known, Torn
    <3>3. EndIsLast(p)'
      BY <1>1, <1>2, <1>3, <2>1, <2>3 DEF EndIsLast, Known
    <3>4. mode \in Tunnels => ~Intact
      <4> SUFFICES ASSUME mode \in Tunnels, Intact PROVE FALSE
        OBVIOUS
      <4>1. main \in Running /\ main # "relay"
        BY <1>1, <1>2, <1>7, AfterSetup DEF Known, TunnelInv, Torn
      <4>2. conn[r].taken = Len(conn[r].sent)
        BY <1>2, <4>1 DEF Known, TunnelInv, Running
      <4> QED
        BY <1>1, <1>2, <4>2 DEF Torn, Known
    <3>5. TunnelInv(p)'
      BY <1>1, <2>1, <3>4 DEF TunnelInv, Known, Intact
    <3> QED
      BY <3>1, <3>2, <3>3, <3>5
  <2> QED
    BY <2>2, <2>3
<1> QED
  BY <1>6, <1>8, <1>9 DEF Inv, FlowInv

(* A peer that ends its stream, or is lost, changes what the invariant     *)
(* asks of the other, and that the tunnel is intact.                       *)
LEMMA PeerStops ==
  ASSUME Inv, NEW q \in Peers, Reachable(q),
         UNCHANGED <<mode, main, copy, errs, out, rcvd, saw, eager>>,
         conn' \in [Peers -> Ends],
         SameSock, SameSent, SameTaken, SameShutR, SameShutW,
         \A p \in Peers : /\ conn[p].fin => conn'[p].fin
                          /\ conn[p].gone => conn'[p].gone
  PROVE  Inv'
<1>1. TypeOK
  BY DEF Inv
<1>2. TypeOK'
  <2>1. ASSUME NEW p \in Peers
        PROVE  /\ conn'[p].taken <= Len(conn'[p].sent)
               /\ copy'[p] = "write" => conn'[p].taken > 0
               /\ Len(out'[p]) <= Room
    <3>1. Known(p)
      BY Parts
    <3> QED
      BY <3>1 DEF Known, SameTaken, SameSent
  <2> QED
    BY <1>1, <2>1 DEF TypeOK, Ends
<1>3. SetupInv'
  BY Pair DEF Inv, SetupInv, AtRisk, SameSock, SameSent, SameTaken, SameShutR,
              SameShutW
<1>4. ASSUME NEW p \in Peers
      PROVE  Rising(p)' /\ Gapless(p)' /\ EndIsLast(p)' /\ TunnelInv(p)'
  <2>1. Known(p)
    BY Parts
  <2>2. Rising(p)'
    BY <2>1 DEF Rising, Known, SameTaken
  <2>3. Gapless(p)'
    BY <2>1 DEF Gapless, Known, SameSock, SameTaken
  <2>4. EndIsLast(p)'
    BY <2>1 DEF EndIsLast, Known, SameSock, SameShutW
  <2>5. TunnelInv(p)'
    BY <2>1 DEF TunnelInv, Known, Intact, SameSock, SameSent, SameTaken,
                SameShutR, SameShutW
  <2> QED
    BY <2>2, <2>3, <2>4, <2>5
<1> QED
  BY <1>2, <1>3, <1>4 DEF Inv, FlowInv

(* A peer ends its stream. *)
LEMMA PeerFinishesInv == ASSUME Inv, NEW q \in Peers, PeerFinishes(q) PROVE Inv'
<1>1. /\ Reachable(q) /\ conn' = [conn EXCEPT ![q].fin = TRUE]
      /\ UNCHANGED <<mode, main, copy, errs, out, rcvd, saw, eager>>
  BY DEF PeerFinishes
<1>2. /\ conn' \in [Peers -> Ends]
      /\ SameSock /\ SameSent /\ SameTaken /\ SameGone /\ SameShutR /\ SameShutW
      /\ \A p \in Peers : conn'[p].fin = IF p = q THEN TRUE ELSE conn[p].fin
  BY <1>1, Types, Finishing DEF Inv
<1>3. \A p \in Peers : /\ conn[p].fin => conn'[p].fin
                       /\ conn[p].gone => conn'[p].gone
  BY <1>2 DEF SameGone
<1> QED
  BY <1>1, <1>2, <1>3, PeerStops

(* A peer is lost. *)
LEMMA PeerVanishesInv == ASSUME Inv, NEW q \in Peers, PeerVanishes(q) PROVE Inv'
<1>1. /\ Reachable(q)
      /\ conn' = [conn EXCEPT ![q].gone = TRUE, ![q].fin = TRUE]
      /\ UNCHANGED <<mode, main, copy, errs, out, rcvd, saw, eager>>
  BY DEF PeerVanishes
<1>2. /\ conn' \in [Peers -> Ends]
      /\ SameSock /\ SameSent /\ SameTaken /\ SameShutR /\ SameShutW
      /\ \A p \in Peers : conn'[p].gone = IF p = q THEN TRUE ELSE conn[p].gone
      /\ \A p \in Peers : conn'[p].fin = IF p = q THEN TRUE ELSE conn[p].fin
  BY <1>1, Types, Vanishing DEF Inv
<1>3. \A p \in Peers : /\ conn[p].fin => conn'[p].fin
                       /\ conn[p].gone => conn'[p].gone
  BY <1>2
<1> QED
  BY <1>1, <1>2, <1>3, PeerStops

(* Reading moves the first item on its way behind the last one read. *)
LEMMA HeadAndTail ==
  ASSUME NEW s \in Seq(Nat), s # <<>>
  PROVE  /\ Head(s) \in Nat /\ Head(s) = s[1] /\ 1 \in DOMAIN s
         /\ Tail(s) \in Seq(Nat) /\ Len(Tail(s)) = Len(s) - 1
         /\ \A i \in DOMAIN Tail(s) : /\ Tail(s)[i] = s[i + 1]
                                      /\ i + 1 \in DOMAIN s /\ i \in Nat /\ i > 0
         /\ Len(s) \in Nat /\ Len(s) > 0
OBVIOUS

(* A peer reads what was written to it. *)
LEMMA PeerReadsInv == ASSUME Inv, NEW r \in Peers, PeerReads(r) PROVE Inv'
<1> DEFINE q == Other(r)
<1>1. /\ out[q] # <<>>
      /\ rcvd' = [rcvd EXCEPT ![q] = Append(@, Head(out[q]))]
      /\ out' = [out EXCEPT ![q] = Tail(@)]
      /\ UNCHANGED <<mode, main, conn, copy, errs, saw, eager>>
  BY DEF PeerReads
<1>2. q \in Peers /\ Known(q) /\ TypeOK
  BY Pair, Parts DEF Inv
<1> HIDE DEF q
<1>3. copy[q] # "none"
  BY <1>1, <1>2 DEF Inv, SetupInv
<1>4. main \in Running /\ \A p \in Peers : copy[p] # "none"
  BY <1>2, <1>3, AfterSetup
<1>5. PICK h \in Nat, t \in Seq(Nat), o \in Seq(Nat) :
        /\ o = out[q] /\ h = Head(o) /\ t = Tail(o) /\ o # <<>>
  BY <1>1, <1>2, HeadAndTail DEF Known
<1>6. /\ out' \in [Peers -> Seq(Nat)]
      /\ \A p \in Peers : out'[p] = IF p = q THEN t ELSE out[p]
  BY <1>1, <1>2, <1>5 DEF TypeOK
<1>7. /\ rcvd' \in [Peers -> Seq(Nat)]
      /\ \A p \in Peers : rcvd'[p] = IF p = q THEN Append(rcvd[q], h) ELSE rcvd[p]
  BY <1>1, <1>2, <1>5 DEF TypeOK
<1>8. /\ conn' \in [Peers -> Ends] /\ copy' \in [Peers -> Places]
      /\ errs' \in 0..2 /\ saw' \in [Peers -> BOOLEAN]
      /\ mode = "h2" /\ main' = "relay" => errs' <= 1
  BY <1>1, <1>2 DEF TypeOK, Ends, Places, Known
<1>9. /\ h = o[1] /\ 1 \in DOMAIN o /\ Len(t) = Len(o) - 1
      /\ \A i \in DOMAIN t : /\ t[i] = o[i + 1] /\ i + 1 \in DOMAIN o
                             /\ i \in Nat /\ i > 0
      /\ Len(o) \in Nat /\ Len(o) > 0
  BY <1>5, HeadAndTail
<1>10. PICK l \in Nat : l = Len(rcvd[q])
  BY <1>2 DEF Known
<1>11. Len(rcvd'[q]) = l + 1 /\ Stream!Last(rcvd'[q]) = h
  <2>1. rcvd[q] \in Seq(Nat) /\ rcvd'[q] = Append(rcvd[q], h)
    BY <1>2, <1>7 DEF Known
  <2> QED
    BY <1>10, <2>1, Appending
<1>12. ASSUME NEW p \in Peers
       PROVE  /\ conn'[p].taken <= Len(conn'[p].sent)
              /\ copy'[p] = "write" => conn'[p].taken > 0
              /\ copy'[p] # "none" /\ Len(out'[p]) <= Room
              /\ Rising(p)' /\ Gapless(p)' /\ EndIsLast(p)' /\ TunnelInv(p)'
  <2>1. Known(p)
    BY Parts
  <2>2. CASE p = q
    <3>1. Rising(q)'
      <4>1. /\ h <= conn[q].taken /\ (copy[q] = "write" => h < conn[q].taken)
            /\ \A i \in DOMAIN o :
                 /\ o[i] <= conn[q].taken
                 /\ copy[q] = "write" => o[i] < conn[q].taken
                 /\ \A j \in DOMAIN o : i < j => o[i] < o[j]
        BY <1>2, <1>5, <1>9 DEF Rising, Known
      <4>2. \A i \in DOMAIN t :
              /\ h < t[i] /\ t[i] <= conn[q].taken
              /\ copy[q] = "write" => t[i] < conn[q].taken
              /\ \A j \in DOMAIN t : i < j => t[i] < t[j]
        <5> SUFFICES ASSUME NEW i \in DOMAIN t
                     PROVE  /\ h < t[i] /\ t[i] <= conn[q].taken
                            /\ copy[q] = "write" => t[i] < conn[q].taken
                            /\ \A j \in DOMAIN t : i < j => t[i] < t[j]
          OBVIOUS
        <5>1. PICK k \in DOMAIN o : k = i + 1 /\ 1 < k /\ t[i] = o[k]
          BY <1>9
        <5>2. ASSUME NEW j \in DOMAIN t, i < j PROVE t[i] < t[j]
          <6>1. PICK m \in DOMAIN o : m = j + 1 /\ t[j] = o[m] /\ k < m
            BY <1>9, <5>1, <5>2
          <6> QED
            BY <4>1, <5>1, <6>1
        <5> QED
          BY <1>9, <4>1, <5>1, <5>2
      <4> QED
        BY <1>1, <1>2, <1>5, <1>6, <1>11, <4>1, <4>2 DEF Rising
    <3>2. Gapless(q)'
      <4> SUFFICES ASSUME ~eager[q] PROVE Gapless(q)'
        BY <1>1 DEF Gapless
      <4>1. \A i \in DOMAIN o : o[i] = l + i
        BY <1>2, <1>5, <1>10 DEF Gapless, Known
      <4>2. h = l + 1 /\ \A i \in DOMAIN t : t[i] = l + 1 + i
        BY <1>9, <1>10, <4>1
      <4>3. l + 1 + Len(t) = l + Len(o)
        BY <1>9, <1>10
      <4> QED
        BY <1>1, <1>2, <1>5, <1>6, <1>10, <1>11, <4>2, <4>3 DEF Gapless, Known
    <3>3. EndIsLast(q)'
      BY <1>1, <1>2, <1>6 DEF EndIsLast, Known
    <3>4. TunnelInv(q)'
      <4>1. Len(rcvd'[q]) + Len(out'[q]) = Len(rcvd[q]) + Len(out[q])
        <5>1. PICK m \in Nat : m = Len(o)
          BY <1>9
        <5>2. Len(rcvd'[q]) = l + 1 /\ Len(out'[q]) = m - 1
          BY <1>2, <1>6, <1>9, <1>11, <5>1
        <5>3. Len(rcvd[q]) = l /\ Len(out[q]) = m
          BY <1>5, <1>10, <5>1
        <5> QED
          BY <5>2, <5>3
      <4> QED
        BY <1>1, <1>2, <4>1 DEF TunnelInv, Known, Intact
    <3>5. Len(out'[q]) <= Room
      BY <1>2, <1>5, <1>6, <1>9, RelayAssumption DEF Known
    <3> QED
      BY <1>1, <1>3, <2>1, <2>2, <3>1, <3>2, <3>3, <3>4, <3>5 DEF Known
  <2>3. CASE p # q
    <3>1. out'[p] = out[p] /\ rcvd'[p] = rcvd[p] /\ Other(p) = q
      BY <1>2, <1>6, <1>7, <2>3, Pair
    <3>2. Rising(p)' /\ Gapless(p)'
      BY <1>1, <2>1, <3>1 DEF Rising, Gapless, Known
    <3>3. EndIsLast(p)'
      BY <1>1, <2>1, <3>1 DEF EndIsLast, Known
    <3>4. TunnelInv(p)'
      BY <1>1, <2>1, <3>1 DEF TunnelInv, Known, Intact
    <3> QED
      BY <1>1, <1>4, <2>1, <3>1, <3>2, <3>3, <3>4 DEF Known
  <2> QED
    BY <2>2, <2>3
<1> QED
  BY <1>1, <1>4, <1>6, <1>7, <1>8, <1>12, RunStep

(* A peer sees the end of what it was sent. *)
LEMMA PeerSeesEndInv == ASSUME Inv, NEW q \in Peers, PeerSeesEnd(q) PROVE Inv'
<1>1. /\ out[Other(q)] = <<>>
      /\ conn[q].shutW \/ conn[q].sock = "closed"
      /\ saw' = [saw EXCEPT ![q] = TRUE]
      /\ UNCHANGED <<mode, main, conn, copy, errs, out, rcvd, eager>>
  BY DEF PeerSeesEnd
<1>2. TypeOK
  BY DEF Inv
<1>3. /\ saw' \in [Peers -> BOOLEAN]
      /\ \A p \in Peers : p # q => saw'[p] = saw[p]
  BY <1>1, <1>2, Zenon DEF TypeOK
<1>4. TypeOK'
  BY <1>1, <1>2, <1>3 DEF TypeOK
<1>5. SetupInv'
  BY <1>1 DEF Inv, SetupInv, AtRisk
<1>6. ASSUME NEW p \in Peers
      PROVE  Rising(p)' /\ Gapless(p)' /\ EndIsLast(p)' /\ TunnelInv(p)'
  <2>1. Known(p)
    BY Parts
  <2>2. Rising(p)' /\ Gapless(p)'
    BY <1>1, <2>1 DEF Rising, Gapless, Known
  <2>3. EndIsLast(p)'
    BY <1>1, <1>3, <2>1 DEF EndIsLast, Known
  <2>4. TunnelInv(p)'
    BY <1>1, <2>1 DEF TunnelInv, Known, Intact
  <2> QED
    BY <2>2, <2>3, <2>4
<1> QED
  BY <1>4, <1>5, <1>6 DEF Inv, FlowInv

-----------------------------------------------------------------------------
(* The invariant holds at first and is kept by every step. *)
LEMMA InitInv == Init => Inv
<1> SUFFICES ASSUME Init PROVE Inv
  OBVIOUS
<1>1. /\ mode \in Modes /\ main = (IF mode = "ws" THEN "dial" ELSE "hijack")
      /\ errs = 0
      /\ \A p \in Peers :
           /\ copy[p] = "none" /\ out[p] = <<>> /\ rcvd[p] = <<>>
           /\ ~saw[p] /\ ~eager[p]
           /\ conn[p].sock = IF p = "client" THEN "open" ELSE "none"
           /\ conn[p].sent = <<>> /\ conn[p].taken = 0
           /\ ~conn[p].fin /\ ~conn[p].gone /\ ~conn[p].shutR /\ ~conn[p].shutW
  BY DEF Init
<1>2. TypeOK
  <2>1. conn \in [Peers -> Ends]
    BY DEF Init, Ends
  <2>2. saw \in [Peers -> BOOLEAN] /\ eager \in [Peers -> BOOLEAN]
    BY Zenon DEF Init
  <2>3. /\ copy \in [Peers -> Places]
        /\ out \in [Peers -> Seq(Nat)] /\ rcvd \in [Peers -> Seq(Nat)]
    BY DEF Init, Places
  <2> QED
    BY <1>1, <2>1, <2>2, <2>3, RelayAssumption DEF TypeOK, Ends, Places
<1>3. SetupInv
  BY <1>1, Pair DEF SetupInv, Setting
<1>4. ASSUME NEW p \in Peers
      PROVE  Rising(p) /\ Gapless(p) /\ EndIsLast(p) /\ TunnelInv(p)
  <2>1. /\ copy[p] = "none" /\ out[p] = <<>> /\ rcvd[p] = <<>>
        /\ conn[p].taken \in Nat
    BY <1>1
  <2>2. Rising(p) /\ Gapless(p)
    BY <2>1, LastOfNone DEF Rising, Gapless
  <2>3. EndIsLast(p) /\ TunnelInv(p)
    <3>1. DOMAIN <<>> = {}
      OBVIOUS
    <3> QED
      BY <1>1, <3>1 DEF EndIsLast, TunnelInv
  <2> QED
    BY <2>1, <2>2, <2>3
<1> QED
  BY <1>2, <1>3, <1>4 DEF Inv, FlowInv

(* Every step of the proxy and of its peers preserves the invariant. *)
LEMMA NextInv == Inv /\ [Next]_vars => Inv'
<1> SUFFICES ASSUME Inv, [Next]_vars PROVE Inv'
  OBVIOUS
<1>1. CASE Setup
  BY <1>1, HijackInv, DialInv, ConnectAnswerInv, HandshakeInv DEF Setup
<1>2. CASE MainStep
  BY <1>2, WgWaitInv, FirstErrInv, SelectInv, SecondCloseInv DEF MainStep
<1>3. CASE \E p \in Peers : CopyStep(p)
  BY <1>3, CopyReadInv, CopyWriteInv, CloseWriteInv, CloseReadInv, WgDoneInv,
     ReportErrInv DEF CopyStep
<1>4. CASE \E p \in Peers : PeerStep(p) \/ PeerTakes(p)
  BY <1>4, PeerSendsInv, PeerFinishesInv, PeerVanishesInv, PeerReadsInv,
     PeerSeesEndInv, ResetInv DEF PeerStep, PeerTakes
<1>5. CASE UNCHANGED vars
  BY <1>5 DEF vars, Inv, TypeOK, SetupInv, AtRisk, FlowInv, Rising, Gapless,
              EndIsLast, TunnelInv, Intact
<1> QED
  BY <1>1, <1>2, <1>3, <1>4, <1>5 DEF Next

(* The inductive invariant holds in every state of every relay. *)
LEMMA InvHolds == Spec => []Inv
<1>1. Init => Inv
  BY InitInv
<1>2. Inv /\ [Next]_vars => Inv'
  BY NextInv
<1> QED
  BY <1>1, <1>2, PTL DEF Spec

(* Types: a copy never has more on its way than fits, never writes what it *)
(* has not taken, and never more than two results are reported.            *)
THEOREM TypeCorrect == Spec => []TypeOK
<1>1. Inv => TypeOK
  BY DEF Inv
<1> QED
  BY <1>1, InvHolds, PTL

-----------------------------------------------------------------------------
(* What a step does to that by which streams are cut short: peers that are *)
(* lost or have finished stay so, what was taken stays taken, and nothing  *)
(* passes over a closed connection.                                        *)
Onward ==
  /\ UNCHANGED mode /\ (main = "failed" => main' = "failed")
  /\ \A p \in Peers :
       /\ eager[p] => eager'[p]
       /\ conn[p].gone => conn'[p].gone
       /\ conn[p].fin => conn'[p].fin /\ conn'[p].sent = conn[p].sent
       /\ conn[p].taken <= conn'[p].taken
       /\ \A k \in 1..conn[p].taken : conn'[p].sent[k] = conn[p].sent[k]
       /\ conn[p].sock = "closed" =>
            /\ conn'[p].sock = "closed" /\ conn'[p].taken = conn[p].taken
            /\ conn'[p].sent = conn[p].sent

(* The setup goes onward. *)
LEMMA SetupOnward == ASSUME Inv, Setup PROVE Onward
<1>1. UNCHANGED <<mode, eager>> /\ main # "failed" /\ main \in Setting
  BY DEF Setup, Hijack, Dial, ConnectAnswer, Handshake, Setting
<1>2. /\ conn \in [Peers -> Ends]
      /\ \A p \in Peers : /\ conn[p].taken \in Nat /\ Len(conn[p].sent) \in Nat
                          /\ conn[p].taken <= Len(conn[p].sent)
  BY Types DEF Inv, TypeOK
<1>3. conn["client"].sock = "open" /\ conn["target"].sock # "closed"
  BY <1>1 DEF Inv, SetupInv, Setting
<1>4. CASE \E ps : SetupFails(ps)
  <2>1. /\ SameSent /\ SameTaken /\ SameFin /\ SameGone
        /\ \A p \in Peers : conn[p].sock = "closed" => conn'[p].sock = "closed"
    BY <1>2, <1>4, Closing DEF SetupFails
  <2> QED
    BY <1>1, <1>2, <2>1 DEF Onward, SameSent, SameTaken, SameFin, SameGone
<1>5. CASE \E q \in Peers, k \in Nat : Swallow(q, k)
  <2>1. PICK q \in Peers, n \in Nat :
          conn' = [conn EXCEPT ![q].taken = n] /\ conn[q].taken <= n
    <3>1. PICK q \in Peers, k \in Nat : Swallow(q, k)
      BY <1>5
    <3>2. conn[q].taken + k \in Nat /\ conn[q].taken <= conn[q].taken + k
      BY <1>2, <3>1
    <3>3. conn' = [conn EXCEPT ![q].taken = conn[q].taken + k]
      BY <3>1 DEF Swallow
    <3> QED
      BY <3>1, <3>2, <3>3
  <2>2. /\ SameSock /\ SameSent /\ SameFin /\ SameGone
        /\ \A p \in Peers : conn'[p].taken = IF p = q THEN n ELSE conn[p].taken
    BY <1>2, <2>1, Taking
  <2>3. \A p \in Peers : conn[p].sock # "closed"
    BY <1>3, Pair
  <2> QED
    BY <1>1, <1>2, <2>1, <2>2, <2>3
       DEF Onward, SameSock, SameSent, SameFin, SameGone
<1>6. CASE conn' = [conn EXCEPT !["target"].sock = "open"]
  <2>1. /\ SameSent /\ SameTaken /\ SameFin /\ SameGone
        /\ \A p \in Peers :
             conn'[p].sock = IF p = "target" THEN "open" ELSE conn[p].sock
    BY <1>2, <1>6, Opening, Pair
  <2> QED
    BY <1>1, <1>2, <1>3, <2>1 DEF Onward, SameSent, SameTaken, SameFin, SameGone
<1>7. ASSUME NEW q \in Peers PROVE Arrived(q) \subseteq Nat
  BY <1>2 DEF Arrived
<1>8. \/ \E ps : SetupFails(ps)
      \/ \E q \in Peers, k \in Nat : Swallow(q, k)
      \/ conn' = [conn EXCEPT !["target"].sock = "open"]
  <2>1. CASE Hijack
    BY <1>7, <2>1, Pair DEF Hijack
  <2>2. CASE Dial
    BY <2>2 DEF Dial
  <2>3. CASE ConnectAnswer
    BY <1>7, <2>3, Pair DEF ConnectAnswer
  <2>4. CASE Handshake
    BY <1>7, <2>4, Pair DEF Handshake
  <2> QED
    BY <2>1, <2>2, <2>3, <2>4 DEF Setup
<1> QED
  BY <1>4, <1>5, <1>6, <1>8

(* Where the connections do not change, or are only closed, so does a      *)
(* step.                                                                   *)
LEMMA ClosingOnward ==
  ASSUME Inv, UNCHANGED <<mode, eager>>, main # "failed" \/ main' = main,
         (\E ps : CloseConns(ps)) \/ UNCHANGED conn
  PROVE  Onward
<1>1. /\ conn \in [Peers -> Ends] /\ \A p \in Peers : conn[p].taken \in Nat
  BY Types DEF Inv, TypeOK
<1>2. /\ SameSent /\ SameTaken /\ SameFin /\ SameGone
      /\ \A p \in Peers : conn[p].sock = "closed" => conn'[p].sock = "closed"
  BY <1>1, Closing DEF SameSent, SameTaken, SameFin, SameGone
<1> QED
  BY <1>1, <1>2 DEF Onward, SameSent, SameTaken, SameFin, SameGone

(* The copies go onward. *)
LEMMA CopyOnward == ASSUME Inv, NEW q \in Peers, CopyStep(q) PROVE Onward
<1>1. UNCHANGED <<mode, main, rcvd, saw, eager>>
  BY DEF CopyStep, CopyRead, CopyWrite, CloseWrite, CloseRead, WgDone, ReportErr
<1>2. /\ conn \in [Peers -> Ends] /\ Other(q) \in Peers
      /\ \A p \in Peers : conn[p].taken \in Nat
  BY Types, Pair DEF Inv, TypeOK
<1>3. CASE UNCHANGED conn
  BY <1>1, <1>3, ClosingOnward
<1>4. CASE CloseWrite(q) \/ CloseRead(q)
  <2>1. SameSock /\ SameSent /\ SameTaken /\ SameFin /\ SameGone
    BY <1>2, <1>4, ShuttingW, ShuttingR DEF CloseWrite, CloseRead
  <2> QED
    BY <1>1, <1>2, <2>1 DEF Onward, SameSock, SameSent, SameTaken, SameFin, SameGone
<1>5. CASE conn' = [conn EXCEPT ![q].taken = @ + 1] /\ HasItem(q)
  <2>1. PICK n \in Nat : n = conn[q].taken + 1
    BY <1>2
  <2>2. conn' = [conn EXCEPT ![q].taken = n] /\ conn[q].sock = "open"
    BY <1>5, <2>1 DEF HasItem
  <2>3. /\ SameSock /\ SameSent /\ SameFin /\ SameGone
        /\ \A p \in Peers : conn'[p].taken = IF p = q THEN n ELSE conn[p].taken
    BY <1>2, <2>2, Taking
  <2> QED
    BY <1>1, <1>2, <2>1, <2>2, <2>3
       DEF Onward, SameSock, SameSent, SameFin, SameGone
<1> QED
  BY <1>3, <1>4, <1>5 DEF CopyStep, CopyRead, CopyWrite, WgDone, ReportErr

(* So do the peers. *)
LEMMA PeersOnward ==
  ASSUME Inv, NEW q \in Peers, PeerStep(q) \/ PeerTakes(q) PROVE Onward
<1>1. /\ TypeOK /\ conn \in [Peers -> Ends]
      /\ \A p \in Peers : /\ conn[p].taken \in Nat
                          /\ conn[p].taken <= Len(conn[p].sent)
                          /\ conn[p].sent \in Seq(Items)
  BY Types DEF Inv, TypeOK
<1>2. UNCHANGED <<mode, main>>
  BY DEF PeerStep, PeerTakes, PeerSends, PeerFinishes, PeerVanishes, PeerReads,
         PeerSeesEnd, Reset
<1>3. CASE PeerSends(q)
  <2>1. PICK i \in ItemsOf(mode) :
          conn' = [conn EXCEPT ![q].sent = Append(conn[q].sent, i)]
    BY <1>3 DEF PeerSends
  <2>2. Append(conn[q].sent, i) \in Seq(Items)
    BY <1>1, <2>1, SentAppend DEF ItemsOf, Items
  <2>3. \A k \in 1..conn[q].taken : Append(conn[q].sent, i)[k] = conn[q].sent[k]
    BY <1>1
  <2>4. /\ SameSock /\ SameTaken /\ SameFin /\ SameGone
        /\ \A p \in Peers : conn'[p].sent = IF p = q THEN Append(conn[q].sent, i)
                                            ELSE conn[p].sent
    BY <1>1, <2>1, <2>2, Sending
  <2>5. \A p \in Peers : eager[p] => eager'[p]
    BY <1>1, <1>3, Zenon DEF PeerSends, TypeOK
  <2>6. conn[q].sock = "open" /\ ~conn[q].fin
    BY <1>3 DEF PeerSends, Reachable
  <2> DEFINE s == Append(conn[q].sent, i)
  <2>7. /\ \A k \in 1..conn[q].taken : s[k] = conn[q].sent[k]
        /\ \A p \in Peers : conn'[p].sent = IF p = q THEN s ELSE conn[p].sent
    BY <2>3, <2>4
  <2> HIDE DEF s
  <2>8. \A p \in Peers : /\ \A k \in 1..conn[p].taken :
                              conn'[p].sent[k] = conn[p].sent[k]
                         /\ conn[p].fin \/ conn[p].sock = "closed" =>
                              conn'[p].sent = conn[p].sent
    BY <2>6, <2>7
  <2> QED
    BY <1>1, <1>2, <2>4, <2>5, <2>8 DEF Onward, SameSock, SameTaken, SameFin, SameGone
<1>4. CASE PeerFinishes(q) \/ PeerVanishes(q)
  <2>1. /\ SameSock /\ SameSent /\ SameTaken
        /\ \A p \in Peers : /\ conn[p].fin => conn'[p].fin
                            /\ conn[p].gone => conn'[p].gone
    BY <1>1, <1>4, Finishing, Vanishing DEF PeerFinishes, PeerVanishes, SameGone
  <2>2. UNCHANGED eager
    BY <1>4 DEF PeerFinishes, PeerVanishes
  <2> QED
    BY <1>1, <1>2, <2>1, <2>2 DEF Onward, SameSock, SameSent, SameTaken
<1>5. CASE UNCHANGED <<conn, eager>>
  BY <1>2, <1>5, ClosingOnward
<1> QED
  BY <1>3, <1>4, <1>5 DEF PeerStep, PeerTakes, PeerReads, PeerSeesEnd, Reset

(* And so do the steps of the goroutine that waits for the copies. *)
LEMMA MainOnward == ASSUME Inv, MainStep PROVE Onward
<1>1. UNCHANGED <<mode, eager>> /\ main # "failed"
  BY DEF MainStep, WgWait, FirstErr, Select, SecondClose
<1>2. (\E ps : CloseConns(ps)) \/ UNCHANGED conn
  BY DEF MainStep, WgWait, FirstErr, Select, SecondClose
<1> QED
  BY <1>1, <1>2, ClosingOnward

(* What was read, and a reset, stay. *)
LEMMA OnwardStays ==
  ASSUME Inv, Inv', Onward, NEW p \in Peers
  PROVE  /\ \A i : Took(p, i) => Took(p, i)'
         /\ Torn(p) => Torn(p)'
<1>1. conn[p].taken \in Nat /\ conn'[p].taken \in Nat
  BY DEF Inv, TypeOK
<1>2. \A i : Took(p, i) => Took(p, i)'
  BY <1>1 DEF Onward, Took
<1>3. Torn(p) => Torn(p)'
  BY DEF Onward, Torn
<1> QED
  BY <1>2, <1>3

(* A stream that is cut short stays so. *)
LEMMA CutStays ==
  ASSUME Inv, Inv', Onward, NEW p \in Peers, CutShort(p) PROVE CutShort(p)'
<1>1. Other(p) \in Peers
  BY Pair
<1>2. /\ \A r \in Peers : Took(r, "bad") => Took(r, "bad")'
      /\ \A r \in Peers : Took(r, "end") => Took(r, "end")'
      /\ \A r \in Peers : Torn(r) => Torn(r)'
  BY OnwardStays
<1>3. /\ mode' = mode /\ (main = "failed" => main' = "failed")
      /\ \A r \in Peers : conn[r].gone => conn'[r].gone
      /\ conn[Other(p)].fin => conn'[Other(p)].fin
  BY <1>1 DEF Onward
<1>4. CASE main = "failed" \/ \E r \in Peers : conn[r].gone
  BY <1>3, <1>4 DEF CutShort
<1>5. CASE mode \in {"ws", "wss"} /\ conn[Other(p)].fin
  BY <1>3, <1>5 DEF CutShort
<1>6. CASE mode = "h2" /\ \E r \in Peers : Took(r, "bad")
  BY <1>2, <1>3, <1>6 DEF CutShort
<1>7. CASE /\ mode = "h2" /\ Took(p, "end")
           /\ Took(Other(p), "end") \/ conn[Other(p)].fin
  BY <1>1, <1>2, <1>3, <1>7 DEF CutShort
<1>8. CASE mode \in {"ws", "wss", "h2"} /\ Torn(Other(p))
  BY <1>1, <1>2, <1>3, <1>8 DEF CutShort
<1> QED
  BY <1>4, <1>5, <1>6, <1>7, <1>8 DEF CutShort

-----------------------------------------------------------------------------
(* Relays that end with the end of one of their streams. *)
Passing == {"ws", "wss", "h2"}

(* All of p's stream has gone to the other peer, but for what a reset took; *)
Whole(p) ==
  /\ conn[p].fin /\ conn[p].taken = Len(conn[p].sent)
  /\ \/ eager[p] \/ Torn(Other(p))
     \/ Len(rcvd[p]) + Len(out[p]) = conn[p].taken

(* or this direction of a session has had the end of a stream; *)
Over(p) == Whole(p) \/ (mode = "h2" /\ Took(p, "end"))

(* or the session has had a frame of an unknown type. *)
Spoilt == mode = "h2" /\ \E p \in Peers : Took(p, "bad")

(* What setup and copies leave alone in these relays, *)
PassFrame ==
  \A p \in Peers :
    /\ ~conn[p].shutR /\ ~conn[p].shutW /\ copy[p] # "shutR"
    /\ mode # "h2" => \A k \in DOMAIN conn[p].sent : conn[p].sent[k] = "data"

(* and why they stand or are taken down, unless a peer is lost: copies are *)
(* through when their streams are, and the first that is takes a websocket *)
(* down, both, or a failure, an HTTP/2 session.                            *)
Stands ==
  /\ \A p \in Peers : /\ conn[p].sock = "open"
                      /\ copy[p] \in {"ended", "done"} => Over(p)
                      /\ copy[p] = "failed" => Spoilt
  /\ errs > 0 => \E p \in Peers : copy[p] = "done"

Down ==
  /\ mode # "h2" => \E p \in Peers : copy[p] = "done" /\ Over(p)
  /\ mode = "h2" => Spoilt \/ \A p \in Peers : copy[p] = "done" /\ Over(p)

PassInv ==
  mode \in Passing =>
    /\ PassFrame
    /\ Intact /\ main = "relay" => Stands
    /\ Intact /\ main \in {"closing", "done"} => Down

(* A copy that is through stays so, and what it has passed on stays there, *)
(* but for a reset.                                                        *)
Settled ==
  \A p \in Peers :
    copy[p] \in {"ended", "done"} =>
      /\ copy'[p] \in {"ended", "done"} /\ (copy[p] = "done" => copy'[p] = "done")
      /\ \/ Len(rcvd'[p]) + Len(out'[p]) = Len(rcvd[p]) + Len(out[p])
         \/ Torn(Other(p))'

(* A stream that has been passed on stays so. *)
LEMMA OverStays ==
  ASSUME Inv, Inv', Onward, NEW p \in Peers, Over(p),
         \/ Len(rcvd'[p]) + Len(out'[p]) = Len(rcvd[p]) + Len(out[p])
         \/ Torn(Other(p))'
  PROVE  Over(p)'
<1>1. CASE mode = "h2" /\ Took(p, "end")
  BY <1>1, OnwardStays DEF Over, Onward
<1>2. CASE Whole(p)
  <2>1. conn'[p].fin /\ conn'[p].sent = conn[p].sent /\ conn[p].taken <= conn'[p].taken
    BY <1>2 DEF Whole, Onward
  <2>2. conn'[p].taken <= Len(conn'[p].sent) /\ conn[p].taken \in Nat /\ conn'[p].taken \in Nat
    BY DEF Inv, TypeOK
  <2>3. conn'[p].taken = Len(conn'[p].sent) /\ conn'[p].taken = conn[p].taken
    BY <1>2, <2>1, <2>2 DEF Whole
  <2>4. (eager[p] => eager'[p]) /\ (Torn(Other(p)) => Torn(Other(p))')
    BY Pair, OnwardStays DEF Onward
  <2> QED
    BY <1>2, <2>1, <2>3, <2>4 DEF Whole, Over
<1> QED
  BY <1>1, <1>2 DEF Over

(* What a step within the relay has to keep. *)
LEMMA PassStep ==
  ASSUME Inv, Inv', Onward, Settled, PassInv,
         mode \in Passing => PassFrame',
         main \in Running, main' = main,
         main = "relay" =>
           /\ SameSock
           /\ errs' > 0 => errs > 0 \/ \E p \in Peers : copy'[p] = "done"
           /\ mode \in Passing /\ Intact /\ Stands =>
                \A p \in Peers :
                  /\ copy'[p] \in {"ended", "done"} /\ copy[p] \notin {"ended", "done"}
                       => Over(p)'
                  /\ copy'[p] = "failed" => copy[p] = "failed" \/ Spoilt'
  PROVE  PassInv'
<1> SUFFICES ASSUME mode \in Passing, Intact'
             PROVE  /\ main = "relay" => Stands'
                    /\ main # "relay" => Down'
  <2>1. mode' = mode /\ main' = main
    BY DEF Onward
  <2> QED
    BY <2>1 DEF PassInv, Running
<1>1. Intact /\ mode' = mode
  BY DEF Onward, Intact
<1>2. Spoilt => Spoilt'
  BY <1>1, OnwardStays DEF Spoilt
<1>3. \A p \in Peers : copy[p] \in {"ended", "done"} /\ Over(p) => Over(p)'
  BY OverStays DEF Settled
<1>4. \A p \in Peers : copy[p] = "done" => copy'[p] = "done"
  BY DEF Settled
<1>5. CASE main = "relay"
  <2>1. Stands
    BY <1>1, <1>5 DEF PassInv
  <2>2. ASSUME NEW p \in Peers
        PROVE  /\ conn'[p].sock = "open"
               /\ copy'[p] \in {"ended", "done"} => Over(p)'
               /\ copy'[p] = "failed" => Spoilt'
    BY <1>1, <1>2, <1>3, <1>5, <2>1 DEF Stands, SameSock
  <2>3. errs' > 0 => \E p \in Peers : copy'[p] = "done"
    BY <1>4, <1>5, <2>1 DEF Stands
  <2> QED
    BY <1>5, <2>2, <2>3 DEF Stands
<1>6. CASE main # "relay"
  <2>1. Down
    BY <1>1, <1>6 DEF PassInv, Running
  <2> QED
    BY <1>1, <1>2, <1>3, <1>4, <1>6, <2>1 DEF Down
<1> QED
  BY <1>5, <1>6

(* A step that takes the relay down. *)
LEMMA DownStep ==
  ASSUME Inv, Inv', Onward, PassInv, mode \in Passing => PassFrame',
         main' \in {"closing", "done"}, UNCHANGED <<rcvd, out>>,
         \A p \in Peers : copy[p] = "done" => copy'[p] = "done",
         mode \in Passing /\ Intact =>
           \/ Spoilt
           \/ mode # "h2" /\ \E p \in Peers : copy[p] = "done" /\ Over(p)
           \/ mode = "h2" /\ \A p \in Peers : copy'[p] = "done" /\ Over(p)
  PROVE  PassInv'
<1> SUFFICES ASSUME mode \in Passing, Intact' PROVE Down'
  BY DEF PassInv, Onward
<1>1. Intact /\ mode' = mode
  BY DEF Onward, Intact
<1>2. Spoilt => Spoilt'
  BY <1>1, OnwardStays DEF Spoilt
<1>3. \A p \in Peers : Over(p) => Over(p)'
  BY OverStays
<1>4. CASE Spoilt
  BY <1>1, <1>2, <1>4 DEF Down, Spoilt
<1>5. CASE mode # "h2" /\ \E p \in Peers : copy[p] = "done" /\ Over(p)
  BY <1>1, <1>3, <1>5 DEF Down
<1>6. CASE mode = "h2" /\ \A p \in Peers : copy'[p] = "done" /\ Over(p)
  BY <1>1, <1>3, <1>6 DEF Down
<1> QED
  BY <1>1, <1>4, <1>5, <1>6

(* Setup and copies leave a passing relay's connections unshut. *)
LEMMA FrameKept ==
  ASSUME Inv, Next, PassInv, mode \in Passing PROVE PassFrame'
<1>1. /\ PassFrame /\ conn \in [Peers -> Ends] /\ TypeOK
      /\ \A p \in Peers : /\ conn[p].taken \in Nat /\ Len(conn[p].sent) \in Nat
                          /\ conn[p].sent \in Seq(Items)
  BY Types DEF Inv, TypeOK, PassInv
<1>2. mode' = mode
  BY DEF Next, Setup, MainStep, CopyStep, PeerStep, PeerTakes, Hijack, Dial,
         ConnectAnswer, Handshake, WgWait, FirstErr, Select, SecondClose, CopyRead,
         CopyWrite, CloseWrite, CloseRead, WgDone, ReportErr, PeerSends,
         PeerFinishes, PeerVanishes, PeerReads, PeerSeesEnd, Reset
<1>3. ASSUME SameShutR, SameShutW, SameSent, \A p \in Peers : copy'[p] # "shutR"
      PROVE  PassFrame'
  BY <1>1, <1>2, <1>3 DEF PassFrame, SameShutR, SameShutW, SameSent
<1>4. ASSUME UNCHANGED conn PROVE SameShutR /\ SameShutW /\ SameSent
  BY <1>4 DEF SameShutR, SameShutW, SameSent
<1>5. ASSUME NEW ps, CloseConns(ps) PROVE SameShutR /\ SameShutW /\ SameSent
  BY <1>1, <1>5, Closing
<1>6. ASSUME NEW q \in Peers, NEW k \in Nat, conn' = [conn EXCEPT ![q].taken = @ + k]
      PROVE  SameShutR /\ SameShutW /\ SameSent
  <2>1. PICK n \in Nat : n = conn[q].taken + k
    BY <1>1
  <2>2. conn' = [conn EXCEPT ![q].taken = n]
    BY <1>6, <2>1
  <2> QED
    BY <1>1, <2>2, Taking
<1>7. \A p \in Peers : copy[p] # "shutR"
  BY <1>1 DEF PassFrame
<1>8. ASSUME NEW q \in Peers, NEW pc, pc # "shutR", CopyTo(q, pc)
      PROVE  \A p \in Peers : copy'[p] # "shutR"
  BY <1>1, <1>7, <1>8 DEF CopyTo, TypeOK
<1>9. CASE Setup
  <2>1. SameShutR /\ SameShutW /\ SameSent
    <3>1. \A q \in Peers : Arrived(q) \subseteq Nat
      BY <1>1 DEF Arrived
    <3>2. \/ \E ps : CloseConns(ps)
          \/ \E q \in Peers, k \in Nat : conn' = [conn EXCEPT ![q].taken = @ + k]
          \/ conn' = [conn EXCEPT !["target"].sock = "open"]
      BY <1>9, <3>1, Pair
         DEF Setup, Hijack, Dial, ConnectAnswer, Handshake, SetupFails, Swallow
    <3>3. CASE conn' = [conn EXCEPT !["target"].sock = "open"]
      BY <1>1, <3>3, Opening, Pair
    <3> QED
      BY <1>5, <1>6, <3>2, <3>3
  <2>2. \A p \in Peers : copy'[p] # "shutR"
    BY <1>7, <1>9 DEF Setup, Hijack, Dial, ConnectAnswer, Handshake
  <2> QED
    BY <1>3, <2>1, <2>2
<1>10. CASE MainStep
  <2>1. (\E ps : CloseConns(ps)) \/ UNCHANGED conn
    BY <1>10 DEF MainStep, WgWait, FirstErr, Select, SecondClose
  <2>2. UNCHANGED copy \/ \E q \in Peers : CopyTo(q, "done")
    BY <1>10 DEF MainStep, WgWait, FirstErr, Select, SecondClose
  <2> QED
    BY <1>3, <1>4, <1>5, <1>7, <1>8, <2>1, <2>2
<1>11. ASSUME NEW q \in Peers, CopyStep(q) PROVE PassFrame'
  <2>1. ~CloseWrite(q) /\ ~CloseRead(q)
    BY DEF CloseWrite, CloseRead, Passing
  <2>2. UNCHANGED conn \/ conn' = [conn EXCEPT ![q].taken = @ + 1]
    BY <1>11, <2>1 DEF CopyStep, CopyRead, CopyWrite, WgDone, ReportErr
  <2>3. SameShutR /\ SameShutW /\ SameSent
    <3>1. 1 \in Nat
      OBVIOUS
    <3> QED
      BY <1>4, <1>6, <2>2, <3>1
  <2>4. \E pc : CopyTo(q, pc) /\ pc # "shutR"
    BY <1>11, <2>1
       DEF CopyStep, CopyRead, CopyWrite, WgDone, ReportErr, CopyFails, AfterWrite
  <2> QED
    BY <1>3, <1>8, <2>3, <2>4
<1>12. ASSUME NEW q \in Peers, PeerStep(q) \/ PeerTakes(q) PROVE PassFrame'
  <2>1. UNCHANGED copy
    BY <1>12 DEF PeerStep, PeerTakes, PeerSends, PeerFinishes, PeerVanishes,
                 PeerReads, PeerSeesEnd, Reset
  <2>2. CASE PeerSends(q)
    <3>1. PICK i \in ItemsOf(mode) :
            conn' = [conn EXCEPT ![q].sent = Append(conn[q].sent, i)]
      BY <2>2 DEF PeerSends
    <3>2. i \in Items /\ (mode # "h2" => i = "data")
      BY <3>1 DEF ItemsOf, Items
    <3> DEFINE s == Append(conn[q].sent, i)
    <3>3. /\ s \in Seq(Items)
          /\ \A j \in DOMAIN s :
               s[j] = i \/ (j \in DOMAIN conn[q].sent /\ s[j] = conn[q].sent[j])
      BY <1>1, <3>2, SentAppend
    <3>4. conn' = [conn EXCEPT ![q].sent = s]
      BY <3>1
    <3> HIDE DEF s
    <3>5. /\ SameShutR /\ SameShutW
          /\ \A p \in Peers : conn'[p].sent = IF p = q THEN s ELSE conn[p].sent
      BY <1>1, <3>3, <3>4, Sending
    <3> QED
      BY <1>1, <1>2, <2>1, <3>2, <3>3, <3>5 DEF PassFrame, SameShutR, SameShutW
  <2>3. CASE PeerFinishes(q)
    BY <1>1, <1>3, <1>7, <2>1, <2>3, Finishing DEF PeerFinishes
  <2>4. CASE PeerVanishes(q)
    BY <1>1, <1>3, <1>7, <2>1, <2>4, Vanishing DEF PeerVanishes
  <2>5. CASE UNCHANGED conn
    BY <1>3, <1>4, <1>7, <2>1, <2>5
  <2> QED
    BY <1>12, <2>2, <2>3, <2>4, <2>5 DEF PeerStep, PeerTakes, PeerReads, PeerSeesEnd, Reset
<1> QED
  BY <1>9, <1>10, <1>11, <1>12 DEF Next

(* A step that neither writes nor reads leaves what is on its way. *)
LEMMA SettledByCopy ==
  ASSUME TypeOK, NEW q \in Peers, NEW pc, CopyTo(q, pc), UNCHANGED <<rcvd, out>>,
         copy[q] = "done" => pc = "done",
         copy[q] = "ended" => pc \in {"ended", "done"}
  PROVE  Settled
<1>1. \A p \in Peers : copy'[p] = IF p = q THEN pc ELSE copy[p]
  BY DEF CopyTo, TypeOK
<1> QED
  BY <1>1 DEF Settled

(* A copy in its loop takes an item, or comes to its end. *)
LEMMA CopyReadPass ==
  ASSUME Inv, Inv', Onward, PassInv, mode \in Passing => PassFrame',
         NEW q \in Peers, CopyRead(q)
  PROVE  PassInv'
<1>1. /\ copy[q] = "read" /\ UNCHANGED <<mode, main, errs, out, rcvd, saw, eager>>
      /\ TypeOK /\ Known(q) /\ Other(q) \in Peers /\ main \in Running
  BY Pair, Parts, AfterSetup DEF CopyRead, Inv
<1>2. PICK pc : CopyTo(q, pc)
  BY DEF CopyRead, CopyFails
<1>3. \A p \in Peers : copy'[p] = IF p = q THEN pc ELSE copy[p]
  BY <1>1, <1>2 DEF CopyTo, TypeOK
<1>4. Settled
  BY <1>1, <1>2, SettledByCopy
<1>5. SameSock
  <2>1. PICK n \in Nat : n = conn[q].taken + 1
    BY <1>1 DEF Known
  <2>2. UNCHANGED conn \/ conn' = [conn EXCEPT ![q].taken = n]
    BY <2>1 DEF CopyRead
  <2>3. conn \in [Peers -> Ends]
    BY <1>1, Types
  <2> QED
    BY <2>2, <2>3, Taking DEF SameSock
<1>6. ASSUME main = "relay", mode \in Passing, Intact, Stands
      PROVE  /\ copy'[q] \in {"ended", "done"} => Over(q)'
             /\ copy'[q] = "failed" => Spoilt'
  <2>1. PassFrame /\ conn[q].sock = "open" /\ conn[Other(q)].sock = "open"
    BY <1>1, <1>6 DEF PassInv, Stands
  <2>2. CASE /\ HasItem(q)
             /\ IF conn[q].sent[conn[q].taken + 1] = "bad" THEN CopyFails(q)
                ELSE CopyTo(q, "write")
             /\ conn' = [conn EXCEPT ![q].taken = @ + 1]
    <3>1. CASE conn[q].sent[conn[q].taken + 1] = "bad"
      <4>1. PICK n \in Nat : n = conn[q].taken + 1 /\ n <= Len(conn[q].sent) /\ n > 0
        <5>1. /\ conn[q].taken \in Nat /\ Len(conn[q].sent) \in Nat
              /\ conn[q].taken < Len(conn[q].sent)
          BY <1>1, <2>2 DEF HasItem, Known
        <5> QED
          BY <5>1
      <4>2. n \in DOMAIN conn[q].sent /\ conn[q].sent[n] = "bad"
        BY <1>1, <3>1, <4>1 DEF Known
      <4>3. mode = "h2"
        BY <2>1, <4>2 DEF PassFrame
      <4>4. conn' = [conn EXCEPT ![q].taken = n]
        BY <2>2, <4>1
      <4>5. SameSent /\ conn'[q].taken = n
        <5>1. conn \in [Peers -> Ends]
          BY <1>1, Types
        <5> QED
          BY <4>1, <4>4, <5>1, Taking
      <4>6. Took(q, "bad")'
        BY <4>1, <4>2, <4>5 DEF Took, SameSent
      <4>7. copy'[q] = "failed"
        BY <1>1, <2>2, <3>1, <4>3 DEF CopyFails, CopyTo, TypeOK
      <4> QED
        BY <1>1, <4>3, <4>6, <4>7 DEF Spoilt
    <3>2. CASE conn[q].sent[conn[q].taken + 1] # "bad"
      <4>1. copy'[q] = "write"
        BY <1>1, <2>2, <3>2 DEF CopyTo, TypeOK
      <4> QED
        BY <4>1
    <3> QED
      BY <3>1, <3>2
  <2>3. CASE AtEOF(q) /\ CopyTo(q, "ended") /\ UNCHANGED conn
    <3>1. conn[q].fin /\ conn[q].taken = Len(conn[q].sent)
      BY <2>1, <2>3 DEF AtEOF, PassFrame
    <3>2. eager[q] \/ conn[q].taken = Len(rcvd[q]) + Len(out[q])
      BY <1>1, <1>6, <2>1 DEF Known, Gapless, Intact
    <3>3. Whole(q)
      BY <3>1, <3>2 DEF Whole
    <3>4. Whole(q)'
      BY <1>1, <2>3, <3>3 DEF Whole, Torn
    <3>5. copy'[q] = "ended"
      BY <1>1, <2>3 DEF CopyTo, TypeOK
    <3> QED
      BY <3>4, <3>5 DEF Over
  <2>4. CASE Dead(q)
    BY <1>6, <2>1, <2>4 DEF Dead, Intact
  <2> QED
    BY <2>2, <2>3, <2>4 DEF CopyRead
<1> QED
  BY <1>1, <1>3, <1>4, <1>5, <1>6, PassStep

(* A copy that has written the end of a stream, or cannot write, ends. *)
LEMMA CopyWritePass ==
  ASSUME Inv, Inv', Onward, PassInv, mode \in Passing => PassFrame',
         NEW q \in Peers, CopyWrite(q)
  PROVE  PassInv'
<1>1. /\ copy[q] = "write" /\ UNCHANGED <<mode, main, conn, errs, rcvd, saw, eager>>
      /\ TypeOK /\ Known(q) /\ Other(q) \in Peers /\ main \in Running
  BY Pair, Parts, AfterSetup DEF CopyWrite, Inv
<1>2. PICK pc : CopyTo(q, pc)
  BY DEF CopyWrite, CopyFails
<1>3. \A p \in Peers : copy'[p] = IF p = q THEN pc ELSE copy[p]
  BY <1>1, <1>2 DEF CopyTo, TypeOK
<1>4. \A p \in Peers : p # q => out'[p] = out[p]
  BY <1>1 DEF CopyWrite, TypeOK
<1>5. Settled
  BY <1>1, <1>3, <1>4 DEF Settled
<1>6. ASSUME main = "relay", mode \in Passing, Intact, Stands
      PROVE  /\ copy'[q] \in {"ended", "done"} => Over(q)'
             /\ copy'[q] # "failed"
  <2>1. PassFrame /\ conn[Other(q)].sock = "open" /\ ~conn[Other(q)].gone
    BY <1>1, <1>6 DEF PassInv, Stands, Intact
  <2>2. CopyTo(q, AfterWrite(q))
    BY <1>1, <2>1 DEF CopyWrite, Dead, PassFrame
  <2>3. copy'[q] = AfterWrite(q)
    BY <1>1, <2>2 DEF CopyTo, TypeOK
  <2>4. CASE conn[q].sent[conn[q].taken] = "end"
    <3>1. conn[q].taken \in 1..conn[q].taken /\ conn[q].taken \in DOMAIN conn[q].sent
      BY <1>1 DEF Known
    <3>2. mode = "h2"
      BY <2>1, <2>4, <3>1 DEF PassFrame
    <3>3. Took(q, "end")
      BY <2>4, <3>1 DEF Took
    <3>4. mode' = "h2" /\ Took(q, "end")'
      BY <1>1, <3>2, <3>3 DEF Took
    <3> QED
      BY <2>3, <3>4 DEF Over, AfterWrite
  <2>5. CASE conn[q].sent[conn[q].taken] # "end"
    BY <2>3, <2>5 DEF AfterWrite
  <2> QED
    BY <2>4, <2>5
<1>7. SameSock
  BY <1>1 DEF SameSock
<1> QED
  BY <1>1, <1>3, <1>5, <1>6, <1>7, PassStep

(* A copy's result is there for the relay to end. *)
LEMMA ReportErrPass ==
  ASSUME Inv, Inv', Onward, PassInv, mode \in Passing => PassFrame',
         NEW q \in Peers, ReportErr(q)
  PROVE  PassInv'
<1>1. /\ copy[q] = "ended" /\ UNCHANGED <<mode, main, conn, out, rcvd, saw, eager>>
      /\ CopyTo(q, "done") /\ TypeOK /\ main \in Running
  BY AfterSetup DEF ReportErr, Inv
<1>2. \A p \in Peers : copy'[p] = IF p = q THEN "done" ELSE copy[p]
  BY <1>1 DEF CopyTo, TypeOK
<1>3. Settled
  BY <1>1, SettledByCopy
<1>4. SameSock /\ copy'[q] = "done"
  BY <1>1, <1>2 DEF SameSock
<1> QED
  BY <1>1, <1>2, <1>3, <1>4, PassStep

(* The first result takes a websocket down: its copy has passed all on. *)
LEMMA FirstErrPass ==
  ASSUME Inv, Inv', Onward, PassInv, mode \in Passing => PassFrame', FirstErr
  PROVE  PassInv'
<1>1. /\ mode \in {"ws", "wss"} /\ main = "relay" /\ main' = "closing" /\ errs > 0
      /\ UNCHANGED <<copy, rcvd, out>>
  BY DEF FirstErr, OneReported
<1>2. Intact => \E p \in Peers : copy[p] = "done" /\ Over(p)
  BY <1>1 DEF PassInv, Passing, Stands
<1> QED
  BY <1>1, <1>2, DownStep

(* A failure, or the second result, takes a session down. *)
LEMMA SelectPass ==
  ASSUME Inv, Inv', Onward, PassInv, mode \in Passing => PassFrame',
         NEW q \in Peers, Select(q)
  PROVE  PassInv'
<1>1. /\ mode = "h2" /\ main = "relay" /\ copy[q] \in {"ended", "failed"}
      /\ CopyTo(q, "done") /\ errs' = errs + 1 /\ UNCHANGED <<out, rcvd>>
      /\ TypeOK /\ Known(q)
  BY Parts DEF Select, Inv
<1>2. \A p \in Peers : copy'[p] = IF p = q THEN "done" ELSE copy[p]
  BY <1>1 DEF CopyTo, TypeOK
<1>3. Intact => Stands
  BY <1>1 DEF PassInv, Passing
<1>4. CASE copy[q] = "failed" /\ main' = "closing"
  <2>1. Intact => Spoilt
    BY <1>3, <1>4 DEF Stands
  <2> QED
    BY <1>1, <1>2, <1>4, <2>1, DownStep
<1>5. CASE copy[q] = "ended" /\ errs + 1 = 2 /\ main' = "closing"
  <2>1. errs > 0
    BY <1>1, <1>5 DEF TypeOK
  <2>2. Intact => \E p \in Peers : copy[p] = "done"
    BY <1>3, <2>1 DEF Stands
  <2>3. Intact => \A p \in Peers : copy'[p] = "done" /\ copy[p] \in {"ended", "done"}
    BY <1>2, <1>5, <2>2, Pair
  <2>4. Intact => \A p \in Peers : Over(p)
    BY <1>3, <2>3 DEF Stands
  <2> QED
    BY <1>1, <1>2, <1>5, <2>3, <2>4, DownStep
<1>6. CASE copy[q] = "ended" /\ UNCHANGED <<main, conn>>
  <2>1. Settled
    BY <1>1, <1>6, SettledByCopy
  <2>2. SameSock /\ main \in Running /\ copy'[q] = "done"
    BY <1>1, <1>2, <1>6 DEF SameSock, Running
  <2> QED
    BY <1>1, <1>2, <1>6, <2>1, <2>2, PassStep
<1> QED
  BY <1>1, <1>4, <1>5, <1>6 DEF Select

(* The rest of the proxy's steps. *)
LEMMA SecondClosePass ==
  ASSUME Inv, Inv', Onward, PassInv, mode \in Passing => PassFrame', SecondClose
  PROVE  PassInv'
<1>1. main = "closing" /\ main' = "done" /\ UNCHANGED <<copy, rcvd, out>>
  BY DEF SecondClose
<1>2. mode \in Passing /\ Intact => Down
  BY <1>1 DEF PassInv
<1> QED
  BY <1>1, <1>2, DownStep DEF Down

(* The copies start on open connections. *)
LEMMA SetupPass ==
  ASSUME Inv, Inv', Onward, PassInv, mode \in Passing => PassFrame', Setup
  PROVE  PassInv'
<1>1. main' \in Setting \cup {"failed"} \/ Handshake
  BY DEF Setup, Hijack, Dial, ConnectAnswer, SetupFails, Connected, Setting
<1>2. CASE main' \in Setting \cup {"failed"}
  <2>1. main' \notin {"relay", "closing", "done"}
    BY <1>2 DEF Setting
  <2> QED
    BY <2>1 DEF PassInv, Onward
<1>3. CASE Handshake /\ main' = "relay"
  <2>1. /\ copy' = [p \in Peers |-> "read"] /\ UNCHANGED errs
        /\ \E k \in Arrived("target") : Swallow("target", k)
        /\ main = "hello"
    BY <1>3 DEF Handshake, SetupFails
  <2>2. /\ errs = 0
        /\ conn["client"].sock = "open" /\ conn["target"].sock = "open"
    BY <2>1 DEF Inv, SetupInv, Setting
  <2>3. conn \in [Peers -> Ends] /\ Arrived("target") \subseteq Nat
    BY Types, Pair DEF Inv, TypeOK, Arrived
  <2>4. PICK n : conn' = [conn EXCEPT !["target"].taken = n]
    BY <2>1 DEF Swallow
  <2>5. SameSock
    BY <2>3, <2>4 DEF SameSock, Ends
  <2>6. Stands'
    BY <2>1, <2>2, <2>5, Pair DEF Stands, SameSock
  <2> QED
    BY <1>3, <2>6 DEF PassInv, Onward
<1>4. Handshake => main' \in {"relay", "failed"}
  BY DEF Handshake, SetupFails
<1> QED
  BY <1>1, <1>2, <1>3, <1>4

(* Peers leave the copies alone. *)
LEMMA PeersPass ==
  ASSUME Inv, Inv', Onward, PassInv, mode \in Passing => PassFrame',
         NEW r \in Peers, PeerStep(r) \/ PeerTakes(r)
  PROVE  PassInv'
<1>1. UNCHANGED <<mode, main, copy, errs>>
  BY DEF PeerStep, PeerTakes, PeerSends, PeerFinishes, PeerVanishes, PeerReads,
         PeerSeesEnd, Reset
<1>2. CASE main \notin Running
  BY <1>1, <1>2 DEF PassInv, Running
<1>3. CASE main \in Running
  <2>1. TypeOK /\ conn \in [Peers -> Ends]
    BY Types DEF Inv
  <2>2. SameSock
    <3>1. CASE PeerSends(r)
      <4>1. PICK i \in ItemsOf(mode) :
              conn' = [conn EXCEPT ![r].sent = Append(conn[r].sent, i)]
        BY <3>1 DEF PeerSends
      <4> QED
        BY <2>1, <4>1 DEF SameSock, Ends
    <3>2. CASE PeerFinishes(r)
      BY <2>1, <3>2, Finishing DEF PeerFinishes
    <3>3. CASE PeerVanishes(r)
      BY <2>1, <3>3, Vanishing DEF PeerVanishes
    <3>4. CASE UNCHANGED conn
      BY <3>4 DEF SameSock
    <3> QED
      BY <3>1, <3>2, <3>3, <3>4 DEF PeerStep, PeerTakes, PeerReads, PeerSeesEnd, Reset
  <2>3. Settled
    <3> SUFFICES ASSUME NEW p \in Peers
                 PROVE  \/ Len(rcvd'[p]) + Len(out'[p]) = Len(rcvd[p]) + Len(out[p])
                        \/ Torn(Other(p))'
      BY <1>1 DEF Settled
    <3>1. CASE PeerReads(r)
      <4>1. /\ out[Other(r)] # <<>> /\ Other(r) \in Peers
            /\ rcvd' = [rcvd EXCEPT ![Other(r)] = Append(@, Head(out[Other(r)]))]
            /\ out' = [out EXCEPT ![Other(r)] = Tail(@)]
        BY <3>1, Pair DEF PeerReads
      <4>2. CASE p = Other(r)
        <5>1. PICK o \in Seq(Nat), d \in Seq(Nat) : o = out[p] /\ d = rcvd[p] /\ o # <<>>
          BY <2>1, <4>1, <4>2 DEF TypeOK
        <5>2. out'[p] = Tail(o) /\ rcvd'[p] = Append(d, Head(o))
          BY <2>1, <4>1, <4>2, <5>1 DEF TypeOK
        <5>3. Len(Tail(o)) = Len(o) - 1 /\ Len(o) \in Nat /\ Head(o) \in Nat
          BY <5>1, HeadAndTail
        <5>4. Len(Append(d, Head(o))) = Len(d) + 1 /\ Len(d) \in Nat
          BY <5>1, <5>3
        <5>5. PICK m \in Nat, l \in Nat : m = Len(o) /\ l = Len(d)
          BY <5>3, <5>4
        <5>6. (l + 1) + (m - 1) = l + m
          OBVIOUS
        <5> QED
          BY <5>1, <5>2, <5>3, <5>4, <5>5, <5>6
      <4>3. CASE p # Other(r)
        BY <2>1, <4>1, <4>3 DEF TypeOK
      <4> QED
        BY <4>2, <4>3
    <3>2. CASE Reset(r)
      <4>1. Torn(r)' /\ (p # Other(r) => out'[p] = out[p]) /\ UNCHANGED rcvd
        BY <2>1, <3>2 DEF Reset, Torn, TypeOK
      <4>2. p = Other(r) => Other(p) = r
        BY Pair
      <4> QED
        BY <4>1, <4>2
    <3>3. CASE UNCHANGED <<rcvd, out>>
      BY <3>3
    <3> QED
      BY <3>1, <3>2, <3>3
         DEF PeerStep, PeerTakes, PeerSends, PeerFinishes, PeerVanishes, PeerSeesEnd
  <2> QED
    BY <1>1, <1>3, <2>2, <2>3, PassStep
<1> QED
  BY <1>2, <1>3

(* The two parts of why relays end hold throughout. *)
LEMMA PassHolds == Spec => [](Inv /\ PassInv)
<1>1. Init => PassInv
  <2> SUFFICES ASSUME Init PROVE PassInv
    OBVIOUS
  <2>1. main \notin {"relay", "closing", "done"}
    BY DEF Init
  <2>2. PassFrame
    <3>1. DOMAIN <<>> = {}
      OBVIOUS
    <3> QED
      BY <3>1 DEF Init, PassFrame
  <2> QED
    BY <2>1, <2>2 DEF PassInv
<1>2. Inv /\ PassInv /\ [Next]_vars => PassInv'
  <2> SUFFICES ASSUME Inv, PassInv, [Next]_vars PROVE PassInv'
    OBVIOUS
  <2>1. Inv'
    BY NextInv
  <2>2. CASE Next
    <3>1. mode \in Passing => PassFrame'
      BY <2>2, FrameKept
    <3>2. CASE Setup
      BY <2>1, <3>1, <3>2, SetupOnward, SetupPass
    <3>3. CASE MainStep
      <4>1. Onward
        BY <3>3, MainOnward
      <4>2. CASE WgWait
        BY <4>1, <4>2 DEF WgWait, PassInv, Onward, Passing
      <4> QED
        BY <2>1, <3>1, <3>3, <4>1, <4>2, FirstErrPass, SelectPass, SecondClosePass
           DEF MainStep
    <3>4. ASSUME NEW q \in Peers, CopyStep(q) PROVE PassInv'
      <4>1. Onward
        BY <3>4, CopyOnward
      <4>2. CASE CloseWrite(q) \/ CloseRead(q) \/ WgDone(q)
        BY <4>1, <4>2 DEF CloseWrite, CloseRead, WgDone, PassInv, Onward, Passing
      <4> QED
        BY <2>1, <3>1, <3>4, <4>1, <4>2, CopyReadPass, CopyWritePass, ReportErrPass
           DEF CopyStep
    <3>5. ASSUME NEW q \in Peers, PeerStep(q) \/ PeerTakes(q) PROVE PassInv'
      BY <2>1, <3>1, <3>5, PeersOnward, PeersPass
    <3> QED
      BY <2>2, <3>2, <3>3, <3>4, <3>5 DEF Next
  <2>3. CASE UNCHANGED vars
    <3>1. UNCHANGED <<mode, main, conn, copy, errs, out, rcvd, eager>>
      BY <2>3 DEF vars
    <3>2. \A p \in Peers : /\ Torn(p)' = Torn(p) /\ Took(p, "end")' = Took(p, "end")
                          /\ Took(p, "bad")' = Took(p, "bad")
      BY <3>1 DEF Torn, Took
    <3>3. \A p \in Peers : Over(p)' = Over(p)
      BY <3>1, <3>2, Pair DEF Over, Whole
    <3>4. Spoilt' = Spoilt /\ Intact' = Intact /\ PassFrame' = PassFrame
      BY <3>1, <3>2 DEF Spoilt, Intact, PassFrame
    <3>5. Stands' = Stands /\ Down' = Down
      BY <3>1, <3>3, <3>4 DEF Stands, Down
    <3> QED
      BY <3>1, <3>4, <3>5 DEF PassInv
  <2> QED
    BY <2>2, <2>3
<1> QED
  BY <1>1, <1>2, InvHolds, PTL DEF Spec

-----------------------------------------------------------------------------
(* The streams that DuplexStream speaks of. *)
Sent == [p \in Peers |-> Len(conn[p].sent)]
Fin == [p \in Peers |-> conn[p].fin]
Ended == [p \in Peers |-> saw[Other(p)]]
Cut == [p \in Peers |-> CutShort(p)]

(* A relay begins as two empty streams. *)
LEMMA InitRefines == Init => Stream!Init
<1> SUFFICES ASSUME Init PROVE Stream!Init
  OBVIOUS
<1>1. /\ Sent = [p \in Peers |-> 0] /\ Fin = [p \in Peers |-> FALSE]
      /\ Ended = [p \in Peers |-> FALSE]
  BY Pair DEF Init, Sent, Fin, Ended
<1>2. eager \in [Peers -> BOOLEAN]
  BY Zenon DEF Init
<1>3. Cut \in [Peers -> BOOLEAN]
  <2>1. \A p \in Peers : CutShort(p) \in BOOLEAN
    BY Zenon DEF CutShort
  <2> QED
    BY <2>1 DEF Cut
<1>4. rcvd = [p \in Peers |-> <<>>]
  BY DEF Init
<1> QED
  BY <1>1, <1>2, <1>3, <1>4 DEF Stream!Init, Sent, Fin, Ended, Cut

(* Nothing mends a stream that is lossy or cut short. *)
LEMMA NextWorsens == ASSUME Inv, Next PROVE Stream!Worsens
<1>1. Inv'
  BY NextInv
<1>2. Onward
  BY SetupOnward, MainOnward, CopyOnward, PeersOnward DEF Next
<1>3. \A p \in Peers : (eager[p] => eager'[p]) /\ (Cut[p] => Cut'[p])
  BY <1>1, <1>2, CutStays DEF Cut, Onward
<1> QED
  BY <1>3 DEF Stream!Worsens, Cut

(* Steps of the proxy, and a reset, are not seen in the streams. *)
Quiet == UNCHANGED <<Sent, Fin, rcvd, Ended>>

(* That is so for each of them. *)
LEMMA ProxyIsQuiet ==
  ASSUME Inv, Setup \/ MainStep \/ \E q \in Peers : CopyStep(q) \/ Reset(q)
  PROVE  Quiet
<1>1. UNCHANGED <<rcvd, saw>>
  BY DEF Setup, MainStep, CopyStep, Hijack, Dial, ConnectAnswer, Handshake, WgWait,
         FirstErr, Select, SecondClose, CopyRead, CopyWrite, CloseWrite, CloseRead,
         WgDone, ReportErr, Reset
<1>2. /\ conn \in [Peers -> Ends] /\ \A p \in Peers : conn[p].taken \in Nat
      /\ \A p \in Peers : Arrived(p) \subseteq Nat
  BY Types DEF Inv, TypeOK, Arrived
<1>3. ASSUME NEW q \in Peers, NEW k \in Nat, conn' = [conn EXCEPT ![q].taken = @ + k]
      PROVE  SameSent /\ SameFin
  <2>1. PICK n \in Nat : n = conn[q].taken + k
    BY <1>2
  <2>2. conn' = [conn EXCEPT ![q].taken = n]
    BY <1>3, <2>1
  <2> QED
    BY <1>2, <2>2, Taking
<1>4. CASE Setup
  <2>1. \/ \E ps : CloseConns(ps)
        \/ \E q \in Peers, k \in Nat : conn' = [conn EXCEPT ![q].taken = @ + k]
        \/ conn' = [conn EXCEPT !["target"].sock = "open"]
    BY <1>2, <1>4, Pair
       DEF Setup, Hijack, Dial, ConnectAnswer, Handshake, SetupFails, Swallow
  <2>2. SameSent /\ SameFin
    BY <1>2, <1>3, <2>1, Closing, Opening, Pair
  <2> QED
    BY <1>1, <2>2 DEF Quiet, Sent, Fin, Ended, SameSent, SameFin
<1>5. CASE MainStep
  <2>1. (\E ps : CloseConns(ps)) \/ UNCHANGED conn
    BY <1>5 DEF MainStep, WgWait, FirstErr, Select, SecondClose
  <2>2. SameSent /\ SameFin
    BY <1>2, <2>1, Closing DEF SameSent, SameFin
  <2> QED
    BY <1>1, <2>2 DEF Quiet, Sent, Fin, Ended, SameSent, SameFin
<1>6. ASSUME NEW q \in Peers, CopyStep(q) \/ Reset(q) PROVE Quiet
  <2>1. \/ UNCHANGED conn \/ conn' = [conn EXCEPT ![q].taken = @ + 1]
        \/ CloseWrite(q) \/ CloseRead(q)
    BY <1>6 DEF CopyStep, CopyRead, CopyWrite, WgDone, ReportErr, Reset
  <2>2. CASE CloseWrite(q) \/ CloseRead(q)
    <3>1. SameSent /\ SameFin
      BY <1>2, <2>2, ShuttingW, ShuttingR, Pair DEF CloseWrite, CloseRead
    <3> QED
      BY <1>1, <3>1 DEF Quiet, Sent, Fin, Ended, SameSent, SameFin
  <2>3. CASE UNCHANGED conn \/ conn' = [conn EXCEPT ![q].taken = @ + 1]
    <3>1. SameSent /\ SameFin
      <4>1. 1 \in Nat
        OBVIOUS
      <4> QED
        BY <1>3, <2>3, <4>1 DEF SameSent, SameFin
    <3> QED
      BY <1>1, <3>1 DEF Quiet, Sent, Fin, Ended, SameSent, SameFin
  <2> QED
    BY <2>1, <2>2, <2>3
<1> QED
  BY <1>4, <1>5, <1>6

(* Sending is sending there. *)
LEMMA PeerSendsRefines ==
  ASSUME Inv, NEW q \in Peers, PeerSends(q) PROVE Stream!Send(q)
<1>1. conn \in [Peers -> Ends] /\ conn[q].sent \in Seq(Items)
  BY Types DEF Inv
<1>2. PICK i \in ItemsOf(mode) :
        conn' = [conn EXCEPT ![q].sent = Append(conn[q].sent, i)]
  BY DEF PeerSends
<1>3. /\ Append(conn[q].sent, i) \in Seq(Items)
      /\ Len(Append(conn[q].sent, i)) = Len(conn[q].sent) + 1
  BY <1>1, <1>2, SentAppend DEF ItemsOf, Items
<1>4. /\ SameFin
      /\ \A p \in Peers : conn'[p].sent = IF p = q THEN Append(conn[q].sent, i)
                                          ELSE conn[p].sent
  BY <1>1, <1>2, <1>3, Sending
<1>5. Sent' = [Sent EXCEPT ![q] = @ + 1]
  BY <1>3, <1>4 DEF Sent
<1>6. UNCHANGED <<Fin, rcvd, Ended>> /\ ~Fin[q]
  BY <1>4 DEF Fin, Ended, SameFin, PeerSends
<1> QED
  BY <1>5, <1>6 DEF Stream!Send, Sent, Fin, Ended

(* An end, or a loss, ends the abstract stream. *)
LEMMA PeerStopsRefines ==
  ASSUME Inv, NEW q \in Peers, PeerFinishes(q) \/ PeerVanishes(q)
  PROVE  Stream!Finish(q)
<1>1. conn \in [Peers -> Ends]
  BY Types DEF Inv
<1>2. /\ SameSent
      /\ \A p \in Peers : conn'[p].fin = IF p = q THEN TRUE ELSE conn[p].fin
  BY <1>1, Finishing, Vanishing DEF PeerFinishes, PeerVanishes
<1>3. UNCHANGED <<rcvd, saw>>
  BY DEF PeerFinishes, PeerVanishes
<1>4. UNCHANGED <<Sent, rcvd, Ended>> /\ Fin' = [Fin EXCEPT ![q] = TRUE]
  BY <1>2, <1>3 DEF Sent, Fin, Ended, SameSent
<1> QED
  BY <1>4 DEF Stream!Finish, Sent, Fin, Ended

(* What a peer reads is the next item of the other's stream; only a lossy  *)
(* stream may have skipped some.                                           *)
LEMMA PeerReadsRefines ==
  ASSUME Inv, NEW r \in Peers, PeerReads(r) PROVE Stream!Deliver(Other(r))
<1> DEFINE q == Other(r)
<1>1. /\ out[q] # <<>>
      /\ rcvd' = [rcvd EXCEPT ![q] = Append(@, Head(out[q]))]
      /\ UNCHANGED <<conn, saw>>
  BY DEF PeerReads
<1>2. q \in Peers /\ Other(q) = r /\ Known(q) /\ Known(r)
  BY Pair, Parts
<1>3. ~Ended[q]
  BY <1>1, <1>2 DEF Ended, Known, EndIsLast
<1> HIDE DEF q
<1>4. PICK h \in Nat, o \in Seq(Nat) :
        o = out[q] /\ h = Head(o) /\ h = o[1] /\ 1 \in DOMAIN o
  BY <1>1, <1>2, HeadAndTail DEF Known
<1>5. /\ Stream!Last(rcvd[q]) \in Nat /\ Stream!Last(rcvd[q]) < h
      /\ h <= conn[q].taken
  BY <1>2, <1>4 DEF Known, Rising
<1>6. h \in (Stream!Last(rcvd[q]) + 1)..Sent[q]
  BY <1>2, <1>5, SMTT(30) DEF Sent, Known
<1>7. h = Stream!Last(rcvd[q]) + 1 \/ eager[q]
  BY <1>2, <1>4 DEF Known, Gapless
<1>8. UNCHANGED <<Sent, Fin, Ended>>
  BY <1>1 DEF Sent, Fin, Ended
<1>9. rcvd' = [rcvd EXCEPT ![q] = Append(@, h)]
  BY <1>1, <1>4
<1>10. Stream!Deliver(q)
  BY <1>3, <1>6, <1>7, <1>8, <1>9 DEF Stream!Deliver, Sent, Fin, Ended
<1> QED
  BY <1>10 DEF q

(* A peer is shown the end of a stream behind its last item, unless the    *)
(* stream was cut short.                                                   *)
LEMMA PeerSeesEndRefines ==
  ASSUME Inv, PassInv, NEW r \in Peers, PeerSeesEnd(r) PROVE Stream!End(Other(r))
<1> DEFINE q == Other(r)
<1>1. /\ out[q] = <<>>
      /\ conn[r].shutW \/ conn[r].sock = "closed"
      /\ saw' = [saw EXCEPT ![r] = TRUE]
      /\ UNCHANGED <<conn, rcvd>>
  BY DEF PeerSeesEnd
<1>2. q \in Peers /\ Other(q) = r /\ q # r /\ Known(q) /\ Known(r) /\ TypeOK
  BY Pair, Parts DEF Inv
<1> HIDE DEF q
<1>3. Ended' = [Ended EXCEPT ![q] = TRUE]
  <2>1. \A p \in Peers : saw'[Other(p)] = IF p = q THEN TRUE ELSE saw[Other(p)]
    BY <1>1, <1>2, Pair DEF TypeOK
  <2> QED
    BY <1>2, <2>1 DEF Ended
<1>4. UNCHANGED <<Sent, Fin, rcvd>>
  BY <1>1 DEF Sent, Fin
<1>5. Cut[q] \/ (Fin[q] /\ (eager[q] \/ Len(rcvd[q]) = Sent[q]))
  <2> SUFFICES ASSUME ~CutShort(q)
               PROVE  Fin[q] /\ (eager[q] \/ Len(rcvd[q]) = Sent[q])
    BY <1>2 DEF Cut
  <2>1. main # "failed" /\ Intact
    BY DEF CutShort, Intact
  <2>2. conn[r].sock = "closed" => main \in Running
    <3>1. main \in Setting =>
            conn["client"].sock = "open" /\ conn["target"].sock # "closed"
      BY DEF Inv, SetupInv, Setting
    <3> QED
      BY <1>2, <2>1, <3>1, Pair DEF TypeOK, Setting, Running
  <2>3. SUFFICES /\ conn[q].fin /\ conn[q].taken = Len(conn[q].sent)
                 /\ eager[q] \/ Len(rcvd[q]) + Len(out[q]) = conn[q].taken
    <3>1. Len(out[q]) = 0
      BY <1>1
    <3>2. PICK l \in Nat : l = Len(rcvd[q])
      BY <1>2 DEF Known
    <3> QED
      BY <1>2, <2>3, <3>1, <3>2 DEF Fin, Sent
  <2>4. CASE mode \in Tunnels
    <3>1. copy[q] \in {"shutR", "done"}
      <4>1. CASE conn[r].shutW
        BY <1>2, <2>1, <2>4, <4>1 DEF Known, TunnelInv, Inv, SetupInv, TypeOK
      <4>2. CASE conn[r].sock = "closed"
        <5>1. main \in Running /\ main # "relay"
          BY <1>2, <2>2, <2>4, <4>2 DEF Known, TunnelInv
        <5> QED
          BY <1>2, <2>4, <5>1 DEF Known, TunnelInv, Running
      <4> QED
        BY <1>1, <4>1, <4>2
    <3> QED
      BY <1>2, <2>1, <2>4, <3>1 DEF Known, TunnelInv
  <2>5. CASE mode \in Passing
    <3>1. conn[r].sock = "closed" /\ main \in Running
      BY <1>1, <2>2, <2>5 DEF PassInv, PassFrame
    <3>2. main # "relay"
      BY <2>1, <2>5, <3>1 DEF PassInv, Stands
    <3>3. Down
      BY <2>1, <2>5, <3>1, <3>2 DEF PassInv, Running
    <3>4. ~Torn(r)
      BY <1>2, <2>5 DEF CutShort, Passing
    <3>5. Over(q)
      <4>1. CASE mode # "h2"
        <5>1. ~conn[r].fin
          BY <1>2, <2>5, <4>1 DEF CutShort, Passing
        <5>2. ~Over(r)
          BY <4>1, <5>1 DEF Over, Whole
        <5> QED
          BY <1>2, <3>3, <4>1, <5>2, Pair DEF Down
      <4>2. CASE mode = "h2"
        BY <1>2, <3>3, <4>2 DEF Down, Spoilt, CutShort
      <4> QED
        BY <4>1, <4>2
    <3>6. CASE Whole(q)
      BY <1>2, <3>4, <3>6 DEF Whole
    <3>7. CASE mode = "h2" /\ Took(q, "end")
      <4>1. Over(r) \/ Spoilt
        BY <3>3, <3>7 DEF Down
      <4>2. conn[r].fin \/ Took(r, "end") \/ \E p \in Peers : Took(p, "bad")
        BY <4>1 DEF Over, Whole, Spoilt
      <4> QED
        BY <1>2, <3>7, <4>2 DEF CutShort
    <3> QED
      BY <3>5, <3>6, <3>7 DEF Over
  <2> QED
    BY <1>2, <2>4, <2>5, RelayAssumption DEF TypeOK, Tunnels, Passing
<1>6. Stream!End(q)
  BY <1>3, <1>4, <1>5 DEF Stream!End, Sent, Fin, Ended, Cut
<1> QED
  BY <1>6 DEF q

(* Every step of a relay is one of the two streams, or leaves them alone. *)
LEMMA NextRefines == Inv /\ PassInv /\ [Next]_vars => [Stream!Next]_(Stream!dvars)
<1> SUFFICES ASSUME Inv, PassInv, [Next]_vars
             PROVE  Stream!Next \/ UNCHANGED Stream!dvars
  OBVIOUS
<1>1. CASE Setup \/ MainStep \/ \E q \in Peers : CopyStep(q) \/ Reset(q)
  <2>1. Stream!Worsens /\ Quiet
    BY <1>1, NextWorsens, ProxyIsQuiet DEF Next, PeerStep
  <2> QED
    BY <2>1 DEF Stream!Next, Quiet, Sent, Fin, Ended
<1>2. ASSUME NEW q \in Peers, PeerStep(q) \/ PeerTakes(q), ~Reset(q)
      PROVE  Stream!Next
  <2>1. Stream!Worsens
    BY <1>2, NextWorsens DEF Next
  <2>2. \E p \in Peers : \/ Stream!Send(p) \/ Stream!Finish(p)
                         \/ Stream!Deliver(p) \/ Stream!End(p)
    BY <1>2, Pair, PeerSendsRefines, PeerStopsRefines, PeerReadsRefines,
       PeerSeesEndRefines DEF PeerStep, PeerTakes
  <2> QED
    BY <2>1, <2>2 DEF Stream!Next
<1>3. CASE UNCHANGED vars
  <2>1. UNCHANGED Stream!dvars
    BY <1>3 DEF vars, Stream!dvars, CutShort, Torn, Took
  <2> QED
    BY <2>1
<1> QED
  BY <1>1, <1>2, <1>3 DEF Next

(* Relay implements DuplexStream, in every mode, for any number of items   *)
(* and any room: what a peer reads is what the other sent, in order, with  *)
(* no gap unless a peer spoke before the relay stood; and no stream of a   *)
(* relay that has lost neither peer ends before its last item, but for a   *)
(* websocket whose other peer has finished, and for an HTTP/2 session that *)
(* has had an END_STREAM in this direction, and one or the end in the      *)
(* other, or a frame of an unknown type; or for a reset.                   *)
THEOREM Refinement == Spec => ImplementsDuplexStream
<1>1. Init => Stream!Init
  BY InitRefines
<1>2. Inv /\ PassInv /\ [Next]_vars => [Stream!Next]_(Stream!dvars)
  BY NextRefines
<1> QED
  BY <1>1, <1>2, PassHolds, PTL DEF Spec, ImplementsDuplexStream, Stream!Spec
=============================================================================
