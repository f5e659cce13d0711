--------------------------- MODULE MitmLoopProofs ---------------------------
(***************************************************************************)
(* Proofs about MitmLoop for any number of requests, any body and any      *)
(* buffer: its types, that the loops stay in step with their client, that  *)
(* a client can decode their replies, and which of those that it takes for *)
(* complete can lack a part.                                               *)
(*                                                                         *)
(* Three inductive invariants carry them.  Reading: what the reader holds  *)
(* and what is on the wire is one unbroken run of the client's tokens, and *)
(* begins where the loop goes on.  Writing: the client's decoder is where  *)
(* the TLS loop is, and has counted what it has written.  The replies of   *)
(* the HTTP loop: requests, replies made and replies received count alike, *)
(* up to the one under way.                                                *)
(***************************************************************************)
EXTENDS MitmLoop, TLAPS, SequenceTheorems, FiniteSetTheorems, FunctionTheorems

InReply == {"status", "header", "blank", "copy", "size", "data", "chunk", "last",
            "trailer"}
Replying == InReply \cup {"text"}

-----------------------------------------------------------------------------
(* Reading. *)

(* Every request on its way, and the one being served, is the client's. *)
Among(sent, req) == req.no \in DOMAIN sent /\ sent[req.no] = req
OfClient(req) == Among(client.sent, req)

RequestsInv ==
  /\ \A i \in DOMAIN client.sent : client.sent[i].no = i
  /\ \A i \in DOMAIN wire : OfClient(wire[i].req)
  /\ \A i \in DOMAIN buf : OfClient(buf[i].req)
  /\ client.owes => client.sent # <<>>
  /\ client.gone => ~client.open
  /\ pc \notin {"top", "read", "returned"} => OfClient(cur)

(* A body follows the head of a POST, the next head anything else. *)
Follows(a, b) ==
  IF a.part = "head" /\ a.req.kind = "POST"
  THEN b = [part |-> "body", req |-> a.req]
  ELSE b.part = "head" /\ b.req.no = a.req.no + 1

Unbroken(s) == \A i \in DOMAIN s : i + 1 \in DOMAIN s => Follows(s[i], s[i + 1])

(* The next token for the loop, and the last that the client has sent. *)
Waiting == buf # <<>> \/ wire # <<>>
FirstToken == IF buf # <<>> THEN buf[1] ELSE wire[1]
LastToken == IF wire # <<>> THEN wire[Len(wire)] ELSE buf[Len(buf)]

(* The loop has read the head of a POST and not its body. *)
Owing == pc \in {"filter", "body"} /\ cur.kind = "POST"

(* Requests come in order.  The TLS loop reads nothing but heads as such,  *)
(* the HTTP loop is in step as long as nothing has slipped.                *)
Stream ==
  /\ Unbroken(buf) /\ Unbroken(wire)
  /\ buf # <<>> /\ wire # <<>> => Follows(buf[Len(buf)], wire[1])

Placed ==
  /\ \A i \in DOMAIN served : served[i] = i
  /\ served # <<>> => OfClient(cur) /\ cur.no = Len(served)
  /\ Waiting => IF FirstToken.part = "body"
                THEN served # <<>> /\ FirstToken.req = cur
                ELSE FirstToken.req.no = Len(served) + 1
  /\ client.open /\ Waiting =>
       /\ LastToken.req.no = Len(client.sent)
       /\ client.owes <=> LastToken.part = "head" /\ LastToken.req.kind = "POST"
  /\ client.open /\ ~Waiting =>
       /\ Len(served) = Len(client.sent)
       /\ client.owes => cur.kind = "POST"
  /\ pc \in {"filter", "body"} => served # <<>>

ReadingInv == loop = "tls" \/ InStep => Stream /\ Placed

(* In step, the next token is a body exactly when the loop is owed one.    *)
StepInv ==
  InStep =>
    /\ ~slips.misread
    /\ pc # "returned" =>
         /\ Waiting => (FirstToken.part = "body" <=> Owing)
         /\ client.open /\ ~Waiting => (client.owes <=> Owing)

(* A client of the HTTP loop that waits for each reply has one request     *)
(* under way, and nothing is dropped with a reader.                        *)
TurnsInv ==
  loop = "http" /\ InStep =>
    /\ Len(client.sent) <= Len(served) + 1
    /\ pc \notin {"top", "read", "returned"} => Len(client.sent) = Len(served)
    /\ pc = "top" => buf = <<>>

-----------------------------------------------------------------------------
(* Writing. *)

(* The TLS loop makes one reply to every request. *)
CountInv ==
  /\ loop = "http" => pc \notin InReply \ {"status"}
  /\ loop = "tls" =>
       /\ pc # "text"
       /\ pc \in {"filter", "body"} => Len(served) = Len(made) + 1
       /\ pc \notin {"filter", "body", "returned"} => Len(served) = Len(made)

(* What is left of a body is what is left of the reply. *)
ReplyInv ==
  pc \in InReply =>
    LET m == made[Len(made)]
    IN  /\ made # <<>>
        /\ m.whole <=> (~broken \/ cur.kind = "HEAD")
        /\ m.status = "bodyless" => body = <<>> /\ ~broken
        /\ pc \in {"status", "header", "blank"} =>
             m.size = IF cur.kind = "HEAD" THEN 0 ELSE FullReads(body)
        /\ pc \notin {"status", "header", "blank"} => cur.kind # "HEAD"
        /\ pc \in {"size", "data", "chunk"} => body # <<>> /\ Head(body)
        /\ pc \in {"last", "trailer"} => body = <<>> /\ ~broken

(* Where the client's decoder is while the loop is at pc. *)
PlaceFor(l) ==
  CASE l \in {"top", "read", "filter", "body", "status"} -> "status"
    [] l = "header" -> "header"
    [] l = "blank" -> "blank"
    [] l \in {"copy", "size", "last"} -> "size"
    [] l = "data" -> "data"
    [] l = "chunk" -> "crlf"
    [] l = "trailer" -> "end"

(* The decoder is in the middle of the reply that the loop writes, *)
Decoding ==
  /\ seen.at = PlaceFor(pc)
  /\ pc \in InReply => Len(seen.done) = Len(made) - 1
  /\ pc \notin InReply => Len(seen.done) = Len(made)
  /\ pc \in {"header", "blank"} => seen.code = made[Len(made)].status
  /\ pc \in InReply \ {"status", "header", "blank"} =>
       made[Len(made)].status # "bodyless"
  /\ pc \in {"copy", "size", "data"} =>
       seen.got + FullReads(body) = made[Len(made)].size
  /\ pc = "chunk" => seen.got + FullReads(body) = made[Len(made)].size + 1
  /\ pc \in {"last", "trailer"} => seen.got = made[Len(made)].size
  /\ pc \notin {"copy", "size", "data", "chunk", "last", "trailer"} => seen.got = 0

(* or takes a 204 or 304 for complete while the loop sends a body, *)
AheadOf204 ==
  /\ pc \in {"copy", "last"} /\ seen.at = "status" /\ seen.got = 0
  /\ Len(seen.done) = Len(made)
  /\ made # <<>> /\ made[Len(made)].status = "bodyless"

(* or is lost behind one.                                                  *)
Decodable ==
  seen.at = "lost" => \E i \in DOMAIN made : made[i].status = "bodyless"

(* What it took for complete is complete. *)
Exact == \A i \in DOMAIN seen.done : made[i].whole /\ seen.done[i] = made[i].size

DecoderInv ==
  loop = "tls" =>
    /\ Decodable /\ Exact
    /\ Len(seen.done) <= Len(made)
    /\ ~client.gone /\ pc # "returned" =>
         Decoding \/ AheadOf204 \/ seen.at = "lost"

(* A client of the HTTP loop completes at most one reply for each that was *)
(* made, and lacks one while it is written.                                *)
PlainCount ==
  /\ Len(seen.done) <= Len(made)
  /\ pc \in {"status", "text"} => Len(seen.done) < Len(made)

(* In step, it has one request under way and its decoder waits for one     *)
(* reply; a reply that is not whole is the last, with the error behind it. *)
PlainTurn ==
  /\ Len(made) <= Len(served)
  /\ Len(client.sent) <= Len(seen.done) + 1
  /\ pc \in {"filter", "body"} => Len(made) < Len(served)
  /\ Len(seen.done) = Len(made) \/ pc = "status" => seen.at = "status" /\ seen.got = 0

PlainReplies ==
  /\ \A i \in DOMAIN made : made[i].whole \/ i = Len(made)
  /\ pc \in {"top", "read", "filter", "body"} => \A i \in DOMAIN made : made[i].whole
  /\ pc = "text" /\ made[Len(made)].whole =>
       /\ seen.at = "status" /\ seen.got = 0
       /\ client.gone \/ made[Len(made)].size = 0
  /\ seen.at = "lost" => \E i \in DOMAIN made : ~made[i].whole
  /\ \A i \in DOMAIN seen.done :
       \/ made[i].whole /\ seen.done[i] = made[i].size
       \/ ~made[i].whole /\ i = Len(made)

PlainInv ==
  loop = "http" => PlainCount /\ (InStep => PlainTurn /\ PlainReplies)

Inv ==
  /\ TypeOK /\ RequestsInv /\ ReadingInv /\ StepInv /\ TurnsInv
  /\ CountInv /\ ReplyInv /\ DecoderInv /\ PlainInv

-----------------------------------------------------------------------------
(* Sequences. *)
LEMMA SeqFacts ==
  ASSUME NEW S, NEW s \in Seq(S)
  PROVE  /\ Len(s) \in Nat /\ DOMAIN s = 1..Len(s)
         /\ \A i \in 1..Len(s) : s[i] \in S
         /\ s = <<>> <=> Len(s) = 0
OBVIOUS

(* The rest of a sequence. *)
LEMMA TailFacts ==
  ASSUME NEW S, NEW s \in Seq(S), s # <<>>
  PROVE  /\ Head(s) \in S /\ Head(s) = s[1] /\ 1 \in DOMAIN s
         /\ Tail(s) \in Seq(S) /\ Len(Tail(s)) = Len(s) - 1
         /\ Len(s) \in Nat \ {0} /\ DOMAIN s = 1..Len(s)
         /\ DOMAIN Tail(s) = 1..(Len(s) - 1)
         /\ \A i \in 1..(Len(s) - 1) : Tail(s)[i] = s[i + 1]
         /\ Tail(s) = <<>> <=> Len(s) = 1
<1>1. /\ Head(s) \in S /\ Tail(s) \in Seq(S) /\ Len(Tail(s)) = Len(s) - 1
      /\ \A i \in 1..Len(Tail(s)) : Tail(s)[i] = s[i + 1]
  BY HeadTailProperties
<1>2. Len(s) \in Nat /\ Len(s) # 0 /\ DOMAIN s = 1..Len(s)
  BY SeqFacts
<1>3. DOMAIN Tail(s) = 1..Len(Tail(s)) /\ (Tail(s) = <<>> <=> Len(Tail(s)) = 0)
  BY <1>1, SeqFacts
<1>4. Head(s) = s[1]
  OBVIOUS
<1> QED
  BY <1>1, <1>2, <1>3, <1>4

(* A sequence with one more element. *)
LEMMA AppendFacts ==
  ASSUME NEW S, NEW s \in Seq(S), NEW x \in S
  PROVE  /\ Append(s, x) \in Seq(S) /\ Len(Append(s, x)) = Len(s) + 1
         /\ Append(s, x) # <<>> /\ Len(s) \in Nat
         /\ DOMAIN s = 1..Len(s) /\ DOMAIN Append(s, x) = 1..(Len(s) + 1)
         /\ \A i \in 1..Len(s) : Append(s, x)[i] = s[i]
         /\ Append(s, x)[Len(s) + 1] = x
OBVIOUS

(* A sequence cut in two behind element k. *)
LEMMA SplitFacts ==
  ASSUME NEW S, NEW s \in Seq(S), NEW k \in 1..Len(s)
  PROVE  /\ SubSeq(s, 1, k) \in Seq(S) /\ Len(SubSeq(s, 1, k)) = k
         /\ SubSeq(s, 1, k) # <<>>
         /\ \A i \in 1..k : SubSeq(s, 1, k)[i] = s[i]
         /\ SubSeq(s, k + 1, Len(s)) \in Seq(S)
         /\ Len(SubSeq(s, k + 1, Len(s))) = Len(s) - k
         /\ \A i \in 1..(Len(s) - k) : SubSeq(s, k + 1, Len(s))[i] = s[k + i]
         /\ SubSeq(s, k + 1, Len(s)) = <<>> <=> k = Len(s)
         /\ Len(s) \in Nat /\ DOMAIN s = 1..Len(s)
<1>1. /\ Len(s) \in Nat /\ DOMAIN s = 1..Len(s) /\ k \in Nat /\ k >= 1
      /\ k <= Len(s) /\ \A i \in 1..Len(s) : s[i] \in S
  OBVIOUS
<1>2. /\ SubSeq(s, 1, k) \in Seq(S)
      /\ Len(SubSeq(s, 1, k)) = IF 1 <= k THEN k - 1 + 1 ELSE 0
      /\ \A i \in 1..(k - 1 + 1) : SubSeq(s, 1, k)[i] = s[1 + i - 1]
  <2>1. \A i \in 1..k : s[i] \in S
    BY <1>1
  <2> QED
    BY <1>1, <2>1, SubSeqProperties
<1>3. /\ SubSeq(s, k + 1, Len(s)) \in Seq(S)
      /\ Len(SubSeq(s, k + 1, Len(s))) =
           IF k + 1 <= Len(s) THEN Len(s) - (k + 1) + 1 ELSE 0
      /\ \A i \in 1..(Len(s) - (k + 1) + 1) :
           SubSeq(s, k + 1, Len(s))[i] = s[(k + 1) + i - 1]
  <2>1. \A i \in (k + 1)..Len(s) : s[i] \in S
    BY <1>1
  <2>2. k + 1 \in Int /\ Len(s) \in Int
    BY <1>1
  <2> QED
    BY <2>1, <2>2, SubSeqProperties
<1>4. /\ Len(SubSeq(s, 1, k)) = k
      /\ Len(SubSeq(s, k + 1, Len(s))) = Len(s) - k
  BY <1>1, <1>2, <1>3
<1>5. /\ SubSeq(s, 1, k) # <<>>
      /\ SubSeq(s, k + 1, Len(s)) = <<>> <=> k = Len(s)
  <2>1. SubSeq(s, 1, k) = <<>> <=> Len(SubSeq(s, 1, k)) = 0
    BY <1>2, SeqFacts
  <2>2. SubSeq(s, k + 1, Len(s)) = <<>> <=> Len(SubSeq(s, k + 1, Len(s))) = 0
    BY <1>3, SeqFacts
  <2> DEFINE a == SubSeq(s, 1, k)
             b == SubSeq(s, k + 1, Len(s))
             l == Len(s)
  <2>3. /\ a = <<>> <=> Len(a) = 0
        /\ b = <<>> <=> Len(b) = 0
        /\ Len(a) = k /\ Len(b) = l - k /\ k \in Nat /\ k >= 1 /\ l \in Nat
    BY <1>1, <1>4, <2>1, <2>2
  <2> HIDE DEF a, b, l
  <2>4. a # <<>> /\ (b = <<>> <=> k = l)
    BY <2>3
  <2> QED
    BY <2>4 DEF a, b, l
<1>6. \A i \in 1..k : SubSeq(s, 1, k)[i] = s[i]
  BY <1>1, <1>2
<1>7. \A i \in 1..(Len(s) - k) : SubSeq(s, k + 1, Len(s))[i] = s[k + i]
  BY <1>1, <1>3
<1> QED
  BY ONLY <1>1, <1>2, <1>3, <1>4, <1>5, <1>6, <1>7

(* Reads that return data: none in an empty body, and the first one is     *)
(* counted if it does.                                                     *)
LEMMA FullReadsOfNone == FullReads(<<>>) = 0
<1>1. {i \in DOMAIN <<>> : <<>>[i]} = {}
  OBVIOUS
<1> QED
  BY <1>1, FS_EmptySet DEF FullReads

(* A body counts one read of data less once the first is done. *)
LEMMA FullReadsOfTail ==
  ASSUME NEW s \in Seq(BOOLEAN)
  PROVE  /\ FullReads(s) \in Nat
         /\ s # <<>> /\ Head(s) => FullReads(s) = FullReads(Tail(s)) + 1
         /\ s # <<>> /\ ~Head(s) => FullReads(s) = FullReads(Tail(s))
<1> DEFINE F(r) == {i \in DOMAIN r : r[i]}
<1>1. ASSUME NEW r \in Seq(BOOLEAN) PROVE IsFiniteSet(F(r)) /\ Cardinality(F(r)) \in Nat
  <2>1. IsFiniteSet(1..Len(r))
    BY FS_Interval
  <2>2. F(r) \in SUBSET (1..Len(r))
    BY SeqFacts
  <2> QED
    BY <2>1, <2>2, FS_Subset, FS_CardinalityType
<1>2. FullReads(s) \in Nat
  BY <1>1 DEF FullReads
<1>3. ASSUME s # <<>>
      PROVE  /\ IsFiniteSet(F(s) \ {1})
             /\ Cardinality(F(s) \ {1}) = IF 1 \in F(s) THEN Cardinality(F(s)) - 1
                                          ELSE Cardinality(F(s))
             /\ Cardinality(F(Tail(s))) = Cardinality(F(s) \ {1})
             /\ 1 \in F(s) <=> Head(s)
  <2>1. /\ IsFiniteSet(F(s) \ {1})
        /\ Cardinality(F(s) \ {1}) = IF 1 \in F(s) THEN Cardinality(F(s)) - 1
                                     ELSE Cardinality(F(s))
    BY <1>1, FS_RemoveElement
  <2>2. ExistsBijection(F(s) \ {1}, F(Tail(s)))
    <3> DEFINE f == [i \in F(s) \ {1} |-> i - 1]
    <3>1. /\ Len(s) \in Nat /\ DOMAIN s = 1..Len(s)
          /\ DOMAIN Tail(s) = 1..(Len(s) - 1)
          /\ \A i \in 1..(Len(s) - 1) : Tail(s)[i] = s[i + 1]
      BY <1>3, TailFacts
    <3>2. ASSUME NEW i \in F(s) \ {1}
          PROVE  i \in Nat /\ i - 1 \in F(Tail(s))
      <4>1. i \in 1..Len(s) /\ i # 1 /\ s[i]
        BY <3>1
      <4>2. i - 1 \in 1..(Len(s) - 1) /\ (i - 1) + 1 = i
        BY <3>1, <4>1
      <4>3. Tail(s)[i - 1] = s[i]
        BY <3>1, <4>2
      <4> QED
        BY <3>1, <4>1, <4>2, <4>3
    <3>3. ASSUME NEW j \in F(Tail(s))
          PROVE  j \in Nat /\ j + 1 \in F(s) \ {1} /\ j = (j + 1) - 1
      <4>1. j \in 1..(Len(s) - 1) /\ Tail(s)[j]
        BY <3>1
      <4>2. j + 1 \in 1..Len(s) /\ j + 1 # 1 /\ j = (j + 1) - 1
        BY <3>1, <4>1
      <4> QED
        BY <3>1, <4>1, <4>2
    <3> HIDE DEF F
    <3>4. f \in [F(s) \ {1} -> F(Tail(s))]
      BY <3>2
    <3>5. \A a, b \in F(s) \ {1} : f[a] = f[b] => a = b
      BY <3>2
    <3>6. \A j \in F(Tail(s)) : \E a \in F(s) \ {1} : f[a] = j
      BY <3>3
    <3>7. f \in Bijection(F(s) \ {1}, F(Tail(s)))
      BY <3>4, <3>5, <3>6, Fun_IsBij
    <3> QED
      BY <3>7 DEF ExistsBijection
  <2>3. Cardinality(F(Tail(s))) = Cardinality(F(s) \ {1})
    BY <2>1, <2>2, FS_Bijection
  <2>4. 1 \in F(s) <=> Head(s)
    BY <1>3, TailFacts
  <2> QED
    BY <2>1, <2>3, <2>4
<1>4. ASSUME s # <<>> PROVE Cardinality(F(s)) \in Nat /\ Cardinality(F(Tail(s))) \in Nat
  BY <1>1, <1>4, TailFacts
<1> HIDE DEF F
<1>5. FullReads(s) = Cardinality(F(s)) /\ FullReads(Tail(s)) = Cardinality(F(Tail(s)))
  BY DEF FullReads, F
<1>6. ASSUME s # <<>>, Head(s) PROVE FullReads(s) = FullReads(Tail(s)) + 1
  <2>1. 1 \in F(s)
    BY <1>3, <1>6
  <2>2. Cardinality(F(Tail(s))) = Cardinality(F(s)) - 1
    BY <1>3, <1>6, <2>1
  <2>3. Cardinality(F(s)) \in Nat
    BY <1>4, <1>6
  <2> QED
    BY <1>5, <2>2, <2>3
<1>7. ASSUME s # <<>>, ~Head(s) PROVE FullReads(s) = FullReads(Tail(s))
  <2>1. 1 \notin F(s)
    BY <1>3, <1>7
  <2>2. Cardinality(F(Tail(s))) = Cardinality(F(s))
    BY <1>3, <1>7, <2>1
  <2> QED
    BY <1>5, <2>2
<1> QED
  BY <1>2, <1>6, <1>7

-----------------------------------------------------------------------------
(* Types. *)
Places == {"top", "read", "filter", "body", "status", "header", "blank", "copy",
           "size", "data", "chunk", "last", "trailer", "text", "returned"}

Clients == [sent : Seq(Requests), owes : BOOLEAN, open : BOOLEAN, gone : BOOLEAN]

Decoders == [at : {"status", "header", "blank", "size", "data", "crlf", "end",
                   "count", "rest", "lost"},
             code : Status, got : Nat, done : Seq(Nat)]

Replies == [status : Status, whole : BOOLEAN, size : Nat]

Slips == [early : BOOLEAN, unread : BOOLEAN, misread : BOOLEAN]

(* TypeOK with its sets named. *)
LEMMA Types ==
  TypeOK <=>
    /\ loop \in Loops /\ pc \in Places
    /\ wire \in Seq(Tokens) /\ buf \in Seq(Tokens)
    /\ cur \in Requests \cup {None}
    /\ body \in Seq(BOOLEAN) /\ broken \in BOOLEAN
    /\ client \in Clients /\ seen \in Decoders
    /\ served \in Seq(1..MaxReqs) /\ made \in Seq(Replies) /\ slips \in Slips
BY DEF TypeOK, Places, Clients, Decoders, Replies, Slips

(* The loop begins in its types. *)
LEMMA InitTypes == Init => TypeOK
<1> SUFFICES ASSUME Init PROVE TypeOK
  OBVIOUS
<1>1. /\ <<>> \in Seq(Tokens) /\ <<>> \in Seq(BOOLEAN) /\ <<>> \in Seq(Requests)
      /\ <<>> \in Seq(Nat) /\ <<>> \in Seq(1..MaxReqs) /\ <<>> \in Seq(Replies)
      /\ Len(<<>>) = 0
  BY EmptySeq
<1>2. client \in Clients /\ slips \in Slips /\ broken \in BOOLEAN
  BY <1>1, Zenon DEF Init, Clients, Slips
<1>3. seen \in Decoders
  BY <1>1 DEF Init, Decoders, Status
<1>4. /\ loop \in Loops /\ pc \in Places
      /\ wire \in Seq(Tokens) /\ buf \in Seq(Tokens)
      /\ cur \in Requests \cup {None} /\ body \in Seq(BOOLEAN)
      /\ served \in Seq(1..MaxReqs) /\ made \in Seq(Replies)
  BY <1>1, MitmLoopAssumption DEF Init, Places
<1> QED
  BY <1>2, <1>3, <1>4, Types

(* The decoder behind a reply. *)
LEMMA CompleteTypes == ASSUME NEW d \in Decoders PROVE Complete(d) \in Decoders
<1>1. d.got \in Nat /\ d.done \in Seq(Nat)
  BY DEF Decoders
<1>2. Append(d.done, d.got) \in Seq(Nat)
  BY <1>1, AppendFacts
<1> QED
  BY <1>1, <1>2 DEF Complete, Decoders

(* The decoder: where it goes with a token. *)
LEMMA DecodeTypes ==
  ASSUME NEW d \in Decoders, NEW token
  PROVE  Decode(d, token) \in Decoders
<1>1. /\ d.at \in {"status", "header", "blank", "size", "data", "crlf", "end",
                   "count", "rest", "lost"}
      /\ d.code \in Status /\ d.got \in Nat /\ d.done \in Seq(Nat)
  BY DEF Decoders
<1>2. Complete(d) \in Decoders
  BY CompleteTypes
<1>3. \A c \in Status : [d EXCEPT !.at = "header", !.code = c] \in Decoders
  BY <1>1 DEF Decoders
<1>4. \A a \in {"status", "header", "blank", "size", "data", "crlf", "end", "lost"} :
         /\ [d EXCEPT !.at = a] \in Decoders
         /\ [d EXCEPT !.at = a, !.got = @ + 1] \in Decoders
  <2> SUFFICES ASSUME NEW a \in {"status", "header", "blank", "size", "data", "crlf",
                                 "end", "lost"}
               PROVE  /\ [d EXCEPT !.at = a] \in Decoders
                      /\ [d EXCEPT !.at = a, !.got = @ + 1] \in Decoders
    OBVIOUS
  <2>1. [d EXCEPT !.at = a] \in Decoders
    BY <1>1 DEF Decoders
  <2>2. d.got + 1 \in Nat
    BY <1>1
  <2>3. \A g \in Nat : [d EXCEPT !.at = a, !.got = g] \in Decoders
    BY <1>1 DEF Decoders
  <2> QED
    BY <2>1, <2>2, <2>3
<1>5. \/ Decode(d, token) = Complete(d)
      \/ \E c \in Status : Decode(d, token) = [d EXCEPT !.at = "header", !.code = c]
      \/ \E a \in {"blank", "size", "crlf", "end", "data", "lost"} :
            Decode(d, token) \in {[d EXCEPT !.at = a], [d EXCEPT !.at = a, !.got = @ + 1]}
  <2> HIDE DEF Complete
  <2> QED
    BY DEF Decode
<1> QED
  BY <1>2, <1>3, <1>4, <1>5

(* A write reaches a client that is there, and ends the loop otherwise. *)
LEMMA PutTypes ==
  ASSUME TypeOK, NEW token, NEW next \in Places, Put(token, next)
  PROVE  /\ seen' \in Decoders /\ pc' \in Places
         /\ pc' = next \/ (client.gone /\ pc' = "returned")
         /\ client.gone => seen' = seen
         /\ ~client.gone => seen' = Decode(seen, token)
<1>1. seen \in Decoders
  BY Types
<1>2. Decode(seen, token) \in Decoders
  BY <1>1, DecodeTypes
<1>3. "returned" \in Places
  BY DEF Places
<1>4. CASE ~client.gone /\ seen' = Decode(seen, token) /\ Goto(next)
  BY <1>2, <1>4 DEF Goto
<1>5. CASE client.gone /\ UNCHANGED seen /\ (Goto(next) \/ Return)
  BY <1>1, <1>3, <1>5 DEF Goto, Return
<1> QED
  BY <1>4, <1>5 DEF Put

(* What an answer leaves behind. *)
LEMMA AnswerFacts ==
  ASSUME TypeOK, Answer
  PROVE  /\ pc' = "status" /\ body' \in Seq(BOOLEAN) /\ broken' \in BOOLEAN
         /\ \E m \in Replies :
              /\ made' = Append(made, m)
              /\ m.whole <=> (~broken' \/ cur.kind = "HEAD")
              /\ m.size = IF cur.kind = "HEAD" THEN 0 ELSE FullReads(body')
              /\ m.status = "bodyless" => body' = <<>> /\ ~broken'
<1>1. PICK r \in UNION {[1..n -> BOOLEAN] : n \in 0..MaxReads}, b \in BOOLEAN,
           s \in Status :
         /\ s = "bodyless" => r = <<>> /\ ~b
         /\ body' = r /\ broken' = b
         /\ made' = Append(made, [status |-> s,
                                  whole |-> ~b \/ cur.kind = "HEAD",
                                  size |-> IF cur.kind = "HEAD" THEN 0
                                           ELSE FullReads(r)])
         /\ pc' = "status"
  BY DEF Answer, Goto
<1> DEFINE m == [status |-> s, whole |-> ~b \/ cur.kind = "HEAD",
                 size |-> IF cur.kind = "HEAD" THEN 0 ELSE FullReads(r)]
<1>2. r \in Seq(BOOLEAN)
  <2>1. PICK n \in 0..MaxReads : r \in [1..n -> BOOLEAN]
    OBVIOUS
  <2>2. n \in Nat
    BY MitmLoopAssumption
  <2> QED
    BY <2>1, <2>2, SeqDef
<1>3. FullReads(r) \in Nat
  BY <1>2, FullReadsOfTail
<1>4. m \in Replies
  <2>1. (~b \/ cur.kind = "HEAD") \in BOOLEAN
    OBVIOUS
  <2>2. (IF cur.kind = "HEAD" THEN 0 ELSE FullReads(r)) \in Nat
    BY <1>3
  <2> QED
    BY <2>1, <2>2, Zenon DEF Replies
<1>5. /\ made' = Append(made, m)
      /\ m.whole <=> (~broken' \/ cur.kind = "HEAD")
      /\ m.size = IF cur.kind = "HEAD" THEN 0 ELSE FullReads(body')
      /\ m.status = "bodyless" => body' = <<>> /\ ~broken'
  BY <1>1, Zenon
<1> QED
  BY <1>1, <1>2, <1>4, <1>5

(* The reply of httpError. *)
LEMMA OwnReplyFacts ==
  ASSUME OwnReply
  PROVE  /\ pc' = "text" /\ body' = body /\ broken' = broken
         /\ \E m \in Replies : /\ made' = Append(made, m) /\ m.whole /\ m.size = 0
<1> DEFINE m == [status |-> "status", whole |-> TRUE, size |-> 0]
<1>1. made' = Append(made, m) /\ pc' = "text" /\ body' = body /\ broken' = broken
  BY DEF OwnReply, Goto
<1>2. m \in Replies
  BY DEF Replies, Status
<1>3. m.whole /\ m.size = 0
  BY Zenon
<1> QED
  BY <1>1, <1>2, <1>3

(* What resp.Write makes of the client's decoder. *)
LEMMA ReceivedTypes ==
  ASSUME NEW d \in Decoders, NEW f \in Framings, NEW m \in Replies
  PROVE  Received(d, f, m) \in Decoders
<1> DEFINE e == [d EXCEPT !.code = m.status, !.got = m.size]
<1>1. e \in Decoders
  BY DEF Decoders, Replies
<1>2. Complete(e) \in Decoders
  BY <1>1, CompleteTypes
<1>3. /\ [e EXCEPT !.at = f] \in Decoders /\ [d EXCEPT !.at = "lost"] \in Decoders
  BY <1>1 DEF Decoders, Framings
<1> HIDE DEF e
<1>4. \/ Received(d, f, m) = Complete(e)
      \/ Received(d, f, m) = [e EXCEPT !.at = f]
      \/ Received(d, f, m) = d
      \/ Received(d, f, m) = [d EXCEPT !.at = "lost"]
  BY DEF Received, e
<1> QED
  BY <1>2, <1>3, <1>4

(* A loop that writes: only the decoder, pc and the body move. *)
LEMMA WritingTypes ==
  ASSUME TypeOK, Writing, pc' \in Places, seen' \in Decoders,
         body' \in Seq(BOOLEAN)
  PROVE  TypeOK'
<1>1. /\ loop' = loop /\ wire' = wire /\ buf' = buf /\ cur' = cur
      /\ broken' = broken /\ client' = client /\ served' = served
      /\ made' = made /\ slips' = slips
  BY DEF Writing
<1> QED
  BY <1>1, Types DEF TypeOK, Places, Decoders

(* The writes of a reply keep the types and touch the decoder only. *)
LEMMA WriteTypes ==
  ASSUME TypeOK, CountInv, ReplyInv, PlainInv,
         \/ ReplyHTTP \/ HttpError \/ WriteStatus \/ WriteHeader \/ WriteBlank
         \/ Copy \/ WriteSize \/ WriteData \/ WriteChunkEnd
         \/ WriteLast \/ WriteTrailer
  PROVE  TypeOK' /\ Writing /\ pc \in Replying
<1>1. pc \in Places /\ seen \in Decoders /\ body \in Seq(BOOLEAN)
  BY Types
<1>2. CASE ReplyHTTP
  <2> DEFINE m == made[Len(made)]
  <2>1. /\ Writing /\ body' = body /\ pc \in InReply /\ pc' \in Places
        /\ seen' = seen \/ \E f \in Framings : seen' = Received(seen, f, m)
    BY <1>2 DEF ReplyHTTP, Goto, Places, InReply
  <2>2. m \in Replies
    <3>1. made \in Seq(Replies) /\ made # <<>>
      BY <1>2, Types DEF ReplyHTTP, PlainInv, PlainCount, Decoders
    <3> QED
      BY <3>1, SeqFacts
  <2>3. seen' \in Decoders
    BY <1>1, <2>1, <2>2, ReceivedTypes
  <2> QED
    BY <1>1, <2>1, <2>3, WritingTypes DEF Replying
<1>12. CASE HttpError
  <2>1. /\ Writing /\ body' = body /\ pc = "text" /\ pc' \in Places
        /\ \/ seen' = seen
           \/ seen' = Complete(seen)
           \/ seen' = [seen EXCEPT !.at = "lost"]
    BY <1>12 DEF HttpError, Goto, Return, Places
  <2>2. [seen EXCEPT !.at = "lost"] \in Decoders
    BY <1>1 DEF Decoders
  <2>3. seen' \in Decoders
    BY <1>1, <2>1, <2>2, CompleteTypes
  <2> QED
    BY <1>1, <2>1, <2>3, WritingTypes DEF Replying
<1>3. CASE WriteStatus
  <2>1. /\ Writing /\ Put(made[Len(made)].status, "header") /\ body' = body
        /\ pc \in InReply /\ "header" \in Places
    BY <1>3 DEF WriteStatus, InReply, Places
  <2>2. pc' \in Places /\ seen' \in Decoders
    BY <2>1, PutTypes
  <2> QED
    BY <1>1, <2>1, <2>2, WritingTypes DEF Replying
<1>4. CASE WriteHeader
  <2>1. /\ Writing /\ Put("header", "blank") /\ body' = body
        /\ pc \in InReply /\ "blank" \in Places
    BY <1>4 DEF WriteHeader, InReply, Places
  <2>2. pc' \in Places /\ seen' \in Decoders
    BY <2>1, PutTypes
  <2> QED
    BY <1>1, <2>1, <2>2, WritingTypes DEF Replying
<1>5. CASE WriteBlank
  <2> DEFINE n == IF cur.kind = "HEAD" THEN "top" ELSE "copy"
  <2>1. /\ Writing /\ Put("crlf", n) /\ body' = body
        /\ pc \in InReply /\ n \in Places
    BY <1>5 DEF WriteBlank, InReply, Places
  <2> HIDE DEF n
  <2>2. pc' \in Places /\ seen' \in Decoders
    BY <2>1, PutTypes
  <2> QED
    BY <1>1, <2>1, <2>2, WritingTypes DEF Replying
<1>6. CASE Copy
  <2>1. /\ Writing /\ pc' \in Places /\ seen' = seen /\ pc \in InReply
        /\ body' = body \/ (body # <<>> /\ body' = Tail(body))
    BY <1>6 DEF Copy, CopyEnds, Goto, Return, Places, InReply
  <2>2. body' \in Seq(BOOLEAN)
    BY <1>1, <2>1, TailFacts
  <2> QED
    BY <1>1, <2>1, <2>2, WritingTypes DEF Replying
<1>7. CASE WriteSize
  <2> DEFINE k == IF Head(body) THEN "size" ELSE "0"
  <2>1. /\ Writing /\ Put(k, "data") /\ body' = body
        /\ pc \in InReply /\ "data" \in Places
    BY <1>7 DEF WriteSize, InReply, Places
  <2> HIDE DEF k
  <2>2. pc' \in Places /\ seen' \in Decoders
    BY <2>1, PutTypes
  <2> QED
    BY <1>1, <2>1, <2>2, WritingTypes DEF Replying
<1>8. CASE WriteData
  <2>1. /\ Writing /\ Put("data", "chunk") /\ body' = body
        /\ pc \in InReply /\ "chunk" \in Places
    BY <1>8 DEF WriteData, InReply, Places
  <2>2. pc' \in Places /\ seen' \in Decoders
    BY <2>1, PutTypes
  <2> QED
    BY <1>1, <2>1, <2>2, WritingTypes DEF Replying
<1>9. CASE WriteChunkEnd
  <2>1. /\ Writing /\ Put("crlf", "copy") /\ body' = Tail(body)
        /\ pc = "chunk" /\ pc \in InReply /\ "copy" \in Places
    BY <1>9 DEF WriteChunkEnd, InReply, Places
  <2>2. pc' \in Places /\ seen' \in Decoders
    BY <2>1, PutTypes
  <2>3. loop = "tls"
    <3>1. loop \in {"tls", "http"}
      BY Types, MitmLoopAssumption
    <3> QED
      BY <2>1, <3>1 DEF CountInv
  <2>4. body # <<>>
    BY <2>1, <2>3 DEF ReplyInv
  <2>5. body' \in Seq(BOOLEAN)
    BY <1>1, <2>1, <2>4, TailFacts
  <2> QED
    BY <2>1, <2>2, <2>5, WritingTypes DEF Replying
<1>10. CASE WriteLast
  <2>1. /\ Writing /\ Put("0", "trailer") /\ body' = body
        /\ pc \in InReply /\ "trailer" \in Places
    BY <1>10 DEF WriteLast, InReply, Places
  <2>2. pc' \in Places /\ seen' \in Decoders
    BY <2>1, PutTypes
  <2> QED
    BY <1>1, <2>1, <2>2, WritingTypes DEF Replying
<1>11. CASE WriteTrailer
  <2>1. /\ Writing /\ Put("crlf", "top") /\ body' = body
        /\ pc \in InReply /\ "top" \in Places
    BY <1>11 DEF WriteTrailer, InReply, Places
  <2>2. pc' \in Places /\ seen' \in Decoders
    BY <2>1, PutTypes
  <2> QED
    BY <1>1, <2>1, <2>2, WritingTypes DEF Replying
<1> QED
  BY <1>2, <1>3, <1>4, <1>5, <1>6, <1>7, <1>8, <1>9, <1>10, <1>11, <1>12
     DEF Replying

(* A step of the client changes itself and the wire. *)
LEMMA ClientTypes ==
  ASSUME TypeOK, RequestsInv, ClientStep
  PROVE  TypeOK'
<1>1. /\ client.sent \in Seq(Requests) /\ client.owes \in BOOLEAN
      /\ client.open \in BOOLEAN /\ client.gone \in BOOLEAN
      /\ slips.early \in BOOLEAN /\ slips.unread \in BOOLEAN /\ slips.misread \in BOOLEAN
  BY Types, Zenon DEF Clients, Slips
<1>2. wire \in Seq(Tokens) /\ client \in Clients /\ slips \in Slips
  BY Types
<1>3. ASSUME wire' \in Seq(Tokens), client' \in Clients, slips' \in Slips,
             UNCHANGED <<loop, pc, buf, cur, body, broken, seen, served, made>>
      PROVE  TypeOK'
  BY <1>3, Types DEF TypeOK, Clients, Slips
<1>4. CASE ClientSends
  <2>1. PICK k \in Kinds :
          /\ wire' = Append(wire, [part |-> "head",
                                   req |-> [no |-> Len(client.sent) + 1, kind |-> k]])
          /\ client' = [client EXCEPT
                          !.sent = Append(@, [no |-> Len(client.sent) + 1, kind |-> k]),
                          !.owes = k = "POST"]
    BY <1>4, Zenon DEF ClientSends
  <2> DEFINE req == [no |-> Len(client.sent) + 1, kind |-> k]
  <2>2. req \in Requests
    <3>1. Len(client.sent) \in Nat /\ Len(client.sent) < MaxReqs
      BY <1>1, <1>4, SeqFacts DEF ClientSends
    <3>2. Len(client.sent) + 1 \in 1..MaxReqs
      BY <3>1, MitmLoopAssumption
    <3> QED
      BY <3>2 DEF Requests
  <2>3. [part |-> "head", req |-> req] \in Tokens
    BY <2>2 DEF Tokens
  <2>4. wire' \in Seq(Tokens) /\ Append(client.sent, req) \in Seq(Requests)
    BY <1>1, <1>2, <2>1, <2>2, <2>3, AppendFacts
  <2>5. client' \in Clients
    BY <1>1, <1>2, <2>1, <2>4, Zenon DEF Clients
  <2>6. slips' \in Slips
    BY <1>1, <1>2, <1>4, Zenon DEF ClientSends, Slips
  <2> QED
    BY <1>3, <1>4, <2>4, <2>5, <2>6 DEF ClientSends
<1>5. CASE ClientSendsBody
  <2>1. client.sent[Len(client.sent)] \in Requests
    <3>1. client.sent # <<>>
      BY <1>5 DEF ClientSendsBody, RequestsInv
    <3> QED
      BY <1>1, <3>1, SeqFacts
  <2>2. [part |-> "body", req |-> client.sent[Len(client.sent)]] \in Tokens
    BY <2>1 DEF Tokens
  <2>3. wire' \in Seq(Tokens)
    BY <1>2, <1>5, <2>2, AppendFacts DEF ClientSendsBody
  <2>4. client' \in Clients /\ slips' \in Slips
    BY <1>1, <1>2, <1>5, Zenon DEF ClientSendsBody, Clients
  <2> QED
    BY <1>3, <1>5, <2>3, <2>4 DEF ClientSendsBody
<1>6. CASE ClientFinishes
  <2>1. client' \in Clients
    BY <1>1, <1>2, <1>6, Zenon DEF ClientFinishes, Clients
  <2> QED
    BY <1>2, <1>3, <1>6, <2>1 DEF ClientFinishes
<1>7. CASE ClientVanishes
  <2>1. client' \in Clients
    BY <1>1, <1>2, <1>7, Zenon DEF ClientVanishes, Clients
  <2>2. wire' \in Seq(Tokens)
    BY <1>7, EmptySeq DEF ClientVanishes
  <2> QED
    BY <1>2, <1>3, <1>7, <2>1, <2>2 DEF ClientVanishes
<1> QED
  BY <1>4, <1>5, <1>6, <1>7 DEF ClientStep

(* A loop that reads or asks for an answer. *)
LEMMA ReadTypes ==
  ASSUME TypeOK,
         Fill \/ NextReader \/ ReadRequest \/ FilterRequest \/ RoundTrip
  PROVE  TypeOK'
<1>1. /\ pc \in Places /\ wire \in Seq(Tokens) /\ buf \in Seq(Tokens)
      /\ body \in Seq(BOOLEAN) /\ broken \in BOOLEAN /\ cur \in Requests \cup {None}
      /\ served \in Seq(1..MaxReqs) /\ made \in Seq(Replies) /\ slips \in Slips
  BY Types, SeqFacts, MitmLoopAssumption
<1>2. ASSUME buf # <<>>
      PROVE  /\ Tail(buf) \in Seq(Tokens)
             /\ Head(buf).req \in Requests /\ Head(buf).req.no \in 1..MaxReqs
  <2>1. Head(buf) \in Tokens /\ Tail(buf) \in Seq(Tokens)
    BY <1>1, <1>2, TailFacts
  <2>3. Head(buf).req \in Requests
    BY <2>1 DEF Tokens
  <2>4. Head(buf).req.no \in 1..MaxReqs
    BY <2>3 DEF Requests
  <2> QED
    BY <2>1, <2>3, <2>4
<1>3. ASSUME pc' \in Places, wire' \in Seq(Tokens), buf' \in Seq(Tokens), cur' \in Requests \cup {None},
             body' \in Seq(BOOLEAN), broken' \in BOOLEAN,
             served' \in Seq(1..MaxReqs), made' \in Seq(Replies), slips' \in Slips,
             UNCHANGED <<loop, client, seen>>
      PROVE  TypeOK'
  BY <1>3, Types DEF TypeOK, Places, Replies, Slips
<1>4. ASSUME Answer
      PROVE  /\ pc' \in Places /\ body' \in Seq(BOOLEAN) /\ broken' \in BOOLEAN
             /\ made' \in Seq(Replies)
  <2>1. /\ pc' = "status" /\ body' \in Seq(BOOLEAN) /\ broken' \in BOOLEAN
        /\ \E m \in Replies : made' = Append(made, m)
    BY <1>4, AnswerFacts
  <2> QED
    BY <1>1, <2>1, AppendFacts DEF Places
<1>5. CASE Fill
  <2>1. PICK k \in 1..Len(wire) : /\ k <= BufSize
                                  /\ buf' = SubSeq(wire, 1, k)
                                  /\ wire' = SubSeq(wire, k + 1, Len(wire))
    BY <1>5 DEF Fill
  <2>2. buf' \in Seq(Tokens) /\ wire' \in Seq(Tokens)
    BY <1>1, <2>1, SplitFacts
  <2> QED
    BY <1>1, <1>3, <1>5, <2>2 DEF Fill
<1>6. CASE NextReader
  <2>1. /\ pc' \in Places /\ (buf' = buf \/ buf' = <<>>)
        /\ UNCHANGED <<loop, wire, cur, body, broken, client, seen, served, made, slips>>
    BY <1>6 DEF NextReader, Goto, Return, Places
  <2>2. buf' \in Seq(Tokens)
    BY <1>1, <2>1, EmptySeq
  <2> QED
    BY <1>1, <1>3, <2>1, <2>2
<1>7. CASE ReadRequest
  <2>1. /\ pc' \in Places
        /\ UNCHANGED <<loop, wire, body, broken, client, seen, made>>
    BY <1>7 DEF ReadRequest, Goto, Return, Places
  <2>2. slips' \in Slips
    <3>1. slips' = slips \/ slips' = [slips EXCEPT !.misread = TRUE]
      BY <1>7 DEF ReadRequest
    <3> QED
      BY <1>1, <3>1, Zenon DEF Slips
  <2>3. CASE buf # <<>> /\ buf' = Tail(buf) /\ cur' = Head(buf).req
             /\ served' = Append(served, Head(buf).req.no)
    <3>1. served' \in Seq(1..MaxReqs)
      BY <1>1, <1>2, <2>3, AppendFacts
    <3> QED
      BY <1>1, <1>2, <1>3, <2>1, <2>2, <2>3, <3>1
  <2>4. CASE buf # <<>> /\ buf' = Tail(buf) /\ UNCHANGED <<cur, served>>
    BY <1>1, <1>2, <1>3, <2>1, <2>2, <2>4
  <2>5. CASE UNCHANGED <<cur, served, buf>>
    BY <1>1, <1>3, <2>1, <2>2, <2>5
  <2> QED
    BY <1>7, <2>3, <2>4, <2>5 DEF ReadRequest
<1>8. CASE FilterRequest
  <2>1. UNCHANGED <<loop, wire, buf, cur, client, seen, served>>
    BY <1>8 DEF FilterRequest
  <2>2. slips' \in Slips
    <3>1. slips' = slips \/ slips' = [slips EXCEPT !.unread = @ \/ cur.kind = "POST"]
      BY <1>8 DEF FilterRequest
    <3> QED
      BY <1>1, <3>1, Zenon DEF Slips
  <2>3. CASE Answer
    BY <1>1, <1>3, <1>4, <2>1, <2>2, <2>3
  <2>4. CASE pc' \in Places /\ NoAnswer
    BY <1>1, <1>3, <2>1, <2>2, <2>4 DEF NoAnswer
  <2> QED
    BY <1>8, <2>3, <2>4 DEF FilterRequest, Goto, Return, Places
<1>9. CASE RoundTrip
  <2>1. UNCHANGED <<loop, wire, cur, client, seen, served, slips>>
    BY <1>9 DEF RoundTrip
  <2>2. buf' \in Seq(Tokens)
    <3>1. buf' = buf \/ (buf # <<>> /\ buf' = Tail(buf))
      BY <1>9 DEF RoundTrip, Drain
    <3> QED
      BY <1>1, <1>2, <3>1
  <2>3. CASE Answer
    BY <1>1, <1>3, <1>4, <2>1, <2>2, <2>3
  <2>4. CASE pc' \in Places /\ NoAnswer
    BY <1>1, <1>3, <2>1, <2>2, <2>4 DEF NoAnswer
  <2>5. CASE OwnReply
    <3>1. /\ pc' \in Places /\ body' = body /\ broken' = broken
          /\ made' \in Seq(Replies)
      <4>1. PICK m \in Replies : made' = Append(made, m)
        BY <2>5, OwnReplyFacts
      <4> QED
        BY <1>1, <2>5, <4>1, OwnReplyFacts, AppendFacts DEF Places
    <3> QED
      BY <1>1, <1>3, <2>1, <2>2, <3>1
  <2> QED
    BY <1>9, <2>3, <2>4, <2>5 DEF RoundTrip, Return, Goto, Places
<1> QED
  BY <1>5, <1>6, <1>7, <1>8, <1>9

-----------------------------------------------------------------------------
(* Runs of tokens. *)

(* What is left of a run begins with what follows its first token. *)
LEMMA UnbrokenTail ==
  ASSUME NEW s \in Seq(Tokens), s # <<>>, Unbroken(s)
  PROVE  /\ Unbroken(Tail(s))
         /\ Tail(s) # <<>> => /\ Follows(s[1], Tail(s)[1])
                              /\ Tail(s)[Len(Tail(s))] = s[Len(s)]
         /\ Tail(s) = <<>> => s[Len(s)] = s[1]
<1> DEFINE l == Len(s)
           r == Tail(s)
<1>1. /\ l \in Nat /\ l >= 1 /\ DOMAIN s = 1..l /\ Len(r) = l - 1
      /\ DOMAIN r = 1..(l - 1) /\ (r = <<>> <=> l = 1)
      /\ \A i \in 1..(l - 1) : r[i] = s[i + 1]
  BY TailFacts
<1>2. \A i \in DOMAIN s : i + 1 \in DOMAIN s => Follows(s[i], s[i + 1])
  BY DEF Unbroken
<1> HIDE DEF l, r
<1>3. Unbroken(r)
  <2> SUFFICES ASSUME NEW i \in DOMAIN r, i + 1 \in DOMAIN r
               PROVE  Follows(r[i], r[i + 1])
    BY DEF Unbroken
  <2>1. /\ i + 1 \in DOMAIN s /\ (i + 1) + 1 \in DOMAIN s
        /\ r[i] = s[i + 1] /\ r[i + 1] = s[(i + 1) + 1]
    BY <1>1
  <2> QED
    BY <1>2, <2>1
<1>4. ASSUME r # <<>>
      PROVE  Follows(s[1], r[1]) /\ r[Len(r)] = s[l]
  <2>1. l >= 2
    BY <1>1, <1>4
  <2>2. 1 \in DOMAIN s /\ 1 + 1 \in DOMAIN s /\ r[1] = s[1 + 1]
    BY <1>1, <2>1
  <2>3. Follows(s[1], r[1])
    BY <1>2, <2>2
  <2>4. r[l - 1] = s[(l - 1) + 1]
    BY <1>1, <2>1
  <2> QED
    BY <1>1, <2>3, <2>4
<1> QED
  BY <1>1, <1>3, <1>4 DEF l, r

(* A run goes on with what follows its last token. *)
LEMMA UnbrokenAppend ==
  ASSUME NEW s \in Seq(Tokens), NEW x \in Tokens, Unbroken(s),
         s # <<>> => Follows(s[Len(s)], x)
  PROVE  /\ Unbroken(Append(s, x)) /\ Append(s, x) # <<>>
         /\ Append(s, x)[Len(Append(s, x))] = x
         /\ s # <<>> => Append(s, x)[1] = s[1]
         /\ s = <<>> => Append(s, x)[1] = x
<1> DEFINE l == Len(s)
           r == Append(s, x)
<1>1. /\ l \in Nat /\ DOMAIN s = 1..l /\ (s = <<>> <=> l = 0) /\ r # <<>>
      /\ Len(r) = l + 1 /\ DOMAIN r = 1..(l + 1) /\ r[l + 1] = x
      /\ \A i \in 1..l : r[i] = s[i]
  BY AppendFacts, SeqFacts
<1>2. \A i \in DOMAIN s : i + 1 \in DOMAIN s => Follows(s[i], s[i + 1])
  BY DEF Unbroken
<1>3. s # <<>> => Follows(s[l], x)
  OBVIOUS
<1> HIDE DEF l, r
<1>4. Unbroken(r)
  <2> SUFFICES ASSUME NEW i \in DOMAIN r, i + 1 \in DOMAIN r
               PROVE  Follows(r[i], r[i + 1])
    BY DEF Unbroken
  <2>1. i \in 1..l /\ i + 1 \in 1..(l + 1)
    BY <1>1
  <2>2. CASE i = l
    <3>1. r[i] = s[l] /\ r[i + 1] = x /\ s # <<>>
      BY <1>1, <2>1, <2>2
    <3> QED
      BY <1>3, <3>1
  <2>3. CASE i # l
    <3>1. i + 1 \in 1..l
      BY <1>1, <2>1, <2>3
    <3>2. r[i] = s[i] /\ r[i + 1] = s[i + 1] /\ i \in DOMAIN s /\ i + 1 \in DOMAIN s
      BY <1>1, <2>1, <3>1
    <3> QED
      BY <1>2, <3>2
  <2> QED
    BY <2>2, <2>3
<1>5. /\ r[Len(r)] = x
      /\ s # <<>> => r[1] = s[1]
      /\ s = <<>> => r[1] = x
  BY <1>1, SMTT(30)
<1> QED
  BY <1>1, <1>4, <1>5 DEF l, r

(* A run cut in two is two runs, the second of which follows the first.    *)
LEMMA UnbrokenSplit ==
  ASSUME NEW s \in Seq(Tokens), NEW k \in 1..Len(s), Unbroken(s),
         NEW a, a = SubSeq(s, 1, k), NEW b, b = SubSeq(s, k + 1, Len(s))
  PROVE  /\ Unbroken(a) /\ Unbroken(b) /\ a # <<>> /\ a[1] = s[1]
         /\ b # <<>> => Follows(a[Len(a)], b[1]) /\ b[Len(b)] = s[Len(s)]
         /\ b = <<>> => a[Len(a)] = s[Len(s)]
<1> DEFINE l == Len(s)
<1>1. /\ l \in Nat /\ k \in 1..l /\ DOMAIN s = 1..l
      /\ Len(a) = k /\ Len(b) = l - k /\ a # <<>> /\ (b = <<>> <=> k = l)
      /\ \A i \in 1..k : a[i] = s[i]
      /\ \A i \in 1..(l - k) : b[i] = s[k + i]
      /\ a \in Seq(Tokens) /\ b \in Seq(Tokens)
  <2>1. /\ a \in Seq(Tokens) /\ Len(a) = k /\ a # <<>>
        /\ \A i \in 1..k : a[i] = s[i]
    BY SplitFacts, ZenonT(60)
  <2>2. /\ b \in Seq(Tokens) /\ Len(b) = Len(s) - k
        /\ \A i \in 1..(Len(s) - k) : b[i] = s[k + i]
        /\ b = <<>> <=> k = Len(s)
    <3>1. b \in Seq(Tokens) /\ Len(b) = Len(s) - k
      BY SplitFacts, ZenonT(60)
    <3>2. \A i \in 1..(Len(s) - k) : b[i] = s[k + i]
      BY SplitFacts, ZenonT(60)
    <3>3. b = <<>> <=> k = Len(s)
      BY SplitFacts, ZenonT(60)
    <3> QED
      BY <3>1, <3>2, <3>3
  <2>3. Len(s) \in Nat /\ DOMAIN s = 1..Len(s)
    BY SeqFacts
  <2> QED
    BY <2>1, <2>2, <2>3
<1>2. DOMAIN a = 1..k /\ DOMAIN b = 1..(l - k)
  BY <1>1, SeqFacts
<1>3. \A i \in DOMAIN s : i + 1 \in DOMAIN s => Follows(s[i], s[i + 1])
  BY DEF Unbroken
<1> HIDE DEF l
<1>4. Unbroken(a)
  <2> SUFFICES ASSUME NEW i \in DOMAIN a, i + 1 \in DOMAIN a
               PROVE  Follows(a[i], a[i + 1])
    BY DEF Unbroken
  <2>1. /\ i \in DOMAIN s /\ i + 1 \in DOMAIN s /\ a[i] = s[i] /\ a[i + 1] = s[i + 1]
    BY <1>1, <1>2
  <2> QED
    BY <1>3, <2>1
<1>5. Unbroken(b)
  <2> SUFFICES ASSUME NEW i \in DOMAIN b, i + 1 \in DOMAIN b
               PROVE  Follows(b[i], b[i + 1])
    BY DEF Unbroken
  <2>1. /\ k + i \in DOMAIN s /\ (k + i) + 1 \in DOMAIN s
        /\ b[i] = s[k + i] /\ b[i + 1] = s[(k + i) + 1]
    BY <1>1, <1>2, SMTT(30)
  <2> QED
    BY <1>3, <2>1
<1>6. a[1] = s[1] /\ a[Len(a)] = s[k]
  BY <1>1
<1>7. ASSUME b # <<>> PROVE Follows(a[Len(a)], b[1]) /\ b[Len(b)] = s[l]
  <2>1. k + 1 <= l
    BY <1>1, <1>7
  <2>2. k \in DOMAIN s /\ k + 1 \in DOMAIN s /\ b[1] = s[k + 1] /\ b[l - k] = s[k + (l - k)]
    BY <1>1, <2>1
  <2>3. Follows(s[k], s[k + 1])
    BY <1>3, <2>2
  <2>4. k + (l - k) = l
    BY <1>1
  <2> QED
    BY <1>1, <1>6, <2>2, <2>3, <2>4
<1>8. b = <<>> => a[Len(a)] = s[l]
  BY <1>1, <1>6
<1> QED
  BY <1>1, <1>4, <1>5, <1>6, <1>7, <1>8, ZenonT(30) DEF l

-----------------------------------------------------------------------------
(* Requests. *)

(* What a client has sent stays sent. *)
LEMMA AmongAppend ==
  ASSUME NEW sent \in Seq(Requests), NEW x \in Requests
  PROVE  /\ \A req : Among(sent, req) => Among(Append(sent, x), req)
         /\ x.no = Len(sent) + 1 => Among(Append(sent, x), x)
BY AppendFacts DEF Among

(* Tokens on their way remain the client's. *)
LEMMA RequestsStep ==
  ASSUME TypeOK, TypeOK', RequestsInv, Next,
         LoopStep /\ ~(Fill \/ NextReader \/ ReadRequest \/ FilterRequest \/ RoundTrip)
           => Writing /\ pc \in Replying
  PROVE  RequestsInv'
<1>1. /\ wire \in Seq(Tokens) /\ buf \in Seq(Tokens) /\ client.sent \in Seq(Requests)
      /\ client \in Clients /\ cur \in Requests \cup {None}
  BY Types DEF Clients
<1>2. /\ \A i \in DOMAIN client.sent : client.sent[i].no = i
      /\ \A i \in DOMAIN wire : Among(client.sent, wire[i].req)
      /\ \A i \in DOMAIN buf : Among(client.sent, buf[i].req)
      /\ client.owes => client.sent # <<>>
      /\ client.gone => ~client.open
      /\ pc \notin {"top", "read", "returned"} => Among(client.sent, cur)
  BY DEF RequestsInv, OfClient
<1>3. ASSUME \A i \in DOMAIN client'.sent : client'.sent[i].no = i,
             \A i \in DOMAIN wire' : Among(client'.sent, wire'[i].req),
             \A i \in DOMAIN buf' : Among(client'.sent, buf'[i].req),
             client'.owes => client'.sent # <<>>,
             client'.gone => ~client'.open,
             pc' \notin {"top", "read", "returned"} => Among(client'.sent, cur')
      PROVE  RequestsInv'
  BY <1>3 DEF RequestsInv, OfClient
<1>4. buf # <<>> =>
        /\ Head(buf) = buf[1] /\ 1 \in DOMAIN buf
        /\ \A i \in DOMAIN Tail(buf) : i + 1 \in DOMAIN buf /\ Tail(buf)[i] = buf[i + 1]
  BY <1>1, TailFacts
<1>5. CASE ClientSends
  <2>1. PICK k \in Kinds :
          /\ wire' = Append(wire, [part |-> "head",
                                   req |-> [no |-> Len(client.sent) + 1, kind |-> k]])
          /\ client' = [client EXCEPT
                          !.sent = Append(@, [no |-> Len(client.sent) + 1, kind |-> k]),
                          !.owes = k = "POST"]
    BY <1>5, Zenon DEF ClientSends
  <2> DEFINE req == [no |-> Len(client.sent) + 1, kind |-> k]
             t == [part |-> "head", req |-> req]
  <2>2. client'.sent = Append(client.sent, req)
    BY <1>1, <2>1 DEF Clients
  <2>3. client'.gone = client.gone /\ client'.open = client.open
    BY <1>1, <2>1 DEF Clients
  <2>4. UNCHANGED <<pc, buf, cur>> /\ Len(client.sent) < MaxReqs
    BY <1>5 DEF ClientSends
  <2>5. req \in Requests /\ t \in Tokens
    <3>1. Len(client.sent) + 1 \in 1..MaxReqs
      BY <1>1, <2>4, SeqFacts, MitmLoopAssumption
    <3> QED
      BY <3>1 DEF Requests, Tokens
  <2>6. req.no = Len(client.sent) + 1 /\ t.req = req
    OBVIOUS
  <2>7. wire' = Append(wire, t)
    BY <2>1
  <2> HIDE DEF req, t
  <2>8. /\ \A q : Among(client.sent, q) => Among(client'.sent, q)
        /\ Among(client'.sent, req)
    BY <1>1, <2>2, <2>5, <2>6, AmongAppend
  <2>9. \A i \in DOMAIN client'.sent : client'.sent[i].no = i
    BY <1>1, <1>2, <2>2, <2>5, <2>6, AppendFacts
  <2>10. \A i \in DOMAIN wire' : Among(client'.sent, wire'[i].req)
    <3> SUFFICES ASSUME NEW i \in DOMAIN wire'
                 PROVE  Among(client'.sent, wire'[i].req)
      OBVIOUS
    <3>1. (i \in DOMAIN wire /\ wire'[i] = wire[i]) \/ wire'[i] = t
      BY <1>1, <2>5, <2>7, AppendFacts
    <3> QED
      BY <1>2, <2>6, <2>8, <3>1
  <2>11. client'.sent # <<>>
    <3>1. Append(client.sent, req) # <<>>
      BY <1>1, <2>5, AppendProperties
    <3> QED
      BY <2>2, <3>1
  <2> QED
    BY <1>2, <1>3, <2>3, <2>4, <2>8, <2>9, <2>10, <2>11
<1>6. CASE ClientSendsBody
  <2>1. /\ UNCHANGED <<pc, buf, cur>> /\ client.owes
        /\ wire' = Append(wire, [part |-> "body", req |-> client.sent[Len(client.sent)]])
        /\ client' = [client EXCEPT !.owes = FALSE]
    BY <1>6 DEF ClientSendsBody
  <2>2. client'.sent = client.sent /\ client'.gone = client.gone /\ client'.open = client.open
    BY <1>1, <2>1 DEF Clients
  <2> DEFINE t == [part |-> "body", req |-> client.sent[Len(client.sent)]]
  <2>3. client.sent # <<>>
    BY <1>2, <2>1
  <2>4. Len(client.sent) \in DOMAIN client.sent /\ t \in Tokens
    <3>1. Len(client.sent) \in DOMAIN client.sent /\ client.sent[Len(client.sent)] \in Requests
      BY <1>1, <2>3, SeqFacts
    <3> QED
      BY <3>1 DEF Tokens
  <2>5. Among(client.sent, t.req) /\ wire' = Append(wire, t)
    <3>1. client.sent[Len(client.sent)].no = Len(client.sent)
      BY <1>2, <2>4
    <3>2. Among(client.sent, client.sent[Len(client.sent)])
      BY <2>4, <3>1 DEF Among
    <3> QED
      BY <2>1, <3>2
  <2> HIDE DEF t
  <2>6. \A i \in DOMAIN wire' : Among(client.sent, wire'[i].req)
    <3> SUFFICES ASSUME NEW i \in DOMAIN wire'
                 PROVE  Among(client.sent, wire'[i].req)
      OBVIOUS
    <3>1. (i \in DOMAIN wire /\ wire'[i] = wire[i]) \/ wire'[i] = t
      BY <1>1, <2>4, <2>5, AppendFacts
    <3> QED
      BY <1>2, <2>5, <3>1
  <2> QED
    BY <1>2, <1>3, <2>1, <2>2, <2>3, <2>6
<1>7. CASE ClientFinishes \/ ClientVanishes
  <2>1. /\ UNCHANGED <<pc, buf, cur>> /\ (wire' = wire \/ wire' = <<>>)
        /\ \/ client' = [client EXCEPT !.open = FALSE]
           \/ client' = [client EXCEPT !.open = FALSE, !.gone = TRUE]
    BY <1>7 DEF ClientFinishes, ClientVanishes
  <2>2. client'.sent = client.sent /\ client'.owes = client.owes /\ ~client'.open
    BY <1>1, <2>1, Zenon DEF Clients
  <2>3. \A i \in DOMAIN wire' : Among(client.sent, wire'[i].req)
    BY <1>2, <2>1
  <2> QED
    BY <1>2, <1>3, <2>1, <2>2, <2>3
<1>8. CASE Fill
  <2>1. PICK k \in 1..Len(wire) : /\ buf' = SubSeq(wire, 1, k)
                                  /\ wire' = SubSeq(wire, k + 1, Len(wire))
    BY <1>8 DEF Fill
  <2>2. UNCHANGED <<pc, client, cur>>
    BY <1>8 DEF Fill
  <2>3. \A i \in DOMAIN buf' : i \in DOMAIN wire /\ buf'[i] = wire[i]
    <3>1. buf' \in Seq(Tokens) /\ Len(buf') = k /\ Len(wire) \in Nat
          /\ DOMAIN wire = 1..Len(wire) /\ \A i \in 1..k : buf'[i] = wire[i]
      BY <1>1, <2>1, SplitFacts, ZenonT(60)
    <3>2. DOMAIN buf' = 1..k
      BY <3>1, SeqFacts
    <3> QED
      BY <3>1, <3>2
  <2>4. \A i \in DOMAIN wire' : k + i \in DOMAIN wire /\ wire'[i] = wire[k + i]
    <3>1. wire' \in Seq(Tokens) /\ Len(wire') = Len(wire) - k /\ Len(wire) \in Nat
          /\ DOMAIN wire = 1..Len(wire)
          /\ \A i \in 1..(Len(wire) - k) : wire'[i] = wire[k + i]
      BY <1>1, <2>1, SplitFacts, ZenonT(60)
    <3>2. DOMAIN wire' = 1..(Len(wire) - k)
      BY <3>1, SeqFacts
    <3> QED
      BY <3>1, <3>2
  <2> QED
    BY <1>2, <1>3, <2>2, <2>3, <2>4
<1>9. CASE NextReader
  <2>1. /\ UNCHANGED <<client, wire, cur>> /\ (buf' = buf \/ buf' = <<>>)
        /\ pc' \in {"top", "read", "returned"}
    BY <1>9 DEF NextReader, Goto, Return
  <2> QED
    BY <1>2, <1>3, <2>1
<1>10. CASE ReadRequest
  <2>1. /\ UNCHANGED <<client, wire>>
        /\ \/ buf # <<>> /\ buf' = Tail(buf) /\ cur' = Head(buf).req
           \/ buf # <<>> /\ buf' = Tail(buf) /\ cur' = cur /\ pc' = "returned"
           \/ buf' = buf /\ cur' = cur /\ pc' = "returned"
    BY <1>10 DEF ReadRequest, Goto, Return
  <2>2. \A i \in DOMAIN buf' : Among(client.sent, buf'[i].req)
    BY <1>2, <1>4, <2>1
  <2>3. pc' # "returned" => Among(client.sent, cur')
    BY <1>2, <1>4, <2>1
  <2> QED
    BY <1>2, <1>3, <2>1, <2>2, <2>3
<1>11. CASE FilterRequest \/ RoundTrip
  <2>1. /\ UNCHANGED <<client, wire, cur>> /\ pc \in {"filter", "body"}
        /\ buf' = buf \/ (buf # <<>> /\ buf' = Tail(buf))
    BY <1>11 DEF FilterRequest, RoundTrip, Drain
  <2>2. \A i \in DOMAIN buf' : Among(client.sent, buf'[i].req)
    BY <1>2, <1>4, <2>1
  <2> QED
    BY <1>2, <1>3, <2>1, <2>2
<1>12. CASE Writing /\ pc \in Replying
  <2>1. UNCHANGED <<client, wire, cur, buf>> /\ pc \notin {"top", "read", "returned"}
    BY <1>12 DEF Writing, InReply, Replying
  <2> QED
    BY <1>2, <1>3, <2>1
<1> QED
  BY <1>5, <1>6, <1>7, <1>8, <1>9, <1>10, <1>11, <1>12 DEF Next, ClientStep

-----------------------------------------------------------------------------
(* Reading. *)

(* Slips are never taken back. *)
LEMMA SlipsGrow ==
  ASSUME TypeOK, Next,
         LoopStep /\ ~(Fill \/ NextReader \/ ReadRequest \/ FilterRequest \/ RoundTrip)
           => Writing /\ pc \in Replying
  PROVE  loop' = loop /\ (InStep' => InStep)
<1>1. /\ slips \in Slips /\ slips.early \in BOOLEAN /\ slips.unread \in BOOLEAN
      /\ slips.misread \in BOOLEAN
  BY Types, Zenon DEF Slips
<1>2. loop' = loop
  BY DEF Next, ClientStep, ClientSends, ClientSendsBody, ClientFinishes, ClientVanishes,
         LoopStep, Fill, NextReader, ReadRequest, FilterRequest, RoundTrip, Writing
<1>3. \/ slips' = slips
      \/ slips' = [slips EXCEPT !.early = @ \/ Len(seen.done) < Len(client.sent)]
      \/ slips' = [slips EXCEPT !.misread = TRUE]
      \/ slips' = [slips EXCEPT !.unread = @ \/ cur.kind = "POST"]
  BY DEF Next, ClientStep, ClientSends, ClientSendsBody, ClientFinishes, ClientVanishes,
         LoopStep, Fill, NextReader, ReadRequest, FilterRequest, RoundTrip, Writing
<1>4. (slips.unread => slips'.unread) /\ (slips.early => slips'.early)
  BY <1>1, <1>3, Zenon DEF Slips
<1> QED
  BY <1>2, <1>4, Zenon DEF InStep

(* The loop takes a token: the next one is the one that follows it.        *)
LEMMA Consume ==
  ASSUME TypeOK, Stream, buf # <<>>, buf' = Tail(buf), wire' = wire
  PROVE  /\ Stream' /\ Waiting /\ FirstToken = buf[1] /\ buf[1] \in Tokens
         /\ Head(buf) = buf[1]
         /\ Waiting' => Follows(buf[1], FirstToken') /\ LastToken' = LastToken
         /\ ~Waiting' => LastToken = buf[1]
<1>1. buf \in Seq(Tokens) /\ wire \in Seq(Tokens)
  BY Types
<1>2. Head(buf) = buf[1] /\ buf[1] \in Tokens
  BY <1>1, TailFacts
<1>3. /\ Unbroken(buf')
      /\ buf' # <<>> => /\ Follows(buf[1], buf'[1])
                        /\ buf'[Len(buf')] = buf[Len(buf)]
      /\ buf' = <<>> => buf[Len(buf)] = buf[1]
  BY <1>1, UnbrokenTail DEF Stream
<1>4. Unbroken(wire) /\ (wire # <<>> => Follows(buf[Len(buf)], wire[1]))
  BY DEF Stream
<1>5. Stream'
  BY <1>3, <1>4 DEF Stream
<1> QED
  BY <1>2, <1>3, <1>4, <1>5 DEF Waiting, FirstToken, LastToken

(* The client sends a token that follows the last one.                     *)
LEMMA Extend ==
  ASSUME TypeOK, Stream, NEW t \in Tokens, wire' = Append(wire, t), buf' = buf,
         Waiting => Follows(LastToken, t)
  PROVE  /\ Stream' /\ Waiting' /\ LastToken' = t
         /\ Waiting => FirstToken' = FirstToken
         /\ ~Waiting => FirstToken' = t
<1>1. wire \in Seq(Tokens) /\ Unbroken(wire) /\ Unbroken(buf)
  BY Types DEF Stream
<1>2. wire # <<>> => Follows(wire[Len(wire)], t)
  BY DEF Waiting, LastToken
<1>3. /\ Unbroken(wire') /\ wire' # <<>> /\ wire'[Len(wire')] = t
      /\ wire # <<>> => wire'[1] = wire[1]
      /\ wire = <<>> => wire'[1] = t
  BY <1>1, <1>2, UnbrokenAppend
<1>4. buf # <<>> => Follows(buf[Len(buf)], wire'[1])
  BY <1>3 DEF Stream, Waiting, LastToken
<1>5. Stream'
  BY <1>1, <1>3, <1>4 DEF Stream
<1> QED
  BY <1>3, <1>5 DEF Waiting, FirstToken, LastToken

(* What has to be shown of a step. *)
LEMMA ReadingStep ==
  ASSUME (loop' = "tls" \/ InStep') => Stream' /\ Placed',
         InStep' => /\ ~slips'.misread
                    /\ pc' # "returned" =>
                         /\ Waiting' => (FirstToken'.part = "body" <=> Owing')
                         /\ client'.open /\ ~Waiting' => (client'.owes <=> Owing'),
         loop' = "http" /\ InStep' =>
           /\ Len(client'.sent) <= Len(served') + 1
           /\ pc' \notin {"top", "read", "returned"} => Len(client'.sent) = Len(served')
           /\ pc' = "top" => buf' = <<>>
  PROVE  ReadingInv' /\ StepInv' /\ TurnsInv'
BY DEF ReadingInv, StepInv, TurnsInv

(* Writing leaves the input alone.  In step, a loop that has its body is   *)
(* owed none, so what waits for it is a head; the HTTP loop has served all *)
(* there are, so nothing does.                                             *)
LEMMA WritingReading ==
  ASSUME TypeOK, RequestsInv, ReadingInv, StepInv, TurnsInv, Writing,
         pc \in Replying, pc' \in Replying \cup {"top", "returned"}
  PROVE  ReadingInv' /\ StepInv' /\ TurnsInv'
<1>1. /\ loop' = loop /\ wire' = wire /\ buf' = buf /\ cur' = cur /\ client' = client
      /\ served' = served /\ slips' = slips
  BY DEF Writing
<1>2. /\ InStep' <=> InStep
      /\ Waiting' <=> Waiting
      /\ FirstToken' = FirstToken /\ LastToken' = LastToken
      /\ Stream' <=> Stream
      /\ ~Owing /\ ~Owing'
  BY <1>1 DEF InStep, Waiting, FirstToken, LastToken, Stream, Owing, InReply, Replying
<1>3. (loop' = "tls" \/ InStep') => Stream' /\ Placed'
  <2> SUFFICES ASSUME loop = "tls" \/ InStep PROVE Stream' /\ Placed'
    BY <1>1, <1>2
  <2>1. Stream /\ Placed
    BY DEF ReadingInv
  <2>2. Placed'
    BY <1>1, <1>2, <2>1 DEF Placed, OfClient, InReply, Replying
  <2> QED
    BY <1>2, <2>1, <2>2
<1>4. ASSUME loop = "http", InStep PROVE buf = <<>>
  <2> SUFFICES ASSUME buf # <<>> PROVE FALSE
    OBVIOUS
  <2>1. pc # "returned" /\ pc \notin {"top", "read", "returned"}
    BY DEF InReply, Replying
  <2>2. FirstToken = buf[1] /\ Waiting
    BY DEF FirstToken, Waiting
  <2>3. buf[1].part # "body"
    BY <1>2, <1>4, <2>1, <2>2 DEF StepInv
  <2>4. buf[1].req.no = Len(served) + 1
    BY <1>4, <2>2, <2>3 DEF ReadingInv, Placed
  <2>5. Len(client.sent) = Len(served)
    BY <1>4, <2>1 DEF TurnsInv
  <2>6. buf[1].req.no \in DOMAIN client.sent
    <3>1. 1 \in DOMAIN buf
      BY Types, TailFacts
    <3> QED
      BY <3>1 DEF RequestsInv, OfClient, Among
  <2>7. client.sent \in Seq(Requests)
    BY Types DEF Clients
  <2>8. Len(client.sent) \in Nat /\ DOMAIN client.sent = 1..Len(client.sent)
    BY <2>7, SeqFacts
  <2> QED
    BY <2>4, <2>5, <2>6, <2>8
<1>5. InStep' => /\ ~slips'.misread
                 /\ pc' # "returned" =>
                      /\ Waiting' => (FirstToken'.part = "body" <=> Owing')
                      /\ client'.open /\ ~Waiting' => (client'.owes <=> Owing')
  <2>1. pc # "returned"
    BY DEF InReply, Replying
  <2> QED
    BY <1>1, <1>2, <2>1 DEF StepInv
<1>6. loop' = "http" /\ InStep' =>
        /\ Len(client'.sent) <= Len(served') + 1
        /\ pc' \notin {"top", "read", "returned"} => Len(client'.sent) = Len(served')
        /\ pc' = "top" => buf' = <<>>
  <2>1. pc \notin {"top", "read", "returned"}
    BY DEF InReply, Replying
  <2> QED
    BY <1>1, <1>2, <1>4, <2>1 DEF TurnsInv
<1> QED
  BY <1>3, <1>5, <1>6, ReadingStep

(* What has been served and replied to, counted. *)
LEMMA PlainFacts ==
  ASSUME TypeOK, ReadingInv, PlainInv, loop = "http", InStep
  PROVE  /\ Len(served) \in Nat /\ Len(made) \in Nat /\ Len(seen.done) \in Nat
         /\ Len(client.sent) \in Nat
         /\ Len(seen.done) <= Len(made) /\ Len(made) <= Len(served)
         /\ Len(served) <= Len(client.sent)
         /\ Len(client.sent) <= Len(seen.done) + 1
         /\ DOMAIN made = 1..Len(made) /\ DOMAIN seen.done = 1..Len(seen.done)
<1>1. /\ served \in Seq(1..MaxReqs) /\ made \in Seq(Replies)
      /\ client.sent \in Seq(Requests) /\ seen.done \in Seq(Nat)
  BY Types DEF Clients, Decoders
<1>2. /\ Len(served) \in Nat /\ Len(made) \in Nat /\ Len(seen.done) \in Nat
      /\ Len(client.sent) \in Nat /\ (served = <<>> <=> Len(served) = 0)
      /\ DOMAIN made = 1..Len(made) /\ DOMAIN seen.done = 1..Len(seen.done)
      /\ DOMAIN client.sent = 1..Len(client.sent)
  BY <1>1, SeqFacts
<1>3. Len(served) <= Len(client.sent)
  <2>1. CASE served = <<>>
    BY <1>2, <2>1
  <2>2. CASE served # <<>>
    <3>1. cur.no = Len(served) /\ cur.no \in DOMAIN client.sent
      BY <2>2 DEF ReadingInv, Placed, OfClient, Among
    <3> QED
      BY <1>2, <3>1
  <2> QED
    BY <2>1, <2>2
<1> QED
  BY <1>2, <1>3 DEF PlainInv, PlainCount, PlainTurn

(* A loop that serves a request owes its client a reply. *)
LEMMA InTurn ==
  ASSUME TypeOK, ReadingInv, PlainInv, loop = "http", InStep,
         ~(Len(seen.done) < Len(client.sent)), CountInv
  PROVE  pc \in {"top", "read", "returned"}
<1>1. /\ Len(served) \in Nat /\ Len(made) \in Nat /\ Len(seen.done) \in Nat
      /\ Len(client.sent) \in Nat
      /\ Len(seen.done) <= Len(made) /\ Len(made) <= Len(served)
      /\ Len(served) <= Len(client.sent)
  BY PlainFacts
<1>2. /\ pc \in {"filter", "body"} => Len(made) < Len(served)
      /\ pc \in {"status", "text"} => Len(seen.done) < Len(made)
  BY DEF PlainInv, PlainCount, PlainTurn
<1>3. pc \notin {"filter", "body", "status", "text"}
  BY <1>1, <1>2
<1>4. pc \in Places /\ pc \notin InReply \ {"status"}
  BY Types DEF CountInv
<1> QED
  BY <1>3, <1>4 DEF Places, InReply

(* A client that sends, in or out of turn. *)
LEMMA ClientSendsReading ==
  ASSUME TypeOK, RequestsInv, ReadingInv, StepInv, TurnsInv, CountInv, PlainInv,
         ClientSends,
         InStep' => InStep
  PROVE  ReadingInv' /\ StepInv' /\ TurnsInv'
<1>1. /\ loop' = loop /\ pc' = pc /\ buf' = buf /\ cur' = cur /\ served' = served
      /\ client.open /\ ~client.owes /\ Len(client.sent) < MaxReqs
  BY DEF ClientSends
<1>2. PICK k \in Kinds :
        /\ wire' = Append(wire, [part |-> "head",
                                 req |-> [no |-> Len(client.sent) + 1, kind |-> k]])
        /\ client' = [client EXCEPT
                        !.sent = Append(@, [no |-> Len(client.sent) + 1, kind |-> k]),
                        !.owes = k = "POST"]
        /\ slips' = [slips EXCEPT !.early = @ \/ Len(seen.done) < Len(client.sent)]
  BY Zenon DEF ClientSends
<1> DEFINE req == [no |-> Len(client.sent) + 1, kind |-> k]
           t == [part |-> "head", req |-> req]
<1>3. /\ client.sent \in Seq(Requests) /\ client \in Clients /\ slips \in Slips
      /\ slips.early \in BOOLEAN
  BY Types, Zenon DEF Clients, Slips
<1>4. client'.sent = Append(client.sent, req)
  BY <1>2, <1>3 DEF Clients
<1>5. client'.open /\ (client'.owes <=> k = "POST")
  BY <1>1, <1>2, <1>3, Zenon DEF Clients
<1>6. slips'.misread = slips.misread
  BY <1>2, <1>3, Zenon DEF Slips
<1>7. slips'.early <=> slips.early \/ Len(seen.done) < Len(client.sent)
  BY <1>2, <1>3, Zenon DEF Slips
<1>8. /\ req \in Requests /\ t \in Tokens /\ req.no = Len(client.sent) + 1
      /\ t.req = req /\ t.part = "head" /\ req.kind = k /\ wire' = Append(wire, t)
  <2>1. Len(client.sent) + 1 \in 1..MaxReqs
    BY <1>1, <1>3, SeqFacts, MitmLoopAssumption
  <2> QED
    BY <1>2, <2>1 DEF Requests, Tokens
<1> HIDE DEF req, t
<1>9. /\ Len(client'.sent) = Len(client.sent) + 1 /\ Len(client.sent) \in Nat
      /\ \A q : OfClient(q) => Among(client'.sent, q)
  BY <1>3, <1>4, <1>8, AppendFacts, AmongAppend DEF OfClient
<1>10. ASSUME loop = "tls" \/ InStep
       PROVE  /\ Stream' /\ Placed' /\ Waiting'
              /\ Waiting => FirstToken' = FirstToken
              /\ ~Waiting => FirstToken' = t
  <2>1. Stream /\ Placed
    BY <1>10 DEF ReadingInv
  <2>2. Waiting => Follows(LastToken, t)
    BY <1>1, <1>8, <2>1 DEF Placed, Follows
  <2>3. /\ Stream' /\ Waiting' /\ LastToken' = t
        /\ Waiting => FirstToken' = FirstToken
        /\ ~Waiting => FirstToken' = t
    BY <1>1, <1>8, <2>1, <2>2, Extend
  <2>4. \/ FirstToken' = FirstToken /\ Waiting
        \/ FirstToken' = t /\ Len(client.sent) = Len(served)
    BY <1>1, <2>1, <2>3 DEF Placed
  <2>5. IF FirstToken'.part = "body"
        THEN served # <<>> /\ FirstToken'.req = cur
        ELSE FirstToken'.req.no = Len(served) + 1
    BY <1>8, <2>1, <2>4 DEF Placed
  <2>6. /\ \A i \in DOMAIN served : served[i] = i
        /\ served # <<>> => Among(client'.sent, cur) /\ cur.no = Len(served)
        /\ pc \in {"filter", "body"} => served # <<>>
    BY <1>9, <2>1 DEF Placed
  <2>7. Placed'
    BY <1>1, <1>5, <1>8, <1>9, <2>3, <2>5, <2>6 DEF Placed, OfClient
  <2> QED
    BY <2>3, <2>7
<1>11. Owing' <=> Owing
  BY <1>1 DEF Owing
<1>12. ASSUME InStep'
       PROVE  /\ ~slips'.misread
              /\ pc' # "returned" =>
                   /\ Waiting' => (FirstToken'.part = "body" <=> Owing')
                   /\ client'.open /\ ~Waiting' => (client'.owes <=> Owing')
  <2>1. InStep
    BY <1>12
  <2>2. ~slips'.misread
    BY <1>6, <2>1 DEF StepInv
  <2>3. ASSUME pc # "returned" PROVE FirstToken'.part = "body" <=> Owing
    <3>1. CASE Waiting
      BY <1>10, <2>1, <2>3, <3>1 DEF StepInv
    <3>2. CASE ~Waiting
      <4>1. ~Owing
        BY <1>1, <2>1, <2>3, <3>2 DEF StepInv
      <4> QED
        BY <1>8, <1>10, <2>1, <3>2, <4>1
    <3> QED
      BY <3>1, <3>2
  <2> QED
    BY <1>1, <1>10, <1>11, <2>1, <2>2, <2>3
<1>13. ASSUME loop = "http", InStep'
       PROVE  /\ Len(client'.sent) <= Len(served) + 1
              /\ pc \in {"top", "read", "returned"}
              /\ pc = "top" => buf = <<>>
  <2>1. InStep
    BY <1>13
  <2>2. ~slips'.early
    BY <1>1, <1>13 DEF InStep
  <2>3. ~(Len(seen.done) < Len(client.sent))
    BY <1>7, <2>2
  <2>4. /\ Len(served) \in Nat /\ Len(made) \in Nat /\ Len(seen.done) \in Nat
        /\ Len(seen.done) <= Len(made) /\ Len(made) <= Len(served)
    BY <1>13, <2>1, PlainFacts
  <2>5. pc \in {"top", "read", "returned"}
    BY <1>9, <1>13, <2>1, <2>3, <2>4, InTurn
  <2>6. Len(client'.sent) <= Len(served) + 1
    BY <1>9, <2>3, <2>4
  <2> QED
    BY <1>13, <2>1, <2>5, <2>6 DEF TurnsInv
<1> QED
  BY <1>1, <1>10, <1>12, <1>13, ReadingStep

(* The client sends the body it owes. *)
LEMMA ClientSendsBodyReading ==
  ASSUME TypeOK, RequestsInv, ReadingInv, StepInv, TurnsInv, ClientSendsBody
  PROVE  ReadingInv' /\ StepInv' /\ TurnsInv'
<1>1. /\ loop' = loop /\ pc' = pc /\ buf' = buf /\ cur' = cur /\ served' = served
      /\ slips' = slips /\ client.open /\ client.owes
      /\ client' = [client EXCEPT !.owes = FALSE]
  BY DEF ClientSendsBody
<1> DEFINE l == client.sent[Len(client.sent)]
           t == [part |-> "body", req |-> l]
<1>2. client.sent \in Seq(Requests) /\ client \in Clients
  BY Types DEF Clients
<1>3. client'.sent = client.sent /\ client'.open = client.open /\ ~client'.owes
  BY <1>1, <1>2, Zenon DEF Clients
<1>4. /\ client.sent # <<>> /\ Len(client.sent) \in DOMAIN client.sent /\ l \in Requests
      /\ Len(client.sent) # 0
  BY <1>1, <1>2, SeqFacts DEF RequestsInv
<1>5. /\ t \in Tokens /\ t.part = "body" /\ t.req = l /\ wire' = Append(wire, t)
      /\ l.no = Len(client.sent)
  BY <1>4 DEF Tokens, ClientSendsBody, RequestsInv
<1>6. \A q : OfClient(q) /\ q.no = Len(client.sent) => q = l
  BY DEF OfClient, Among
<1>7. t = [part |-> "body", req |-> l]
  OBVIOUS
<1> HIDE DEF l, t
<1>8. /\ InStep' <=> InStep
      /\ Owing' <=> Owing
  BY <1>1 DEF InStep, Owing
<1>9. ASSUME loop = "tls" \/ InStep
      PROVE  /\ Stream' /\ Placed' /\ Waiting'
             /\ Waiting => FirstToken' = FirstToken
             /\ ~Waiting => FirstToken' = t
  <2>1. Stream /\ Placed
    BY <1>9 DEF ReadingInv
  <2>2. ASSUME Waiting PROVE Follows(LastToken, t)
    <3>1. /\ LastToken.req.no = Len(client.sent)
          /\ LastToken.part = "head" /\ LastToken.req.kind = "POST"
      BY <1>1, <2>1, <2>2 DEF Placed
    <3>2. OfClient(LastToken.req)
      <4>1. /\ wire # <<>> => Len(wire) \in DOMAIN wire
            /\ buf # <<>> => Len(buf) \in DOMAIN buf
        BY Types, SeqFacts
      <4> QED
        BY <2>2, <4>1 DEF LastToken, Waiting, RequestsInv
    <3>3. LastToken.req = l
      BY <1>6, <3>1, <3>2
    <3> QED
      BY <1>7, <3>1, <3>3 DEF Follows
  <2>3. /\ Stream' /\ Waiting' /\ LastToken' = t
        /\ Waiting => FirstToken' = FirstToken
        /\ ~Waiting => FirstToken' = t
    BY <1>1, <1>5, <2>1, <2>2, Extend
  <2>4. ASSUME ~Waiting PROVE served # <<>> /\ l = cur
    <3>1. Len(served) = Len(client.sent) /\ served \in Seq(1..MaxReqs)
      BY <1>1, <2>1, <2>4, Types DEF Placed
    <3>2. served # <<>>
      BY <1>4, <3>1, SeqFacts
    <3>3. OfClient(cur) /\ cur.no = Len(served)
      BY <2>1, <3>2 DEF Placed
    <3> QED
      BY <1>6, <3>1, <3>2, <3>3
  <2>5. IF FirstToken'.part = "body"
        THEN served # <<>> /\ FirstToken'.req = cur
        ELSE FirstToken'.req.no = Len(served) + 1
    <3>1. CASE Waiting
      BY <2>1, <2>3, <3>1 DEF Placed
    <3>2. CASE ~Waiting
      BY <1>5, <2>3, <2>4, <3>2
    <3> QED
      BY <3>1, <3>2
  <2>6. /\ \A i \in DOMAIN served : served[i] = i
        /\ served # <<>> => Among(client.sent, cur) /\ cur.no = Len(served)
        /\ pc \in {"filter", "body"} => served # <<>>
    BY <2>1 DEF Placed, OfClient
  <2>7. Placed'
    BY <1>1, <1>3, <1>5, <2>3, <2>5, <2>6 DEF Placed, OfClient
  <2> QED
    BY <2>3, <2>7
<1>10. ASSUME InStep, pc # "returned" PROVE FirstToken'.part = "body" <=> Owing
  <2>1. CASE Waiting
    BY <1>9, <1>10, <2>1 DEF StepInv
  <2>2. CASE ~Waiting
    BY <1>1, <1>5, <1>9, <1>10, <2>2 DEF StepInv
  <2> QED
    BY <2>1, <2>2
<1>11. InStep' => /\ ~slips'.misread
                  /\ pc' # "returned" =>
                       /\ Waiting' => (FirstToken'.part = "body" <=> Owing')
                       /\ client'.open /\ ~Waiting' => (client'.owes <=> Owing')
  BY <1>1, <1>8, <1>9, <1>10 DEF StepInv
<1>12. loop' = "http" /\ InStep' =>
        /\ Len(client'.sent) <= Len(served') + 1
        /\ pc' \notin {"top", "read", "returned"} => Len(client'.sent) = Len(served')
        /\ pc' = "top" => buf' = <<>>
  BY <1>1, <1>3, <1>8 DEF TurnsInv
<1> QED
  BY <1>1, <1>8, <1>9, <1>11, <1>12, ReadingStep

(* A client that stops, and one that is cut off. *)
LEMMA ClientStopsReading ==
  ASSUME TypeOK, RequestsInv, ReadingInv, StepInv, TurnsInv,
         ClientFinishes \/ ClientVanishes
  PROVE  ReadingInv' /\ StepInv' /\ TurnsInv'
<1>1. /\ loop' = loop /\ pc' = pc /\ buf' = buf /\ cur' = cur /\ served' = served
      /\ slips' = slips /\ (wire' = wire \/ wire' = <<>>)
      /\ \/ client' = [client EXCEPT !.open = FALSE]
         \/ client' = [client EXCEPT !.open = FALSE, !.gone = TRUE]
  BY DEF ClientFinishes, ClientVanishes
<1>2. client \in Clients
  BY Types
<1>3. client'.sent = client.sent /\ ~client'.open
  BY <1>1, <1>2, Zenon DEF Clients
<1>4. /\ InStep' <=> InStep
      /\ Owing' <=> Owing
  BY <1>1 DEF InStep, Owing
<1>5. Waiting' => Waiting /\ FirstToken' = FirstToken
  BY <1>1 DEF Waiting, FirstToken
<1>6. Unbroken(<<>>)
  BY DEF Unbroken
<1>7. (loop' = "tls" \/ InStep') => Stream' /\ Placed'
  <2> SUFFICES ASSUME loop = "tls" \/ InStep PROVE Stream' /\ Placed'
    BY <1>1, <1>4
  <2>1. Stream /\ Placed
    BY DEF ReadingInv
  <2>2. Stream'
    BY <1>1, <1>6, <2>1 DEF Stream
  <2>3. Placed'
    BY <1>1, <1>3, <1>5, <2>1 DEF Placed, OfClient
  <2> QED
    BY <2>2, <2>3
<1>8. InStep' => /\ ~slips'.misread
                 /\ pc' # "returned" =>
                      /\ Waiting' => (FirstToken'.part = "body" <=> Owing')
                      /\ client'.open /\ ~Waiting' => (client'.owes <=> Owing')
  BY <1>1, <1>3, <1>4, <1>5 DEF StepInv
<1>9. loop' = "http" /\ InStep' =>
        /\ Len(client'.sent) <= Len(served') + 1
        /\ pc' \notin {"top", "read", "returned"} => Len(client'.sent) = Len(served')
        /\ pc' = "top" => buf' = <<>>
  BY <1>1, <1>3, <1>4 DEF TurnsInv
<1> QED
  BY <1>7, <1>8, <1>9, ReadingStep

(* The reader takes what is there. *)
LEMMA FillReading ==
  ASSUME TypeOK, RequestsInv, ReadingInv, StepInv, TurnsInv, Fill
  PROVE  ReadingInv' /\ StepInv' /\ TurnsInv'
<1>1. /\ loop' = loop /\ pc' = pc /\ cur' = cur /\ served' = served
      /\ slips' = slips /\ client' = client
      /\ buf = <<>> /\ ~(loop = "http" /\ pc = "top")
  BY DEF Fill
<1>2. PICK k \in 1..Len(wire) : /\ buf' = SubSeq(wire, 1, k)
                                /\ wire' = SubSeq(wire, k + 1, Len(wire))
  BY DEF Fill
<1>3. wire \in Seq(Tokens) /\ wire # <<>>
  BY <1>2, Types, SeqFacts
<1>4. /\ InStep' <=> InStep
      /\ Owing' <=> Owing
  BY <1>1 DEF InStep, Owing
<1>5. ASSUME loop = "tls" \/ InStep
      PROVE  /\ Stream' /\ Waiting /\ Waiting'
             /\ FirstToken' = FirstToken /\ LastToken' = LastToken
  <2>1. Unbroken(wire)
    BY <1>5 DEF ReadingInv, Stream
  <2>2. /\ Unbroken(buf') /\ Unbroken(wire') /\ buf' # <<>> /\ buf'[1] = wire[1]
        /\ wire' # <<>> =>
             Follows(buf'[Len(buf')], wire'[1]) /\ wire'[Len(wire')] = wire[Len(wire)]
        /\ wire' = <<>> => buf'[Len(buf')] = wire[Len(wire)]
    BY <1>2, <1>3, <2>1, UnbrokenSplit
  <2> QED
    BY <1>1, <1>3, <2>2 DEF Stream, Waiting, FirstToken, LastToken
<1>6. (loop' = "tls" \/ InStep') => Stream' /\ Placed'
  <2> SUFFICES ASSUME loop = "tls" \/ InStep PROVE Stream' /\ Placed'
    BY <1>1, <1>4
  <2>1. Stream /\ Placed
    BY DEF ReadingInv
  <2>2. Placed'
    BY <1>1, <1>5, <2>1 DEF Placed, OfClient
  <2> QED
    BY <1>5, <2>2
<1>7. InStep' => /\ ~slips'.misread
                 /\ pc' # "returned" =>
                      /\ Waiting' => (FirstToken'.part = "body" <=> Owing')
                      /\ client'.open /\ ~Waiting' => (client'.owes <=> Owing')
  BY <1>1, <1>4, <1>5 DEF StepInv
<1>8. loop' = "http" /\ InStep' =>
        /\ Len(client'.sent) <= Len(served') + 1
        /\ pc' \notin {"top", "read", "returned"} => Len(client'.sent) = Len(served')
        /\ pc' = "top" => buf' = <<>>
  BY <1>1, <1>4 DEF TurnsInv
<1> QED
  BY <1>6, <1>7, <1>8, ReadingStep

(* The input is as it was, and the loop is owed a body if it was before    *)
(* or is at its end.                                                       *)
LEMMA SameInput ==
  ASSUME ReadingInv, StepInv, TurnsInv,
         UNCHANGED <<loop, wire, buf, cur, client, served>>,
         InStep' => InStep /\ slips'.misread = slips.misread,
         pc # "returned",
         pc' # "returned" /\ InStep' => (Owing' <=> Owing),
         pc' \in {"filter", "body"} => pc \in {"filter", "body"},
         loop = "http" /\ pc' \notin {"top", "read", "returned"} =>
           pc \notin {"top", "read", "returned"},
         loop = "http" => pc' # "top"
  PROVE  ReadingInv' /\ StepInv' /\ TurnsInv'
<1>1. /\ loop' = loop /\ wire' = wire /\ buf' = buf /\ cur' = cur /\ client' = client
      /\ served' = served
  OBVIOUS
<1>2. /\ Waiting' <=> Waiting
      /\ FirstToken' = FirstToken /\ LastToken' = LastToken
      /\ Stream' <=> Stream
  BY <1>1 DEF Waiting, FirstToken, LastToken, Stream
<1>3. (loop' = "tls" \/ InStep') => Stream' /\ Placed'
  <2> SUFFICES ASSUME loop = "tls" \/ InStep PROVE Stream' /\ Placed'
    BY <1>1
  <2>1. Stream /\ Placed
    BY DEF ReadingInv
  <2>2. Placed'
    BY <1>1, <1>2, <2>1 DEF Placed, OfClient
  <2> QED
    BY <1>2, <2>1, <2>2
<1>4. InStep' => /\ ~slips'.misread
                 /\ pc' # "returned" =>
                      /\ Waiting' => (FirstToken'.part = "body" <=> Owing')
                      /\ client'.open /\ ~Waiting' => (client'.owes <=> Owing')
  BY <1>1, <1>2 DEF StepInv
<1>5. loop' = "http" /\ InStep' =>
        /\ Len(client'.sent) <= Len(served') + 1
        /\ pc' \notin {"top", "read", "returned"} => Len(client'.sent) = Len(served')
        /\ pc' = "top" => buf' = <<>>
  BY <1>1 DEF TurnsInv
<1> QED
  BY <1>3, <1>4, <1>5, ReadingStep

(* The loop tests for the end, or makes a new reader. *)
LEMMA NextReaderReading ==
  ASSUME TypeOK, ReadingInv, StepInv, TurnsInv, NextReader
  PROVE  ReadingInv' /\ StepInv' /\ TurnsInv'
<1>1. /\ UNCHANGED <<loop, wire, cur, client, served, slips>>
      /\ pc = "top" /\ pc' \in {"read", "returned"}
      /\ buf' = buf \/ (loop = "http" /\ buf' = <<>>)
  BY DEF NextReader, Goto, Return
<1>2. InStep' <=> InStep
  BY <1>1 DEF InStep
<1>3. ~Owing /\ ~Owing'
  BY <1>1 DEF Owing
<1>4. CASE buf' = buf
  BY <1>1, <1>2, <1>3, <1>4, SameInput
<1>5. CASE buf' # buf /\ InStep
  BY <1>1, <1>5 DEF TurnsInv
<1>6. CASE buf' # buf /\ ~InStep
  <2>1. loop' # "tls" /\ ~InStep'
    BY <1>1, <1>2, <1>6
  <2> QED
    BY <2>1 DEF ReadingInv, StepInv, TurnsInv
<1> QED
  BY <1>4, <1>5, <1>6

(* The handlers answer, pass the request on, or fail. *)
LEMMA FilterReading ==
  ASSUME TypeOK, ReadingInv, StepInv, TurnsInv, FilterRequest, InStep' => InStep
  PROVE  ReadingInv' /\ StepInv' /\ TurnsInv'
<1>1. /\ UNCHANGED <<loop, wire, buf, cur, client, served>> /\ pc = "filter"
      /\ \/ pc' = "status" /\ slips' = [slips EXCEPT !.unread = @ \/ cur.kind = "POST"]
         \/ pc' \in {"body", "returned"} /\ slips' = slips
  BY DEF FilterRequest, Answer, Goto, Return
<1>2. slips \in Slips /\ slips.unread \in BOOLEAN
  BY Types, Zenon DEF Slips
<1>3. CASE pc' = "status" /\ slips' = [slips EXCEPT !.unread = @ \/ cur.kind = "POST"]
  <2>1. slips'.misread = slips.misread /\ (cur.kind = "POST" => slips'.unread)
    BY <1>2, <1>3, Zenon DEF Slips
  <2>2. InStep' => ~Owing
    BY <2>1 DEF InStep, Owing
  <2>3. ~Owing'
    BY <1>3 DEF Owing
  <2> QED
    BY <1>1, <1>3, <2>1, <2>2, <2>3, SameInput
<1>4. CASE pc' \in {"body", "returned"} /\ slips' = slips
  <2>1. pc' # "returned" => (Owing' <=> Owing)
    BY <1>1, <1>4 DEF Owing
  <2> QED
    BY <1>1, <1>4, <2>1, SameInput
<1> QED
  BY <1>1, <1>3, <1>4

(* The loop takes a body: the next token is a head. *)
LEMMA TakeBody ==
  ASSUME TypeOK, Stream, Placed, buf # <<>>, buf[1].part = "body",
         buf' = Tail(buf), UNCHANGED <<wire, cur, client, served>>,
         pc' \notin {"filter", "body"}
  PROVE  /\ Stream' /\ Placed'
         /\ Waiting' => FirstToken'.part = "head"
         /\ client.open /\ ~Waiting' => ~client.owes
<1>1. wire' = wire /\ cur' = cur /\ client' = client /\ served' = served
  OBVIOUS
<1>2. /\ Stream' /\ Waiting /\ FirstToken = buf[1]
      /\ Waiting' => Follows(buf[1], FirstToken') /\ LastToken' = LastToken
      /\ ~Waiting' => LastToken = buf[1]
  BY <1>1, Consume
<1>3. served # <<>> /\ buf[1].req = cur /\ cur.no = Len(served) /\ OfClient(cur)
  BY <1>2 DEF Placed
<1>4. Waiting' => FirstToken'.part = "head" /\ FirstToken'.req.no = Len(served) + 1
  BY <1>2, <1>3 DEF Follows
<1>5. client.open => /\ LastToken.req.no = Len(client.sent)
                     /\ client.owes <=> LastToken.part = "head"
                                        /\ LastToken.req.kind = "POST"
  BY <1>2 DEF Placed
<1>6. client.open /\ ~Waiting' => ~client.owes /\ Len(served) = Len(client.sent)
  BY <1>2, <1>3, <1>5
<1>7. \A i \in DOMAIN served : served[i] = i
  BY DEF Placed
<1>8. Placed'
  BY <1>1, <1>2, <1>3, <1>4, <1>5, <1>6, <1>7 DEF Placed, OfClient
<1> QED
  BY <1>2, <1>4, <1>6, <1>8

(* The loop takes a head: the next token is its body, if it has one, or    *)
(* the next head.                                                          *)
LEMMA TakeHead ==
  ASSUME TypeOK, RequestsInv, Stream, Placed, buf # <<>>, buf[1].part = "head",
         buf' = Tail(buf), UNCHANGED <<wire, client>>,
         cur' = buf[1].req, served' = Append(served, buf[1].req.no)
  PROVE  /\ Stream' /\ Placed'
         /\ Len(served') = Len(served) + 1 /\ Len(served) \in Nat
         /\ Len(served) + 1 \in DOMAIN client.sent
         /\ Waiting' => (FirstToken'.part = "body" <=> cur'.kind = "POST")
         /\ client.open /\ ~Waiting' => (client.owes <=> cur'.kind = "POST")
<1>1. wire' = wire /\ client' = client
  OBVIOUS
<1>2. /\ Stream' /\ Waiting /\ FirstToken = buf[1] /\ buf[1] \in Tokens
      /\ Waiting' => Follows(buf[1], FirstToken') /\ LastToken' = LastToken
      /\ ~Waiting' => LastToken = buf[1]
  BY <1>1, Consume
<1>3. buf[1].req.no = Len(served) + 1
  BY <1>2 DEF Placed
<1>4. OfClient(buf[1].req)
  <2>1. 1 \in DOMAIN buf
    BY Types, TailFacts
  <2> QED
    BY <2>1 DEF RequestsInv
<1>5. /\ served \in Seq(1..MaxReqs) /\ buf[1].req.no \in 1..MaxReqs
  BY <1>2, Types DEF Tokens, Requests
<1>6. /\ Len(served') = Len(served) + 1 /\ Len(served) \in Nat
      /\ DOMAIN served = 1..Len(served) /\ DOMAIN served' = 1..(Len(served) + 1)
      /\ served'[Len(served) + 1] = buf[1].req.no
      /\ \A i \in 1..Len(served) : served'[i] = served[i]
  BY <1>5, AppendFacts
<1>7. served' # <<>>
  BY <1>5, AppendProperties
<1>8. \A i \in DOMAIN served' : served'[i] = i
  BY <1>3, <1>6 DEF Placed
<1>9. Waiting' => IF cur'.kind = "POST"
                  THEN FirstToken'.part = "body" /\ FirstToken'.req = cur'
                  ELSE FirstToken'.part = "head" /\ FirstToken'.req.no = Len(served') + 1
  BY <1>2, <1>3, <1>6 DEF Follows
<1>10. client.open => /\ LastToken.req.no = Len(client.sent)
                      /\ client.owes <=> LastToken.part = "head"
                                         /\ LastToken.req.kind = "POST"
  BY <1>2 DEF Placed
<1>11. client.open /\ ~Waiting' => /\ client.owes <=> cur'.kind = "POST"
                                   /\ Len(served') = Len(client.sent)
  BY <1>2, <1>3, <1>6, <1>10
<1>12. Placed'
  BY <1>1, <1>2, <1>3, <1>4, <1>6, <1>7, <1>8, <1>9, <1>10, <1>11 DEF Placed, OfClient
<1> QED
  BY <1>2, <1>3, <1>4, <1>6, <1>9, <1>11, <1>12 DEF OfClient, Among

(* The next head is read from the buffer. *)
LEMMA ReadRequestReading ==
  ASSUME TypeOK, RequestsInv, ReadingInv, StepInv, TurnsInv, ReadRequest,
         InStep' => InStep
  PROVE  ReadingInv' /\ StepInv' /\ TurnsInv'
<1>1. pc = "read" /\ UNCHANGED <<loop, wire, client>>
  BY DEF ReadRequest
<1>2. ~Owing
  BY <1>1 DEF Owing
<1>3. buf # <<>> => Head(buf) = buf[1] /\ FirstToken = buf[1] /\ Waiting
  BY Types, TailFacts DEF FirstToken, Waiting
<1>4. CASE buf # <<>> /\ Head(buf).part = "head" /\ ReadRequest
  <2>1. /\ cur' = buf[1].req /\ served' = Append(served, buf[1].req.no)
        /\ buf' = Tail(buf) /\ pc' = "filter" /\ slips' = slips
        /\ buf[1].part = "head" /\ buf # <<>>
    BY <1>3, <1>4 DEF ReadRequest, Goto, AtEOF
  <2>2. ASSUME loop = "tls" \/ InStep
        PROVE  /\ Stream' /\ Placed'
               /\ Len(served') = Len(served) + 1 /\ Len(served) \in Nat
               /\ Len(served) + 1 \in DOMAIN client.sent
               /\ Waiting' => (FirstToken'.part = "body" <=> cur'.kind = "POST")
               /\ client.open /\ ~Waiting' => (client.owes <=> cur'.kind = "POST")
    <3>1. Stream /\ Placed
      BY <2>2 DEF ReadingInv
    <3> QED
      BY <1>1, <2>1, <3>1, TakeHead
  <2>3. /\ InStep' <=> InStep
        /\ Owing' <=> cur'.kind = "POST"
    BY <1>1, <2>1 DEF InStep, Owing
  <2>4. InStep' => /\ ~slips'.misread
                   /\ pc' # "returned" =>
                        /\ Waiting' => (FirstToken'.part = "body" <=> Owing')
                        /\ client'.open /\ ~Waiting' => (client'.owes <=> Owing')
    BY <1>1, <2>1, <2>2, <2>3 DEF StepInv
  <2>5. ASSUME loop = "http", InStep PROVE Len(client.sent) = Len(served')
    <3>1. client.sent \in Seq(Requests)
      BY Types DEF Clients
    <3>2. Len(client.sent) \in Nat /\ DOMAIN client.sent = 1..Len(client.sent)
      BY <3>1, SeqFacts
    <3>3. Len(client.sent) <= Len(served) + 1
      BY <2>5 DEF TurnsInv
    <3> QED
      BY <2>2, <2>5, <3>2, <3>3
  <2>6. ASSUME loop = "http", InStep PROVE Len(client.sent) <= Len(served') + 1
    BY <2>2, <2>5, <2>6
  <2> QED
    BY <1>1, <2>1, <2>2, <2>3, <2>4, <2>5, <2>6, ReadingStep
<1>5. CASE buf # <<>> /\ Head(buf).part = "body" /\ ReadRequest
  <2>1. /\ buf' = Tail(buf) /\ pc' = "returned" /\ UNCHANGED <<cur, served>>
        /\ buf[1].part = "body" /\ buf # <<>>
    BY <1>3, <1>5 DEF ReadRequest, Goto, Return, AtEOF
  <2>2. ~InStep
    BY <1>1, <1>2, <1>3, <2>1 DEF StepInv
  <2>3. loop = "tls" => Stream' /\ Placed'
    BY <1>1, <2>1, TakeBody DEF ReadingInv
  <2> QED
    BY <1>1, <2>2, <2>3, ReadingStep
<1>6. CASE AtEOF /\ Return /\ UNCHANGED <<cur, served, buf, slips>>
  <2>1. InStep' => InStep /\ slips'.misread = slips.misread
    BY <1>6
  <2> QED
    BY <1>1, <1>6, <2>1, SameInput DEF Return, Goto
<1> QED
  BY <1>4, <1>5, <1>6 DEF ReadRequest

(* The request is sent with its body, which the origin has read. *)
LEMMA RoundTripReading ==
  ASSUME TypeOK, RequestsInv, ReadingInv, StepInv, TurnsInv, RoundTrip
  PROVE  ReadingInv' /\ StepInv' /\ TurnsInv'
<1>1. /\ pc = "body" /\ UNCHANGED <<loop, wire, cur, client, served, slips>>
      /\ pc' \in {"status", "text", "returned"}
      /\ \/ cur.kind # "POST" /\ buf' = buf
         \/ buf # <<>> /\ Head(buf).part = "body" /\ buf' = Tail(buf)
         \/ AtEOF /\ buf' = buf
  BY DEF RoundTrip, Drain, Answer, OwnReply, Goto, Return
<1>2. ~Owing' /\ (InStep' <=> InStep)
  BY <1>1 DEF Owing, InStep
<1>3. CASE cur.kind # "POST" /\ buf' = buf
  <2>1. ~Owing
    BY <1>3 DEF Owing
  <2> QED
    BY <1>1, <1>2, <1>3, <2>1, SameInput
<1>4. CASE buf # <<>> /\ Head(buf).part = "body" /\ buf' = Tail(buf)
  <2>1. buf[1].part = "body" /\ buf # <<>>
    BY <1>4, Types, TailFacts
  <2>2. ASSUME loop = "tls" \/ InStep
        PROVE  /\ Stream' /\ Placed'
               /\ Waiting' => FirstToken'.part = "head"
               /\ client.open /\ ~Waiting' => ~client.owes
    BY <1>1, <1>4, <2>1, <2>2, TakeBody DEF ReadingInv
  <2>3. InStep' => /\ ~slips'.misread
                   /\ pc' # "returned" =>
                        /\ Waiting' => (FirstToken'.part = "body" <=> Owing')
                        /\ client'.open /\ ~Waiting' => (client'.owes <=> Owing')
    BY <1>1, <1>2, <2>2 DEF StepInv
  <2>4. loop' = "http" /\ InStep' =>
          /\ Len(client'.sent) <= Len(served') + 1
          /\ pc' \notin {"top", "read", "returned"} => Len(client'.sent) = Len(served')
          /\ pc' = "top" => buf' = <<>>
    BY <1>1, <1>2 DEF TurnsInv
  <2> QED
    BY <1>1, <1>2, <2>2, <2>3, <2>4, ReadingStep
<1>5. CASE AtEOF /\ buf' = buf
  <2>1. /\ loop' = loop /\ wire' = wire /\ buf' = buf /\ cur' = cur /\ client' = client
        /\ served' = served /\ slips' = slips
    BY <1>1, <1>5
  <2>2. ~Waiting' /\ ~client'.open
    BY <1>5, <2>1 DEF AtEOF, Waiting
  <2>3. (loop' = "tls" \/ InStep') => Stream' /\ Placed'
    <3> SUFFICES ASSUME loop = "tls" \/ InStep PROVE Stream' /\ Placed'
      BY <1>2, <2>1
    <3>1. Stream /\ Placed
      BY DEF ReadingInv
    <3> QED
      BY <1>1, <2>1, <2>2, <3>1 DEF Stream, Placed, OfClient
  <2>4. InStep' => ~slips'.misread
    BY <1>2, <2>1 DEF StepInv
  <2>5. loop' = "http" /\ InStep' =>
          /\ Len(client'.sent) <= Len(served') + 1
          /\ pc' \notin {"top", "read", "returned"} => Len(client'.sent) = Len(served')
          /\ pc' = "top" => buf' = <<>>
    BY <1>1, <1>2, <2>1 DEF TurnsInv
  <2> QED
    BY <2>2, <2>3, <2>4, <2>5, ReadingStep
<1> QED
  BY <1>1, <1>3, <1>4, <1>5

-----------------------------------------------------------------------------
(* Writing. *)

(* The decoder, token by token. *)
LEMMA DecodeFacts ==
  ASSUME NEW d \in Decoders, NEW token, NEW e, e = Decode(d, token)
  PROVE  /\ d.at = "status" /\ token \in Status =>
              e.at = "header" /\ e.code = token /\ e.got = d.got /\ e.done = d.done
         /\ d.at = "header" /\ token = "header" =>
              e.at = "blank" /\ e.code = d.code /\ e.got = d.got /\ e.done = d.done
         /\ d.at = "blank" /\ token = "crlf" /\ Bodyless(d) => e = Complete(d)
         /\ d.at = "blank" /\ token = "crlf" /\ ~Bodyless(d) =>
              e.at = "size" /\ e.got = d.got /\ e.done = d.done
         /\ d.at = "size" /\ token = "size" =>
              e.at = "data" /\ e.got = d.got /\ e.done = d.done
         /\ d.at = "data" /\ token = "data" =>
              e.at = "crlf" /\ e.got = d.got + 1 /\ e.done = d.done
         /\ d.at = "crlf" /\ token = "crlf" =>
              e.at = "size" /\ e.got = d.got /\ e.done = d.done
         /\ d.at = "size" /\ token = "0" =>
              e.at = "end" /\ e.got = d.got /\ e.done = d.done
         /\ d.at = "end" /\ token = "crlf" => e = Complete(d)
         /\ d.at = "lost" => e.at = "lost" /\ e.done = d.done
         /\ d.at = "status" /\ token = "0" => e.at = "lost" /\ e.done = d.done
<1>1. CASE d.at = "status" /\ token \in Status
  <2>1. e = [d EXCEPT !.at = "header", !.code = token] /\ token # "0"
    BY <1>1 DEF Decode, Status
  <2> QED
    BY <1>1, <2>1 DEF Decoders
<1>2. CASE d.at = "header" /\ token = "header"
  BY <1>2 DEF Decode, Decoders
<1>3. CASE d.at = "blank" /\ token = "crlf"
  <2>1. e = IF Bodyless(d) THEN Complete(d) ELSE [d EXCEPT !.at = "size"]
    BY <1>3 DEF Decode
  <2>2. CASE Bodyless(d)
    BY <1>3, <2>1, <2>2
  <2>3. CASE ~Bodyless(d)
    BY <1>3, <2>1, <2>3 DEF Decoders
  <2> QED
    BY <2>2, <2>3
<1>4. CASE d.at = "size" /\ token = "size"
  BY <1>4 DEF Decode, Decoders
<1>5. CASE d.at = "data" /\ token = "data"
  BY <1>5 DEF Decode, Decoders
<1>6. CASE d.at = "crlf" /\ token = "crlf"
  BY <1>6 DEF Decode, Decoders
<1>7. CASE d.at = "size" /\ token = "0"
  BY <1>7 DEF Decode, Decoders
<1>8. CASE d.at = "end" /\ token = "crlf"
  BY <1>8 DEF Decode, Decoders
<1>9. CASE d.at = "lost"
  BY <1>9 DEF Decode, Decoders
<1>10. CASE d.at = "status" /\ token = "0"
  BY <1>10 DEF Decode, Decoders, Status
<1> QED
  BY <1>1, <1>2, <1>3, <1>4, <1>5, <1>6, <1>7, <1>8, <1>9, <1>10

(* The decoder after a reply. *)
LEMMA CompleteFacts ==
  ASSUME NEW d \in Decoders
  PROVE  /\ Complete(d).at = "status" /\ Complete(d).got = 0
         /\ Complete(d).done = Append(d.done, d.got)
BY DEF Complete, Decoders

(* A reply that the client takes for complete when it has all of it.       *)
LEMMA Completed ==
  ASSUME TypeOK, Exact, made # <<>>,
         Len(seen.done) = Len(made) - 1, seen' = Complete(seen), made' = made,
         made[Len(made)].whole, seen.got = made[Len(made)].size
  PROVE  /\ Exact' /\ Len(seen'.done) = Len(made)
         /\ seen'.at = "status" /\ seen'.got = 0
<1>1. seen \in Decoders /\ seen.done \in Seq(Nat) /\ seen.got \in Nat
  BY Types DEF Decoders
<1>2. made \in Seq(Replies) /\ Len(made) \in Nat
  BY Types, SeqFacts
<1>3. /\ seen'.at = "status" /\ seen'.got = 0
      /\ seen'.done = Append(seen.done, seen.got)
  BY <1>1, CompleteFacts
<1>4. PICK l \in Nat : l = Len(seen.done)
  BY <1>1, SeqFacts
<1>5. /\ Len(seen'.done) = l + 1 /\ DOMAIN seen'.done = 1..(l + 1)
      /\ DOMAIN seen.done = 1..l
      /\ \A i \in 1..l : seen'.done[i] = seen.done[i]
      /\ seen'.done[l + 1] = seen.got
  BY <1>1, <1>3, <1>4, AppendFacts
<1>6. l + 1 = Len(made)
  BY <1>2, <1>4
<1>7. \A i \in DOMAIN seen.done : made[i].whole /\ seen.done[i] = made[i].size
  BY DEF Exact
<1>8. \A i \in DOMAIN seen'.done : made[i].whole /\ seen'.done[i] = made[i].size
  <2> SUFFICES ASSUME NEW i \in DOMAIN seen'.done
               PROVE  made[i].whole /\ seen'.done[i] = made[i].size
    OBVIOUS
  <2>1. CASE i = l + 1
    BY <1>5, <1>6, <2>1
  <2>2. CASE i # l + 1
    <3>1. i \in DOMAIN seen.done /\ seen'.done[i] = seen.done[i]
      BY <1>5, <2>2
    <3> QED
      BY <1>7, <3>1
  <2> QED
    BY <2>1, <2>2
<1>9. Exact'
  BY <1>8 DEF Exact
<1> QED
  BY <1>3, <1>5, <1>6, <1>9

(* The client does nothing to the replies, but it may go. *)
LEMMA ClientWriting ==
  ASSUME TypeOK, CountInv, ReplyInv, DecoderInv, ClientStep
  PROVE  CountInv' /\ ReplyInv' /\ DecoderInv'
<1>1. client \in Clients /\ client.gone \in BOOLEAN
  BY Types, Zenon DEF Clients
<1>2. /\ loop' = loop /\ pc' = pc /\ cur' = cur /\ body' = body /\ broken' = broken
      /\ seen' = seen /\ served' = served /\ made' = made
  BY DEF ClientStep, ClientSends, ClientSendsBody, ClientFinishes, ClientVanishes
<1>3. client.gone => client'.gone
  <2>1. CASE ClientSends
    BY <1>1, <2>1, Zenon DEF ClientSends, Clients
  <2>2. CASE ClientSendsBody
    BY <1>1, <2>2, Zenon DEF ClientSendsBody, Clients
  <2>3. CASE ClientFinishes
    BY <1>1, <2>3, Zenon DEF ClientFinishes, Clients
  <2>4. CASE ClientVanishes
    BY <1>1, <2>4, Zenon DEF ClientVanishes, Clients
  <2> QED
    BY <2>1, <2>2, <2>3, <2>4 DEF ClientStep
<1>4. CountInv'
  BY <1>2 DEF CountInv
<1>5. ReplyInv'
  BY <1>2 DEF ReplyInv
<1>6. DecoderInv'
  BY <1>2, <1>3 DEF DecoderInv, Decodable, Exact, Decoding, AheadOf204
<1> QED
  BY <1>4, <1>5, <1>6

(* Between two replies the decoder waits. *)
LEMMA BetweenReplies ==
  ASSUME TypeOK, DecoderInv, UNCHANGED <<loop, client, seen, made>>,
         pc \in {"top", "read", "filter", "body"},
         pc' \in {"top", "read", "filter", "body", "returned"}
  PROVE  ReplyInv' /\ DecoderInv'
<1>1. loop' = loop /\ client' = client /\ seen' = seen /\ made' = made
  OBVIOUS
<1>2. ReplyInv'
  BY DEF ReplyInv, InReply
<1>3. ASSUME Decoding, pc' # "returned" PROVE Decoding'
  BY <1>1, <1>3 DEF Decoding, PlaceFor, InReply
<1>4. ~AheadOf204
  BY DEF AheadOf204
<1>5. DecoderInv'
  BY <1>1, <1>3, <1>4 DEF DecoderInv, Decodable, Exact
<1> QED
  BY <1>2, <1>5

(* A reply begins. *)
LEMMA ReplyBegins ==
  ASSUME TypeOK, CountInv, DecoderInv, Answer, pc \in {"filter", "body"},
         UNCHANGED <<loop, client, seen, served, cur>>
  PROVE  CountInv' /\ ReplyInv' /\ DecoderInv'
<1>1. /\ loop' = loop /\ client' = client /\ seen' = seen /\ served' = served
      /\ cur' = cur
  OBVIOUS
<1>2. /\ pc' = "status" /\ body' \in Seq(BOOLEAN) /\ broken' \in BOOLEAN
      /\ \E m \in Replies :
           /\ made' = Append(made, m)
           /\ m.whole <=> (~broken' \/ cur.kind = "HEAD")
           /\ m.size = IF cur.kind = "HEAD" THEN 0 ELSE FullReads(body')
           /\ m.status = "bodyless" => body' = <<>> /\ ~broken'
  BY AnswerFacts
<1>3. PICK m \in Replies :
           /\ made' = Append(made, m)
           /\ m.whole <=> (~broken' \/ cur.kind = "HEAD")
           /\ m.size = IF cur.kind = "HEAD" THEN 0 ELSE FullReads(body')
           /\ m.status = "bodyless" => body' = <<>> /\ ~broken'
  BY <1>2
<1>4. PICK l \in Nat : l = Len(made)
  BY Types, SeqFacts
<1>5. /\ Len(made') = l + 1 /\ made'[l + 1] = m /\ DOMAIN made = 1..l
      /\ DOMAIN made' = 1..(l + 1)
      /\ \A i \in 1..l : made'[i] = made[i]
  BY <1>3, <1>4, Types, AppendFacts
<1>6. made' # <<>>
  BY <1>3, Types, AppendProperties
<1>7. CountInv'
  BY <1>1, <1>2, <1>4, <1>5 DEF CountInv, InReply
<1>8. ReplyInv'
  BY <1>1, <1>2, <1>3, <1>5, <1>6 DEF ReplyInv
<1>9. PICK n \in Nat : n = Len(seen.done)
  BY Types, SeqFacts DEF Decoders
<1>10. ASSUME loop = "tls" PROVE DecoderInv'
  <2>1. n <= l /\ DOMAIN seen.done = 1..n
    BY <1>4, <1>9, <1>10, Types, SeqFacts DEF DecoderInv, Decoders
  <2>2. Exact' /\ Decodable'
    BY <1>1, <1>5, <1>10, <2>1 DEF DecoderInv, Decodable, Exact
  <2>3. ASSUME Decoding PROVE Decoding'
    BY <1>1, <1>2, <1>4, <1>5, <2>3 DEF Decoding, PlaceFor, InReply
  <2>4. ~AheadOf204 /\ pc # "returned"
    BY DEF AheadOf204
  <2>5. Len(seen'.done) <= Len(made')
    BY <1>1, <1>5, <1>9, <2>1
  <2> QED
    BY <1>1, <1>10, <2>2, <2>3, <2>4, <2>5 DEF DecoderInv
<1>11. loop # "tls" => DecoderInv'
  BY <1>1 DEF DecoderInv
<1> QED
  BY <1>7, <1>8, <1>10, <1>11

(* What the decoder has to be after a write that reaches the client. *)
Followed ==
  /\ Decodable /\ Exact /\ Len(seen.done) <= Len(made)
  /\ Decoding \/ AheadOf204 \/ seen.at = "lost"

(* A client that is lost stays lost, one that is gone sees no more.        *)
LEMMA PutStep ==
  ASSUME TypeOK, CountInv, DecoderInv, Writing, loop = "tls", pc \in InReply,
         NEW token, NEW next \in InReply \cup {"top"}, Put(token, next), ReplyInv',
         (~client.gone /\ seen.at # "lost" /\ pc' = next
            /\ seen' = Decode(seen, token)) => Followed'
  PROVE  CountInv' /\ ReplyInv' /\ DecoderInv'
<1>1. /\ loop' = loop /\ client' = client /\ made' = made /\ served' = served
  BY DEF Writing
<1>2. /\ pc' = next \/ pc' = "returned"
      /\ client.gone => seen' = seen
      /\ ~client.gone => seen' = Decode(seen, token) /\ pc' = next
  BY DEF Put, Goto, Return
<1>3. CountInv'
  BY <1>1, <1>2 DEF CountInv, InReply
<1>4. CASE client.gone
  BY <1>1, <1>2, <1>3, <1>4 DEF DecoderInv, Decodable, Exact
<1>5. CASE ~client.gone /\ seen.at = "lost"
  <2>1. seen'.at = "lost" /\ seen'.done = seen.done
    BY <1>2, <1>5, Types, DecodeFacts
  <2> QED
    BY <1>1, <1>3, <1>5, <2>1 DEF DecoderInv, Decodable, Exact
<1>6. CASE ~client.gone /\ seen.at # "lost"
  BY <1>1, <1>2, <1>3, <1>6 DEF DecoderInv, Followed
<1> QED
  BY <1>4, <1>5, <1>6

(* What is known of a reply under way. *)
LEMMA UnderWay ==
  ASSUME TypeOK, ReplyInv, DecoderInv, Writing, loop = "tls", pc \in InReply
  PROVE  /\ made # <<>> /\ Len(made) \in Nat \ {0} /\ made[Len(made)] \in Replies
         /\ Len(made) \in DOMAIN made
         /\ seen \in Decoders /\ seen.got \in Nat /\ seen.done \in Seq(Nat)
         /\ Len(seen.done) \in Nat /\ Len(seen.done) <= Len(made)
         /\ Decodable /\ Exact
         /\ ~client.gone /\ seen.at # "lost" => Decoding \/ AheadOf204
         /\ loop' = loop /\ client' = client /\ made' = made /\ served' = served
         /\ cur' = cur /\ broken' = broken
<1>1. made # <<>> /\ made \in Seq(Replies)
  BY Types DEF ReplyInv
<1>2. Len(made) \in Nat \ {0} /\ made[Len(made)] \in Replies /\ Len(made) \in DOMAIN made
  BY <1>1, SeqFacts
<1>3. /\ seen \in Decoders /\ seen.got \in Nat /\ seen.done \in Seq(Nat)
  BY Types DEF Decoders
<1>4. Len(seen.done) \in Nat
  BY <1>3, SeqFacts
<1>5. pc # "returned"
  BY DEF InReply
<1> QED
  BY <1>1, <1>2, <1>3, <1>4, <1>5 DEF DecoderInv, Writing

(* A write that completes nothing and confuses no client. *)
LEMMA InTheMiddle ==
  ASSUME Decodable, Exact, Len(seen.done) <= Len(made),
         made' = made, seen'.done = seen.done, seen'.at # "lost", Decoding'
  PROVE  Followed'
BY DEF Followed, Decodable, Exact

(* The status line. *)
LEMMA StatusWriting ==
  ASSUME TypeOK, CountInv, ReplyInv, DecoderInv, WriteStatus
  PROVE  CountInv' /\ ReplyInv' /\ DecoderInv'
<1> DEFINE m == made[Len(made)]
<1>1. /\ Writing /\ loop = "tls" /\ pc = "status" /\ pc \in InReply
      /\ Put(m.status, "header") /\ body' = body /\ "header" \in InReply
  BY DEF WriteStatus, InReply
<1>2. /\ m \in Replies /\ seen \in Decoders
      /\ Decodable /\ Exact /\ Len(seen.done) <= Len(made)
      /\ ~client.gone /\ seen.at # "lost" => Decoding \/ AheadOf204
      /\ loop' = loop /\ client' = client /\ made' = made /\ served' = served
      /\ cur' = cur /\ broken' = broken
  BY <1>1, UnderWay
<1>3. ~AheadOf204 /\ m.status \in Status
  BY <1>1, <1>2 DEF AheadOf204, Replies
<1>4. ReplyInv'
  <2>1. pc' = "header" \/ pc' = "returned"
    BY <1>1 DEF Put, Goto, Return
  <2> QED
    BY <1>1, <1>2, <2>1 DEF ReplyInv, InReply
<1>5. ASSUME ~client.gone, seen.at # "lost", pc' = "header", seen' = Decode(seen, m.status)
      PROVE  Followed'
  <2>1. Decoding /\ seen.at = "status"
    BY <1>1, <1>2, <1>3, <1>5 DEF Decoding, PlaceFor
  <2>2. /\ seen'.at = "header" /\ seen'.code = m.status /\ seen'.got = seen.got
        /\ seen'.done = seen.done
    BY <1>2, <1>3, <1>5, <2>1, DecodeFacts
  <2>3. Decoding'
    BY <1>1, <1>2, <1>5, <2>1, <2>2 DEF Decoding, PlaceFor, InReply
  <2> QED
    BY <1>2, <2>2, <2>3, InTheMiddle
<1> HIDE DEF m
<1> QED
  BY <1>1, <1>4, <1>5, PutStep

(* The header. *)
LEMMA HeaderWriting ==
  ASSUME TypeOK, CountInv, ReplyInv, DecoderInv, WriteHeader, loop = "tls"
  PROVE  CountInv' /\ ReplyInv' /\ DecoderInv'
<1>1. /\ Writing /\ pc = "header" /\ pc \in InReply
      /\ Put("header", "blank") /\ body' = body /\ "blank" \in InReply
  BY DEF WriteHeader, InReply
<1>2. /\ seen \in Decoders
      /\ Decodable /\ Exact /\ Len(seen.done) <= Len(made)
      /\ ~client.gone /\ seen.at # "lost" => Decoding \/ AheadOf204
      /\ loop' = loop /\ client' = client /\ made' = made /\ served' = served
      /\ cur' = cur /\ broken' = broken
  BY <1>1, UnderWay
<1>3. ~AheadOf204
  BY <1>1 DEF AheadOf204
<1>4. ReplyInv'
  <2>1. pc' = "blank" \/ pc' = "returned"
    BY <1>1 DEF Put, Goto, Return
  <2> QED
    BY <1>1, <1>2, <2>1 DEF ReplyInv, InReply
<1>5. ASSUME ~client.gone, seen.at # "lost", pc' = "blank", seen' = Decode(seen, "header")
      PROVE  Followed'
  <2>1. Decoding /\ seen.at = "header"
    BY <1>1, <1>2, <1>3, <1>5 DEF Decoding, PlaceFor
  <2>2. /\ seen'.at = "blank" /\ seen'.code = seen.code /\ seen'.got = seen.got
        /\ seen'.done = seen.done
    BY <1>2, <1>5, <2>1, DecodeFacts
  <2>3. Decoding'
    BY <1>1, <1>2, <1>5, <2>1, <2>2 DEF Decoding, PlaceFor, InReply
  <2> QED
    BY <1>2, <2>2, <2>3, InTheMiddle
<1> QED
  BY <1>1, <1>4, <1>5, PutStep

(* The empty line ends a reply without a body.  The client takes a 204 or  *)
(* 304 for complete here, too, and the loop goes on.                       *)
LEMMA BlankWriting ==
  ASSUME TypeOK, ReadingInv, CountInv, ReplyInv, DecoderInv, WriteBlank, loop = "tls"
  PROVE  CountInv' /\ ReplyInv' /\ DecoderInv'
<1> DEFINE n == IF cur.kind = "HEAD" THEN "top" ELSE "copy"
           m == made[Len(made)]
<1>1. /\ Writing /\ pc = "blank" /\ pc \in InReply
      /\ Put("crlf", n) /\ body' = body /\ n \in InReply \cup {"top"}
  BY DEF WriteBlank, InReply
<1>2. /\ made # <<>> /\ Len(made) \in Nat \ {0} /\ made[Len(made)] \in Replies
      /\ Len(made) \in DOMAIN made /\ seen \in Decoders /\ seen.got \in Nat
      /\ Len(seen.done) \in Nat /\ Len(seen.done) <= Len(made)
      /\ Decodable /\ Exact
      /\ ~client.gone /\ seen.at # "lost" => Decoding \/ AheadOf204
      /\ loop' = loop /\ client' = client /\ made' = made /\ served' = served
      /\ cur' = cur /\ broken' = broken
  BY <1>1, UnderWay
<1>3. ~AheadOf204 /\ n \in {"top", "copy"}
  BY <1>1 DEF AheadOf204
<1>4. ReplyInv'
  <2>1. pc' = n \/ pc' = "returned"
    BY <1>1 DEF Put, Goto, Return
  <2> QED
    BY <1>1, <1>2, <2>1 DEF ReplyInv, InReply
<1>5. ASSUME ~client.gone, seen.at # "lost", pc' = n, seen' = Decode(seen, "crlf")
      PROVE  Followed'
  <2>1. /\ Decoding /\ seen.at = "blank" /\ seen.code = m.status
        /\ Len(seen.done) = Len(made) - 1 /\ seen.got = 0
    BY <1>1, <1>2, <1>3, <1>5 DEF Decoding, PlaceFor, InReply
  <2>2. client.sent[Len(seen.done) + 1] = cur
    <3>1. Len(served) = Len(made)
      BY <1>1 DEF CountInv
    <3>2. served # <<>>
      BY <1>2, <3>1, Types, SeqFacts
    <3>3. cur.no = Len(served) /\ client.sent[cur.no] = cur
      BY <3>2 DEF ReadingInv, Placed, OfClient, Among
    <3>4. Len(seen.done) + 1 = Len(made)
      BY <1>2, <2>1
    <3> QED
      BY <3>1, <3>3, <3>4
  <2>3. Bodyless(seen) <=> m.status = "bodyless" \/ cur.kind = "HEAD"
    BY <2>1, <2>2 DEF Bodyless
  <2>4. /\ m.whole <=> (~broken \/ cur.kind = "HEAD")
        /\ m.status = "bodyless" => body = <<>> /\ ~broken
        /\ m.size = IF cur.kind = "HEAD" THEN 0 ELSE FullReads(body)
    BY <1>1 DEF ReplyInv
  <2>5. CASE cur.kind = "HEAD"
    <3>1. seen' = Complete(seen) /\ pc' = "top" /\ m.whole /\ m.size = 0
      BY <1>2, <1>5, <2>1, <2>3, <2>4, <2>5, DecodeFacts
    <3>2. /\ Exact' /\ Len(seen'.done) = Len(made)
          /\ seen'.at = "status" /\ seen'.got = 0
      BY <1>2, <2>1, <3>1, Completed
    <3>3. Decoding'
      BY <1>2, <3>1, <3>2 DEF Decoding, PlaceFor, InReply
    <3> QED
      BY <1>2, <3>2, <3>3 DEF Followed, Decodable
  <2>6. CASE cur.kind # "HEAD" /\ m.status = "bodyless"
    <3>1. seen' = Complete(seen) /\ pc' = "copy" /\ m.whole /\ m.size = 0
      BY <1>2, <1>5, <2>1, <2>3, <2>4, <2>6, DecodeFacts, FullReadsOfNone
    <3>2. /\ Exact' /\ Len(seen'.done) = Len(made)
          /\ seen'.at = "status" /\ seen'.got = 0
      BY <1>2, <2>1, <3>1, Completed
    <3>3. AheadOf204'
      BY <1>2, <2>6, <3>1, <3>2 DEF AheadOf204
    <3> QED
      BY <1>2, <3>2, <3>3 DEF Followed, Decodable
  <2>7. CASE cur.kind # "HEAD" /\ m.status # "bodyless"
    <3>1. /\ seen'.at = "size" /\ seen'.got = 0 /\ seen'.done = seen.done /\ pc' = "copy"
      BY <1>2, <1>5, <2>1, <2>3, <2>7, DecodeFacts
    <3>2. FullReads(body) \in Nat
      BY Types, FullReadsOfTail
    <3>3. seen'.got + FullReads(body') = m.size
      BY <1>1, <2>4, <2>7, <3>1, <3>2
    <3>4. Decoding'
      BY <1>2, <2>1, <2>7, <3>1, <3>3 DEF Decoding, PlaceFor, InReply
    <3> QED
      BY <1>2, <3>1, <3>4, InTheMiddle
  <2> QED
    BY <2>5, <2>6, <2>7
<1> HIDE DEF n, m
<1> QED
  BY <1>1, <1>4, <1>5, PutStep

(* io.Copy: reads that return nothing are not counted, and the end of the  *)
(* body is the end of the count.                                           *)
LEMMA CopyWriting ==
  ASSUME TypeOK, CountInv, ReplyInv, DecoderInv, Copy, loop = "tls"
  PROVE  CountInv' /\ ReplyInv' /\ DecoderInv'
<1> DEFINE m == made[Len(made)]
<1>1. /\ Writing /\ pc = "copy" /\ pc \in InReply /\ seen' = seen
      /\ \/ body = <<>> /\ broken /\ pc' = "returned"
         \/ body = <<>> /\ ~broken /\ pc' = "last" /\ body' = body
         \/ body # <<>> /\ ~Head(body) /\ body' = Tail(body) /\ pc' = "copy"
         \/ body # <<>> /\ Head(body) /\ body' = body /\ pc' = "size"
  BY DEF Copy, CopyEnds, SkipWrite, Return, Goto, InReply
<1>2. /\ made # <<>> /\ Len(made) \in Nat \ {0} /\ made[Len(made)] \in Replies
      /\ Len(made) \in DOMAIN made /\ seen \in Decoders /\ seen.got \in Nat
      /\ Len(seen.done) \in Nat /\ Len(seen.done) <= Len(made)
      /\ Decodable /\ Exact
      /\ ~client.gone /\ seen.at # "lost" => Decoding \/ AheadOf204
      /\ loop' = loop /\ client' = client /\ made' = made /\ served' = served
      /\ cur' = cur /\ broken' = broken
  BY <1>1, UnderWay
<1>3. /\ m.status = "bodyless" => body = <<>> /\ ~broken
      /\ m.whole <=> (~broken \/ cur.kind = "HEAD")
      /\ cur.kind # "HEAD"
  BY <1>1 DEF ReplyInv
<1>4. /\ FullReads(body) \in Nat
      /\ body = <<>> => FullReads(body) = 0
      /\ body # <<>> /\ ~Head(body) => FullReads(Tail(body)) = FullReads(body)
  BY Types, FullReadsOfTail, FullReadsOfNone
<1>5. CountInv'
  BY <1>1, <1>2 DEF CountInv, InReply
<1>6. ReplyInv'
  <2>1. CASE pc' = "returned"
    BY <2>1 DEF ReplyInv, InReply
  <2>2. CASE body = <<>> /\ ~broken /\ pc' = "last" /\ body' = body
    BY <1>2, <1>3, <2>2 DEF ReplyInv
  <2>3. CASE body # <<>> /\ ~Head(body) /\ body' = Tail(body) /\ pc' = "copy"
    BY <1>2, <1>3, <2>3 DEF ReplyInv
  <2>4. CASE body # <<>> /\ Head(body) /\ body' = body /\ pc' = "size"
    BY <1>2, <1>3, <2>4 DEF ReplyInv
  <2> QED
    BY <1>1, <2>1, <2>2, <2>3, <2>4
<1>7. ASSUME Decoding, pc' # "returned" PROVE Decoding'
  <2>1. /\ seen.at = "size" /\ Len(seen.done) = Len(made) - 1 /\ m.status # "bodyless"
        /\ seen.got + FullReads(body) = m.size
    BY <1>1, <1>7 DEF Decoding, PlaceFor, InReply
  <2>2. CASE pc' = "last" /\ body = <<>>
    <3>1. seen.got = m.size
      <4>1. FullReads(body) = 0 /\ seen.got \in Nat
        BY <1>2, <1>4, <2>2
      <4> HIDE DEF m
      <4> QED
        BY <2>1, <4>1
    <3> QED
      BY <1>1, <1>2, <2>1, <2>2, <3>1 DEF Decoding, PlaceFor, InReply
  <2>3. CASE pc' \in {"copy", "size"} /\ FullReads(body') = FullReads(body)
    BY <1>1, <1>2, <2>1, <2>3 DEF Decoding, PlaceFor, InReply
  <2> QED
    BY <1>1, <1>4, <1>7, <2>2, <2>3
<1>8. ASSUME AheadOf204, pc' # "returned" PROVE AheadOf204'
  <2>1. body = <<>> /\ ~broken
    BY <1>3, <1>8 DEF AheadOf204
  <2> QED
    BY <1>1, <1>2, <1>8, <2>1 DEF AheadOf204
<1>9. DecoderInv'
  BY <1>1, <1>2, <1>7, <1>8 DEF DecoderInv, Decodable, Exact, InReply
<1> QED
  BY <1>5, <1>6, <1>9

(* A chunk is written only for a read with data, so its size is not 0. *)
LEMMA SizeWriting ==
  ASSUME TypeOK, CountInv, ReplyInv, DecoderInv, WriteSize, loop = "tls"
  PROVE  CountInv' /\ ReplyInv' /\ DecoderInv'
<1> DEFINE m == made[Len(made)]
<1>1. /\ Writing /\ pc = "size" /\ pc \in InReply /\ Head(body)
      /\ Put("size", "data") /\ body' = body /\ "data" \in InReply \cup {"top"}
  BY DEF WriteSize, ReplyInv, InReply
<1>2. /\ made # <<>> /\ Len(made) \in Nat \ {0} /\ made[Len(made)] \in Replies
      /\ Len(made) \in DOMAIN made /\ seen \in Decoders /\ seen.got \in Nat
      /\ Len(seen.done) \in Nat /\ Len(seen.done) <= Len(made)
      /\ Decodable /\ Exact
      /\ ~client.gone /\ seen.at # "lost" => Decoding \/ AheadOf204
      /\ loop' = loop /\ client' = client /\ made' = made /\ served' = served
      /\ cur' = cur /\ broken' = broken
  BY <1>1, UnderWay
<1>3. ReplyInv'
  <2>1. pc' = "data" \/ pc' = "returned"
    BY <1>1 DEF Put, Goto, Return
  <2> QED
    BY <1>1, <1>2, <2>1 DEF ReplyInv, InReply
<1>4. ASSUME ~client.gone, seen.at # "lost", pc' = "data", seen' = Decode(seen, "size")
      PROVE  Followed'
  <2>1. /\ seen.at = "size" /\ Len(seen.done) = Len(made) - 1 /\ m.status # "bodyless"
        /\ seen.got + FullReads(body) = m.size
    BY <1>1, <1>2, <1>4 DEF Decoding, AheadOf204, PlaceFor, InReply
  <2>2. seen'.at = "data" /\ seen'.got = seen.got /\ seen'.done = seen.done
    BY <1>2, <1>4, <2>1, DecodeFacts
  <2>3. Decoding'
    BY <1>1, <1>2, <1>4, <2>1, <2>2 DEF Decoding, PlaceFor, InReply
  <2> QED
    BY <1>2, <2>2, <2>3, InTheMiddle
<1> QED
  BY <1>1, <1>3, <1>4, PutStep

(* The data are counted when they are written, *)
LEMMA DataWriting ==
  ASSUME TypeOK, CountInv, ReplyInv, DecoderInv, WriteData, loop = "tls"
  PROVE  CountInv' /\ ReplyInv' /\ DecoderInv'
<1> DEFINE m == made[Len(made)]
<1>1. /\ Writing /\ pc = "data" /\ pc \in InReply
      /\ Put("data", "chunk") /\ body' = body /\ "chunk" \in InReply \cup {"top"}
  BY DEF WriteData, InReply
<1>2. /\ made # <<>> /\ Len(made) \in Nat \ {0} /\ made[Len(made)] \in Replies
      /\ Len(made) \in DOMAIN made /\ seen \in Decoders /\ seen.got \in Nat
      /\ Len(seen.done) \in Nat /\ Len(seen.done) <= Len(made)
      /\ Decodable /\ Exact
      /\ ~client.gone /\ seen.at # "lost" => Decoding \/ AheadOf204
      /\ loop' = loop /\ client' = client /\ made' = made /\ served' = served
      /\ cur' = cur /\ broken' = broken
  BY <1>1, UnderWay
<1>3. ReplyInv'
  <2>1. pc' = "chunk" \/ pc' = "returned"
    BY <1>1 DEF Put, Goto, Return
  <2> QED
    BY <1>1, <1>2, <2>1 DEF ReplyInv, InReply
<1>4. ASSUME ~client.gone, seen.at # "lost", pc' = "chunk", seen' = Decode(seen, "data")
      PROVE  Followed'
  <2>1. /\ seen.at = "data" /\ Len(seen.done) = Len(made) - 1 /\ m.status # "bodyless"
        /\ seen.got + FullReads(body) = m.size
    BY <1>1, <1>2, <1>4 DEF Decoding, AheadOf204, PlaceFor, InReply
  <2>2. seen'.at = "crlf" /\ seen'.got = seen.got + 1 /\ seen'.done = seen.done
    BY <1>2, <1>4, <2>1, DecodeFacts
  <2>3. FullReads(body) \in Nat
    BY Types, FullReadsOfTail
  <2>4. seen'.got + FullReads(body') = m.size + 1
    BY <1>1, <1>2, <2>1, <2>2, <2>3
  <2>5. Decoding'
    BY <1>1, <1>2, <1>4, <2>1, <2>2, <2>4 DEF Decoding, PlaceFor, InReply
  <2> QED
    BY <1>2, <2>2, <2>5, InTheMiddle
<1> QED
  BY <1>1, <1>3, <1>4, PutStep

(* and the read they came from is done with when their line ends. *)
LEMMA ChunkEndWriting ==
  ASSUME TypeOK, CountInv, ReplyInv, DecoderInv, WriteChunkEnd, loop = "tls"
  PROVE  CountInv' /\ ReplyInv' /\ DecoderInv'
<1> DEFINE m == made[Len(made)]
<1>1. /\ Writing /\ pc = "chunk" /\ pc \in InReply /\ body # <<>> /\ Head(body)
      /\ Put("crlf", "copy") /\ body' = Tail(body) /\ "copy" \in InReply \cup {"top"}
  BY DEF WriteChunkEnd, ReplyInv, InReply
<1>2. /\ made # <<>> /\ Len(made) \in Nat \ {0} /\ made[Len(made)] \in Replies
      /\ Len(made) \in DOMAIN made /\ seen \in Decoders /\ seen.got \in Nat
      /\ Len(seen.done) \in Nat /\ Len(seen.done) <= Len(made)
      /\ Decodable /\ Exact
      /\ ~client.gone /\ seen.at # "lost" => Decoding \/ AheadOf204
      /\ loop' = loop /\ client' = client /\ made' = made /\ served' = served
      /\ cur' = cur /\ broken' = broken
  BY <1>1, UnderWay
<1>3. ReplyInv'
  <2>1. pc' = "copy" \/ pc' = "returned"
    BY <1>1 DEF Put, Goto, Return
  <2> QED
    BY <1>1, <1>2, <2>1 DEF ReplyInv, InReply
<1>4. ASSUME ~client.gone, seen.at # "lost", pc' = "copy", seen' = Decode(seen, "crlf")
      PROVE  Followed'
  <2>1. /\ seen.at = "crlf" /\ Len(seen.done) = Len(made) - 1 /\ m.status # "bodyless"
        /\ seen.got + FullReads(body) = m.size + 1
    BY <1>1, <1>2, <1>4 DEF Decoding, AheadOf204, PlaceFor, InReply
  <2>2. seen'.at = "size" /\ seen'.got = seen.got /\ seen'.done = seen.done
    BY <1>2, <1>4, <2>1, DecodeFacts
  <2>3. FullReads(body) = FullReads(Tail(body)) + 1 /\ FullReads(Tail(body)) \in Nat
    <3>1. Tail(body) \in Seq(BOOLEAN)
      BY <1>1, Types, TailFacts
    <3> QED
      BY <1>1, <3>1, Types, FullReadsOfTail
  <2>4. seen'.got + FullReads(body') = m.size
    <3>1. m.size \in Nat
      BY <1>2 DEF Replies
    <3>2. PICK f \in Nat : f = FullReads(Tail(body))
      BY <2>3
    <3>3. seen.got + (f + 1) = m.size + 1 /\ seen.got \in Nat
      BY <1>2, <2>1, <2>3, <3>2
    <3> HIDE DEF m
    <3>4. seen.got + f = m.size
      BY <3>1, <3>3
    <3> QED
      BY <1>1, <2>2, <3>2, <3>4
  <2>5. Decoding'
    BY <1>1, <1>2, <1>4, <2>1, <2>2, <2>4 DEF Decoding, PlaceFor, InReply
  <2> QED
    BY <1>2, <2>2, <2>5, InTheMiddle
<1> QED
  BY <1>1, <1>3, <1>4, PutStep

(* The last chunk ends the body, or loses a client that expects none. *)
LEMMA LastWriting ==
  ASSUME TypeOK, CountInv, ReplyInv, DecoderInv, WriteLast, loop = "tls"
  PROVE  CountInv' /\ ReplyInv' /\ DecoderInv'
<1> DEFINE m == made[Len(made)]
<1>1. /\ Writing /\ pc = "last" /\ pc \in InReply
      /\ Put("0", "trailer") /\ body' = body /\ "trailer" \in InReply \cup {"top"}
  BY DEF WriteLast, InReply
<1>2. /\ made # <<>> /\ Len(made) \in Nat \ {0} /\ made[Len(made)] \in Replies
      /\ Len(made) \in DOMAIN made /\ seen \in Decoders /\ seen.got \in Nat
      /\ Len(seen.done) \in Nat /\ Len(seen.done) <= Len(made)
      /\ Decodable /\ Exact
      /\ ~client.gone /\ seen.at # "lost" => Decoding \/ AheadOf204
      /\ loop' = loop /\ client' = client /\ made' = made /\ served' = served
      /\ cur' = cur /\ broken' = broken
  BY <1>1, UnderWay
<1>3. ReplyInv'
  <2>1. pc' = "trailer" \/ pc' = "returned"
    BY <1>1 DEF Put, Goto, Return
  <2> QED
    BY <1>1, <1>2, <2>1 DEF ReplyInv, InReply
<1>4. ASSUME ~client.gone, seen.at # "lost", pc' = "trailer", seen' = Decode(seen, "0")
      PROVE  Followed'
  <2>1. CASE Decoding
    <3>1. /\ seen.at = "size" /\ Len(seen.done) = Len(made) - 1 /\ m.status # "bodyless"
          /\ seen.got = m.size
      BY <1>1, <2>1 DEF Decoding, PlaceFor, InReply
    <3>2. seen'.at = "end" /\ seen'.got = seen.got /\ seen'.done = seen.done
      BY <1>2, <1>4, <3>1, DecodeFacts
    <3>3. Decoding'
      BY <1>1, <1>2, <1>4, <3>1, <3>2 DEF Decoding, PlaceFor, InReply
    <3> QED
      BY <1>2, <3>2, <3>3, InTheMiddle
  <2>2. CASE AheadOf204
    <3>1. seen.at = "status" /\ m.status = "bodyless"
      BY <2>2 DEF AheadOf204
    <3>2. seen'.at = "lost" /\ seen'.done = seen.done
      BY <1>2, <1>4, <3>1, DecodeFacts
    <3> QED
      BY <1>2, <3>1, <3>2 DEF Followed, Decodable, Exact
  <2> QED
    BY <1>2, <1>4, <2>1, <2>2
<1> QED
  BY <1>1, <1>3, <1>4, PutStep

(* The trailer completes a reply, of which the client then has all. *)
LEMMA TrailerWriting ==
  ASSUME TypeOK, CountInv, ReplyInv, DecoderInv, WriteTrailer, loop = "tls"
  PROVE  CountInv' /\ ReplyInv' /\ DecoderInv'
<1> DEFINE m == made[Len(made)]
<1>1. /\ Writing /\ pc = "trailer" /\ pc \in InReply
      /\ Put("crlf", "top") /\ body' = body /\ "top" \in InReply \cup {"top"}
  BY DEF WriteTrailer, InReply
<1>2. /\ made # <<>> /\ Len(made) \in Nat \ {0} /\ made[Len(made)] \in Replies
      /\ Len(made) \in DOMAIN made /\ seen \in Decoders /\ seen.got \in Nat
      /\ Len(seen.done) \in Nat /\ Len(seen.done) <= Len(made)
      /\ Decodable /\ Exact
      /\ ~client.gone /\ seen.at # "lost" => Decoding \/ AheadOf204
      /\ loop' = loop /\ client' = client /\ made' = made /\ served' = served
      /\ cur' = cur /\ broken' = broken
  BY <1>1, UnderWay
<1>3. ReplyInv'
  <2>1. pc' = "top" \/ pc' = "returned"
    BY <1>1 DEF Put, Goto, Return
  <2> QED
    BY <1>1, <1>2, <2>1 DEF ReplyInv, InReply
<1>4. ASSUME ~client.gone, seen.at # "lost", pc' = "top", seen' = Decode(seen, "crlf")
      PROVE  Followed'
  <2>1. /\ seen.at = "end" /\ Len(seen.done) = Len(made) - 1 /\ seen.got = m.size
    BY <1>1, <1>2, <1>4 DEF Decoding, AheadOf204, PlaceFor, InReply
  <2>2. seen' = Complete(seen)
    BY <1>2, <1>4, <2>1, DecodeFacts
  <2>3. m.whole
    BY <1>1 DEF ReplyInv
  <2>4. /\ Exact' /\ Len(seen'.done) = Len(made)
        /\ seen'.at = "status" /\ seen'.got = 0
    BY <1>2, <2>1, <2>2, <2>3, Completed
  <2>5. Decoding'
    BY <1>2, <1>4, <2>4 DEF Decoding, PlaceFor, InReply
  <2> QED
    BY <1>2, <2>4, <2>5 DEF Followed, Decodable
<1> QED
  BY <1>1, <1>3, <1>4, PutStep

(* The loop on its way from one reply to the next. *)
LEMMA ReadWriting ==
  ASSUME TypeOK, CountInv, ReplyInv, DecoderInv,
         Fill \/ NextReader \/ ReadRequest \/ FilterRequest \/ RoundTrip
  PROVE  CountInv' /\ ReplyInv' /\ DecoderInv'
<1>1. CASE (FilterRequest \/ RoundTrip) /\ Answer
  <2>1. /\ UNCHANGED <<loop, client, seen, served, cur>> /\ pc \in {"filter", "body"}
    BY <1>1 DEF FilterRequest, RoundTrip
  <2> QED
    BY <1>1, <2>1, ReplyBegins
<1>5. CASE RoundTrip /\ loop = "http" /\ OwnReply
  <2>1. pc' = "text" /\ loop' = "http"
    BY <1>5 DEF RoundTrip, OwnReply, Goto
  <2> QED
    BY <2>1 DEF CountInv, ReplyInv, DecoderInv, InReply
<1>2. CASE (FilterRequest \/ RoundTrip) /\ ~Answer
             /\ ~(RoundTrip /\ loop = "http" /\ OwnReply)
  <2>1. /\ UNCHANGED <<loop, client, seen, served, made>> /\ pc \in {"filter", "body"}
        /\ pc' \in {"body", "returned"}
    BY <1>2 DEF FilterRequest, RoundTrip, NoAnswer, Goto, Return
  <2>2. CountInv'
    BY <2>1 DEF CountInv, InReply
  <2> QED
    BY <2>1, <2>2, BetweenReplies
<1>3. CASE Fill \/ NextReader
  <2>1. /\ UNCHANGED <<loop, client, seen, served, made>>
        /\ \/ pc' = pc /\ pc \in {"top", "read", "body"}
           \/ pc = "top" /\ pc' \in {"read", "returned"}
    BY <1>3 DEF Fill, NextReader, Goto, Return
  <2>2. CountInv'
    BY <2>1 DEF CountInv, InReply
  <2> QED
    BY <2>1, <2>2, BetweenReplies
<1>4. CASE ReadRequest
  <2>1. /\ UNCHANGED <<loop, client, seen, made>> /\ pc = "read"
        /\ \/ pc' = "filter" /\ buf # <<>> /\ served' = Append(served, Head(buf).req.no)
           \/ pc' = "returned"
    BY <1>4 DEF ReadRequest, Goto, Return
  <2>2. ASSUME pc' = "filter" PROVE Len(served') = Len(served) + 1
    <3>1. Head(buf).req.no \in 1..MaxReqs
      <4>1. Head(buf) \in Tokens
        BY <2>1, <2>2, Types, TailFacts
      <4> QED
        BY <4>1 DEF Tokens, Requests
    <3> QED
      BY <2>1, <2>2, <3>1, Types, AppendFacts
  <2>3. CountInv'
    BY <2>1, <2>2 DEF CountInv, InReply
  <2> QED
    BY <2>1, <2>3, BetweenReplies
<1> QED
  BY <1>1, <1>2, <1>3, <1>4, <1>5

(* resp.Write of the HTTP loop. *)
LEMMA HTTPWriting ==
  ASSUME TypeOK, CountInv, ReplyInv, DecoderInv, ReplyHTTP
  PROVE  CountInv' /\ ReplyInv' /\ DecoderInv'
<1>1. loop = "http" /\ pc' \in {"top", "text"} /\ loop' = loop
  BY DEF ReplyHTTP, Goto, Writing
<1> QED
  BY <1>1 DEF CountInv, ReplyInv, DecoderInv, InReply

(* httpError, which only the HTTP loop calls. *)
LEMMA ErrorWriting ==
  ASSUME TypeOK, CountInv, ReplyInv, DecoderInv, HttpError
  PROVE  CountInv' /\ ReplyInv' /\ DecoderInv'
<1>1. loop \in {"tls", "http"}
  BY Types, MitmLoopAssumption
<1>2. loop = "http" /\ pc' = "returned" /\ loop' = loop
  BY <1>1 DEF HttpError, Return, Goto, Writing, CountInv
<1> QED
  BY <1>2 DEF CountInv, ReplyInv, DecoderInv, InReply

-----------------------------------------------------------------------------
(* The replies of the HTTP loop. *)

(* A client in step sends only once it has its last reply. *)
LEMMA ClientPlain ==
  ASSUME TypeOK, PlainInv, ClientStep, InStep' => InStep
  PROVE  PlainInv'
<1>1. /\ loop' = loop /\ pc' = pc /\ seen' = seen /\ served' = served /\ made' = made
  BY DEF ClientStep, ClientSends, ClientSendsBody, ClientFinishes, ClientVanishes
<1>2. client \in Clients /\ client.gone \in BOOLEAN /\ client.sent \in Seq(Requests)
      /\ slips \in Slips /\ slips.early \in BOOLEAN
  BY Types, Zenon DEF Clients, Slips
<1>3. /\ Len(client.sent) \in Nat /\ Len(seen.done) \in Nat
  BY <1>2, Types, SeqFacts DEF Decoders
<1>4. (client.gone => client'.gone) /\ (~ClientSends => client'.sent = client.sent)
  <2>1. CASE ClientSends
    BY <1>2, <2>1, Zenon DEF ClientSends, Clients
  <2>2. CASE ClientSendsBody
    BY <1>2, <2>2, Zenon DEF ClientSendsBody, Clients
  <2>3. CASE ClientFinishes
    BY <1>2, <2>3, Zenon DEF ClientFinishes, Clients
  <2>4. CASE ClientVanishes
    BY <1>2, <2>4, Zenon DEF ClientVanishes, Clients
  <2> QED
    BY <2>1, <2>2, <2>3, <2>4 DEF ClientStep
<1>5. ASSUME ClientSends, loop = "http", InStep'
      PROVE  Len(client'.sent) <= Len(seen.done) + 1
  <2>1. PICK k \in Kinds :
          client'.sent = Append(client.sent, [no |-> Len(client.sent) + 1, kind |-> k])
    BY <1>2, <1>5, Zenon DEF ClientSends, Clients
  <2>2. Len(client'.sent) = Len(client.sent) + 1
    BY <1>2, <2>1, AppendProperties
  <2>3. slips'.early <=> slips.early \/ Len(seen.done) < Len(client.sent)
    BY <1>2, <1>5, Zenon DEF ClientSends, Slips
  <2>4. ~slips'.early
    BY <1>1, <1>5 DEF InStep
  <2> QED
    BY <1>3, <2>2, <2>3, <2>4
<1>6. ASSUME loop = "http", InStep' PROVE PlainTurn'
  BY <1>1, <1>4, <1>5, <1>6 DEF PlainInv, PlainTurn
<1>7. ASSUME loop = "http", InStep' PROVE PlainReplies'
  BY <1>1, <1>4, <1>7 DEF PlainInv, PlainReplies
<1> QED
  BY <1>1, <1>6, <1>7 DEF PlainInv, PlainCount

(* On its way to the next reply the loop owes one for the request it has   *)
(* read, and one only.                                                     *)
LEMMA QuietPlain ==
  ASSUME TypeOK, PlainInv, UNCHANGED <<loop, client, seen, made>>, InStep' => InStep,
         pc \in {"top", "read", "filter", "body"},
         pc' \in {"top", "read", "filter", "body", "returned"},
         loop = "http" /\ InStep =>
           /\ Len(made) <= Len(served')
           /\ pc' \in {"filter", "body"} => Len(made) < Len(served')
  PROVE  PlainInv'
<1>1. loop' = loop /\ client' = client /\ seen' = seen /\ made' = made
  OBVIOUS
<1>2. ASSUME loop = "http", InStep' PROVE PlainTurn' /\ PlainReplies'
  BY <1>1, <1>2 DEF PlainInv, PlainTurn, PlainReplies
<1> QED
  BY <1>1, <1>2 DEF PlainInv, PlainCount

(* A reply is made, by a handler, the origin or httpError. *)
LEMMA MadePlain ==
  ASSUME TypeOK, ReadingInv, PlainInv, InStep' => InStep, NEW m \in Replies,
         made' = Append(made, m), UNCHANGED <<loop, client, seen, served>>,
         pc \in {"filter", "body"},
         pc' = "status" \/ (pc' = "text" /\ m.whole /\ m.size = 0)
  PROVE  PlainInv'
<1>1. loop' = loop /\ client' = client /\ seen' = seen /\ served' = served
  OBVIOUS
<1>2. made \in Seq(Replies) /\ seen.done \in Seq(Nat)
  BY Types DEF Decoders
<1>3. PICK l \in Nat : l = Len(made)
  BY <1>2, SeqFacts
<1>4. PICK d \in Nat : d = Len(seen.done) /\ DOMAIN seen.done = 1..d
  BY <1>2, SeqFacts
<1>5. /\ Len(made') = l + 1 /\ made'[l + 1] = m /\ DOMAIN made = 1..l
      /\ DOMAIN made' = 1..(l + 1)
      /\ \A i \in 1..l : made'[i] = made[i]
  BY <1>2, <1>3, AppendFacts
<1>6. ASSUME loop = "http" PROVE PlainCount'
  <2>1. d <= l
    BY <1>3, <1>4, <1>6 DEF PlainInv, PlainCount
  <2> QED
    BY <1>1, <1>4, <1>5, <2>1 DEF PlainCount
<1>7. ASSUME loop = "http", InStep' PROVE PlainTurn' /\ PlainReplies'
  <2>1. InStep /\ PlainTurn /\ PlainReplies
    BY <1>7 DEF PlainInv
  <2>2. /\ Len(served) \in Nat /\ Len(client.sent) \in Nat
        /\ d <= l /\ Len(served) <= Len(client.sent) /\ Len(client.sent) <= d + 1
        /\ l < Len(served)
    BY <1>3, <1>4, <1>7, <2>1, PlainFacts DEF PlainTurn
  <2>3. d = l /\ Len(served) = l + 1
    BY <2>2
  <2>4. seen.at = "status" /\ seen.got = 0
    BY <1>3, <1>4, <2>1, <2>3 DEF PlainTurn
  <2>5. PlainTurn'
    BY <1>1, <1>5, <2>1, <2>3, <2>4 DEF PlainTurn
  <2>6. \A i \in 1..l : made'[i].whole
    BY <1>5, <2>1 DEF PlainReplies
  <2>7. \A i \in DOMAIN made' : made'[i].whole \/ i = Len(made')
    BY <1>5, <2>6
  <2>8. \A i \in DOMAIN seen'.done : made'[i].whole /\ seen'.done[i] = made'[i].size
    <3> SUFFICES ASSUME NEW i \in 1..l
                 PROVE  made'[i].whole /\ seen.done[i] = made'[i].size
      BY <1>1, <1>4, <2>3
    <3>1. made[i].whole /\ made'[i] = made[i]
      BY <1>5, <2>1 DEF PlainReplies
    <3>2. \/ made[i].whole /\ seen.done[i] = made[i].size
          \/ ~made[i].whole
      BY <1>4, <2>1, <2>3 DEF PlainReplies
    <3> QED
      BY <3>1, <3>2
  <2>9. /\ pc' \notin {"top", "read", "filter", "body"}
        /\ pc' = "text" => m.size = 0
    OBVIOUS
  <2>10. PlainReplies'
    BY <1>1, <1>5, <2>4, <2>7, <2>8, <2>9 DEF PlainReplies
  <2> QED
    BY <2>5, <2>10
<1> QED
  BY <1>1, <1>6, <1>7 DEF PlainInv

(* The loop reads a request and has it answered. *)
LEMMA ReadPlain ==
  ASSUME TypeOK, ReadingInv, PlainInv, InStep' => InStep,
         Fill \/ NextReader \/ ReadRequest \/ FilterRequest \/ RoundTrip
  PROVE  PlainInv'
<1>1. CASE (FilterRequest \/ RoundTrip) /\ Answer
  <2>1. /\ UNCHANGED <<loop, client, seen, served>> /\ pc \in {"filter", "body"}
    BY <1>1 DEF FilterRequest, RoundTrip
  <2>2. pc' = "status" /\ \E m \in Replies : made' = Append(made, m)
    BY <1>1, AnswerFacts
  <2> QED
    BY <2>1, <2>2, MadePlain
<1>2. CASE RoundTrip /\ OwnReply
  <2>1. /\ UNCHANGED <<loop, client, seen, served>> /\ pc \in {"filter", "body"}
    BY <1>2 DEF RoundTrip
  <2>2. pc' = "text" /\ \E m \in Replies : made' = Append(made, m) /\ m.whole /\ m.size = 0
    BY <1>2, OwnReplyFacts
  <2> QED
    BY <2>1, <2>2, MadePlain
<1>3. CASE (FilterRequest \/ RoundTrip) /\ ~Answer /\ ~(RoundTrip /\ OwnReply)
  <2>1. /\ UNCHANGED <<loop, client, seen, served, made>> /\ pc \in {"filter", "body"}
        /\ pc' \in {"body", "returned"}
    BY <1>3 DEF FilterRequest, RoundTrip, NoAnswer, Goto, Return
  <2>2. loop = "http" /\ InStep => Len(made) < Len(served) /\ Len(made) <= Len(served)
    BY <2>1 DEF PlainInv, PlainTurn
  <2> QED
    BY <2>1, <2>2, QuietPlain
<1>4. CASE Fill \/ NextReader
  <2>1. /\ UNCHANGED <<loop, client, seen, served, made>>
        /\ \/ pc' = pc /\ pc \in {"top", "read", "body"}
           \/ pc = "top" /\ pc' \in {"read", "returned"}
    BY <1>4 DEF Fill, NextReader, Goto, Return
  <2>2. loop = "http" /\ InStep =>
          /\ Len(made) <= Len(served)
          /\ pc = "body" => Len(made) < Len(served)
    BY DEF PlainInv, PlainTurn
  <2> QED
    BY <2>1, <2>2, QuietPlain
<1>5. CASE ReadRequest
  <2>1. /\ UNCHANGED <<loop, client, seen, made>> /\ pc = "read"
        /\ \/ pc' = "filter" /\ buf # <<>> /\ served' = Append(served, Head(buf).req.no)
           \/ pc' = "returned" /\ served' = served
    BY <1>5 DEF ReadRequest, Goto, Return
  <2>2. loop = "http" /\ InStep => Len(made) <= Len(served) /\ Len(made) \in Nat
    BY PlainFacts
  <2>3. ASSUME pc' = "filter" PROVE Len(served') = Len(served) + 1 /\ Len(served) \in Nat
    <3>1. Head(buf).req.no \in 1..MaxReqs
      <4>1. Head(buf) \in Tokens
        BY <2>1, <2>3, Types, TailFacts
      <4> QED
        BY <4>1 DEF Tokens, Requests
    <3> QED
      BY <2>1, <2>3, <3>1, Types, AppendFacts
  <2>4. loop = "http" /\ InStep =>
          /\ Len(made) <= Len(served')
          /\ pc' \in {"filter", "body"} => Len(made) < Len(served')
    BY <2>1, <2>2, <2>3
  <2> QED
    BY <2>1, <2>4, QuietPlain
<1> QED
  BY <1>1, <1>2, <1>3, <1>4, <1>5

(* Between a reply and the next one there is no room for a second. *)
LEMMA Squeezed ==
  ASSUME NEW d \in Nat, NEW m \in Nat, NEW v \in Nat, NEW s \in Nat,
         d < m, m <= v, v <= s, s <= d + 1
  PROVE  d + 1 = m /\ v = m
OBVIOUS

(* A reply that completes is the one that was missing. *)
LEMMA CompletedPlain ==
  ASSUME TypeOK, NEW d \in Decoders, seen' = Complete(d), d.done = seen.done,
         made' = made, Len(seen.done) < Len(made)
  PROVE  /\ Len(seen'.done) = Len(seen.done) + 1 /\ Len(seen'.done) <= Len(made)
         /\ DOMAIN seen'.done = 1..(Len(seen.done) + 1)
         /\ \A i \in DOMAIN seen.done : seen'.done[i] = seen.done[i]
         /\ seen'.done[Len(seen.done) + 1] = d.got
         /\ seen'.at = "status" /\ seen'.got = 0
         /\ Len(seen.done) \in Nat /\ Len(made) \in Nat
         /\ DOMAIN seen.done = 1..Len(seen.done)
<1>1. /\ seen'.at = "status" /\ seen'.got = 0 /\ seen'.done = Append(seen.done, d.got)
  BY CompleteFacts
<1>2. seen.done \in Seq(Nat) /\ d.got \in Nat /\ made \in Seq(Replies)
  BY Types DEF Decoders
<1>3. /\ Len(seen'.done) = Len(seen.done) + 1
      /\ DOMAIN seen'.done = 1..(Len(seen.done) + 1)
      /\ DOMAIN seen.done = 1..Len(seen.done)
      /\ \A i \in 1..Len(seen.done) : seen'.done[i] = seen.done[i]
      /\ seen'.done[Len(seen.done) + 1] = d.got
      /\ Len(seen.done) \in Nat /\ Len(made) \in Nat
  BY <1>1, <1>2, AppendFacts, SeqFacts
<1> QED
  BY <1>1, <1>3

(* What a client that is there makes of the write. *)
LEMMA ReceivedCases ==
  ASSUME NEW d \in Decoders, NEW f \in Framings, NEW m \in Replies,
         m.status = "bodyless" \/ cur.kind = "HEAD" => m.whole
  PROVE  \/ m.whole /\ \E e \in Decoders : /\ Received(d, f, m) = Complete(e)
                                           /\ e.done = d.done /\ e.got = m.size
         \/ Received(d, f, m).done = d.done /\ Received(d, f, m).at # "lost"
         \/ Received(d, f, m).done = d.done /\ d.at # "status"
         \/ /\ Received(d, f, m).done = d.done
            /\ ~(  (m.status = "bodyless" \/ cur.kind = "HEAD")
                 = (m.status = "bodyless" \/ client.sent[Len(d.done) + 1].kind = "HEAD"))
<1> DEFINE e == [d EXCEPT !.code = m.status, !.got = m.size]
           bare == m.status = "bodyless" \/ cur.kind = "HEAD"
<1>1. e \in Decoders /\ e.done = d.done /\ e.got = m.size /\ e.code = m.status
  BY DEF Decoders, Replies
<1>2. [e EXCEPT !.at = f].done = d.done /\ [e EXCEPT !.at = f].at # "lost"
  BY <1>1 DEF Decoders, Framings
<1>3. [d EXCEPT !.at = "lost"].done = d.done
  BY DEF Decoders
<1>4. Bodyless(e) = (m.status = "bodyless" \/ client.sent[Len(d.done) + 1].kind = "HEAD")
  BY <1>1 DEF Bodyless
<1>5. Received(d, f, m) = CASE d.at = "status" /\ bare = Bodyless(e) ->
                                 IF bare \/ (m.whole /\ f # "rest") THEN Complete(e)
                                 ELSE [e EXCEPT !.at = f]
                            [] d.at = "rest" -> d
                            [] OTHER -> [d EXCEPT !.at = "lost"]
  BY DEF Received
<1>6. bare => m.whole
  OBVIOUS
<1> HIDE DEF e
<1>7. CASE d.at = "status" /\ bare = Bodyless(e) /\ (bare \/ (m.whole /\ f # "rest"))
  <2>1. Received(d, f, m) = Complete(e)
    BY <1>5, <1>7
  <2> QED
    BY <1>1, <1>6, <1>7, <2>1
<1>8. CASE d.at = "status" /\ bare = Bodyless(e) /\ ~(bare \/ (m.whole /\ f # "rest"))
  <2>1. Received(d, f, m) = [e EXCEPT !.at = f]
    BY <1>5, <1>8
  <2> QED
    BY <1>2, <2>1
<1>9. CASE d.at # "status"
  BY <1>3, <1>5, <1>9
<1>10. CASE d.at = "status" /\ ~(bare = Bodyless(e))
  <2>1. Received(d, f, m) = [d EXCEPT !.at = "lost"]
    BY <1>5, <1>10
  <2> QED
    BY <1>3, <1>4, <1>10, <2>1
<1> QED
  BY <1>7, <1>8, <1>9, <1>10

(* resp.Write completes the missing reply or leaves it open. *)
LEMMA HTTPPlain ==
  ASSUME TypeOK, RequestsInv, ReadingInv, ReplyInv, PlainInv, ReplyHTTP
  PROVE  PlainInv'
<1> DEFINE m == made[Len(made)]
<1>1. /\ loop = "http" /\ pc = "status" /\ loop' = loop /\ made' = made
      /\ served' = served /\ client' = client /\ slips' = slips
  BY DEF ReplyHTTP, Writing
<1>2. /\ made \in Seq(Replies) /\ seen \in Decoders /\ Len(seen.done) < Len(made)
      /\ seen.done \in Seq(Nat)
  BY <1>1, Types DEF PlainInv, PlainCount, Decoders
<1>3. /\ Len(made) \in Nat \ {0} /\ DOMAIN made = 1..Len(made) /\ Len(made) \in DOMAIN made
      /\ Len(seen.done) \in Nat /\ DOMAIN seen.done = 1..Len(seen.done) /\ m \in Replies
  <2>1. Len(made) \in Nat /\ Len(seen.done) \in Nat /\ DOMAIN made = 1..Len(made)
        /\ DOMAIN seen.done = 1..Len(seen.done)
    BY <1>2, SeqFacts
  <2>2. Len(made) \in 1..Len(made)
    BY <1>2, <2>1
  <2> QED
    BY <1>2, <2>1, <2>2, SeqFacts
<1>4. /\ m.whole <=> (~broken \/ cur.kind = "HEAD")
      /\ m.status = "bodyless" => ~broken
      /\ m.size = IF cur.kind = "HEAD" THEN 0 ELSE FullReads(body)
  BY <1>1 DEF ReplyInv, InReply
<1>5. \/ /\ seen' = seen
         /\ \/ pc' = "text" /\ broken /\ FullReads(body) = 0
            \/ pc' = "text" /\ client.gone
            \/ pc' = "top" /\ m.whole
      \/ /\ \E f \in Framings : seen' = Received(seen, f, m)
         /\ pc' = IF m.whole THEN "top" ELSE "text"
  BY DEF ReplyHTTP, Goto
<1> DEFINE Completes == /\ m.whole /\ pc' = "top"
                        /\ \E e \in Decoders : /\ seen' = Complete(e)
                                               /\ e.done = seen.done /\ e.got = m.size
<1>6. \/ Completes
      \/ /\ seen'.done = seen.done
         /\ pc' = "top" => m.whole
         /\ pc' \in {"top", "text"}
         /\ pc' = "text" /\ m.whole => seen' = seen /\ (client.gone \/ m.size = 0)
         /\ \/ seen'.at # "lost"
            \/ seen' = seen
            \/ seen.at # "status"
            \/ ~(  (m.status = "bodyless" \/ cur.kind = "HEAD")
                 = (m.status = "bodyless" \/ client.sent[Len(seen.done) + 1].kind = "HEAD"))
  <2>1. m.status = "bodyless" \/ cur.kind = "HEAD" => m.whole
    BY <1>4
  <2>2. CASE seen' = seen
    BY <1>4, <1>5, <2>2
  <2>3. ASSUME NEW f \in Framings, seen' = Received(seen, f, m),
               pc' = IF m.whole THEN "top" ELSE "text"
        PROVE  \/ Completes
               \/ /\ seen'.done = seen.done
                  /\ \/ seen'.at # "lost"
                     \/ seen.at # "status"
                     \/ ~(  (m.status = "bodyless" \/ cur.kind = "HEAD")
                          = (m.status = "bodyless"
                               \/ client.sent[Len(seen.done) + 1].kind = "HEAD"))
    <3> HIDE DEF m
    <3> QED
      BY <1>2, <1>3, <2>1, <2>3, ReceivedCases
  <2> HIDE DEF m, Completes
  <2> QED
    BY <1>5, <2>2, <2>3
<1> HIDE DEF m
<1>7. CASE Completes
  <2>1. PICK e \in Decoders : seen' = Complete(e) /\ e.done = seen.done /\ e.got = m.size
    BY <1>7
  <2>2. m.whole /\ pc' = "top"
    BY <1>7
  <2>3. /\ Len(seen'.done) = Len(seen.done) + 1 /\ Len(seen'.done) <= Len(made)
        /\ DOMAIN seen'.done = 1..(Len(seen.done) + 1)
        /\ \A i \in DOMAIN seen.done : seen'.done[i] = seen.done[i]
        /\ seen'.done[Len(seen.done) + 1] = m.size
        /\ seen'.at = "status" /\ seen'.got = 0
    BY <1>1, <1>2, <2>1, CompletedPlain
  <2>4. PlainCount'
    BY <1>1, <2>2, <2>3 DEF PlainCount
  <2>5. ASSUME InStep PROVE PlainTurn' /\ PlainReplies'
    <3>1. PlainTurn /\ PlainReplies
      BY <1>1, <2>5 DEF PlainInv
    <3>2. PlainTurn'
      BY <1>1, <1>3, <2>2, <2>3, <3>1 DEF PlainTurn
    <3>3. Len(seen.done) + 1 = Len(made)
      <4>1. /\ Len(served) \in Nat /\ Len(client.sent) \in Nat
            /\ Len(made) <= Len(served) /\ Len(served) <= Len(client.sent)
            /\ Len(client.sent) <= Len(seen.done) + 1
        BY <1>1, <2>5, PlainFacts
      <4> QED
        BY <1>2, <1>3, <4>1, Squeezed
    <3>4. \A i \in DOMAIN made : made[i].whole
      BY <2>2, <3>1 DEF PlainReplies, m
    <3>5. \A i \in DOMAIN seen'.done : made[i].whole /\ seen'.done[i] = made[i].size
      <4> SUFFICES ASSUME NEW i \in 1..(Len(seen.done) + 1)
                   PROVE  made[i].whole /\ seen'.done[i] = made[i].size
        BY <2>3
      <4>1. i \in DOMAIN made
        BY <1>3, <3>3
      <4>2. CASE i = Len(seen.done) + 1
        BY <2>3, <3>3, <3>4, <4>1, <4>2 DEF m
      <4>3. CASE i # Len(seen.done) + 1
        <5>1. i \in DOMAIN seen.done
          BY <1>3, <4>3
        <5> QED
          BY <2>3, <3>1, <3>4, <4>1, <5>1 DEF PlainReplies
      <4> QED
        BY <4>2, <4>3
    <3>6. PlainReplies'
      BY <1>1, <2>2, <2>3, <3>4, <3>5 DEF PlainReplies
    <3> QED
      BY <3>2, <3>6
  <2> QED
    BY <1>1, <2>4, <2>5 DEF PlainInv, InStep
<1>8. CASE ~Completes
  <2>1. /\ seen'.done = seen.done
        /\ pc' = "top" => m.whole
        /\ pc' \in {"top", "text"}
        /\ pc' = "text" /\ m.whole => seen' = seen /\ (client.gone \/ m.size = 0)
        /\ \/ seen'.at # "lost"
           \/ seen' = seen
           \/ seen.at # "status"
           \/ ~(  (m.status = "bodyless" \/ cur.kind = "HEAD")
                = (m.status = "bodyless" \/ client.sent[Len(seen.done) + 1].kind = "HEAD"))
    BY <1>6, <1>8
  <2>2. PlainCount'
    BY <1>1, <1>2, <1>3, <2>1 DEF PlainCount
  <2>3. ASSUME InStep PROVE PlainTurn' /\ PlainReplies'
    <3>1. PlainTurn /\ PlainReplies /\ seen.at = "status" /\ seen.got = 0
      BY <1>1, <2>3 DEF PlainInv, PlainTurn
    <3>2. PlainTurn'
      BY <1>1, <1>2, <1>3, <2>1, <3>1 DEF PlainTurn
    <3>3. client.sent[Len(seen.done) + 1] = cur
      <4>1. /\ Len(served) \in Nat /\ Len(client.sent) \in Nat
            /\ Len(made) <= Len(served) /\ Len(served) <= Len(client.sent)
            /\ Len(client.sent) <= Len(seen.done) + 1 /\ (served # <<>> <=> Len(served) # 0)
        BY <1>1, <2>3, PlainFacts, Types, SeqFacts
      <4>2. Len(served) = Len(seen.done) + 1 /\ served # <<>>
        BY <1>2, <1>3, <4>1
      <4>3. cur.no = Len(served) /\ client.sent[cur.no] = cur
        BY <2>3, <4>2 DEF ReadingInv, Placed, OfClient, Among
      <4> QED
        BY <4>2, <4>3
    <3>4. seen'.at # "lost"
      BY <2>1, <3>1, <3>3
    <3>5. pc' = "top" => \A i \in DOMAIN made : made[i].whole
      BY <2>1, <3>1 DEF PlainReplies, m
    <3>6. PlainReplies'
      BY <1>1, <2>1, <3>1, <3>4, <3>5 DEF PlainReplies, m
    <3> QED
      BY <3>2, <3>6
  <2> QED
    BY <1>1, <2>2, <2>3 DEF PlainInv, InStep
<1> QED
  BY <1>7, <1>8

(* httpError's text completes the last reply, or confuses the client when  *)
(* that one broke off.                                                     *)
LEMMA ErrorPlain ==
  ASSUME TypeOK, ReadingInv, CountInv, PlainInv, HttpError
  PROVE  PlainInv'
<1> DEFINE m == made[Len(made)]
<1>1. /\ loop = "http" /\ pc = "text" /\ pc' = "returned" /\ loop' = loop /\ made' = made
      /\ served' = served /\ client' = client /\ slips' = slips
  <2>1. loop \in {"tls", "http"}
    BY Types, MitmLoopAssumption
  <2> QED
    BY <2>1 DEF HttpError, Return, Goto, Writing, CountInv
<1>2. /\ made \in Seq(Replies) /\ seen \in Decoders /\ Len(seen.done) < Len(made)
      /\ seen.done \in Seq(Nat)
  BY <1>1, Types DEF PlainInv, PlainCount, Decoders
<1>3. /\ Len(made) \in Nat \ {0} /\ DOMAIN made = 1..Len(made) /\ Len(made) \in DOMAIN made
      /\ Len(seen.done) \in Nat /\ DOMAIN seen.done = 1..Len(seen.done)
  <2>1. Len(made) \in Nat /\ Len(seen.done) \in Nat /\ DOMAIN made = 1..Len(made)
        /\ DOMAIN seen.done = 1..Len(seen.done)
    BY <1>2, SeqFacts
  <2>2. Len(made) \in 1..Len(made)
    BY <1>2, <2>1
  <2> QED
    BY <1>2, <2>1, <2>2
<1>4. \/ ~client.gone /\ seen' = Complete(seen)
      \/ seen' = seen
      \/ seen.at = "size" /\ seen' = [seen EXCEPT !.at = "lost"]
  BY DEF HttpError
<1>5. CASE ~client.gone /\ seen' = Complete(seen)
  <2>1. /\ Len(seen'.done) = Len(seen.done) + 1 /\ Len(seen'.done) <= Len(made)
        /\ DOMAIN seen'.done = 1..(Len(seen.done) + 1)
        /\ \A i \in DOMAIN seen.done : seen'.done[i] = seen.done[i]
        /\ seen'.done[Len(seen.done) + 1] = seen.got
        /\ seen'.at = "status" /\ seen'.got = 0
    BY <1>1, <1>2, <1>5, CompletedPlain
  <2>2. PlainCount'
    BY <1>1, <2>1 DEF PlainCount
  <2>3. ASSUME InStep PROVE PlainTurn' /\ PlainReplies'
    <3>1. PlainTurn /\ PlainReplies
      BY <1>1, <2>3 DEF PlainInv
    <3>2. PlainTurn'
      BY <1>1, <1>3, <2>1, <3>1 DEF PlainTurn
    <3>3. Len(seen.done) + 1 = Len(made)
      <4>1. /\ Len(served) \in Nat /\ Len(client.sent) \in Nat
            /\ Len(made) <= Len(served) /\ Len(served) <= Len(client.sent)
            /\ Len(client.sent) <= Len(seen.done) + 1
        BY <1>1, <2>3, PlainFacts
      <4> QED
        BY <1>2, <1>3, <4>1, Squeezed
    <3>4. m.whole => seen.got = 0 /\ m.size = 0
      BY <1>1, <1>5, <3>1 DEF PlainReplies
    <3>5. \A i \in DOMAIN seen'.done :
            \/ made[i].whole /\ seen'.done[i] = made[i].size
            \/ ~made[i].whole /\ i = Len(made)
      <4> SUFFICES ASSUME NEW i \in 1..(Len(seen.done) + 1)
                   PROVE  \/ made[i].whole /\ seen'.done[i] = made[i].size
                          \/ ~made[i].whole /\ i = Len(made)
        BY <2>1
      <4>1. CASE i = Len(seen.done) + 1
        BY <2>1, <3>3, <3>4, <4>1
      <4>2. CASE i # Len(seen.done) + 1
        <5>1. i \in DOMAIN seen.done
          BY <1>3, <4>2
        <5> QED
          BY <2>1, <3>1, <5>1 DEF PlainReplies
      <4> QED
        BY <4>1, <4>2
    <3>6. PlainReplies'
      BY <1>1, <2>1, <3>1, <3>5 DEF PlainReplies
    <3> QED
      BY <3>2, <3>6
  <2> QED
    BY <1>1, <2>2, <2>3 DEF PlainInv, InStep
<1>6. CASE seen' = seen
  BY <1>1, <1>6 DEF PlainInv, PlainCount, PlainTurn, PlainReplies, InStep
<1>7. CASE seen.at = "size" /\ seen' = [seen EXCEPT !.at = "lost"]
  <2>1. seen'.done = seen.done /\ seen'.at = "lost"
    BY <1>2, <1>7 DEF Decoders
  <2>2. PlainCount'
    BY <1>1, <1>2, <2>1 DEF PlainCount
  <2>3. ASSUME InStep PROVE PlainTurn' /\ PlainReplies'
    <3>1. PlainTurn /\ PlainReplies
      BY <1>1, <2>3 DEF PlainInv
    <3>2. PlainTurn'
      BY <1>1, <1>2, <1>3, <2>1, <3>1 DEF PlainTurn
    <3>3. ~m.whole
      BY <1>1, <1>7, <3>1 DEF PlainReplies
    <3>4. PlainReplies'
      BY <1>1, <1>3, <2>1, <3>1, <3>3 DEF PlainReplies
    <3> QED
      BY <3>2, <3>4
  <2> QED
    BY <1>1, <2>2, <2>3 DEF PlainInv, InStep
<1> QED
  BY <1>4, <1>5, <1>6, <1>7

(* The loop begins in the invariant. *)
LEMMA InitInv == Init => Inv
<1> SUFFICES ASSUME Init PROVE Inv
  OBVIOUS
<1>1. TypeOK
  BY InitTypes
<1>2. /\ pc = "top" /\ wire = <<>> /\ buf = <<>> /\ body = <<>> /\ ~broken
      /\ served = <<>> /\ made = <<>> /\ cur = None
      /\ client.sent = <<>> /\ ~client.owes /\ client.open /\ ~client.gone
      /\ ~slips.misread
      /\ seen.at = "status" /\ seen.got = 0 /\ seen.done = <<>>
  BY Zenon DEF Init
<1>3. /\ DOMAIN wire = {} /\ DOMAIN buf = {} /\ DOMAIN client.sent = {}
      /\ DOMAIN served = {} /\ DOMAIN seen.done = {}
      /\ Len(served) = 0 /\ Len(made) = 0 /\ Len(client.sent) = 0 /\ Len(seen.done) = 0
  BY <1>2
<1>4. RequestsInv
  BY <1>2, <1>3 DEF RequestsInv
<1>5. ~Waiting
  BY <1>2 DEF Waiting
<1>6. Stream
  BY <1>2, <1>3 DEF Stream, Unbroken
<1>7. Placed
  BY <1>2, <1>3, <1>5 DEF Placed
<1>8. ~Owing
  BY <1>2 DEF Owing
<1>9. ReadingInv /\ StepInv /\ TurnsInv
  BY <1>2, <1>3, <1>5, <1>6, <1>7, <1>8 DEF ReadingInv, StepInv, TurnsInv
<1>10. CountInv /\ ReplyInv
  BY <1>2, <1>3 DEF CountInv, ReplyInv, InReply
<1>11. Decoding
  BY <1>2, <1>3 DEF Decoding, PlaceFor, InReply
<1>12. DecoderInv
  BY <1>2, <1>3, <1>11 DEF DecoderInv, Decodable, Exact
<1>13. PlainInv
  BY <1>2, <1>3 DEF PlainInv, PlainCount, PlainTurn, PlainReplies
<1> QED
  BY <1>1, <1>4, <1>9, <1>10, <1>12, <1>13 DEF Inv

Writers ==
  \/ ReplyHTTP \/ HttpError \/ WriteStatus \/ WriteHeader \/ WriteBlank
  \/ Copy \/ WriteSize \/ WriteData \/ WriteChunkEnd
  \/ WriteLast \/ WriteTrailer

Readers == Fill \/ NextReader \/ ReadRequest \/ FilterRequest \/ RoundTrip

(* The writes of a reply keep the decoder in step with the loop. *)
LEMMA WritersInv ==
  ASSUME Inv, Writers
  PROVE  /\ TypeOK' /\ Writing /\ pc \in Replying
         /\ CountInv' /\ ReplyInv' /\ DecoderInv' /\ PlainInv'
         /\ pc' \in Replying \cup {"top", "returned"}
<1>1. /\ TypeOK /\ RequestsInv /\ ReadingInv /\ CountInv /\ ReplyInv /\ DecoderInv
      /\ PlainInv
  BY DEF Inv
<1>2. TypeOK' /\ Writing /\ pc \in Replying
  BY <1>1, WriteTypes DEF Writers
<1>3. loop \in {"tls", "http"}
  BY <1>1, Types, MitmLoopAssumption
<1>4. ReplyHTTP \/ HttpError \/ loop = "tls"
  BY <1>1, <1>3 DEF Writers, CountInv, InReply, WriteStatus, WriteHeader, WriteBlank,
     Copy, WriteSize, WriteData, WriteChunkEnd, WriteLast, WriteTrailer
<1>5. CountInv' /\ ReplyInv' /\ DecoderInv'
  BY <1>1, <1>4, HTTPWriting, ErrorWriting, StatusWriting, HeaderWriting, BlankWriting, CopyWriting,
     SizeWriting, DataWriting, ChunkEndWriting, LastWriting, TrailerWriting
     DEF Writers, WriteStatus
<1>6. pc' \in Replying \cup {"top", "returned"}
  BY DEF Replying, Writers, ReplyHTTP, HttpError, WriteStatus, WriteHeader, WriteBlank, Copy, CopyEnds,
     WriteSize, WriteData, WriteChunkEnd, WriteLast, WriteTrailer, Put, Goto, Return,
     InReply
<1>7. PlainInv'
  <2>1. CASE loop = "tls"
    BY <1>2, <2>1 DEF PlainInv, Writing
  <2> QED
    BY <1>1, <1>4, <2>1, HTTPPlain, ErrorPlain
<1> QED
  BY <1>2, <1>5, <1>6, <1>7

(* Every step of client and loop preserves the invariant. *)
LEMMA NextInv == Inv /\ [Next]_vars => Inv'
<1> SUFFICES ASSUME Inv, [Next]_vars PROVE Inv'
  OBVIOUS
<1>1. /\ TypeOK /\ RequestsInv /\ ReadingInv /\ StepInv /\ TurnsInv
      /\ CountInv /\ ReplyInv /\ DecoderInv /\ PlainInv
  BY DEF Inv
<1>2. ASSUME Next PROVE Inv'
  <2>1. ClientStep \/ Readers \/ Writers
    BY <1>2 DEF Next, LoopStep, Readers, Writers
  <2>2. Writers => Writing /\ pc \in Replying
    BY WritersInv
  <2>3. (LoopStep /\ ~(Fill \/ NextReader \/ ReadRequest \/ FilterRequest \/ RoundTrip))
          => (Writing /\ pc \in Replying)
    BY <2>2 DEF LoopStep, Writers
  <2>4. TypeOK'
    BY <1>1, <2>1, WritersInv, ClientTypes, ReadTypes DEF Readers
  <2>5. RequestsInv'
    BY <1>1, <1>2, <2>3, <2>4, RequestsStep
  <2>6. InStep' => InStep
    BY <1>1, <1>2, <2>3, SlipsGrow
  <2>7. ReadingInv' /\ StepInv' /\ TurnsInv'
    <3>1. CASE ClientStep
      BY <1>1, <2>6, <3>1, ClientSendsReading, ClientSendsBodyReading, ClientStopsReading
         DEF ClientStep
    <3>2. CASE Readers
      BY <1>1, <2>6, <3>2, FillReading, NextReaderReading, ReadRequestReading,
         FilterReading, RoundTripReading DEF Readers
    <3>3. CASE Writers
      BY <1>1, <3>3, WritersInv, WritingReading
    <3> QED
      BY <2>1, <3>1, <3>2, <3>3
  <2>8. CountInv' /\ ReplyInv' /\ DecoderInv'
    BY <1>1, <2>1, ClientWriting, ReadWriting, WritersInv DEF Readers
  <2>9. PlainInv'
    BY <1>1, <2>1, <2>6, ClientPlain, ReadPlain, WritersInv DEF Readers
  <2> QED
    BY <2>4, <2>5, <2>7, <2>8, <2>9 DEF Inv
<1>3. ASSUME UNCHANGED vars PROVE Inv'
  <2>1. /\ loop' = loop /\ pc' = pc /\ wire' = wire /\ buf' = buf /\ cur' = cur
        /\ body' = body /\ broken' = broken /\ client' = client /\ seen' = seen
        /\ served' = served /\ made' = made /\ slips' = slips
    BY <1>3 DEF vars
  <2>2. TypeOK' /\ RequestsInv'
    BY <1>1, <2>1 DEF TypeOK, RequestsInv, OfClient
  <2>3. /\ Waiting' <=> Waiting
        /\ FirstToken' = FirstToken /\ LastToken' = LastToken
        /\ Owing' <=> Owing
        /\ InStep' <=> InStep
        /\ Stream' <=> Stream
    BY <2>1 DEF Waiting, FirstToken, LastToken, Owing, InStep, Stream
  <2>4. Placed' <=> Placed
    BY <2>1, <2>3 DEF Placed, OfClient
  <2>5. ReadingInv' /\ StepInv' /\ TurnsInv'
    BY <1>1, <2>1, <2>3, <2>4 DEF ReadingInv, StepInv, TurnsInv
  <2>6. CountInv' /\ ReplyInv'
    BY <1>1, <2>1 DEF CountInv, ReplyInv
  <2>7. (Decoding' <=> Decoding) /\ (AheadOf204' <=> AheadOf204)
    BY <2>1 DEF Decoding, AheadOf204
  <2>8. DecoderInv'
    BY <1>1, <2>1, <2>7 DEF DecoderInv, Decodable, Exact
  <2>9. PlainInv'
    BY <1>1, <2>1, <2>3 DEF PlainInv, PlainCount, PlainTurn, PlainReplies
  <2> QED
    BY <2>2, <2>5, <2>6, <2>8, <2>9 DEF Inv
<1> QED
  BY <1>2, <1>3

-----------------------------------------------------------------------------
(* The inductive invariant holds. *)
LEMMA Invariance == Spec => []Inv
BY InitInv, NextInv, PTL DEF Spec

(* Every variable of the loops keeps its type. *)
THEOREM TypeCorrect == Spec => []TypeOK
<1>1. Inv => TypeOK
  BY DEF Inv
<1> QED
  BY <1>1, Invariance, PTL

(* The loops of handleHttps serve the client's requests in order and take  *)
(* nothing else for one: the TLS loop unless a handler answers a request   *)
(* without reading its body, the HTTP loop unless the client sends ahead.  *)
THEOREM InSyncHolds == Spec => []InSync
<1>1. ASSUME Inv, InStep
      PROVE  ~slips.misread /\ \A i \in DOMAIN served : served[i] = i
  BY <1>1 DEF Inv, StepInv, ReadingInv, Placed
<1>2. Inv => InSync
  BY <1>1 DEF InSync
<1> QED
  BY <1>2, Invariance, PTL

(* Whatever reads the body of a response is made of, a client can decode   *)
(* what it is sent: in the TLS loop up to the first 204 or 304, in the     *)
(* HTTP loop as long as it is in step and no body broke off.               *)
THEOREM RepliesDecodeHolds == Spec => []RepliesDecode
<1>1. ASSUME Inv PROVE RepliesDecode
  <2>1. loop \in {"tls", "http"}
    BY <1>1, Types, MitmLoopAssumption DEF Inv
  <2>2. CASE loop = "tls"
    BY <1>1, <2>2 DEF Inv, DecoderInv, Decodable, RepliesDecode
  <2>3. CASE loop = "http"
    BY <1>1, <2>3 DEF Inv, PlainInv, PlainReplies, RepliesDecode
  <2> QED
    BY <2>1, <2>2, <2>3
<1> QED
  BY <1>1, Invariance, PTL

(* A reply of the TLS loop that ends for the client has every byte of the  *)
(* response's body, which ended without an error.  In the HTTP loop that   *)
(* holds, for a client in step, of every reply but a last one whose body   *)
(* broke off and which httpError's text may complete.                      *)
THEOREM CompleteOnlyIfWholeHolds == Spec => []CompleteOnlyIfWhole
<1>1. ASSUME Inv PROVE CompleteOnlyIfWhole
  <2>1. loop \in {"tls", "http"}
    BY <1>1, Types, MitmLoopAssumption DEF Inv
  <2>2. CASE loop = "tls"
    BY <1>1, <2>2 DEF Inv, DecoderInv, Exact, CompleteOnlyIfWhole
  <2>3. CASE loop = "http"
    BY <1>1, <2>3 DEF Inv, PlainInv, PlainReplies, CompleteOnlyIfWhole
  <2> QED
    BY <2>1, <2>2, <2>3
<1> QED
  BY <1>1, Invariance, PTL
=============================================================================
