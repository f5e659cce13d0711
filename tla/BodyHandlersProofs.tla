------------------------- MODULE BodyHandlersProofs -------------------------
(***************************************************************************)
(* Proofs about BodyHandlers for every body, buffer and chain of handlers: *)
(* its types, that a body that is sent to its end is a whole one, when     *)
(* HandleImage panics, and that the origin's body is closed.               *)
(*                                                                         *)
(* The reader's own invariant is taken from RegretableReaderProofs.  What  *)
(* is added is where resp.Body stands, which nothing but a handler that    *)
(* says so (an error, an image that cannot be encoded) may leave anywhere  *)
(* but at the start.                                                       *)
(***************************************************************************)
EXTENDS BodyHandlers, TLAPS, SequenceTheorems

Reader == INSTANCE RegretableReaderProofs

(* The next byte of resp.Body follows this one. *)
Pos == IF overflow THEN src ELSE src - w + r

Sending == pc \in {"complete", "cut", "over"} \/ (pc = "handler" /\ ix > Len(chain))

(* Where the chain is.  A body that is not read through a reader leaves it *)
(* alone, and only an image handler puts one in between.                   *)
PlaceInv ==
  /\ pc \in {"decode", "readall", "panic"} => ix <= Len(chain)
  /\ pc \in {"complete", "cut"} => ix > Len(chain)
  /\ pc = "decode" => top = "reader" /\ chain[ix] = "image"
  /\ stream < ix
  /\ top = "stream" => r = 0 /\ w = 0 /\ ~overflow
  /\ top = "reader" => \E j \in DOMAIN chain :
                         chain[j] = "image" /\ j <= ix /\ (pc = "handler" => j < ix)
  /\ src <= End
  /\ origin.fails \/ origin.end = StreamLen

(* A reader that overflowed has been read beyond its buffer. *)
OverflowInv == overflow => r > BufSize

(* What was sent are consecutive bytes up to where the body stands. *)
SentInv ==
  /\ ~Sending => recd = <<>>
  /\ Len(recd) <= Pos
  /\ \A i \in DOMAIN recd : recd[i] = Pos - Len(recd) + i

(* A body that a handler passes on is at its start, the decoder can be     *)
(* taken back there, and what was sent is what there is up to here.        *)
StartInv ==
  "unencoded" \notin odd /\ ~Fails =>
    /\ pc = "decode" /\ ~overflow => w = src
    /\ pc \in {"handler", "complete", "cut"} => Len(recd) = Pos

(* A reply that looks complete is at the end of its body. *)
EndInv ==
  pc = "complete" =>
    /\ Pos = End
    /\ Fails => path = "plain" /\ (sized => Len(recd) >= StreamLen)

(* Someone still closes the origin's body, or has done so. *)
CloseInv ==
  /\ closes \/ origin.closed \/ "replaced" \in odd
  /\ OriginReleased

Inv ==
  /\ TypeOK /\ Regretable!BufferIsTail
  /\ PlaceInv /\ OverflowInv /\ SentInv /\ StartInv /\ EndInv /\ CloseInv
  /\ PanicsOnlyIf

-----------------------------------------------------------------------------
(* The reader. *)
LEMMA ReaderStep ==
  ASSUME Regretable!TypeOK, Regretable!BufferIsTail,
         Regretable!Read \/ Regretable!Regret
  PROVE  Regretable!TypeOK' /\ Regretable!BufferIsTail'
<1>1. Reader!Inv
  BY DEF Reader!Inv, Reader!TypeOK, Regretable!TypeOK, Reader!BufferIsTail,
         Regretable!BufferIsTail
<1>2. Regretable!ReadOverflowed => Reader!ReadOverflowed
  BY DEF Reader!ReadOverflowed, Regretable!ReadOverflowed, Reader!UnderlyingRead,
         Regretable!UnderlyingRead, Reader!Returns, Regretable!Returns
<1>3. Regretable!ReadBuffered => Reader!ReadBuffered
  BY DEF Reader!ReadBuffered, Regretable!ReadBuffered, Reader!Min2, Regretable!Min2,
         Reader!Returns, Regretable!Returns
<1>4. Regretable!ReadThrough => Reader!ReadThrough
  BY DEF Reader!ReadThrough, Regretable!ReadThrough, Reader!Min2, Regretable!Min2,
         Reader!UnderlyingRead, Regretable!UnderlyingRead, Reader!CopyIn,
         Regretable!CopyIn, Reader!Returns, Regretable!Returns
<1>5. Regretable!Regret => Reader!Regret
  BY DEF Reader!Regret, Regretable!Regret, Reader!Returns, Regretable!Returns,
         Reader!Panics, Regretable!Panics
<1>6. Reader!Next
  BY <1>2, <1>3, <1>4, <1>5 DEF Reader!Next, Reader!Read, Regretable!Read
<1>7. Reader!Inv'
  BY <1>1, <1>6, Reader!NextInv, BodyHandlersAssumption
<1> QED
  BY <1>7 DEF Reader!Inv, Reader!TypeOK, Regretable!TypeOK, Reader!BufferIsTail,
              Regretable!BufferIsTail

(* What the reader's variables are. *)
LEMMA ReaderFacts ==
  ASSUME Regretable!TypeOK, Regretable!BufferIsTail
  PROVE  /\ src \in 0..StreamLen /\ overflow \in BOOLEAN /\ w \in 0..BufSize /\ r \in Nat
         /\ StreamLen \in Nat /\ BufSize \in Nat /\ MaxRead \in Nat
         /\ ~overflow => /\ r <= w /\ w <= src
                         /\ \A i \in 0..(w - 1) : buf[i] = src - w + i + 1
         /\ Pos \in 0..src
<1>1. /\ src \in 0..StreamLen /\ overflow \in BOOLEAN /\ w \in 0..BufSize /\ r \in Nat
      /\ StreamLen \in Nat /\ BufSize \in Nat /\ MaxRead \in Nat
  BY BodyHandlersAssumption DEF Regretable!TypeOK
<1>2. ~overflow => /\ r <= w /\ w <= src
                   /\ \A i \in 0..(w - 1) : buf[i] = src - w + i + 1
  BY DEF Regretable!BufferIsTail
<1>3. Pos \in 0..src
  BY <1>1, <1>2 DEF Pos
<1> QED
  BY <1>1, <1>2, <1>3

(* A read from a body delivers the bytes that come next, from wherever     *)
(* they are kept, and moves the position behind them.                      *)
Delivers ==
  \E n \in Nat : /\ Pos' = Pos + n /\ Pos + n <= StreamLen
                 /\ out'.bytes = [i \in 1..n |-> Pos + i]

(* ReadBody does so whether resp.Body is the stream or a reader on it, and *)
(* keeps the reader's invariant.                                           *)
LEMMA ReadDelivers ==
  ASSUME Regretable!TypeOK, Regretable!BufferIsTail, OverflowInv, ReadBody,
         top \in {"stream", "reader"}, End \in 0..StreamLen,
         top = "stream" => r = 0 /\ w = 0 /\ ~overflow
  PROVE  /\ Regretable!TypeOK' /\ Regretable!BufferIsTail' /\ OverflowInv'
         /\ src' <= End
         /\ top = "stream" => r' = 0 /\ w' = 0 /\ ~overflow'
         /\ top = "reader" /\ ~overflow' => ~overflow /\ src' - w' = src - w
         /\ Delivers
<1>1. /\ src \in 0..StreamLen /\ overflow \in BOOLEAN /\ w \in 0..BufSize /\ r \in Nat
      /\ StreamLen \in Nat /\ BufSize \in Nat /\ MaxRead \in Nat
      /\ ~overflow => /\ r <= w /\ w <= src
                      /\ \A i \in 0..(w - 1) : buf[i] = src - w + i + 1
      /\ Pos \in 0..src
  BY ReaderFacts
<1>2. CASE top = "stream"
  <2>1. PICK n \in 1..MaxRead : /\ src + n <= End /\ src' = src + n
                                /\ out' = Regretable!Returns([i \in 1..n |-> src + i])
    BY <1>2 DEF ReadBody
  <2>2. UNCHANGED <<overflow, r, w, buf>>
    BY <1>2 DEF ReadBody
  <2>3. r = 0 /\ w = 0 /\ ~overflow
    BY <1>2
  <2>4. Pos = src /\ Pos' = src + n /\ n \in Nat /\ src + n <= StreamLen
    BY <1>1, <2>1, <2>2, <2>3 DEF Pos
  <2>5. out'.bytes = [i \in 1..n |-> Pos + i]
    BY <2>1, <2>4 DEF Regretable!Returns
  <2>6. Delivers
    BY <2>4, <2>5 DEF Delivers
  <2>7. src' \in 0..StreamLen /\ src' <= End
    BY <1>1, <2>1
  <2>8. Regretable!TypeOK'
    BY <2>2, <2>7 DEF Regretable!TypeOK
  <2>9. Regretable!BufferIsTail'
    BY <1>1, <2>2, <2>3, <2>7 DEF Regretable!BufferIsTail
  <2>10. OverflowInv'
    BY <2>2 DEF OverflowInv
  <2> QED
    BY <1>2, <2>2, <2>3, <2>6, <2>7, <2>8, <2>9, <2>10
<1>3. CASE top = "reader"
  <2>1. Regretable!Read /\ src' <= End
    BY <1>3 DEF ReadBody
  <2>2. Regretable!TypeOK' /\ Regretable!BufferIsTail'
    BY <2>1, ReaderStep
  <2>3. CASE Regretable!ReadOverflowed
    <3>1. PICK n \in 0..MaxRead : /\ src + n <= StreamLen /\ src' = src + n
                                  /\ out' = Regretable!Returns([i \in 1..n |-> src + i])
      BY <2>3 DEF Regretable!ReadOverflowed, Regretable!UnderlyingRead
    <3>2. overflow /\ UNCHANGED <<overflow, r, w, buf>>
      BY <2>3 DEF Regretable!ReadOverflowed
    <3>3. Pos = src /\ Pos' = src + n /\ n \in Nat
      BY <1>1, <3>1, <3>2 DEF Pos
    <3>4. out'.bytes = [i \in 1..n |-> Pos + i]
      BY <3>1, <3>3 DEF Regretable!Returns
    <3>5. Delivers
      BY <3>1, <3>3, <3>4 DEF Delivers
    <3>6. OverflowInv'
      BY <3>2 DEF OverflowInv
    <3> QED
      BY <1>3, <2>1, <2>2, <3>2, <3>5, <3>6
  <2>4. CASE Regretable!ReadBuffered
    <3>1. PICK p \in 0..MaxRead :
            /\ out' = Regretable!Returns([i \in 1..Regretable!Min2(p, w - r) |->
                                            buf[r + i - 1]])
            /\ r' = r + Regretable!Min2(p, w - r)
      BY <2>4 DEF Regretable!ReadBuffered
    <3>2. ~overflow /\ r < w /\ UNCHANGED <<src, overflow, w, buf>>
      BY <2>4 DEF Regretable!ReadBuffered
    <3> DEFINE n == Regretable!Min2(p, w - r)
    <3>3. n \in Nat /\ r + n <= w
      BY <1>1, <3>2 DEF Regretable!Min2
    <3>4. out' = Regretable!Returns([i \in 1..n |-> buf[r + i - 1]]) /\ r' = r + n
      BY <3>1
    <3> HIDE DEF n
    <3>5. Pos = src - w + r /\ Pos' = Pos + n /\ Pos + n <= StreamLen
      BY <1>1, <3>2, <3>3, <3>4 DEF Pos
    <3>6. \A i \in 1..n : buf[r + i - 1] = Pos + i
      <4> SUFFICES ASSUME NEW i \in 1..n PROVE buf[r + i - 1] = Pos + i
        OBVIOUS
      <4>1. r + i - 1 \in 0..(w - 1)
        BY <1>1, <3>3
      <4>2. buf[r + i - 1] = src - w + (r + i - 1) + 1
        BY <1>1, <3>2, <4>1
      <4> QED
        BY <1>1, <3>3, <3>5, <4>2
    <3>7. out'.bytes = [i \in 1..n |-> Pos + i]
      BY <3>4, <3>6 DEF Regretable!Returns
    <3>8. Delivers
      BY <3>3, <3>5, <3>7 DEF Delivers
    <3>9. OverflowInv'
      BY <3>2 DEF OverflowInv
    <3> QED
      BY <1>3, <2>1, <2>2, <3>2, <3>8, <3>9
  <2>5. CASE Regretable!ReadThrough
    <3>1. PICK n \in 0..MaxRead :
            /\ src + n <= StreamLen /\ src' = src + n
            /\ out' = Regretable!Returns([i \in 1..n |-> src + i])
            /\ w' = w + Regretable!Min2(BufSize - w, n)
            /\ r' = w + n
            /\ overflow' = (Regretable!Min2(BufSize - w, n) < n)
      BY <2>5 DEF Regretable!ReadThrough, Regretable!UnderlyingRead
    <3>2. ~overflow /\ ~(r < w)
      BY <2>5 DEF Regretable!ReadThrough
    <3> DEFINE bn == Regretable!Min2(BufSize - w, n)
    <3>3. /\ bn \in Nat /\ n \in Nat /\ (bn < n => w + n > BufSize)
          /\ ~(bn < n) => bn = n
      BY <1>1 DEF Regretable!Min2
    <3>4. w' = w + bn /\ (overflow' <=> bn < n)
      BY <3>1, Zenon
    <3> HIDE DEF bn
    <3>5. r = w /\ Pos = src
      BY <1>1, <3>2 DEF Pos
    <3>6. Pos' = src + n
      <4>1. CASE overflow'
        BY <3>1, <4>1 DEF Pos
      <4>2. CASE ~overflow'
        <5>1. bn = n
          BY <3>3, <3>4, <4>2
        <5>2. Pos' = src' - w' + r'
          BY <4>2 DEF Pos
        <5>3. src' - w' + r' = (src + n) - (w + n) + (w + n)
          BY <3>1, <3>4, <5>1
        <5> QED
          BY <1>1, <3>3, <5>2, <5>3
      <4> QED
        BY <4>1, <4>2
    <3>7. out'.bytes = [i \in 1..n |-> Pos + i]
      BY <3>1, <3>5 DEF Regretable!Returns
    <3>8. Delivers
      BY <3>1, <3>3, <3>5, <3>6, <3>7 DEF Delivers
    <3>9. OverflowInv'
      BY <3>1, <3>3, <3>4 DEF OverflowInv
    <3>10. ~overflow' => src' - w' = src - w
      BY <1>1, <3>1, <3>3, <3>4
    <3> QED
      BY <1>3, <2>1, <2>2, <3>2, <3>8, <3>9, <3>10
  <2> QED
    BY <2>1, <2>3, <2>4, <2>5 DEF Regretable!Read
<1> QED
  BY <1>2, <1>3

-----------------------------------------------------------------------------
(* The rest of the state. *)
Places == {"handler", "decode", "readall", "panic", "cut", "complete", "over"}
Origins == [end : 0..StreamLen, fails : BOOLEAN, closed : BOOLEAN]
Odds == SUBSET {"replaced", "unencoded", "type"}

(* TypeOK, with its sets named. *)
LEMMA Types ==
  TypeOK <=>
    /\ Regretable!TypeOK
    /\ path \in {"plain", "tls"} /\ chain \in Chains /\ ix \in 1..(Len(chain) + 1)
    /\ pc \in Places /\ top \in {"stream", "reader"} /\ stream \in 0..Len(chain)
    /\ closes \in BOOLEAN /\ sized \in BOOLEAN /\ origin \in Origins
    /\ recd \in Seq(1..StreamLen) /\ odd \in Odds
BY DEF TypeOK, Places, Origins, Odds

(* What TypeOK says of the chain, of what was sent and of the end. *)
LEMMA ChainFacts ==
  ASSUME TypeOK
  PROVE  /\ chain \in Seq(Handlers) /\ Len(chain) \in Nat /\ DOMAIN chain = 1..Len(chain)
         /\ ix \in Nat /\ ix >= 1 /\ ix <= Len(chain) + 1 /\ stream \in Nat
         /\ recd \in Seq(1..StreamLen) /\ Len(recd) \in Nat /\ DOMAIN recd = 1..Len(recd)
         /\ recd = <<>> <=> Len(recd) = 0
         /\ origin \in Origins /\ origin.end \in 0..StreamLen /\ StreamLen \in Nat
         /\ End \in 0..StreamLen
<1>1. chain \in Seq(Handlers)
  BY Types, BodyHandlersAssumption
<1>2. Len(chain) \in Nat /\ DOMAIN chain = 1..Len(chain)
  BY <1>1
<1>3. ix \in Nat /\ ix >= 1 /\ ix <= Len(chain) + 1 /\ stream \in Nat
  BY <1>2, Types
<1>4. recd \in Seq(1..StreamLen)
  BY Types
<1>5. /\ Len(recd) \in Nat /\ DOMAIN recd = 1..Len(recd)
      /\ recd = <<>> <=> Len(recd) = 0
  BY <1>4
<1>6. origin \in Origins /\ origin.end \in 0..StreamLen /\ StreamLen \in Nat
  BY Types, BodyHandlersAssumption DEF Origins
<1>7. End \in 0..StreamLen
  BY <1>6 DEF End
<1> QED
  BY <1>1, <1>2, <1>3, <1>4, <1>5, <1>6, <1>7

(* A fresh reader, on a new body or around the one there is. *)
LEMMA FreshFacts ==
  ASSUME FreshReader, src' \in 0..StreamLen
  PROVE  /\ Regretable!TypeOK' /\ Regretable!BufferIsTail' /\ OverflowInv'
         /\ r' = 0 /\ w' = 0 /\ ~overflow' /\ Pos' = src'
<1>1. r' = 0 /\ w' = 0 /\ buf' = [i \in 0..(BufSize - 1) |-> 0]
  BY DEF FreshReader
<1>2. ~overflow' /\ overflow' \in BOOLEAN
  BY Zenon DEF FreshReader
<1>3. StreamLen \in Nat /\ BufSize \in Nat
  BY BodyHandlersAssumption
<1>4. buf' \in [0..(BufSize - 1) -> Nat]
  BY <1>1
<1>5. Regretable!TypeOK'
  BY <1>1, <1>2, <1>3, <1>4 DEF Regretable!TypeOK
<1>6. Regretable!BufferIsTail'
  <2>1. r' <= w' /\ w' <= src' /\ 0..(w' - 1) = {}
    BY <1>1, <1>3
  <2> QED
    BY <2>1 DEF Regretable!BufferIsTail
<1>7. OverflowInv'
  BY <1>2 DEF OverflowInv
<1>8. Pos' = src'
  <2>1. Pos' = src' - w' + r'
    BY <1>2 DEF Pos
  <2>2. src' \in Int
    BY <1>3
  <2>3. \A a \in Int : a - 0 + 0 = a
    OBVIOUS
  <2> QED
    BY <1>1, <2>1, <2>2, <2>3
<1> QED
  BY <1>1, <1>2, <1>5, <1>6, <1>7, <1>8

(* A body that a handler made: unread, whole, and never broken off. *)
LEMMA NewBodyFacts ==
  ASSUME NewBody, stream \in Nat
  PROVE  /\ Regretable!TypeOK' /\ Regretable!BufferIsTail' /\ OverflowInv'
         /\ r' = 0 /\ w' = 0 /\ ~overflow' /\ Pos' = 0 /\ src' = 0
         /\ stream' = stream + 1 /\ top' = "stream" /\ End' = StreamLen /\ ~Fails'
<1>1. stream' = stream + 1 /\ top' = "stream" /\ src' = 0 /\ FreshReader
  BY DEF NewBody
<1>2. src' \in 0..StreamLen
  BY <1>1, BodyHandlersAssumption
<1>3. stream' # 0
  BY <1>1
<1>4. End' = StreamLen /\ ~Fails'
  BY <1>3 DEF End, Fails
<1> QED
  BY <1>1, <1>2, <1>4, FreshFacts

(* The reader is left alone. *)
LEMMA SameReader ==
  ASSUME UNCHANGED reader, Regretable!TypeOK, Regretable!BufferIsTail, OverflowInv
  PROVE  /\ Regretable!TypeOK' /\ Regretable!BufferIsTail' /\ OverflowInv'
         /\ Pos' = Pos /\ src' = src /\ r' = r /\ w' = w /\ overflow' = overflow
<1>1. /\ src' = src /\ overflow' = overflow /\ r' = r /\ w' = w /\ buf' = buf
      /\ out' = out
  BY DEF reader
<1> QED
  BY <1>1 DEF Regretable!TypeOK, Regretable!BufferIsTail, OverflowInv, Pos

-----------------------------------------------------------------------------
(* A response as it comes from the origin satisfies the invariant. *)
LEMMA InitInv == Init => Inv
<1> SUFFICES ASSUME Init PROVE Inv
  OBVIOUS
<1>1. /\ path \in {"plain", "tls"} /\ chain \in Chains
      /\ ix = 1 /\ pc = "handler" /\ top = "stream" /\ stream = 0
      /\ src = 0 /\ r = 0 /\ w = 0 /\ recd = <<>> /\ odd = {}
      /\ buf = [i \in 0..(BufSize - 1) |-> 0]
  BY DEF Init, Regretable!Init, Regretable!NewRegretableReaderSize
<1>2. /\ ~overflow /\ overflow \in BOOLEAN /\ closes /\ closes \in BOOLEAN
      /\ sized \in BOOLEAN /\ ~origin.closed
  BY Zenon DEF Init, Regretable!Init, Regretable!NewRegretableReaderSize
<1>3. origin \in Origins /\ (origin.fails \/ origin.end = StreamLen)
  BY Zenon DEF Init, Origins
<1>4. StreamLen \in Nat /\ BufSize \in Nat /\ chain \in Seq(Handlers)
  BY <1>1, BodyHandlersAssumption
<1>5. Len(chain) \in Nat
  BY <1>4
<1>6. TypeOK
  <2>1. buf \in [0..(BufSize - 1) -> Nat]
    BY <1>1
  <2>2. Regretable!TypeOK
    BY <1>1, <1>2, <1>4, <2>1 DEF Regretable!TypeOK
  <2> QED
    BY <1>1, <1>2, <1>3, <1>5, <2>2, Types DEF Places, Odds
<1>7. Regretable!BufferIsTail
  BY <1>1, <1>4 DEF Regretable!BufferIsTail
<1>8. Pos = 0 /\ Len(recd) = 0 /\ DOMAIN recd = {}
  BY <1>1, <1>2 DEF Pos
<1>9. PlaceInv
  <2>1. src <= End
    BY <1>1, <1>6, ChainFacts
  <2> QED
    BY <1>1, <1>2, <1>3, <2>1 DEF PlaceInv
<1>10. OverflowInv /\ SentInv /\ StartInv /\ EndInv
  BY <1>1, <1>2, <1>8 DEF OverflowInv, SentInv, StartInv, EndInv
<1>11. CloseInv /\ PanicsOnlyIf
  BY <1>1, <1>2 DEF CloseInv, OriginReleased, PanicsOnlyIf
<1> QED
  BY <1>6, <1>7, <1>9, <1>10, <1>11 DEF Inv

(* A handler passes the body on as it is: it has not touched it, it gave   *)
(* up on a body that fails, or it says so in odd.                          *)
LEMMA PassOn ==
  ASSUME Inv, pc \in {"handler", "decode", "readall"}, ix <= Len(chain),
         NextHandler, SameBody, UNCHANGED <<task, closes, origin, recd>>,
         sized' \in BOOLEAN, odd' \in Odds, odd \subseteq odd',
         "unencoded" \notin odd' /\ ~Fails => pc = "handler"
  PROVE  Inv'
<1>1. /\ TypeOK /\ Regretable!TypeOK /\ Regretable!BufferIsTail /\ PlaceInv /\ OverflowInv
      /\ SentInv /\ StartInv /\ CloseInv
  BY Types DEF Inv
<1>2. /\ UNCHANGED reader /\ top' = top /\ stream' = stream /\ path' = path
      /\ chain' = chain /\ closes' = closes /\ origin' = origin /\ recd' = recd
      /\ ix' = ix + 1 /\ pc' = "handler"
  BY DEF SameBody, NextHandler, task
<1>3. /\ Regretable!TypeOK' /\ Regretable!BufferIsTail' /\ OverflowInv'
      /\ Pos' = Pos /\ src' = src /\ r' = r /\ w' = w /\ overflow' = overflow
  BY <1>1, <1>2, SameReader
<1>4. /\ Len(chain) \in Nat /\ ix \in Nat /\ ix >= 1 /\ stream \in Nat
      /\ Len(recd) \in Nat /\ DOMAIN recd = 1..Len(recd) /\ (recd = <<>> <=> Len(recd) = 0)
  BY <1>1, ChainFacts
<1>5. /\ End' = End
      /\ Fails' <=> Fails
  BY <1>2 DEF End, Fails
<1>6. ~Sending /\ recd = <<>> /\ Pos \in 0..src
  BY <1>1, <1>4, ReaderFacts DEF Sending, SentInv
<1>7. TypeOK'
  <2>1. ix' \in 1..(Len(chain') + 1) /\ pc' \in Places /\ stream' \in 0..Len(chain')
    BY <1>1, <1>2, <1>4, Types DEF Places
  <2> QED
    BY <1>1, <1>2, <1>3, <2>1, Types DEF TypeOK, Places, Origins, Odds
<1>8. PlaceInv'
  <2>1. stream' < ix'
    BY <1>1, <1>2, <1>4 DEF PlaceInv
  <2>2. top' = "reader" => \E j \in DOMAIN chain' : chain'[j] = "image" /\ j < ix'
    <3> SUFFICES ASSUME top = "reader"
                 PROVE  \E j \in DOMAIN chain : chain[j] = "image" /\ j < ix + 1
      BY <1>2
    <3>1. PICK j \in DOMAIN chain : chain[j] = "image" /\ j <= ix
      BY <1>1 DEF PlaceInv
    <3>2. j \in Nat
      BY <1>1, ChainFacts
    <3> QED
      BY <1>4, <3>1, <3>2
  <2>3. \A j \in DOMAIN chain' : j < ix' => j <= ix'
    BY <1>1, <1>2, <1>4, ChainFacts
  <2> QED
    BY <1>1, <1>2, <1>3, <1>5, <2>1, <2>2, <2>3 DEF PlaceInv
<1>9. SentInv'
  BY <1>1, <1>2, <1>3, <1>6 DEF SentInv
<1>10. StartInv'
  <2>1. "unencoded" \notin odd' /\ ~Fails' => Len(recd) = Pos
    BY <1>1, <1>5 DEF StartInv
  <2> QED
    BY <1>2, <1>3, <2>1 DEF StartInv
<1>11. EndInv' /\ PanicsOnlyIf'
  BY <1>2 DEF EndInv, PanicsOnlyIf
<1>12. CloseInv'
  BY <1>1, <1>2 DEF CloseInv, OriginReleased
<1> QED
  BY <1>3, <1>7, <1>8, <1>9, <1>10, <1>11, <1>12 DEF Inv

(* A handler puts a body of its own in the place of the one it has read. *)
LEMMA Replaces ==
  ASSUME Inv, pc \in {"decode", "readall"}, NewBody, NextHandler,
         UNCHANGED <<task, recd>>, sized' \in BOOLEAN, odd' \in Odds,
         closes' \in BOOLEAN, origin' \in Origins, origin'.end = origin.end,
         origin'.fails = origin.fails, closes' \/ origin'.closed \/ "replaced" \in odd'
  PROVE  Inv'
<1>1. /\ TypeOK /\ Regretable!TypeOK /\ Regretable!BufferIsTail /\ PlaceInv /\ SentInv
  BY Types DEF Inv
<1>2. /\ path' = path /\ chain' = chain /\ recd' = recd /\ ix' = ix + 1 /\ pc' = "handler"
  BY DEF NextHandler, task
<1>3. /\ Len(chain) \in Nat /\ ix \in Nat /\ ix >= 1 /\ stream \in Nat
      /\ Len(recd) \in Nat /\ DOMAIN recd = 1..Len(recd) /\ (recd = <<>> <=> Len(recd) = 0)
      /\ StreamLen \in Nat
  BY <1>1, ChainFacts
<1>4. /\ Regretable!TypeOK' /\ Regretable!BufferIsTail' /\ OverflowInv'
      /\ r' = 0 /\ w' = 0 /\ ~overflow' /\ Pos' = 0 /\ src' = 0
      /\ stream' = stream + 1 /\ top' = "stream" /\ End' = StreamLen /\ ~Fails'
  BY <1>3, NewBodyFacts
<1>5. ix <= Len(chain) /\ stream < ix /\ (origin.fails \/ origin.end = StreamLen)
  BY <1>1 DEF PlaceInv
<1>6. recd = <<>> /\ Len(recd) = 0
  BY <1>1, <1>3 DEF Sending, SentInv
<1>7. TypeOK'
  <2>1. ix' \in 1..(Len(chain') + 1) /\ pc' \in Places /\ stream' \in 0..Len(chain')
    BY <1>2, <1>3, <1>4, <1>5 DEF Places
  <2> QED
    BY <1>1, <1>2, <1>4, <2>1, Types DEF TypeOK, Places, Origins, Odds
<1>8. PlaceInv'
  <2>1. stream' < ix' /\ src' <= End'
    BY <1>2, <1>3, <1>4, <1>5
  <2> QED
    BY <1>2, <1>4, <1>5, <2>1 DEF PlaceInv
<1>9. SentInv' /\ StartInv'
  BY <1>2, <1>3, <1>4, <1>6 DEF SentInv, StartInv
<1>10. EndInv' /\ PanicsOnlyIf' /\ CloseInv'
  BY <1>2 DEF EndInv, PanicsOnlyIf, CloseInv, OriginReleased
<1> QED
  BY <1>4, <1>7, <1>8, <1>9, <1>10 DEF Inv

(* HandleImage panics: for a type it does not know, or behind a decoder    *)
(* that has read too far.                                                  *)
LEMMA PanicsInv ==
  ASSUME Inv, pc = "decode", pc' = "panic",
         UNCHANGED <<reader, task, ix, top, stream, closes, origin, sized, recd>>
           \/ (Regretable!Regret /\ overflow
               /\ UNCHANGED <<task, ix, top, stream, closes, origin, sized, recd>>),
         odd' \in Odds, odd \subseteq odd', "type" \in odd' \/ r > BufSize
  PROVE  Inv'
<1>1. /\ TypeOK /\ Regretable!TypeOK /\ Regretable!BufferIsTail /\ PlaceInv /\ OverflowInv
      /\ SentInv /\ CloseInv
  BY Types DEF Inv
<1>2. /\ top' = top /\ stream' = stream /\ path' = path /\ chain' = chain /\ ix' = ix
      /\ closes' = closes /\ origin' = origin /\ recd' = recd /\ sized' = sized
      /\ src' = src /\ overflow' = overflow /\ r' = r /\ w' = w /\ buf' = buf
  BY DEF task, reader, Regretable!Regret
<1>3. Regretable!TypeOK' /\ Regretable!BufferIsTail' /\ OverflowInv' /\ Pos' = Pos
  BY <1>1, <1>2 DEF Regretable!TypeOK, Regretable!BufferIsTail, OverflowInv, Pos
<1>4. End' = End
  BY <1>2 DEF End
<1>5. TypeOK'
  BY <1>1, <1>2, <1>3, Types DEF TypeOK, Odds, Origins
<1>6. PlaceInv'
  BY <1>1, <1>2, <1>4 DEF PlaceInv
<1>7. SentInv'
  BY <1>1, <1>2, <1>3 DEF SentInv, Sending
<1>8. StartInv' /\ EndInv'
  BY DEF StartInv, EndInv
<1>9. CloseInv' /\ PanicsOnlyIf'
  BY <1>1, <1>2 DEF CloseInv, OriginReleased, PanicsOnlyIf
<1> QED
  BY <1>3, <1>5, <1>6, <1>7, <1>8, <1>9 DEF Inv

(* A handler reads from the body. *)
LEMMA HandlerReads ==
  ASSUME Inv, pc \in {"decode", "readall"}, ReadBody,
         UNCHANGED <<task, ix, pc, top, stream, closes, origin, sized, recd, odd>>
  PROVE  Inv'
<1>1. /\ TypeOK /\ Regretable!TypeOK /\ Regretable!BufferIsTail /\ PlaceInv /\ OverflowInv
      /\ SentInv /\ StartInv /\ CloseInv
  BY Types DEF Inv
<1>2. /\ top' = top /\ stream' = stream /\ path' = path /\ chain' = chain /\ ix' = ix
      /\ closes' = closes /\ origin' = origin /\ recd' = recd /\ sized' = sized
      /\ pc' = pc /\ odd' = odd
  BY DEF task
<1>3. /\ End \in 0..StreamLen /\ Len(recd) \in Nat /\ (recd = <<>> <=> Len(recd) = 0)
      /\ DOMAIN recd = 1..Len(recd)
  BY <1>1, ChainFacts
<1>4. /\ top \in {"stream", "reader"}
      /\ top = "stream" => r = 0 /\ w = 0 /\ ~overflow
  BY <1>1, Types DEF PlaceInv
<1>5. /\ Regretable!TypeOK' /\ Regretable!BufferIsTail' /\ OverflowInv'
      /\ src' <= End
      /\ top = "stream" => r' = 0 /\ w' = 0 /\ ~overflow'
      /\ top = "reader" /\ ~overflow' => ~overflow /\ src' - w' = src - w
  BY <1>1, <1>3, <1>4, ReadDelivers
<1>6. /\ End' = End
      /\ Fails' <=> Fails
  BY <1>2 DEF End, Fails
<1>7. recd = <<>> /\ ~Sending'
  BY <1>1, <1>2 DEF SentInv, Sending
<1>8. TypeOK'
  BY <1>1, <1>2, <1>5, Types DEF TypeOK, Origins, Odds
<1>9. PlaceInv'
  BY <1>1, <1>2, <1>5, <1>6 DEF PlaceInv
<1>10. SentInv'
  <2>1. Pos' \in 0..src' /\ src' \in 0..StreamLen /\ StreamLen \in Nat
    <3>1. src' \in 0..StreamLen /\ w' \in 0..BufSize /\ r' \in Nat
      BY <1>5 DEF Regretable!TypeOK
    <3>2. ~overflow' => r' <= w' /\ w' <= src'
      BY <1>5 DEF Regretable!BufferIsTail
    <3>3. StreamLen \in Nat /\ BufSize \in Nat
      BY BodyHandlersAssumption
    <3>4. CASE overflow'
      BY <3>1, <3>3, <3>4 DEF Pos
    <3>5. CASE ~overflow'
      <4>1. Pos' = src' - w' + r'
        BY <3>5 DEF Pos
      <4>2. \A a, b, c \in Nat : b <= a /\ c <= b => a - b + c \in 0..a
        OBVIOUS
      <4>3. src' \in Nat /\ w' \in Nat
        BY <3>1, <3>3
      <4> QED
        BY <3>1, <3>2, <3>3, <3>5, <4>1, <4>2, <4>3
    <3> QED
      BY <3>1, <3>3, <3>4, <3>5
  <2>2. Len(recd) <= Pos'
    BY <1>3, <1>7, <2>1
  <2> QED
    BY <1>2, <1>3, <1>7, <2>2 DEF SentInv
<1>11. StartInv'
  <2> SUFFICES ASSUME "unencoded" \notin odd, ~Fails, pc = "decode", ~overflow'
               PROVE  w' = src'
    BY <1>2, <1>6 DEF StartInv
  <2>1. top = "reader"
    BY <1>1 DEF PlaceInv
  <2>2. ~overflow /\ src' - w' = src - w
    BY <1>5, <2>1
  <2>3. w = src
    BY <1>1, <2>2 DEF StartInv
  <2>4. src \in Int /\ w \in Int /\ src' \in Int /\ w' \in Int
    BY <1>1, <1>5, BodyHandlersAssumption DEF Regretable!TypeOK
  <2>5. \A a, b, c, d \in Int : a - b = c - d /\ d = c => b = a
    OBVIOUS
  <2> QED
    BY <2>2, <2>3, <2>4, <2>5
<1>12. EndInv' /\ PanicsOnlyIf'
  BY <1>2 DEF EndInv, PanicsOnlyIf
<1>13. CloseInv'
  BY <1>1, <1>2 DEF CloseInv, OriginReleased
<1> QED
  BY <1>5, <1>8, <1>9, <1>10, <1>11, <1>12, <1>13 DEF Inv

(* What is sent goes behind what was. *)
LEMMA SentGoesOn ==
  ASSUME NEW L \in Nat, NEW s \in Seq(1..L), NEW p \in Nat, NEW n \in Nat, p + n <= L,
         Len(s) <= p, \A i \in DOMAIN s : s[i] = p - Len(s) + i,
         NEW t, t = [i \in 1..n |-> p + i]
  PROVE  /\ s \o t \in Seq(1..L) /\ Len(s \o t) = Len(s) + n
         /\ Len(s \o t) <= p + n
         /\ \A i \in DOMAIN (s \o t) : (s \o t)[i] = (p + n) - Len(s \o t) + i
<1>1. t \in Seq(1..L) /\ Len(t) = n
  <2>1. \A i \in 1..n : p + i \in 1..L
    OBVIOUS
  <2>2. t \in [1..n -> 1..L]
    BY <2>1
  <2>3. t \in Seq(1..L)
    BY <2>2, SeqDef
  <2> QED
    BY <2>3
<1>2. PICK l \in Nat : l = Len(s)
  OBVIOUS
<1>3. DOMAIN s = 1..l
  BY <1>2
<1>4. /\ s \o t \in Seq(1..L) /\ Len(s \o t) = l + n
      /\ \A i \in 1..(l + n) : (s \o t)[i] = IF i <= l THEN s[i] ELSE t[i - l]
  BY <1>1, <1>2, ConcatProperties
<1>5. DOMAIN (s \o t) = 1..(l + n)
  BY <1>4
<1>6. ASSUME NEW i \in 1..(l + n) PROVE (s \o t)[i] = (p + n) - (l + n) + i
  <2>1. CASE i <= l
    <3>1. i \in 1..l
      BY <2>1
    <3>2. s[i] = p - l + i
      BY <1>2, <1>3, <3>1
    <3>3. (s \o t)[i] = s[i]
      BY <1>4, <2>1
    <3>4. p - l + i = (p + n) - (l + n) + i
      BY <1>2
    <3> QED
      BY <3>2, <3>3, <3>4
  <2>2. CASE ~(i <= l)
    <3>1. i - l \in 1..n
      BY <2>2
    <3>2. t[i - l] = p + (i - l)
      BY <3>1
    <3> QED
      BY <1>4, <2>2, <3>2
  <2> QED
    BY <2>1, <2>2
<1>7. l + n <= p + n
  BY <1>2
<1> QED
  BY <1>2, <1>4, <1>5, <1>6, <1>7

(* The response is sent: the client gets what is next in the body. *)
LEMMA SendInv == Inv /\ Send => Inv'
<1> SUFFICES ASSUME Inv, Send PROVE Inv'
  OBVIOUS
<1>1. /\ TypeOK /\ Regretable!TypeOK /\ Regretable!BufferIsTail /\ PlaceInv /\ OverflowInv
      /\ SentInv /\ StartInv /\ CloseInv
  BY Types DEF Inv
<1>2. /\ top' = top /\ stream' = stream /\ path' = path /\ chain' = chain /\ ix' = ix
      /\ closes' = closes /\ origin' = origin /\ sized' = sized /\ odd' = odd
      /\ pc = "handler" /\ pc' = pc /\ ix > Len(chain) /\ ReadBody
      /\ recd' = recd \o out'.bytes
  BY DEF Send, task
<1>3. /\ End \in 0..StreamLen /\ Len(recd) \in Nat /\ StreamLen \in Nat
      /\ recd \in Seq(1..StreamLen)
  BY <1>1, ChainFacts
<1>4. /\ top \in {"stream", "reader"}
      /\ top = "stream" => r = 0 /\ w = 0 /\ ~overflow
  BY <1>1, Types DEF PlaceInv
<1>5. /\ Regretable!TypeOK' /\ Regretable!BufferIsTail' /\ OverflowInv'
      /\ src' <= End
      /\ top = "stream" => r' = 0 /\ w' = 0 /\ ~overflow'
      /\ Delivers
  BY <1>1, <1>2, <1>3, <1>4, ReadDelivers
<1>6. PICK n \in Nat : /\ Pos' = Pos + n /\ Pos + n <= StreamLen
                       /\ out'.bytes = [i \in 1..n |-> Pos + i]
  BY <1>5 DEF Delivers
<1>7. Pos \in Nat
  BY <1>1, ReaderFacts
<1>8. /\ recd' \in Seq(1..StreamLen) /\ Len(recd') = Len(recd) + n
      /\ Len(recd') <= Pos'
      /\ \A i \in DOMAIN recd' : recd'[i] = Pos' - Len(recd') + i
  <2>1. Len(recd) <= Pos /\ \A i \in DOMAIN recd : recd[i] = Pos - Len(recd) + i
    BY <1>1 DEF SentInv
  <2> DEFINE t == [i \in 1..n |-> Pos + i]
  <2>2. /\ recd \o t \in Seq(1..StreamLen) /\ Len(recd \o t) = Len(recd) + n
        /\ Len(recd \o t) <= Pos + n
        /\ \A i \in DOMAIN (recd \o t) :
             (recd \o t)[i] = (Pos + n) - Len(recd \o t) + i
    BY <1>3, <1>6, <1>7, <2>1, SentGoesOn, SMTT(30)
  <2>3. recd' = recd \o t
    BY <1>2, <1>6
  <2> HIDE DEF t
  <2> QED
    BY <1>6, <2>2, <2>3
<1>9. /\ End' = End
      /\ Fails' <=> Fails
  BY <1>2 DEF End, Fails
<1>10. TypeOK'
  BY <1>1, <1>2, <1>5, <1>8, Types DEF TypeOK, Origins, Odds
<1>11. PlaceInv'
  BY <1>1, <1>2, <1>5, <1>9 DEF PlaceInv
<1>12. SentInv'
  BY <1>2, <1>8 DEF SentInv, Sending
<1>13. StartInv'
  BY <1>1, <1>2, <1>6, <1>8, <1>9 DEF StartInv
<1>14. EndInv' /\ PanicsOnlyIf'
  BY <1>2 DEF EndInv, PanicsOnlyIf
<1>15. CloseInv'
  BY <1>1, <1>2 DEF CloseInv, OriginReleased
<1> QED
  BY <1>5, <1>10, <1>11, <1>12, <1>13, <1>14, <1>15 DEF Inv

(* Regret takes the body back to where the decoder began. *)
LEMMA RegretInv ==
  ASSUME Inv, pc = "decode", Regretable!Regret, ~overflow, NextHandler,
         UNCHANGED <<task, top, stream, closes, origin, sized, recd, odd>>
  PROVE  Inv'
<1>1. /\ TypeOK /\ Regretable!TypeOK /\ Regretable!BufferIsTail /\ PlaceInv /\ OverflowInv
      /\ SentInv /\ StartInv /\ CloseInv
  BY Types DEF Inv
<1>2. /\ top' = top /\ stream' = stream /\ path' = path /\ chain' = chain
      /\ closes' = closes /\ origin' = origin /\ recd' = recd /\ sized' = sized
      /\ odd' = odd /\ ix' = ix + 1 /\ pc' = "handler"
      /\ src' = src /\ overflow' = overflow /\ r' = 0 /\ w' = w
  BY DEF task, NextHandler, Regretable!Regret
<1>3. Regretable!TypeOK' /\ Regretable!BufferIsTail'
  BY <1>1, ReaderStep
<1>4. /\ src \in 0..StreamLen /\ w \in 0..BufSize /\ StreamLen \in Nat /\ w <= src
      /\ BufSize \in Nat
  BY <1>1, ReaderFacts
<1>5. Pos' = src - w
  <2>1. Pos' = src' - w' + r'
    BY <1>2 DEF Pos
  <2> QED
    BY <1>2, <1>4, <2>1
<1>6. /\ Len(chain) \in Nat /\ ix \in Nat /\ ix >= 1 /\ stream \in Nat
      /\ Len(recd) \in Nat /\ DOMAIN recd = 1..Len(recd) /\ (recd = <<>> <=> Len(recd) = 0)
      /\ DOMAIN chain = 1..Len(chain)
  BY <1>1, ChainFacts
<1>7. recd = <<>> /\ ix <= Len(chain) /\ top = "reader" /\ chain[ix] = "image" /\ stream < ix
  BY <1>1 DEF SentInv, Sending, PlaceInv
<1>8. /\ End' = End
      /\ Fails' <=> Fails
  BY <1>2 DEF End, Fails
<1>9. TypeOK'
  <2>1. ix' \in 1..(Len(chain') + 1) /\ pc' \in Places
    BY <1>2, <1>6, <1>7 DEF Places
  <2> QED
    BY <1>1, <1>2, <1>3, <2>1, Types DEF TypeOK, Places, Origins, Odds
<1>10. PlaceInv'
  <2>1. stream' < ix' /\ ix \in DOMAIN chain /\ ix <= ix' /\ ix < ix'
    BY <1>2, <1>6, <1>7
  <2> QED
    BY <1>1, <1>2, <1>7, <1>8, <2>1 DEF PlaceInv
<1>11. OverflowInv' /\ EndInv' /\ PanicsOnlyIf'
  BY <1>2 DEF OverflowInv, EndInv, PanicsOnlyIf
<1>12. SentInv'
  <2>1. 0 <= Pos'
    BY <1>4, <1>5
  <2> QED
    BY <1>2, <1>6, <1>7, <2>1 DEF SentInv
<1>13. StartInv'
  <2> SUFFICES ASSUME "unencoded" \notin odd, ~Fails PROVE Len(recd) = Pos'
    BY <1>2, <1>8 DEF StartInv
  <2>1. w = src
    BY <1>1 DEF StartInv
  <2> QED
    BY <1>4, <1>5, <1>6, <1>7, <2>1
<1>14. CloseInv'
  BY <1>1, <1>2 DEF CloseInv, OriginReleased
<1> QED
  BY <1>3, <1>9, <1>10, <1>11, <1>12, <1>13, <1>14 DEF Inv

(* HandleImage puts a reader around a body that nobody has read, unless a  *)
(* handler before it gave that body up.                                    *)
LEMMA ImageStartsInv == Inv /\ ImageStarts => Inv'
<1> SUFFICES ASSUME Inv, ImageStarts PROVE Inv'
  OBVIOUS
<1>1. /\ TypeOK /\ Regretable!TypeOK /\ Regretable!BufferIsTail /\ PlaceInv
      /\ SentInv /\ StartInv /\ CloseInv
  BY Types DEF Inv
<1>2. /\ stream' = stream /\ path' = path /\ chain' = chain /\ ix' = ix
      /\ closes' = closes /\ origin' = origin /\ recd' = recd /\ odd' = odd
      /\ src' = src /\ FreshReader /\ top' = "reader" /\ pc' = "decode"
      /\ pc = "handler" /\ ix <= Len(chain) /\ chain[ix] = "image"
  BY DEF ImageStarts, Runs, task
<1>3. ~sized' /\ sized' \in BOOLEAN
  BY Zenon DEF ImageStarts
<1>4. /\ Len(chain) \in Nat /\ ix \in Nat /\ ix >= 1 /\ DOMAIN chain = 1..Len(chain)
      /\ Len(recd) \in Nat /\ DOMAIN recd = 1..Len(recd) /\ (recd = <<>> <=> Len(recd) = 0)
      /\ StreamLen \in Nat
  BY <1>1, ChainFacts
<1>5. ix \in DOMAIN chain
  BY <1>2, <1>4
<1>6. top = "stream"
  <2> SUFFICES ASSUME top = "reader" PROVE FALSE
    BY <1>1, Types
  <2>1. PICK j \in DOMAIN chain : chain[j] = "image" /\ j < ix
    BY <1>1, <1>2 DEF PlaceInv
  <2>2. chain \in Chains
    BY <1>1, Types
  <2>3. j = ix
    BY <1>2, <1>5, <2>1, <2>2, OneReaderAssumption
  <2> QED
    BY <1>4, <2>1, <2>3
<1>7. r = 0 /\ w = 0 /\ ~overflow /\ src \in 0..StreamLen
  BY <1>1, <1>6, ReaderFacts DEF PlaceInv
<1>8. Pos = src
  <2>1. Pos = src - w + r /\ src \in Int
    BY <1>4, <1>7 DEF Pos
  <2>2. \A a \in Int : a - 0 + 0 = a
    OBVIOUS
  <2> QED
    BY <1>7, <2>1, <2>2
<1>9. /\ Regretable!TypeOK' /\ Regretable!BufferIsTail' /\ OverflowInv'
      /\ r' = 0 /\ w' = 0 /\ ~overflow' /\ Pos' = src'
  BY <1>2, <1>7, FreshFacts
<1>10. /\ End' = End
       /\ Fails' <=> Fails
  BY <1>2 DEF End, Fails
<1>11. recd = <<>> /\ Len(recd) = 0
  BY <1>1, <1>2, <1>4 DEF SentInv, Sending
<1>12. TypeOK'
  BY <1>1, <1>2, <1>3, <1>9, Types DEF TypeOK, Origins, Odds, Places
<1>13. PlaceInv'
  <2>1. ix <= ix
    BY <1>4
  <2> QED
    BY <1>1, <1>2, <1>5, <1>10, <2>1 DEF PlaceInv
<1>14. SentInv'
  <2>1. Len(recd') <= Pos'
    BY <1>2, <1>4, <1>7, <1>9, <1>11
  <2> QED
    BY <1>2, <1>4, <1>11, <2>1 DEF SentInv
<1>15. StartInv'
  <2> SUFFICES ASSUME "unencoded" \notin odd, ~Fails PROVE w' = src'
    BY <1>2, <1>10 DEF StartInv
  <2>1. Len(recd) = Pos
    BY <1>1, <1>2 DEF StartInv
  <2> QED
    BY <1>2, <1>8, <1>9, <1>11, <2>1
<1>16. EndInv' /\ PanicsOnlyIf'
  BY <1>2 DEF EndInv, PanicsOnlyIf
<1>17. CloseInv'
  BY <1>1, <1>2 DEF CloseInv, OriginReleased
<1> QED
  BY <1>9, <1>12, <1>13, <1>14, <1>15, <1>16, <1>17 DEF Inv

(* HandleString and HandleBytes begin to read the body. *)
LEMMA ReadAllStartsInv == Inv /\ ReadAllStarts => Inv'
<1> SUFFICES ASSUME Inv, ReadAllStarts PROVE Inv'
  OBVIOUS
<1>1. /\ TypeOK /\ Regretable!TypeOK /\ Regretable!BufferIsTail /\ PlaceInv /\ OverflowInv
      /\ SentInv /\ CloseInv
  BY Types DEF Inv
<1>2. /\ UNCHANGED reader /\ top' = top /\ stream' = stream /\ path' = path
      /\ chain' = chain /\ ix' = ix /\ closes' = closes /\ origin' = origin
      /\ recd' = recd /\ odd' = odd /\ sized' = sized
      /\ pc' = "readall" /\ pc = "handler" /\ ix <= Len(chain)
  BY DEF ReadAllStarts, Runs, task
<1>3. /\ Regretable!TypeOK' /\ Regretable!BufferIsTail' /\ OverflowInv'
      /\ Pos' = Pos /\ src' = src /\ r' = r /\ w' = w /\ overflow' = overflow
  BY <1>1, <1>2, SameReader
<1>4. End' = End
  BY <1>2 DEF End
<1>5. TypeOK'
  BY <1>1, <1>2, <1>3, Types DEF TypeOK, Origins, Odds, Places
<1>6. PlaceInv'
  BY <1>1, <1>2, <1>3, <1>4 DEF PlaceInv
<1>7. SentInv'
  <2>1. Len(chain) \in Nat /\ ix \in Nat
    BY <1>1, ChainFacts
  <2>2. recd = <<>>
    BY <1>1, <1>2, <2>1 DEF SentInv, Sending
  <2> QED
    BY <1>1, <1>2, <1>3, <2>2 DEF SentInv
<1>8. StartInv' /\ EndInv' /\ PanicsOnlyIf'
  BY <1>2 DEF StartInv, EndInv, PanicsOnlyIf
<1>9. CloseInv'
  BY <1>1, <1>2 DEF CloseInv, OriginReleased
<1> QED
  BY <1>3, <1>5, <1>6, <1>7, <1>8, <1>9 DEF Inv

(* The body has come to its end, or to where it breaks off. *)
LEMMA SentStepInv == Inv /\ Sent => Inv'
<1> SUFFICES ASSUME Inv, Sent PROVE Inv'
  OBVIOUS
<1>1. /\ TypeOK /\ Regretable!TypeOK /\ Regretable!BufferIsTail /\ PlaceInv /\ OverflowInv
      /\ SentInv /\ StartInv /\ CloseInv
  BY Types DEF Inv
<1>2. /\ UNCHANGED reader /\ top' = top /\ stream' = stream /\ path' = path
      /\ chain' = chain /\ ix' = ix /\ closes' = closes
      /\ recd' = recd /\ odd' = odd /\ sized' = sized
      /\ pc = "handler" /\ ix > Len(chain) /\ Exhausted
  BY DEF Sent, task
<1>3. /\ pc' \in {"cut", "complete"}
      /\ pc' = "complete" => ~LooksCut
  BY DEF Sent
<1>4. origin' = origin
  BY DEF Sent
<1>5. origin' \in Origins
  BY <1>1, <1>4, Types
<1>6. /\ Regretable!TypeOK' /\ Regretable!BufferIsTail' /\ OverflowInv'
      /\ Pos' = Pos /\ src' = src /\ r' = r /\ w' = w /\ overflow' = overflow
  BY <1>1, <1>2, SameReader
<1>7. /\ End' = End
      /\ Fails' <=> Fails
  BY <1>2, <1>4 DEF End, Fails
<1>8. Pos = End
  <2>1. /\ src \in 0..StreamLen /\ w \in 0..BufSize /\ r \in Nat /\ StreamLen \in Nat
        /\ BufSize \in Nat /\ (~overflow => r <= w)
    BY <1>1, ReaderFacts
  <2>2. src = End /\ (top = "stream" \/ overflow \/ r >= w)
    BY <1>2 DEF Exhausted
  <2>3. CASE overflow
    BY <2>2, <2>3 DEF Pos
  <2>4. CASE ~overflow
    <3>1. r = w
      BY <1>1, <2>1, <2>2, <2>4 DEF PlaceInv
    <3>2. Pos = src - w + r
      BY <2>4 DEF Pos
    <3>3. \A a, b \in Int : a - b + b = a
      OBVIOUS
    <3> QED
      BY <2>1, <2>2, <3>1, <3>2, <3>3
  <2> QED
    BY <2>3, <2>4
<1>9. TypeOK'
  BY <1>1, <1>2, <1>3, <1>5, <1>6, Types DEF TypeOK, Origins, Odds, Places
<1>10. PlaceInv'
  BY <1>1, <1>2, <1>3, <1>4, <1>6, <1>7 DEF PlaceInv
<1>11. SentInv'
  <2>1. Sending /\ Sending'
    BY <1>2, <1>3 DEF Sending
  <2> QED
    BY <1>1, <1>2, <1>6, <2>1 DEF SentInv
<1>12. StartInv'
  BY <1>1, <1>2, <1>3, <1>6, <1>7 DEF StartInv
<1>13. EndInv'
  <2> SUFFICES ASSUME pc' = "complete"
               PROVE  /\ Pos = End
                      /\ Fails => path = "plain" /\ (sized => Len(recd) >= StreamLen)
    BY <1>2, <1>6, <1>7 DEF EndInv
  <2>1. ~LooksCut /\ path \in {"plain", "tls"}
    BY <1>1, <1>3, Types
  <2>2. Len(recd) \in Nat /\ StreamLen \in Nat
    BY <1>1, ChainFacts
  <2>3. Fails => path = "plain"
    BY <2>1 DEF LooksCut
  <2>4. Fails /\ sized => Len(recd) >= StreamLen
    BY <2>1, <2>2, <2>3 DEF LooksCut
  <2> QED
    BY <1>8, <2>3, <2>4
<1>14. CloseInv' /\ PanicsOnlyIf'
  BY <1>1, <1>2, <1>3, <1>4 DEF CloseInv, OriginReleased, PanicsOnlyIf
<1> QED
  BY <1>6, <1>9, <1>10, <1>11, <1>12, <1>13, <1>14 DEF Inv

(* The closes of a function that returns, or of ServeHTTP after a panic. *)
LEMMA OverInv == Inv /\ (Returns \/ Recover) => Inv'
<1> SUFFICES ASSUME Inv, Returns \/ Recover PROVE Inv'
  OBVIOUS
<1>1. /\ TypeOK /\ Regretable!TypeOK /\ Regretable!BufferIsTail /\ PlaceInv /\ OverflowInv
      /\ SentInv /\ CloseInv
  BY Types DEF Inv
<1>2. /\ UNCHANGED reader /\ top' = top /\ stream' = stream /\ path' = path
      /\ chain' = chain /\ ix' = ix /\ closes' = closes
      /\ recd' = recd /\ odd' = odd /\ sized' = sized /\ pc' = "over"
  BY DEF Returns, Recover, task
<1>3. /\ origin' \in Origins /\ origin'.end = origin.end
      /\ origin'.fails <=> origin.fails
      /\ origin'.closed \/ (path = "tls" /\ "replaced" \in odd)
  <2>1. origin \in Origins /\ path \in {"plain", "tls"}
    BY <1>1, Types
  <2>2. closes \/ origin.closed \/ "replaced" \in odd
    BY <1>1 DEF CloseInv
  <2>3. CASE Returns
    <3>1. origin' = [origin EXCEPT !.closed = @ \/ closes \/ path = "plain"]
      BY <2>3 DEF Returns, Close
    <3>2. /\ origin' \in Origins /\ origin'.end = origin.end
          /\ origin'.fails <=> origin.fails
          /\ origin'.closed <=> (origin.closed \/ closes \/ path = "plain")
      BY <2>1, <3>1, Zenon DEF Origins
    <3> QED
      BY <2>1, <2>2, <3>2
  <2>4. CASE Recover
    <3>1. origin' = [origin EXCEPT !.closed = TRUE]
      BY <2>4 DEF Recover
    <3> QED
      BY <2>1, <3>1, Zenon DEF Origins
  <2> QED
    BY <2>3, <2>4
<1>4. /\ Regretable!TypeOK' /\ Regretable!BufferIsTail' /\ OverflowInv'
      /\ Pos' = Pos /\ src' = src /\ r' = r /\ w' = w /\ overflow' = overflow
  BY <1>1, <1>2, SameReader
<1>5. End' = End
  BY <1>2, <1>3 DEF End
<1>6. TypeOK'
  BY <1>1, <1>2, <1>3, <1>4, Types DEF TypeOK, Origins, Odds, Places
<1>7. PlaceInv'
  BY <1>1, <1>2, <1>3, <1>4, <1>5 DEF PlaceInv
<1>8. SentInv'
  BY <1>1, <1>2, <1>4 DEF SentInv, Sending
<1>9. StartInv' /\ EndInv' /\ PanicsOnlyIf'
  BY <1>1, <1>2, <1>4 DEF StartInv, EndInv, PanicsOnlyIf
<1>10. CloseInv'
  <2>1. closes' \/ origin'.closed \/ "replaced" \in odd'
    BY <1>2, <1>3
  <2> QED
    BY <1>2, <1>3, <2>1 DEF CloseInv, OriginReleased
<1> QED
  BY <1>4, <1>6, <1>7, <1>8, <1>9, <1>10 DEF Inv

(* The decoder fails. *)
LEMMA DecodeFailsInv == Inv /\ DecodeFails => Inv'
<1> SUFFICES ASSUME Inv, DecodeFails PROVE Inv'
  OBVIOUS
<1>1. /\ pc = "decode" /\ Regretable!Regret
      /\ UNCHANGED <<task, top, stream, closes, origin, sized, recd, odd>>
  BY DEF DecodeFails
<1>2. TypeOK /\ OverflowInv /\ odd \in Odds
  BY Types DEF Inv
<1>3. CASE overflow
  <2>1. ~out'.ok
    <3>1. out' = [ok |-> FALSE, bytes |-> <<>>]
      BY <1>1, <1>3 DEF Regretable!Regret, Regretable!Panics
    <3> QED
      BY <3>1, Zenon
  <2>2. pc' = "panic" /\ UNCHANGED ix
    BY <2>1 DEF DecodeFails
  <2>3. r > BufSize
    BY <1>2, <1>3 DEF OverflowInv
  <2>4. /\ odd' = odd
        /\ UNCHANGED <<task, ix, top, stream, closes, origin, sized, recd>>
    BY <1>1, <2>2
  <2> QED
    BY <1>1, <1>2, <1>3, <2>2, <2>3, <2>4, PanicsInv
<1>4. CASE ~overflow
  <2>1. out'.ok
    <3>1. out' = [ok |-> TRUE, bytes |-> <<>>]
      BY <1>1, <1>4 DEF Regretable!Regret, Regretable!Returns
    <3> QED
      BY <3>1, Zenon
  <2>2. NextHandler
    BY <2>1 DEF DecodeFails
  <2> QED
    BY <1>1, <1>4, <2>2, RegretInv
<1> QED
  BY <1>3, <1>4

(* The decoder is through. *)
LEMMA DecodeSucceedsInv == Inv /\ DecodeSucceeds => Inv'
<1> SUFFICES ASSUME Inv, DecodeSucceeds PROVE Inv'
  OBVIOUS
<1>1. /\ pc = "decode" /\ UNCHANGED <<task, origin, sized, recd>>
  BY DEF DecodeSucceeds
<1>2. /\ TypeOK /\ odd \in Odds /\ sized \in BOOLEAN /\ closes \in BOOLEAN
      /\ origin \in Origins /\ PlaceInv
  BY Types DEF Inv
<1>3. ix <= Len(chain)
  BY <1>1, <1>2 DEF PlaceInv
<1>4. sized' \in BOOLEAN /\ origin' = origin /\ recd' = recd /\ UNCHANGED task
  BY <1>1, <1>2
<1>5. CASE NewBody /\ NextHandler /\ closes' = FALSE /\ odd' = odd \cup {"replaced"}
  <2>1. closes' \in BOOLEAN
    BY <1>5, Zenon
  <2>2. odd' \in Odds /\ "replaced" \in odd'
    BY <1>2, <1>5 DEF Odds
  <2> QED
    BY <1>1, <1>2, <1>4, <1>5, <2>1, <2>2, Replaces
<1>6. CASE NextHandler /\ SameBody /\ odd' = odd \cup {"unencoded"} /\ UNCHANGED closes
  <2>1. odd' \in Odds /\ odd \subseteq odd' /\ "unencoded" \in odd'
    BY <1>2, <1>6 DEF Odds
  <2> QED
    BY <1>1, <1>3, <1>4, <1>6, <2>1, PassOn
<1>7. CASE pc' = "panic" /\ SameBody /\ odd' = odd \cup {"type"} /\ UNCHANGED <<ix, closes>>
  <2>1. odd' \in Odds /\ odd \subseteq odd' /\ "type" \in odd'
    BY <1>2, <1>7 DEF Odds
  <2>2. UNCHANGED <<reader, task, ix, top, stream, closes, origin, sized, recd>>
    BY <1>1, <1>7 DEF SameBody
  <2> QED
    BY <1>1, <1>7, <2>1, <2>2, PanicsInv
<1> QED
  BY <1>5, <1>6, <1>7 DEF DecodeSucceeds

(* The other actions pass the body on, read from it or replace it. *)
LEMMA PassingInv ==
  ASSUME Inv, ImageSkipped \/ CharsetUnknown \/ ReadAllFails
  PROVE  Inv'
<1>1. /\ TypeOK /\ odd \in Odds /\ sized \in BOOLEAN /\ PlaceInv
  BY Types DEF Inv
<1>2. /\ NextHandler /\ SameBody /\ UNCHANGED <<task, closes, origin, recd>>
      /\ odd' = odd /\ pc \in {"handler", "readall"} /\ ix <= Len(chain)
      /\ ~Fails => pc = "handler"
  BY <1>1 DEF ImageSkipped, CharsetUnknown, ReadAllFails, Runs, PlaceInv
<1>3. sized' \in BOOLEAN
  BY <1>1, Zenon DEF ImageSkipped, CharsetUnknown, ReadAllFails
<1> QED
  BY <1>1, <1>2, <1>3, PassOn

(* io.ReadAll comes to the end of a body and it is replaced. *)
LEMMA ReadAllDoneInv == Inv /\ ReadAllDone => Inv'
<1> SUFFICES ASSUME Inv, ReadAllDone PROVE Inv'
  OBVIOUS
<1>1. /\ pc = "readall" /\ NewBody /\ NextHandler /\ UNCHANGED <<task, recd>>
      /\ odd' = odd
  BY DEF ReadAllDone
<1>2. /\ odd \in Odds /\ closes \in BOOLEAN /\ origin \in Origins
      /\ closes \/ origin.closed \/ "replaced" \in odd
  BY Types DEF Inv, CloseInv
<1>3. sized' \in BOOLEAN
  BY Zenon DEF ReadAllDone
<1>4. CASE chain[ix] = "string"
  <2>1. closes' = closes /\ origin' = origin
    BY <1>4 DEF ReadAllDone, ClosesBoth
  <2> QED
    BY <1>1, <1>2, <1>3, <2>1, Replaces
<1>5. CASE chain[ix] # "string"
  <2>1. closes' = FALSE /\ origin' = [origin EXCEPT !.closed = @ \/ closes]
    BY <1>5 DEF ReadAllDone
  <2>2. closes' \in BOOLEAN
    BY <2>1, Zenon
  <2>3. /\ origin' \in Origins /\ origin'.end = origin.end
        /\ origin'.fails = origin.fails
        /\ origin'.closed <=> origin.closed \/ closes
    BY <1>2, <2>1, Zenon DEF Origins
  <2> QED
    BY <1>1, <1>2, <1>3, <2>2, <2>3, Replaces
<1> QED
  BY <1>4, <1>5

(* Every step of a handler, and of sending, preserves the invariant. *)
LEMMA NextInv == Inv /\ [Next]_vars => Inv'
<1> SUFFICES ASSUME Inv, [Next]_vars PROVE Inv'
  OBVIOUS
<1>1. CASE ImageSkipped \/ CharsetUnknown \/ ReadAllFails
  BY <1>1, PassingInv
<1>2. CASE ImageStarts
  BY <1>2, ImageStartsInv
<1>3. CASE DecodeReads
  BY <1>3, HandlerReads DEF DecodeReads
<1>4. CASE DecodeFails
  BY <1>4, DecodeFailsInv
<1>5. CASE DecodeSucceeds
  BY <1>5, DecodeSucceedsInv
<1>6. CASE ReadAllStarts
  BY <1>6, ReadAllStartsInv
<1>7. CASE ReadAllReads
  BY <1>7, HandlerReads DEF ReadAllReads
<1>8. CASE ReadAllDone
  BY <1>8, ReadAllDoneInv
<1>9. CASE Send
  BY <1>9, SendInv
<1>10. CASE Sent
  BY <1>10, SentStepInv
<1>11. CASE Returns \/ Recover
  BY <1>11, OverInv
<1>12. CASE UNCHANGED vars
  <2>1. /\ src' = src /\ overflow' = overflow /\ r' = r /\ w' = w /\ buf' = buf
        /\ out' = out /\ path' = path /\ chain' = chain /\ ix' = ix /\ pc' = pc
        /\ top' = top /\ stream' = stream /\ closes' = closes /\ origin' = origin
        /\ sized' = sized /\ recd' = recd /\ odd' = odd
    BY <1>12 DEF vars, reader, task
  <2>2. TypeOK' /\ Regretable!BufferIsTail'
    BY <2>1 DEF Inv, TypeOK, Regretable!TypeOK, Regretable!BufferIsTail
  <2>3. /\ Pos' = Pos /\ End' = End
        /\ Fails' <=> Fails
        /\ Sending' <=> Sending
    BY <2>1 DEF Pos, End, Fails, Sending
  <2>4. PlaceInv' /\ OverflowInv' /\ SentInv'
    BY <2>1, <2>3 DEF Inv, PlaceInv, OverflowInv, SentInv
  <2>5. StartInv' /\ EndInv' /\ CloseInv' /\ PanicsOnlyIf'
    BY <2>1, <2>3 DEF Inv, StartInv, EndInv, CloseInv, OriginReleased, PanicsOnlyIf
  <2> QED
    BY <2>2, <2>4, <2>5 DEF Inv
<1> QED
  BY <1>1, <1>2, <1>3, <1>4, <1>5, <1>6, <1>7, <1>8, <1>9, <1>10, <1>11, <1>12
     DEF Next

(* The invariant holds in every run of the handlers. *)
LEMMA Invariance == Spec => []Inv
BY InitInv, NextInv, PTL DEF Spec

-----------------------------------------------------------------------------
(* The values of all variables, the reader's included, stay in their sets, *)
(* for every chain of handlers with one image handler at most.             *)
THEOREM TypeCorrect == Spec => []TypeOK
<1>1. Inv => TypeOK
  BY DEF Inv
<1> QED
  BY <1>1, Invariance, PTL

(* A body that is sent to its end, by ServeHTTP or by the TLS loop and     *)
(* through any chain of HandleImage, HandleString and HandleBytes, arrives *)
(* whole and in order, with the exceptions that WholeBody names.           *)
THEOREM WholeBodyHolds == Spec => []WholeBody
<1>1. Inv => WholeBody
  <2> SUFFICES ASSUME Inv, pc = "complete", "unencoded" \notin odd,
                      Fails => path = "tls" \/ sized
               PROVE  recd = [i \in 1..StreamLen |-> i]
    BY DEF WholeBody
  <2>1. TypeOK /\ Regretable!TypeOK /\ Regretable!BufferIsTail /\ PlaceInv /\ SentInv
        /\ StartInv /\ EndInv
    BY Types DEF Inv
  <2>2. /\ recd \in Seq(1..StreamLen) /\ Len(recd) \in Nat /\ StreamLen \in Nat
        /\ DOMAIN recd = 1..Len(recd)
    BY <2>1, ChainFacts
  <2>3. Pos \in 0..src /\ src \in 0..StreamLen
    BY <2>1, ReaderFacts
  <2>4. Len(recd) <= Pos /\ \A i \in DOMAIN recd : recd[i] = Pos - Len(recd) + i
    BY <2>1 DEF SentInv
  <2>5. Pos = End
    BY <2>1 DEF EndInv
  <2>6. Len(recd) = StreamLen /\ Pos = StreamLen
    <3>1. CASE Fails
      <4>1. Len(recd) >= StreamLen
        BY <2>1, <3>1, SMTT(30) DEF EndInv
      <4>2. PICK l \in Nat : l = Len(recd)
        BY <2>2
      <4>3. l <= Pos /\ l >= StreamLen /\ Pos <= StreamLen /\ Pos \in Nat
        BY <2>2, <2>3, <2>4, <4>1, <4>2
      <4>4. \A a, b, c \in Nat : a <= b /\ a >= c /\ b <= c => a = c /\ b = c
        OBVIOUS
      <4>5. l = StreamLen /\ Pos = StreamLen
        BY <2>2, <4>3, <4>4, Zenon
      <4> QED
        BY <4>2, <4>5
    <3>2. CASE ~Fails
      <4>1. Len(recd) = Pos
        BY <2>1, <3>2 DEF StartInv
      <4>2. End = StreamLen
        BY <2>1, <3>2 DEF PlaceInv, End, Fails
      <4> QED
        BY <2>5, <4>1, <4>2
    <3> QED
      BY <3>1, <3>2
  <2>7. \A i \in 1..StreamLen : recd[i] = i
    <3>1. \A i \in 1..StreamLen : StreamLen - StreamLen + i = i
      BY <2>2
    <3> QED
      BY <2>2, <2>4, <2>6, <3>1
  <2>8. recd = [i \in 1..Len(recd) |-> recd[i]]
    BY <2>2, SeqDef
  <2> QED
    BY <2>6, <2>7, <2>8
<1> QED
  BY <1>1, Invariance, PTL

(* HandleImage panics in no other way than the two that PanicsOnlyIf names *)
(* (regretreader.go's "regretting after overflow makes no sense" and the   *)
(* switch over content types).                                             *)
THEOREM PanicsOnlyIfHolds == Spec => []PanicsOnlyIf
<1>1. Inv => PanicsOnlyIf
  BY DEF Inv
<1> QED
  BY <1>1, Invariance, PTL

(* Whatever the handlers put in its place, the body the origin sent is     *)
(* closed when ServeHTTP has returned, with its reply or from a panic, and *)
(* in the TLS loop when its goroutine has: that is when the tunnel ends,   *)
(* not when the response is through.  A body that the TLS loop has lost to *)
(* an image that was replaced is the exception.                            *)
THEOREM OriginReleasedHolds == Spec => []OriginReleased
<1>1. Inv => OriginReleased
  BY DEF Inv, CloseInv
<1> QED
  BY <1>1, Invariance, PTL
=============================================================================
