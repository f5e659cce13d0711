-------------------------- MODULE RegretableReader --------------------------
(***************************************************************************)
(* regretable/regretreader.go: a reader that keeps what it reads in a      *)
(* buffer, so that the caller can "regret" having read it.  The byte at    *)
(* position i of the underlying stream is written i; `out' is what the     *)
(* last call gave its caller (bytes, or a panic).                          *)
(***************************************************************************)
EXTENDS Integers, Sequences

CONSTANTS StreamLen,  \* length of the stream behind rb.reader
          BufSize,    \* len(rb.buf)
          MaxRead     \* largest len(p) a caller passes to Read

ASSUME SizesAssumption ==
  StreamLen \in Nat /\ BufSize \in Nat /\ MaxRead \in Nat

VARIABLES src,       \* bytes the underlying reader has given out
          overflow,  \* rb.overflow
          r, w,      \* rb.r, rb.w
          buf,       \* rb.buf
          out        \* result of the last call

vars == <<src, overflow, r, w, buf, out>>

Abstract == INSTANCE RewindableStream WITH
  hi     <- src,
  mark   <- IF overflow THEN src ELSE src - w,
  marked <- ~overflow,
  pos    <- IF overflow THEN src ELSE src - w + r

Returns(bytes) == [ok |-> TRUE, bytes |-> bytes]
Panics == [ok |-> FALSE, bytes |-> <<>>]

Min2(a, b) == IF a <= b THEN a ELSE b

(* Mistake: the copy starts at the front of the buffer, not at rb.w. *)
CopyInAtFront(n) ==
  [i \in 0..(BufSize - 1) |-> IF i < n THEN src + 1 + i ELSE buf[i]]

(* copy(rb.buf[rb.w:], p[:n]) for the n bytes that follow position src. *)
CopyIn(n) ==
  [i \in 0..(BufSize - 1) |-> IF w <= i /\ i < w + n THEN src + 1 + i - w
                                                     ELSE buf[i]]

(* rb.reader.Read(p): any number of bytes up to len(p), none at the end    *)
(* of the stream or with an error.                                         *)
UnderlyingRead(n) == n \in 0..MaxRead /\ src + n <= StreamLen

-----------------------------------------------------------------------------
NewRegretableReaderSize ==
  /\ src = 0 /\ overflow = FALSE /\ r = 0 /\ w = 0
  /\ buf = [i \in 0..(BufSize - 1) |-> 0]
  /\ out = Returns(<<>>)

ReadOverflowed ==
  /\ overflow
  /\ \E n \in 0..MaxRead : /\ UnderlyingRead(n)
                           /\ out' = Returns([i \in 1..n |-> src + i])
                           /\ src' = src + n
  /\ UNCHANGED <<overflow, r, w, buf>>

(* Mistake: pushed-back bytes are copied from the front of the buffer. *)
ReadBufferedFromFront ==
  /\ ~overflow /\ r < w
  /\ \E p \in 0..MaxRead :
       LET n == Min2(p, w - r)
       IN  /\ out' = Returns([i \in 1..n |-> buf[i - 1]])
           /\ r' = r + n
  /\ UNCHANGED <<src, overflow, w, buf>>

ReadBuffered ==
  /\ ~overflow /\ r < w
  /\ \E p \in 0..MaxRead :
       LET n == Min2(p, w - r)
       IN  /\ out' = Returns([i \in 1..n |-> buf[r + i - 1]])
           /\ r' = r + n
  /\ UNCHANGED <<src, overflow, w, buf>>

(* Mistake: rb.w advances by all that was read, not by what was copied. *)
ReadThroughUncapped ==
  /\ ~overflow /\ ~(r < w)
  /\ \E n \in 0..MaxRead :
       /\ UnderlyingRead(n)
       /\ out' = Returns([i \in 1..n |-> src + i])
       /\ src' = src + n
       /\ buf' = CopyIn(n)
       /\ w' = w + n
       /\ r' = w + n
       /\ UNCHANGED overflow

(* Mistake: a buffer that is just full is taken for one that overflowed. *)
ReadThroughWhenFull ==
  /\ ~overflow /\ ~(r < w)
  /\ \E n \in 0..MaxRead :
       LET bn == Min2(BufSize - w, n)
       IN  /\ UnderlyingRead(n)
           /\ out' = Returns([i \in 1..n |-> src + i])
           /\ src' = src + n
           /\ buf' = CopyIn(bn)
           /\ w' = w + bn
           /\ r' = w + n
           /\ overflow' = (w + n >= BufSize)

ReadThrough ==
  /\ ~overflow /\ ~(r < w)
  /\ \E n \in 0..MaxRead :
       LET bn == Min2(BufSize - w, n)
       IN  /\ UnderlyingRead(n)
           /\ out' = Returns([i \in 1..n |-> src + i])
           /\ src' = src + n
           /\ buf' = CopyIn(bn)
           /\ w' = w + bn
           /\ r' = w + n
           /\ overflow' = (bn < n)

Read == ReadOverflowed \/ ReadBuffered \/ ReadThrough

Regret ==
  /\ IF overflow THEN out' = Panics /\ r' = r
                 ELSE out' = Returns(<<>>) /\ r' = 0
  /\ UNCHANGED <<src, overflow, w, buf>>

Forget ==
  /\ IF overflow THEN out' = Panics /\ r' = r /\ w' = w
                 ELSE out' = Returns(<<>>) /\ r' = 0 /\ w' = 0
  /\ UNCHANGED <<src, overflow, buf>>

(* Forget while bytes that were pushed back are still unread. *)
ForgetsUnread == Forget /\ ~overflow /\ r < w

Init == NewRegretableReaderSize

Next == Read \/ Regret \/ Forget

Spec == Init /\ [][Next]_vars

-----------------------------------------------------------------------------
TypeOK ==
  /\ src \in 0..StreamLen
  /\ overflow \in BOOLEAN
  /\ w \in 0..BufSize
  /\ r \in Nat
  /\ buf \in [0..(BufSize - 1) -> Nat]

(* While reading can still be regretted, the buffer holds exactly the last *)
(* w bytes taken from the stream, in order, and the index rb.r stays among *)
(* them: what Regret pushes back is what was read since the last Forget,   *)
(* whatever short reads and slice sizes came between.                      *)
BufferIsTail ==
  ~overflow => /\ r <= w /\ w <= src
               /\ \A i \in 0..(w - 1) : buf[i] = src - w + i + 1

(* The whole reader behaves as a cursor over the stream that can be taken  *)
(* back to a mark: Read delivers consecutive bytes from the cursor,        *)
(* pushed-back ones first, whatever the slice sizes and short reads.  One  *)
(* kind of call is excepted, because the code drops bytes in it that its   *)
(* documentation keeps: a Forget with pushed-back bytes unread.            *)
ImplementsRewindableStream ==
  Abstract!Init /\ [][Abstract!Next \/ ForgetsUnread]_(Abstract!avars)
=============================================================================
