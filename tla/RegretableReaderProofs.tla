----------------------- MODULE RegretableReaderProofs -----------------------
(***************************************************************************)
(* Proofs about RegretableReader for every stream length, buffer size and  *)
(* slice size.  BufferIsTail is inductive together with TypeOK, and is     *)
(* what the refinement of RewindableStream rests on.                       *)
(***************************************************************************)
EXTENDS RegretableReader, TLAPS

(* The inductive invariant. *)
Inv == TypeOK /\ BufferIsTail

(* The initial state of NewRegretableReaderSize satisfies the invariant. *)
LEMMA InitInv == Init => Inv
<1> SUFFICES ASSUME Init PROVE Inv
  OBVIOUS
<1> USE SizesAssumption DEF Init, NewRegretableReaderSize
<1>1. overflow \in BOOLEAN
  BY Zenon
<1>2. TypeOK
  <2>1. buf \in [0..(BufSize - 1) -> Nat]
    OBVIOUS
  <2> QED
    BY <1>1, <2>1 DEF TypeOK
<1>3. BufferIsTail
  BY DEF BufferIsTail
<1> QED
  BY <1>2, <1>3 DEF Inv

(* Copying n bytes behind rb.w keeps what is before rb.w and appends the   *)
(* next n bytes of the stream (the copy in Read).                          *)
LEMMA CopyInAppends ==
  ASSUME TypeOK, NEW n \in Nat, w + n <= BufSize
  PROVE  /\ CopyIn(n) \in [0..(BufSize - 1) -> Nat]
         /\ \A i \in 0..(w - 1) : CopyIn(n)[i] = buf[i]
         /\ \A i \in w..(w + n - 1) : CopyIn(n)[i] = src + 1 + i - w
BY SizesAssumption DEF TypeOK, CopyIn

(* Every call of Read, Regret and Forget preserves the invariant. *)
LEMMA NextInv == Inv /\ [Next]_vars => Inv'
<1> SUFFICES ASSUME Inv, [Next]_vars PROVE Inv'
  OBVIOUS
<1> USE SizesAssumption DEF Inv
<1>1. CASE ReadOverflowed
  BY <1>1 DEF ReadOverflowed, UnderlyingRead, TypeOK, BufferIsTail
<1>2. CASE ReadBuffered
  <2> PICK p \in 0..MaxRead : r' = r + Min2(p, w - r)
    BY <1>2 DEF ReadBuffered
  <2>1. /\ ~overflow /\ r < w
        /\ UNCHANGED <<src, overflow, w, buf>>
    BY <1>2 DEF ReadBuffered
  <2>2. r' \in Nat /\ r' <= w
    BY <2>1 DEF TypeOK, Min2
  <2> QED
    BY <2>1, <2>2 DEF TypeOK, BufferIsTail
<1>3. CASE ReadThrough
  <2>1. PICK n \in 0..MaxRead :
          /\ UnderlyingRead(n)
          /\ src' = src + n
          /\ buf' = CopyIn(Min2(BufSize - w, n))
          /\ w' = w + Min2(BufSize - w, n)
          /\ r' = w + n
          /\ overflow' = (Min2(BufSize - w, n) < n)
    BY <1>3 DEF ReadThrough
  <2> DEFINE bn == Min2(BufSize - w, n)
  <2>2. bn \in Nat /\ bn <= n /\ w + bn <= BufSize /\ n \in Nat
    BY DEF Min2, TypeOK
  <2>3. r = w /\ w <= src
    BY <1>3 DEF ReadThrough, TypeOK, BufferIsTail
  <2>4. TypeOK'
    <3>1. buf' \in [0..(BufSize - 1) -> Nat]
      BY <2>1, <2>2, CopyInAppends
    <3>2. src' \in 0..StreamLen /\ w' \in 0..BufSize /\ r' \in Nat
      BY <2>1, <2>2 DEF TypeOK, UnderlyingRead
    <3> QED
      BY <2>1, <3>1, <3>2 DEF TypeOK
  <2>5. BufferIsTail'
    <3> SUFFICES ASSUME ~overflow'
                 PROVE  /\ r' <= w' /\ w' <= src'
                        /\ \A i \in 0..(w' - 1) : buf'[i] = src' - w' + i + 1
      BY DEF BufferIsTail
    <3>1. bn = n
      <4>1. ~(bn < n)
        BY <2>1, Zenon
      <4> QED
        BY <4>1, <2>2
    <3>2. r' <= w' /\ w' <= src'
      BY <2>1, <2>2, <2>3, <3>1 DEF TypeOK
    <3>3. ASSUME NEW i \in 0..(w' - 1)
          PROVE  buf'[i] = src' - w' + i + 1
      <4>1. /\ i \in 0..(w - 1) => buf'[i] = buf[i]
            /\ i \in w..(w + n - 1) => buf'[i] = src + 1 + i - w
        BY <2>1, <2>2, <3>1, CopyInAppends
      <4>2. i \in 0..(w - 1) => buf[i] = src - w + i + 1
        BY <1>3 DEF ReadThrough, BufferIsTail
      <4>3. src' - w' = src - w
        BY <2>1, <2>2, <3>1 DEF TypeOK
      <4>4. i \in 0..(w - 1) \/ i \in w..(w + n - 1)
        BY <2>1, <2>2, <3>1 DEF TypeOK
      <4> QED
        BY <4>1, <4>2, <4>3, <4>4, <2>2 DEF TypeOK
    <3> QED
      BY <3>2, <3>3
  <2> QED
    BY <2>4, <2>5
<1>4. CASE Regret
  BY <1>4 DEF Regret, TypeOK, BufferIsTail
<1>5. CASE Forget
  BY <1>5 DEF Forget, TypeOK, BufferIsTail
<1>6. CASE UNCHANGED vars
  BY <1>6 DEF vars, TypeOK, BufferIsTail
<1> QED
  BY <1>1, <1>2, <1>3, <1>4, <1>5, <1>6 DEF Next, Read

(* The invariant holds in every reachable state. *)
LEMMA InvHolds == Spec => []Inv
BY InitInv, NextInv, PTL DEF Spec

(* RegretableReader keeps its fields in range: rb.w never leaves the       *)
(* buffer.                                                                 *)
THEOREM TypeCorrect == Spec => []TypeOK
BY InvHolds, PTL DEF Inv

(* What Regret would push back is always exactly what was read since the   *)
(* last Forget, in the order it was read.                                  *)
THEOREM TailBuffered == Spec => []BufferIsTail
BY InvHolds, PTL DEF Inv

-----------------------------------------------------------------------------
(* The state of a fresh reader is a fresh cursor at the stream's start. *)
LEMMA InitRefines == Init => Abstract!Init
BY SizesAssumption DEF Init, NewRegretableReaderSize, Returns,
                       Abstract!Init, Abstract!Returns

(* Reading pushed-back bytes from the buffer delivers them again, in       *)
(* stream order, from the cursor on.                                       *)
LEMMA ReadBufferedRefines == Inv /\ ReadBuffered => Abstract!ReadAgain
<1> SUFFICES ASSUME Inv, ReadBuffered PROVE Abstract!ReadAgain
  OBVIOUS
<1> USE SizesAssumption
<1>1. PICK p \in 0..MaxRead :
        /\ r' = r + Min2(p, w - r)
        /\ out' = Returns([i \in 1..Min2(p, w - r) |-> buf[r + i - 1]])
  BY DEF ReadBuffered
<1>2. /\ overflow = FALSE /\ r < w
      /\ UNCHANGED <<src, overflow, w, buf>>
  BY Zenon DEF ReadBuffered, Inv, TypeOK
<1> DEFINE n == Min2(p, w - r)
           pos == src - w + r
<1>3. n \in 0..MaxRead /\ r + n <= w
  BY <1>2 DEF Min2, Inv, TypeOK
<1>4. [i \in 1..n |-> buf[r + i - 1]] = [i \in 1..n |-> pos + i]
  <2> SUFFICES ASSUME NEW i \in 1..n PROVE buf[r + i - 1] = pos + i
    OBVIOUS
  <2>1. r + i - 1 \in 0..(w - 1)
    BY <1>3 DEF Inv, TypeOK
  <2> QED
    BY <2>1, <1>2, <1>3 DEF Inv, TypeOK, BufferIsTail
<1>5. pos + n <= src /\ pos < src
  BY <1>2, <1>3 DEF Inv, TypeOK
<1>6. src' - w' + r' = pos + n
  BY <1>1, <1>2, <1>3 DEF Inv, TypeOK
<1>7. out' = Abstract!Returns(Abstract!Bytes(pos, n))
  BY <1>1, <1>4 DEF Returns, Abstract!Returns, Abstract!Bytes
<1> QED
  BY <1>2, <1>3, <1>5, <1>6, <1>7 DEF Abstract!ReadAgain

(* Reading from the underlying stream delivers its next bytes, and the     *)
(* mark is lost exactly when the buffer could not take them all.           *)
LEMMA ReadThroughRefines == Inv /\ ReadThrough => Abstract!ReadNew
<1> SUFFICES ASSUME Inv, ReadThrough PROVE Abstract!ReadNew
  OBVIOUS
<1> USE SizesAssumption
<1>1. PICK n \in 0..MaxRead :
        /\ UnderlyingRead(n)
        /\ out' = Returns([i \in 1..n |-> src + i])
        /\ src' = src + n
        /\ w' = w + Min2(BufSize - w, n)
        /\ r' = w + n
        /\ overflow' = (Min2(BufSize - w, n) < n)
  BY DEF ReadThrough
<1>2. overflow = FALSE /\ r = w /\ w <= src
  <2>1. overflow = FALSE /\ ~(r < w)
    BY Zenon DEF ReadThrough, Inv, TypeOK
  <2> QED
    BY <2>1 DEF Inv, TypeOK, BufferIsTail
<1>3. src - w + r = src /\ src - (src - w) = w
  BY <1>2 DEF Inv, TypeOK
<1>4. out' = Abstract!Returns(Abstract!Bytes(src, n))
  BY <1>1 DEF Returns, Abstract!Returns, Abstract!Bytes
<1>5. CASE Min2(BufSize - w, n) < n
  <2>1. overflow' = TRUE
    BY <1>1, <1>5, Zenon
  <2>2. ~(src + n - (src - w) <= BufSize)
    BY <1>5 DEF Min2, Inv, TypeOK
  <2>3. (~overflow') = (~overflow /\ src + n - (src - w) <= BufSize)
    BY <1>2, <2>1, <2>2, Zenon
  <2> QED
    BY <1>1, <1>2, <1>3, <1>4, <2>1, <2>3
       DEF Abstract!ReadNew, UnderlyingRead
<1>6. CASE ~(Min2(BufSize - w, n) < n)
  <2>1. overflow' = FALSE
    <3>1. overflow' \in BOOLEAN
      BY NextInv DEF Next, Read, Inv, TypeOK
    <3> QED
      BY <1>1, <1>6, <3>1, Zenon
  <2>2. Min2(BufSize - w, n) = n /\ src + n - (src - w) <= BufSize
    BY <1>6 DEF Min2, Inv, TypeOK
  <2>3. src' - w' = src - w /\ src' - w' + r' = src + n
    BY <1>1, <1>2, <2>2 DEF Inv, TypeOK
  <2> QED
    BY <1>1, <1>2, <1>3, <1>4, <2>1, <2>2, <2>3
       DEF Abstract!ReadNew, UnderlyingRead
<1> QED
  BY <1>5, <1>6

(* Forgetting, with nothing pushed back, moves the mark to the cursor and  *)
(* leaves the cursor where it is: behind every byte taken.                 *)
LEMMA ForgetRefines == Inv /\ Forget /\ ~ForgetsUnread => Abstract!Forget
<1> SUFFICES ASSUME Inv, Forget, ~ForgetsUnread PROVE Abstract!Forget
  OBVIOUS
<1>1. CASE overflow
  BY <1>1 DEF Forget, Panics, Abstract!Forget, Abstract!Panics
<1>2. CASE ~overflow
  <2>1. r = w /\ w <= src /\ w \in Nat /\ src \in Nat
    BY <1>2, SizesAssumption DEF ForgetsUnread, Inv, TypeOK, BufferIsTail
  <2>2. /\ out' = Returns(<<>>) /\ r' = 0 /\ w' = 0
        /\ UNCHANGED <<src, overflow>>
    BY <1>2 DEF Forget
  <2>3. src - w + r = src /\ src' - w' = src /\ src' - w' + r' = src
    BY <2>1, <2>2
  <2> QED
    BY <1>2, <2>2, <2>3 DEF Abstract!Forget, Returns, Abstract!Returns
<1> QED
  BY <1>1, <1>2

(* Every step of the reader is a step of the cursor, or leaves it alone,   *)
(* or forgets unread bytes.                                                *)
LEMMA NextRefines ==
  Inv /\ [Next]_vars => [Abstract!Next \/ ForgetsUnread]_(Abstract!avars)
<1> SUFFICES ASSUME Inv, [Next]_vars
             PROVE  Abstract!Next \/ ForgetsUnread \/ UNCHANGED Abstract!avars
  OBVIOUS
<1> USE SizesAssumption
<1>1. CASE ReadOverflowed
  <2>1. PICK n \in 0..MaxRead :
          /\ UnderlyingRead(n)
          /\ out' = Returns([i \in 1..n |-> src + i])
          /\ src' = src + n
    BY <1>1 DEF ReadOverflowed
  <2>2. overflow = TRUE /\ overflow' = TRUE
    BY <1>1, Zenon DEF ReadOverflowed, Inv, TypeOK
  <2>3. Abstract!ReadNew
    BY <2>1, <2>2 DEF Abstract!ReadNew, UnderlyingRead, Returns,
                      Abstract!Returns, Abstract!Bytes
  <2> QED
    BY <2>3 DEF Abstract!Next
<1>2. CASE ReadBuffered
  BY <1>2, ReadBufferedRefines DEF Abstract!Next
<1>3. CASE ReadThrough
  BY <1>3, ReadThroughRefines DEF Abstract!Next
<1>4. CASE Regret
  BY <1>4 DEF Regret, Abstract!Next, Abstract!Regret, Returns, Panics,
              Abstract!Returns, Abstract!Panics, Inv, TypeOK
<1>5. CASE Forget
  BY <1>5, ForgetRefines DEF Abstract!Next
<1>6. CASE UNCHANGED vars
  BY <1>6 DEF vars, Abstract!avars
<1> QED
  BY <1>1, <1>2, <1>3, <1>4, <1>5, <1>6 DEF Next, Read

(* RegretableReader implements RewindableStream: for every stream, buffer  *)
(* and slice size, Read delivers consecutive bytes from a cursor that      *)
(* Regret takes back to the mark and Forget leaves alone, but for a Forget *)
(* with pushed-back bytes unread.                                          *)
THEOREM Refinement == Spec => ImplementsRewindableStream
<1>1. Init => Abstract!Init
  BY InitRefines
<1>2. Inv /\ [Next]_vars => [Abstract!Next \/ ForgetsUnread]_(Abstract!avars)
  BY NextRefines
<1> QED
  BY <1>1, <1>2, InvHolds, PTL
     DEF Spec, ImplementsRewindableStream
=============================================================================
