-------------------------- MODULE RewindableStream --------------------------
(***************************************************************************)
(* What a RegretableReader promises its caller, without its buffer: a      *)
(* cursor over a byte stream that can be taken back to a mark.  The byte   *)
(* at position i of the stream is written i, so a delivered sequence says  *)
(* exactly which bytes of the stream it is made of.                        *)
(***************************************************************************)
EXTENDS Integers, Sequences

CONSTANTS StreamLen,  \* length of the stream under the reader
          BufSize,    \* how far the cursor may be taken back
          MaxRead     \* largest slice a caller passes to Read

VARIABLES hi,      \* bytes taken from the stream so far
          mark,    \* where Regret takes the cursor
          marked,  \* FALSE once the mark is too far behind to return to
          pos,     \* the cursor: bytes of the stream the caller is past
          out      \* what the last call returned

avars == <<hi, mark, marked, pos, out>>

(* What a call gives its caller: bytes, or a panic once the mark is gone. *)
Returns(bytes) == [ok |-> TRUE, bytes |-> bytes]
Panics == [ok |-> FALSE, bytes |-> <<>>]

(* The bytes at positions from+1 .. from+n of the stream. *)
Bytes(from, n) == [i \in 1..n |-> from + i]

Init ==
  /\ hi = 0 /\ mark = 0 /\ marked = TRUE /\ pos = 0 /\ out = Returns(<<>>)

(* Bytes that were taken back are delivered again before any new one. *)
ReadAgain ==
  /\ pos < hi
  /\ \E n \in 0..MaxRead : /\ pos + n <= hi
                           /\ pos' = pos + n
                           /\ out' = Returns(Bytes(pos, n))
  /\ UNCHANGED <<hi, mark, marked>>

(* New bytes are taken from the stream; the mark is lost with the first    *)
(* delivery that ends more than BufSize bytes after it.                    *)
ReadNew ==
  /\ pos = hi
  /\ \E n \in 0..MaxRead :
       /\ hi + n <= StreamLen
       /\ hi' = hi + n
       /\ pos' = hi + n
       /\ out' = Returns(Bytes(hi, n))
       /\ marked' = (marked /\ hi + n - mark <= BufSize)
       /\ mark' = IF marked' THEN mark ELSE hi'

Regret ==
  /\ IF marked THEN pos' = mark /\ out' = Returns(<<>>)
               ELSE pos' = pos /\ out' = Panics
  /\ UNCHANGED <<hi, mark, marked>>

(* Forget forgets everything read so far: it moves the mark to the cursor, *)
(* and what was taken back is still to be read.                            *)
Forget ==
  /\ IF marked THEN mark' = pos /\ out' = Returns(<<>>)
               ELSE mark' = mark /\ out' = Panics
  /\ UNCHANGED <<hi, marked, pos>>

Next == ReadAgain \/ ReadNew \/ Regret \/ Forget

Spec == Init /\ [][Next]_avars
=============================================================================
