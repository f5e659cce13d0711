---------------------------- MODULE DuplexStream ----------------------------
(***************************************************************************)
(* What a tunnel promises its two peers, without the proxy in the middle:  *)
(* two byte streams, one from each peer to the other.  Items of a stream   *)
(* are numbered; they arrive in order, none twice and none left out, and a *)
(* reader is shown the end of a stream only behind its last item.  A       *)
(* stream that is `lossy' may leave items out and one that is `cut' may    *)
(* end early.                                                              *)
(***************************************************************************)
EXTENDS Integers, Sequences

CONSTANT Peers

VARIABLES sent,   \* items each peer has sent
          fin,    \* peers that will send no more
          rcvd,   \* the items of each peer's stream the other has read
          ended,  \* peers whose stream the other has read to its end
          lossy,  \* streams that may leave items out
          cut     \* streams that may end early

dvars == <<sent, fin, rcvd, ended, lossy, cut>>

Init ==
  /\ sent = [p \in Peers |-> 0]
  /\ fin = [p \in Peers |-> FALSE]
  /\ rcvd = [p \in Peers |-> <<>>]
  /\ ended = [p \in Peers |-> FALSE]
  /\ lossy \in [Peers -> BOOLEAN]
  /\ cut \in [Peers -> BOOLEAN]

Last(s) == IF s = <<>> THEN 0 ELSE s[Len(s)]

Send(p) ==
  /\ ~fin[p]
  /\ sent' = [sent EXCEPT ![p] = @ + 1]
  /\ UNCHANGED <<fin, rcvd, ended>>

Finish(p) ==
  /\ fin' = [fin EXCEPT ![p] = TRUE]
  /\ UNCHANGED <<sent, rcvd, ended>>

Deliver(p) ==
  /\ ~ended[p]
  /\ \E k \in (Last(rcvd[p]) + 1)..sent[p] :
       /\ k = Last(rcvd[p]) + 1 \/ lossy[p]
       /\ rcvd' = [rcvd EXCEPT ![p] = Append(@, k)]
  /\ UNCHANGED <<sent, fin, ended>>

End(p) ==
  /\ cut[p] \/ (fin[p] /\ (lossy[p] \/ Len(rcvd[p]) = sent[p]))
  /\ ended' = [ended EXCEPT ![p] = TRUE]
  /\ UNCHANGED <<sent, fin, rcvd>>

(* A stream that has become lossy or cut stays so. *)
Worsens == \A p \in Peers : (lossy[p] => lossy'[p]) /\ (cut[p] => cut'[p])

Next ==
  /\ Worsens
  /\ \/ \E p \in Peers : Send(p) \/ Finish(p) \/ Deliver(p) \/ End(p)
     \/ UNCHANGED <<sent, fin, rcvd, ended>>

Spec == Init /\ [][Next]_dvars
=============================================================================
