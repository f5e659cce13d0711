---------------------------- MODULE MCTransport -----------------------------
(***************************************************************************)
(* Transport for TLC: callers and connections are model values; the sets   *)
(* of connect methods for each question.                                   *)
(***************************************************************************)
EXTENDS Transport, TLC

Sym == Permutations(Callers) \cup Permutations(Conns)

(* One site, directly. *)
OneSite == {[proxy |-> FALSE, scheme |-> "http", addr |-> 1]}

(* One site with and without TLS, directly and through a proxy, and a      *)
(* second one.                                                             *)
FiveWays == {[proxy |-> FALSE, scheme |-> "http", addr |-> 1],
             [proxy |-> FALSE, scheme |-> "https", addr |-> 1],
             [proxy |-> FALSE, scheme |-> "https", addr |-> 2],
             [proxy |-> TRUE, scheme |-> "http", addr |-> 1],
             [proxy |-> TRUE, scheme |-> "https", addr |-> 1]}
=============================================================================
