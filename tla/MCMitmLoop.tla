----------------------------- MODULE MCMitmLoop -----------------------------
(***************************************************************************)
(* MitmLoop for TLC: both loops, each on its own from the first state on.  *)
(***************************************************************************)
EXTENDS MitmLoop

BothLoops == {"tls", "http"}
=============================================================================
