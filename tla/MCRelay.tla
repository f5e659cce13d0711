------------------------------ MODULE MCRelay -------------------------------
(***************************************************************************)
(* Relay for TLC: every mode in one run, and a client that says more       *)
(* than its target.                                                        *)
(***************************************************************************)
EXTENDS Relay

AllModes == {"half", "wait", "ws", "wss", "h2"}
TwoAndOne == [p \in {"client", "target"} |-> IF p = "client" THEN 2 ELSE 1]
=============================================================================
