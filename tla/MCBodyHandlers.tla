--------------------------- MODULE MCBodyHandlers ---------------------------
(***************************************************************************)
(* BodyHandlers for TLC: every chain of up to two handlers, of which at    *)
(* most one handles images (two would need two readers).                   *)
(***************************************************************************)
EXTENDS BodyHandlers

ShortChains ==
  {c \in UNION {[1..n -> Handlers] : n \in 0..2} : c # <<"image", "image">>}
=============================================================================
