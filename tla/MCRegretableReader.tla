------------------------- MODULE MCRegretableReader -------------------------
(***************************************************************************)
(* RegretableReader for TLC: a stream of a few bytes, a buffer shorter     *)
(* than the stream and reads longer than the buffer, so that every read    *)
(* can fit, fill or overflow the buffer.                                   *)
(***************************************************************************)
EXTENDS RegretableReader

MCStreamLen == 7
MCBufSize == 3
MCMaxRead == 4
=============================================================================
