--------------------------- MODULE MCWatchBridge ---------------------------
(***************************************************************************)
(* A small instance of WatchBridge: every script of at most MaxFrames      *)
(* frames.                                                                 *)
(***************************************************************************)
EXTENDS WatchBridge

CONSTANT MaxFrames

MCScripts == UNION {[1 .. n -> Kinds] : n \in 0 .. MaxFrames}
=============================================================================
