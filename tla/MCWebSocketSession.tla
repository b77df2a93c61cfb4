------------------------- MODULE MCWebSocketSession -------------------------
(***************************************************************************)
(* Instances of WebSocketSession for TLC; the configurations give the      *)
(* constants.  With MAX_LENGTH = 3 a stream of eight bytes holds two frames*)
(* of the greatest length, or one that is too long by three.               *)
(***************************************************************************)
EXTENDS WebSocketSession
=============================================================================
