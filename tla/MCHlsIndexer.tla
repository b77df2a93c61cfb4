---------------------------- MODULE MCHlsIndexer ----------------------------
(***************************************************************************)
(* Instances of HlsIndexer for TLC.  The constants are all given in the    *)
(* configurations: HlsLive (a failure and a restart), HlsStream (several   *)
(* failures, liveness) and HlsUnlimited (active_limit = 0).                *)
(***************************************************************************)
EXTENDS HlsIndexer
=============================================================================
