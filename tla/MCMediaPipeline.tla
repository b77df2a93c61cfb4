-------------------------- MODULE MCMediaPipeline --------------------------
(***************************************************************************)
(* Instances of MediaPipeline for TLC: a FileWriter among elements that    *)
(* raise, behind a segmenter of either mode, with or without partials.     *)
(***************************************************************************)
EXTENDS MediaPipeline
=============================================================================
