----------------------------- MODULE MCSocial ------------------------------
(***************************************************************************)
(* Instances of Social for TLC.  Sessions, workers and members are         *)
(* interchangeable, and every property is a safety property.               *)
(***************************************************************************)
EXTENDS Social, TLC

Symmetry == Permutations(Sessions) \cup Permutations(Workers) \cup Permutations(Members)
              \cup Permutations(Profiles \ Members)
=============================================================================
