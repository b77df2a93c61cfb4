----------------------------- MODULE MCFriends -----------------------------
(***************************************************************************)
(* Instances of Friends for TLC.  Users, workers and names are             *)
(* interchangeable, and every property is a safety property, so that each  *)
(* configuration may reduce by their permutations.                         *)
(***************************************************************************)
EXTENDS Friends, TLC

Symmetry == Permutations(Users) \cup Permutations(Workers) \cup Permutations(Names)
=============================================================================
