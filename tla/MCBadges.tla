------------------------------ MODULE MCBadges ------------------------------
(***************************************************************************)
(* Instances of Badges for TLC: the threads of one process, interchangeable*)
(* as the users are.                                                       *)
(***************************************************************************)
EXTENDS Badges, TLC

CONSTANT server

OneProcess == [t \in Threads |-> server]

Symmetry == Permutations(Users) \cup Permutations(Threads)
=============================================================================
