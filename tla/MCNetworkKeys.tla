--------------------------- MODULE MCNetworkKeys ---------------------------
(***************************************************************************)
(* Instances of NetworkKeys for TLC.  Networks, forms and secrets are      *)
(* interchangeable.                                                        *)
(***************************************************************************)
EXTENDS NetworkKeys, TLC

Symmetry == Permutations(Networks) \cup Permutations(Editors) \cup Permutations(Secrets)
=============================================================================
