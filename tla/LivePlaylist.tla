---------------------------- MODULE LivePlaylist ----------------------------
(***************************************************************************)
(* What a live stream promises its viewers, whatever files it is kept in:  *)
(* segments are produced in order, each playlist at any moment names a run *)
(* of consecutive segments that can be fetched, and a segment stops being  *)
(* available only when it is older than everything any playlist names.     *)
(***************************************************************************)
EXTENDS Integers

CONSTANT Feeds  \* the playlists viewers may read

VARIABLES
  newest,     \* the number of segments produced
  available,  \* the segments that can be fetched
  listed      \* the segments each playlist names

vars == <<newest, available, listed>>

Init ==
  /\ newest = 0
  /\ available = {}
  /\ listed = [f \in Feeds |-> {}]

Produce ==
  /\ newest' = newest + 1
  /\ available' = available \cup {newest + 1}
  /\ UNCHANGED listed

Publish(f) ==
  /\ \E a, b \in 1 .. newest + 1 :
       /\ a .. b \subseteq available
       /\ listed' = [listed EXCEPT ![f] = a .. b]
  /\ UNCHANGED <<newest, available>>

Expire(k) ==
  /\ \A f \in Feeds : \A j \in listed[f] : k < j
  /\ available' = available \ {k}
  /\ UNCHANGED <<newest, listed>>

Next ==
  \/ Produce
  \/ \E f \in Feeds : Publish(f)
  \/ \E k \in available : Expire(k)

Spec == Init /\ [][Next]_vars

\* The promise itself: nothing is named that cannot be fetched.
Servable == \A f \in Feeds : listed[f] \subseteq available
=============================================================================
