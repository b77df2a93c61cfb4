---------------------------- MODULE FriendGraph ----------------------------
(***************************************************************************)
(* What the friends application does, told without tables, queries and     *)
(* transactions: a user asks another one, who becomes a friend or not;     *)
(* friends part; users name groups.  Each is a single step, allowed or     *)
(* refused by what is true at that moment.  Only where requests to the     *)
(* service have overtaken each other is a step not refused, or done by     *)
(* halves; what they have touched is contested from then on.               *)
(***************************************************************************)
CONSTANTS Users, Names

VARIABLES
  pending,  \* <<u, v>>: u has asked v and waits for an answer
  friends,  \* <<u, v>> and <<v, u>>: u and v are friends
  named,    \* <<u, name>>: u has a group of that name
  contested \* <<u, v>> and <<v, u>>, or <<u, name>>: overtaken requests wrote there

vars == <<pending, friends, named, contested>>

Both(u, v) == {<<u, v>>, <<v, u>>}

Init == pending = {} /\ friends = {} /\ named = {} /\ contested = {}

Ask(u, v) ==
  /\ Both(u, v) \cap (pending \cup friends) = {}
  /\ pending' = pending \cup {<<u, v>>}
  /\ UNCHANGED <<friends, named, contested>>

Befriend(u, v) ==
  /\ <<u, v>> \in pending
  /\ pending' = pending \ Both(u, v)
  /\ friends' = friends \cup Both(u, v)
  /\ UNCHANGED <<named, contested>>

\* The one who was asked ignores the question, or the one who asked withdraws it.
Settle(u, v) ==
  /\ pending' = pending \ Both(u, v)
  /\ UNCHANGED <<friends, named, contested>>

Part(u, v) ==
  /\ friends' = friends \ Both(u, v)
  /\ UNCHANGED <<pending, named, contested>>

Name(u, name) ==
  /\ <<u, name>> \notin named
  /\ named' = named \cup {<<u, name>>}
  /\ UNCHANGED <<pending, friends, contested>>

Forget(u, name) ==
  /\ named' = named \ {<<u, name>>}
  /\ UNCHANGED <<pending, friends, contested>>

-----------------------------------------------------------------------------
(* The same where requests overtake each other: nothing is refused, and what is *)
(* added or removed may be one row of two or none, but never anybody else's.    *)

LateAsk(u, v) ==
  /\ pending' = pending \cup {<<u, v>>}
  /\ contested' = contested \cup Both(u, v)
  /\ UNCHANGED <<friends, named>>

LateBefriend(u, v) ==
  /\ \E gone, new \in SUBSET Both(u, v) :
       pending' = pending \ gone /\ friends' = friends \cup new
  /\ contested' = contested \cup Both(u, v)
  /\ UNCHANGED named

LateSettle(u, v) ==
  /\ \E gone \in SUBSET Both(u, v) : pending' = pending \ gone
  /\ contested' = contested \cup Both(u, v)
  /\ UNCHANGED <<friends, named>>

LatePart(u, v) ==
  /\ \E gone \in SUBSET Both(u, v) : friends' = friends \ gone
  /\ contested' = contested \cup Both(u, v)
  /\ UNCHANGED <<pending, named>>

LateName(u, name) ==
  /\ named' = named \cup {<<u, name>>}
  /\ contested' = contested \cup {<<u, name>>}
  /\ UNCHANGED <<pending, friends>>

LateForget(u, name) ==
  /\ \E gone \in SUBSET {<<u, name>>} : named' = named \ gone
  /\ contested' = contested \cup {<<u, name>>}
  /\ UNCHANGED <<pending, friends>>

-----------------------------------------------------------------------------
Timely ==
  \/ \E u, v \in Users : Ask(u, v) \/ Befriend(u, v) \/ Settle(u, v) \/ Part(u, v)
  \/ \E u \in Users, name \in Names : Name(u, name) \/ Forget(u, name)

Late ==
  \/ \E u, v \in Users :
       LateAsk(u, v) \/ LateBefriend(u, v) \/ LateSettle(u, v) \/ LatePart(u, v)
  \/ \E u \in Users, name \in Names : LateName(u, name) \/ LateForget(u, name)

Next == Timely \/ Late

Spec == Init /\ [][Next]_vars
=============================================================================
