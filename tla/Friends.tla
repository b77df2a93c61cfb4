------------------------------ MODULE Friends ------------------------------
(***************************************************************************)
(* The friends application (apps/friends/handlers.py and models.py):       *)
(* friend requests, friendships and friend groups in one database, served  *)
(* by several worker processes.                                            *)
(*                                                                         *)
(* Every HTTP request is one transaction (TransactionMiddleware; an        *)
(* exception rolls it back, utils.generic_exception_handler) at the        *)
(* isolation level `read committed': each query sees what other workers    *)
(* have committed by then.  A step of a worker is one query; the last      *)
(* write of a handler and its COMMIT are one step, because nothing of the  *)
(* transaction is visible before.  No table has a uniqueness constraint    *)
(* but the one Django generates for the rows of a many-to-many relation.   *)
(***************************************************************************)
EXTENDS Naturals, FiniteSets

CONSTANTS
  Users,        \* profiles
  Names,        \* names of groups
  Workers,      \* processes that serve HTTP requests
  MaxRequests,  \* bound: friend requests ever created
  MaxGroups     \* bound: groups ever created

ASSUME BoundAssumption == MaxRequests \in Nat /\ MaxGroups \in Nat
\* A key says what it is about, a pair of users or a group of one.
ASSUME KeyAssumption == Users \cap Names = {}

VARIABLES
  requests,     \* rows of FriendRequest
  friends,      \* rows of BaseProfile.friends, a symmetrical relation to itself
  groups,       \* rows of FriendGroup
  requestId, groupId,  \* last value of each table's id sequence
  serving,      \* what each worker is doing
  asked,        \* history: <<from, to>> of the requests ever created
  behind,       \* history: workers on whose subject another one has committed a
                \* change since they began
  contested     \* history: keys of the subjects such a worker has then written

tables == <<requests, friends, groups>>
ids == <<requestId, groupId>>
overlaps == <<behind, contested>>
vars == <<tables, ids, serving, asked, overlaps>>

\* Rows; `by' is history, the worker that inserted the row.
Request == [id : Nat, from : Users, to : Users, by : Workers]
Group == [id : Nat, owner : Users, name : Names]

\* A worker's local state: where it is, and what it has read so far.
Idle == [at |-> "idle"]
Working ==
  [at : {"check_sent", "check_received", "insert"}, from : Users, to : Users]
    \cup [at : {"discard", "add"}, request : Request]
    \cup [at : {"add_mirror", "accept"}, request : Request,
          rows : SUBSET (Users \X Users)]
    \cup [at : {"remove_mirror"}, me : Users, friend : Users,
          rows : SUBSET (Users \X Users)]
    \cup [at : {"insert_group"}, owner : Users, name : Names]
    \cup [at : {"delete_group"}, group : Group]

Init ==
  /\ requests = {} /\ friends = {} /\ groups = {}
  /\ requestId = 0 /\ groupId = 0
  /\ serving = [w \in Workers |-> Idle]
  /\ asked = {} /\ behind = {} /\ contested = {}

\* What a worker in state s works on: two users, or the group of one name.
Both(u, v) == {<<u, v>>, <<v, u>>}
Keys(s) ==
  CASE s.at \in {"check_sent", "check_received", "insert"} -> Both(s.from, s.to)
    [] s.at \in {"discard", "add", "add_mirror", "accept"} ->
         Both(s.request.from, s.request.to)
    [] s.at = "remove_mirror" -> Both(s.me, s.friend)
    [] s.at = "insert_group" -> {<<s.owner, s.name>>}
    [] s.at = "delete_group" -> {<<s.group.owner, s.group.name>>}
    [] s.at = "idle" -> {}

\* Worker w goes on as s, having only read.
Continue(w, s) ==
  /\ serving' = [serving EXCEPT ![w] = s]
  /\ behind' = IF s = Idle THEN behind \ {w} ELSE behind
  /\ UNCHANGED <<tables, ids, asked, contested>>

\* It COMMITs what it has written and answers.  Whoever is at work on the same is
\* behind from then on; what is written by one who is behind becomes contested.
Answer(w) ==
  LET written == IF tables' = tables THEN {} ELSE Keys(serving[w]) IN
  /\ serving' = [serving EXCEPT ![w] = Idle]
  /\ behind' = {x \in Workers \ {w} :
                  x \in behind \/ Keys(serving[x]) \cap written # {}}
  /\ contested' = contested \cup (IF w \in behind THEN written ELSE {})

Sent(u, v) == {r \in requests : r.from = u /\ r.to = v}

-----------------------------------------------------------------------------
(* FriendRequestHandler *)

\* create: `request_to in request_from.friends.all()', or an error.
CheckFriends(w, u, v) ==
  /\ serving[w] = Idle
  /\ <<u, v>> \notin friends
  /\ Continue(w, [at |-> "check_sent", from |-> u, to |-> v])

\* objects.get raises DoesNotExist exactly when no row matches: only then the
\* handler goes on.  (Several rows raise MultipleObjectsReturned: status 500.)
CheckSent(w) ==
  LET s == serving[w] IN
  /\ s.at = "check_sent"
  /\ Continue(w, IF Sent(s.from, s.to) = {} THEN [s EXCEPT !.at = "check_received"]
                                            ELSE Idle)

\* Faulty variant: only the requests of the same direction are looked for.
CheckReceivedSkipped(w) ==
  LET s == serving[w] IN
  /\ s.at = "check_received"
  /\ Continue(w, [s EXCEPT !.at = "insert"])

CheckReceived(w) ==
  LET s == serving[w] IN
  /\ s.at = "check_received"
  /\ Continue(w, IF Sent(s.to, s.from) = {} THEN [s EXCEPT !.at = "insert"]
                                            ELSE Idle)

\* Faulty variant: the row gets the value before the sequence advances.
InsertRequestLastId(w) ==
  LET s == serving[w] IN
  /\ s.at = "insert"
  /\ requestId < MaxRequests
  /\ requestId' = requestId + 1
  /\ requests' = requests \cup
       {[id |-> requestId, from |-> s.from, to |-> s.to, by |-> w]}
  /\ asked' = asked \cup {<<s.from, s.to>>}
  /\ UNCHANGED <<friends, groups, groupId>>
  /\ Answer(w)

InsertRequest(w) ==
  LET s == serving[w] IN
  /\ s.at = "insert"
  /\ requestId < MaxRequests
  /\ requestId' = requestId + 1
  /\ requests' = requests \cup
       {[id |-> requestId', from |-> s.from, to |-> s.to, by |-> w]}
  /\ asked' = asked \cup {<<s.from, s.to>>}
  /\ UNCHANGED <<friends, groups, groupId>>
  /\ Answer(w)

\* Faulty variant: the request is looked up by its id alone.
FindReceivedByAnyone(w, u, r, accept) ==
  /\ serving[w] = Idle
  /\ r \in requests
  /\ Continue(w, [at |-> IF accept THEN "add" ELSE "discard",
                  request |-> [r EXCEPT !.to = u]])

\* update: the request u was sent, to be accepted or ignored.
FindReceived(w, u, r, accept) ==
  /\ serving[w] = Idle
  /\ r \in requests /\ r.to = u
  /\ Continue(w, [at |-> IF accept THEN "add" ELSE "discard", request |-> r])

\* delete: the request u has sent.
FindSent(w, u, r) ==
  /\ serving[w] = Idle
  /\ r \in requests /\ r.from = u
  /\ Continue(w, [at |-> "discard", request |-> r])

\* friends.add(...) looks for the row and then for its mirror image, and
\* inserts each that it does not find.
AddFriend(w) ==
  LET s == serving[w] IN
  /\ s.at = "add"
  /\ Continue(w, [at |-> "add_mirror", request |-> s.request,
                  rows |-> {<<s.request.to, s.request.from>>} \ friends])

AddMirror(w) ==
  LET s == serving[w] IN
  /\ s.at = "add_mirror"
  /\ Continue(w, [s EXCEPT !.at = "accept",
       !.rows = @ \cup ({<<s.request.from, s.request.to>>} \ friends)])

\* friend_request.delete() and COMMIT.  Rows that another worker has inserted
\* since violate the relation's uniqueness: everything is rolled back.
Accept(w) ==
  LET s == serving[w] IN
  /\ s.at = "accept"
  /\ IF s.rows \cap friends = {}
     THEN friends' = friends \cup s.rows /\ requests' = requests \ {s.request}
     ELSE UNCHANGED <<friends, requests>>
  /\ UNCHANGED <<groups, ids, asked>>
  /\ Answer(w)

\* friend_request.delete() of one that is ignored or withdrawn; it is no error
\* when the row has gone meanwhile.
Discard(w) ==
  /\ serving[w].at = "discard"
  /\ requests' = requests \ {serving[w].request}
  /\ UNCHANGED <<friends, groups, ids, asked>>
  /\ Answer(w)

-----------------------------------------------------------------------------
(* FriendsHandler.delete: friends.remove(friend) deletes the row and then its *)
(* mirror image.                                                             *)

RemoveFriend(w, u, v) ==
  /\ serving[w] = Idle
  /\ Continue(w, [at |-> "remove_mirror", me |-> u, friend |-> v,
                  rows |-> {<<u, v>>} \cap friends])

\* Faulty variant: the relation is treated as one that is not symmetrical.
RemoveOneSided(w) ==
  LET s == serving[w] IN
  /\ s.at = "remove_mirror"
  /\ friends' = friends \ s.rows
  /\ UNCHANGED <<requests, groups, ids, asked>>
  /\ Answer(w)

RemoveMirror(w) ==
  LET s == serving[w] IN
  /\ s.at = "remove_mirror"
  /\ friends' = friends \ (s.rows \cup {<<s.friend, s.me>>})
  /\ UNCHANGED <<requests, groups, ids, asked>>
  /\ Answer(w)

-----------------------------------------------------------------------------
(* GroupHandler.  Its update never gets past its first query: it passes the *)
(* builtin function `id' to objects.get, which raises TypeError.            *)

OwnGroups(u, name) == {g \in groups : g.owner = u /\ g.name = name}

\* Faulty variant: the name is not looked for among the groups of its owner.
CheckNameSkipped(w, u, name) ==
  /\ serving[w] = Idle
  /\ Continue(w, [at |-> "insert_group", owner |-> u, name |-> name])

CheckName(w, u, name) ==
  /\ serving[w] = Idle
  /\ OwnGroups(u, name) = {}
  /\ Continue(w, [at |-> "insert_group", owner |-> u, name |-> name])

InsertGroup(w) ==
  LET s == serving[w] IN
  /\ s.at = "insert_group"
  /\ groupId < MaxGroups
  /\ groupId' = groupId + 1
  /\ groups' = groups \cup {[id |-> groupId', owner |-> s.owner, name |-> s.name]}
  /\ UNCHANGED <<requests, friends, requestId, asked>>
  /\ Answer(w)

FindGroup(w, u, g) ==
  /\ serving[w] = Idle
  /\ g \in groups /\ g.owner = u
  /\ Continue(w, [at |-> "delete_group", group |-> g])

\* Faulty variant: the groups of that name are deleted, whoever owns them.
DeleteGroupsNamed(w) ==
  /\ serving[w].at = "delete_group"
  /\ groups' = {g \in groups : g.name # serving[w].group.name}
  /\ UNCHANGED <<requests, friends, ids, asked>>
  /\ Answer(w)

DeleteGroup(w) ==
  /\ serving[w].at = "delete_group"
  /\ groups' = groups \ {serving[w].group}
  /\ UNCHANGED <<requests, friends, ids, asked>>
  /\ Answer(w)

-----------------------------------------------------------------------------
\* An exception (a signal receiver's, the database's) or the death of the
\* worker: the transaction is rolled back.
Rollback(w) ==
  /\ serving[w] # Idle
  /\ Continue(w, Idle)

Start(w) ==
  \/ \E u, v \in Users : CheckFriends(w, u, v)
  \/ \E u \in Users, r \in requests, accept \in BOOLEAN : FindReceived(w, u, r, accept)
  \/ \E u \in Users, r \in requests : FindSent(w, u, r)
  \/ \E u, v \in Users : RemoveFriend(w, u, v)
  \/ \E u \in Users, name \in Names : CheckName(w, u, name)
  \/ \E u \in Users, g \in groups : FindGroup(w, u, g)

Proceed(w) ==
  \/ CheckSent(w)
  \/ CheckReceived(w)
  \/ InsertRequest(w)
  \/ AddFriend(w)
  \/ AddMirror(w)
  \/ Accept(w)
  \/ Discard(w)
  \/ RemoveMirror(w)
  \/ InsertGroup(w)
  \/ DeleteGroup(w)

Next == \E w \in Workers : Start(w) \/ Proceed(w) \/ Rollback(w)

Spec == Init /\ [][Next]_vars

-----------------------------------------------------------------------------
(* Properties *)

\* Every table holds rows of its model with ids its sequence has given out, and
\* a worker's state is one the handlers can be in.
TypeOK ==
  /\ requests \in SUBSET Request /\ groups \in SUBSET Group
  /\ friends \in SUBSET (Users \X Users) /\ asked \in SUBSET (Users \X Users)
  /\ requestId \in 0 .. MaxRequests /\ groupId \in 0 .. MaxGroups
  /\ \A r \in requests : r.id \in 1 .. requestId
  /\ \A g \in groups : g.id \in 1 .. groupId
  /\ serving \in [Workers -> Working \cup {Idle}]
  /\ behind \in SUBSET Workers
  /\ contested \in SUBSET (Users \X (Users \cup Names))

\* Two users have at most one pending friend request between them, in either
\* direction: what the messages of FriendRequestHandler.create promise
\* (handlers.py:95 and 101).  Any number of workers may be at work on the two; the
\* promise is lost only once one of them has written although another had
\* committed a change of their requests or friendship since it began.
Between(r, q) == {r.from, r.to} = {q.from, q.to}
OneRequestPerPair ==
  \A r, q \in requests : Between(r, q) /\ <<r.from, r.to>> \notin contested => r = q

\* A pending request is between users who are not friends: create refuses
\* friends, and accepting leaves no other request of the two behind, unless the
\* handlers have overtaken each other.
NoRequestAmongFriends ==
  \A r \in requests : <<r.from, r.to>> \in friends => <<r.from, r.to>> \in contested

\* Friendship is mutual, although friends.add and friends.remove treat the two
\* rows of a friendship one after the other; unless one of them was overtaken.
Mutual ==
  \A u, v \in Users : <<u, v>> \in friends \ contested => <<v, u>> \in friends

\* However the workers interleave, pending requests between the same two users
\* were inserted by different workers: the check-then-insert of create lets
\* through at most as many of them as there are workers.
DuplicatesOnlyByRace ==
  \A r, q \in requests : Between(r, q) /\ r.by = q.by => r = q

\* Nobody becomes a friend of somebody without one of the two having asked the
\* other, whatever the workers do at the same time: only the recipient of a
\* request can accept it (handlers.py:139).
FriendsWereAsked ==
  \A pair \in friends : pair \in asked \/ <<pair[2], pair[1]>> \in asked

\* Names of an owner's groups are unique (handlers.py:202), but for a name that a
\* worker has written after another one had since it looked.
GroupNamesUnique ==
  \A g, h \in groups :
    g.owner = h.owner /\ g.name = h.name /\ <<g.owner, g.name>> \notin contested => g = h

\* Although every handler looks first and writes later, and any number of workers
\* run at the same time, each request does what its messages say at a single
\* moment, both rows of a friendship together, as long as no other request has
\* changed the same two users, or the same group, in between; and an overtaken
\* one still writes nothing but rows of the two, or the name, it was about.
Graph == INSTANCE FriendGraph WITH
  pending <- {<<r.from, r.to>> : r \in requests},
  named <- {<<g.owner, g.name>> : g \in groups}
ServesAtOnce == Graph!Spec
=============================================================================
