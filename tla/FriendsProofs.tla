--------------------------- MODULE FriendsProofs ---------------------------
(***************************************************************************)
(* Theorems about Friends for any users and any number of workers: who     *)
(* inserted what (RaceInv), who asked whom (AskedInv), and that what a     *)
(* handler has read is still true when it writes, unless another one has   *)
(* overtaken it (FreshInv), so that the handlers implement FriendGraph,    *)
(* where each request is a single step.                                    *)
(***************************************************************************)
EXTENDS Friends, TLAPS

\* The worker that inserted a pending request is not about to insert another
\* one between the same users.
RaceInv ==
  \A r \in requests :
    LET s == serving[r.by] IN
    /\ s.at = "check_received" => ~(s.from = r.from /\ s.to = r.to)
    /\ s.at = "insert" => {s.from, s.to} # {r.from, r.to}

\* Requests that exist or that a worker is accepting were once inserted; the
\* rows of friends it is going to add or remove are those of the two users.
AskedStage(s) ==
  /\ s.at \in {"add", "add_mirror", "accept"} =>
       <<s.request.from, s.request.to>> \in asked
  /\ s.at \in {"add_mirror", "accept"} =>
       s.rows \subseteq {<<s.request.to, s.request.from>>,
                         <<s.request.from, s.request.to>>}
  /\ s.at = "remove_mirror" => s.rows \subseteq {<<s.me, s.friend>>}
AskedInv ==
  /\ \A r \in requests : <<r.from, r.to>> \in asked
  /\ \A w \in Workers : AskedStage(serving[w])

\* What a worker in state s has read still holds.
Stage(s) ==
  /\ s.at \in {"check_sent", "check_received", "insert"} =>
       <<s.from, s.to>> \notin friends
  /\ s.at \in {"check_received", "insert"} => Sent(s.from, s.to) = {}
  /\ s.at = "insert" => Sent(s.to, s.from) = {}
  /\ s.at \in {"discard", "add", "add_mirror", "accept"} => s.request \in requests
  /\ s.at = "add_mirror" => s.rows = {<<s.request.to, s.request.from>>} \ friends
  /\ s.at = "accept" => s.rows = Both(s.request.from, s.request.to) \ friends
  /\ s.at = "remove_mirror" => s.rows = {<<s.me, s.friend>>} \cap friends
  /\ s.at = "insert_group" => OwnGroups(s.owner, s.name) = {}
  /\ s.at = "delete_group" => s.group \in groups
\* So it is for every worker that no other one has overtaken.
FreshInv == \A w \in Workers : w \notin behind => Stage(serving[w])

\* The promises about what is not contested; both rows of two users are or none.
RowsInv ==
  /\ OneRequestPerPair
  /\ NoRequestAmongFriends
  /\ Mutual
  /\ GroupNamesUnique
Symmetric(K) == \A u, v \in Users : <<u, v>> \in K => <<v, u>> \in K

\* A step that writes no row outside the keys K.
Outside(K) ==
  /\ \A r \in requests \cup requests' :
       <<r.from, r.to>> \notin K => (r \in requests <=> r \in requests')
  /\ \A pair \in Users \X Users :
       pair \notin K => (pair \in friends <=> pair \in friends')
  /\ \A g \in groups \cup groups' :
       <<g.owner, g.name>> \notin K => (g \in groups <=> g \in groups')

-----------------------------------------------------------------------------
(* Type correctness. *)

\* The fields of a worker's state at each of its stages.
LEMMA Stages ==
  ASSUME NEW s \in Working \cup {Idle}
  PROVE  /\ s.at \in {"check_sent", "check_received", "insert"} =>
              s \in [at : {"check_sent", "check_received", "insert"},
                     from : Users, to : Users]
         /\ s.at \in {"discard", "add"} =>
              s \in [at : {"discard", "add"}, request : Request]
         /\ s.at \in {"add_mirror", "accept"} =>
              s \in [at : {"add_mirror", "accept"}, request : Request,
                     rows : SUBSET (Users \X Users)]
         /\ s.at = "remove_mirror" =>
              s \in [at : {"remove_mirror"}, me : Users, friend : Users,
                     rows : SUBSET (Users \X Users)]
         /\ s.at = "insert_group" =>
              s \in [at : {"insert_group"}, owner : Users, name : Names]
         /\ s.at = "delete_group" => s \in [at : {"delete_group"}, group : Group]
  BY DEF Working, Idle

\* What is worked on.
LEMMA KeyCases ==
  ASSUME NEW s \in Working \cup {Idle}
  PROVE  \/ \E u, v \in Users : Keys(s) = Both(u, v)
         \/ \E u \in Users, name \in Names : Keys(s) = {<<u, name>>}
         \/ Keys(s) = {}
<1>1. CASE s.at \in {"check_sent", "check_received", "insert"}
  <2>1. s.from \in Users /\ s.to \in Users
    BY <1>1, Stages
  <2> QED BY <1>1, <2>1 DEF Keys
<1>2. CASE s.at \in {"discard", "add", "add_mirror", "accept"}
  <2>1. s.request \in Request
    BY <1>2, Stages
  <2>2. s.request.from \in Users /\ s.request.to \in Users
    BY <2>1 DEF Request
  <2>3. Keys(s) = Both(s.request.from, s.request.to)
    BY <1>2 DEF Keys
  <2> QED BY <2>2, <2>3
<1>3. CASE s.at = "remove_mirror"
  <2>1. s.me \in Users /\ s.friend \in Users
    BY <1>3, Stages
  <2> QED BY <1>3, <2>1 DEF Keys
<1>4. CASE s.at = "insert_group"
  <2>1. s.owner \in Users /\ s.name \in Names
    BY <1>4, Stages
  <2> QED BY <1>4, <2>1 DEF Keys
<1>5. CASE s.at = "delete_group"
  <2>1. s.group \in Group
    BY <1>5, Stages
  <2>2. s.group.owner \in Users /\ s.group.name \in Names
    BY <2>1 DEF Group
  <2> QED BY <1>5, <2>2 DEF Keys
<1>6. CASE s.at = "idle"
  BY <1>6 DEF Keys
<1> QED BY <1>1, <1>2, <1>3, <1>4, <1>5, <1>6 DEF Working, Idle

LEMMA TypeAnswer ==
  ASSUME TypeOK, NEW w \in Workers, Answer(w)
  PROVE  /\ serving' \in [Workers -> Working \cup {Idle}]
         /\ behind' \in SUBSET Workers
         /\ contested' \in SUBSET (Users \X (Users \cup Names))
<1>1. serving[w] \in Working \cup {Idle}
  BY DEF TypeOK
<1>2. Keys(serving[w]) \subseteq Users \X (Users \cup Names)
  BY <1>1, KeyCases DEF Both
<1>3. contested' \subseteq contested \cup Keys(serving[w])
  BY DEF Answer
<1> QED BY <1>2, <1>3 DEF Answer, TypeOK

\* A step that only reads keeps the types when the worker's new state is typed.
LEMMA TypeContinue ==
  ASSUME TypeOK, NEW w \in Workers, NEW s \in Working \cup {Idle}, Continue(w, s)
  PROVE  TypeOK'
  BY DEF TypeOK, Continue, tables, ids

LEMMA TypeStep == TypeOK /\ [Next]_vars => TypeOK'
<1> SUFFICES ASSUME TypeOK, [Next]_vars PROVE TypeOK'
  OBVIOUS
<1> USE BoundAssumption
<1>1. ASSUME NEW w \in Workers, NEW u \in Users, NEW v \in Users, CheckFriends(w, u, v)
      PROVE  TypeOK'
  <2>1. [at |-> "check_sent", from |-> u, to |-> v] \in Working
    BY DEF Working
  <2> QED BY <1>1, <2>1, TypeContinue DEF CheckFriends
<1>2. ASSUME NEW w \in Workers, NEW u \in Users, NEW r \in requests,
             NEW accept \in BOOLEAN, FindReceived(w, u, r, accept)
      PROVE  TypeOK'
  <2>1. [at |-> IF accept THEN "add" ELSE "discard", request |-> r] \in Working
    BY DEF Working, TypeOK
  <2> QED BY <1>2, <2>1, TypeContinue DEF FindReceived
<1>3. ASSUME NEW w \in Workers, NEW u \in Users, NEW r \in requests, FindSent(w, u, r)
      PROVE  TypeOK'
  <2>1. [at |-> "discard", request |-> r] \in Working
    BY DEF Working, TypeOK
  <2> QED BY <1>3, <2>1, TypeContinue DEF FindSent
<1>4. ASSUME NEW w \in Workers, NEW u \in Users, NEW v \in Users, RemoveFriend(w, u, v)
      PROVE  TypeOK'
  <2>1. [at |-> "remove_mirror", me |-> u, friend |-> v,
         rows |-> {<<u, v>>} \cap friends] \in Working
    BY DEF Working, TypeOK
  <2> QED BY <1>4, <2>1, TypeContinue DEF RemoveFriend
<1>5. ASSUME NEW w \in Workers, NEW u \in Users, NEW name \in Names,
             CheckName(w, u, name)
      PROVE  TypeOK'
  <2>1. [at |-> "insert_group", owner |-> u, name |-> name] \in Working
    BY DEF Working
  <2> QED BY <1>5, <2>1, TypeContinue DEF CheckName
<1>6. ASSUME NEW w \in Workers, NEW u \in Users, NEW g \in groups, FindGroup(w, u, g)
      PROVE  TypeOK'
  <2>1. [at |-> "delete_group", group |-> g] \in Working
    BY DEF Working, TypeOK
  <2> QED BY <1>6, <2>1, TypeContinue DEF FindGroup
<1>7. ASSUME NEW w \in Workers, Proceed(w)
      PROVE  TypeOK'
  <2> DEFINE s == serving[w]
  <2>1. s \in Working \cup {Idle}
    BY DEF TypeOK
  <2>2. CASE CheckSent(w)
    <3>1. s.at = "check_sent" => [s EXCEPT !.at = "check_received"] \in Working
      BY <2>1, Stages DEF Working
    <3> QED BY <2>2, <3>1, TypeContinue DEF CheckSent
  <2>3. CASE CheckReceived(w)
    <3>1. s.at = "check_received" => [s EXCEPT !.at = "insert"] \in Working
      BY <2>1, Stages DEF Working
    <3> QED BY <2>3, <3>1, TypeContinue DEF CheckReceived
  <2>4. CASE InsertRequest(w)
    <3>1. s.from \in Users /\ s.to \in Users
      BY <2>1, <2>4, Stages DEF InsertRequest
    <3>2. requestId' \in 1 .. MaxRequests /\ requestId' = requestId + 1
      BY <2>4 DEF InsertRequest, TypeOK
    <3>3. [id |-> requestId', from |-> s.from, to |-> s.to, by |-> w] \in Request
      BY <3>1, <3>2 DEF Request
    <3> QED BY <2>4, <3>1, <3>2, <3>3, TypeAnswer DEF InsertRequest, TypeOK
  <2>5. CASE AddFriend(w)
    <3>1. s.request \in Request
      BY <2>1, <2>5, Stages DEF AddFriend
    <3>2. [at |-> "add_mirror", request |-> s.request,
           rows |-> {<<s.request.to, s.request.from>>} \ friends] \in Working
      BY <3>1 DEF Working, Request
    <3> QED BY <2>5, <3>2, TypeContinue DEF AddFriend
  <2>6. CASE AddMirror(w)
    <3>1. s \in [at : {"add_mirror", "accept"}, request : Request,
                 rows : SUBSET (Users \X Users)]
      BY <2>1, <2>6, Stages DEF AddMirror
    <3>2. s.rows \cup ({<<s.request.from, s.request.to>>} \ friends)
            \in SUBSET (Users \X Users)
      BY <3>1 DEF Request
    <3>3. [s EXCEPT !.at = "accept",
             !.rows = @ \cup ({<<s.request.from, s.request.to>>} \ friends)] \in Working
      BY <3>1, <3>2 DEF Working
    <3> QED BY <2>6, <3>3, TypeContinue DEF AddMirror
  <2>7. CASE Accept(w)
    <3>1. s.rows \in SUBSET (Users \X Users)
      BY <2>1, <2>7, Stages DEF Accept
    <3> QED BY <2>7, <3>1, TypeAnswer DEF Accept, TypeOK, ids
  <2>8. CASE Discard(w)
    BY <2>8, TypeAnswer DEF Discard, TypeOK, ids
  <2>9. CASE RemoveMirror(w)
    BY <2>9, TypeAnswer DEF RemoveMirror, TypeOK, ids
  <2>10. CASE InsertGroup(w)
    <3>1. s.owner \in Users /\ s.name \in Names
      BY <2>1, <2>10, Stages DEF InsertGroup
    <3>2. groupId' \in 1 .. MaxGroups /\ groupId' = groupId + 1
      BY <2>10 DEF InsertGroup, TypeOK
    <3>3. [id |-> groupId', owner |-> s.owner, name |-> s.name] \in Group
      BY <3>1, <3>2 DEF Group
    <3> QED BY <2>10, <3>2, <3>3, TypeAnswer DEF InsertGroup, TypeOK
  <2>11. CASE DeleteGroup(w)
    BY <2>11, TypeAnswer DEF DeleteGroup, TypeOK, ids
  <2> QED
    BY <1>7, <2>2, <2>3, <2>4, <2>5, <2>6, <2>7, <2>8, <2>9, <2>10, <2>11 DEF Proceed
<1>8. ASSUME NEW w \in Workers, Rollback(w)
      PROVE  TypeOK'
  BY <1>8, TypeContinue DEF Rollback
<1>9. CASE UNCHANGED vars
  BY <1>9 DEF vars, tables, ids, overlaps, TypeOK
<1> QED
  BY <1>1, <1>2, <1>3, <1>4, <1>5, <1>6, <1>7, <1>8, <1>9 DEF Next, Start

LEMMA TypeInit == Init => TypeOK
  BY BoundAssumption DEF Init, TypeOK, Idle

\* Every table and every worker's state keeps its type.
THEOREM TypeCorrect == Spec => []TypeOK
  BY TypeInit, TypeStep, PTL DEF Spec

-----------------------------------------------------------------------------
(* Duplicate requests. *)

LEMMA SamePair ==
  ASSUME NEW a, NEW b, NEW c, NEW d, {a, b} = {c, d}
  PROVE  (a = c /\ b = d) \/ (a = d /\ b = c)
  OBVIOUS

\* Continuing a worker as a state that is not on its way to an insert.
LEMMA RaceContinue ==
  ASSUME TypeOK, RaceInv, NEW w \in Workers, NEW s, Continue(w, s),
         s.at \notin {"check_received", "insert"}
  PROVE  RaceInv'
  BY DEF TypeOK, RaceInv, Continue, Request, tables

\* Removing requests while the worker becomes idle.
LEMMA RaceAnswer ==
  ASSUME TypeOK, RaceInv, NEW w \in Workers, Answer(w), requests' \subseteq requests
  PROVE  RaceInv'
  BY DEF TypeOK, RaceInv, Answer, Idle, Request

LEMMA RaceStep ==
  TypeOK /\ RaceInv /\ DuplicatesOnlyByRace /\ [Next]_vars
    => RaceInv' /\ DuplicatesOnlyByRace'
<1> SUFFICES ASSUME TypeOK, RaceInv, DuplicatesOnlyByRace, [Next]_vars
             PROVE  RaceInv' /\ DuplicatesOnlyByRace'
  OBVIOUS
<1>1. ASSUME NEW w \in Workers, Start(w)
      PROVE  RaceInv' /\ DuplicatesOnlyByRace'
  <2>1. PICK s : Continue(w, s) /\ s.at \notin {"check_received", "insert"}
    <3>1. CASE \E u, v \in Users : CheckFriends(w, u, v)
      BY <3>1 DEF CheckFriends
    <3>2. CASE \E u \in Users, r \in requests, accept \in BOOLEAN :
                 FindReceived(w, u, r, accept)
      <4>1. PICK r \in requests, accept \in BOOLEAN :
              Continue(w, [at |-> IF accept THEN "add" ELSE "discard", request |-> r])
        BY <3>2 DEF FindReceived
      <4> QED BY <4>1
    <3>3. CASE \E u \in Users, r \in requests : FindSent(w, u, r)
      BY <3>3 DEF FindSent
    <3>4. CASE \E u, v \in Users : RemoveFriend(w, u, v)
      BY <3>4 DEF RemoveFriend
    <3>5. CASE \E u \in Users, name \in Names : CheckName(w, u, name)
      BY <3>5 DEF CheckName
    <3>6. CASE \E u \in Users, g \in groups : FindGroup(w, u, g)
      BY <3>6 DEF FindGroup
    <3> QED BY <1>1, <3>1, <3>2, <3>3, <3>4, <3>5, <3>6 DEF Start
  <2>2. requests' = requests
    BY <2>1 DEF Continue, tables
  <2> QED BY <2>1, <2>2, RaceContinue DEF DuplicatesOnlyByRace
<1>2. ASSUME NEW w \in Workers, Proceed(w)
      PROVE  RaceInv' /\ DuplicatesOnlyByRace'
  <2> DEFINE s == serving[w]
  <2>1. s \in Working \cup {Idle}
    BY DEF TypeOK
  <2>2. CASE CheckSent(w)
    <3>1. CASE Sent(s.from, s.to) = {}
      <4>1. s \in [at : {"check_sent", "check_received", "insert"},
                   from : Users, to : Users]
        BY <2>1, <2>2, Stages DEF CheckSent
      <4>2. serving' = [serving EXCEPT ![w] = [s EXCEPT !.at = "check_received"]]
            /\ requests' = requests
        BY <2>2, <3>1 DEF CheckSent, Continue, tables
      <4>3. serving'[w].at = "check_received" /\ serving'[w].from = s.from
            /\ serving'[w].to = s.to
        BY <4>1, <4>2 DEF TypeOK
      <4>4. \A r \in requests : ~(s.from = r.from /\ s.to = r.to)
        BY <3>1 DEF Sent
      <4> QED BY <4>2, <4>3, <4>4 DEF TypeOK, RaceInv, DuplicatesOnlyByRace, Request
    <3>2. CASE Sent(s.from, s.to) # {}
      <4>1. Continue(w, Idle) /\ Idle.at \notin {"check_received", "insert"}
        BY <2>2, <3>2 DEF CheckSent, Idle
      <4> QED BY <4>1, RaceContinue DEF DuplicatesOnlyByRace, Continue, tables
    <3> QED BY <3>1, <3>2
  <2>3. CASE CheckReceived(w)
    <3>1. CASE Sent(s.to, s.from) = {}
      <4>1. s \in [at : {"check_sent", "check_received", "insert"},
                   from : Users, to : Users]
        BY <2>1, <2>3, Stages DEF CheckReceived
      <4>2. serving' = [serving EXCEPT ![w] = [s EXCEPT !.at = "insert"]]
            /\ requests' = requests
        BY <2>3, <3>1 DEF CheckReceived, Continue, tables
      <4>3. serving'[w].at = "insert" /\ serving'[w].from = s.from
            /\ serving'[w].to = s.to
        BY <4>1, <4>2 DEF TypeOK
      <4>4. ASSUME NEW r \in requests, r.by = w
            PROVE  {s.from, s.to} # {r.from, r.to}
        <5>1. ~(s.from = r.from /\ s.to = r.to)
          BY <2>3, <4>4 DEF CheckReceived, RaceInv
        <5>2. ~(s.to = r.from /\ s.from = r.to)
          BY <3>1 DEF Sent
        <5> QED BY <5>1, <5>2, SamePair
      <4> QED BY <4>2, <4>3, <4>4 DEF TypeOK, RaceInv, DuplicatesOnlyByRace, Request
    <3>2. CASE Sent(s.to, s.from) # {}
      <4>1. Continue(w, Idle) /\ Idle.at \notin {"check_received", "insert"}
        BY <2>3, <3>2 DEF CheckReceived, Idle
      <4> QED BY <4>1, RaceContinue DEF DuplicatesOnlyByRace, Continue, tables
    <3> QED BY <3>1, <3>2
  <2>4. CASE InsertRequest(w)
    <3> DEFINE r == [id |-> requestId', from |-> s.from, to |-> s.to, by |-> w]
    <3>1. requests' = requests \cup {r} /\ serving' = [serving EXCEPT ![w] = Idle]
      BY <2>4 DEF InsertRequest, Answer
    <3>2. \A q \in requests : q.by = w => ~Between(r, q) /\ ~Between(q, r)
      BY <2>4 DEF InsertRequest, RaceInv, Between
    <3>3. DuplicatesOnlyByRace'
      BY <3>1, <3>2 DEF DuplicatesOnlyByRace
    <3> QED BY <3>1, <3>3 DEF TypeOK, RaceInv, Idle, Request
  <2>5. CASE AddFriend(w) \/ AddMirror(w)
    <3>1. PICK x : Continue(w, x) /\ x.at \notin {"check_received", "insert"}
      <4>1. CASE AddFriend(w)
        BY <4>1 DEF AddFriend
      <4>2. CASE AddMirror(w)
        <5>1. s \in [at : {"add_mirror", "accept"}, request : Request,
                     rows : SUBSET (Users \X Users)]
          BY <2>1, <4>2, Stages DEF AddMirror
        <5> DEFINE x == [s EXCEPT !.at = "accept",
              !.rows = @ \cup ({<<s.request.from, s.request.to>>} \ friends)]
        <5>2. Continue(w, x) /\ x.at = "accept"
          BY <4>2, <5>1 DEF AddMirror
        <5> QED BY <5>2
      <4> QED BY <2>5, <4>1, <4>2
    <3> QED BY <3>1, RaceContinue DEF DuplicatesOnlyByRace, Continue, tables
  <2>6. CASE Accept(w) \/ Discard(w) \/ RemoveMirror(w) \/ InsertGroup(w) \/ DeleteGroup(w)
    <3>1. Answer(w) /\ requests' \subseteq requests
      BY <2>6 DEF Accept, Discard, RemoveMirror, InsertGroup, DeleteGroup
    <3> QED BY <3>1, RaceAnswer DEF DuplicatesOnlyByRace
  <2> QED BY <1>2, <2>2, <2>3, <2>4, <2>5, <2>6 DEF Proceed
<1>3. ASSUME NEW w \in Workers, Rollback(w)
      PROVE  RaceInv' /\ DuplicatesOnlyByRace'
  <2>1. Continue(w, Idle) /\ Idle.at \notin {"check_received", "insert"}
    BY <1>3 DEF Rollback, Idle
  <2> QED BY <2>1, RaceContinue DEF DuplicatesOnlyByRace, Continue, tables
<1>4. CASE UNCHANGED vars
  BY <1>4 DEF vars, tables, RaceInv, DuplicatesOnlyByRace
<1> QED BY <1>1, <1>2, <1>3, <1>4 DEF Next

LEMMA RaceInit == Init => RaceInv /\ DuplicatesOnlyByRace
  BY DEF Init, RaceInv, DuplicatesOnlyByRace

\* However many workers there are, no worker ever inserts a request between two
\* users while another one it inserted is pending: duplicates need a race.
THEOREM DuplicatesNeedRace == Spec => []DuplicatesOnlyByRace
<1>1. Init => TypeOK /\ RaceInv /\ DuplicatesOnlyByRace
  BY TypeInit, RaceInit
<1>2. TypeOK /\ RaceInv /\ DuplicatesOnlyByRace /\ [Next]_vars
        => (TypeOK /\ RaceInv /\ DuplicatesOnlyByRace)'
  BY TypeStep, RaceStep
<1> QED BY <1>1, <1>2, PTL DEF Spec

-----------------------------------------------------------------------------
(* Friendship follows a request. *)

LEMMA AskedContinue ==
  ASSUME TypeOK, AskedInv, FriendsWereAsked, NEW w \in Workers, NEW s,
         Continue(w, s), AskedStage(s)
  PROVE  AskedInv' /\ FriendsWereAsked'
  BY DEF TypeOK, AskedInv, AskedStage, FriendsWereAsked, Continue, tables, ids

\* A worker becomes idle, no request is new and every new friend is asked for.
LEMMA AskedAnswer ==
  ASSUME TypeOK, AskedInv, FriendsWereAsked, NEW w \in Workers, Answer(w),
         asked' = asked, requests' \subseteq requests,
         \A pair \in friends' \ friends :
           pair \in asked \/ <<pair[2], pair[1]>> \in asked
  PROVE  AskedInv' /\ FriendsWereAsked'
  BY DEF TypeOK, AskedInv, AskedStage, FriendsWereAsked, Answer, Idle

LEMMA AskedStep ==
  TypeOK /\ AskedInv /\ FriendsWereAsked /\ [Next]_vars
    => AskedInv' /\ FriendsWereAsked'
<1> SUFFICES ASSUME TypeOK, AskedInv, FriendsWereAsked, [Next]_vars
             PROVE  AskedInv' /\ FriendsWereAsked'
  OBVIOUS
<1>1. ASSUME NEW w \in Workers, Start(w)
      PROVE  AskedInv' /\ FriendsWereAsked'
  <2>1. PICK s : Continue(w, s) /\ AskedStage(s)
    <3>1. CASE \E u, v \in Users : CheckFriends(w, u, v)
      <4>1. PICK u \in Users, v \in Users :
              Continue(w, [at |-> "check_sent", from |-> u, to |-> v])
        BY <3>1 DEF CheckFriends
      <4>2. AskedStage([at |-> "check_sent", from |-> u, to |-> v])
        BY DEF AskedStage
      <4> QED BY <4>1, <4>2
    <3>2. CASE \E u \in Users, r \in requests, accept \in BOOLEAN :
                 FindReceived(w, u, r, accept)
      <4>1. PICK r \in requests, accept \in BOOLEAN :
              Continue(w, [at |-> IF accept THEN "add" ELSE "discard", request |-> r])
        BY <3>2 DEF FindReceived
      <4>2. AskedStage([at |-> IF accept THEN "add" ELSE "discard", request |-> r])
        BY DEF AskedInv, AskedStage
      <4> QED BY <4>1, <4>2
    <3>3. CASE \E u \in Users, r \in requests : FindSent(w, u, r)
      <4>1. PICK r \in requests : Continue(w, [at |-> "discard", request |-> r])
        BY <3>3 DEF FindSent
      <4>2. AskedStage([at |-> "discard", request |-> r])
        BY DEF AskedStage
      <4> QED BY <4>1, <4>2
    <3>4. CASE \E u, v \in Users : RemoveFriend(w, u, v)
      <4>1. PICK u \in Users, v \in Users :
              Continue(w, [at |-> "remove_mirror", me |-> u, friend |-> v,
                           rows |-> {<<u, v>>} \cap friends])
        BY <3>4 DEF RemoveFriend
      <4>2. AskedStage([at |-> "remove_mirror", me |-> u, friend |-> v,
                        rows |-> {<<u, v>>} \cap friends])
        BY DEF AskedStage
      <4> QED BY <4>1, <4>2
    <3>5. CASE \E u \in Users, name \in Names : CheckName(w, u, name)
      <4>1. PICK u \in Users, name \in Names :
              Continue(w, [at |-> "insert_group", owner |-> u, name |-> name])
        BY <3>5 DEF CheckName
      <4>2. AskedStage([at |-> "insert_group", owner |-> u, name |-> name])
        BY DEF AskedStage
      <4> QED BY <4>1, <4>2
    <3>6. CASE \E u \in Users, g \in groups : FindGroup(w, u, g)
      <4>1. PICK g \in groups : Continue(w, [at |-> "delete_group", group |-> g])
        BY <3>6 DEF FindGroup
      <4>2. AskedStage([at |-> "delete_group", group |-> g])
        BY DEF AskedStage
      <4> QED BY <4>1, <4>2
    <3> QED BY <1>1, <3>1, <3>2, <3>3, <3>4, <3>5, <3>6 DEF Start
  <2> QED BY <2>1, AskedContinue
<1>2. ASSUME NEW w \in Workers, Proceed(w)
      PROVE  AskedInv' /\ FriendsWereAsked'
  <2> DEFINE s == serving[w]
  <2>1. s \in Working \cup {Idle}
    BY DEF TypeOK
  <2>2. AskedStage(Idle)
    BY DEF AskedStage, Idle
  <2>3. CASE CheckSent(w)
    <3>1. s.at = "check_sent" => AskedStage([s EXCEPT !.at = "check_received"])
      BY <2>1, Stages DEF AskedStage
    <3> QED BY <2>2, <2>3, <3>1, AskedContinue DEF CheckSent
  <2>4. CASE CheckReceived(w)
    <3>1. s.at = "check_received" => AskedStage([s EXCEPT !.at = "insert"])
      BY <2>1, Stages DEF AskedStage
    <3> QED BY <2>2, <2>4, <3>1, AskedContinue DEF CheckReceived
  <2>5. CASE InsertRequest(w)
    <3>1. requests' = requests \cup
            {[id |-> requestId', from |-> s.from, to |-> s.to, by |-> w]}
          /\ asked' = asked \cup {<<s.from, s.to>>}
          /\ serving' = [serving EXCEPT ![w] = Idle] /\ friends' = friends
      BY <2>5 DEF InsertRequest, Answer
    <3>2. \A r \in requests' : <<r.from, r.to>> \in asked'
      <4>1. \A r \in requests : <<r.from, r.to>> \in asked'
        BY <3>1 DEF AskedInv
      <4>2. \A r \in requests' \ requests : r.from = s.from /\ r.to = s.to
        BY <3>1
      <4> QED BY <3>1, <4>1, <4>2
    <3>3. FriendsWereAsked'
      BY <3>1 DEF FriendsWereAsked
    <3> QED BY <3>1, <3>2, <3>3 DEF AskedInv, AskedStage, TypeOK, Idle
  <2>6. CASE AddFriend(w)
    <3> DEFINE x == [at |-> "add_mirror", request |-> s.request,
                     rows |-> {<<s.request.to, s.request.from>>} \ friends]
    <3>1. Continue(w, x) /\ AskedStage(x)
      BY <2>6 DEF AddFriend, AskedInv, AskedStage
    <3> QED BY <3>1, AskedContinue
  <2>7. CASE AddMirror(w)
    <3> DEFINE x == [s EXCEPT !.at = "accept",
                       !.rows = @ \cup ({<<s.request.from, s.request.to>>} \ friends)]
    <3>1. s \in [at : {"add_mirror", "accept"}, request : Request,
                 rows : SUBSET (Users \X Users)]
      BY <2>1, <2>7, Stages DEF AddMirror
    <3>2. x.at = "accept" /\ x.request = s.request
          /\ x.rows = s.rows \cup ({<<s.request.from, s.request.to>>} \ friends)
      BY <3>1
    <3>3. Continue(w, x) /\ AskedStage(x)
      BY <2>7, <3>2 DEF AddMirror, AskedInv, AskedStage
    <3> QED BY <3>3, AskedContinue
  <2>8. CASE Accept(w)
    <3>1. friends' \subseteq friends \cup s.rows
      BY <2>8 DEF Accept
    <3>2. \A pair \in s.rows : pair \in asked \/ <<pair[2], pair[1]>> \in asked
      <4>1. <<s.request.from, s.request.to>> \in asked
            /\ s.rows \subseteq {<<s.request.to, s.request.from>>,
                                 <<s.request.from, s.request.to>>}
        BY <2>8 DEF Accept, AskedInv, AskedStage
      <4>2. \A a, b : <<a, b>>[1] = a /\ <<a, b>>[2] = b
        OBVIOUS
      <4> HIDE DEF s
      <4> QED BY <4>1, <4>2
    <3>3. Answer(w) /\ asked' = asked /\ requests' \subseteq requests
      BY <2>8 DEF Accept
    <3> QED BY <3>1, <3>2, <3>3, AskedAnswer
  <2>9. CASE Discard(w) \/ RemoveMirror(w) \/ InsertGroup(w) \/ DeleteGroup(w)
    <3>1. Answer(w) /\ asked' = asked /\ requests' \subseteq requests
          /\ friends' \subseteq friends
      BY <2>9 DEF Discard, RemoveMirror, InsertGroup, DeleteGroup
    <3> QED BY <3>1, AskedAnswer
  <2> QED BY <1>2, <2>3, <2>4, <2>5, <2>6, <2>7, <2>8, <2>9 DEF Proceed
<1>3. ASSUME NEW w \in Workers, Rollback(w)
      PROVE  AskedInv' /\ FriendsWereAsked'
  BY <1>3, AskedContinue DEF Rollback, AskedStage, Idle
<1>4. CASE UNCHANGED vars
  BY <1>4 DEF vars, tables, AskedInv, AskedStage, FriendsWereAsked
<1> QED BY <1>1, <1>2, <1>3, <1>4 DEF Next

LEMMA AskedInit == Init => AskedInv /\ FriendsWereAsked
  BY DEF Init, AskedInv, AskedStage, FriendsWereAsked, Idle

\* Whatever the workers interleave, two users are friends only if one of them
\* once sent the other a request.
THEOREM FriendshipFollowsRequest == Spec => []FriendsWereAsked
<1>1. Init => TypeOK /\ AskedInv /\ FriendsWereAsked
  BY TypeInit, AskedInit
<1>2. TypeOK /\ AskedInv /\ FriendsWereAsked /\ [Next]_vars
        => (TypeOK /\ AskedInv /\ FriendsWereAsked)'
  BY TypeStep, AskedStep
<1> QED BY <1>1, <1>2, PTL DEF Spec

-----------------------------------------------------------------------------
(* Workers that are not overtaken, and what is not contested. *)

\* Two users are worked on together, so both of their rows become contested.
LEMMA KeysSymmetric ==
  ASSUME NEW s \in Working \cup {Idle}
  PROVE  Symmetric(Keys(s))
<1>1. CASE \E u, v \in Users : Keys(s) = Both(u, v)
  BY <1>1 DEF Symmetric, Both
<1>2. CASE \E u \in Users, name \in Names : Keys(s) = {<<u, name>>}
  BY <1>2, KeyAssumption DEF Symmetric
<1>3. CASE Keys(s) = {}
  BY <1>3 DEF Symmetric
<1> QED BY <1>1, <1>2, <1>3, KeyCases

\* What a worker has read is about its keys only: a step that writes other keys
\* leaves it true.
LEMMA StageLocal ==
  ASSUME NEW s \in Working \cup {Idle}, NEW K, Keys(s) \cap K = {}, Outside(K), Stage(s)
  PROVE  Stage(s)'
<1>1. CASE s.at \in {"check_sent", "check_received", "insert"}
  <2>1. s.from \in Users /\ s.to \in Users
    BY <1>1, Stages
  <2>2. <<s.from, s.to>> \notin K /\ <<s.to, s.from>> \notin K
    BY <1>1 DEF Keys, Both
  <2>3. <<s.from, s.to>> \notin friends' /\ Sent(s.from, s.to)' = Sent(s.from, s.to)
        /\ Sent(s.to, s.from)' = Sent(s.to, s.from)
    BY <1>1, <2>1, <2>2 DEF Outside, Sent, Stage
  <2> QED BY <1>1, <2>3 DEF Stage
<1>2. CASE s.at \in {"discard", "add", "add_mirror", "accept"}
  <2> DEFINE r == s.request
  <2>1. r \in requests /\ r.from \in Users /\ r.to \in Users
    <3>1. r \in Request
      BY <1>2, Stages
    <3> QED BY <1>2, <3>1 DEF Stage, Request
  <2>2. <<r.from, r.to>> \notin K /\ <<r.to, r.from>> \notin K
    BY <1>2 DEF Keys, Both
  <2>3. r \in requests'
    BY <2>1, <2>2 DEF Outside
  <2>4. /\ <<r.from, r.to>> \in friends <=> <<r.from, r.to>> \in friends'
        /\ <<r.to, r.from>> \in friends <=> <<r.to, r.from>> \in friends'
    BY <2>1, <2>2 DEF Outside
  <2> QED BY <1>2, <2>3, <2>4 DEF Stage, Both
<1>3. CASE s.at = "remove_mirror"
  <2>1. s.me \in Users /\ s.friend \in Users
    BY <1>3, Stages
  <2>2. <<s.me, s.friend>> \notin K
    BY <1>3 DEF Keys, Both
  <2>3. <<s.me, s.friend>> \in friends <=> <<s.me, s.friend>> \in friends'
    BY <2>1, <2>2 DEF Outside
  <2> QED BY <1>3, <2>3 DEF Stage
<1>4. CASE s.at = "insert_group"
  <2>1. <<s.owner, s.name>> \notin K
    BY <1>4 DEF Keys
  <2>2. OwnGroups(s.owner, s.name)' = OwnGroups(s.owner, s.name)
    BY <2>1 DEF Outside, OwnGroups
  <2> QED BY <1>4, <2>2 DEF Stage
<1>5. CASE s.at = "delete_group"
  <2>1. <<s.group.owner, s.group.name>> \notin K
    BY <1>5 DEF Keys
  <2> QED BY <1>5, <2>1 DEF Outside, Stage
<1>6. CASE s.at = "idle"
  BY <1>6 DEF Stage
<1> QED BY <1>1, <1>2, <1>3, <1>4, <1>5, <1>6 DEF Working, Idle

\* Each handler writes rows of what it works on and no others.
LEMMA WritesItsKeys ==
  ASSUME TypeOK, AskedInv, NEW w \in Workers,
         \/ InsertRequest(w) \/ Accept(w) \/ Discard(w) \/ RemoveMirror(w)
         \/ InsertGroup(w) \/ DeleteGroup(w)
  PROVE  Outside(Keys(serving[w])) /\ Answer(w)
<1> DEFINE s == serving[w]
           K == Keys(s)
<1>0. s \in Working \cup {Idle} /\ AskedStage(s)
  BY DEF TypeOK, AskedInv
<1>1. CASE InsertRequest(w)
  <2> DEFINE r == [id |-> requestId', from |-> s.from, to |-> s.to, by |-> w]
  <2>1. requests' = requests \cup {r} /\ UNCHANGED <<friends, groups>> /\ Answer(w)
    BY <1>1 DEF InsertRequest
  <2>2. <<r.from, r.to>> \in K
    BY <1>1 DEF InsertRequest, Keys, Both
  <2> QED BY <2>1, <2>2 DEF Outside
<1>2. CASE Accept(w)
  <2> DEFINE r == s.request
  <2>1. <<r.from, r.to>> \in K /\ <<r.to, r.from>> \in K
    BY <1>2 DEF Accept, Keys, Both
  <2>2. s.rows \subseteq K
    BY <1>0, <1>2, <2>1 DEF Accept, AskedStage
  <2>3. /\ \A q \in requests \cup requests' : q # r => (q \in requests <=> q \in requests')
        /\ friends \subseteq friends' /\ friends' \subseteq friends \cup s.rows
        /\ groups' = groups /\ Answer(w)
    BY <1>2 DEF Accept
  <2> HIDE DEF s, K, r
  <2> QED BY <2>1, <2>2, <2>3 DEF Outside, s, K
<1>3. CASE Discard(w)
  <2> DEFINE r == s.request
  <2>1. requests' = requests \ {r} /\ UNCHANGED <<friends, groups>> /\ Answer(w)
    BY <1>3 DEF Discard
  <2>2. <<r.from, r.to>> \in K
    BY <1>3 DEF Discard, Keys, Both
  <2> QED BY <2>1, <2>2 DEF Outside
<1>4. CASE RemoveMirror(w)
  <2>1. <<s.me, s.friend>> \in K /\ <<s.friend, s.me>> \in K
    BY <1>4 DEF RemoveMirror, Keys, Both
  <2>2. s.rows \subseteq K
    BY <1>0, <1>4, <2>1 DEF RemoveMirror, AskedStage
  <2>3. /\ friends' = friends \ (s.rows \cup {<<s.friend, s.me>>})
        /\ UNCHANGED <<requests, groups>> /\ Answer(w)
    BY <1>4 DEF RemoveMirror
  <2> QED BY <2>1, <2>2, <2>3 DEF Outside
<1>5. CASE InsertGroup(w)
  <2> DEFINE g == [id |-> groupId', owner |-> s.owner, name |-> s.name]
  <2>1. groups' = groups \cup {g} /\ UNCHANGED <<requests, friends>> /\ Answer(w)
    BY <1>5 DEF InsertGroup
  <2>2. <<g.owner, g.name>> \in K
    BY <1>5 DEF InsertGroup, Keys
  <2> QED BY <2>1, <2>2 DEF Outside
<1>6. CASE DeleteGroup(w)
  <2> DEFINE g == s.group
  <2>1. groups' = groups \ {g} /\ UNCHANGED <<requests, friends>> /\ Answer(w)
    BY <1>6 DEF DeleteGroup
  <2>2. <<g.owner, g.name>> \in K
    BY <1>6 DEF DeleteGroup, Keys
  <2> QED BY <2>1, <2>2 DEF Outside
<1> QED BY <1>1, <1>2, <1>3, <1>4, <1>5, <1>6

\* A COMMIT leaves true what every worker has read that it does not overtake.
LEMMA FreshAnswer ==
  ASSUME TypeOK, FreshInv, NEW w \in Workers, Answer(w), Outside(Keys(serving[w]))
  PROVE  FreshInv'
<1> SUFFICES ASSUME NEW x \in Workers, x \notin behind'
             PROVE  Stage(serving[x])'
  BY DEF FreshInv
<1>1. CASE x = w
  <2>1. serving'[x] = Idle
    BY <1>1 DEF Answer, TypeOK
  <2> QED BY <2>1 DEF Stage, Idle
<1>2. CASE x # w
  <2> DEFINE s == serving[x]
  <2>1. serving'[x] = s /\ x \notin behind
        /\ (tables' = tables \/ Keys(s) \cap Keys(serving[w]) = {})
    BY <1>2 DEF Answer, TypeOK
  <2>2. s \in Working \cup {Idle} /\ Stage(s)
    BY <2>1 DEF TypeOK, FreshInv
  <2>3. CASE tables' = tables
    <3>1. UNCHANGED <<requests, friends, groups>>
      BY <2>3 DEF tables
    <3> QED BY <2>1, <2>2, <3>1 DEF Stage, Sent, OwnGroups, Both
  <2>4. CASE Keys(s) \cap Keys(serving[w]) = {}
    <3>1. PICK t \in Working \cup {Idle} : t = s
      BY <2>2
    <3>2. PICK K : K = Keys(serving[w])
      OBVIOUS
    <3>3. Stage(t)'
      BY <2>2, <2>4, <3>1, <3>2, StageLocal
    <3> QED BY <2>1, <3>1, <3>3 DEF Stage, Sent, OwnGroups, Both
  <2> QED BY <2>1, <2>3, <2>4
<1> QED BY <1>1, <1>2

\* A worker that has only read goes on with what it knows.
LEMMA FreshContinue ==
  ASSUME TypeOK, FreshInv, NEW w \in Workers, NEW s, Continue(w, s),
         w \notin behind => Stage(s)
  PROVE  FreshInv'
<1>1. /\ UNCHANGED <<requests, friends, groups>>
      /\ \A x \in Workers : serving'[x] = IF x = w THEN s ELSE serving[x]
      /\ \A x \in Workers : x \in behind /\ ~(x = w /\ s = Idle) => x \in behind'
  BY DEF Continue, TypeOK, tables
<1> SUFFICES ASSUME NEW x \in Workers, x \notin behind'
             PROVE  Stage(serving[x])'
  BY DEF FreshInv
<1>2. CASE x = w /\ s = Idle
  <2>1. serving'[x] = Idle
    BY <1>1, <1>2
  <2> QED BY <2>1 DEF Stage, Idle
<1>3. CASE x = w /\ s # Idle
  <2>1. serving'[x] = s /\ Stage(s)
    BY <1>1, <1>3
  <2> QED BY <1>1, <2>1 DEF Stage, Sent, OwnGroups, Both
<1>4. CASE x # w
  <2>1. serving'[x] = serving[x] /\ Stage(serving[x])
    BY <1>1, <1>4 DEF FreshInv
  <2> QED BY <1>1, <2>1 DEF Stage, Sent, OwnGroups, Both
<1> QED BY <1>2, <1>3, <1>4

\* The promises outlast a write of which every key becomes contested.
LEMMA RowsContested ==
  ASSUME TypeOK, TypeOK', RowsInv, NEW K, Outside(K), Symmetric(K), contested' = contested \cup K
  PROVE  RowsInv'
<1>1. OneRequestPerPair'
  <2> SUFFICES ASSUME NEW r \in requests', NEW q \in requests', Between(r, q),
                      <<r.from, r.to>> \notin contested'
               PROVE  r = q
    BY DEF OneRequestPerPair, Between
  <2>1. r.from \in Users /\ r.to \in Users /\ q.from \in Users /\ q.to \in Users
    BY DEF TypeOK, Request
  <2>2. <<r.from, r.to>> \notin K /\ <<r.to, r.from>> \notin K
    BY <2>1 DEF Symmetric
  <2>3. <<q.from, q.to>> \notin K
    BY <2>2, SamePair DEF Between
  <2>4. r \in requests /\ q \in requests
    BY <2>2, <2>3 DEF Outside
  <2> QED BY <2>4 DEF RowsInv, OneRequestPerPair
<1>2. NoRequestAmongFriends'
  <2> SUFFICES ASSUME NEW r \in requests', <<r.from, r.to>> \in friends',
                      <<r.from, r.to>> \notin contested'
               PROVE  FALSE
    BY DEF NoRequestAmongFriends
  <2>1. <<r.from, r.to>> \notin K /\ <<r.from, r.to>> \in Users \X Users
    BY DEF TypeOK
  <2>2. r \in requests /\ <<r.from, r.to>> \in friends
    BY <2>1 DEF Outside
  <2> QED BY <2>2 DEF RowsInv, NoRequestAmongFriends
<1>3. Mutual'
  <2> SUFFICES ASSUME NEW u \in Users, NEW v \in Users,
                      <<u, v>> \in friends', <<u, v>> \notin contested'
               PROVE  <<v, u>> \in friends'
    BY DEF Mutual
  <2>1. <<u, v>> \notin K /\ <<v, u>> \notin K
    BY DEF Symmetric
  <2>2. <<u, v>> \in friends
    BY <2>1 DEF Outside
  <2>3. <<v, u>> \in friends
    BY <2>2 DEF RowsInv, Mutual
  <2> QED BY <2>1, <2>3 DEF Outside
<1>4. GroupNamesUnique'
  <2> SUFFICES ASSUME NEW g \in groups', NEW h \in groups', g.owner = h.owner,
                      g.name = h.name, <<g.owner, g.name>> \notin contested'
               PROVE  g = h
    BY DEF GroupNamesUnique
  <2>1. g \in groups /\ h \in groups
    BY DEF Outside
  <2> QED BY <2>1 DEF RowsInv, GroupNamesUnique
<1> QED BY <1>1, <1>2, <1>3, <1>4 DEF RowsInv

\* The promises outlast a write by a worker that has not been overtaken.
LEMMA RowsKept ==
  ASSUME TypeOK, RowsInv, NEW w \in Workers, Stage(serving[w]), contested' = contested,
         \/ InsertRequest(w) \/ Accept(w) \/ Discard(w) \/ RemoveMirror(w)
         \/ InsertGroup(w) \/ DeleteGroup(w)
  PROVE  RowsInv'
<1> DEFINE s == serving[w]
<1>1. CASE InsertRequest(w)
  <2> DEFINE r == [id |-> requestId', from |-> s.from, to |-> s.to, by |-> w]
  <2>1. requests' = requests \cup {r} /\ UNCHANGED <<friends, groups>>
    BY <1>1 DEF InsertRequest
  <2>2. <<s.from, s.to>> \notin friends /\ Sent(s.from, s.to) = {}
        /\ Sent(s.to, s.from) = {}
    BY <1>1 DEF InsertRequest, Stage
  <2>3. \A q \in requests : {q.from, q.to} # {s.from, s.to}
    BY <2>2, SamePair DEF Sent
  <2>4. OneRequestPerPair'
    BY <2>1, <2>3 DEF OneRequestPerPair, Between, RowsInv
  <2>5. NoRequestAmongFriends'
    BY <2>1, <2>2 DEF NoRequestAmongFriends, RowsInv
  <2>6. Mutual' /\ GroupNamesUnique'
    BY <2>1 DEF Mutual, GroupNamesUnique, RowsInv
  <2> QED BY <2>4, <2>5, <2>6 DEF RowsInv
<1>2. CASE Accept(w)
  <2> DEFINE r == s.request
  <2>1. /\ r \in requests
        /\ friends' = friends \cup {<<r.to, r.from>>, <<r.from, r.to>>}
        /\ requests' = requests \ {r}
        /\ groups' = groups
    BY <1>2 DEF Accept, Stage, Both
  <2>2. ASSUME NEW q \in requests', <<q.from, q.to>> \notin contested
        PROVE  {q.from, q.to} # {r.from, r.to}
    BY <2>1, <2>2 DEF RowsInv, OneRequestPerPair, Between
  <2>3. OneRequestPerPair'
    BY <2>1 DEF RowsInv, OneRequestPerPair
  <2>4. NoRequestAmongFriends'
    <3> SUFFICES ASSUME NEW q \in requests', <<q.from, q.to>> \in friends',
                        <<q.from, q.to>> \notin contested
                 PROVE  FALSE
      BY DEF NoRequestAmongFriends
    <3>1. q \in requests /\ <<q.from, q.to>> \notin friends
      BY <2>1 DEF RowsInv, NoRequestAmongFriends
    <3>2. <<q.from, q.to>> # <<r.to, r.from>> /\ <<q.from, q.to>> # <<r.from, r.to>>
      BY <2>2
    <3> QED BY <2>1, <3>1, <3>2
  <2>5. Mutual' /\ GroupNamesUnique'
    BY <2>1 DEF RowsInv, Mutual, GroupNamesUnique
  <2> QED BY <2>3, <2>4, <2>5 DEF RowsInv
<1>3. CASE Discard(w) \/ DeleteGroup(w)
  <2>1. requests' \subseteq requests /\ friends' = friends /\ groups' \subseteq groups
    BY <1>3 DEF Discard, DeleteGroup
  <2> QED BY <2>1 DEF RowsInv, OneRequestPerPair, NoRequestAmongFriends, Mutual,
                      GroupNamesUnique
<1>4. CASE RemoveMirror(w)
  <2>1. /\ friends' = friends \ {<<s.me, s.friend>>, <<s.friend, s.me>>}
        /\ UNCHANGED <<requests, groups>>
    BY <1>4 DEF RemoveMirror, Stage
  <2> QED BY <2>1 DEF RowsInv, OneRequestPerPair, NoRequestAmongFriends, Mutual,
                      GroupNamesUnique
<1>5. CASE InsertGroup(w)
  <2> DEFINE g == [id |-> groupId', owner |-> s.owner, name |-> s.name]
  <2>1. /\ groups' = groups \cup {g} /\ UNCHANGED <<requests, friends>>
        /\ OwnGroups(s.owner, s.name) = {}
    BY <1>5 DEF InsertGroup, Stage
  <2>2. \A h \in groups : h.owner # s.owner \/ h.name # s.name
    BY <2>1 DEF OwnGroups
  <2>3. GroupNamesUnique'
    BY <2>1, <2>2 DEF GroupNamesUnique, RowsInv
  <2>4. OneRequestPerPair' /\ NoRequestAmongFriends' /\ Mutual'
    BY <2>1 DEF RowsInv, OneRequestPerPair, NoRequestAmongFriends, Mutual
  <2> QED BY <2>3, <2>4 DEF RowsInv
<1> QED BY <1>1, <1>2, <1>3, <1>4, <1>5

\* What is written by a worker that is behind becomes contested.
LEMMA BehindContests ==
  ASSUME TypeOK, NEW w \in Workers, Answer(w)
  PROVE  \/ tables' = tables /\ contested' = contested
         \/ w \in behind /\ contested' = contested \cup Keys(serving[w])
         \/ w \notin behind /\ contested' = contested
  BY DEF Answer

LEMMA RowsStep ==
  ASSUME TypeOK, AskedInv, FreshInv, RowsInv, [Next]_vars
  PROVE  FreshInv' /\ RowsInv'
<1>0. TypeOK'
  BY TypeStep
<1>a. ASSUME UNCHANGED <<tables, contested>>
      PROVE  RowsInv'
  BY <1>a DEF tables, RowsInv, OneRequestPerPair, NoRequestAmongFriends, Mutual,
              GroupNamesUnique
<1>b. ASSUME NEW w \in Workers, NEW s, Continue(w, s), w \notin behind => Stage(s)
      PROVE  FreshInv' /\ RowsInv'
  <2>1. UNCHANGED <<tables, contested>>
    BY <1>b DEF Continue
  <2> QED BY <1>a, <1>b, <2>1, FreshContinue
<1>1. ASSUME NEW w \in Workers, Start(w)
      PROVE  FreshInv' /\ RowsInv'
  <2>1. PICK s : Continue(w, s) /\ Stage(s)
    <3>1. CASE \E u, v \in Users : CheckFriends(w, u, v)
      <4>1. PICK u \in Users, v \in Users :
              /\ Continue(w, [at |-> "check_sent", from |-> u, to |-> v])
              /\ <<u, v>> \notin friends
        BY <3>1 DEF CheckFriends
      <4>2. Stage([at |-> "check_sent", from |-> u, to |-> v])
        BY <4>1 DEF Stage
      <4> QED BY <4>1, <4>2
    <3>2. CASE \E u \in Users, r \in requests, accept \in BOOLEAN :
                 FindReceived(w, u, r, accept)
      <4>1. PICK r \in requests, accept \in BOOLEAN :
              Continue(w, [at |-> IF accept THEN "add" ELSE "discard", request |-> r])
        BY <3>2 DEF FindReceived
      <4>2. Stage([at |-> IF accept THEN "add" ELSE "discard", request |-> r])
        BY DEF Stage
      <4> QED BY <4>1, <4>2
    <3>3. CASE \E u \in Users, r \in requests : FindSent(w, u, r)
      <4>1. PICK r \in requests : Continue(w, [at |-> "discard", request |-> r])
        BY <3>3 DEF FindSent
      <4>2. Stage([at |-> "discard", request |-> r])
        BY DEF Stage
      <4> QED BY <4>1, <4>2
    <3>4. CASE \E u, v \in Users : RemoveFriend(w, u, v)
      <4>1. PICK u \in Users, v \in Users :
              Continue(w, [at |-> "remove_mirror", me |-> u, friend |-> v,
                           rows |-> {<<u, v>>} \cap friends])
        BY <3>4 DEF RemoveFriend
      <4>2. Stage([at |-> "remove_mirror", me |-> u, friend |-> v,
                   rows |-> {<<u, v>>} \cap friends])
        BY DEF Stage
      <4> QED BY <4>1, <4>2
    <3>5. CASE \E u \in Users, name \in Names : CheckName(w, u, name)
      <4>1. PICK u \in Users, name \in Names :
              /\ Continue(w, [at |-> "insert_group", owner |-> u, name |-> name])
              /\ OwnGroups(u, name) = {}
        BY <3>5 DEF CheckName
      <4>2. Stage([at |-> "insert_group", owner |-> u, name |-> name])
        BY <4>1 DEF Stage
      <4> QED BY <4>1, <4>2
    <3>6. CASE \E u \in Users, g \in groups : FindGroup(w, u, g)
      <4>1. PICK g \in groups : Continue(w, [at |-> "delete_group", group |-> g])
        BY <3>6 DEF FindGroup
      <4>2. Stage([at |-> "delete_group", group |-> g])
        BY DEF Stage
      <4> QED BY <4>1, <4>2
    <3> QED BY <1>1, <3>1, <3>2, <3>3, <3>4, <3>5, <3>6 DEF Start
  <2> QED BY <1>b, <2>1
<1>2. ASSUME NEW w \in Workers, Proceed(w)
      PROVE  FreshInv' /\ RowsInv'
  <2> DEFINE s == serving[w]
  <2>1. s \in Working \cup {Idle} /\ (w \notin behind => Stage(s))
    BY DEF TypeOK, FreshInv
  <2>2. Stage(Idle)
    BY DEF Stage, Idle
  <2>3. CASE CheckSent(w)
    <3>1. s.at = "check_sent" /\ Sent(s.from, s.to) = {} /\ Stage(s)
            => Stage([s EXCEPT !.at = "check_received"])
      BY <2>1, Stages DEF Stage
    <3> QED BY <1>b, <2>1, <2>2, <2>3, <3>1 DEF CheckSent
  <2>4. CASE CheckReceived(w)
    <3>1. s.at = "check_received" /\ Sent(s.to, s.from) = {} /\ Stage(s)
            => Stage([s EXCEPT !.at = "insert"])
      BY <2>1, Stages DEF Stage
    <3> QED BY <1>b, <2>1, <2>2, <2>4, <3>1 DEF CheckReceived
  <2>5. CASE AddFriend(w)
    <3> DEFINE x == [at |-> "add_mirror", request |-> s.request,
                     rows |-> {<<s.request.to, s.request.from>>} \ friends]
    <3>1. Continue(w, x) /\ (Stage(s) => Stage(x))
      BY <2>5 DEF AddFriend, Stage
    <3> QED BY <1>b, <2>1, <3>1
  <2>6. CASE AddMirror(w)
    <3> DEFINE x == [s EXCEPT !.at = "accept",
                       !.rows = @ \cup ({<<s.request.from, s.request.to>>} \ friends)]
    <3>1. s \in [at : {"add_mirror", "accept"}, request : Request,
                 rows : SUBSET (Users \X Users)]
      BY <2>1, <2>6, Stages DEF AddMirror
    <3>2. x.at = "accept" /\ x.request = s.request
          /\ x.rows = s.rows \cup ({<<s.request.from, s.request.to>>} \ friends)
      BY <3>1
    <3>3. Stage(s) => s.rows = {<<s.request.to, s.request.from>>} \ friends
                      /\ s.request \in requests
      BY <2>6 DEF AddMirror, Stage
    <3>4. Continue(w, x) /\ (Stage(s) => Stage(x))
      BY <2>6, <3>2, <3>3 DEF AddMirror, Stage, Both
    <3> QED BY <1>b, <2>1, <3>4
  <2>7. CASE \/ InsertRequest(w) \/ Accept(w) \/ Discard(w) \/ RemoveMirror(w)
             \/ InsertGroup(w) \/ DeleteGroup(w)
    <3>1. Outside(Keys(s)) /\ Answer(w)
      BY <2>7, WritesItsKeys
    <3>2. FreshInv'
      BY <3>1, FreshAnswer
    <3>3. CASE UNCHANGED <<tables, contested>>
      BY <1>a, <3>2, <3>3
    <3>4. CASE w \in behind /\ contested' = contested \cup Keys(s)
      <4>1. PICK K : K = Keys(s)
        OBVIOUS
      <4>2. Symmetric(K)
        BY <2>1, <4>1, KeysSymmetric
      <4>3. Outside(K)
        BY <3>1, <4>1 DEF Outside
      <4> QED BY <1>0, <3>2, <3>4, <4>1, <4>2, <4>3, RowsContested
    <3>5. CASE w \notin behind /\ contested' = contested
      BY <2>1, <2>7, <3>2, <3>5, RowsKept
    <3> QED BY <3>1, <3>3, <3>4, <3>5, BehindContests
  <2> QED BY <1>2, <2>3, <2>4, <2>5, <2>6, <2>7 DEF Proceed
<1>3. ASSUME NEW w \in Workers, Rollback(w)
      PROVE  FreshInv' /\ RowsInv'
  <2>1. Continue(w, Idle) /\ Stage(Idle)
    BY <1>3 DEF Rollback, Stage, Idle
  <2> QED BY <1>b, <2>1
<1>4. CASE UNCHANGED vars
  <2>1. UNCHANGED <<tables, contested, serving, behind>>
    BY <1>4 DEF vars, overlaps
  <2>2. FreshInv'
    BY <2>1 DEF tables, FreshInv, Stage, Sent, OwnGroups, Both
  <2> QED BY <1>a, <2>1, <2>2
<1> QED BY <1>1, <1>2, <1>3, <1>4 DEF Next

IInv == TypeOK /\ AskedInv /\ FriendsWereAsked /\ FreshInv /\ RowsInv

LEMMA InvInit == Init => IInv
<1>1. Init => FreshInv /\ RowsInv
  BY DEF Init, FreshInv, Stage, Idle, RowsInv, OneRequestPerPair, NoRequestAmongFriends,
         Mutual, GroupNamesUnique
<1> QED BY <1>1, TypeInit, AskedInit DEF IInv

LEMMA InvStep == IInv /\ [Next]_vars => IInv'
  BY TypeStep, AskedStep, RowsStep DEF IInv

LEMMA Invariant == Spec => []IInv
  BY InvInit, InvStep, PTL DEF Spec

\* Whatever the workers interleave, at most one request is pending between two
\* users whose rows no overtaken worker has written.
THEOREM RequestsUncontested == Spec => []OneRequestPerPair
<1>1. IInv => OneRequestPerPair
  BY DEF IInv, RowsInv
<1> QED BY <1>1, Invariant, PTL

\* Nor do friends have a pending request between them there.
THEOREM FriendsSettled == Spec => []NoRequestAmongFriends
<1>1. IInv => NoRequestAmongFriends
  BY DEF IInv, RowsInv
<1> QED BY <1>1, Invariant, PTL

\* And friendship is mutual there, although its two rows are written one by one.
THEOREM FriendsMutual == Spec => []Mutual
<1>1. IInv => Mutual
  BY DEF IInv, RowsInv
<1> QED BY <1>1, Invariant, PTL

\* No owner has two groups of one name, unless an overtaken worker wrote one.
THEOREM GroupNames == Spec => []GroupNamesUnique
<1>1. IInv => GroupNamesUnique
  BY DEF IInv, RowsInv
<1> QED BY <1>1, Invariant, PTL

-----------------------------------------------------------------------------
(* The promise of the service. *)

Pairs == {<<r.from, r.to>> : r \in requests}
Owned == {<<g.owner, g.name>> : g \in groups}

\* Both rows of two users are contested, or neither is.
LEMMA ContestedStep == TypeOK /\ Symmetric(contested) /\ [Next]_vars => Symmetric(contested')
<1> SUFFICES ASSUME TypeOK, Symmetric(contested), [Next]_vars, contested' # contested
             PROVE  Symmetric(contested')
  BY DEF Symmetric
<1>1. PICK w \in Workers : Answer(w)
  <2>1. ~ UNCHANGED vars
    BY DEF vars, overlaps
  <2>2. PICK w \in Workers : Start(w) \/ Proceed(w) \/ Rollback(w)
    BY <2>1 DEF Next
  <2>3. ~ \E s : Continue(w, s)
    BY DEF Continue
  <2>4. Answer(w)
    BY <2>2, <2>3 DEF Start, Proceed, Rollback, CheckFriends, FindReceived, FindSent, RemoveFriend,
           CheckName, FindGroup, CheckSent, CheckReceived, AddFriend, AddMirror,
           InsertRequest, Accept, Discard, RemoveMirror, InsertGroup, DeleteGroup
  <2> QED BY <2>4
<1>2. contested' = contested \cup Keys(serving[w])
  BY <1>1, BehindContests
<1>3. Symmetric(Keys(serving[w]))
  BY KeysSymmetric DEF TypeOK
<1> QED BY <1>2, <1>3 DEF Symmetric

\* Without its row, the pair of a request is not pending any more, where requests
\* are not contested; anywhere else another row may still stand for it.
LEMMA PairGoes ==
  ASSUME OneRequestPerPair, NEW r \in requests, <<r.from, r.to>> \notin contested,
         requests' = requests \ {r}
  PROVE  Pairs' = Pairs \ {<<r.from, r.to>>, <<r.to, r.from>>}
<1>1. ASSUME NEW q \in requests, q # r
      PROVE  <<q.from, q.to>> \notin {<<r.from, r.to>>, <<r.to, r.from>>}
  BY <1>1 DEF OneRequestPerPair, Between
<1> QED BY <1>1 DEF Pairs

LEMMA PairMayGo ==
  ASSUME NEW r, NEW u, NEW v, u = r.from, v = r.to,
         requests' = requests \ {r} \/ requests' = requests
  PROVE  \E gone \in SUBSET Both(u, v) : Pairs' = Pairs \ gone
<1>1. Pairs' \subseteq Pairs /\ Pairs \ Pairs' \subseteq {<<u, v>>}
  BY DEF Pairs
<1>2. Pairs \ Pairs' \in SUBSET Both(u, v)
  BY <1>1 DEF Both
<1>3. Pairs' = Pairs \ (Pairs \ Pairs')
  BY <1>1
<1> QED BY <1>2, <1>3

\* A worker that is not overtaken and works on what is not contested does its
\* request at the moment it COMMITs.
LEMMA TimelyStep ==
  ASSUME TypeOK, IInv, NEW w \in Workers, Stage(serving[w]), contested' = contested,
         Keys(serving[w]) \cap contested = {},
         \/ InsertRequest(w) \/ Accept(w) \/ Discard(w) \/ RemoveMirror(w)
         \/ InsertGroup(w) \/ DeleteGroup(w)
  PROVE  Graph!Timely
<1> DEFINE s == serving[w]
<1>a. ASSUME NEW u \in Users, NEW v \in Users,
             Graph!Ask(u, v) \/ Graph!Befriend(u, v) \/ Graph!Settle(u, v) \/ Graph!Part(u, v)
      PROVE  Graph!Timely
  BY <1>a DEF Graph!Timely
<1>b. ASSUME NEW u \in Users, NEW name \in Names, Graph!Name(u, name) \/ Graph!Forget(u, name)
      PROVE  Graph!Timely
  BY <1>b DEF Graph!Timely
<1>0. s \in Working \cup {Idle}
  BY DEF TypeOK
<1>1. CASE InsertRequest(w)
  <2>1. s.from \in Users /\ s.to \in Users
    BY <1>0, <1>1, Stages DEF InsertRequest
  <2>2. <<s.from, s.to>> \notin contested /\ <<s.to, s.from>> \notin contested
    BY <1>1 DEF InsertRequest, Keys, Both
  <2>3. /\ <<s.from, s.to>> \notin friends /\ Sent(s.from, s.to) = {} /\ Sent(s.to, s.from) = {}
    BY <1>1 DEF InsertRequest, Stage
  <2>4. <<s.to, s.from>> \notin friends
    BY <2>1, <2>2, <2>3 DEF IInv, RowsInv, Mutual
  <2>5. <<s.from, s.to>> \notin Pairs /\ <<s.to, s.from>> \notin Pairs
    BY <2>3 DEF Sent, Pairs
  <2>6. Pairs' = Pairs \cup {<<s.from, s.to>>} /\ UNCHANGED <<friends, groups>>
    <3> DEFINE q == [id |-> requestId', from |-> s.from, to |-> s.to, by |-> w]
    <3>1. requests' = requests \cup {q} /\ UNCHANGED <<friends, groups>>
      BY <1>1 DEF InsertRequest
    <3>2. q.from = s.from /\ q.to = s.to
      OBVIOUS
    <3> HIDE DEF q, s
    <3> QED BY <3>1, <3>2 DEF Pairs
  <2>7. PICK u \in Users, v \in Users : u = s.from /\ v = s.to
    BY <2>1
  <2>8. Graph!Ask(u, v)
    BY <2>3, <2>4, <2>5, <2>6, <2>7 DEF Graph!Ask, Graph!Both, Pairs
  <2> QED BY <1>a, <2>8
<1>2. CASE Accept(w)
  <2> DEFINE r == s.request
  <2>1. /\ r \in requests /\ requests' = requests \ {r}
        /\ friends' = friends \cup {<<r.from, r.to>>, <<r.to, r.from>>}
        /\ groups' = groups
    BY <1>2 DEF Accept, Stage, Both
  <2>2. r.from \in Users /\ r.to \in Users
    BY <2>1 DEF TypeOK, Request
  <2>3. <<r.from, r.to>> \notin contested
    BY <1>2 DEF Accept, Keys, Both
  <2>4. Pairs' = Pairs \ {<<r.from, r.to>>, <<r.to, r.from>>} /\ <<r.from, r.to>> \in Pairs
    BY <2>1, <2>3, PairGoes DEF IInv, RowsInv, Pairs
  <2>5. PICK u \in Users, v \in Users : u = r.from /\ v = r.to
    BY <2>2
  <2>6. Graph!Befriend(u, v)
    BY <2>1, <2>4, <2>5 DEF Graph!Befriend, Graph!Both, Pairs
  <2> QED BY <1>a, <2>6
<1>3. CASE Discard(w)
  <2> DEFINE r == s.request
  <2>1. r \in requests /\ requests' = requests \ {r} /\ UNCHANGED <<friends, groups>>
    BY <1>3 DEF Discard, Stage
  <2>2. r.from \in Users /\ r.to \in Users
    BY <2>1 DEF TypeOK, Request
  <2>3. <<r.from, r.to>> \notin contested
    BY <1>3 DEF Discard, Keys, Both
  <2>4. Pairs' = Pairs \ {<<r.from, r.to>>, <<r.to, r.from>>}
    BY <2>1, <2>3, PairGoes DEF IInv, RowsInv
  <2>5. PICK u \in Users, v \in Users : u = r.from /\ v = r.to
    BY <2>2
  <2>6. Graph!Settle(u, v)
    BY <2>1, <2>4, <2>5 DEF Graph!Settle, Graph!Both, Pairs
  <2> QED BY <1>a, <2>6
<1>4. CASE RemoveMirror(w)
  <2>1. s.me \in Users /\ s.friend \in Users
    BY <1>0, <1>4, Stages DEF RemoveMirror
  <2>2. /\ friends' = friends \ {<<s.me, s.friend>>, <<s.friend, s.me>>}
        /\ UNCHANGED <<requests, groups>>
    BY <1>4 DEF RemoveMirror, Stage
  <2>3. PICK u \in Users, v \in Users : u = s.me /\ v = s.friend
    BY <2>1
  <2>4. Graph!Part(u, v)
    BY <2>2, <2>3 DEF Graph!Part, Graph!Both
  <2> QED BY <1>a, <2>4
<1>5. CASE InsertGroup(w)
  <2>1. s.owner \in Users /\ s.name \in Names
    BY <1>0, <1>5, Stages DEF InsertGroup
  <2>2. <<s.owner, s.name>> \notin Owned
    BY <1>5 DEF InsertGroup, Stage, OwnGroups, Owned
  <2>3. Owned' = Owned \cup {<<s.owner, s.name>>} /\ UNCHANGED <<requests, friends>>
    <3> DEFINE g == [id |-> groupId', owner |-> s.owner, name |-> s.name]
    <3>1. groups' = groups \cup {g} /\ UNCHANGED <<requests, friends>>
      BY <1>5 DEF InsertGroup
    <3>2. g.owner = s.owner /\ g.name = s.name
      OBVIOUS
    <3> HIDE DEF g, s
    <3> QED BY <3>1, <3>2 DEF Owned
  <2>4. PICK u \in Users, name \in Names : u = s.owner /\ name = s.name
    BY <2>1
  <2>5. Graph!Name(u, name)
    BY <2>2, <2>3, <2>4 DEF Graph!Name, Owned
  <2> QED BY <1>b, <2>5
<1>6. CASE DeleteGroup(w)
  <2> DEFINE g == s.group
  <2>1. g \in groups /\ groups' = groups \ {g} /\ UNCHANGED <<requests, friends>>
    BY <1>6 DEF DeleteGroup, Stage
  <2>2. g.owner \in Users /\ g.name \in Names
    BY <2>1 DEF TypeOK, Group
  <2>3. <<g.owner, g.name>> \notin contested
    BY <1>6 DEF DeleteGroup, Keys
  <2>4. ASSUME NEW h \in groups, h # g
        PROVE  <<h.owner, h.name>> # <<g.owner, g.name>>
    BY <2>1, <2>3, <2>4 DEF IInv, RowsInv, GroupNamesUnique
  <2>5. Owned' = Owned \ {<<g.owner, g.name>>}
    BY <2>1, <2>4 DEF Owned
  <2>6. PICK u \in Users, name \in Names : u = g.owner /\ name = g.name
    BY <2>2
  <2>7. Graph!Forget(u, name)
    BY <2>1, <2>5, <2>6 DEF Graph!Forget, Owned
  <2> QED BY <1>b, <2>7
<1> QED BY <1>1, <1>2, <1>3, <1>4, <1>5, <1>6

\* Any other worker does it late.
LEMMA LateStep ==
  ASSUME TypeOK, IInv, NEW w \in Workers, contested' = contested \cup Keys(serving[w]),
         \/ InsertRequest(w) \/ Accept(w) \/ Discard(w) \/ RemoveMirror(w)
         \/ InsertGroup(w) \/ DeleteGroup(w)
  PROVE  Graph!Late
<1> DEFINE s == serving[w]
<1>a. ASSUME NEW u \in Users, NEW v \in Users,
             \/ Graph!LateAsk(u, v) \/ Graph!LateBefriend(u, v)
             \/ Graph!LateSettle(u, v) \/ Graph!LatePart(u, v)
      PROVE  Graph!Late
  BY <1>a DEF Graph!Late
<1>b. ASSUME NEW u \in Users, NEW name \in Names,
             Graph!LateName(u, name) \/ Graph!LateForget(u, name)
      PROVE  Graph!Late
  BY <1>b DEF Graph!Late
<1>0. s \in Working \cup {Idle} /\ AskedStage(s)
  BY DEF TypeOK, IInv, AskedInv
<1>1. CASE InsertRequest(w)
  <2>1. PICK u \in Users, v \in Users : u = s.from /\ v = s.to
    BY <1>0, <1>1, Stages DEF InsertRequest
  <2>2. contested' = contested \cup Both(u, v)
    BY <1>1, <2>1 DEF InsertRequest, Keys
  <2>3. Pairs' = Pairs \cup {<<u, v>>} /\ UNCHANGED <<friends, groups>>
    <3> DEFINE q == [id |-> requestId', from |-> s.from, to |-> s.to, by |-> w]
    <3>1. requests' = requests \cup {q} /\ UNCHANGED <<friends, groups>>
      BY <1>1 DEF InsertRequest
    <3>2. q.from = u /\ q.to = v
      BY <2>1
    <3> HIDE DEF q, s
    <3> QED BY <3>1, <3>2 DEF Pairs
  <2>4. Graph!LateAsk(u, v)
    BY <2>2, <2>3 DEF Graph!LateAsk, Graph!Both, Both, Pairs
  <2> QED BY <1>a, <2>4
<1>2. CASE Accept(w)
  <2> DEFINE r == s.request
  <2>1. PICK u \in Users, v \in Users : u = r.from /\ v = r.to
    <3>1. r \in Request
      BY <1>0, <1>2, Stages DEF Accept
    <3> QED BY <3>1 DEF Request
  <2>2. contested' = contested \cup Both(u, v)
    BY <1>2, <2>1 DEF Accept, Keys
  <2>3. PICK gone \in SUBSET Both(u, v) : Pairs' = Pairs \ gone
    <3>1. requests' = requests \ {r} \/ requests' = requests
      BY <1>2 DEF Accept
    <3>2. PICK q : q = r
      OBVIOUS
    <3> QED BY <2>1, <3>1, <3>2, PairMayGo
  <2>4. PICK new \in SUBSET Both(u, v) : friends' = friends \cup new
    <3>1. s.rows \in SUBSET Both(u, v)
      BY <1>0, <1>2, <2>1 DEF Accept, AskedStage, Both
    <3>2. friends' = friends \cup s.rows \/ friends' = friends \cup {}
      BY <1>2 DEF Accept
    <3> QED BY <3>1, <3>2
  <2>5. groups' = groups
    BY <1>2 DEF Accept
  <2>6. Graph!LateBefriend(u, v)
    BY <2>2, <2>3, <2>4, <2>5 DEF Graph!LateBefriend, Graph!Both, Both, Pairs
  <2> QED BY <1>a, <2>6
<1>3. CASE Discard(w)
  <2> DEFINE r == s.request
  <2>1. PICK u \in Users, v \in Users : u = r.from /\ v = r.to
    <3>1. r \in Request
      BY <1>0, <1>3, Stages DEF Discard
    <3> QED BY <3>1 DEF Request
  <2>2. contested' = contested \cup Both(u, v)
    BY <1>3, <2>1 DEF Discard, Keys
  <2>3. PICK gone \in SUBSET Both(u, v) : Pairs' = Pairs \ gone
    <3>1. requests' = requests \ {r}
      BY <1>3 DEF Discard
    <3>2. PICK q : q = r
      OBVIOUS
    <3> QED BY <2>1, <3>1, <3>2, PairMayGo
  <2>4. UNCHANGED <<friends, groups>>
    BY <1>3 DEF Discard
  <2>5. Graph!LateSettle(u, v)
    BY <2>2, <2>3, <2>4 DEF Graph!LateSettle, Graph!Both, Both, Pairs
  <2> QED BY <1>a, <2>5
<1>4. CASE RemoveMirror(w)
  <2>1. PICK u \in Users, v \in Users : u = s.me /\ v = s.friend
    BY <1>0, <1>4, Stages DEF RemoveMirror
  <2>2. contested' = contested \cup Both(u, v)
    BY <1>4, <2>1 DEF RemoveMirror, Keys
  <2>3. PICK gone \in SUBSET Both(u, v) : friends' = friends \ gone
    <3>1. s.rows \cup {<<v, u>>} \in SUBSET Both(u, v)
      BY <1>0, <1>4, <2>1 DEF RemoveMirror, AskedStage, Both
    <3>2. friends' = friends \ (s.rows \cup {<<v, u>>})
      BY <1>4, <2>1 DEF RemoveMirror
    <3> QED BY <3>1, <3>2
  <2>4. UNCHANGED <<requests, groups>>
    BY <1>4 DEF RemoveMirror
  <2>5. Graph!LatePart(u, v)
    BY <2>2, <2>3, <2>4 DEF Graph!LatePart, Graph!Both, Both
  <2> QED BY <1>a, <2>5
<1>5. CASE InsertGroup(w)
  <2>1. PICK u \in Users, name \in Names : u = s.owner /\ name = s.name
    BY <1>0, <1>5, Stages DEF InsertGroup
  <2>2. contested' = contested \cup {<<u, name>>}
    BY <1>5, <2>1 DEF InsertGroup, Keys
  <2>3. Owned' = Owned \cup {<<u, name>>} /\ UNCHANGED <<requests, friends>>
    <3> DEFINE g == [id |-> groupId', owner |-> s.owner, name |-> s.name]
    <3>1. groups' = groups \cup {g} /\ UNCHANGED <<requests, friends>>
      BY <1>5 DEF InsertGroup
    <3>2. g.owner = u /\ g.name = name
      BY <2>1
    <3> HIDE DEF g, s
    <3> QED BY <3>1, <3>2 DEF Owned
  <2>4. Graph!LateName(u, name)
    BY <2>2, <2>3 DEF Graph!LateName, Owned
  <2> QED BY <1>b, <2>4
<1>6. CASE DeleteGroup(w)
  <2> DEFINE g == s.group
  <2>1. PICK u \in Users, name \in Names : u = g.owner /\ name = g.name
    <3>1. g \in Group
      BY <1>0, <1>6, Stages DEF DeleteGroup
    <3> QED BY <3>1 DEF Group
  <2>2. contested' = contested \cup {<<u, name>>}
    BY <1>6, <2>1 DEF DeleteGroup, Keys
  <2>3. groups' = groups \ {g} /\ UNCHANGED <<requests, friends>>
    BY <1>6 DEF DeleteGroup
  <2>4. Owned' \subseteq Owned /\ Owned \ Owned' \in SUBSET {<<u, name>>}
    BY <2>1, <2>3 DEF Owned
  <2>5. PICK gone \in SUBSET {<<u, name>>} : Owned' = Owned \ gone
    <3>1. Owned' = Owned \ (Owned \ Owned')
      BY <2>4
    <3> QED BY <2>4, <3>1
  <2>6. Graph!LateForget(u, name)
    BY <2>2, <2>3, <2>5 DEF Graph!LateForget, Owned
  <2> QED BY <1>b, <2>6
<1> QED BY <1>1, <1>2, <1>3, <1>4, <1>5, <1>6

\* Once one key of a worker is contested, all of them are.
LEMMA AllContested ==
  ASSUME NEW s \in Working \cup {Idle}, Symmetric(contested), Keys(s) \cap contested # {}
  PROVE  Keys(s) \subseteq contested
<1>1. CASE \E u, v \in Users : Keys(s) = Both(u, v)
  BY <1>1 DEF Both, Symmetric
<1>2. CASE \E u \in Users, name \in Names : Keys(s) = {<<u, name>>}
  BY <1>2
<1> QED BY <1>1, <1>2, KeyCases

LEMMA GraphStep ==
  ASSUME IInv, Symmetric(contested), [Next]_vars
  PROVE  [Graph!Next]_(Graph!vars)
<1>0. TypeOK
  BY DEF IInv
<1>1. ASSUME UNCHANGED <<requests, friends, groups, contested>>
      PROVE  [Graph!Next]_(Graph!vars)
  BY <1>1 DEF Graph!vars
<1>2. ASSUME NEW w \in Workers, Start(w) \/ Rollback(w)
      PROVE  UNCHANGED <<requests, friends, groups, contested>>
  BY <1>2 DEF Start, Rollback, CheckFriends, FindReceived, FindSent, RemoveFriend, CheckName,
              FindGroup, Continue, tables
<1>3. ASSUME NEW w \in Workers, Proceed(w)
      PROVE  [Graph!Next]_(Graph!vars)
  <2> DEFINE s == serving[w]
  <2>1. CASE CheckSent(w) \/ CheckReceived(w) \/ AddFriend(w) \/ AddMirror(w)
    <3>1. UNCHANGED <<requests, friends, groups, contested>>
      BY <2>1 DEF CheckSent, CheckReceived, AddFriend, AddMirror, Continue, tables
    <3> QED BY <1>1, <3>1
  <2>2. CASE \/ InsertRequest(w) \/ Accept(w) \/ Discard(w) \/ RemoveMirror(w)
             \/ InsertGroup(w) \/ DeleteGroup(w)
    <3>1. Answer(w)
      BY <1>0, <2>2, WritesItsKeys DEF IInv
    <3>2. CASE UNCHANGED <<tables, contested>>
      BY <1>1, <3>2 DEF tables
    <3>3. CASE w \in behind /\ contested' = contested \cup Keys(s)
      BY <1>0, <2>2, <3>3, LateStep DEF Graph!Next
    <3>4. CASE w \notin behind /\ contested' = contested
      <4>1. Stage(s)
        BY <3>4 DEF IInv, FreshInv
      <4>2. CASE Keys(s) \cap contested = {}
        BY <1>0, <2>2, <3>4, <4>1, <4>2, TimelyStep DEF Graph!Next
      <4>3. CASE Keys(s) \cap contested # {}
        <5>1. Keys(s) \subseteq contested
          BY <1>0, <4>3, AllContested DEF TypeOK
        <5>2. contested' = contested \cup Keys(s)
          BY <3>4, <5>1
        <5> QED BY <1>0, <2>2, <5>2, LateStep DEF Graph!Next
      <4> QED BY <4>2, <4>3
    <3> QED BY <1>0, <3>1, <3>2, <3>3, <3>4, BehindContests
  <2> QED BY <1>3, <2>1, <2>2 DEF Proceed
<1>4. CASE UNCHANGED vars
  BY <1>1, <1>4 DEF vars, tables, overlaps
<1> QED BY <1>1, <1>2, <1>3, <1>4 DEF Next

\* However many workers there are, the handlers, which look first and write later,
\* implement FriendGraph, where each request to the service is a single step and only
\* one that was overtaken, or works where such a one has written, may be done by halves.
THEOREM HandlersServeAtOnce == Spec => ServesAtOnce
<1>1. Init => IInv /\ Symmetric(contested) /\ Graph!Init
  BY InvInit DEF Init, Symmetric, Graph!Init
<1>2. IInv /\ Symmetric(contested) /\ [Next]_vars => (IInv /\ Symmetric(contested))'
  <2>1. IInv /\ Symmetric(contested) /\ [Next]_vars => Symmetric(contested')
    BY ContestedStep DEF IInv
  <2> QED BY <2>1, InvStep DEF Symmetric
<1>3. IInv /\ Symmetric(contested) /\ [Next]_vars => [Graph!Next]_(Graph!vars)
  BY GraphStep
<1> QED BY <1>1, <1>2, <1>3, PTL DEF Spec, ServesAtOnce, Graph!Spec
=============================================================================
