------------------------------- MODULE Badges -------------------------------
(***************************************************************************)
(* Badges and messages: a save of an instance awards badges to its user    *)
(* (apps/badges/models.py, on post_save), and each award is announced by   *)
(* the signal message_sent to the response that is being built             *)
(* (response_util.py).                                                     *)
(*                                                                         *)
(* Requests are served by the threads of several processes.  Every request *)
(* is one transaction at the isolation level `read committed'              *)
(* (TransactionMiddleware).  Signals stay in their process, and all        *)
(* responses connect under one dispatch_uid: the first that lives is the   *)
(* receiver, and the signal holds it by a weak reference.                  *)
(***************************************************************************)
EXTENDS Naturals, FiniteSets

CONSTANTS
  Users,     \* profiles
  Badge,     \* rows of BadgeModel for the action of the saved instances
  OneTime,   \* those that are one_time_only
  Threads,   \* threads that serve requests
  Process,   \* the process of each thread
  MaxAwards, \* bound: awards ever begun
  None       \* no receiver

ASSUME AwardAssumption ==
  /\ OneTime \subseteq Badge /\ MaxAwards \in Nat
  /\ DOMAIN Process = Threads /\ None \notin Threads

VARIABLES
  awards,    \* committed rows of BadgeToUser
  receiver,  \* of each process, the thread whose response is connected
  serving,   \* the request each thread serves
  lastAward, \* numbers the awards
  joined     \* history: threads whose request began alone, and for whose user another
             \* request of the process has won something since

vars == <<awards, receiver, serving, lastAward, joined>>

Processes == {Process[t] : t \in Threads}

\* `by' is history, the thread that inserted the row.
Award == [id : 1 .. MaxAwards, badge : Badge, winner : Users, by : Threads]

\* made: awards its transaction has inserted; told: awards among the messages of
\* its response; alone and before (history): no other response of the process
\* lived when it began, and the one-time awards committed by then; winner, todo,
\* won: whose badges are looked at, those left, and the one being awarded.
Idle == [at |-> "idle"]
Request ==
  [at : {"handler", "look", "sent", "refused"}, user : Users, alone : BOOLEAN,
   before : SUBSET Award, made : SUBSET Award, told : SUBSET Award,
   winner : Users, todo : SUBSET Badge, won : SUBSET Badge]

Init ==
  /\ awards = {}
  /\ receiver = [p \in Processes |-> None]
  /\ serving = [t \in Threads |-> Idle]
  /\ lastAward = 0 /\ joined = {}

Continue(t, r) == serving' = [serving EXCEPT ![t] = r]

\* The rows that a query of r's transaction finds.
Rows(r, b) == {a \in awards \cup r.made : a.badge = b /\ a.winner = r.winner}

-----------------------------------------------------------------------------
(* ResponseObject and its signal *)

\* Faulty variant: the latest response takes the place of the receiver.
ConnectLatest(t, current) == t

\* message_sent.connect: the uid is taken as long as its receiver lives.
Connect(t, current) == IF current = None THEN t ELSE current

\* ProvideResponse makes the response that the handler is going to fill.
Begin(t, u) ==
  LET current == receiver[Process[t]] IN
  /\ serving[t] = Idle
  /\ receiver' = [receiver EXCEPT ![Process[t]] = Connect(t, current)]
  /\ Continue(t, [at |-> "handler", user |-> u, alone |-> current = None,
                  before |-> {a \in awards : a.badge \in OneTime}, made |-> {}, told |-> {},
                  winner |-> u, todo |-> {}, won |-> {}])
  /\ UNCHANGED <<awards, lastAward, joined>>

\* message_callback, then the insert: the receiver keeps messages of its user.
\* What it is told after it was sent is not sent any more.
Told(award, r) ==
  IF r.at \in {"handler", "look"} /\ r.user = award.winner
  THEN [r EXCEPT !.told = @ \cup {award}] ELSE r

-----------------------------------------------------------------------------
(* BaseBadge.callback *)

\* An instance of w is saved: post_save runs over the badges of its action.
Save(t, w) ==
  /\ serving[t].at = "handler"
  /\ Continue(t, [serving[t] EXCEPT !.at = "look", !.winner = w, !.todo = Badge])
  /\ UNCHANGED <<awards, receiver, lastAward, joined>>

\* Faulty variant: a badge that the user has is awarded again.
LookAgain(t, b) ==
  LET r == serving[t] IN
  /\ r.at = "look" /\ r.won = {} /\ b \in r.todo
  /\ \E won \in {{}, {b}} :
       Continue(t, [r EXCEPT !.todo = @ \ {b}, !.won = won])
  /\ UNCHANGED <<awards, receiver, lastAward, joined>>

\* One badge: has the user won it, and if not, does check_badge of the site say
\* so?  Two rows raise MultipleObjectsReturned: see Raise.
Look(t, b) ==
  LET r == serving[t]
      Has == b \in OneTime /\ Rows(r, b) # {}
  IN
  /\ r.at = "look" /\ r.won = {} /\ b \in r.todo
  /\ Has => Cardinality(Rows(r, b)) = 1
  /\ \E won \in IF Has THEN {{}} ELSE {{}, {b}} :
       Continue(t, [r EXCEPT !.todo = @ \ {b}, !.won = won])
  /\ UNCHANGED <<awards, receiver, lastAward, joined>>

\* BadgeToUser.objects.create: message_sent goes out before the insert.
Win(t) ==
  LET r == serving[t]
      heard == receiver[Process[t]]
  IN
  /\ r.at = "look" /\ lastAward < MaxAwards
  /\ \E b \in r.won :
       LET award == [id |-> lastAward + 1, badge |-> b, winner |-> r.winner, by |-> t]
       IN  serving' = [s \in Threads |->
             LET q == IF s = t THEN [r EXCEPT !.made = @ \cup {award}, !.won = {}]
                               ELSE serving[s]
             IN  IF s = heard THEN Told(award, q) ELSE q]
  /\ lastAward' = lastAward + 1
  /\ joined' = joined \cup
       {s \in Threads \ {t} : /\ Process[s] = Process[t]
                             /\ serving[s].at \in {"handler", "look"}
                             /\ serving[s].alone /\ serving[s].user = r.winner}
  /\ UNCHANGED <<awards, receiver>>

Looked(t) ==
  LET r == serving[t] IN
  /\ r.at = "look" /\ r.todo = {} /\ r.won = {}
  /\ Continue(t, [r EXCEPT !.at = "handler", !.winner = r.user])
  /\ UNCHANGED <<awards, receiver, lastAward, joined>>

-----------------------------------------------------------------------------
(* The end of a request *)

\* The handler returns, and its response is rendered with the messages it has.
Send(t) ==
  /\ serving[t].at = "handler"
  /\ Continue(t, [serving[t] EXCEPT !.at = "sent"])
  /\ UNCHANGED <<awards, receiver, lastAward, joined>>

\* The transaction is rolled back: by an exception (of check_badge, of
\* badge_won_callback, of a look-up that finds two rows), which another response
\* reports, or by the handler, which sends its own (user/handlers.py:106).
RollBack(t) ==
  /\ serving[t].at \in {"handler", "look"}
  /\ Continue(t, [serving[t] EXCEPT !.at = "refused", !.made = {},
                   !.winner = serving[t].user, !.todo = {}, !.won = {}])
  /\ UNCHANGED <<awards, receiver, lastAward, joined>>

\* Faulty variant: the signal keeps the response as its receiver.
FinishHeld(t) ==
  /\ serving[t].at \in {"sent", "refused"}
  /\ awards' = awards \cup serving[t].made
  /\ Continue(t, Idle)
  /\ joined' = joined \ {t}
  /\ UNCHANGED <<receiver, lastAward>>

\* COMMIT, and the response is freed: a weak reference to it goes.
Finish(t) ==
  /\ serving[t].at \in {"sent", "refused"}
  /\ awards' = awards \cup serving[t].made
  /\ receiver' = [receiver EXCEPT ![Process[t]] = IF @ = t THEN None ELSE @]
  /\ Continue(t, Idle)
  /\ joined' = joined \ {t}
  /\ UNCHANGED lastAward

Step(t) ==
  \/ \E u \in Users : Begin(t, u) \/ Save(t, u)
  \/ \E b \in Badge : Look(t, b)
  \/ Win(t) \/ Looked(t) \/ Send(t) \/ RollBack(t) \/ Finish(t)

Next == \E t \in Threads : Step(t)

Spec == Init /\ [][Next]_vars

-----------------------------------------------------------------------------
(* Properties *)

\* Types; a receiver is a response of the process that is being built or sent.
TypeOK ==
  /\ awards \subseteq Award
  /\ receiver \in [Processes -> Threads \cup {None}]
  /\ serving \in [Threads -> Request \cup {Idle}]
  /\ lastAward \in 0 .. MaxAwards /\ joined \subseteq Threads
  /\ \A p \in Processes : receiver[p] # None =>
       Process[receiver[p]] = p /\ serving[receiver[p]] # Idle

\* A badge that is one_time_only (models.py:111) is awarded twice to a user only
\* by requests that overlap: no request awards it to a user who had it, committed,
\* when the request began, and no thread looks past a row it has inserted itself,
\* in whatever requests.
Same(a, b) == a.badge \in OneTime /\ a.badge = b.badge /\ a.winner = b.winner
AwardedTwiceOnlyByRace ==
  /\ \A a, b \in awards : Same(a, b) /\ a.by = b.by => a = b
  /\ \A t \in Threads : serving[t] # Idle =>
       \A a \in serving[t].made, b \in serving[t].before : ~ Same(a, b)

\* A response that is sent announces all that its own request has awarded its user
\* and that is going to be committed, although the messages go out before the rows
\* are inserted.  What it announces besides was won by the same user in another
\* request that its process has served meanwhile: without one, it announces
\* nothing else.  Excepted are responses that began while another one of the
\* process was alive (response_util.py:33), and those that a handler sends after a
\* rollback of its own (user/handlers.py:105), which keep their messages.
AnnouncedExactly ==
  \A t \in Threads :
    LET r == serving[t]
        own == {a \in r.made : a.winner = r.user}
    IN
    r.at = "sent" /\ r.alone =>
      /\ own \subseteq r.told
      /\ \A a \in r.told \ own :
           t \in joined /\ a.winner = r.user /\ a.by # t /\ Process[a.by] = Process[t]
=============================================================================
