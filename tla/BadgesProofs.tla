---------------------------- MODULE BadgesProofs ----------------------------
(***************************************************************************)
(* Theorems about Badges for any users, badges, threads and processes.     *)
(***************************************************************************)
EXTENDS Badges, TLAPS

\* Of the rows that thread t sees in a request r, no two are of one one-time badge,
\* user and thread; none is like the row that t is about to insert; and nothing that
\* r has inserted or is about to is like a row that was there when it began.
Distinct(rows) == \A a, b \in rows : Same(a, b) /\ a.by = b.by => a = b
LooksRight(t, r, rows) ==
  /\ Distinct(rows \cup r.made)
  /\ \A a \in r.made : a.by = t
  /\ \A b \in r.won \cap OneTime, a \in rows \cup r.made :
       a.badge = b /\ a.winner = r.winner => a.by # t
  /\ r.before \subseteq rows
  /\ \A a \in r.made, b \in r.before : ~ Same(a, b)
  /\ \A b \in r.won \cap OneTime, a \in r.before : ~ (a.badge = b /\ a.winner = r.winner)
  /\ r.at = "handler" => r.won = {}
RaceInv ==
  /\ Distinct(awards)
  /\ \A t \in Threads : serving[t] # Idle => LooksRight(t, serving[t], awards)

\* A response r of thread t that began alone is the receiver of its process until
\* it is freed, and so is told what its own request inserts for its user; what it
\* is told besides comes from requests that join it.
Own(r) == {a \in r.made : a.winner = r.user}
Announces(t, r, others) ==
  /\ Own(r) \subseteq r.told
  /\ \A a \in r.told \ Own(r) :
       t \in others /\ a.winner = r.user /\ a.by # t /\ Process[a.by] = Process[t]
TellsRight(t, r, heard, others) ==
  r.alone => heard = t /\ (r.at # "refused" => Announces(t, r, others))
TellInv ==
  \A t \in Threads :
    serving[t] # Idle => TellsRight(t, serving[t], receiver[Process[t]], joined)

-----------------------------------------------------------------------------
\* An award's numbers: those of Win.
NewAward(t, b) ==
  [id |-> lastAward + 1, badge |-> b, winner |-> serving[t].winner, by |-> t]

\* What Win does to its own request and to those of other threads.
WinEffect(t, b) ==
  LET award == NewAward(t, b)
      r == [serving[t] EXCEPT !.made = @ \cup {award}, !.won = {}]
  IN
  /\ award \in Award /\ serving[t] \in Request /\ serving[t].at = "look"
  /\ r \in Request
  /\ serving'[t] = IF receiver[Process[t]] = t THEN Told(award, r) ELSE r
  /\ \A s \in Threads \ {t} :
       \/ serving'[s] = serving[s]
       \/ serving[s] \in Request /\ serving'[s] = Told(award, serving[s])
          /\ s = receiver[Process[t]]
  /\ \A s \in Threads :
       serving'[s] \in Request \/ (serving[s] = Idle /\ serving'[s] = Idle)
LEMMA WinStep ==
  ASSUME TypeOK, NEW t \in Threads, Win(t)
  PROVE  \E b \in serving[t].won : WinEffect(t, b)
<1> DEFINE q == serving[t]
           heard == receiver[Process[t]]
<1>1. q \in Request /\ q.at = "look" /\ lastAward < MaxAwards /\ lastAward \in Nat
  BY AwardAssumption DEF Win, TypeOK, Idle
<1>2. PICK b \in q.won :
        serving' = [s \in Threads |->
          LET p == IF s = t
                   THEN [q EXCEPT !.made = @ \cup {NewAward(t, b)}, !.won = {}]
                   ELSE serving[s]
          IN  IF s = heard THEN Told(NewAward(t, b), p) ELSE p]
  BY DEF Win, NewAward
<1> DEFINE award == NewAward(t, b)
           r == [q EXCEPT !.made = @ \cup {award}, !.won = {}]
<1>3. b \in Badge
  BY <1>1 DEF Request
<1>4. award \in Award
  BY <1>1, <1>3, AwardAssumption DEF NewAward, Award, Request
<1>5. r \in Request
  BY <1>1, <1>4 DEF Request
<1>6. \A p \in Request : Told(award, p) \in Request
  BY <1>4 DEF Told, Request
<1>7. \A s \in Threads : s = heard => serving[s] # Idle
  BY AwardAssumption DEF TypeOK, Processes
<1>8. \A s \in Threads \ {t} :
        serving'[s] = IF s = heard THEN Told(award, serving[s]) ELSE serving[s]
  BY <1>2
<1>9. serving'[t] = IF heard = t THEN Told(award, r) ELSE r
  BY <1>2
<1>10. \A s \in Threads \ {t} :
         \/ serving'[s] = serving[s]
         \/ serving[s] \in Request /\ serving'[s] = Told(award, serving[s]) /\ s = heard
  BY <1>7, <1>8 DEF TypeOK
<1>11. \A s \in Threads : serving'[s] \in Request \/ (serving[s] = Idle /\ serving'[s] = Idle)
  BY <1>5, <1>6, <1>9, <1>10 DEF TypeOK
<1> HIDE DEF award, r
<1> QED BY <1>1, <1>4, <1>5, <1>9, <1>10, <1>11 DEF award, r, WinEffect
-----------------------------------------------------------------------------
(* Type correctness. *)

LEMMA TypeStep == TypeOK /\ [Next]_vars => TypeOK'
<1> SUFFICES ASSUME TypeOK, [Next]_vars PROVE TypeOK'
  OBVIOUS
<1> USE AwardAssumption
<1>0. \A t \in Threads : serving[t].at # "idle" => serving[t] \in Request /\ serving[t] # Idle
  BY DEF TypeOK, Idle
<1>1. ASSUME NEW t \in Threads, NEW u \in Users, Begin(t, u)
      PROVE  TypeOK'
  <2> DEFINE r == [at |-> "handler", user |-> u, alone |-> receiver[Process[t]] = None,
                   before |-> {a \in awards : a.badge \in OneTime}, made |-> {},
                   told |-> {}, winner |-> u, todo |-> {}, won |-> {}]
  <2>0. {a \in awards : a.badge \in OneTime} \in SUBSET Award
    BY DEF TypeOK
  <2>1. r \in Request /\ r # Idle /\ serving' = [serving EXCEPT ![t] = r]
    BY <1>1, <2>0 DEF Begin, Continue, Request, Idle
  <2>2. UNCHANGED <<awards, lastAward, joined>>
          /\ receiver' = [receiver EXCEPT
               ![Process[t]] = IF receiver[Process[t]] = None THEN t
                               ELSE receiver[Process[t]]]
    BY <1>1 DEF Begin, Connect
  <2> HIDE DEF r
  <2> QED BY <2>1, <2>2 DEF TypeOK, Processes
<1>2. ASSUME NEW t \in Threads, NEW r \in Request,
             serving[t] # Idle, serving' = [serving EXCEPT ![t] = r],
             UNCHANGED <<awards, receiver, lastAward, joined>>
      PROVE  TypeOK'
  <2>1. r # Idle
    BY <1>2 DEF Request, Idle
  <2> QED BY <1>2, <2>1 DEF TypeOK
<1>3. ASSUME NEW t \in Threads, NEW w \in Users, Save(t, w)
      PROVE  TypeOK'
  <2>1. serving[t] \in Request /\ serving[t] # Idle
    BY <1>0, <1>3 DEF Save
  <2>2. [serving[t] EXCEPT !.at = "look", !.winner = w, !.todo = Badge] \in Request
    BY <2>1 DEF Request
  <2> QED BY <1>2, <1>3, <2>1, <2>2 DEF Save, Continue
<1>4. ASSUME NEW t \in Threads, NEW b \in Badge, Look(t, b)
      PROVE  TypeOK'
  <2>1. serving[t] \in Request /\ serving[t] # Idle
    BY <1>0, <1>4 DEF Look
  <2>2. PICK won \in {{}, {b}} :
          serving' = [serving EXCEPT ![t] =
                        [serving[t] EXCEPT !.todo = @ \ {b}, !.won = won]]
    BY <1>4 DEF Look, Continue
  <2>3. [serving[t] EXCEPT !.todo = @ \ {b}, !.won = won] \in Request
    BY <2>1 DEF Request
  <2> QED BY <1>2, <1>4, <2>1, <2>2, <2>3 DEF Look
<1>5. ASSUME NEW t \in Threads, Win(t)
      PROVE  TypeOK'
  <2>1. UNCHANGED <<awards, receiver>> /\ lastAward' \in 0 .. MaxAwards
          /\ joined' \subseteq Threads
    BY <1>5 DEF Win, TypeOK
  <2>2. serving' \in [Threads -> Request \cup {Idle}]
    <3>1. \A s \in Threads : serving'[s] \in Request \cup {Idle}
      BY <1>5, WinStep DEF WinEffect
    <3>2. DOMAIN serving' = Threads /\ serving' = [s \in Threads |-> serving'[s]]
      BY <1>5 DEF Win
    <3> QED BY <3>1, <3>2
  <2>3. ASSUME NEW s \in Threads, serving[s] # Idle
        PROVE  serving'[s] # Idle
    <3>1. serving'[s] \in Request
      BY <1>5, <2>3, WinStep DEF WinEffect
    <3> QED BY <3>1 DEF Request, Idle
  <2> QED BY <2>1, <2>2, <2>3 DEF TypeOK
<1>6. ASSUME NEW t \in Threads, Looked(t)
      PROVE  TypeOK'
  <2>1. serving[t] \in Request /\ serving[t] # Idle
    BY <1>0, <1>6 DEF Looked
  <2>2. [serving[t] EXCEPT !.at = "handler", !.winner = serving[t].user] \in Request
    BY <2>1 DEF Request
  <2> QED BY <1>2, <1>6, <2>1, <2>2 DEF Looked, Continue
<1>7. ASSUME NEW t \in Threads, Send(t)
      PROVE  TypeOK'
  <2>1. serving[t] \in Request /\ serving[t] # Idle
    BY <1>0, <1>7 DEF Send
  <2>2. [serving[t] EXCEPT !.at = "sent"] \in Request
    BY <2>1 DEF Request
  <2> QED BY <1>2, <1>7, <2>1, <2>2 DEF Send, Continue
<1>8. ASSUME NEW t \in Threads, RollBack(t)
      PROVE  TypeOK'
  <2>1. serving[t] \in Request /\ serving[t] # Idle
    BY <1>0, <1>8 DEF RollBack
  <2>2. [serving[t] EXCEPT !.at = "refused", !.made = {},
           !.winner = serving[t].user, !.todo = {}, !.won = {}] \in Request
    BY <2>1 DEF Request
  <2> QED BY <1>2, <1>8, <2>1, <2>2 DEF RollBack, Continue
<1>9. ASSUME NEW t \in Threads, Finish(t)
      PROVE  TypeOK'
  <2>1. serving[t] \in Request /\ serving[t].made \subseteq Award
    BY <1>9 DEF Finish, TypeOK, Idle, Request
  <2> QED BY <1>9, <2>1 DEF Finish, Continue, TypeOK, Processes
<1>10. CASE UNCHANGED vars
  BY <1>10 DEF vars, TypeOK
<1> QED
  BY <1>1, <1>3, <1>4, <1>5, <1>6, <1>7, <1>8, <1>9, <1>10 DEF Next, Step

\* Rows, receivers and requests are well typed, and receivers are alive.
THEOREM TypeCorrect == Spec => []TypeOK
<1>1. Init => TypeOK
  BY AwardAssumption DEF Init, TypeOK, Processes
<1> QED BY <1>1, TypeStep, PTL DEF Spec

-----------------------------------------------------------------------------
(* A one-time badge is awarded twice only by requests that overlap. *)

\* A request that goes on having at most rolled back.
LEMMA RaceContinue ==
  ASSUME TypeOK, RaceInv, NEW t \in Threads, NEW r \in Request,
         serving' = [serving EXCEPT ![t] = r], UNCHANGED awards,
         LooksRight(t, r, awards)
  PROVE  RaceInv'
<1>1. \A s \in Threads \ {t} : serving'[s] = serving[s]
  BY DEF TypeOK
<1>2. serving'[t] = r
  BY DEF TypeOK
<1> QED BY <1>1, <1>2 DEF RaceInv

LEMMA RaceStep ==
  ASSUME TypeOK, RaceInv, [Next]_vars
  PROVE  RaceInv'
<1>1. TypeOK'
  BY TypeStep
<1>2. \A t \in Threads : serving[t].at # "idle" =>
        serving[t] \in Request /\ LooksRight(t, serving[t], awards)
  BY DEF TypeOK, RaceInv, Idle
<1>3. ASSUME NEW t \in Threads, NEW u \in Users, Begin(t, u)
      PROVE  RaceInv'
  <2> DEFINE r == [at |-> "handler", user |-> u, alone |-> receiver[Process[t]] = None,
                   before |-> {a \in awards : a.badge \in OneTime}, made |-> {},
                   told |-> {}, winner |-> u, todo |-> {}, won |-> {}]
  <2>0. {a \in awards : a.badge \in OneTime} \in SUBSET Award
    BY DEF TypeOK
  <2>1. r \in Request /\ serving' = [serving EXCEPT ![t] = r] /\ UNCHANGED awards
    BY <1>3, <2>0 DEF Begin, Continue, Request
  <2>2. LooksRight(t, r, awards)
    BY DEF LooksRight, RaceInv, Distinct
  <2> QED BY <2>1, <2>2, RaceContinue
<1>4. ASSUME NEW t \in Threads, NEW w \in Users, Save(t, w)
      PROVE  RaceInv'
  <2> DEFINE r == [serving[t] EXCEPT !.at = "look", !.winner = w, !.todo = Badge]
  <2>1. r \in Request /\ serving' = [serving EXCEPT ![t] = r] /\ UNCHANGED awards
    BY <1>2, <1>4 DEF Save, Continue, Request
  <2>2. LooksRight(t, r, awards)
    BY <1>2, <1>4 DEF Save, LooksRight, Request
  <2> QED BY <2>1, <2>2, RaceContinue
<1>5. ASSUME NEW t \in Threads, NEW b \in Badge, Look(t, b)
      PROVE  RaceInv'
  <2>1. serving[t] \in Request /\ LooksRight(t, serving[t], awards) /\ serving[t].won = {}
    BY <1>2, <1>5 DEF Look
  <2>2. PICK won \in {{}, {b}} :
          /\ b \in OneTime /\ Rows(serving[t], b) # {} => won = {}
          /\ serving' = [serving EXCEPT ![t] =
                        [serving[t] EXCEPT !.todo = @ \ {b}, !.won = won]]
    BY <1>5 DEF Look, Continue
  <2> DEFINE r == [serving[t] EXCEPT !.todo = @ \ {b}, !.won = won]
  <2>3. r \in Request /\ serving' = [serving EXCEPT ![t] = r] /\ UNCHANGED awards
    BY <1>5, <2>1, <2>2 DEF Look, Request
  <2>4. /\ r.made = serving[t].made /\ r.won = won /\ r.winner = serving[t].winner
        /\ r.at = "look"
    BY <1>5, <2>1 DEF Look, Request
  <2> HIDE DEF r
  <2>5. \A a \in awards \cup r.made :
          b \in won \cap OneTime => ~ (a.badge = b /\ a.winner = r.winner)
    BY <2>2, <2>4 DEF Rows
  <2>6. r.before = serving[t].before /\ r.before \subseteq awards
    BY <2>1 DEF LooksRight, Request, r
  <2>7. LooksRight(t, r, awards)
    BY <2>1, <2>2, <2>4, <2>5, <2>6 DEF LooksRight
  <2> QED BY <2>3, <2>7, RaceContinue
<1>6. ASSUME NEW t \in Threads, Win(t)
      PROVE  RaceInv'
  <2>1. UNCHANGED awards
    BY <1>6 DEF Win
  <2>a. PICK b \in serving[t].won : WinEffect(t, b)
    BY <1>6, WinStep
  <2>2. LET award == NewAward(t, b)
            r == [serving[t] EXCEPT !.made = @ \cup {award}, !.won = {}]
        IN
        /\ award \in Award /\ serving[t] \in Request /\ serving[t].at = "look"
        /\ r \in Request
        /\ serving'[t] = IF receiver[Process[t]] = t THEN Told(award, r) ELSE r
        /\ \A s \in Threads \ {t} :
             \/ serving'[s] = serving[s]
             \/ serving[s] \in Request /\ serving'[s] = Told(award, serving[s])
                /\ s = receiver[Process[t]]
    BY <2>a DEF WinEffect
  <2> DEFINE award == NewAward(t, b)
             r == [serving[t] EXCEPT !.made = @ \cup {award}, !.won = {}]
  <2>3. ASSUME NEW p \in Request, NEW s \in Threads, LooksRight(s, p, awards)
        PROVE  LooksRight(s, Told(award, p), awards)
    <3>1. /\ Told(award, p).made = p.made /\ Told(award, p).won = p.won
          /\ Told(award, p).winner = p.winner /\ Told(award, p).at = p.at
          /\ Told(award, p).before = p.before
      BY DEF Told, Request
    <3> QED BY <2>3, <3>1 DEF LooksRight
  <2>4. LooksRight(t, r, awards)
    <3>1. LooksRight(t, serving[t], awards)
      BY <1>2, <2>2
    <3>2. /\ r.made = serving[t].made \cup {award} /\ r.won = {} /\ r.at = "look"
          /\ award.badge = b /\ award.winner = serving[t].winner /\ award.by = t
      BY <2>2 DEF NewAward, Request
    <3> HIDE DEF r, award
    <3>3. \A a \in awards \cup serving[t].made :
            (Same(a, award) \/ Same(award, a)) => a.by # t
      BY <2>2, <3>1, <3>2 DEF LooksRight, Same
    <3>4. r.before = serving[t].before /\ \A a \in r.before : ~Same(award, a)
      BY <2>2, <3>1, <3>2 DEF LooksRight, Same, r, Request
    <3>5. Distinct(awards \cup r.made)
      BY <3>1, <3>2, <3>3 DEF LooksRight, Distinct
    <3> QED BY <3>1, <3>2, <3>4, <3>5 DEF LooksRight
  <2>5. LooksRight(t, serving'[t], awards)
    BY <2>2, <2>3, <2>4
  <2>6. ASSUME NEW s \in Threads \ {t}, serving'[s] # Idle
        PROVE  LooksRight(s, serving'[s], awards)
    BY <1>2, <2>2, <2>3, <2>6 DEF RaceInv, Request, Idle
  <2> QED BY <2>1, <2>5, <2>6 DEF RaceInv
<1>7. ASSUME NEW t \in Threads, Looked(t)
      PROVE  RaceInv'
  <2> DEFINE r == [serving[t] EXCEPT !.at = "handler", !.winner = serving[t].user]
  <2>1. r \in Request /\ serving' = [serving EXCEPT ![t] = r] /\ UNCHANGED awards
    BY <1>2, <1>7 DEF Looked, Continue, Request
  <2>2. LooksRight(t, r, awards)
    BY <1>2, <1>7 DEF Looked, LooksRight, Request
  <2> QED BY <2>1, <2>2, RaceContinue
<1>8. ASSUME NEW t \in Threads, Send(t)
      PROVE  RaceInv'
  <2> DEFINE r == [serving[t] EXCEPT !.at = "sent"]
  <2>1. r \in Request /\ serving' = [serving EXCEPT ![t] = r] /\ UNCHANGED awards
    BY <1>2, <1>8 DEF Send, Continue, Request
  <2>2. /\ serving[t] \in Request /\ LooksRight(t, serving[t], awards)
        /\ r.made = serving[t].made /\ r.won = serving[t].won /\ serving[t].won = {}
        /\ r.before = serving[t].before /\ r.at = "sent"
    BY <1>2, <1>8 DEF Send, LooksRight, Request
  <2> HIDE DEF r
  <2>3. LooksRight(t, r, awards)
    BY <2>2 DEF LooksRight
  <2> QED BY <2>1, <2>3, RaceContinue
<1>9. ASSUME NEW t \in Threads, RollBack(t)
      PROVE  RaceInv'
  <2> DEFINE r == [serving[t] EXCEPT !.at = "refused", !.made = {},
                     !.winner = serving[t].user, !.todo = {}, !.won = {}]
  <2>1. r \in Request /\ serving' = [serving EXCEPT ![t] = r] /\ UNCHANGED awards
    BY <1>2, <1>9 DEF RollBack, Continue, Request
  <2>2. LooksRight(t, r, awards)
    BY <1>2, <1>9 DEF RollBack, LooksRight, Request, RaceInv, Distinct
  <2> QED BY <2>1, <2>2, RaceContinue
<1>10. ASSUME NEW t \in Threads, Finish(t)
       PROVE  RaceInv'
  <2>1. /\ awards' = awards \cup serving[t].made /\ serving'[t] = Idle
        /\ \A s \in Threads \ {t} : serving'[s] = serving[s]
        /\ LooksRight(t, serving[t], awards)
    BY <1>2, <1>10 DEF Finish, Continue, TypeOK
  <2>2. ASSUME NEW s \in Threads \ {t}, LooksRight(s, serving[s], awards)
        PROVE  LooksRight(s, serving[s], awards \cup serving[t].made)
    BY <2>1, <2>2 DEF LooksRight, Distinct, Same
  <2>3. Distinct(awards \cup serving[t].made)
    BY <2>1 DEF LooksRight
  <2> QED BY <2>1, <2>2, <2>3 DEF RaceInv
<1>11. CASE UNCHANGED vars
  BY <1>11 DEF vars, RaceInv
<1> QED
  BY <1>3, <1>4, <1>5, <1>6, <1>7, <1>8, <1>9, <1>10, <1>11 DEF Next, Step

\* Any number of threads: two rows of a one-time badge and a user were inserted by
\* different threads, whose requests overlapped.
THEOREM TwiceNeedsRace == Spec => []AwardedTwiceOnlyByRace
<1>1. Init => RaceInv
  BY DEF Init, RaceInv, Distinct
<1>2. TypeOK /\ RaceInv /\ [Next]_vars => RaceInv'
  BY RaceStep
<1>3. RaceInv => AwardedTwiceOnlyByRace
  BY DEF RaceInv, LooksRight, Distinct, AwardedTwiceOnlyByRace
<1> QED BY <1>1, <1>2, <1>3, TypeCorrect, PTL DEF Spec

-----------------------------------------------------------------------------
(* What a response announces. *)

LEMMA TellContinue ==
  ASSUME TypeOK, TellInv, NEW t \in Threads, NEW r \in Request,
         serving' = [serving EXCEPT ![t] = r], UNCHANGED <<receiver, joined>>,
         TellsRight(t, r, receiver[Process[t]], joined)
  PROVE  TellInv'
<1>1. \A s \in Threads \ {t} : serving'[s] = serving[s]
  BY DEF TypeOK
<1>2. serving'[t] = r
  BY DEF TypeOK
<1> QED BY <1>1, <1>2 DEF TellInv

LEMMA TellStep ==
  ASSUME TypeOK, TellInv, [Next]_vars
  PROVE  TellInv'
<1> USE AwardAssumption
<1>1. \A t \in Threads : serving[t].at # "idle" =>
        serving[t] \in Request /\ TellsRight(t, serving[t], receiver[Process[t]], joined)
  BY DEF TypeOK, TellInv, Idle
<1>2. ASSUME NEW t \in Threads, NEW r \in Request, TellsRight(t, serving[t], receiver[Process[t]], joined),
             serving' = [serving EXCEPT ![t] = r], UNCHANGED <<receiver, joined>>,
             r.alone = serving[t].alone, r.made = serving[t].made,
             r.told = serving[t].told, r.user = serving[t].user,
             serving[t].at # "refused"
      PROVE  TellInv'
  <2>1. TellsRight(t, r, receiver[Process[t]], joined)
    BY <1>2 DEF TellsRight, Announces, Own
  <2> QED BY <1>2, <2>1, TellContinue
<1>3. ASSUME NEW t \in Threads, NEW u \in Users, Begin(t, u)
      PROVE  TellInv'
  <2> DEFINE current == receiver[Process[t]]
             r == [at |-> "handler", user |-> u, alone |-> current = None,
                   before |-> {a \in awards : a.badge \in OneTime}, made |-> {},
                   told |-> {}, winner |-> u, todo |-> {}, won |-> {}]
  <2>1. /\ serving'[t] = r
        /\ \A s \in Threads \ {t} : serving'[s] = serving[s]
        /\ serving[t] = Idle
    BY <1>3 DEF Begin, Continue, TypeOK
  <2>2. /\ receiver'[Process[t]] = IF current = None THEN t ELSE current
        /\ \A s \in Threads : Process[s] # Process[t] =>
             receiver'[Process[s]] = receiver[Process[s]]
    BY <1>3 DEF Begin, Connect, TypeOK, Processes
  <2>3. TellsRight(t, r, receiver'[Process[t]], joined') /\ joined' = joined
    BY <1>3, <2>2 DEF TellsRight, Announces, Own, Begin
  <2> HIDE DEF r
  <2>4. ASSUME NEW s \in Threads \ {t}, serving[s] # Idle
        PROVE  TellsRight(s, serving[s], receiver'[Process[s]], joined')
    BY <2>2, <2>3, <2>4 DEF TellInv, TellsRight
  <2> QED BY <2>1, <2>3, <2>4 DEF TellInv
<1>4. ASSUME NEW t \in Threads, NEW w \in Users, Save(t, w)
      PROVE  TellInv'
  <2> DEFINE r == [serving[t] EXCEPT !.at = "look", !.winner = w, !.todo = Badge]
  <2>1. /\ r \in Request /\ r.alone = serving[t].alone /\ r.made = serving[t].made
        /\ r.told = serving[t].told /\ r.user = serving[t].user
    BY <1>1, <1>4 DEF Save, Request
  <2> QED BY <1>1, <1>2, <1>4, <2>1 DEF Save, Continue
<1>5. ASSUME NEW t \in Threads, NEW b \in Badge, Look(t, b)
      PROVE  TellInv'
  <2>1. PICK won \in {{}, {b}} :
          serving' = [serving EXCEPT ![t] =
                        [serving[t] EXCEPT !.todo = @ \ {b}, !.won = won]]
    BY <1>5 DEF Look, Continue
  <2> DEFINE r == [serving[t] EXCEPT !.todo = @ \ {b}, !.won = won]
  <2>2. serving[t] \in Request /\ serving[t].at = "look"
    BY <1>1, <1>5 DEF Look
  <2>3. /\ r \in Request /\ r.alone = serving[t].alone /\ r.made = serving[t].made
        /\ r.told = serving[t].told /\ r.user = serving[t].user
    BY <2>2 DEF Request
  <2> QED BY <1>1, <1>2, <1>5, <2>1, <2>2, <2>3 DEF Look
<1>6. ASSUME NEW t \in Threads, Win(t)
      PROVE  TellInv'
  <2>1. UNCHANGED receiver /\ joined \subseteq joined'
        /\ joined' = joined \cup
             {s \in Threads \ {t} : /\ Process[s] = Process[t]
                                   /\ serving[s].at \in {"handler", "look"}
                                   /\ serving[s].alone /\ serving[s].user = serving[t].winner}
    BY <1>6 DEF Win
  <2>a. PICK b \in serving[t].won : WinEffect(t, b)
    BY <1>6, WinStep
  <2>2. LET award == NewAward(t, b)
            r == [serving[t] EXCEPT !.made = @ \cup {award}, !.won = {}]
        IN
        /\ award \in Award /\ serving[t] \in Request /\ serving[t].at = "look"
        /\ r \in Request
        /\ serving'[t] = IF receiver[Process[t]] = t THEN Told(award, r) ELSE r
        /\ \A s \in Threads \ {t} :
             \/ serving'[s] = serving[s]
             \/ serving[s] \in Request /\ serving'[s] = Told(award, serving[s])
                /\ s = receiver[Process[t]]
    BY <2>a DEF WinEffect
  <2> DEFINE award == NewAward(t, b)
             q == serving[t]
             r == [q EXCEPT !.made = @ \cup {award}, !.won = {}]
  <2>3. award.by = t /\ award.winner = q.winner
    BY DEF NewAward
  <2>4. ASSUME NEW s \in Threads \ {t}, serving'[s] # Idle
        PROVE  TellsRight(s, serving'[s], receiver[Process[s]], joined')
    <3>1. CASE serving'[s] = serving[s]
      <4>1. TellsRight(s, serving[s], receiver[Process[s]], joined)
        BY <2>4, <3>1 DEF TellInv
      <4> QED BY <2>1, <3>1, <4>1 DEF TellsRight, Announces
    <3>2. CASE serving[s] \in Request /\ serving'[s] = Told(award, serving[s])
               /\ s = receiver[Process[t]]
      <4> DEFINE p == serving[s]
                 told == Told(award, p)
      <4>1. TellsRight(s, p, receiver[Process[s]], joined)
        BY <3>2 DEF TellInv, Request, Idle
      <4>2. /\ told.alone = p.alone /\ told.at = p.at
            /\ told.made = p.made /\ told.user = p.user
            /\ told.told = IF p.at \in {"handler", "look"} /\ p.user = award.winner
                            THEN p.told \cup {award} ELSE p.told
        BY <3>2 DEF Told, Request
      <4>3. Process[s] = Process[t]
        BY <3>2 DEF TypeOK, Processes
      <4>4. ASSUME p.alone, p.at \in {"handler", "look"}, p.user = award.winner
            PROVE  s \in joined' /\ award.winner = p.user /\ award.by # s
                   /\ Process[award.by] = Process[s]
        BY <2>1, <2>3, <4>3, <4>4
      <4>5. Own(told) = Own(p)
        BY <4>2 DEF Own
      <4> HIDE DEF award, p, told
      <4>6. p.alone /\ p.at # "refused" => Announces(s, told, joined')
        <5> SUFFICES ASSUME p.alone, p.at # "refused"
                     PROVE  Announces(s, told, joined')
          OBVIOUS
        <5>1. Announces(s, p, joined)
          BY <4>1 DEF TellsRight
        <5>2. told.told = p.told \/ (told.told = p.told \cup {award}
                                     /\ p.at \in {"handler", "look"} /\ p.user = award.winner)
          BY <4>2
        <5> QED BY <2>1, <4>2, <4>4, <4>5, <5>1, <5>2 DEF Announces
      <4>7. TellsRight(s, told, receiver[Process[s]], joined')
        BY <4>1, <4>2, <4>6 DEF TellsRight
      <4> QED BY <3>2, <4>7 DEF p, told
    <3> QED BY <2>2, <3>1, <3>2
  <2>5. TellsRight(t, serving'[t], receiver[Process[t]], joined')
    <3>1. TellsRight(t, q, receiver[Process[t]], joined)
      BY <1>1, <2>2
    <3>2. /\ r.at = "look" /\ r.alone = q.alone /\ r.user = q.user /\ r.told = q.told
          /\ r.made = q.made \cup {award}
      BY <2>2 DEF Request
    <3>3. CASE q.alone
      <4> DEFINE told == Told(award, r)
      <4>1. serving'[t] = told
        BY <2>2, <3>1, <3>3 DEF TellsRight
      <4>2. /\ told.at = "look" /\ told.alone = r.alone
            /\ told.user = r.user /\ told.made = r.made
            /\ told.told = IF r.user = award.winner THEN r.told \cup {award} ELSE r.told
        BY <2>2, <3>2 DEF Told, Request
      <4>3. Announces(t, q, joined)
        BY <2>2, <3>1, <3>3 DEF TellsRight
      <4> HIDE DEF award, r, told
      <4>4. Own(told) = IF r.user = award.winner THEN Own(q) \cup {award} ELSE Own(q)
        BY <3>2, <4>2 DEF Own
      <4>5. Announces(t, told, joined')
        BY <2>1, <3>2, <4>2, <4>3, <4>4 DEF Announces
      <4> QED BY <3>1, <3>3, <4>1, <4>5 DEF TellsRight
    <3>4. CASE ~q.alone
      <4>1. ~r.alone /\ ~Told(award, r).alone
        BY <2>2, <3>2, <3>4 DEF Told, Request
      <4> QED BY <2>2, <4>1 DEF TellsRight
    <3> QED BY <3>3, <3>4
  <2> QED BY <2>1, <2>4, <2>5 DEF TellInv
<1>7. ASSUME NEW t \in Threads, Looked(t)
      PROVE  TellInv'
  <2> DEFINE r == [serving[t] EXCEPT !.at = "handler", !.winner = serving[t].user]
  <2>1. /\ r \in Request /\ r.alone = serving[t].alone /\ r.made = serving[t].made
        /\ r.told = serving[t].told /\ r.user = serving[t].user
    BY <1>1, <1>7 DEF Looked, Request
  <2> QED BY <1>1, <1>2, <1>7, <2>1 DEF Looked, Continue
<1>8. ASSUME NEW t \in Threads, Send(t)
      PROVE  TellInv'
  <2> DEFINE r == [serving[t] EXCEPT !.at = "sent"]
  <2>1. /\ r \in Request /\ r.alone = serving[t].alone /\ r.made = serving[t].made
        /\ r.told = serving[t].told /\ r.user = serving[t].user
    BY <1>1, <1>8 DEF Send, Request
  <2> QED BY <1>1, <1>2, <1>8, <2>1 DEF Send, Continue
<1>9. ASSUME NEW t \in Threads, RollBack(t)
      PROVE  TellInv'
  <2> DEFINE r == [serving[t] EXCEPT !.at = "refused", !.made = {},
                     !.winner = serving[t].user, !.todo = {}, !.won = {}]
  <2>1. r \in Request /\ r.alone = serving[t].alone /\ r.at = "refused"
    BY <1>1, <1>9 DEF RollBack, Request
  <2>2. TellsRight(t, r, receiver[Process[t]], joined)
    BY <1>1, <1>9, <2>1 DEF RollBack, TellsRight
  <2> QED BY <1>9, <2>1, <2>2, TellContinue DEF RollBack, Continue
<1>10. ASSUME NEW t \in Threads, Finish(t)
       PROVE  TellInv'
  <2>1. /\ serving'[t] = Idle
        /\ \A s \in Threads \ {t} : serving'[s] = serving[s]
        /\ \A s \in Threads : receiver[Process[s]] = s /\ s # t => receiver'[Process[s]] = s
        /\ joined' = joined \ {t}
    BY <1>10 DEF Finish, Continue, TypeOK, Processes
  <2>2. ASSUME NEW s \in Threads \ {t}, serving[s] # Idle
        PROVE  TellsRight(s, serving[s], receiver'[Process[s]], joined')
    BY <2>1, <2>2 DEF TellInv, TellsRight, Announces
  <2> QED BY <2>1, <2>2 DEF TellInv
<1>11. CASE UNCHANGED vars
  BY <1>11 DEF vars, TellInv
<1> QED
  BY <1>3, <1>4, <1>5, <1>6, <1>7, <1>8, <1>9, <1>10, <1>11 DEF Next, Step

\* Any number of threads and processes: a response that began alone in its process
\* announces all its request's awards to its user, and no others but what other
\* requests of the process, served meanwhile, have awarded the same user.
THEOREM ResponsesAnnounce == Spec => []AnnouncedExactly
<1>1. Init => TellInv
  BY DEF Init, TellInv
<1>2. TypeOK /\ TellInv /\ [Next]_vars => TellInv'
  BY TellStep
<1>3. TypeOK /\ TellInv => AnnouncedExactly
  BY DEF TypeOK, TellInv, TellsRight, Announces, Own, AnnouncedExactly, Idle
<1> QED BY <1>1, <1>2, <1>3, TypeCorrect, PTL DEF Spec
=============================================================================
