---------------------------- MODULE SocialProofs ----------------------------
(***************************************************************************)
(* Theorems about Social for any networks, accounts, browsers and workers. *)
(* Three independent invariants say what a request in progress has read    *)
(* and may still rely on, though other requests of the same browser and    *)
(* other callbacks of the same account have gone on meanwhile.             *)
(***************************************************************************)
EXTENDS Social, TLAPS

\* A worker about to replace credentials deletes all that it has inserted.
RaceInv ==
  \A w \in Workers : LET q == serving[w] IN
    q.at = "replace" =>
      \A c \in Of(q.data.user, q.network) : c.by = w => c \in q.old

\* Token t, asked for by a logged-in user, is in the hands of that user p.
OwnToken(t, p) == t \in 1 .. lastToken /\ (asker[t] # Nobody => p = asker[t])

\* Tokens are owned wherever they are: in a session, in the copy of one that a
\* request works on, in a callback, in a row.
OwnTokens(d) == \A n \in OAuth1 : d.token[n] # NoToken => OwnToken(d.token[n], d.user)
TokenInv ==
  /\ \A t \in 1 .. lastToken : asker[t] \in profiles \cup {Nobody}
  /\ \A s \in Sessions : OwnTokens(session[s])
  /\ \A w \in Workers : LET q == serving[w] IN
       /\ q.at # "idle" => OwnTokens(q.data)
       /\ q.at \in {"exchange", "replace"} /\ q.network \in OAuth1 =>
            OwnToken(q.token, q.data.user)
  /\ \A c \in creds : c.network \in OAuth1 => OwnToken(c.token, c.profile)

\* The user that session data name is an account, or was one of a transaction
\* that has ended; two callbacks that have not ended never made the same account.
Ended == ({Nobody} \cup profiles \cup made) \ Open
AccountInv ==
  /\ Members \subseteq profiles
  /\ \A s \in Sessions : session[s].user \in Ended
  /\ \A w \in Workers : LET q == serving[w] IN
       /\ q.at \in {"ask", "exchange", "answer"} => q.data.user \in Ended
       /\ q.at = "replace" => q.data.user \in profiles \cup made
  /\ \A v, w \in Workers :
       v # w /\ serving[v].at = "replace" /\ serving[w].at = "replace"
         /\ serving[v].data.user = serving[w].data.user => serving[v].data.user \in profiles

-----------------------------------------------------------------------------
(* Type correctness. *)

\* The fields of a worker's state at each of its stages.
LEMMA Stages ==
  ASSUME NEW q \in Working \cup {Idle}
  PROVE  /\ q.at = "ask" =>
              q \in [at : {"ask"}, session : Sessions, network : OAuth1, data : Data]
         /\ q.at = "exchange" =>
              q \in [at : {"exchange"}, session : Sessions, network : Networks,
                     data : Data, token : Token, id : 1 .. MaxCallbacks]
         /\ q.at = "replace" =>
              q \in [at : {"replace"}, session : Sessions, network : Networks,
                     data : {d \in Data : d.user # Nobody}, token : Token, id : 1 .. MaxCallbacks,
                     old : SUBSET Credentials]
         /\ q.at = "answer" =>
              q \in [at : {"answer"}, session : Sessions, data : Data]
         /\ q.at \in {"idle", "ask", "exchange", "replace", "answer"}
  BY DEF Working, Idle

\* Empty is session data; so are data in which a user logs in.
LEMMA SessionData ==
  /\ Empty \in Data
  /\ \A d \in Data, p \in Profiles : LoggedIn(d, p) \in Data
  /\ \A d \in Data, n \in OAuth1, t \in Token : [d EXCEPT !.token[n] = t] \in Data
<1>1. Empty \in Data
  BY NetworkAssumption DEF Empty, Data, Token, NoToken
<1>2. ASSUME NEW d \in Data, NEW p \in Profiles
      PROVE  LoggedIn(d, p) \in Data
  BY <1>1 DEF LoggedIn, Data, Empty
<1>3. ASSUME NEW d \in Data, NEW n \in OAuth1, NEW t \in Token
      PROVE  [d EXCEPT !.token[n] = t] \in Data
  BY DEF Data
<1> QED BY <1>1, <1>2, <1>3

\* A new token leaves the user and the tokens of other networks alone.
LEMMA NewToken ==
  ASSUME NEW d \in Data, NEW n \in OAuth1, NEW t
  PROVE  LET r == [d EXCEPT !.token[n] = t] IN
         /\ r.user = d.user
         /\ r.token[n] = t
         /\ \A m \in OAuth1 : m # n => r.token[m] = d.token[m]
  BY DEF Data

LEMMA TypeStep == TypeOK /\ [Next]_vars => TypeOK'
<1> SUFFICES ASSUME TypeOK, [Next]_vars PROVE TypeOK'
  OBVIOUS
<1> USE NetworkAssumption
<1>1. CASE \E w \in Workers : Step(w)
  <2>1. PICK w \in Workers : Step(w)
    BY <1>1
  <2> DEFINE q == serving[w]
  <2>2. q \in Working \cup {Idle}
    BY DEF TypeOK
  <2>3. ASSUME NEW s \in Sessions, NEW n \in Networks, Register(w, s, n)
        PROVE  TypeOK'
    <3>1. [at |-> "ask", session |-> s, network |-> n, data |-> session[s]] \in Working
      BY <2>3 DEF Register, Working, TypeOK
    <3> QED BY <2>3, <3>1 DEF Register, Continue, TypeOK, accounts, tokens
  <2>4. ASSUME NEW s \in Sessions, NEW n \in Networks, Callback(w, s, n)
        PROVE  TypeOK'
    <3>1. PICK t \in {NoToken} \cup DOMAIN asker :
            Continue(w, [at |-> "exchange", session |-> s, network |-> n,
                         data |-> session[s], token |-> t, id |-> callbacks'])
      BY <2>4 DEF Callback
    <3>2. t \in Token /\ callbacks' \in 1 .. MaxCallbacks
      BY <2>4 DEF Callback, TypeOK, Token, NoToken
    <3>3. [at |-> "exchange", session |-> s, network |-> n, data |-> session[s],
           token |-> t, id |-> callbacks'] \in Working
      BY <3>2 DEF Working, TypeOK
    <3> QED BY <2>4, <3>1, <3>2, <3>3 DEF Callback, Continue, TypeOK, accounts, tokens
  <2>5. CASE KeepToken(w)
    <3>1. q \in [at : {"ask"}, session : Sessions, network : OAuth1, data : Data]
      BY <2>2, <2>5, Stages DEF KeepToken
    <3>2. lastToken' \in Token /\ lastToken' = lastToken + 1
      BY <2>5 DEF KeepToken, TypeOK, Token
    <3>3. PICK d \in {q.data, session[q.session]} :
            /\ session' = [session EXCEPT
                             ![q.session] = [d EXCEPT !.token[q.network] = lastToken']]
            /\ asker' = [u \in 1 .. lastToken' |-> IF u = lastToken' THEN User(d)
                                                                      ELSE asker[u]]
      BY <2>5 DEF KeepToken
    <3>4. d \in Data
      BY <3>1 DEF TypeOK
    <3>5. session' \in [Sessions -> Data]
      BY <3>1, <3>2, <3>3, <3>4, SessionData DEF TypeOK
    <3>6. asker' \in [1 .. lastToken' -> Profiles \cup {Nobody}]
      BY <3>2, <3>3 DEF TypeOK, User, Token
    <3> QED BY <2>5, <3>2, <3>5, <3>6 DEF KeepToken, Answer, Continue, TypeOK, accounts
  <2>6. CASE Refuse(w)
    <3>1. q.session \in Sessions /\ q.data \in Data
      BY <2>2, <2>6, Stages DEF Refuse
    <3> QED BY <2>6, <3>1 DEF Refuse, Answer, Continue, TypeOK, accounts, tokens
  <2>7. CASE Finish(w)
    <3>1. q \in [at : {"exchange"}, session : Sessions, network : Networks,
                 data : Data, token : Token, id : 1 .. MaxCallbacks]
      BY <2>2, <2>7, Stages DEF Finish
    <3>2. PICK p \in Profiles :
            /\ Continue(w, [at |-> "replace", session |-> q.session,
                            network |-> q.network, data |-> LoggedIn(q.data, p),
                            token |-> q.token, id |-> q.id, old |-> Of(p, q.network)])
            /\ made' = made \cup ({p} \ profiles)
      BY <2>7 DEF Finish, User, TypeOK
    <3>3. /\ LoggedIn(q.data, p) \in {d \in Data : d.user # Nobody}
          /\ Of(p, q.network) \in SUBSET Credentials
      BY <3>1, SessionData DEF Of, TypeOK, LoggedIn
    <3>4. [at |-> "replace", session |-> q.session, network |-> q.network,
           data |-> LoggedIn(q.data, p), token |-> q.token, id |-> q.id,
           old |-> Of(p, q.network)] \in Working
      BY <3>1, <3>3 DEF Working
    <3> QED BY <2>7, <3>1, <3>2, <3>4 DEF Finish, Continue, TypeOK, tokens
  <2>8. CASE Replace(w)
    <3>1. q \in [at : {"replace"}, session : Sessions, network : Networks,
                 data : {d \in Data : d.user # Nobody}, token : Token, id : 1 .. MaxCallbacks,
                 old : SUBSET Credentials]
      BY <2>2, <2>8, Stages DEF Replace
    <3>2. [at |-> "answer", session |-> q.session, data |-> q.data] \in Working
      BY <3>1 DEF Working
    <3>3. [id |-> q.id, profile |-> q.data.user, network |-> q.network,
           token |-> q.token, by |-> w] \in Credentials
      BY <3>1 DEF Data, Credentials
    <3>4. q.data.user \in Profiles
      BY <3>1 DEF Data
    <3> QED BY <2>8, <3>2, <3>3, <3>4 DEF Replace, Continue, TypeOK, tokens
  <2>9. CASE RollBack(w)
    <3>1. q \in [at : {"replace"}, session : Sessions, network : Networks,
                 data : {d \in Data : d.user # Nobody}, token : Token, id : 1 .. MaxCallbacks,
                 old : SUBSET Credentials]
      BY <2>2, <2>9, Stages DEF RollBack
    <3>2. [at |-> "answer", session |-> q.session, data |-> q.data] \in Working
      BY <3>1 DEF Working
    <3> QED BY <2>9, <3>2 DEF RollBack, Answer, Continue, TypeOK, accounts, tokens
  <2>10. CASE SaveSession(w)
    <3>1. q \in [at : {"answer"}, session : Sessions, data : Data]
      BY <2>2, <2>10, Stages DEF SaveSession
    <3> QED BY <2>10, <3>1 DEF SaveSession, Answer, Continue, TypeOK, accounts, tokens
  <2>11. ASSUME NEW s \in Sessions, NEW d \in Data,
                Continue(w, [at |-> "answer", session |-> s, data |-> d]),
                UNCHANGED <<accounts, session, tokens, callbacks>>
         PROVE  TypeOK'
    <3>1. [at |-> "answer", session |-> s, data |-> d] \in Working
      BY DEF Working
    <3> QED BY <2>11, <3>1 DEF Continue, TypeOK, accounts, tokens
  <2>12. ASSUME NEW s \in Sessions,
                Logout(w, s) \/ Redirect(w, s) \/ \E p \in Members : Login(w, s, p)
         PROVE  TypeOK'
    <3>1. session[s] \in Data
      BY DEF TypeOK
    <3> QED BY <2>11, <2>12, <3>1, SessionData DEF Logout, Redirect, Login
  <2> QED BY <2>1, <2>3, <2>4, <2>5, <2>6, <2>7, <2>8, <2>9, <2>10, <2>12 DEF Step
<1>3. CASE UNCHANGED vars
  BY <1>3 DEF vars, TypeOK, accounts, tokens
<1> QED BY <1>1, <1>3 DEF Next

\* Every state of the system is typed.
THEOREM TypeCorrect == Spec => []TypeOK
<1>1. Init => TypeOK
  BY NetworkAssumption, SessionData DEF Init, TypeOK, Token, NoToken
<1>2. TypeOK /\ [Next]_vars => TypeOK'
  BY TypeStep
<1> QED BY <1>1, <1>2, PTL DEF Spec

-----------------------------------------------------------------------------
(* Credentials of one profile and network are doubled only by two workers. *)

LEMMA RaceStep ==
  ASSUME TypeOK, RaceInv, DuplicatesOnlyByRace, [Next]_vars
  PROVE  RaceInv' /\ DuplicatesOnlyByRace'
<1>1. CASE \E w \in Workers : Step(w)
  <2>1. PICK w \in Workers : Step(w)
    BY <1>1
  <2> DEFINE q == serving[w]
  <2>2. ASSUME NEW s \in Sessions,
               \/ \E n \in Networks : Register(w, s, n) \/ Callback(w, s, n)
               \/ Logout(w, s) \/ Redirect(w, s) \/ \E p \in Members : Login(w, s, p)
        PROVE  RaceInv' /\ DuplicatesOnlyByRace'
    BY <2>2 DEF Login, Logout, Redirect, Register, Callback, Continue, TypeOK, RaceInv, Of,
                DuplicatesOnlyByRace, accounts
  <2>3. CASE KeepToken(w) \/ Refuse(w) \/ RollBack(w) \/ SaveSession(w)
    BY <2>3 DEF KeepToken, Refuse, RollBack, SaveSession, Answer, Continue, Idle,
                TypeOK, RaceInv, Of, DuplicatesOnlyByRace, accounts
  <2>4. CASE Finish(w)
    BY <2>4 DEF Finish, Continue, TypeOK, RaceInv, Of, LoggedIn, DuplicatesOnlyByRace
  <2>5. CASE Replace(w)
    <3> DEFINE new == [id |-> q.id, profile |-> q.data.user, network |-> q.network,
                       token |-> q.token, by |-> w]
    <3>1. /\ q.at = "replace" /\ creds' = (creds \ q.old) \cup {new}
          /\ serving' = [serving EXCEPT ![w] = [at |-> "answer",
                           session |-> q.session, data |-> q.data]]
      BY <2>5 DEF Replace, Continue
    <3>2. \A c \in creds \ q.old :
            c.profile = new.profile /\ c.network = new.network => c.by # w
      BY <3>1 DEF RaceInv, Of
    <3>3. DuplicatesOnlyByRace'
      BY <3>1, <3>2 DEF DuplicatesOnlyByRace
    <3>4. RaceInv'
      BY <3>1 DEF RaceInv, Of, TypeOK
    <3> QED BY <3>3, <3>4
  <2> QED BY <2>1, <2>2, <2>3, <2>4, <2>5 DEF Step
<1>3. CASE UNCHANGED vars
  BY <1>3 DEF vars, RaceInv, Of, DuplicatesOnlyByRace, accounts
<1> QED BY <1>1, <1>3 DEF Next

\* Two rows of a profile and network were inserted by different workers.
THEOREM DuplicatesNeedTwoWorkers == Spec => []DuplicatesOnlyByRace
<1>1. Init => RaceInv /\ DuplicatesOnlyByRace
  BY DEF Init, RaceInv, Idle, DuplicatesOnlyByRace
<1>2. TypeOK /\ RaceInv /\ DuplicatesOnlyByRace /\ [Next]_vars
        => RaceInv' /\ DuplicatesOnlyByRace'
  BY RaceStep
<1> QED BY <1>1, <1>2, TypeCorrect, PTL DEF Spec

-----------------------------------------------------------------------------
(* Sessions name no account of an open transaction. *)

\* A step of a worker that makes no account, and after which it is not about to
\* commit one: users of ended transactions stay so, and its own becomes one.
LEMMA TransactionEnds ==
  ASSUME TypeOK, AccountInv, NEW w \in Workers, NEW y, y.at # "replace",
         serving' = [serving EXCEPT ![w] = y],
         profiles \subseteq profiles', UNCHANGED made
  PROVE  /\ Ended \subseteq Ended'
         /\ serving[w].at = "replace" => serving[w].data.user \in Ended'
<1> USE NetworkAssumption
<1>1. \A v \in Workers : serving'[v].at = "replace" => v # w /\ serving'[v] = serving[v]
  BY DEF TypeOK
<1>2. Open' \subseteq Open
  BY <1>1 DEF Open
<1>3. ASSUME serving[w].at = "replace"
      PROVE  serving[w].data.user \in Ended'
  <2> DEFINE p == serving[w].data.user
  <2>1. p \in profiles \cup made
    BY <1>3 DEF AccountInv
  <2>2. ASSUME NEW v \in Workers, serving'[v].at = "replace", serving'[v].data.user = p
        PROVE  p \in profiles'
    BY <1>1, <1>3, <2>2 DEF AccountInv
  <2> QED BY <2>1, <2>2 DEF Ended, Open
<1> QED BY <1>2, <1>3 DEF Ended

\* Such a step preserves the invariant if it writes users of ended transactions.
LEMMA EndedStep ==
  ASSUME TypeOK, AccountInv, NEW w \in Workers, NEW y, y.at # "replace",
         serving' = [serving EXCEPT ![w] = y],
         profiles \subseteq profiles', UNCHANGED made,
         y.at \in {"ask", "exchange", "answer"} => y.data.user \in Ended',
         \A s \in Sessions : session'[s].user \in Ended'
  PROVE  AccountInv'
<1>1. Ended \subseteq Ended'
  BY TransactionEnds
<1>2. \A v \in Workers :
        serving'[v] = IF v = w THEN y ELSE serving[v]
  BY DEF TypeOK
<1>3. (\A v \in Workers : LET q == serving[v] IN
         /\ q.at \in {"ask", "exchange", "answer"} => q.data.user \in Ended
         /\ q.at = "replace" => q.data.user \in profiles \cup made)'
  BY <1>1, <1>2 DEF AccountInv
<1>4. (\A u, v \in Workers :
         u # v /\ serving[u].at = "replace" /\ serving[v].at = "replace"
           /\ serving[u].data.user = serving[v].data.user
             => serving[u].data.user \in profiles)'
  BY <1>2 DEF AccountInv
<1> QED BY <1>3, <1>4 DEF AccountInv

LEMMA AccountStep ==
  ASSUME TypeOK, AccountInv, [Next]_vars
  PROVE  AccountInv'
<1> USE NetworkAssumption
<1>1. ASSUME NEW w \in Workers, Step(w)
      PROVE  AccountInv'
  <2> DEFINE q == serving[w]
  <2>1. q \in Working \cup {Idle}
    BY DEF TypeOK
  <2>2. /\ q.at \in {"ask", "exchange", "answer"} => q.data.user \in Ended
        /\ \A s \in Sessions : session[s].user \in Ended
        /\ Members \subseteq Ended /\ Empty.user \in Ended
    BY DEF AccountInv, Ended, Open, Empty, TypeOK
  <2>3. ASSUME NEW y, y.at # "replace", Continue(w, y),
               profiles \subseteq profiles', UNCHANGED made
        PROVE  /\ Ended \subseteq Ended'
               /\ q.at = "replace" => q.data.user \in Ended'
    BY <2>3, TransactionEnds DEF Continue
  <2>4. ASSUME NEW y, y.at # "replace", Continue(w, y),
               profiles \subseteq profiles', UNCHANGED made,
               y.at \in {"ask", "exchange", "answer"} => y.data.user \in Ended',
               \A s \in Sessions : session'[s].user \in Ended'
        PROVE  AccountInv'
    BY <2>4, EndedStep DEF Continue
  <2>5. ASSUME NEW s \in Sessions, NEW n \in Networks,
               Register(w, s, n) \/ Callback(w, s, n)
        PROVE  AccountInv'
    <3>1. UNCHANGED <<profiles, made, session>>
      BY <2>5 DEF Register, Callback, accounts
    <3>2. ASSUME NEW y, Continue(w, y), y.at \in {"ask", "exchange"}, y.data = session[s]
          PROVE  AccountInv'
      BY <2>2, <2>3, <2>4, <3>1, <3>2
    <3>3. CASE Register(w, s, n)
      BY <3>2, <3>3 DEF Register
    <3>4. CASE Callback(w, s, n)
      BY <3>2, <3>4 DEF Callback
    <3> QED BY <2>5, <3>3, <3>4
  <2>6. ASSUME NEW s \in Sessions,
               Logout(w, s) \/ Redirect(w, s) \/ \E p \in Members : Login(w, s, p)
        PROVE  AccountInv'
    <3>1. UNCHANGED <<profiles, made, session>>
      BY <2>6 DEF Logout, Redirect, Login, accounts
    <3>2. ASSUME NEW d, d.user \in Ended,
                 Continue(w, [at |-> "answer", session |-> s, data |-> d])
          PROVE  AccountInv'
      BY <2>2, <2>3, <2>4, <3>1, <3>2
    <3>3. \A p \in Members : LoggedIn(session[s], p).user \in Ended
      BY <2>2 DEF LoggedIn
    <3> QED BY <2>2, <2>6, <3>2, <3>3 DEF Logout, Redirect, Login
  <2>7. CASE KeepToken(w)
    <3>1. q \in [at : {"ask"}, session : Sessions, network : OAuth1, data : Data]
      BY <2>1, <2>7, Stages DEF KeepToken
    <3>2. PICK d \in {q.data, session[q.session]} :
            session' = [session EXCEPT
                          ![q.session] = [d EXCEPT !.token[q.network] = lastToken + 1]]
      BY <2>7 DEF KeepToken
    <3>3. d \in Data /\ d.user \in Ended
      BY <2>2, <3>1 DEF TypeOK
    <3>4. [d EXCEPT !.token[q.network] = lastToken + 1].user = d.user
      BY <3>1, <3>3, NewToken
    <3>5. \A s \in Sessions : session'[s].user \in Ended
      BY <2>2, <3>1, <3>2, <3>3, <3>4 DEF TypeOK
    <3>6. UNCHANGED <<profiles, made>> /\ Continue(w, Idle) /\ Idle.at = "idle"
      BY <2>7 DEF KeepToken, Answer, Idle, accounts
    <3> QED BY <2>3, <2>4, <3>5, <3>6
  <2>8. CASE Refuse(w) \/ SaveSession(w)
    <3>1. q.session \in Sessions /\ q.data.user \in Ended
      BY <2>1, <2>2, <2>8, Stages DEF Refuse, SaveSession
    <3>2. \A s \in Sessions : session'[s].user \in Ended
      BY <2>2, <2>8, <3>1 DEF Refuse, SaveSession, TypeOK
    <3>3. UNCHANGED <<profiles, made>> /\ Continue(w, Idle) /\ Idle.at = "idle"
      BY <2>8 DEF Refuse, SaveSession, Answer, Idle, accounts
    <3> QED BY <2>3, <2>4, <3>2, <3>3
  <2>9. CASE Finish(w)
    <3>1. PICK p \in IF User(q.data) # Nobody THEN {User(q.data)}
                     ELSE Profiles \ (profiles \cup made) :
            /\ Continue(w, [at |-> "replace", session |-> q.session,
                            network |-> q.network, data |-> LoggedIn(q.data, p),
                            token |-> q.token, id |-> q.id, old |-> Of(p, q.network)])
            /\ made' = made \cup ({p} \ profiles)
      BY <2>9 DEF Finish
    <3>2. p \in Profiles /\ (p \in profiles \/ p \notin profiles \cup made)
      BY <3>1 DEF User, TypeOK
    <3>0. PICK y : y = [at |-> "replace", session |-> q.session, network |-> q.network,
                        data |-> LoggedIn(q.data, p), token |-> q.token, id |-> q.id,
                        old |-> Of(p, q.network)]
      OBVIOUS
    <3>3. serving' = [serving EXCEPT ![w] = y] /\ y.at = "replace" /\ y.data.user = p
      BY <3>1, <3>0 DEF Continue, LoggedIn
    <3>4. UNCHANGED <<profiles, session>> /\ q.at = "exchange"
      BY <2>9 DEF Finish
    <3>5. \A v \in Workers : serving'[v] = IF v = w THEN y ELSE serving[v]
      BY <3>3 DEF TypeOK
    <3>6. Open' \subseteq Open \cup ({p} \ profiles)
      BY <3>3, <3>4, <3>5 DEF Open
    <3>7. Ended \subseteq Ended'
      <4> SUFFICES ASSUME NEW x \in Ended
                   PROVE  x \in Ended'
        OBVIOUS
      <4>1. x # p \/ p \in profiles
        BY <3>2 DEF Ended
      <4> QED BY <3>1, <3>4, <3>6, <4>1 DEF Ended
    <3>8. (\A v \in Workers : LET x == serving[v] IN
             /\ x.at \in {"ask", "exchange", "answer"} => x.data.user \in Ended
             /\ x.at = "replace" => x.data.user \in profiles \cup made)'
      BY <3>1, <3>3, <3>4, <3>5, <3>7 DEF AccountInv
    <3>9. (\A u, v \in Workers :
             u # v /\ serving[u].at = "replace" /\ serving[v].at = "replace"
               /\ serving[u].data.user = serving[v].data.user
                 => serving[u].data.user \in profiles)'
      BY <3>2, <3>3, <3>4, <3>5 DEF AccountInv
    <3> QED BY <3>4, <3>7, <3>8, <3>9 DEF AccountInv
  <2>10. CASE Replace(w) \/ RollBack(w)
    <3>1. q.at = "replace"
      BY <2>10 DEF Replace, RollBack
    <3>2. PICK y : /\ Continue(w, y)
                   /\ y.at = "idle" \/ (y.at = "answer" /\ y.data = q.data)
      BY <2>10 DEF Replace, RollBack, Answer, Idle
    <3>3. profiles \subseteq profiles' /\ UNCHANGED <<made, session>>
      BY <2>10 DEF Replace, RollBack, accounts
    <3> QED BY <2>2, <2>3, <2>4, <3>1, <3>2, <3>3
  <2> QED BY <1>1, <2>5, <2>6, <2>7, <2>8, <2>9, <2>10 DEF Step
<1>2. CASE UNCHANGED vars
  BY <1>2 DEF vars, AccountInv, Ended, Open, accounts
<1> QED BY <1>1, <1>2 DEF Next

\* A session never names an account whose transaction has not ended, nor one that
\* was never made.
THEOREM SessionsNameEnded == Spec => []SessionsOfEndedTransactions
<1>1. Init => AccountInv
  BY DEF Init, AccountInv, Ended, Open, Empty, Idle
<1>2. TypeOK /\ AccountInv /\ [Next]_vars => AccountInv'
  BY AccountStep
<1>3. AccountInv => SessionsOfEndedTransactions
  BY DEF AccountInv, Ended, SessionsOfEndedTransactions
<1> QED BY <1>1, <1>2, <1>3, TypeCorrect, PTL DEF Spec

-----------------------------------------------------------------------------
(* Permissions go to who asked for them. *)

\* A user who logs in keeps tokens of his own, and gets none of another's.
LEMMA LoginOwns ==
  ASSUME TokenInv, NEW d \in Data, NEW p \in Profiles, OwnTokens(d)
  PROVE  OwnTokens(LoggedIn(d, p))
<1> SUFFICES ASSUME NEW n \in OAuth1, LoggedIn(d, p).token[n] # NoToken
             PROVE  OwnToken(LoggedIn(d, p).token[n], p)
  BY DEF OwnTokens, LoggedIn
<1>1. d.user \in {Nobody, p} /\ LoggedIn(d, p).token = d.token
  BY DEF LoggedIn, Empty
<1>2. OwnToken(d.token[n], d.user)
  BY <1>1 DEF OwnTokens
<1>3. CASE d.user = p
  BY <1>1, <1>2, <1>3
<1>4. CASE d.user = Nobody
  BY <1>1, <1>2, <1>4 DEF OwnToken
<1> QED BY <1>1, <1>3, <1>4

\* Ownership lasts: a token is issued once.
LEMMA OwnershipLasts ==
  ASSUME TypeOK, lastToken' \in {lastToken, lastToken + 1},
         \A u \in 1 .. lastToken : asker'[u] = asker[u]
  PROVE  \A d : OwnTokens(d) => OwnTokens(d)'
  BY DEF OwnToken, OwnTokens, TypeOK, Token

\* A new token is its user's.
LEMMA KeptTokenOwned ==
  ASSUME TypeOK, NEW d \in Data, OwnTokens(d), NEW n \in OAuth1, NEW t,
         t = lastToken + 1, lastToken' = t,
         \A u \in 1 .. lastToken : asker'[u] = asker[u], asker'[t] = User(d),
         NEW r, r = [d EXCEPT !.token[n] = t]
  PROVE  OwnTokens(r)'
<1>1. /\ r.user = d.user /\ r.token[n] = t
      /\ \A m \in OAuth1 : m # n => r.token[m] = d.token[m]
  BY NewToken
<1>2. lastToken \in Nat
  BY DEF TypeOK, Token
<1>3. ASSUME NEW m \in OAuth1, r.token[m] # NoToken
      PROVE  OwnToken(r.token[m], r.user)'
  <2>1. CASE m = n
    BY <2>1, <1>1, <1>2 DEF OwnToken, User
  <2>2. CASE m # n
    BY <2>2, <1>1, <1>2, <1>3 DEF OwnTokens, OwnToken
  <2> QED BY <2>1, <2>2
<1> QED BY <1>3 DEF OwnTokens

LEMMA TokenStep ==
  ASSUME TypeOK, TypeOK', TokenInv, [Next]_vars
  PROVE  TokenInv'
<1> USE NetworkAssumption
<1>1. CASE \E w \in Workers : Step(w)
  <2>1. PICK w \in Workers : Step(w)
    BY <1>1
  <2> DEFINE q == serving[w]
  <2>2. ASSUME NEW s \in Sessions, NEW n \in Networks, Register(w, s, n)
        PROVE  TokenInv'
    BY <2>2 DEF Register, Continue, TypeOK, TokenInv, OwnToken, OwnTokens,
                accounts, tokens
  <2>3. ASSUME NEW s \in Sessions, NEW n \in Networks, Callback(w, s, n)
        PROVE  TokenInv'
    <3>1. PICK t \in {NoToken} \cup DOMAIN asker :
            /\ n \in OAuth1 => t # NoToken /\ session[s].token[n] = t
            /\ serving' = [serving EXCEPT ![w] =
                 [at |-> "exchange", session |-> s, network |-> n,
                  data |-> session[s], token |-> t, id |-> callbacks']]
      BY <2>3 DEF Callback, Continue
    <3>2. OwnTokens(session[s])
      BY DEF TokenInv
    <3>3. n \in OAuth1 => OwnToken(t, session[s].user)
      BY <3>1, <3>2 DEF OwnTokens
    <3>4. UNCHANGED <<profiles, creds, session, lastToken, asker>>
      BY <2>3 DEF Callback, accounts, tokens
    <3> QED BY <3>1, <3>2, <3>3, <3>4 DEF TypeOK, TokenInv, OwnToken, OwnTokens
  <2>4. CASE KeepToken(w)
    <3>1. q \in [at : {"ask"}, session : Sessions, network : OAuth1, data : Data]
      BY <2>4, Stages DEF KeepToken, TypeOK
    <3>2. PICK d \in {q.data, session[q.session]} :
            /\ session' = [session EXCEPT
                 ![q.session] = [d EXCEPT !.token[q.network] = lastToken + 1]]
            /\ asker' = [u \in 1 .. lastToken + 1 |->
                           IF u = lastToken + 1 THEN User(d) ELSE asker[u]]
      BY <2>4 DEF KeepToken
    <3>3. PICK s, n, t : s = q.session /\ n = q.network /\ t = lastToken + 1
      OBVIOUS
    <3>4. /\ s = q.session /\ n = q.network /\ t = lastToken + 1
          /\ s \in Sessions /\ n \in OAuth1
          /\ session' = [session EXCEPT ![s] = [d EXCEPT !.token[n] = t]]
          /\ asker' = [u \in 1 .. t |-> IF u = t THEN User(d) ELSE asker[u]]
      BY <3>1, <3>2, <3>3
    <3>5. /\ lastToken' = t /\ UNCHANGED <<profiles, creds>>
          /\ serving' = [serving EXCEPT ![w] = Idle]
      BY <2>4, <3>4 DEF KeepToken, Answer, Continue, accounts
    <3>6. d \in Data /\ OwnTokens(d)
      BY <2>4, <3>1, <3>4 DEF KeepToken, TypeOK, TokenInv
    <3>7. lastToken \in Nat
      BY DEF TypeOK, Token
    <3>8. /\ \A u \in 1 .. lastToken : asker'[u] = asker[u]
          /\ asker'[t] = User(d)
      BY <3>4, <3>7
    <3>9. PICK r : r = [d EXCEPT !.token[n] = t]
      OBVIOUS
    <3>10. OwnTokens(r)'
      BY <3>4, <3>5, <3>6, <3>8, <3>9, KeptTokenOwned
    <3>11. \A e : OwnTokens(e) => OwnTokens(e)'
      BY <3>4, <3>5, <3>8, OwnershipLasts
    <3>12. (\A x \in Sessions : OwnTokens(session[x]))'
      BY <3>4, <3>9, <3>10, <3>11 DEF TypeOK, TokenInv
    <3>13. (\A u \in 1 .. lastToken : asker[u] \in profiles \cup {Nobody})'
      BY <3>4, <3>5, <3>7, <3>8 DEF TokenInv, User
    <3>14. (\A x \in Workers : LET y == serving[x] IN
              /\ y.at # "idle" => OwnTokens(y.data)
              /\ y.at \in {"exchange", "replace"} /\ y.network \in OAuth1 =>
                   OwnToken(y.token, y.data.user))'
      BY <3>4, <3>5, <3>7, <3>8 DEF TokenInv, TypeOK, Idle, OwnToken, OwnTokens
    <3>15. (\A c \in creds : c.network \in OAuth1 => OwnToken(c.token, c.profile))'
      BY <3>4, <3>5, <3>7, <3>8 DEF TokenInv, OwnToken
    <3> QED BY <3>12, <3>13, <3>14, <3>15 DEF TokenInv
  <2>5. CASE Refuse(w)
    <3>1. OwnTokens(q.data) /\ UNCHANGED <<profiles, creds, lastToken, asker>>
      BY <2>5 DEF Refuse, TokenInv, accounts, tokens
    <3>2. /\ session' = session \/ session' = [session EXCEPT ![q.session] = q.data]
          /\ serving' = [serving EXCEPT ![w] = Idle]
      BY <2>5 DEF Refuse, Answer, Continue
    <3> QED BY <3>1, <3>2 DEF Idle, TypeOK, TokenInv, OwnToken, OwnTokens
  <2>6. CASE Finish(w)
    <3>1. q \in [at : {"exchange"}, session : Sessions, network : Networks,
                 data : Data, token : Token, id : 1 .. MaxCallbacks]
      BY <2>6, Stages DEF Finish, TypeOK
    <3>2. PICK p \in IF User(q.data) # Nobody THEN {User(q.data)}
                     ELSE Profiles \ (profiles \cup made) :
            serving' = [serving EXCEPT ![w] =
              [at |-> "replace", session |-> q.session,
               network |-> q.network, data |-> LoggedIn(q.data, p),
               token |-> q.token, id |-> q.id, old |-> Of(p, q.network)]]
      BY <2>6 DEF Finish, Continue
    <3>3. p \in Profiles
      BY <3>2 DEF User, TypeOK
    <3>4. OwnTokens(q.data) /\ (q.network \in OAuth1 => OwnToken(q.token, q.data.user))
      BY <3>1 DEF TokenInv
    <3>5. OwnTokens(LoggedIn(q.data, p))
      BY <3>1, <3>3, <3>4, LoginOwns
    <3>6. q.network \in OAuth1 => OwnToken(q.token, p)
      BY <3>2, <3>4 DEF TokenInv, OwnToken, User
    <3>7. LoggedIn(q.data, p).user = p
      BY DEF LoggedIn
    <3>8. UNCHANGED <<profiles, creds, session, lastToken, asker>>
      BY <2>6 DEF Finish, tokens
    <3> QED BY <3>2, <3>5, <3>6, <3>7, <3>8 DEF TypeOK, TokenInv, OwnToken, OwnTokens
  <2>7. CASE Replace(w)
    <3>1. /\ q.at = "replace" /\ profiles \subseteq profiles'
          /\ creds' \subseteq creds \cup
               {[id |-> q.id, profile |-> q.data.user, network |-> q.network,
                 token |-> q.token, by |-> w]}
          /\ serving' = [serving EXCEPT ![w] = [at |-> "answer",
                           session |-> q.session, data |-> q.data]]
          /\ UNCHANGED <<session, lastToken, asker>>
      BY <2>7 DEF Replace, Continue, tokens
    <3> QED BY <3>1 DEF TypeOK, TokenInv, OwnToken, OwnTokens
  <2>8. CASE RollBack(w)
    BY <2>8 DEF RollBack, Answer, Continue, Idle, TypeOK, TokenInv, OwnToken, OwnTokens,
                accounts, tokens
  <2>9. CASE SaveSession(w)
    BY <2>9 DEF SaveSession, Answer, Continue, Idle, TypeOK, TokenInv, OwnToken,
                OwnTokens, accounts, tokens
  <2>10. ASSUME NEW s \in Sessions,
                Logout(w, s) \/ Redirect(w, s) \/ \E p \in Members : Login(w, s, p)
         PROVE  TokenInv'
    <3>1. session[s] \in Data /\ OwnTokens(session[s]) /\ OwnTokens(Empty)
      BY DEF TypeOK, TokenInv, Empty, OwnTokens
    <3>2. \A p \in Members : OwnTokens(LoggedIn(session[s], p))
      BY <3>1, LoginOwns
    <3>3. PICK d : /\ OwnTokens(d)
                   /\ serving' = [serving EXCEPT ![w] =
                        [at |-> "answer", session |-> s, data |-> d]]
      BY <2>10, <3>1, <3>2 DEF Logout, Redirect, Login, Continue
    <3>4. UNCHANGED <<profiles, creds, session, lastToken, asker>>
      BY <2>10 DEF Logout, Redirect, Login, accounts, tokens
    <3> QED BY <3>3, <3>4 DEF TypeOK, TokenInv, OwnToken, OwnTokens
  <2> QED BY <2>1, <2>2, <2>3, <2>4, <2>5, <2>6, <2>7, <2>8, <2>9, <2>10 DEF Step
<1>4. CASE UNCHANGED vars
  BY <1>4 DEF vars, TokenInv, OwnToken, OwnTokens, accounts, tokens
<1> QED BY <1>1, <1>4 DEF Next

\* A permission asked for by a logged-in user is never another user's.
THEOREM PermissionsStay == Spec => []PermissionOfAsker
<1>1. Init => TokenInv
  BY DEF Init, TokenInv, OwnTokens, Empty, Idle
<1>2. TypeOK /\ TypeOK' /\ TokenInv /\ [Next]_vars => TokenInv'
  BY TokenStep
<1>3. TokenInv => PermissionOfAsker
  BY DEF TokenInv, OwnToken, PermissionOfAsker
<1> QED BY <1>1, <1>2, <1>3, TypeCorrect, PTL DEF Spec
=============================================================================
