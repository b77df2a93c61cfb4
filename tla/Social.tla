------------------------------- MODULE Social -------------------------------
(***************************************************************************)
(* The social application (apps/social/handlers.py, models.py): a browser  *)
(* registers the site with a network, comes back to the callback with the  *)
(* network's permission, and is logged in, as an account made for it if    *)
(* it had none, with the credentials stored.  (The networks' own rows are  *)
(* in NetworkKeys: a key that cannot be read is one reason of Refuse.)     *)
(*                                                                         *)
(* Every request is one transaction at the isolation level `read           *)
(* committed' (TransactionMiddleware, templateproject/settings.py:79; an   *)
(* exception rolls it back, utils.generic_exception_handler).  A session   *)
(* is outside of it: loaded when a handler first uses it, and written back *)
(* as a whole after the COMMIT (SessionMiddleware, the outer of the two).  *)
(* The handlers wait for the network in between, so that requests of one   *)
(* browser overlap.                                                        *)
(***************************************************************************)
EXTENDS Naturals

CONSTANTS
  Networks,    \* rows of SocialNetwork
  OAuth1,      \* networks with a request token: twitter, linkedin
  Timed,       \* the others whose callback passes `timeout': gowalla, latitude
  Profiles,    \* accounts
  Members,     \* those that exist from the start
  Sessions,    \* browsers
  Workers,     \* processes that serve HTTP requests
  MaxTokens,   \* bound: request tokens ever issued
  MaxCallbacks,\* bound: callbacks ever received
  Nobody       \* the user of a session that is not logged in

ASSUME NetworkAssumption ==
  /\ OAuth1 \subseteq Networks /\ Timed \subseteq Networks \ OAuth1
  /\ Members \subseteq Profiles /\ Nobody \notin Profiles
  /\ MaxTokens \in Nat /\ MaxCallbacks \in Nat

VARIABLES
  profiles,    \* accounts in the database
  creds,       \* rows of UserNetworkCredentials
  session,     \* the sessions
  serving,     \* what each worker is doing
  lastToken,   \* the last request token issued
  callbacks,   \* number of callbacks received; numbers the rows that they insert
  asker,       \* history: the user each request token was issued for
  made         \* the accounts ever made by a callback: a transaction that is
               \* rolled back does not free the account's id

accounts == <<profiles, creds, made>>
tokens == <<lastToken, asker>>
vars == <<accounts, session, serving, tokens, callbacks>>

NoToken == 0
Token == 0 .. MaxTokens

\* Session data: _auth_user_id and <network>_unauthed_token.
Data == [user : Profiles \cup {Nobody}, token : [OAuth1 -> Token]]
Empty == [user |-> Nobody, token |-> [n \in OAuth1 |-> NoToken]]

\* `by' and `token' are history: the worker that inserted the row, and the request
\* token that its access token was given for (NoToken without OAuth 1).
Credentials == [id : 1 .. MaxCallbacks, profile : Profiles, network : Networks,
                token : Token, by : Workers]

Idle == [at |-> "idle"]
Working ==
  [at : {"ask"}, session : Sessions, network : OAuth1, data : Data]
    \cup [at : {"exchange"}, session : Sessions, network : Networks, data : Data,
          token : Token, id : 1 .. MaxCallbacks]
    \cup [at : {"replace"}, session : Sessions, network : Networks,
          data : {d \in Data : d.user # Nobody}, token : Token,
          id : 1 .. MaxCallbacks, old : SUBSET Credentials]
    \cup [at : {"answer"}, session : Sessions, data : Data]

Init ==
  /\ profiles = Members /\ creds = {} /\ made = {}
  /\ session = [s \in Sessions |-> Empty]
  /\ serving = [w \in Workers |-> Idle]
  /\ lastToken = 0 /\ callbacks = 0 /\ asker = [t \in {} |-> Nobody]

Continue(w, s) == serving' = [serving EXCEPT ![w] = s]
Answer(w) == Continue(w, Idle)

\* request.user: a session may name an account that is not in the database.
User(d) == IF d.user \in profiles THEN d.user ELSE Nobody

\* login() of django.contrib.auth: a session that names another user is flushed.
LoggedIn(d, p) ==
  [user |-> p, token |-> IF d.user \in {Nobody, p} THEN d.token ELSE Empty.token]

Of(p, n) == {c \in creds : c.profile = p /\ c.network = n}

\* Faulty variant: the session is written before the transaction is committed.
SaveSessionEarly(w) ==
  LET q == serving[w] IN
  /\ q.at \in {"replace", "answer"}
  /\ session' = [session EXCEPT ![q.session] = q.data]
  /\ IF q.at = "answer" THEN Answer(w) ELSE UNCHANGED serving
  /\ UNCHANGED <<accounts, tokens, callbacks>>

\* The session is written as the handler left it.
SaveSession(w) ==
  LET q == serving[w] IN
  /\ q.at = "answer"
  /\ session' = [session EXCEPT ![q.session] = q.data]
  /\ Answer(w)
  /\ UNCHANGED <<accounts, tokens, callbacks>>

-----------------------------------------------------------------------------
(* LoginHandler *)

\* create: authenticate and login() of a member.
Login(w, s, p) ==
  /\ serving[w] = Idle /\ p \in Members
  /\ Continue(w, [at |-> "answer", session |-> s, data |-> LoggedIn(session[s], p)])
  /\ UNCHANGED <<accounts, session, tokens, callbacks>>

\* read, update, delete: logout() flushes the session.
Logout(w, s) ==
  /\ serving[w] = Idle
  /\ Continue(w, [at |-> "answer", session |-> s, data |-> Empty])
  /\ UNCHANGED <<accounts, session, tokens, callbacks>>

-----------------------------------------------------------------------------
(* SocialRegisterHandler *)

\* create: twitter and linkedin are asked for a request token, in a request
\* signed with the keys.
Register(w, s, n) ==
  /\ serving[w] = Idle /\ n \in OAuth1
  /\ Continue(w, [at |-> "ask", session |-> s, network |-> n, data |-> session[s]])
  /\ UNCHANGED <<accounts, session, tokens, callbacks>>

\* The others only redirect, and the session keeps the Referer (last_url).
Redirect(w, s) ==
  /\ serving[w] = Idle /\ Networks # OAuth1
  /\ Continue(w, [at |-> "answer", session |-> s, data |-> session[s]])
  /\ UNCHANGED <<accounts, session, tokens, callbacks>>

\* The network issues a request token, kept in the session.  The session was
\* loaded at the start when the request had a Referer, else is loaded now.
KeepToken(w) ==
  LET q == serving[w]
      t == lastToken + 1
  IN
  /\ q.at = "ask" /\ t <= MaxTokens
  /\ \E d \in {q.data, session[q.session]} :
       /\ session' = [session EXCEPT
                        ![q.session] = [d EXCEPT !.token[q.network] = t]]
       /\ asker' = [u \in 1 .. t |-> IF u = t THEN User(d) ELSE asker[u]]
  /\ lastToken' = t
  /\ Answer(w)
  /\ UNCHANGED <<accounts, callbacks>>

-----------------------------------------------------------------------------
(* SocialCallbackHandler *)

\* Faulty variant: any request token ever issued is taken.
CallbackUnchecked(w, s, n) ==
  /\ serving[w] = Idle /\ callbacks < MaxCallbacks
  /\ callbacks' = callbacks + 1
  /\ \E answered \in {NoToken} \cup DOMAIN asker :
       /\ (n \in OAuth1) <=> (answered # NoToken)
       /\ Continue(w, [at |-> "exchange", session |-> s, network |-> n,
                       data |-> session[s], token |-> answered, id |-> callbacks'])
  /\ UNCHANGED <<accounts, session, tokens>>

\* read: with OAuth 1 the session holds a request token and the network
\* answers with the same; else the network answers with a code.
Callback(w, s, n) ==
  /\ serving[w] = Idle /\ callbacks < MaxCallbacks
  /\ callbacks' = callbacks + 1
  /\ \E answered \in {NoToken} \cup DOMAIN asker :
       /\ n \in OAuth1 => answered # NoToken /\ session[s].token[n] = answered
       /\ n \notin OAuth1 => answered = NoToken
       /\ Continue(w, [at |-> "exchange", session |-> s, network |-> n,
                       data |-> session[s], token |-> answered, id |-> callbacks'])
  /\ UNCHANGED <<accounts, session, tokens>>

\* No request token, no access token, an HTTP error, a key that the network does
\* not know or no new account: an error is answered, no row is stored.  The
\* session is written back all the same when the handler has modified it: with
\* the Referer, or with the access token of OAuth 1.
Refuse(w) ==
  LET q == serving[w] IN
  /\ q.at \in {"ask", "exchange"}
  /\ \/ UNCHANGED session
     \/ q.network \in OAuth1 /\ session' = [session EXCEPT ![q.session] = q.data]
  /\ Answer(w)
  /\ UNCHANGED <<accounts, tokens, callbacks>>

\* Faulty variant: no account is made for a visitor.
FinishAsVisitor(w) ==
  LET q == serving[w]
      p == User(q.data)
  IN
  /\ q.at = "exchange"
  /\ Continue(w, [at |-> "replace", session |-> q.session, network |-> q.network,
                  data |-> LoggedIn(q.data, p), token |-> q.token,
                  id |-> q.id, old |-> Of(p, q.network)])
  /\ UNCHANGED <<accounts, session, tokens, callbacks>>

\* finish_callback with the access token: login() as the user of the session or
\* as a new account (create_default of the site, which may refuse: see Refuse),
\* then the query of the rows that delete() is going to delete.
Finish(w) ==
  LET q == serving[w] IN
  /\ q.at = "exchange"
  /\ \E p \in IF User(q.data) # Nobody THEN {User(q.data)}
            ELSE Profiles \ (profiles \cup made) :
       /\ Continue(w, [at |-> "replace", session |-> q.session,
                       network |-> q.network, data |-> LoggedIn(q.data, p),
                       token |-> q.token, id |-> q.id, old |-> Of(p, q.network)])
       /\ made' = made \cup ({p} \ profiles)
  /\ UNCHANGED <<profiles, creds, session, tokens, callbacks>>

\* Faulty variant: the rows the user had are left.
ReplaceWithoutDelete(w) ==
  LET q == serving[w]
      p == q.data.user
  IN
  /\ q.at = "replace" /\ q.network \notin Timed
  /\ profiles' = profiles \cup {p}
  /\ creds' = creds
       \cup {[id |-> q.id, profile |-> p, network |-> q.network,
              token |-> q.token, by |-> w]}
  /\ Continue(w, [at |-> "answer", session |-> q.session, data |-> q.data])
  /\ UNCHANGED <<made, session, tokens, callbacks>>

\* delete(), create() and COMMIT.
Replace(w) ==
  LET q == serving[w]
      p == q.data.user
  IN
  /\ q.at = "replace" /\ q.network \notin Timed
  /\ profiles' = profiles \cup {p}
  /\ creds' = (creds \ q.old)
       \cup {[id |-> q.id, profile |-> p, network |-> q.network,
              token |-> q.token, by |-> w]}
  /\ Continue(w, [at |-> "answer", session |-> q.session, data |-> q.data])
  /\ UNCHANGED <<made, session, tokens, callbacks>>

\* The transaction is rolled back, the account made in it included; the session
\* is not part of it.  delete() and create() can fail for every network, and do
\* for those that pass `timeout', which is no field: the exception is answered,
\* and the session is still written.  It is not when the COMMIT itself fails,
\* which keeps the response from SessionMiddleware.
RollBack(w) ==
  LET q == serving[w] IN
  /\ q.at = "replace"
  /\ \/ Continue(w, [at |-> "answer", session |-> q.session, data |-> q.data])
     \/ q.network \notin Timed /\ Answer(w)
  /\ UNCHANGED <<accounts, session, tokens, callbacks>>

Step(w) ==
  \/ \E s \in Sessions :
       \/ Logout(w, s) \/ Redirect(w, s)
       \/ \E p \in Members : Login(w, s, p)
       \/ \E n \in Networks : Register(w, s, n) \/ Callback(w, s, n)
  \/ KeepToken(w) \/ Refuse(w)
  \/ Finish(w) \/ Replace(w) \/ RollBack(w) \/ SaveSession(w)

Next == \E w \in Workers : Step(w)

Spec == Init /\ [][Next]_vars

-----------------------------------------------------------------------------
(* Properties *)

TypeOK ==
  /\ profiles \subseteq Profiles /\ creds \subseteq Credentials
  /\ made \subseteq Profiles
  /\ session \in [Sessions -> Data]
  /\ serving \in [Workers -> Working \cup {Idle}]
  /\ lastToken \in Token /\ callbacks \in 0 .. MaxCallbacks
  /\ asker \in [1 .. lastToken -> Profiles \cup {Nobody}]

\* SocialFriendHandler and SocialPostHandler look credentials up with
\* objects.get (handlers.py:45, 117): two rows of a profile and network make
\* every later request fail.  finish_callback makes them only when two workers
\* serve callbacks of one profile at a time: no worker leaves two of its own.
DuplicatesOnlyByRace ==
  \A c, d \in creds :
    c # d /\ c.profile = d.profile /\ c.network = d.network => c.by # d.by

\* A permission goes to the account that asked for it: a request token asked
\* for by a logged-in user ends in credentials of no other, whatever logins,
\* logouts and stale writes of the session come in between.
PermissionOfAsker ==
  \A c \in creds :
    c.network \in OAuth1 /\ asker[c.token] # Nobody
      => c.profile = asker[c.token]

\* Accounts of transactions that have not ended: a callback has made them and
\* logged a visitor in as them, and its COMMIT or rollback is to come.
Open == {serving[w].data.user : w \in {v \in Workers : serving[v].at = "replace"}}
          \ profiles

\* No session ever names an account of an open transaction, though it is logged
\* in there (handlers.py:532) and copies of the session are written back all the
\* time: it names nobody, an account of the database, or one that was rolled
\* back, and such a session is a visitor's again.
SessionsOfEndedTransactions ==
  \A s \in Sessions : session[s].user \in ({Nobody} \cup profiles \cup made) \ Open
=============================================================================
