------------------------------ MODULE Accounts ------------------------------
(***************************************************************************)
(* User accounts (apps/user/handlers.py and forms.py, the password views   *)
(* of views.py), with SINGLE_SESSION: registration, update, login, logout, *)
(* change and reset of the password, by concurrent workers.                *)
(*                                                                         *)
(* Every request is one transaction at the isolation level `read           *)
(* committed'; an exception rolls it back.  A save() of Django writes the  *)
(* whole row of the user as the request has read it, changed or not, and   *)
(* waits while another transaction has written the row.  Sessions are      *)
(* written after the COMMIT, and a request presents any key ever issued.   *)
(*                                                                         *)
(* The profile of a user is inserted with it and is not told apart, and a  *)
(* name, which the database keeps unique too, is the account's id.         *)
(***************************************************************************)
EXTENDS Naturals

CONSTANTS
  Users,         \* ids of accounts
  Emails, NoEmail,
  Workers,       \* processes that serve HTTP requests
  MaxPasswords,  \* bound: passwords ever chosen or generated
  MaxKeys,       \* bound: session keys ever issued
  Nobody

ASSUME BoundAssumption ==
  /\ MaxPasswords \in Nat /\ MaxKeys \in Nat
  /\ Nobody \notin Users \cup Emails \cup {NoEmail}
  /\ NoEmail \notin Emails

VARIABLES
  row,           \* rows of User
  sessions,      \* rows of Session: the user that each key's session names
  lost,          \* ids of accounts rolled back after their login: not used again
  serving,       \* what each worker is doing
  lastPassword, lastKey,
  known,         \* history: passwords that each user chose or was mailed
  unseen,        \* history: session keys written since a login looked at them
  behind,        \* history: workers that have read rows before the last write of one
  raced          \* history: such a worker has written a row

tables == <<row, sessions, lost>>
counters == <<lastPassword, lastKey>>
races == <<behind, raced>>
vars == <<tables, serving, counters, known, unseen, races>>

Keys == 1 .. MaxKeys
Blank == 0   \* the empty password; LoginHandler refuses it
Addresses == Emails \cup {NoEmail}
Row == [email : Addresses, password : 0 .. MaxPasswords]
NoRow == [email |-> Nobody, password |-> Blank]

\* copy: the row of the user as the request has read it, or is going to write it.
Idle == [at |-> "idle"]
Working ==
  [at : {"insert"}, email : Addresses]
    \cup [at : {"login", "edit", "write", "reset", "mail"}, user : Users, copy : Row]
    \cup [at : {"enter"}, user : Users, copy : Row, old : SUBSET Keys]
    \cup [at : {"mailed"}, user : Users, copy : Row,
          owner : Users \cup {Nobody}, key : Keys \cup {0}]
    \cup [at : {"welcome", "touch"}, user : Users, key : Keys]

Init ==
  /\ row = [u \in Users |-> NoRow]
  /\ sessions = [k \in Keys |-> Nobody]
  /\ lost = {}
  /\ serving = [w \in Workers |-> Idle]
  /\ lastPassword = 0 /\ lastKey = 0
  /\ known = [u \in Users |-> {}]
  /\ unseen = [w \in Workers |-> {}]
  /\ behind = {} /\ raced = FALSE

Exists(u) == row[u] # NoRow
Given(u) == Exists(u) \/ u \in lost
Continue(w, s) == serving' = [serving EXCEPT ![w] = s]

\* Worker w starts to read rows; it commits a row of u.
Reads(w) == behind' = behind \ {w} /\ UNCHANGED raced
Writes(w, u, r) ==
  /\ row' = [row EXCEPT ![u] = r]
  /\ behind' = Workers \ {w}
  /\ raced' = (raced \/ w \in behind)

\* Another transaction has written u's row and not ended yet.
Locked(u) == \E v \in Workers : serving[v].at \in {"mail", "mailed"} /\ serving[v].user = u

\* clean_email: no other account has the address; none need be given.
Free(e, u) == e = NoEmail \/ \A v \in Users \ {u} : row[v].email # e

\* The last password generated or chosen.
NewPassword == lastPassword < MaxPasswords /\ lastPassword' = lastPassword + 1

\* login() goes on with the session presented when that names the user already,
\* and is not one of those deleted before; else it issues a key.
LoginKey(u, gone, presented) ==
  IF presented \in Keys \ gone /\ sessions[presented] = u THEN presented ELSE lastKey + 1
LogsIn(w, u, gone, presented, next) ==
  LET key == LoginKey(u, gone, presented) IN
  /\ key <= MaxKeys
  /\ lastKey' = IF key = presented THEN lastKey ELSE key
  /\ Continue(w, [at |-> next, user |-> u, key |-> key])

\* Committed, a login ends the sessions in gone and another one presented.
Issue(w, u, gone) ==
  \E presented \in 0 .. lastKey :
    /\ LogsIn(w, u, gone, presented, "welcome")
    /\ LET ended == gone \cup ({presented} \ {LoginKey(u, gone, presented)}) IN
       sessions' = [k \in Keys |-> IF k \in ended THEN Nobody ELSE sessions[k]]

\* An exception after login() rolls the rows back, not the session to be saved.
IssueLost(w, u, gone) ==
  /\ \E presented \in 0 .. lastKey : LogsIn(w, u, gone, presented, "touch")
  /\ UNCHANGED <<row, sessions, lastPassword, known, unseen, races>>

-----------------------------------------------------------------------------
(* GenericUserHandler.create *)

\* Faulty variant: the address is not looked for.
CheckEmailSkipped(w, e) ==
  /\ serving[w] = Idle
  /\ Continue(w, [at |-> "insert", email |-> e])
  /\ Reads(w)
  /\ UNCHANGED <<tables, counters, known, unseen>>

CheckEmail(w, e) ==
  /\ serving[w] = Idle
  /\ Free(e, Nobody)
  /\ Continue(w, [at |-> "insert", email |-> e])
  /\ Reads(w)
  /\ UNCHANGED <<tables, counters, known, unseen>>

\* User and profile are inserted, the user is logged in; COMMIT.  A profile form
\* that is not valid ends in RollBack.
Insert(w, u) ==
  /\ serving[w].at = "insert"
  /\ ~Given(u) /\ NewPassword
  /\ Writes(w, u, [email |-> serving[w].email, password |-> lastPassword'])
  /\ Issue(w, u, {})
  /\ known' = [known EXCEPT ![u] = @ \cup {lastPassword'}]
  /\ UNCHANGED <<lost, unseen>>

\* last_login cannot be saved, a receiver of user_logged_in fails, or the COMMIT,
\* which commit_on_success makes part of the handler (handlers.py:43).
InsertFails(w, u) ==
  /\ serving[w].at = "insert"
  /\ ~Given(u)
  /\ lost' = lost \cup {u}
  /\ IssueLost(w, u, {})

-----------------------------------------------------------------------------
(* LoginHandler *)

Authenticate(w, u) ==
  /\ serving[w] = Idle
  /\ Exists(u) /\ row[u].password # Blank
  /\ Continue(w, [at |-> "login", user |-> u, copy |-> row[u]])
  /\ Reads(w)
  /\ UNCHANGED <<tables, counters, known, unseen>>

\* Faulty variant: one session is looked for.
FindSessionsFirst(w) ==
  /\ serving[w].at = "login"
  /\ \E k \in Keys \cup {0} :
       Continue(w, [at |-> "enter", user |-> serving[w].user, copy |-> serving[w].copy,
                    old |-> {j \in {k} \cap Keys : sessions[j] = serving[w].user}])
  /\ UNCHANGED <<tables, counters, known, unseen, races>>

\* SINGLE_SESSION: the sessions of the user, to be deleted.
FindSessions(w) ==
  /\ serving[w].at = "login"
  /\ Continue(w, [at |-> "enter", user |-> serving[w].user, copy |-> serving[w].copy,
                  old |-> {k \in Keys : sessions[k] = serving[w].user}])
  /\ UNCHANGED <<tables, counters, known, unseen, races>>

\* The sessions are deleted and login() saves the user for its last_login; COMMIT.
Enter(w) ==
  LET s == serving[w] IN
  /\ s.at = "enter" /\ ~Locked(s.user)
  /\ Writes(w, s.user, s.copy)
  /\ Issue(w, s.user, s.old)
  /\ UNCHANGED <<lost, lastPassword, known, unseen>>

\* last_login cannot be saved, or a receiver of user_logged_in fails.  (A COMMIT of
\* TransactionMiddleware that fails keeps SessionMiddleware from its work: RollBack.)
EnterFails(w) ==
  /\ serving[w].at = "enter"
  /\ IssueLost(w, serving[w].user, serving[w].old)
  /\ UNCHANGED lost

Logout(k) ==
  /\ sessions[k] # Nobody
  /\ sessions' = [sessions EXCEPT ![k] = Nobody]
  /\ UNCHANGED <<row, lost, serving, counters, known, unseen, races>>

-----------------------------------------------------------------------------
(* GenericUserHandler.update, changePass *)

\* request.user, of a session that the request presents.
Load(w, k) ==
  /\ serving[w] = Idle
  /\ sessions[k] # Nobody /\ Exists(sessions[k])
  /\ Continue(w, [at |-> "edit", user |-> sessions[k], copy |-> row[sessions[k]]])
  /\ Reads(w)
  /\ UNCHANGED <<tables, counters, known, unseen>>

\* The user is to be saved with another address or password.
Edit(w, e) ==
  /\ serving[w].at = "edit"
  /\ \/ NewPassword /\ UNCHANGED lastKey
     \/ UNCHANGED counters
  /\ Continue(w, [at |-> "write", user |-> serving[w].user,
                  copy |-> [email |-> e, password |-> IF lastPassword' = lastPassword
                                                      THEN Blank ELSE lastPassword']])
  /\ UNCHANGED <<tables, known, unseen, races>>

\* An address that is not given is kept, but clean_password hashes the password
\* whether given or not.
CheckUpdate(w, e) ==
  /\ serving[w].at = "edit" /\ Free(e, serving[w].user)
  /\ Edit(w, IF e = NoEmail THEN serving[w].copy.email ELSE e)

\* set_password of what the request gives, or gives not.
ChangePassword(w) == serving[w].at = "edit" /\ Edit(w, serving[w].copy.email)

Write(w) ==
  LET s == serving[w] IN
  /\ s.at = "write" /\ ~Locked(s.user)
  /\ Writes(w, s.user, s.copy)
  /\ known' = [known EXCEPT ![s.user] = @ \cup {s.copy.password}]
  /\ Continue(w, Idle)
  /\ UNCHANGED <<sessions, lost, counters, unseen>>

-----------------------------------------------------------------------------
(* newResetPass *)

FindUser(w, u) ==
  /\ serving[w] = Idle
  /\ row[u].email \in Emails
  /\ Continue(w, [at |-> "reset", user |-> u, copy |-> row[u]])
  /\ Reads(w)
  /\ UNCHANGED <<tables, counters, known, unseen>>

\* Faulty variant: committed before the mail.
SaveResetCommitted(w) ==
  LET s == serving[w] IN
  /\ s.at = "reset" /\ ~Locked(s.user)
  /\ NewPassword
  /\ Writes(w, s.user, [s.copy EXCEPT !.password = lastPassword'])
  /\ Continue(w, [s EXCEPT !.at = "mail", !.copy.password = lastPassword'])
  /\ UNCHANGED <<sessions, lost, lastKey, known, unseen>>

\* Saved, not committed: others wait for the row.
SaveReset(w) ==
  LET s == serving[w] IN
  /\ s.at = "reset" /\ ~Locked(s.user)
  /\ NewPassword
  /\ Continue(w, [s EXCEPT !.at = "mail", !.copy.password = lastPassword'])
  /\ UNCHANGED <<tables, lastKey, known, unseen, races>>

\* The mail is gone; request.session loads the session presented, if any.
SendMail(w, k) ==
  LET s == serving[w] IN
  /\ s.at = "mail"
  /\ known' = [known EXCEPT ![s.user] = @ \cup {s.copy.password}]
  /\ Continue(w, [at |-> "mailed", user |-> s.user, copy |-> s.copy,
                  owner |-> IF k = 0 THEN Nobody ELSE sessions[k], key |-> k])
  /\ UNCHANGED <<tables, counters, unseen, races>>

\* Faulty variant: a session is saved whether one was presented or not.
CommitResetTouches(w) ==
  LET s == serving[w] IN
  /\ s.at = "mailed"
  /\ Writes(w, s.user, s.copy)
  /\ Continue(w, [at |-> "touch", user |-> s.owner, key |-> s.key])
  /\ UNCHANGED <<sessions, lost, counters, known, unseen>>

CommitReset(w) ==
  LET s == serving[w] IN
  /\ s.at = "mailed"
  /\ Writes(w, s.user, s.copy)
  /\ Continue(w, IF s.owner = Nobody THEN Idle
                 ELSE [at |-> "touch", user |-> s.owner, key |-> s.key])
  /\ UNCHANGED <<sessions, lost, counters, known, unseen>>

-----------------------------------------------------------------------------
(* SessionMiddleware, TransactionMiddleware *)

\* After the COMMIT the changed session is saved, whether it exists or not.
SaveSession(w) ==
  LET s == serving[w] IN
  /\ s.at \in {"welcome", "touch"}
  /\ sessions' = [sessions EXCEPT ![s.key] = s.user]
  /\ unseen' = [v \in Workers |-> IF v # w /\ serving[v].at \in {"enter", "welcome"}
                                  THEN unseen[v] \cup {s.key} ELSE {}]
  /\ Continue(w, Idle)
  /\ UNCHANGED <<row, lost, counters, known, races>>

\* A form is not valid, the mail is not sent, an exception is raised.
RollBack(w) ==
  /\ serving[w].at \notin {"idle", "welcome", "touch"}
  /\ Continue(w, Idle)
  /\ unseen' = [unseen EXCEPT ![w] = {}]
  /\ UNCHANGED <<tables, counters, known, races>>

Serve(w) ==
  \/ \E e \in Addresses : CheckEmail(w, e) \/ CheckUpdate(w, e)
  \/ \E u \in Users : Insert(w, u) \/ InsertFails(w, u) \/ Authenticate(w, u)
                         \/ FindUser(w, u)
  \/ \E k \in Keys : Load(w, k)
  \/ \E k \in 0 .. lastKey : SendMail(w, k)
  \/ FindSessions(w) \/ Enter(w) \/ EnterFails(w) \/ ChangePassword(w) \/ Write(w)
  \/ SaveReset(w) \/ CommitReset(w) \/ SaveSession(w) \/ RollBack(w)

Next == \/ \E w \in Workers : Serve(w)
        \/ \E k \in Keys : Logout(k)

Spec == Init /\ [][Next]_vars

-----------------------------------------------------------------------------
\* Every session names an account that exists or was rolled back, or nobody.
TypeOK ==
  /\ row \in [Users -> Row \cup {NoRow}] /\ lost \subseteq Users
  /\ lastPassword \in 0 .. MaxPasswords /\ lastKey \in 0 .. MaxKeys
  /\ sessions \in [Keys -> Users \cup {Nobody}]
  /\ \A k \in Keys : sessions[k] # Nobody => k <= lastKey /\ Given(sessions[k])
  /\ serving \in [Workers -> Working \cup {Idle}]
  /\ known \in [Users -> SUBSET (0 .. MaxPasswords)]
  /\ unseen \in [Workers -> SUBSET Keys]
  /\ behind \subseteq Workers /\ raced \in BOOLEAN

\* The password of an account is one that its user chose or was mailed, or blank:
\* a reset that fails before its mail is gone, and a login that saves the row it
\* had read, leave no password that nobody knows.
PasswordKnown == \A u \in Users : row[u].password \in known[u] \cup {Blank}

\* SINGLE_SESSION: when a login commits, the user has no session but those saved
\* after the login looked for them.
OthersLoggedOut ==
  \A w \in Workers : serving[w].at = "welcome" =>
    \A k \in Keys : sessions[k] = serving[w].user => k \in unseen[w]

\* Accounts share an address only if a request has written a row that another
\* had written since the request read.
AddressesUnique ==
  ~raced => \A u, v \in Users : u # v /\ row[u].email \in Emails
                                  => row[v].email # row[u].email

\* An account keeps a password that its user can log in with.
PasswordKept == \A u \in Users : Exists(u) => row[u].password # Blank
=============================================================================
