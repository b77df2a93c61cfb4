--------------------------- MODULE AccountsProofs ---------------------------
(***************************************************************************)
(* Theorems about Accounts, for any users and any number of workers.       *)
(***************************************************************************)
EXTENDS Accounts, TLAPS

\* A session that is going to be saved has a key that was issued, and its user has
\* an id that was given.
IssuedStage(s) ==
  /\ s.at \in {"welcome", "touch"} => s.key <= lastKey /\ Given(s.user)
  /\ s.at = "mailed" /\ s.owner # Nobody =>
       s.key \in Keys /\ s.key <= lastKey /\ Given(s.owner)
  /\ s.at \in {"login", "enter"} => Given(s.user)
TypeInv == TypeOK /\ \A w \in Workers : IssuedStage(serving[w])

\* The fields of a worker's state at each of its stages.
Copying == [at : {"login", "edit", "write", "reset", "mail"}, user : Users, copy : Row]
LEMMA Stages ==
  ASSUME NEW s \in Working \cup {Idle}
  PROVE  /\ s.at = "insert" => s \in [at : {"insert"}, email : Addresses]
         /\ s.at \in {"login", "edit", "write", "reset", "mail"} => s \in Copying
         /\ s.at = "enter" =>
              s \in [at : {"enter"}, user : Users, copy : Row, old : SUBSET Keys]
         /\ s.at = "mailed" =>
              s \in [at : {"mailed"}, user : Users, copy : Row,
                     owner : Users \cup {Nobody}, key : Keys \cup {0}]
         /\ s.at \in {"welcome", "touch"} =>
              s \in [at : {"welcome", "touch"}, user : Users, key : Keys]
  BY DEF Working, Idle, Copying

-----------------------------------------------------------------------------
(* Type correctness. *)

\* Reading, a worker only goes on.
LEMMA TypeContinue ==
  ASSUME TypeInv, NEW w \in Workers, NEW s \in Working \cup {Idle}, Continue(w, s),
         UNCHANGED <<tables, counters, known>>, IssuedStage(s),
         unseen' \in [Workers -> SUBSET Keys],
         behind' \subseteq Workers, raced' \in BOOLEAN
  PROVE  TypeInv'
  BY DEF TypeInv, TypeOK, IssuedStage, Given, Exists, Continue, tables, counters

\* A password is chosen for the row that a worker is going to write.
LEMMA TypePassword ==
  ASSUME TypeInv, NEW w \in Workers, NEW s \in Copying, s.at # "login", Continue(w, s),
         lastPassword' \in 0 .. MaxPasswords,
         UNCHANGED <<tables, lastKey, known, unseen, races>>
  PROVE  TypeInv'
<1>1. s \in Working /\ IssuedStage(s)
  BY DEF Copying, Working, IssuedStage
<1> QED BY <1>1 DEF TypeInv, TypeOK, IssuedStage, Given, Exists, Continue, tables, races

LEMMA TypeEdit ==
  ASSUME TypeInv, NEW w \in Workers, NEW e \in Addresses, Edit(w, e)
  PROVE  TypeInv'
<1>1. serving[w] \in Copying
  BY Stages DEF Edit, TypeInv, TypeOK
<1>2. lastPassword' \in 0 .. MaxPasswords /\ lastKey' = lastKey
  BY BoundAssumption DEF Edit, NewPassword, counters, TypeInv, TypeOK
<1>3. PICK p \in 0 .. MaxPasswords :
        p = IF lastPassword' = lastPassword THEN Blank ELSE lastPassword'
  BY <1>2, BoundAssumption DEF Blank
<1>4. [at |-> "write", user |-> serving[w].user,
       copy |-> [email |-> e, password |-> p]] \in Copying
  BY <1>1 DEF Copying, Row
<1> QED BY <1>2, <1>3, <1>4, TypePassword DEF Edit

\* A key that was issued stays so, and an id that was given.
LEMMA IssuedKept ==
  ASSUME NEW s \in Working \cup {Idle}, IssuedStage(s),
         lastKey \in Nat, lastKey' \in Nat, lastKey <= lastKey',
         \A v \in Users : Given(v) => Given(v)'
  PROVE  IssuedStage(s)'
<1>1. /\ s.at \in {"welcome", "touch"} => s.key \in Nat /\ s.user \in Users
      /\ s.at \in {"login", "enter"} => s.user \in Users
  BY Stages DEF Keys, Copying
<1>2. s.at = "mailed" /\ s.owner # Nobody => s.key \in Nat /\ s.owner \in Users
  BY Stages DEF Keys
<1> QED BY <1>1, <1>2 DEF IssuedStage, Given, Exists

\* It writes a row, of an account that exists from now on.
LEMMA TypeWrite ==
  ASSUME TypeInv, NEW w \in Workers, NEW s \in Working \cup {Idle}, Continue(w, s),
         NEW u \in Users, NEW r \in Row, Writes(w, u, r), IssuedStage(s)',
         lastPassword' \in 0 .. MaxPasswords,
         lastKey' \in 0 .. MaxKeys, lastKey <= lastKey',
         \A k \in Keys : sessions'[k] \in {sessions[k], Nobody},
         sessions' \in [Keys -> Users \cup {Nobody}],
         known' \in [Users -> SUBSET (0 .. MaxPasswords)],
         UNCHANGED <<lost, unseen>>
  PROVE  TypeInv'
<1> USE BoundAssumption
<1>1. r # NoRow
  BY DEF Row, NoRow, Addresses
<1>2. \A v \in Users : Given(v) => Given(v)'
  BY <1>1 DEF Given, Exists, Writes, TypeInv, TypeOK
<1>3. row' \in [Users -> Row \cup {NoRow}]
  BY DEF Writes, TypeInv, TypeOK
<1>4. \A k \in Keys : sessions'[k] # Nobody => k <= lastKey' /\ Given(sessions[k])'
  <2> SUFFICES ASSUME NEW k \in Keys, sessions'[k] # Nobody
               PROVE  k <= lastKey' /\ Given(sessions[k])'
    OBVIOUS
  <2>1. sessions'[k] = sessions[k] /\ sessions[k] \in Users
    BY DEF TypeInv, TypeOK
  <2>2. k <= lastKey /\ Given(sessions[k])
    BY <2>1 DEF TypeInv, TypeOK
  <2>3. k <= lastKey'
    BY <2>2 DEF Keys, TypeInv, TypeOK
  <2> QED BY <1>2, <2>1, <2>2, <2>3 DEF Given, Exists
<1>5. behind' \subseteq Workers /\ raced' \in BOOLEAN
  BY DEF Writes, TypeInv, TypeOK
<1>6. serving' \in [Workers -> Working \cup {Idle}]
  BY DEF Continue, TypeInv, TypeOK
<1>7. TypeOK'
  BY <1>3, <1>4, <1>5, <1>6 DEF TypeInv, TypeOK
<1>8. ASSUME NEW v \in Workers PROVE IssuedStage(serving[v])'
  <2>1. CASE v = w
    BY <2>1 DEF Continue, TypeInv, TypeOK, IssuedStage
  <2>2. CASE v # w
    <3>1. serving[v] \in Working \cup {Idle} /\ IssuedStage(serving[v])
      BY DEF TypeInv, TypeOK
    <3>2. serving'[v] = serving[v]
      BY <2>2 DEF TypeInv, TypeOK, Continue
    <3> QED BY <1>2, <1>3, <3>1, <3>2, IssuedKept DEF TypeInv, TypeOK, IssuedStage, Given, Exists
  <2> QED BY <2>1, <2>2
<1> QED BY <1>7, <1>8 DEF TypeInv

\* Ending a login, a worker has a key to save a session with.
LEMMA LoginKeyIssued ==
  ASSUME TypeInv, NEW w \in Workers, NEW u \in Users, NEW gone,
         NEW presented \in 0 .. lastKey,
         NEW next \in {"welcome", "touch"}, LogsIn(w, u, gone, presented, next)
  PROVE  /\ lastKey' \in 0 .. MaxKeys /\ lastKey <= lastKey'
         /\ \E k \in Keys :
              /\ k <= lastKey'
              /\ Continue(w, [at |-> next, user |-> u, key |-> k])
              /\ [at |-> next, user |-> u, key |-> k] \in Working
<1> DEFINE key == LoginKey(u, gone, presented)
<1>1. lastKey \in Nat /\ lastKey <= MaxKeys
  BY BoundAssumption DEF TypeInv, TypeOK
<1>2. /\ key \in Keys
      /\ IF key = presented THEN lastKey' = lastKey ELSE key = lastKey + 1 /\ lastKey' = key
  BY <1>1, BoundAssumption DEF LogsIn, LoginKey, Keys
<1>3. lastKey' \in 0 .. MaxKeys /\ lastKey <= lastKey' /\ key <= lastKey'
  BY <1>1, <1>2, BoundAssumption DEF Keys
<1>4. Continue(w, [at |-> next, user |-> u, key |-> key])
  BY DEF LogsIn
<1> HIDE DEF key
<1> QED BY <1>2, <1>3, <1>4 DEF Working

LEMMA IssueKey ==
  ASSUME TypeInv, NEW w \in Workers, NEW u \in Users, NEW gone, Issue(w, u, gone)
  PROVE  /\ lastKey' \in 0 .. MaxKeys /\ lastKey <= lastKey'
         /\ \E k \in Keys :
              /\ k <= lastKey'
              /\ Continue(w, [at |-> "welcome", user |-> u, key |-> k])
              /\ [at |-> "welcome", user |-> u, key |-> k] \in Working
  BY LoginKeyIssued DEF Issue

LEMMA IssueSessions ==
  ASSUME TypeInv, NEW w \in Workers, NEW u \in Users, NEW gone, Issue(w, u, gone)
  PROVE  /\ sessions' \in [Keys -> Users \cup {Nobody}]
         /\ \A k \in Keys : sessions'[k] \in {sessions[k], Nobody}
         /\ \A k \in Keys \cap gone : sessions'[k] = Nobody
<1>1. PICK ended :
        /\ gone \subseteq ended
        /\ sessions' = [k \in Keys |-> IF k \in ended THEN Nobody ELSE sessions[k]]
  BY DEF Issue
<1> QED BY <1>1 DEF TypeInv, TypeOK

\* The session of a login that was rolled back is still going to be saved.
LEMMA LostTouch ==
  ASSUME TypeInv, NEW w \in Workers, NEW u \in Users, NEW gone, IssueLost(w, u, gone)
  PROVE  /\ lastKey' \in 0 .. MaxKeys /\ lastKey <= lastKey'
         /\ \E k \in Keys :
              /\ k <= lastKey'
              /\ Continue(w, [at |-> "touch", user |-> u, key |-> k])
              /\ [at |-> "touch", user |-> u, key |-> k] \in Working
         /\ UNCHANGED <<row, sessions, lastPassword, known, unseen, races>>
  BY LoginKeyIssued DEF IssueLost

LEMMA TypeLost ==
  ASSUME TypeInv, NEW w \in Workers, NEW u \in Users, NEW gone, IssueLost(w, u, gone),
         lost \subseteq lost', lost' \subseteq Users, Given(u)'
  PROVE  TypeInv'
<1>1. PICK k \in Keys :
        /\ k <= lastKey'
        /\ Continue(w, [at |-> "touch", user |-> u, key |-> k])
        /\ [at |-> "touch", user |-> u, key |-> k] \in Working
  BY LostTouch
<1> DEFINE next == [at |-> "touch", user |-> u, key |-> k]
<1>2. IssuedStage(next)' /\ next \in Working /\ Continue(w, next)
  BY <1>1 DEF IssuedStage
<1> HIDE DEF next
<1>3. /\ lastKey \in Nat /\ lastKey' \in 0 .. MaxKeys /\ lastKey <= lastKey'
      /\ UNCHANGED <<row, sessions, lastPassword, known, unseen, behind, raced>>
  BY LostTouch DEF races, TypeInv, TypeOK
<1>4. \A v : Given(v) => Given(v)'
  BY <1>3 DEF Given, Exists
<1>5. \A j \in Keys : sessions'[j] # Nobody => j <= lastKey' /\ Given(sessions[j])'
  <2> SUFFICES ASSUME NEW j \in Keys, sessions'[j] # Nobody
               PROVE  j <= lastKey' /\ Given(sessions[j])'
    OBVIOUS
  <2>1. j <= lastKey /\ Given(sessions[j]) /\ sessions'[j] = sessions[j]
    BY <1>3 DEF TypeInv, TypeOK
  <2>2. j <= lastKey'
    BY <1>3, <2>1, BoundAssumption DEF Keys
  <2> QED BY <1>3, <1>4, <2>1, <2>2 DEF Given, Exists
<1>6. serving' \in [Workers -> Working \cup {Idle}]
  BY <1>2 DEF Continue, TypeInv, TypeOK
<1>7. TypeOK'
  BY <1>3, <1>5, <1>6 DEF TypeInv, TypeOK
<1>8. ASSUME NEW v \in Workers PROVE IssuedStage(serving[v])'
  <2>1. CASE v = w
    BY <1>2, <2>1 DEF Continue, TypeInv, TypeOK, IssuedStage
  <2>2. CASE v # w
    <3>1. serving[v] \in Working \cup {Idle} /\ IssuedStage(serving[v])
      BY DEF TypeInv, TypeOK
    <3>2. IssuedStage(serving[v]) => IssuedStage(serving[v])'
      <4>1. serving'[v] = serving[v]
        BY <1>2, <2>2 DEF Continue, TypeInv, TypeOK
      <4> QED BY <1>3, <1>4, <3>1, <4>1, IssuedKept DEF IssuedStage, Given, Exists
    <3> QED BY <3>1, <3>2
  <2> QED BY <2>1, <2>2
<1> QED BY <1>7, <1>8 DEF TypeInv

LEMMA TypeStep == TypeInv /\ [Next]_vars => TypeInv'
<1> SUFFICES ASSUME TypeInv, [Next]_vars PROVE TypeInv'
  OBVIOUS
<1> USE BoundAssumption
<1>0. /\ unseen \in [Workers -> SUBSET Keys]
      /\ behind \subseteq Workers /\ raced \in BOOLEAN
      /\ serving \in [Workers -> Working \cup {Idle}]
  BY DEF TypeInv, TypeOK
<1>i. Idle \in Working \cup {Idle} /\ IssuedStage(Idle)
  BY DEF IssuedStage, Idle
<1>1. ASSUME NEW w \in Workers, NEW e \in Addresses, CheckEmail(w, e)
      PROVE  TypeInv'
  <2> DEFINE next == [at |-> "insert", email |-> e]
  <2>1. next \in Working /\ IssuedStage(next)
    BY DEF Working, IssuedStage
  <2> QED BY <1>0, <1>1, <2>1, TypeContinue DEF CheckEmail, Reads
<1>2. ASSUME NEW w \in Workers, NEW e \in Addresses, CheckUpdate(w, e)
      PROVE  TypeInv'
  <2>1. serving[w] \in Copying
    BY <1>0, <1>2, Stages DEF CheckUpdate
  <2>2. (IF e = NoEmail THEN serving[w].copy.email ELSE e) \in Addresses
    BY <2>1 DEF Copying, Row
  <2> QED BY <1>2, <2>2, TypeEdit DEF CheckUpdate
<1>3. ASSUME NEW w \in Workers, ChangePassword(w)
      PROVE  TypeInv'
  <2>1. serving[w] \in Copying
    BY <1>0, <1>3, Stages DEF ChangePassword
  <2>2. serving[w].copy.email \in Addresses
    BY <2>1 DEF Copying, Row
  <2> QED BY <1>3, <2>2, TypeEdit DEF ChangePassword
<1>4. ASSUME NEW w \in Workers, NEW u \in Users, Insert(w, u)
      PROVE  TypeInv'
  <2>1. serving[w].email \in Addresses
    BY <1>0, <1>4, Stages DEF Insert
  <2>2. lastPassword' \in 0 .. MaxPasswords
    BY <1>4 DEF Insert, NewPassword, TypeInv, TypeOK
  <2>3. PICK r \in Row : r = [email |-> serving[w].email, password |-> lastPassword']
    BY <2>1, <2>2 DEF Row
  <2>4. PICK k \in Keys :
          /\ k <= lastKey'
          /\ Continue(w, [at |-> "welcome", user |-> u, key |-> k])
          /\ [at |-> "welcome", user |-> u, key |-> k] \in Working
    BY <1>4, IssueKey DEF Insert
  <2> DEFINE next == [at |-> "welcome", user |-> u, key |-> k]
  <2>5. Writes(w, u, r)
    BY <1>4, <2>3 DEF Insert
  <2>6. lastKey' \in 0 .. MaxKeys /\ lastKey <= lastKey'
    BY <1>4, IssueKey DEF Insert
  <2>7. row'[u] = r /\ r # NoRow
    BY <2>5 DEF Writes, Row, NoRow, Addresses, TypeInv, TypeOK
  <2>8. IssuedStage(next)'
    BY <2>4, <2>7 DEF IssuedStage, Given, Exists
  <2>9. known' \in [Users -> SUBSET (0 .. MaxPasswords)] /\ UNCHANGED <<lost, unseen>>
    BY <1>4, <2>2 DEF Insert, TypeInv, TypeOK
  <2> HIDE DEF next
  <2> QED BY <1>4, <2>2, <2>4, <2>5, <2>6, <2>8, <2>9, TypeWrite, IssueSessions DEF Insert, next
<1>5. ASSUME NEW w \in Workers, NEW u \in Users, Authenticate(w, u)
      PROVE  TypeInv'
  <2> DEFINE next == [at |-> "login", user |-> u, copy |-> row[u]]
  <2>1. row[u] \in Row
    BY <1>5 DEF Authenticate, Exists, TypeInv, TypeOK
  <2>2. next \in Working /\ IssuedStage(next)
    BY <1>5, <2>1 DEF Authenticate, Working, IssuedStage, Given
  <2> QED BY <1>0, <1>5, <2>2, TypeContinue DEF Authenticate, Reads
<1>6. ASSUME NEW w \in Workers, NEW u \in Users, FindUser(w, u)
      PROVE  TypeInv'
  <2> DEFINE next == [at |-> "reset", user |-> u, copy |-> row[u]]
  <2>1. row[u] \in Row
    BY <1>6 DEF FindUser, NoRow, TypeInv, TypeOK
  <2>2. next \in Working /\ IssuedStage(next)
    BY <2>1 DEF Working, IssuedStage
  <2> QED BY <1>0, <1>6, <2>2, TypeContinue DEF FindUser, Reads
<1>7. ASSUME NEW w \in Workers, NEW k \in Keys, Load(w, k)
      PROVE  TypeInv'
  <2> DEFINE next == [at |-> "edit", user |-> sessions[k], copy |-> row[sessions[k]]]
  <2>1. sessions[k] \in Users /\ row[sessions[k]] \in Row
    BY <1>7 DEF Load, Exists, TypeInv, TypeOK
  <2>2. next \in Working /\ IssuedStage(next)
    BY <2>1 DEF Working, IssuedStage
  <2> QED BY <1>0, <1>7, <2>2, TypeContinue DEF Load, Reads
<1>8. ASSUME NEW w \in Workers, NEW k \in 0 .. lastKey, SendMail(w, k)
      PROVE  TypeInv'
  <2> DEFINE s == serving[w]
             next == [at |-> "mailed", user |-> s.user, copy |-> s.copy,
                      owner |-> IF k = 0 THEN Nobody ELSE sessions[k], key |-> k]
  <2>1. s \in Copying
    BY <1>0, <1>8, Stages DEF SendMail
  <2>2. k \in Keys \cup {0} /\ (k # 0 => k \in Keys /\ sessions[k] \in Users \cup {Nobody})
    BY DEF Keys, TypeInv, TypeOK
  <2>3. next \in Working /\ IssuedStage(next)
    BY <2>1, <2>2 DEF Working, IssuedStage, Copying, TypeInv, TypeOK
  <2>4. s.copy.password \in 0 .. MaxPasswords /\ s.user \in Users
    BY <2>1 DEF Copying, Row
  <2>5. known' \in [Users -> SUBSET (0 .. MaxPasswords)]
    BY <1>8, <2>4 DEF SendMail, TypeInv, TypeOK
  <2>6. Continue(w, next) /\ UNCHANGED <<tables, counters, unseen, races>>
    BY <1>8 DEF SendMail
  <2>7. known' \in [Users -> SUBSET (0 .. MaxPasswords)] => TypeInv'
    <3> HIDE DEF next
    <3> QED BY <2>3, <2>6 DEF TypeInv, TypeOK, IssuedStage, Given, Exists, Continue, tables,
                             counters, races
  <2> QED BY <2>5, <2>7
<1>9. ASSUME NEW w \in Workers, FindSessions(w)
      PROVE  TypeInv'
  <2> DEFINE next == [at |-> "enter", user |-> serving[w].user, copy |-> serving[w].copy,
                      old |-> {k \in Keys : sessions[k] = serving[w].user}]
  <2>1. serving[w] \in Copying
    BY <1>0, <1>9, Stages DEF FindSessions
  <2>2. next \in Working /\ IssuedStage(next)
    BY <1>9, <2>1 DEF FindSessions, Working, IssuedStage, Copying, TypeInv
  <2> QED BY <1>0, <1>9, <2>2, TypeContinue DEF FindSessions, races
<1>10. ASSUME NEW w \in Workers, Enter(w)
       PROVE  TypeInv'
  <2> DEFINE s == serving[w]
  <2>1. s.user \in Users /\ s.copy \in Row
    BY <1>0, <1>10, Stages DEF Enter
  <2>2. PICK u \in Users, r \in Row : u = s.user /\ r = s.copy
    BY <2>1
  <2>3. PICK k \in Keys :
          /\ k <= lastKey'
          /\ Continue(w, [at |-> "welcome", user |-> u, key |-> k])
          /\ [at |-> "welcome", user |-> u, key |-> k] \in Working
    BY <1>10, <2>2, IssueKey DEF Enter
  <2> DEFINE next == [at |-> "welcome", user |-> u, key |-> k]
  <2>4. Writes(w, u, r)
    BY <1>10, <2>2 DEF Enter
  <2>5. lastKey' \in 0 .. MaxKeys /\ lastKey <= lastKey'
    BY <1>10, <2>1, IssueKey DEF Enter
  <2>6. row'[u] = r /\ r # NoRow
    BY <2>4 DEF Writes, Row, NoRow, Addresses, TypeInv, TypeOK
  <2>7. IssuedStage(next)'
    BY <2>3, <2>6 DEF IssuedStage, Given, Exists
  <2>8. /\ known' \in [Users -> SUBSET (0 .. MaxPasswords)] /\ UNCHANGED <<lost, unseen>>
        /\ lastPassword' \in 0 .. MaxPasswords
    BY <1>10 DEF Enter, TypeInv, TypeOK
  <2>9. /\ sessions' \in [Keys -> Users \cup {Nobody}]
        /\ \A j \in Keys : sessions'[j] \in {sessions[j], Nobody}
    BY <1>10, <2>1, IssueSessions DEF Enter
  <2> HIDE DEF next
  <2> QED BY <2>3, <2>4, <2>5, <2>7, <2>8, <2>9, TypeWrite DEF next
<1>11. ASSUME NEW w \in Workers, Write(w)
       PROVE  TypeInv'
  <2> DEFINE s == serving[w]
  <2>1. s \in Copying
    BY <1>0, <1>11, Stages DEF Write
  <2>2. /\ s.user \in Users /\ s.copy \in Row /\ s.copy.password \in 0 .. MaxPasswords
        /\ Writes(w, s.user, s.copy) /\ Continue(w, Idle) /\ IssuedStage(Idle)'
    BY <1>11, <2>1 DEF Write, Copying, Row, IssuedStage, Idle
  <2>3. /\ known' \in [Users -> SUBSET (0 .. MaxPasswords)]
        /\ UNCHANGED <<sessions, lost, counters, unseen>>
    BY <1>11, <2>2 DEF Write, TypeInv, TypeOK
  <2>4. /\ lastPassword' \in 0 .. MaxPasswords /\ lastKey' \in 0 .. MaxKeys
        /\ lastKey <= lastKey' /\ sessions' \in [Keys -> Users \cup {Nobody}]
        /\ \A k \in Keys : sessions'[k] \in {sessions[k], Nobody}
    BY <2>3 DEF TypeInv, TypeOK, counters
  <2> QED BY <1>i, <2>2, <2>3, <2>4, TypeWrite
<1>12. ASSUME NEW w \in Workers, SaveReset(w)
       PROVE  TypeInv'
  <2> DEFINE s == serving[w]
             next == [s EXCEPT !.at = "mail", !.copy.password = lastPassword']
  <2>1. s \in Copying
    BY <1>0, <1>12, Stages DEF SaveReset
  <2>2. lastPassword' \in 0 .. MaxPasswords
    BY <1>12 DEF SaveReset, NewPassword, TypeInv, TypeOK
  <2>3. next \in Copying /\ next.at = "mail"
    BY <2>1, <2>2 DEF Copying, Row
  <2>4. Continue(w, next) /\ UNCHANGED <<tables, lastKey, known, unseen, races>>
    BY <1>12 DEF SaveReset
  <2> QED BY <2>2, <2>3, <2>4, TypePassword
<1>13. ASSUME NEW w \in Workers, CommitReset(w)
       PROVE  TypeInv'
  <2> DEFINE s == serving[w]
  <2>1. s \in [at : {"mailed"}, user : Users, copy : Row,
               owner : Users \cup {Nobody}, key : Keys \cup {0}]
    BY <1>0, <1>13, Stages DEF CommitReset
  <2>2. Writes(w, s.user, s.copy) /\ UNCHANGED <<sessions, lost, counters, known, unseen>>
    BY <1>13 DEF CommitReset
  <2>3. /\ lastPassword' \in 0 .. MaxPasswords /\ lastKey' \in 0 .. MaxKeys
        /\ lastKey <= lastKey' /\ sessions' \in [Keys -> Users \cup {Nobody}]
        /\ \A k \in Keys : sessions'[k] \in {sessions[k], Nobody}
        /\ known' \in [Users -> SUBSET (0 .. MaxPasswords)]
    BY <2>2 DEF TypeInv, TypeOK, counters
  <2>4. CASE s.owner = Nobody
    <3>1. Continue(w, Idle) /\ IssuedStage(Idle)'
      BY <1>13, <2>4 DEF CommitReset, IssuedStage, Idle
    <3> QED BY <1>i, <2>1, <2>2, <2>3, <3>1, TypeWrite
  <2>5. CASE s.owner # Nobody
    <3>1. PICK o \in Users, k \in Keys :
            /\ o = s.owner /\ k = s.key /\ k <= lastKey /\ Given(o)
      BY <2>1, <2>5, <1>13 DEF CommitReset, TypeInv, IssuedStage
    <3> DEFINE next == [at |-> "touch", user |-> o, key |-> k]
    <3>2. Continue(w, next) /\ next \in Working
      BY <1>13, <2>5, <3>1 DEF CommitReset, Working
    <3>3. Given(o)' /\ lastKey' = lastKey
      BY <2>1, <2>2, <3>1, BoundAssumption
         DEF Writes, Given, Exists, NoRow, Row, Addresses, counters, TypeInv, TypeOK
    <3>4. IssuedStage(next)'
      BY <3>1, <3>3 DEF IssuedStage
    <3> HIDE DEF next
    <3> QED BY <2>1, <2>2, <2>3, <3>2, <3>4, TypeWrite
  <2> QED BY <2>4, <2>5
<1>14. ASSUME NEW w \in Workers, SaveSession(w)
       PROVE  TypeInv'
  <2> DEFINE s == serving[w]
  <2>1. s \in [at : {"welcome", "touch"}, user : Users, key : Keys]
    BY <1>0, <1>14, Stages DEF SaveSession
  <2>2. s.key <= lastKey /\ Given(s.user)
    BY <2>1 DEF TypeInv, IssuedStage
  <2>3. sessions' = [sessions EXCEPT ![s.key] = s.user] /\ UNCHANGED <<row, lost, counters, known, races>>
    BY <1>14 DEF SaveSession
  <2>4. unseen' \in [Workers -> SUBSET Keys]
    BY <1>0, <1>14, <2>1 DEF SaveSession
  <2>5. serving' = [serving EXCEPT ![w] = Idle]
    BY <1>14 DEF SaveSession, Continue
  <2>6. TypeOK'
    BY <2>1, <2>2, <2>3, <2>4, <2>5 DEF TypeInv, TypeOK, Given, Exists, counters, races
  <2>7. UNCHANGED <<row, lost, lastKey>>
    BY <2>3 DEF counters
  <2>8. ASSUME NEW v \in Workers PROVE IssuedStage(serving[v])'
    <3>1. CASE v = w
      BY <2>5, <3>1, <1>0 DEF IssuedStage, Idle
    <3>2. CASE v # w
      BY <1>0, <2>5, <2>7, <3>2 DEF TypeInv, IssuedStage, Given, Exists
    <3> QED BY <3>1, <3>2
  <2> QED BY <2>6, <2>8 DEF TypeInv
<1>15. ASSUME NEW w \in Workers, RollBack(w)
       PROVE  TypeInv'
  <2>1. unseen' \in [Workers -> SUBSET Keys]
    BY <1>0, <1>15 DEF RollBack
  <2> QED BY <1>0, <1>i, <1>15, <2>1, TypeContinue DEF RollBack, races
<1>16. ASSUME NEW k \in Keys, Logout(k)
       PROVE  TypeInv'
  <2>1. /\ sessions' \in [Keys -> Users \cup {Nobody}]
        /\ \A j \in Keys : sessions'[j] # Nobody => sessions'[j] = sessions[j]
    BY <1>16 DEF Logout, TypeInv, TypeOK
  <2>2. UNCHANGED <<row, lost, serving, counters, known, unseen, races>>
    BY <1>16 DEF Logout
  <2> QED BY <2>1, <2>2 DEF TypeInv, TypeOK, IssuedStage, Given, Exists, counters, races
<1>17. CASE UNCHANGED vars
  BY <1>17 DEF vars, tables, counters, races, TypeInv, TypeOK, IssuedStage, Given, Exists
<1>19. ASSUME NEW w \in Workers, NEW u \in Users, InsertFails(w, u)
       PROVE  TypeInv'
  <2>1. IssueLost(w, u, {}) /\ lost' = lost \cup {u}
    BY <1>19 DEF InsertFails
  <2>2. lost \subseteq lost' /\ lost' \subseteq Users /\ Given(u)'
    BY <2>1 DEF Given, TypeInv, TypeOK
  <2> QED BY <2>1, <2>2, TypeLost
<1>20. ASSUME NEW w \in Workers, EnterFails(w)
       PROVE  TypeInv'
  <2>1. /\ IssueLost(w, serving[w].user, serving[w].old) /\ UNCHANGED lost
        /\ serving[w].at = "enter"
    BY <1>20 DEF EnterFails
  <2>2. PICK u \in Users : u = serving[w].user
    BY <1>0, <2>1, Stages
  <2>3. Given(u)'
    BY <2>1, <2>2 DEF TypeInv, IssuedStage, IssueLost, Given, Exists
  <2> QED BY <2>1, <2>2, <2>3, TypeLost DEF TypeInv, TypeOK
<1>18. ASSUME NEW w \in Workers, Serve(w)
       PROVE  TypeInv'
  BY <1>1, <1>2, <1>3, <1>4, <1>5, <1>6, <1>7, <1>8, <1>9, <1>10, <1>11, <1>12, <1>13,
     <1>14, <1>15, <1>18, <1>19, <1>20 DEF Serve
<1> QED BY <1>16, <1>17, <1>18 DEF Next

LEMMA InitTypeInv == Init => TypeInv
<1> SUFFICES ASSUME Init PROVE TypeInv
  OBVIOUS
<1>1. TypeOK
  <2>1. row \in [Users -> Row \cup {NoRow}] /\ sessions \in [Keys -> Users \cup {Nobody}]
    BY DEF Init
  <2>2. \A k \in Keys : sessions[k] = Nobody
    BY DEF Init
  <2>3. lastPassword \in 0 .. MaxPasswords /\ lastKey \in 0 .. MaxKeys
    BY BoundAssumption DEF Init
  <2>4. /\ known \in [Users -> SUBSET (0 .. MaxPasswords)] /\ lost \subseteq Users
        /\ unseen \in [Workers -> SUBSET Keys]
        /\ serving \in [Workers -> Working \cup {Idle}]
        /\ behind \subseteq Workers /\ raced \in BOOLEAN
    BY DEF Init
  <2> QED BY <2>1, <2>2, <2>3, <2>4 DEF TypeOK
<1>2. \A w \in Workers : IssuedStage(serving[w])
  BY DEF Init, IssuedStage, Idle
<1> QED BY <1>1, <1>2 DEF TypeInv

\* Every session that exists, and every one that a worker is about to save, is of
\* an account that exists, or of one whose registration was rolled back.
THEOREM TypeCorrect == Spec => []TypeOK
<1>1. TypeInv => TypeOK
  BY DEF TypeInv
<1> QED BY <1>1, InitTypeInv, TypeStep, PTL DEF Spec

-----------------------------------------------------------------------------
(* Passwords. *)

\* A password that a worker has read, or has mailed, is known.
KnownStage(s) ==
  s.at \in {"login", "reset", "enter", "mailed"} =>
    s.copy.password \in known[s.user] \cup {Blank}
KnownInv == PasswordKnown /\ \A w \in Workers : KnownStage(serving[w])

\* What is known stays so.
LEMMA KnownKept ==
  ASSUME TypeInv, KnownInv, NEW w \in Workers, NEW s \in Working \cup {Idle},
         Continue(w, s), KnownStage(s)',
         \A u \in Users : known[u] \subseteq known'[u],
         \A u \in Users : row'[u].password \in known'[u] \cup {Blank}
  PROVE  KnownInv'
<1>1. ASSUME NEW v \in Workers PROVE KnownStage(serving[v])'
  <2>1. CASE v = w
    BY <2>1 DEF Continue, KnownStage, TypeInv, TypeOK
  <2>2. CASE v # w
    <3>1. serving'[v] = serving[v] /\ serving[v] \in Working \cup {Idle}
      BY <2>2 DEF Continue, TypeInv, TypeOK
    <3>2. serving[v].at \in {"login", "reset", "enter", "mailed"} => serving[v].user \in Users
      BY <3>1, Stages DEF Copying
    <3> QED BY <3>1, <3>2 DEF KnownInv, KnownStage
  <2> QED BY <2>1, <2>2
<1> QED BY <1>1 DEF KnownInv, PasswordKnown

LEMMA KnownStep == TypeInv /\ KnownInv /\ [Next]_vars => KnownInv'
<1> SUFFICES ASSUME TypeInv, KnownInv, [Next]_vars PROVE KnownInv'
  OBVIOUS
<1> USE BoundAssumption
<1>0. /\ serving \in [Workers -> Working \cup {Idle}]
      /\ row \in [Users -> Row \cup {NoRow}]
      /\ known \in [Users -> SUBSET (0 .. MaxPasswords)]
      /\ \A u \in Users : row[u].password \in known[u] \cup {Blank}
  BY DEF TypeInv, TypeOK, KnownInv, PasswordKnown
<1>1. ASSUME NEW w \in Workers, NEW s \in Working \cup {Idle}, Continue(w, s),
             KnownStage(s), UNCHANGED <<row, known>>
      PROVE  KnownInv'
  BY <1>0, <1>1, KnownKept DEF KnownStage
<1>2. ASSUME NEW w \in Workers, NEW e \in Addresses, CheckEmail(w, e)
      PROVE  KnownInv'
  <2>1. [at |-> "insert", email |-> e] \in Working /\ KnownStage([at |-> "insert", email |-> e])
    BY DEF Working, KnownStage
  <2> QED BY <1>1, <1>2, <2>1 DEF CheckEmail, tables
<1>3. ASSUME NEW w \in Workers, NEW e \in Addresses, serving[w].at = "edit", Edit(w, e)
      PROVE  KnownInv'
  <2>1. serving[w] \in Copying
    BY <1>0, <1>3, Stages
  <2>2. lastPassword' \in 0 .. MaxPasswords
    BY <1>3 DEF Edit, NewPassword, counters, TypeInv, TypeOK
  <2>3. PICK p \in 0 .. MaxPasswords :
          p = IF lastPassword' = lastPassword THEN Blank ELSE lastPassword'
    BY <2>2, BoundAssumption DEF Blank
  <2> DEFINE next == [at |-> "write", user |-> serving[w].user,
                      copy |-> [email |-> e, password |-> p]]
  <2>4. next \in Working /\ KnownStage(next)
    BY <2>1, <2>3 DEF Working, KnownStage, Copying, Row
  <2> QED BY <1>1, <1>3, <2>3, <2>4 DEF Edit, tables
<1>4. ASSUME NEW w \in Workers, NEW e \in Addresses, CheckUpdate(w, e)
      PROVE  KnownInv'
  <2>1. serving[w] \in Copying
    BY <1>0, <1>4, Stages DEF CheckUpdate
  <2>2. (IF e = NoEmail THEN serving[w].copy.email ELSE e) \in Addresses
    BY <2>1 DEF Copying, Row
  <2> QED BY <1>3, <1>4, <2>2 DEF CheckUpdate
<1>5. ASSUME NEW w \in Workers, ChangePassword(w)
      PROVE  KnownInv'
  <2>1. serving[w] \in Copying
    BY <1>0, <1>5, Stages DEF ChangePassword
  <2>2. serving[w].copy.email \in Addresses
    BY <2>1 DEF Copying, Row
  <2> QED BY <1>3, <1>5, <2>2 DEF ChangePassword
<1>6. ASSUME NEW w \in Workers, NEW u \in Users, Insert(w, u)
      PROVE  KnownInv'
  <2>1. PICK k \in Keys :
          /\ k <= lastKey'
          /\ Continue(w, [at |-> "welcome", user |-> u, key |-> k])
          /\ [at |-> "welcome", user |-> u, key |-> k] \in Working
    BY <1>6, IssueKey DEF Insert
  <2> DEFINE next == [at |-> "welcome", user |-> u, key |-> k]
  <2>2. KnownStage(next)'
    BY DEF KnownStage
  <2>3. known' = [known EXCEPT ![u] = @ \cup {lastPassword'}]
    BY <1>6 DEF Insert
  <2>4. row' = [row EXCEPT ![u] = [email |-> serving[w].email, password |-> lastPassword']]
    BY <1>6 DEF Insert, Writes
  <2>5. \A v \in Users : /\ known[v] \subseteq known'[v]
                        /\ row'[v].password \in known'[v] \cup {Blank}
    BY <1>0, <2>3, <2>4
  <2> HIDE DEF next
  <2> QED BY <2>1, <2>2, <2>5, KnownKept DEF next
<1>7. ASSUME NEW w \in Workers, NEW u \in Users, Authenticate(w, u) \/ FindUser(w, u)
      PROVE  KnownInv'
  <2>1. PICK at \in {"login", "reset"} :
          Continue(w, [at |-> at, user |-> u, copy |-> row[u]])
    BY <1>7 DEF Authenticate, FindUser
  <2> DEFINE next == [at |-> at, user |-> u, copy |-> row[u]]
  <2>2. row[u] \in Row /\ UNCHANGED <<row, known>>
    BY <1>0, <1>7 DEF Authenticate, FindUser, Exists, NoRow, tables
  <2>3. next \in Working /\ KnownStage(next)
    BY <1>0, <2>2 DEF Working, KnownStage
  <2> QED BY <1>1, <2>1, <2>2, <2>3
<1>8. ASSUME NEW w \in Workers, NEW k \in Keys, Load(w, k)
      PROVE  KnownInv'
  <2> DEFINE next == [at |-> "edit", user |-> sessions[k], copy |-> row[sessions[k]]]
  <2>1. sessions[k] \in Users /\ row[sessions[k]] \in Row
    BY <1>8 DEF Load, Exists, TypeInv, TypeOK
  <2>2. next \in Working /\ KnownStage(next)
    BY <2>1 DEF Working, KnownStage
  <2> QED BY <1>1, <1>8, <2>2 DEF Load, tables
<1>9. ASSUME NEW w \in Workers, NEW k \in 0 .. lastKey, SendMail(w, k)
      PROVE  KnownInv'
  <2> DEFINE s == serving[w]
  <2>1. s \in Copying
    BY <1>0, <1>9, Stages DEF SendMail
  <2>2. k \in Keys \cup {0} /\ (k # 0 => sessions[k] \in Users \cup {Nobody})
    BY DEF Keys, TypeInv, TypeOK
  <2>3. PICK o \in Users \cup {Nobody} : o = IF k = 0 THEN Nobody ELSE sessions[k]
    BY <2>2
  <2>4. PICK u \in Users, c \in Row : u = s.user /\ c = s.copy
    BY <2>1 DEF Copying
  <2> DEFINE next == [at |-> "mailed", user |-> u, copy |-> c, owner |-> o, key |-> k]
  <2>5. known' = [known EXCEPT ![u] = @ \cup {c.password}] /\ UNCHANGED row
    BY <1>9, <2>4 DEF SendMail, tables
  <2>6. Continue(w, next) /\ next \in Working
    BY <1>9, <2>2, <2>3, <2>4 DEF SendMail, Working
  <2>7. KnownStage(next)'
    BY <1>0, <2>5 DEF KnownStage
  <2>8. \A v \in Users : /\ known[v] \subseteq known'[v]
                        /\ row'[v].password \in known'[v] \cup {Blank}
    BY <1>0, <2>5
  <2> HIDE DEF next
  <2> QED BY <2>6, <2>7, <2>8, KnownKept
<1>10. ASSUME NEW w \in Workers, FindSessions(w)
       PROVE  KnownInv'
  <2> DEFINE next == [at |-> "enter", user |-> serving[w].user, copy |-> serving[w].copy,
                      old |-> {k \in Keys : sessions[k] = serving[w].user}]
  <2>1. serving[w] \in Copying /\ KnownStage(serving[w])
    BY <1>0, <1>10, Stages DEF FindSessions, KnownInv
  <2>2. next \in Working /\ KnownStage(next)
    BY <1>10, <2>1 DEF FindSessions, Working, KnownStage, Copying
  <2> QED BY <1>1, <1>10, <2>2 DEF FindSessions, tables
<1>11. ASSUME NEW w \in Workers, Enter(w)
       PROVE  KnownInv'
  <2> DEFINE s == serving[w]
  <2>1. s.user \in Users /\ s.copy.password \in known[s.user] \cup {Blank}
    BY <1>0, <1>11, Stages DEF Enter, KnownInv, KnownStage
  <2>2. PICK k \in Keys :
          /\ k <= lastKey'
          /\ Continue(w, [at |-> "welcome", user |-> s.user, key |-> k])
          /\ [at |-> "welcome", user |-> s.user, key |-> k] \in Working
    BY <1>11, <2>1, IssueKey DEF Enter
  <2>3. PICK next \in Working :
          next.at = "welcome" /\ Continue(w, next)
    BY <2>2
  <2>4. KnownStage(next)'
    BY <2>3 DEF KnownStage
  <2>5. known' = known /\ row' = [row EXCEPT ![s.user] = s.copy]
    BY <1>11 DEF Enter, Writes
  <2>6. \A v \in Users : /\ known[v] \subseteq known'[v]
                        /\ row'[v].password \in known'[v] \cup {Blank}
    BY <1>0, <2>1, <2>5
  <2> QED BY <2>3, <2>4, <2>6, KnownKept
<1>12. ASSUME NEW w \in Workers, Write(w)
       PROVE  KnownInv'
  <2> DEFINE s == serving[w]
  <2>1. s.user \in Users
    BY <1>0, <1>12, Stages DEF Write, Copying
  <2>2. /\ known' = [known EXCEPT ![s.user] = @ \cup {s.copy.password}]
        /\ row' = [row EXCEPT ![s.user] = s.copy] /\ Continue(w, Idle)
    BY <1>12 DEF Write, Writes
  <2>3. \A v \in Users : /\ known[v] \subseteq known'[v]
                        /\ row'[v].password \in known'[v] \cup {Blank}
    BY <1>0, <2>1, <2>2
  <2>4. KnownStage(Idle)'
    BY DEF KnownStage, Idle
  <2> QED BY <2>2, <2>3, <2>4, KnownKept
<1>13. ASSUME NEW w \in Workers, SaveReset(w)
       PROVE  KnownInv'
  <2>1. serving[w] \in Copying
    BY <1>0, <1>13, Stages DEF SaveReset
  <2>2. lastPassword' \in 0 .. MaxPasswords
    BY <1>13 DEF SaveReset, NewPassword, TypeInv, TypeOK
  <2>3. PICK next : next = [serving[w] EXCEPT !.at = "mail", !.copy.password = lastPassword']
    OBVIOUS
  <2>4. next \in Copying /\ next.at = "mail"
    BY <2>1, <2>2, <2>3 DEF Copying, Row
  <2>5. next \in Working /\ KnownStage(next)
    BY <2>4 DEF Working, Copying, KnownStage
  <2> QED BY <1>1, <1>13, <2>3, <2>5 DEF SaveReset, tables
<1>14. ASSUME NEW w \in Workers, CommitReset(w)
       PROVE  KnownInv'
  <2> DEFINE s == serving[w]
  <2>1. /\ s \in [at : {"mailed"}, user : Users, copy : Row,
                  owner : Users \cup {Nobody}, key : Keys \cup {0}]
        /\ s.copy.password \in known[s.user] \cup {Blank}
    BY <1>0, <1>14, Stages DEF CommitReset, KnownInv, KnownStage
  <2>2. known' = known /\ row' = [row EXCEPT ![s.user] = s.copy]
    BY <1>14 DEF CommitReset, Writes
  <2>3. \A v \in Users : /\ known[v] \subseteq known'[v]
                        /\ row'[v].password \in known'[v] \cup {Blank}
    BY <1>0, <2>1, <2>2
  <2>4. s.owner # Nobody => s.key \in Keys
    BY <1>14 DEF CommitReset, TypeInv, IssuedStage
  <2>5. PICK next \in Working \cup {Idle} :
          next.at \in {"idle", "touch"} /\ Continue(w, next)
    <3>1. CASE s.owner = Nobody
      BY <1>14, <3>1 DEF CommitReset, Idle
    <3>2. CASE s.owner # Nobody
      BY <1>14, <2>1, <2>4, <3>2 DEF CommitReset, Working
    <3> QED BY <3>1, <3>2
  <2>6. KnownStage(next)'
    BY <2>5 DEF KnownStage
  <2> QED BY <2>3, <2>5, <2>6, KnownKept
<1>15. ASSUME NEW w \in Workers, SaveSession(w) \/ RollBack(w)
       PROVE  KnownInv'
  <2>1. Continue(w, Idle) /\ UNCHANGED <<row, known>>
    BY <1>15 DEF SaveSession, RollBack, tables
  <2>2. KnownStage(Idle)
    BY DEF KnownStage, Idle
  <2> QED BY <1>1, <2>1, <2>2
<1>16. ASSUME NEW k \in Keys, Logout(k)
       PROVE  KnownInv'
  BY <1>16 DEF Logout, KnownInv, KnownStage, PasswordKnown
<1>17. CASE UNCHANGED vars
  BY <1>17 DEF vars, tables, KnownInv, KnownStage, PasswordKnown
<1>19. ASSUME NEW w \in Workers, NEW u \in Users, NEW gone, IssueLost(w, u, gone)
       PROVE  KnownInv'
  <2>1. PICK k \in Keys :
          /\ Continue(w, [at |-> "touch", user |-> u, key |-> k])
          /\ [at |-> "touch", user |-> u, key |-> k] \in Working
    BY <1>19, LostTouch
  <2>2. KnownStage([at |-> "touch", user |-> u, key |-> k])
    BY DEF KnownStage
  <2> QED BY <1>1, <1>19, <2>1, <2>2, LostTouch
<1>20. ASSUME NEW w \in Workers, EnterFails(w)
       PROVE  KnownInv'
  <2>1. serving[w].user \in Users
    BY <1>0, <1>20, Stages DEF EnterFails
  <2> QED BY <1>19, <1>20, <2>1 DEF EnterFails
<1>18. ASSUME NEW w \in Workers, Serve(w)
       PROVE  KnownInv'
  BY <1>2, <1>4, <1>5, <1>6, <1>7, <1>8, <1>9, <1>10, <1>11, <1>12, <1>13, <1>14,
     <1>15, <1>18, <1>19, <1>20 DEF Serve, InsertFails
<1> QED BY <1>16, <1>17, <1>18 DEF Next

\* A reset whose transaction fails after the mail, or before it, and a login that
\* saves a row it had read before a reset, leave no password that nobody knows.
THEOREM NoLostPassword == Spec => []PasswordKnown
<1>1. Init => KnownInv
  BY DEF Init, KnownInv, KnownStage, PasswordKnown, NoRow, Idle
<1>2. KnownInv => PasswordKnown
  BY DEF KnownInv
<1> QED BY <1>1, <1>2, InitTypeInv, TypeStep, KnownStep, PTL DEF Spec

-----------------------------------------------------------------------------
(* Sessions. *)

\* What a login is going to leave of the user's sessions was saved since it looked.
LoggedOut(w) ==
  LET s == serving[w] IN
  /\ s.at = "enter" =>
       \A k \in Keys : sessions[k] = s.user => k \in s.old \cup unseen[w]
  /\ s.at = "welcome" =>
       \A k \in Keys : sessions[k] = s.user => k \in unseen[w]
LoggedOutInv == \A w \in Workers : LoggedOut(w)

\* Sessions only end, and w alone does a step.
LEMMA LoggedOutKept ==
  ASSUME TypeInv, LoggedOutInv, NEW w \in Workers,
         serving' = [serving EXCEPT ![w] = serving'[w]],
         \A k \in Keys : sessions'[k] \in {sessions[k], Nobody},
         \A v \in Workers \ {w} : unseen'[v] = unseen[v],
         LoggedOut(w)'
  PROVE  LoggedOutInv'
<1> SUFFICES ASSUME NEW v \in Workers PROVE LoggedOut(v)'
  BY DEF LoggedOutInv
<1>1. CASE v = w
  BY <1>1
<1>2. CASE v # w
  <2>1. serving'[v] = serving[v] /\ unseen'[v] = unseen[v]
    BY <1>2 DEF TypeInv, TypeOK
  <2>2. serving[v].at \in {"enter", "welcome"} => serving[v].user \in Users
    BY Stages DEF TypeInv, TypeOK
  <2> QED BY <2>1, <2>2, BoundAssumption DEF LoggedOutInv, LoggedOut
<1> QED BY <1>1, <1>2

LEMMA LoggedOutStep == TypeInv /\ LoggedOutInv /\ [Next]_vars => LoggedOutInv'
<1> SUFFICES ASSUME TypeInv, LoggedOutInv, [Next]_vars PROVE LoggedOutInv'
  OBVIOUS
<1> USE BoundAssumption
<1>0. /\ serving \in [Workers -> Working \cup {Idle}]
      /\ unseen \in [Workers -> SUBSET Keys]
  BY DEF TypeInv, TypeOK
<1>1. ASSUME NEW w \in Workers, NEW s, Continue(w, s), s.at \notin {"enter", "welcome"},
             UNCHANGED sessions, \A v \in Workers \ {w} : unseen'[v] = unseen[v]
      PROVE  LoggedOutInv'
  <2>1. serving'[w] = s /\ serving' = [serving EXCEPT ![w] = serving'[w]]
    BY <1>0, <1>1 DEF Continue
  <2>2. LoggedOut(w)'
    BY <1>1, <2>1 DEF LoggedOut
  <2> QED BY <1>1, <2>1, <2>2, LoggedOutKept
<1>2. ASSUME NEW w \in Workers, NEW e, CheckEmail(w, e)
      PROVE  LoggedOutInv'
  BY <1>1, <1>2 DEF CheckEmail, tables
<1>3. ASSUME NEW w \in Workers, NEW e, Edit(w, e)
      PROVE  LoggedOutInv'
  BY <1>1, <1>3 DEF Edit, tables
<1>4. ASSUME NEW w \in Workers, NEW u \in Users, Insert(w, u)
      PROVE  LoggedOutInv'
  <2>1. \A k \in Keys : sessions[k] # u
    BY <1>4 DEF Insert, Given, TypeInv, TypeOK
  <2>2. \A k \in Keys : sessions'[k] \in {sessions[k], Nobody}
    BY <1>4, IssueSessions DEF Insert
  <2>3. PICK k \in Keys : Continue(w, [at |-> "welcome", user |-> u, key |-> k])
    BY <1>4, IssueKey DEF Insert
  <2>4. /\ serving'[w] = [at |-> "welcome", user |-> u, key |-> k]
        /\ serving' = [serving EXCEPT ![w] = serving'[w]]
    BY <1>0, <2>3 DEF Continue
  <2>5. LoggedOut(w)'
    BY <2>1, <2>2, <2>4 DEF LoggedOut
  <2> QED BY <1>4, <2>2, <2>4, <2>5, LoggedOutKept DEF Insert
<1>5. ASSUME NEW w \in Workers, NEW u \in Users, Authenticate(w, u) \/ FindUser(w, u)
      PROVE  LoggedOutInv'
  <2>1. PICK at \in {"login", "reset"} :
          Continue(w, [at |-> at, user |-> u, copy |-> row[u]])
    BY <1>5 DEF Authenticate, FindUser
  <2> QED BY <1>1, <1>5, <2>1 DEF Authenticate, FindUser, tables
<1>6. ASSUME NEW w \in Workers, NEW k \in Keys, Load(w, k)
      PROVE  LoggedOutInv'
  BY <1>1, <1>6 DEF Load, tables
<1>7. ASSUME NEW w \in Workers, NEW k, SendMail(w, k)
      PROVE  LoggedOutInv'
  BY <1>1, <1>7 DEF SendMail, tables
<1>8. ASSUME NEW w \in Workers, FindSessions(w)
      PROVE  LoggedOutInv'
  <2>1. /\ serving'[w] = [at |-> "enter", user |-> serving[w].user,
                         copy |-> serving[w].copy,
                         old |-> {k \in Keys : sessions[k] = serving[w].user}]
        /\ serving' = [serving EXCEPT ![w] = serving'[w]]
    BY <1>0, <1>8 DEF FindSessions, Continue
  <2>2. UNCHANGED <<sessions, unseen>>
    BY <1>8 DEF FindSessions, tables
  <2>3. LoggedOut(w)'
    BY <2>1, <2>2 DEF LoggedOut
  <2> QED BY <2>1, <2>2, <2>3, LoggedOutKept
<1>9. ASSUME NEW w \in Workers, Enter(w)
      PROVE  LoggedOutInv'
  <2> DEFINE s == serving[w]
  <2>1. s.user \in Users
    BY <1>0, <1>9, Stages DEF Enter
  <2>2. /\ \A k \in Keys : sessions'[k] \in {sessions[k], Nobody}
        /\ \A k \in Keys \cap s.old : sessions'[k] = Nobody
    BY <1>9, <2>1, IssueSessions DEF Enter
  <2>3. PICK k \in Keys : Continue(w, [at |-> "welcome", user |-> s.user, key |-> k])
    BY <1>9, <2>1, IssueKey DEF Enter
  <2>4. /\ serving'[w] = [at |-> "welcome", user |-> s.user, key |-> k]
        /\ serving' = [serving EXCEPT ![w] = serving'[w]]
    BY <1>0, <2>3 DEF Continue
  <2>5. \A j \in Keys : sessions'[j] = s.user => j \in unseen[w]
    BY <1>9, <2>1, <2>2 DEF Enter, LoggedOutInv, LoggedOut
  <2>6. unseen' = unseen
    BY <1>9 DEF Enter
  <2>7. LoggedOut(w)'
    BY <2>4, <2>5, <2>6 DEF LoggedOut
  <2> QED BY <2>2, <2>4, <2>6, <2>7, LoggedOutKept
<1>10. ASSUME NEW w \in Workers, Write(w)
       PROVE  LoggedOutInv'
  BY <1>1, <1>10 DEF Write, Idle
<1>11. ASSUME NEW w \in Workers, SaveReset(w)
       PROVE  LoggedOutInv'
  <2>1. serving[w] \in Copying
    BY <1>0, <1>11, Stages DEF SaveReset
  <2>2. [serving[w] EXCEPT !.at = "mail", !.copy.password = lastPassword'].at = "mail"
    BY <2>1 DEF Copying
  <2> QED BY <1>1, <1>11, <2>2 DEF SaveReset, tables
<1>12. ASSUME NEW w \in Workers, CommitReset(w)
       PROVE  LoggedOutInv'
  <2>1. UNCHANGED <<sessions, unseen>>
    BY <1>12 DEF CommitReset
  <2>2. PICK next : Continue(w, next) /\ next.at \in {"idle", "touch"}
    BY <1>12 DEF CommitReset, Idle
  <2> QED BY <1>1, <2>1, <2>2
<1>13. ASSUME NEW w \in Workers, SaveSession(w)
       PROVE  LoggedOutInv'
  <2> DEFINE s == serving[w]
  <2>1. s.user \in Users /\ s.key \in Keys
    BY <1>0, <1>13, Stages DEF SaveSession
  <2> SUFFICES ASSUME NEW v \in Workers PROVE LoggedOut(v)'
    BY DEF LoggedOutInv
  <2>2. serving' = [serving EXCEPT ![w] = Idle] /\ sessions' = [sessions EXCEPT ![s.key] = s.user]
    BY <1>13 DEF SaveSession, Continue
  <2>3. CASE v = w
    BY <1>0, <2>2, <2>3 DEF LoggedOut, Idle
  <2>4. CASE v # w
    <3>1. serving'[v] = serving[v]
      BY <1>0, <2>2, <2>4
    <3>2. serving[v].at \in {"enter", "welcome"} => unseen'[v] = unseen[v] \cup {s.key}
      BY <1>13, <2>4 DEF SaveSession
    <3>3. \A k \in Keys : k # s.key => sessions'[k] = sessions[k]
      BY <2>2 DEF TypeInv, TypeOK
    <3> QED BY <3>1, <3>2, <3>3 DEF LoggedOutInv, LoggedOut
  <2> QED BY <2>3, <2>4
<1>14. ASSUME NEW w \in Workers, RollBack(w)
       PROVE  LoggedOutInv'
  <2>1. \A v \in Workers \ {w} : unseen'[v] = unseen[v]
    BY <1>0, <1>14 DEF RollBack
  <2> QED BY <1>1, <1>14, <2>1 DEF RollBack, Idle, tables
<1>15. ASSUME NEW k \in Keys, Logout(k)
       PROVE  LoggedOutInv'
  <2> SUFFICES ASSUME NEW w \in Workers PROVE LoggedOut(w)'
    BY DEF LoggedOutInv
  <2>1. serving[w].at \in {"enter", "welcome"} => serving[w].user \in Users
    BY <1>0, Stages
  <2>2. \A j \in Keys : sessions'[j] \in {sessions[j], Nobody}
    BY <1>15 DEF Logout, TypeInv, TypeOK
  <2> QED BY <1>15, <2>1, <2>2 DEF Logout, LoggedOutInv, LoggedOut
<1>16. CASE UNCHANGED vars
  BY <1>16 DEF vars, tables, LoggedOutInv, LoggedOut
<1>18. ASSUME NEW w \in Workers, NEW u \in Users, NEW gone, IssueLost(w, u, gone)
       PROVE  LoggedOutInv'
  <2>1. PICK k \in Keys : Continue(w, [at |-> "touch", user |-> u, key |-> k])
    BY <1>18, LostTouch
  <2> QED BY <1>1, <1>18, <2>1, LostTouch
<1>19. ASSUME NEW w \in Workers, EnterFails(w)
       PROVE  LoggedOutInv'
  <2>1. serving[w].user \in Users
    BY <1>0, <1>19, Stages DEF EnterFails
  <2> QED BY <1>18, <1>19, <2>1 DEF EnterFails
<1>17. ASSUME NEW w \in Workers, Serve(w)
       PROVE  LoggedOutInv'
  BY <1>2, <1>3, <1>4, <1>5, <1>6, <1>7, <1>8, <1>9, <1>10, <1>11, <1>12, <1>13, <1>14,
     <1>17, <1>18, <1>19 DEF Serve, CheckUpdate, ChangePassword, InsertFails
<1> QED BY <1>15, <1>16, <1>17 DEF Next

\* With SINGLE_SESSION, a session of the user that survives a login was saved
\* between the look at the sessions and the end of the login.
THEOREM LoginEndsSessions == Spec => []OthersLoggedOut
<1>1. Init => LoggedOutInv
  BY DEF Init, LoggedOutInv, LoggedOut, Idle
<1>2. LoggedOutInv => OthersLoggedOut
  BY DEF LoggedOutInv, LoggedOut, OthersLoggedOut
<1> QED BY <1>1, <1>2, InitTypeInv, TypeStep, LoggedOutStep, PTL DEF Spec

-----------------------------------------------------------------------------
(* Addresses. *)

\* The address that a worker is going to write is free, if no row was written
\* since the worker read.
FreeStage(s) ==
  /\ s.at = "insert" => Free(s.email, Nobody)
  /\ s.at \in {"login", "edit", "write", "reset", "mail", "enter", "mailed"} =>
       Free(s.copy.email, s.user)
FreeInv ==
  ~raced => /\ \A u \in Users : Exists(u) => Free(row[u].email, u)
            /\ \A w \in Workers \ behind : FreeStage(serving[w])

LEMMA FreeContinue ==
  ASSUME TypeInv, FreeInv, NEW w \in Workers, NEW s, Continue(w, s), UNCHANGED <<row, raced>>,
         behind \subseteq behind' \cup {w},
         ~raced /\ w \notin behind' => FreeStage(s)
  PROVE  FreeInv'
<1> SUFFICES ASSUME ~raced' PROVE FreeInv'
  BY DEF FreeInv
<1>1. \A u \in Users : Exists(u)' => Free(row[u].email, u)'
  BY DEF FreeInv, Exists, Free
<1>2. ASSUME NEW v \in Workers, v \notin behind' PROVE FreeStage(serving[v])'
  <2>1. CASE v = w
    <3>1. serving'[v] = s
      BY <2>1 DEF Continue, TypeInv, TypeOK
    <3> QED BY <1>2, <2>1, <3>1 DEF FreeStage, Free
  <2>2. CASE v # w
    <3>1. serving'[v] = serving[v] /\ v \notin behind
      BY <1>2, <2>2 DEF Continue, TypeInv, TypeOK
    <3> QED BY <3>1 DEF FreeInv, FreeStage, Free
  <2> QED BY <2>1, <2>2
<1> QED BY <1>1, <1>2 DEF FreeInv

\* What is written by a worker that nobody overtook was free.
LEMMA FreeWrite ==
  ASSUME TypeInv, FreeInv, NEW w \in Workers, NEW u \in Users, NEW r \in Row,
         Writes(w, u, r),
         ~raced /\ w \notin behind => Free(r.email, u),
         serving'[w].at \in {"idle", "welcome", "touch"}
  PROVE  FreeInv'
<1> SUFFICES ASSUME ~raced' PROVE FreeInv'
  BY DEF FreeInv
<1>1. ~raced /\ Free(r.email, u) /\ row' = [row EXCEPT ![u] = r] /\ behind' = Workers \ {w}
  BY DEF Writes, TypeInv, TypeOK
<1>2. \A v \in Users : Exists(v) => Free(row[v].email, v)
  BY <1>1 DEF FreeInv
<1>3. row \in [Users -> Row \cup {NoRow}]
  BY DEF TypeInv, TypeOK
<1>4. ASSUME NEW v \in Users, Exists(v)' PROVE Free(row[v].email, v)'
  <2>1. CASE v = u
    BY <1>1, <1>3, <2>1 DEF Free
  <2>2. CASE v # u
    <3>1. row'[v] = row[v] /\ row'[u] = r
      BY <1>1, <1>3, <2>2
    <3>2. Free(row[v].email, v) /\ Exists(v)
      BY <1>2, <1>4, <3>1 DEF Exists
    <3>3. row[v].email = NoEmail \/ r.email # row[v].email
      BY <1>1, <2>2 DEF Free
    <3>4. \A x \in Users \ {v} : row[v].email = NoEmail \/ row'[x].email # row[v].email
      BY <1>1, <1>3, <3>1, <3>2, <3>3 DEF Free
    <3> QED BY <3>1, <3>4 DEF Free
  <2> QED BY <2>1, <2>2
<1>5. \A v \in Workers \ behind' : FreeStage(serving[v])'
  BY <1>1 DEF FreeStage
<1> QED BY <1>4, <1>5 DEF FreeInv

LEMMA FreeStep == TypeInv /\ FreeInv /\ [Next]_vars => FreeInv'
<1> SUFFICES ASSUME TypeInv, FreeInv, [Next]_vars PROVE FreeInv'
  OBVIOUS
<1> USE BoundAssumption
<1>0. /\ serving \in [Workers -> Working \cup {Idle}]
      /\ row \in [Users -> Row \cup {NoRow}]
  BY DEF TypeInv, TypeOK
<1>1. ASSUME NEW w \in Workers, NEW e \in Addresses, CheckEmail(w, e)
      PROVE  FreeInv'
  <2>1. FreeStage([at |-> "insert", email |-> e])
    BY <1>1 DEF CheckEmail, FreeStage
  <2> QED BY <1>1, <2>1, FreeContinue DEF CheckEmail, tables, Reads
<1>2. ASSUME NEW w \in Workers, NEW u \in Users, Authenticate(w, u) \/ FindUser(w, u)
      PROVE  FreeInv'
  <2>1. PICK at \in {"login", "reset"} :
          Continue(w, [at |-> at, user |-> u, copy |-> row[u]])
    BY <1>2 DEF Authenticate, FindUser
  <2>2. Exists(u) /\ UNCHANGED row /\ Reads(w)
    BY <1>2 DEF Authenticate, FindUser, Exists, NoRow, tables
  <2>3. ~raced => FreeStage([at |-> at, user |-> u, copy |-> row[u]])
    BY <2>2 DEF FreeInv, FreeStage
  <2> QED BY <2>1, <2>2, <2>3, FreeContinue DEF Reads
<1>3. ASSUME NEW w \in Workers, NEW k \in Keys, Load(w, k)
      PROVE  FreeInv'
  <2>1. sessions[k] \in Users /\ Exists(sessions[k])
    BY <1>3 DEF Load, TypeInv, TypeOK
  <2>2. ~raced => FreeStage([at |-> "edit", user |-> sessions[k], copy |-> row[sessions[k]]])
    BY <2>1 DEF FreeInv, FreeStage
  <2> QED BY <1>3, <2>2, FreeContinue DEF Load, tables, Reads
<1>4. ASSUME NEW w \in Workers, NEW e \in Addresses, Edit(w, e), Free(e, serving[w].user)
      PROVE  FreeInv'
  <2>1. PICK next : Continue(w, next) /\ next.at = "write" /\ next.user = serving[w].user
                      /\ next.copy.email = e
    BY <1>4 DEF Edit
  <2>2. FreeStage(next)
    BY <1>4, <2>1 DEF FreeStage
  <2> QED BY <1>4, <2>1, <2>2, FreeContinue DEF Edit, tables, races
<1>5. ASSUME NEW w \in Workers, Edit(w, serving[w].copy.email)
      PROVE  FreeInv'
  <2>1. serving[w].at = "edit"
    BY <1>5 DEF Edit
  <2>2. ~raced /\ w \notin behind => Free(serving[w].copy.email, serving[w].user)
    BY <2>1 DEF FreeInv, FreeStage
  <2>3. PICK next : Continue(w, next) /\ next.at = "write" /\ next.user = serving[w].user
                      /\ next.copy.email = serving[w].copy.email
    BY <1>5 DEF Edit
  <2>4. behind' = behind /\ UNCHANGED <<row, raced>>
    BY <1>5 DEF Edit, tables, races
  <2>5. ~raced /\ w \notin behind' => FreeStage(next)
    BY <2>2, <2>3, <2>4 DEF FreeStage
  <2> QED BY <2>3, <2>4, <2>5, FreeContinue
<1>6. ASSUME NEW w \in Workers, NEW e \in Addresses, CheckUpdate(w, e)
      PROVE  FreeInv'
  <2>1. CASE e = NoEmail
    BY <1>5, <1>6, <2>1 DEF CheckUpdate
  <2>2. CASE e # NoEmail
    BY <1>4, <1>6, <2>2 DEF CheckUpdate
  <2> QED BY <2>1, <2>2
<1>7. ASSUME NEW w \in Workers, NEW u \in Users, Insert(w, u)
      PROVE  FreeInv'
  <2>1. serving[w].email \in Addresses
    BY <1>0, <1>7, Stages DEF Insert
  <2>2. lastPassword' \in 0 .. MaxPasswords
    BY <1>7 DEF Insert, NewPassword, TypeInv, TypeOK
  <2>3. PICK r \in Row : r = [email |-> serving[w].email, password |-> lastPassword']
    BY <2>1, <2>2 DEF Row
  <2>4. ~raced /\ w \notin behind => Free(r.email, u)
    BY <1>7, <2>3 DEF Insert, FreeInv, FreeStage, Free
  <2>5. serving'[w].at = "welcome"
    BY <1>0, <1>7 DEF Insert, Issue, LogsIn, Continue
  <2> QED BY <1>7, <2>3, <2>4, <2>5, FreeWrite DEF Insert
<1>8. ASSUME NEW w \in Workers, FindSessions(w)
      PROVE  FreeInv'
  <2>1. PICK next : Continue(w, next) /\ next.at = "enter" /\ next.user = serving[w].user
                      /\ next.copy = serving[w].copy
    BY <1>8 DEF FindSessions
  <2>2. UNCHANGED <<row, behind, raced>>
    BY <1>8 DEF FindSessions, tables, races
  <2>3. ~raced /\ w \notin behind' => FreeStage(next)
    BY <1>8, <2>1, <2>2 DEF FindSessions, FreeInv, FreeStage
  <2> QED BY <2>1, <2>2, <2>3, FreeContinue
<1>9. ASSUME NEW w \in Workers, NEW k, SendMail(w, k)
      PROVE  FreeInv'
  <2>1. PICK next : Continue(w, next) /\ next.at = "mailed" /\ next.user = serving[w].user
                      /\ next.copy = serving[w].copy
    BY <1>9 DEF SendMail
  <2>2. UNCHANGED <<row, behind, raced>>
    BY <1>9 DEF SendMail, tables, races
  <2>3. ~raced /\ w \notin behind' => FreeStage(next)
    BY <1>9, <2>1, <2>2 DEF SendMail, FreeInv, FreeStage
  <2> QED BY <2>1, <2>2, <2>3, FreeContinue
<1>10. ASSUME NEW w \in Workers, SaveReset(w)
       PROVE  FreeInv'
  <2>1. serving[w] \in Copying
    BY <1>0, <1>10, Stages DEF SaveReset
  <2>2. PICK next : Continue(w, next) /\ next.at = "mail" /\ next.user = serving[w].user
                      /\ next.copy.email = serving[w].copy.email
    <3>1. PICK next : next = [serving[w] EXCEPT !.at = "mail", !.copy.password = lastPassword']
      OBVIOUS
    <3>2. /\ next.at = "mail" /\ next.user = serving[w].user
          /\ next.copy = [serving[w].copy EXCEPT !.password = lastPassword']
      BY <2>1, <3>1 DEF Copying
    <3>3. serving[w].copy \in Row
      BY <2>1 DEF Copying
    <3>4. next.copy.email = serving[w].copy.email
      BY <3>2, <3>3 DEF Row
    <3> QED BY <1>10, <3>1, <3>2, <3>4 DEF SaveReset
  <2>3. UNCHANGED <<row, behind, raced>>
    BY <1>10 DEF SaveReset, tables, races
  <2>4. ~raced /\ w \notin behind' => FreeStage(next)
    BY <1>10, <2>2, <2>3 DEF SaveReset, FreeInv, FreeStage
  <2> QED BY <2>2, <2>3, <2>4, FreeContinue
<1>11. ASSUME NEW w \in Workers, Enter(w) \/ Write(w) \/ CommitReset(w)
       PROVE  FreeInv'
  <2> DEFINE s == serving[w]
  <2>1. s.at \in {"enter", "write", "mailed"} /\ Writes(w, s.user, s.copy)
    BY <1>11 DEF Enter, Write, CommitReset
  <2>2. s.user \in Users /\ s.copy \in Row
    BY <1>0, <2>1, Stages DEF Copying
  <2>3. ~raced /\ w \notin behind => Free(s.copy.email, s.user)
    BY <2>1 DEF FreeInv, FreeStage
  <2>4. serving'[w].at \in {"idle", "welcome", "touch"}
    BY <1>0, <1>11 DEF Enter, Write, CommitReset, Issue, LogsIn, Continue, Idle
  <2> QED BY <2>1, <2>2, <2>3, <2>4, FreeWrite
<1>12. ASSUME NEW w \in Workers, SaveSession(w) \/ RollBack(w)
       PROVE  FreeInv'
  <2>1. Continue(w, Idle) /\ UNCHANGED <<row, behind, raced>>
    BY <1>12 DEF SaveSession, RollBack, tables, races
  <2>2. FreeStage(Idle)
    BY DEF FreeStage, Idle
  <2> QED BY <2>1, <2>2, FreeContinue
<1>13. ASSUME NEW k \in Keys, Logout(k)
       PROVE  FreeInv'
  BY <1>13 DEF Logout, races, FreeInv, FreeStage, Free, Exists
<1>14. CASE UNCHANGED vars
  BY <1>14 DEF vars, tables, races, FreeInv, FreeStage, Free, Exists
<1>16. ASSUME NEW w \in Workers, NEW u, NEW gone, IssueLost(w, u, gone)
       PROVE  FreeInv'
  <2>1. PICK next : Continue(w, next) /\ next.at = "touch"
    BY <1>16 DEF IssueLost, LogsIn
  <2> QED BY <1>16, <2>1, FreeContinue DEF IssueLost, races, FreeStage
<1>15. ASSUME NEW w \in Workers, Serve(w)
       PROVE  FreeInv'
  BY <1>1, <1>2, <1>3, <1>5, <1>6, <1>7, <1>8, <1>9, <1>10, <1>11, <1>12, <1>15, <1>16
     DEF Serve, ChangePassword, InsertFails, EnterFails
<1> QED BY <1>13, <1>14, <1>15 DEF Next

\* No two accounts come to share an address while no request writes a row over
\* another one's that it has not read.
THEOREM SharedAddressNeedsRace == Spec => []AddressesUnique
<1>1. Init => FreeInv
  BY DEF Init, FreeInv, FreeStage, Exists, Idle
<1>2. TypeInv /\ FreeInv => AddressesUnique
  BY BoundAssumption DEF TypeInv, TypeOK, FreeInv, Free, Exists, NoRow, AddressesUnique
<1> QED BY <1>1, <1>2, InitTypeInv, TypeStep, FreeStep, PTL DEF Spec

-----------------------------------------------------------------------------
(* Accounts nobody can log in to. *)

\* What is written by a login or a reset is a password.
FilledStage(s) ==
  s.at \in {"login", "enter", "mail", "mailed"} => s.copy.password # Blank
FilledInv == \A w \in Workers : FilledStage(serving[w])

\* Only the saving of an update that gave no password makes a password blank.
BlankByUpdate ==
  [][\A u \in Users : row[u].password # Blank /\ row'[u].password = Blank =>
       \E w \in Workers : Write(w) /\ serving[w].user = u]_vars

LEMMA FilledContinue ==
  ASSUME TypeOK, FilledInv, NEW w \in Workers, NEW s, Continue(w, s), FilledStage(s)
  PROVE  FilledInv'
  BY DEF FilledInv, FilledStage, Continue, TypeOK

LEMMA FilledStep == TypeInv /\ FilledInv /\ [Next]_vars => FilledInv'
<1> SUFFICES ASSUME TypeInv, FilledInv, [Next]_vars PROVE FilledInv'
  OBVIOUS
<1> USE BoundAssumption
<1>0. TypeOK /\ serving \in [Workers -> Working \cup {Idle}]
  BY DEF TypeInv, TypeOK
<1>1. ASSUME NEW w \in Workers, NEW s, Continue(w, s),
             s.at \notin {"login", "enter", "mail", "mailed"}
      PROVE  FilledInv'
  BY <1>0, <1>1, FilledContinue DEF FilledStage
<1>2. ASSUME NEW w \in Workers, NEW e \in Addresses, CheckEmail(w, e)
      PROVE  FilledInv'
  BY <1>1, <1>2 DEF CheckEmail
<1>3. ASSUME NEW w \in Workers, NEW e, Edit(w, e)
      PROVE  FilledInv'
  BY <1>1, <1>3 DEF Edit
<1>4. ASSUME NEW w \in Workers, NEW u, NEW gone, Issue(w, u, gone)
      PROVE  FilledInv'
  BY <1>1, <1>4 DEF Issue, LogsIn
<1>5. ASSUME NEW w \in Workers, NEW u \in Users, Authenticate(w, u)
      PROVE  FilledInv'
  <2>1. FilledStage([at |-> "login", user |-> u, copy |-> row[u]])
    BY <1>5 DEF Authenticate, FilledStage
  <2> QED BY <1>0, <1>5, <2>1, FilledContinue DEF Authenticate
<1>6. ASSUME NEW w \in Workers, NEW u \in Users, FindUser(w, u)
      PROVE  FilledInv'
  BY <1>1, <1>6 DEF FindUser
<1>7. ASSUME NEW w \in Workers, NEW k \in Keys, Load(w, k)
      PROVE  FilledInv'
  BY <1>1, <1>7 DEF Load
<1>8. ASSUME NEW w \in Workers, NEW k \in 0 .. lastKey, SendMail(w, k)
      PROVE  FilledInv'
  <2> DEFINE next == [at |-> "mailed", user |-> serving[w].user, copy |-> serving[w].copy,
                      owner |-> IF k = 0 THEN Nobody ELSE sessions[k], key |-> k]
  <2>1. next.copy.password # Blank
    BY <1>8 DEF SendMail, FilledInv, FilledStage
  <2>2. Continue(w, next)
    BY <1>8 DEF SendMail
  <2> HIDE DEF next
  <2> QED BY <1>0, <2>1, <2>2, FilledContinue DEF FilledStage
<1>9. ASSUME NEW w \in Workers, FindSessions(w)
      PROVE  FilledInv'
  <2> DEFINE next == [at |-> "enter", user |-> serving[w].user, copy |-> serving[w].copy,
                      old |-> {k \in Keys : sessions[k] = serving[w].user}]
  <2>1. next.copy.password # Blank
    BY <1>9 DEF FindSessions, FilledInv, FilledStage
  <2>2. Continue(w, next)
    BY <1>9 DEF FindSessions
  <2> HIDE DEF next
  <2> QED BY <1>0, <2>1, <2>2, FilledContinue DEF FilledStage
<1>10. ASSUME NEW w \in Workers, SaveReset(w)
       PROVE  FilledInv'
  <2> DEFINE next == [serving[w] EXCEPT !.at = "mail", !.copy.password = lastPassword']
  <2>1. serving[w] \in Copying
    BY <1>0, <1>10, Stages DEF SaveReset
  <2>2. next.copy = [serving[w].copy EXCEPT !.password = lastPassword']
    BY <2>1 DEF Copying
  <2>3. serving[w].copy \in Row /\ lastPassword' \in Nat \ {0}
    BY <1>0, <1>10, <2>1 DEF Copying, SaveReset, NewPassword, TypeOK
  <2>4. next.copy.password # Blank
    BY <2>2, <2>3 DEF Row, Blank
  <2>5. Continue(w, next)
    BY <1>10 DEF SaveReset
  <2> HIDE DEF next
  <2> QED BY <1>0, <2>4, <2>5, FilledContinue DEF FilledStage
<1>11. ASSUME NEW w \in Workers, Write(w) \/ SaveSession(w) \/ RollBack(w)
       PROVE  FilledInv'
  <2>1. Continue(w, Idle)
    BY <1>11 DEF Write, SaveSession, RollBack
  <2> QED BY <1>1, <2>1 DEF Idle
<1>12. ASSUME NEW w \in Workers, CommitReset(w)
       PROVE  FilledInv'
  <2>1. PICK next : Continue(w, next) /\ next.at \in {"idle", "touch"}
    BY <1>12 DEF CommitReset, Idle
  <2> QED BY <1>1, <2>1
<1>13. ASSUME NEW k \in Keys, Logout(k)
       PROVE  FilledInv'
  BY <1>13 DEF Logout, FilledInv
<1>14. CASE UNCHANGED vars
  BY <1>14 DEF vars, FilledInv
<1>16. ASSUME NEW w \in Workers, NEW u, NEW gone, IssueLost(w, u, gone)
       PROVE  FilledInv'
  BY <1>1, <1>16 DEF IssueLost, LogsIn
<1>15. ASSUME NEW w \in Workers, Serve(w)
       PROVE  FilledInv'
  BY <1>2, <1>3, <1>4, <1>5, <1>6, <1>7, <1>8, <1>9, <1>10, <1>11, <1>12, <1>15,
     <1>16 DEF Serve, CheckUpdate, ChangePassword, Insert, Enter, InsertFails, EnterFails
<1> QED BY <1>13, <1>14, <1>15 DEF Next

\* The one way to PasswordKept being violated: a login that writes back the row it had
\* read, a reset and a registration always leave a password, whatever the workers do.
THEOREM BlankNeedsUpdate == Spec => BlankByUpdate
<1> USE BoundAssumption
<1>1. Init => FilledInv
  BY DEF Init, FilledInv, FilledStage, Idle
<1>2. ASSUME TypeInv, FilledInv, [Next]_vars, NEW u \in Users,
             row[u].password # Blank, row'[u].password = Blank
      PROVE  \E w \in Workers : Write(w) /\ serving[w].user = u
  <2>1. row' # row /\ row \in [Users -> Row \cup {NoRow}]
    BY <1>2 DEF TypeInv, TypeOK
  <2>2. PICK w \in Workers :
          (\E v \in Users : Insert(w, v)) \/ Enter(w) \/ Write(w) \/ CommitReset(w)
    BY <1>2, <2>1 DEF Next, Serve, vars, tables, CheckEmail, CheckUpdate, ChangePassword,
       Edit, Authenticate, FindUser, Load, SendMail, FindSessions, SaveReset, SaveSession,
       RollBack, Logout, InsertFails, EnterFails, IssueLost
  <2>3. ASSUME NEW v \in Users, NEW r, Writes(w, v, r)
        PROVE  v = u /\ r.password = Blank
    BY <1>2, <2>1, <2>3 DEF Writes
  <2>4. ~(\E v \in Users : Insert(w, v))
    <3> SUFFICES ASSUME NEW v \in Users, Insert(w, v) PROVE FALSE
      OBVIOUS
    <3>1. lastPassword' \in Nat \ {0}
      BY <1>2 DEF Insert, NewPassword, TypeInv, TypeOK
    <3> QED BY <2>3, <3>1 DEF Insert, Blank
  <2>5. serving[w].at \in {"enter", "mailed", "write"} =>
          serving[w].user \in Users /\ FilledStage(serving[w])
    BY <1>2, Stages DEF TypeInv, TypeOK, FilledInv, Copying
  <2>6. ~Enter(w) /\ ~CommitReset(w)
    BY <2>3, <2>5 DEF Enter, CommitReset, FilledStage
  <2> QED BY <2>2, <2>3, <2>4, <2>5, <2>6 DEF Write
<1>3. TypeInv /\ FilledInv /\ [Next]_vars =>
        [\A u \in Users : row[u].password # Blank /\ row'[u].password = Blank =>
           \E w \in Workers : Write(w) /\ serving[w].user = u]_vars
  BY <1>2
<1> QED BY <1>1, <1>3, InitTypeInv, TypeStep, FilledStep, PTL DEF Spec, BlankByUpdate
=============================================================================
