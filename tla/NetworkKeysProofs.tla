------------------------- MODULE NetworkKeysProofs --------------------------
(***************************************************************************)
(* Theorems about NetworkKeys for any networks, keys and number of forms.  *)
(***************************************************************************)
EXTENDS NetworkKeys, TLAPS

\* A form shown since the row was last saved holds the row's text, or one that is
\* encrypted once, its editor having typed a key.
Fresh(f) == f.seen = saves[f.network]
FormInv ==
  \A e \in Editors : LET f == editing[e] IN
    f.at # "closed" =>
      /\ f.seen <= saves[f.network]
      /\ Fresh(f) => \/ f.text = keys[f.network]
                     \/ f.at = "update" /\ Readable(f.text)

-----------------------------------------------------------------------------
LEMMA TypeStep == TypeOK /\ [Next]_vars => TypeOK'
<1> SUFFICES ASSUME TypeOK, [Next]_vars PROVE TypeOK'
  OBVIOUS
<1> USE SaveAssumption
<1>1. ASSUME NEW n \in Networks, NEW k \in Secrets, AddNetwork(n, k)
      PROVE  TypeOK'
  <2>1. Encrypt(Plain(k)) \in Text
    BY DEF Encrypt, Plain, Text
  <2> QED BY <1>1, <2>1 DEF AddNetwork, SaveRow, TypeOK
<1>2. ASSUME NEW e \in Editors, NEW n \in Networks, ShowForm(e, n)
      PROVE  TypeOK'
  BY <1>2 DEF ShowForm, Exists, Form, TypeOK
<1>3. ASSUME NEW e \in Editors, PostForm(e, Secrets)
      PROVE  TypeOK'
  <2>1. editing[e] \in Form /\ UNCHANGED <<keys, saves>>
    BY <1>3 DEF PostForm, TypeOK, Closed
  <2>2. PICK t \in {editing[e].text} \cup {Plain(k) : k \in Secrets} :
          editing' = [editing EXCEPT ![e] = [editing[e] EXCEPT
            !.at = "update",
            !.text = IF IsDirty(editing[e].network, t) THEN Encrypt(t) ELSE t]]
    BY <1>3 DEF PostForm
  <2>3. t \in Text /\ Encrypt(t) \in Text
    BY <2>1, <2>2 DEF Form, Plain, Text, Encrypt
  <2> QED BY <2>1, <2>2, <2>3 DEF TypeOK, Form
<1>4. ASSUME NEW e \in Editors, UpdateRow(e)
      PROVE  TypeOK'
  BY <1>4 DEF UpdateRow, SaveRow, TypeOK, Form, Closed
<1>5. CASE UNCHANGED vars
  BY <1>5 DEF vars, TypeOK
<1> QED BY <1>1, <1>2, <1>3, <1>4, <1>5 DEF Next

\* Every state of the system is typed.
THEOREM TypeCorrect == Spec => []TypeOK
<1>1. Init => TypeOK
  BY SaveAssumption DEF Init, TypeOK
<1> QED BY <1>1, TypeStep, PTL DEF Spec

-----------------------------------------------------------------------------
LEMMA FormStep ==
  ASSUME TypeOK, FormInv, [Next]_vars
  PROVE  FormInv'
<1> USE SaveAssumption
<1>1. ASSUME NEW n \in Networks, NEW k \in Secrets, AddNetwork(n, k)
      PROVE  FormInv'
  BY <1>1 DEF AddNetwork, SaveRow, TypeOK, FormInv, Fresh, Form, Closed
<1>2. ASSUME NEW e \in Editors, NEW n \in Networks, ShowForm(e, n)
      PROVE  FormInv'
  BY <1>2 DEF ShowForm, TypeOK, FormInv, Fresh
<1>3. ASSUME NEW e \in Editors, PostForm(e, Secrets)
      PROVE  FormInv'
  <2> DEFINE f == editing[e]
  <2>1. f \in Form /\ f.at = "shown" /\ UNCHANGED <<keys, saves>>
    BY <1>3 DEF PostForm, TypeOK, Closed
  <2>2. PICK t \in {f.text} \cup {Plain(k) : k \in Secrets} :
          editing' = [editing EXCEPT ![e] = [f EXCEPT
            !.at = "update",
            !.text = IF IsDirty(f.network, t) THEN Encrypt(t) ELSE t]]
    BY <1>3 DEF PostForm
  <2>3. f.seen <= saves[f.network] /\ (Fresh(f) => f.text = keys[f.network])
    BY <2>1 DEF FormInv
  <2>4. t # f.text => Readable(Encrypt(t))
    BY <2>2 DEF Plain, Encrypt, Readable
  <2>5. IsDirty(f.network, t) <=> t # keys[f.network]
    BY DEF IsDirty
  <2> QED BY <2>1, <2>2, <2>3, <2>4, <2>5 DEF FormInv, Fresh, Form, TypeOK
<1>4. ASSUME NEW e \in Editors, UpdateRow(e)
      PROVE  FormInv'
  BY <1>4 DEF UpdateRow, SaveRow, TypeOK, FormInv, Fresh, Form, Closed
<1>5. CASE UNCHANGED vars
  BY <1>5 DEF vars, FormInv, Fresh
<1> QED BY <1>1, <1>2, <1>3, <1>4, <1>5 DEF Next

\* A key becomes unreadable only by a form shown before the row was last saved.
THEOREM UnreadableNeedsStaleForm == Spec => UnreadableByStaleForm
<1> DEFINE Stale(n) == \E e \in Editors : /\ editing[e].at = "update"
                                          /\ editing'[e] = Closed
                                          /\ editing[e].network = n
                                          /\ editing[e].seen < saves[n]
           Harmed(n) == keys'[n] # keys[n] /\ ~Readable(keys'[n])
<1>1. Init => FormInv
  BY DEF Init, FormInv, Closed
<1>2. TypeOK /\ FormInv /\ [Next]_vars => FormInv'
  BY FormStep
<1>3. ASSUME TypeOK, FormInv, [Next]_vars, NEW n \in Networks, Harmed(n)
      PROVE  Stale(n)
  <2>1. PICK e \in Editors : UpdateRow(e)
    <3>1. ASSUME NEW m \in Networks, NEW k \in Secrets, AddNetwork(m, k)
          PROVE  FALSE
      BY <1>3, <3>1 DEF AddNetwork, SaveRow, TypeOK, Encrypt, Plain, Readable
    <3> QED BY <1>3, <3>1 DEF Next, ShowForm, PostForm, vars
  <2> DEFINE f == editing[e]
  <2>2. f \in Form /\ f.at = "update" /\ editing'[e] = Closed
          /\ keys' = [keys EXCEPT ![f.network] = f.text]
    <3>1. /\ f.at = "update" /\ keys' = [keys EXCEPT ![f.network] = f.text]
          /\ editing' = [editing EXCEPT ![e] = Closed]
      BY <2>1 DEF UpdateRow, SaveRow
    <3>2. f \in Form \cup {Closed} /\ editing'[e] = Closed
      BY <1>3, <3>1 DEF TypeOK
    <3>3. f # Closed
      BY <3>1 DEF Closed
    <3> QED BY <3>1, <3>2, <3>3
  <2>3. f.network = n /\ f.text # keys[n] /\ ~Readable(f.text)
    BY <1>3, <2>2 DEF TypeOK, Form
  <2>4. f.seen <= saves[n] /\ ~Fresh(f)
    BY <1>3, <2>2, <2>3 DEF FormInv
  <2>5. f.seen < saves[n]
    BY <1>3, <2>2, <2>3, <2>4 DEF Fresh, Form, TypeOK
  <2> QED BY <2>2, <2>3, <2>5
<1>4. TypeOK /\ FormInv /\ [Next]_vars => [\A n \in Networks : Harmed(n) => Stale(n)]_vars
  BY <1>3
<1> QED BY <1>1, <1>2, <1>4, TypeCorrect, PTL DEF Spec, UnreadableByStaleForm
=============================================================================
