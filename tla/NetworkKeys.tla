---------------------------- MODULE NetworkKeys ----------------------------
(***************************************************************************)
(* The rows of SocialNetwork (apps/social/models.py): each holds the       *)
(* application's keys of a network, encrypted by save(), and is edited in  *)
(* Django's admin site.  save() encrypts a key when isDirty (db_utils.py)  *)
(* finds that it differs from the row in the database at that moment; the  *)
(* admin's form shows the ciphertext and posts it back with the rest.      *)
(*                                                                         *)
(* One key stands for the three of a row (api_key, app_secret, app_id),    *)
(* which save() treats alike and independently of each other.  The cipher  *)
(* is deterministic (AES in ECB mode with one key, encryption.py:55), so   *)
(* that a text is known by the secret it was made from and by how often    *)
(* it was encrypted.                                                       *)
(***************************************************************************)
EXTENDS Naturals

CONSTANTS
  Networks,   \* rows of SocialNetwork
  Secrets,    \* keys a network gives to the application
  Editors,    \* forms of the admin site open at a time
  MaxSaves,   \* bound: times a row is saved
  NoKey       \* the key of a network which has no row yet

ASSUME SaveAssumption == MaxSaves \in Nat

VARIABLES
  keys,       \* the key each row holds
  saves,      \* history: how often each row was saved
  editing     \* the forms

vars == <<keys, saves, editing>>

Text == [secret : Secrets, level : Nat]
Plain(k) == [secret |-> k, level |-> 0]
Encrypt(t) == [t EXCEPT !.level = @ + 1]
Readable(t) == t.level = 1   \* decryptData yields a secret of the network

Exists(n) == keys[n] # NoKey

\* `seen' is history: how often the row had been saved when the form was shown.
Closed == [at |-> "closed"]
Form == [at : {"shown", "update"}, network : Networks, text : Text, seen : Nat]

TypeOK ==
  /\ keys \in [Networks -> Text \cup {NoKey}]
  /\ saves \in [Networks -> 0 .. MaxSaves]
  /\ editing \in [Editors -> Form \cup {Closed}]

Init ==
  /\ keys = [n \in Networks |-> NoKey]
  /\ saves = [n \in Networks |-> 0]
  /\ editing = [e \in Editors |-> Closed]

SaveRow(n, t) ==
  /\ saves[n] < MaxSaves
  /\ keys' = [keys EXCEPT ![n] = t]
  /\ saves' = [saves EXCEPT ![n] = @ + 1]

-----------------------------------------------------------------------------
\* save() of an instance without id: the keys typed into an empty form.
AddNetwork(n, k) ==
  /\ ~Exists(n)
  /\ SaveRow(n, Encrypt(Plain(k)))
  /\ UNCHANGED editing

\* Faulty variant: a form of a row that does not exist.
ShowFormOfNone(e, n) ==
  /\ editing[e] = Closed
  /\ editing' = [editing EXCEPT
       ![e] = [at |-> "shown", network |-> n, text |-> keys[n], seen |-> saves[n]]]
  /\ UNCHANGED <<keys, saves>>

\* The admin's change form of a row, with the ciphertext.
ShowForm(e, n) ==
  /\ editing[e] = Closed /\ Exists(n)
  /\ editing' = [editing EXCEPT
       ![e] = [at |-> "shown", network |-> n, text |-> keys[n], seen |-> saves[n]]]
  /\ UNCHANGED <<keys, saves>>

\* Faulty variant: a text is encrypted whenever it is saved.
IsDirtyAlways(n, t) == TRUE

\* isDirty: the posted text is compared with the row as it is now.
IsDirty(n, t) == keys[n] # t

\* save() of the posted form up to its UPDATE: the key was left alone, another
\* field having been edited, or replaced by a secret in plain text.
PostForm(e, typed) ==
  LET f == editing[e] IN
  /\ f.at = "shown"
  /\ \E t \in {f.text} \cup {Plain(k) : k \in typed} :
       editing' = [editing EXCEPT
         ![e] = [f EXCEPT !.at = "update",
                          !.text = IF IsDirty(f.network, t) THEN Encrypt(t) ELSE t]]
  /\ UNCHANGED <<keys, saves>>

\* The UPDATE of every field of the row, and COMMIT.
UpdateRow(e) ==
  LET f == editing[e] IN
  /\ f.at = "update"
  /\ SaveRow(f.network, f.text)
  /\ editing' = [editing EXCEPT ![e] = Closed]

Next ==
  \/ \E n \in Networks, k \in Secrets : AddNetwork(n, k)
  \/ \E e \in Editors, n \in Networks : ShowForm(e, n)
  \/ \E e \in Editors : PostForm(e, Secrets) \/ UpdateRow(e)

Spec == Init /\ [][Next]_vars

-----------------------------------------------------------------------------
(* Properties *)

\* `This field is encrypted' (models.py:16-18): once, so that getCredentials can
\* read it.  isDirty answers yes also for a key that its form left alone, when
\* another form replaced the key meanwhile, and the ciphertext is encrypted
\* again.  It takes two forms: a row gets another text that cannot be read only
\* from a form shown before the row was last saved.
UnreadableByStaleForm ==
  [][\A n \in Networks :
       keys'[n] # keys[n] /\ ~Readable(keys'[n])
         => \E e \in Editors : /\ editing[e].at = "update"
                               /\ editing'[e] = Closed
                               /\ editing[e].network = n
                               /\ editing[e].seen < saves[n]]_vars
=============================================================================
