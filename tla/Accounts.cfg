\* Two accounts, one address, requests by two workers.
SPECIFICATION Spec
CONSTANTS
  Users = {u1, u2}
  Emails = {e1}
  NoEmail = NoEmail
  Workers = {w1, w2}
  MaxPasswords = 2
  MaxKeys = 3
  Nobody = Nobody
INVARIANTS
  TypeOK
  PasswordKnown
  OthersLoggedOut
  AddressesUnique
SYMMETRY Symmetry
