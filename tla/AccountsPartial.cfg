\* One account: the updates that leave fields out.
SPECIFICATION Spec
CONSTANTS
  Users = {u1}
  Emails = {e1}
  NoEmail = NoEmail
  Workers = {w1}
  MaxPasswords = 3
  MaxKeys = 2
  Nobody = Nobody
INVARIANT PasswordKept
SYMMETRY Symmetry
