\* Three forms on the rows of two networks.
SPECIFICATION Spec
CONSTANTS
  Networks = {twitter, facebook}
  Secrets = {k1, k2}
  Editors = {e1, e2, e3}
  MaxSaves = 4
  NoKey = NoKey
INVARIANTS
  TypeOK
PROPERTIES
  UnreadableByStaleForm
SYMMETRY Symmetry
\* Saves are bounded: the system stops when they are used up.
CHECK_DEADLOCK FALSE
