\* Three workers on the groups of two users.
SPECIFICATION Spec
CONSTANTS
  Users = {u1, u2}
  Names = {n1, n2}
  Workers = {w1, w2, w3}
  MaxRequests = 0
  MaxGroups = 3
INVARIANTS
  GroupNamesUnique
PROPERTIES
  ServesAtOnce
SYMMETRY Symmetry
\* Ids are bounded: the system stops when they are used up.
CHECK_DEADLOCK FALSE
