\* Two workers on the requests and friendships of two users.
SPECIFICATION Spec
CONSTANTS
  Users = {u1, u2}
  Names = {}
  Workers = {w1, w2}
  MaxRequests = 3
  MaxGroups = 0
INVARIANTS
  TypeOK
  OneRequestPerPair
  DuplicatesOnlyByRace
  FriendsWereAsked
PROPERTIES
  ServesAtOnce
SYMMETRY Symmetry
\* Ids are bounded: the system stops when they are used up.
CHECK_DEADLOCK FALSE
