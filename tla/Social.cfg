\* Callbacks of overlapping requests, three kinds of network, accounts that exist
\* and accounts made on the way.
SPECIFICATION Spec
CONSTANTS
  Networks = {twitter, facebook, gowalla}
  OAuth1 = {twitter}
  Timed = {gowalla}
  Profiles = {p1, p2, p3}
  Members = {p1}
  Sessions = {s1}
  Workers = {w1, w2}
  MaxTokens = 2
  MaxCallbacks = 3
  Nobody = Nobody
INVARIANTS
  TypeOK
  DuplicatesOnlyByRace
  PermissionOfAsker
  SessionsOfEndedTransactions
SYMMETRY Symmetry
\* Tokens and callbacks are bounded: the system stops when they are used up.
CHECK_DEADLOCK FALSE
