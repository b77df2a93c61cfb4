\* A live stream whose process dies once and restarts on the same path.
SPECIFICATION Spec
CONSTANTS
  ActiveLimit = 2
  STALE_TO_KEEP = 4
  DeleteInactive = TRUE
  MaxSegments = 8
  MaxFailures = 1
  MaxRestarts = 1
INVARIANTS
  TypeOK
  GraceWindow
  SequenceNamesFirst
  OldIndexReplaced
  DiskBounded
  M3u8FollowsM3u
PROPERTIES
  ViewerMovesForward
\* The stream ends: after finish() nothing more has to happen.
CHECK_DEADLOCK FALSE
