\* The indexer implements LivePlaylist while fewer operations fail than stale
\* segments are kept and the process lives; finish publishes the end.
SPECIFICATION FairSpec
CONSTANTS
  ActiveLimit = 2
  STALE_TO_KEEP = 4
  DeleteInactive = TRUE
  MaxSegments = 8
  MaxFailures = 3
  MaxRestarts = 0
INVARIANTS
  IndexServable
PROPERTIES
  LiveStream
  EndListPublished
\* The stream ends: after finish() nothing more has to happen.
CHECK_DEADLOCK FALSE
