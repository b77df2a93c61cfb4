\* active_limit = 0 with the default delete_inactive_segments.
SPECIFICATION Spec
CONSTANTS
  ActiveLimit = 0
  STALE_TO_KEEP = 4
  DeleteInactive = TRUE
  MaxSegments = 6
  MaxFailures = 0
  MaxRestarts = 0
PROPERTIES
  DeletedAfterDelisted
\* The stream ends: after finish() nothing more has to happen.
CHECK_DEADLOCK FALSE
