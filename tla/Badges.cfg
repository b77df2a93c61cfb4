\* Two threads of a process, a badge that is won once and one that is not.
SPECIFICATION Spec
CONSTANTS
  Users = {u1, u2}
  Badge = {once, often}
  OneTime = {once}
  Threads = {t1, t2}
  server = server
  Process <- OneProcess
  MaxAwards = 3
  None = None
INVARIANTS
  TypeOK
  AwardedTwiceOnlyByRace
  AnnouncedExactly
SYMMETRY Symmetry
