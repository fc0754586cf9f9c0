SPECIFICATION FairSpec
CONSTANTS
  s1 = s1
  s2 = s2
  s3 = s3
  Sessions = {s1, s2, s3}
  Backlog = 2
  MaxInterrupts = 3
  NoSession = NoSession
CHECK_DEADLOCK FALSE
INVARIANTS
  TypeOK
  NoneCutByOne
  CleanupMissesNone
PROPERTIES
  StopsUnlessIdle
  RequestsReleased
