SPECIFICATION FairSpec
CONSTANTS
  Talkers = {t1, t2}
  MaxFrames = 3
INVARIANTS
  SslSafeUntilStop
  OneConnection
  StopFlagLast
  NoStaleUsers
  GivesUpForCause
  SentOnce
PROPERTIES
  TeardownCompletes
  TimeoutReconnects
