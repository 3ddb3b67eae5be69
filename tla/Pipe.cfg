SPECIFICATION FairSpec
CONSTANTS
  w1 = w1
  w2 = w2
  r1 = r1
  r2 = r2
  None = None
  Write <- Writes
  Read <- Reads
  MaxLen = 2
  MaxRefresh = 1
INVARIANTS WrittenTogether CountExact
PROPERTIES CloseReleases ExpiryReleases
CHECK_DEADLOCK FALSE
