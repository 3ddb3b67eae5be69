SPECIFICATION FairSpec
CONSTANTS
  w1 = w1
  w2 = w2
  w3 = w3
  r1 = r1
  r2 = r2
  None = None
  Write <- Writes
  Read <- Reads
INVARIANTS DialledOnce NoNilConn LeakOnlyByOverlap
PROPERTY Released
CHECK_DEADLOCK FALSE
