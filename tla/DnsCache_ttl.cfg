SPECIFICATION Spec
CONSTANTS
  c1 = c1
  c2 = c2
  c3 = c3
  qa = qa
  qb = qb
  None = None
  Failed = Failed
  Question <- Questions
  Caller <- Callers
  Asks <- AllAsks
  Edns <- AllEdns
  Hash <- OwnHash
  Upstream <- Answer
  MinTTL = 0
  MaxTTL = 4
  Second = 2
  MaxTime = 2
INVARIANT ServedForTTL
CHECK_DEADLOCK FALSE
