SPECIFICATION EndpointsSpec
CONSTANTS
  MaxAddr = 3
  MaxAnswer = 2
INVARIANTS FallbackOnce ErrorMeansAllFailed NameTried FamilyKept
PROPERTIES RaceSpec LosersClosed CallReturns ExchangeSettles
CHECK_DEADLOCK FALSE
