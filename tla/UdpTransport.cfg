SPECIFICATION FairSpec
CONSTANTS
  q1 = q1
  q2 = q2
  q3 = q3
  None = None
  Query <- QuerySet
  Oversize = {q3}
  IdSpace = 3
  MaxConn = 2
INVARIANTS OneLiveConn WaiterRegistered AnswerMatches CallbackOwned SharedCause
PROPERTIES CallReturns LoopEnds
CHECK_DEADLOCK FALSE
