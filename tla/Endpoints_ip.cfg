SPECIFICATION EndpointsSpec
CONSTANTS
  MaxAddr = 0
  MaxAnswer = 1
INVARIANT DialsAddresses
CHECK_DEADLOCK FALSE
