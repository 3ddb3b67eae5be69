SPECIFICATION DeadlineFairSpec
CONSTANTS
  w1 = w1
  w2 = w2
  Waiter <- Waiters
  MaxSets = 4
INVARIANTS NoDoubleClose DeadlineExact
PROPERTY TimeoutWakes
CHECK_DEADLOCK FALSE
