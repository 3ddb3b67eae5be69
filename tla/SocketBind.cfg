SPECIFICATION Spec
CONSTANTS
  Name = {"eth", "wlan"}
  s1 = s1
  s2 = s2
  Socket = {s1, s2}
  Asks <- AllAsks
  MaxChange = 4
INVARIANT BoundToNamed
PROPERTY BindReturns
CHECK_DEADLOCK FALSE
