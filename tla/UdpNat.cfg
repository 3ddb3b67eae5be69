SPECIFICATION Spec
CONSTANTS
  p1 = p1
  p2 = p2
  p3 = p3
  s1 = s1
  s2 = s2
  Packet <- Packets
  Source = {s1, s2}
  SourceOf <- TwoSources
  Capacity = 1
  MaxConn = 3
SYMMETRY SymmetryOfTwo
INVARIANTS OrphanOnlyByRace CloseComplete HandlerTakesOver
CHECK_DEADLOCK FALSE
