SPECIFICATION HostsSpec
CONSTANTS
  a1 = a1
  a2 = a2
  bad = bad
  Addr = {a1, a2}
  BadAddr = bad
  Names = {"h.", "g."}
  Canonical <- CanonicalNames
  Texts <- FileTexts
  cacheMaxAge = 2
  MaxChange = 3
  MaxClock = 4
INVARIANTS HostsCurrent HostsFresh
