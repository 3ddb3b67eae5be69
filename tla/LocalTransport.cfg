SPECIFICATION FairSpec
CONSTANTS
  q1 = q1
  q2 = q2
  a1 = a1
  a2 = a2
  a3 = a3
  a4 = a4
  home = home
  Server = {a1, a2, a3, a4}
  BadServer = BadServer
  None = None
  Call = {q1, q2}
  Racing = {q1}
  Domain <- DomainOf
  Files <- FileTexts
  defaultNS <- NS
  DefaultSearch <- NoSearch
  Suffix <- Suffixes
  Root <- RootSuffix
  MaxServers = 3
  MaxNdots = 3
  MaxName = 10
  MaxJob = 2
  MaxVersion = 3
  MaxTime = 3
INVARIANT ConfigCurrent
PROPERTIES ConfigForward CallSettles
CHECK_DEADLOCK FALSE
