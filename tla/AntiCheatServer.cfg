SPECIFICATION FairSpec
CONSTANTS
  Conns = {c1, c2, c3}
  Error = Error
  IncCap = 1
CHECK_DEADLOCK FALSE
INVARIANTS OnlyRacedStayOpen
PROPERTIES EveryoneReturns
