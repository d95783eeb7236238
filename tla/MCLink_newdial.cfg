SPECIFICATION LinkSpec
CONSTANTS
  Sessions = {s1}
  Nobody = Nobody
  ShouldRedial = TRUE
  Retries = 0
  MaxConns = 2
  MaxData = 1
  MaxInFlight = 1
CHECK_DEADLOCK FALSE
INVARIANTS
  NewDialFirst
