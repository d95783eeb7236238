SPECIFICATION LinkSpec
CONSTANTS
  Sessions = {s1,s2}
  Nobody = Nobody
  ShouldRedial = TRUE
  Retries = 1
  MaxConns = 2
  MaxData = 1
  MaxInFlight = 1
SYMMETRY MCSymmetry
CHECK_DEADLOCK FALSE
INVARIANTS
  IdTable MisattributionNeedsGhost OrphanNeedsGhost Mirror NobodyForgotten DownMeansDialing
