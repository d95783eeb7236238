SPECIFICATION Spec
CONSTANTS
  Boxes <- MCBoxes
  Positions <- MCPositions
  Ranges <- MCRanges
  MaxLayers = 2
  Nil = Nil
  Clone = Clone
\* The program may have panicked.
CHECK_DEADLOCK FALSE
INVARIANTS
  CachesNear
