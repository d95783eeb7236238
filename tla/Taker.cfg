SPECIFICATION FairSpec
CONSTANTS
  Ids = {i1, i2}
  MaxPlayers = 2
  MaxFrames = 2
  StreamCap = 1
CHECK_DEADLOCK FALSE
INVARIANTS Reachable NoGap
PROPERTIES TakerEnds HandlersEnd
