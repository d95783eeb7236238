SPECIFICATION RingSpec
CONSTANTS
  Keys <- MCTicks
  Data <- MCData
  Types <- MCTypes
  MaxTick = 4
  Size = 4
CHECK_DEADLOCK FALSE
INVARIANTS EffectsFollow
PROPERTIES WaitingIsKept RingImplementsMap
CONSTRAINTS MCStore MCSent
