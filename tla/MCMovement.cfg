SPECIFICATION Spec
CONSTANTS
  W = 3
  PlayerJumpCooldown = 2
  Slice = 2
  MaxV = 3
  Side = 2
  StepHeight = 1
  Scenes <- MCScenes
  Velocities <- MCVelocities
INVARIANTS
  SneaksOnGround StaysOnGround ClearUnlessStepped
PROPERTIES
  FirstJumpAfterARound SlowsDown
