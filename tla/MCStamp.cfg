\* 64 microseconds fit the header, a day has 40: the time uses both parts.
SPECIFICATION Spec
CONSTANTS
  High = 2
  Day = 40
  Steps = {9, 20}
  Settings <- MCSettings
  MaxClock = 69
  MaxInFlight = 1
  SomeIDs <- MCIDs
CHECK_DEADLOCK FALSE
INVARIANTS  RightTime PlausibleTime
