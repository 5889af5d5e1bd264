\* Clocks up to a tick ahead, scripts up to a tick late.
SPECIFICATION Spec
CONSTANTS
  Requests = {r1, r2, r3, r4}
  Limit = 2
  Window = 4
  TicksPerSecond = 2
  SlowBy = 0
  FastBy = 1
  MaxDelay = 1
  MaxFaults = 1
  MaxTime = 7
SYMMETRY Symmetry
INVARIANTS TypeOK RateBounded
PROPERTIES DenialsJustified
CHECK_DEADLOCK FALSE
