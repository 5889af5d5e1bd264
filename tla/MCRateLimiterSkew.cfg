\* Two clocks a tick apart, every script at once.
SPECIFICATION Spec
CONSTANTS
  Requests = {r1, r2, r3, r4}
  Limit = 2
  Window = 4
  TicksPerSecond = 2
  SlowBy = 0
  FastBy = 1
  MaxDelay = 0
  MaxFaults = 0
  MaxTime = 7
SYMMETRY Symmetry
INVARIANTS RateExact
CHECK_DEADLOCK FALSE
