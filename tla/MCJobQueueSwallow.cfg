\* NestJS and Spring answer "accepted and enqueued" when XADD failed.
SPECIFICATION Spec
CONSTANTS
  Frameworks = {"nest", "spring"}
  Jobs = {j1, j2}
  Workers = {w1, w2}
  MaxFaults = 1
INVARIANTS AcceptedIsQueued
CHECK_DEADLOCK FALSE
