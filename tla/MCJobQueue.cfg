\* Two jobs, two workers, one thing that goes wrong: a worker always survives.
SPECIFICATION FairSpec
CONSTANTS
  Frameworks = {"fastapi", "nest", "spring"}
  Jobs = {j1, j2}
  Workers = {w1, w2}
  MaxFaults = 1
INVARIANTS TypeOK HeldOnce FastApiQueuesAccepted NothingLostWithoutFault OneLossPerFault
PROPERTIES DeliversAtMostOnce AcknowledgedIsSettled SettledStays JobsFinish
\* Every job done, the workers poll in vain.
CHECK_DEADLOCK FALSE
