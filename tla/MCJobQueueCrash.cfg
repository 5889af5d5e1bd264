\* One worker crash or failed command strands an accepted job for ever.
SPECIFICATION FairSpec
CONSTANTS
  Frameworks = {"fastapi"}
  Jobs = {j1, j2}
  Workers = {w1, w2}
  MaxFaults = 1
PROPERTIES AcceptedJobsFinish
CHECK_DEADLOCK FALSE
