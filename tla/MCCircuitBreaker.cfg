\* All three breakers, calls quicker than the recovery timeout less the skew.
SPECIFICATION FairSpec
CONSTANTS
  Frameworks = {"fastapi", "nest", "spring"}
  Callers = {c1, c2, c3}
  FailureThreshold = 2
  RecoveryTimeout = 4
  MaxLatency = 2
  MaxSkew = 1
  MaxCount = 5
INVARIANTS TypeOK CountMatchesState
PROPERTIES OpensAfterStreak FreshProbeDecides Recovers CutsOff
