\* The breakers that let go of the circuit during the call.
SPECIFICATION Spec
CONSTANTS
  Frameworks = {"fastapi", "nest"}
  Callers = {c1, c2}
  FailureThreshold = 2
  RecoveryTimeout = 3
  MaxLatency = 2
  MaxSkew = 0
  MaxCount = 5
INVARIANTS OneProbe
