\* The answers of the NestJS endpoint.
SPECIFICATION Spec
CONSTANTS
  r1 = r1
  r2 = r2
  r3 = r3
  n1 = n1
  n2 = n2
  None = None
  Frameworks = {"nest"}
  Nodes = {n1, n2}
  Requests = {r1, r2}
  NodeOf <- TwoBuyers
  Routes = {"safe"}
  Payloads = {1, 2}
  Stocks = {3}
  MaxRetries = 2
  TTL = 2
  HoldBound = 1
  LiveSetup = FALSE
  MaxSetups = 1
  MaxFaults = 1
INVARIANTS BusyMeansNotSold
CHECK_DEADLOCK FALSE
