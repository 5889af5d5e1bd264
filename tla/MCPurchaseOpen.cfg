\* Unlocked purchases, slow holders and a stock reset at any moment.
SPECIFICATION Spec
CONSTANTS
  r1 = r1
  r2 = r2
  r3 = r3
  n1 = n1
  n2 = n2
  None = None
  Frameworks = {"fastapi", "nest", "spring"}
  Nodes = {n1, n2}
  Requests = {r1, r2, r3}
  NodeOf <- ThreeBuyers
  Routes = {"safe", "unsafe"}
  Payloads = {1, 2}
  Stocks = {3}
  MaxRetries = 1
  TTL = 1
  HoldBound = 2
  LiveSetup = TRUE
  MaxSetups = 1
  MaxFaults = 1
INVARIANTS NoUnitVanishes OneSalePerFault
PROPERTIES OnlyOwnerReleases
CHECK_DEADLOCK FALSE
