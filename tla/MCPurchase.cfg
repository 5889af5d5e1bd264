\* Safe purchases only, each critical section shorter than the TTL.
SPECIFICATION FairSpec
CONSTANTS
  r1 = r1
  r2 = r2
  r3 = r3
  n1 = n1
  n2 = n2
  None = None
  Frameworks = {"fastapi", "nest", "spring"}
  Nodes = {n1, n2}
  Requests = {r1, r2}
  NodeOf <- TwoBuyers
  Routes = {"safe"}
  Payloads <- Orders
  Stocks = {3}
  MaxRetries = 2
  TTL = 2
  HoldBound = 1
  LiveSetup = FALSE
  MaxSetups = 1
  MaxFaults = 1
INVARIANTS TypeOK MutualExclusion StockConserved RepliesAreHonest
CHECK_DEADLOCK FALSE
PROPERTIES PurchasesOnlyTake EveryPurchaseAnswered OrphanLockExpires Linearizable
