\* Two clients of one node and nothing that fails: a member misses a message.
SPECIFICATION Spec
CONSTANTS
  s1 = s1
  s2 = s2
  n1 = n1
  Frameworks = {"fastapi"}
  Nodes = {n1}
  Sockets = {s1, s2}
  NodeOf <- TwoSockets
  MaxPublished = 1
  MaxFaults = 0
INVARIANTS EveryMemberGetsMessages
CHECK_DEADLOCK FALSE
