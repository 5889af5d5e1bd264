\* Two clients on one node that starts and stops, two messages, one fault, which
\* may be the node's crash.
SPECIFICATION FairSpec
CONSTANTS
  s1 = s1
  s2 = s2
  n1 = n1
  Frameworks = {"fastapi", "nest", "spring"}
  Nodes = {n1}
  Sockets = {s1, s2}
  NodeOf <- TwoSockets
  MaxPublished = 2
  MaxFaults = 1
INVARIANTS TypeOK MembersGetMessages ChannelOrder AtMostOnce RoomsMatchEndpoints
PROPERTIES KeepsChannel MessagesAreHandled StopsInTheEnd
\* The clients gone and the messages spent, nothing happens any more.
CHECK_DEADLOCK FALSE
