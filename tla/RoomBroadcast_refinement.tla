---------------------- MODULE RoomBroadcast_refinement ----------------------
(***************************************************************************)
(* The room broadcast implements Channel, for any number of nodes,         *)
(* clients, publications and faults.  Every step is one of the channel:    *)
(* sending is handing out, a broadcast that is broken off or clashes is    *)
(* given up, a lost subscription is a cut, and whatever is lost otherwise  *)
(* was on its way to a client that is not there.                           *)
(***************************************************************************)
EXTENDS RoomBroadcast_proofs

\* What is on its way, message by message.
Way(s, m) == \/ m \in Elements(inbox[NodeOf[s]])
             \/ \E c \in CastsOf(NodeOf[s]) : c.msg = m /\ (s \in c.left \/ pc[s] = "new")

LEMMA WayIs ==
  ASSUME NEW s, NEW m
  PROVE  (m \in OnTheWay(s) <=> Way(s, m)) /\ (m \in OnTheWay(s)' <=> Way(s, m)')
BY DEF OnTheWay, Way

\* Where nothing changes that a client's messages are read from.
LEMMA WayKept ==
  ASSUME NEW s, inbox'[NodeOf[s]] = inbox[NodeOf[s]],
         CastsOf(NodeOf[s])' = CastsOf(NodeOf[s]), pc'[s] = "new" <=> pc[s] = "new"
  PROVE  OnTheWay(s)' = OnTheWay(s)
BY DEF OnTheWay, Elements

\* What waits in an inbox is newer than the broadcasts of its node.
LEMMA Apart ==
  ASSUME MembersInv, NEW n \in Nodes
  PROVE  /\ \A c \in CastsOf(n) : \A k \in Elements(inbox[n]) : c.msg < k /\ c.msg # k
         /\ \A c, d \in CastsOf(n) : c.msg = d.msg => c = d
<1>1. ASSUME NEW c \in CastsOf(n), NEW k \in Elements(inbox[n]) PROVE c.msg < k /\ c.msg # k
  <2>1. PICK i \in DOMAIN inbox[n] : k = inbox[n][i]
    BY DEF Elements
  <2>2. c.msg < k
    BY <2>1 DEF MembersInv, ChannelInv, AheadOK
  <2>3. c.msg \in 1..published /\ k \in 1..published /\ published \in Nat
    BY <2>1, Ordered DEF MembersInv, ChannelInv, CastsOf
  <2>4. QED
    BY <2>2, <2>3
<1>2. \A c, d \in CastsOf(n) : c.msg = d.msg => c = d
  BY DEF MembersInv, ChannelInv, WalkOK, CastsOf
<1>3. QED
  BY <1>1, <1>2

\* The facts the steps are compared by.
LEMMA Facts ==
  ASSUME MembersInv
  PROVE  /\ IInv /\ published \in Nat
         /\ inbox \in [Nodes -> Seq(1..published)] /\ casts \subseteq Casts
         /\ got \in [Sockets -> Seq(1..published)]
         /\ rooms \in [Nodes -> SUBSET Sockets]
         /\ pc \in [Sockets -> Speaking \cup {"new", "done"}] /\ alive \in [Sockets -> BOOLEAN]
         /\ \A s \in Sockets : NodeOf[s] \in Nodes
         /\ \A s \in Sockets : alive[s] => s \in rooms[NodeOf[s]] /\ pc[s] \in {"joining", "open"}
         /\ \A c \in casts : c.node \in Nodes /\ c.msg \in 1..published
                             /\ c.left \subseteq Here(c.node)
BY Ordered, SocketsAssumption DEF MembersInv, ChannelInv, IInv, ClusterOK, SocketsOK, CastsOK,
   HistoryOK, PresentOK, WalkOK

LEMMA WayType ==
  ASSUME MembersInv, NEW s \in Sockets
  PROVE  OnTheWay(s) \subseteq 1..published
<1>1. \A m : Way(s, m) => m \in 1..published
  BY Facts, Ordered DEF Way, Elements, CastsOf
<1>2. QED
  BY <1>1, WayIs

LEMMA FaultsStep ==
  ASSUME IInv, [Next]_vars
  PROVE  faults' \in {faults, faults + 1} /\ faults \in Nat
<1>1. ASSUME NEW s \in Sockets, Endpoint(s) PROVE faults' = faults \/ Fault
  BY <1>1 DEF Endpoint, Connect, ClientGone, PublishFrom, PublishFails, ReceiveFails, PublishUnfollowed,
     PublishReplyLost, Disconnect
<1>2. ASSUME NEW n \in Nodes, Listener(n) PROVE faults' = faults
  BY <1>2 DEF Listener, Take, Cast, Send, EndCast, BreakCast, ThrowCast
<1>3. ASSUME NEW n \in Nodes, LinkDown(n) \/ LinkUp(n) \/ Lifespan(n)
      PROVE  faults' = faults \/ Fault
  BY <1>3 DEF LinkDown, LinkUp, Lifespan, StartNode, StartDeaf, StopNode, HaltNode, CrashNode
<1>4. faults' = faults \/ Fault
  BY <1>1, <1>2, <1>3 DEF Next, BroadcastViaHttp, vars
<1>5. QED
  BY <1>4, BoundsAssumption DEF Fault, IInv, HistoryOK

-----------------------------------------------------------------------------
\* Who has joined stays so.
JoinedKept == \A s \in Sockets : pc'[s] = "new" <=> pc[s] = "new"

LEMMA JoinedIs ==
  ASSUME JoinedKept
  PROVE  {s \in Sockets : pc[s] # "new"}' = {s \in Sockets : pc[s] # "new"}
BY DEF JoinedKept

\* Nobody gets anything, and only who is not there may miss something.
LEMMA Leaves ==
  ASSUME MembersInv, UNCHANGED <<framework, published, got>>, faults' \in {faults, faults + 1},
         JoinedKept, \A s \in Sockets : alive'[s] => alive[s],
         \A s \in Sockets : /\ OnTheWay(s)' \subseteq OnTheWay(s)
                            /\ alive'[s] => OnTheWay(s)' = OnTheWay(s),
         UNCHANGED disturbed \/ \E n \in Nodes, m \in 1..published : room!Disturb(n, m)
  PROVE  room!Leave
<1>1. \A s \in Sockets : OnTheWay(s)' \subseteq 1..published
  BY WayType
<1>2. QED
  BY <1>1, JoinedIs DEF room!Leave, room!Spared

LEMMA PublishMaps ==
  ASSUME MembersInv, Publish, UNCHANGED <<casts, got, disturbed>>, faults' \in {faults, faults + 1},
         JoinedKept, \A s \in Sockets : alive'[s] => alive[s]
  PROVE  room!Next
<1>0. PICK listening \in SUBSET Nodes : listening = {n \in Nodes : link[n] = "up"}
  OBVIOUS
<1>1. ASSUME NEW s \in Sockets
      PROVE  OnTheWay(s)' = IF NodeOf[s] \in listening THEN OnTheWay(s) \cup {published'}
                            ELSE OnTheWay(s)
  <2>1. /\ NodeOf[s] \in Nodes /\ inbox[NodeOf[s]] \in Seq(1..published)
        /\ published \in Nat /\ published + 1 \in Nat
    BY Facts
  <2>2. CASE link[NodeOf[s]] = "up"
    <3>1. inbox'[NodeOf[s]] = Append(inbox[NodeOf[s]], published + 1) /\ published' = published + 1
      BY <2>1, <2>2 DEF Publish
    <3>2. Elements(inbox'[NodeOf[s]]) = Elements(inbox[NodeOf[s]]) \cup {published + 1}
      BY <2>1, <3>1, Arrives
    <3>3. \A m : Way(s, m)' <=> Way(s, m) \/ m = published + 1
      BY <3>2 DEF Way, CastsOf, JoinedKept
    <3>4. QED
      BY <1>0, <2>1, <2>2, <3>1, <3>3, WayIs
  <2>3. CASE link[NodeOf[s]] # "up"
    <3>1. inbox'[NodeOf[s]] = inbox[NodeOf[s]]
      BY <2>1, <2>3 DEF Publish
    <3>2. CastsOf(NodeOf[s])' = CastsOf(NodeOf[s])
      BY DEF CastsOf
    <3>3. OnTheWay(s)' = OnTheWay(s)
      BY <3>1, <3>2, WayKept DEF JoinedKept
    <3>4. QED
      BY <1>0, <2>3, <3>3
  <2>4. QED
    BY <2>2, <2>3
<1>2. room!Publish(listening)
  BY <1>1, JoinedIs DEF room!Publish, Publish
<1>3. QED
  BY <1>2 DEF room!Next

\* In FastAPI the one broadcast of a node is what a change of its room disturbs.
LEMMA DisturbMaps ==
  ASSUME MembersInv, NEW n \in Nodes, Disturb(n)
  PROVE  \/ UNCHANGED disturbed /\ (framework # "fastapi" \/ CastsOf(n) = {})
         \/ \E c \in CastsOf(n) : CastsOf(n) = {c} /\ room!Disturb(n, c.msg)
<1>1. CASE framework # "fastapi"
  BY <1>1 DEF Disturb
<1>2. CASE framework = "fastapi" /\ CastsOf(n) = {}
  BY <1>2 DEF Disturb
<1>3. ASSUME framework = "fastapi", NEW c \in CastsOf(n)
      PROVE  CastsOf(n) = {c} /\ room!Disturb(n, c.msg)
  <2>1. CastsOf(n) = {c}
    BY <1>3 DEF MembersInv, ChannelInv, IInv, CastsOK, CastsOf
  <2>2. c.msg \in 1..published
    BY <1>3, Facts DEF CastsOf
  <2>3. disturbed' = disturbed \cup {<<n, c.msg>>}
    BY <1>3, <2>1 DEF Disturb
  <2>4. QED
    BY <1>3, <2>1, <2>2, <2>3 DEF room!Disturb
<1>4. QED
  BY <1>1, <1>2, <1>3

\* Where nothing that is on its way changes, clients can only leave.
LEMMA QuietMaps ==
  ASSUME MembersInv, UNCHANGED <<framework, published, inbox, casts, got, disturbed>>,
         faults' \in {faults, faults + 1},
         JoinedKept, \A s \in Sockets : alive'[s] => alive[s]
  PROVE  room!Leave
<1>1. ASSUME NEW s \in Sockets PROVE OnTheWay(s)' = OnTheWay(s)
  <2>1. CastsOf(NodeOf[s])' = CastsOf(NodeOf[s])
    BY DEF CastsOf
  <2>2. QED
    BY <2>1, WayKept DEF JoinedKept
<1>2. QED
  BY <1>1, Leaves

\* What goes with a node was on its way to clients that are not there.
LEMMA NodeLeaves ==
  ASSUME MembersInv, NEW n \in Nodes, UNCHANGED <<framework, published, got, disturbed>>,
         faults' \in {faults, faults + 1},
         JoinedKept, \A s \in Sockets : alive'[s] => alive[s],
         \A s \in Here(n) : ~alive'[s],
         casts' \subseteq casts, \A c \in casts \ casts' : c.node = n,
         \A k \in Nodes : inbox'[k] = inbox[k] \/ (k = n /\ inbox'[k] = <<>>),
         \A s \in Sockets : NodeOf[s] \in Nodes
  PROVE  room!Leave
<1>1. ASSUME NEW s \in Sockets, NodeOf[s] # n PROVE OnTheWay(s)' = OnTheWay(s)
  <2>1. CastsOf(NodeOf[s])' = CastsOf(NodeOf[s])
    BY <1>1 DEF CastsOf
  <2>2. QED
    BY <1>1, <2>1, WayKept DEF JoinedKept
<1>2. ASSUME NEW s \in Sockets, NodeOf[s] = n PROVE OnTheWay(s)' \subseteq OnTheWay(s) /\ ~alive'[s]
  <2>1. Elements(inbox'[n]) \subseteq Elements(inbox[n])
    BY DEF Elements
  <2>2. CastsOf(n)' \subseteq CastsOf(n)
    BY DEF CastsOf
  <2>3. \A m : Way(s, m)' => Way(s, m)
    BY <1>2, <2>1, <2>2 DEF Way, JoinedKept
  <2>4. QED
    BY <1>2, <2>3, WayIs DEF Here
<1>3. QED
  BY <1>1, <1>2, Leaves

\* A node's life, a subscription apart that is lost while the node lives on.
LEMMA NodeMaps ==
  ASSUME MembersInv, [Next]_vars, NEW n \in Nodes, LinkUp(n) \/ Lifespan(n)
  PROVE  room!Leave
<1>1. faults' \in {faults, faults + 1}
  BY FaultsStep, Facts
<1>2. CASE LinkUp(n) \/ StartNode(n) \/ StartDeaf(n)
  <2>1. UNCHANGED <<framework, published, inbox, casts, got, disturbed, pc, alive>>
    BY <1>2 DEF LinkUp, StartNode, StartDeaf, history
  <2>2. QED
    BY <1>1, <2>1, QuietMaps DEF JoinedKept
<1>3. CASE StopNode(n)
  <2>1. /\ UNCHANGED <<framework, published, casts, got, disturbed, pc>>
        /\ \A s \in Sockets : alive'[s] => alive[s] /\ s \notin Here(n)
        /\ \A k \in Nodes : inbox'[k] = inbox[k] \/ (k = n /\ inbox'[k] = <<>>)
    BY <1>3, Facts DEF StopNode, Unsubscribe
  <2>2. QED
    BY <1>1, <2>1, Facts, NodeLeaves DEF Here, JoinedKept
<1>4. CASE HaltNode(n) \/ CrashNode(n)
  <2>1. Forget(n)
    BY <1>4 DEF HaltNode, CrashNode
  <2>2. /\ UNCHANGED <<framework, published, got, disturbed>>
        /\ casts' \subseteq casts /\ \A c \in casts \ casts' : c.node = n
        /\ \A k \in Nodes : inbox'[k] = inbox[k] \/ (k = n /\ inbox'[k] = <<>>)
    BY <2>1, Facts DEF Forget, Unsubscribe, CastsOf
  <2>3. \A s \in Sockets : /\ pc'[s] = "new" <=> pc[s] = "new"
                           /\ alive'[s] => alive[s] /\ s \notin Here(n)
    <3>1. CASE HaltNode(n)
      BY <3>1, Facts DEF HaltNode
    <3>2. CASE CrashNode(n)
      BY <3>2, Facts DEF CrashNode
    <3>3. QED
      BY <1>4, <3>1, <3>2
  <2>4. QED
    BY <1>1, <2>2, <2>3, Facts, NodeLeaves DEF Here, JoinedKept
<1>5. QED
  BY <1>2, <1>3, <1>4 DEF Lifespan

LEMMA LinkDownMaps ==
  ASSUME MembersInv, NEW n \in Nodes, LinkDown(n)
  PROVE  room!Next
<1>1. PICK lost \in SUBSET (1..published) : lost = Elements(inbox[n])
  BY Ordered DEF MembersInv, ChannelInv, Elements
<1>2. /\ UNCHANGED <<framework, published, casts, got, disturbed, pc, alive>>
      /\ faults' = faults + 1 /\ inbox'[n] = <<>>
      /\ \A k \in Nodes \ {n} : inbox'[k] = inbox[k]
  BY Facts DEF LinkDown, Fault, Unsubscribe
<1>3. ASSUME NEW s \in Sockets
      PROVE  OnTheWay(s)' = IF NodeOf[s] = n THEN OnTheWay(s) \ lost ELSE OnTheWay(s)
  <2>1. CastsOf(NodeOf[s])' = CastsOf(NodeOf[s])
    BY <1>2 DEF CastsOf
  <2>2. CASE NodeOf[s] # n
    BY <1>2, <2>1, <2>2, Facts, WayKept
  <2>3. CASE NodeOf[s] = n
    <3>1. Elements(inbox'[n]) = {}
      BY <1>2 DEF Elements
    <3>2. \A m : Way(s, m)' <=> Way(s, m) /\ m \notin lost
      BY <1>1, <1>2, <2>1, <2>3, <3>1, Apart DEF Way
    <3>3. QED
      BY <2>3, <3>2, WayIs
  <2>4. QED
    BY <2>2, <2>3
<1>4. room!Cut(n, lost)
  BY <1>2, <1>3 DEF room!Cut
<1>5. QED
  BY <1>4 DEF room!Next

-----------------------------------------------------------------------------
\* A broadcast that ends takes its message from the clients of its node.
LEMMA CastGone ==
  ASSUME MembersInv, NEW n \in Nodes, NEW c \in CastsOf(n), casts' = casts \ {c},
         UNCHANGED <<inbox, pc>>, NEW s \in Sockets
  PROVE  OnTheWay(s)' = IF NodeOf[s] = n THEN OnTheWay(s) \ {c.msg} ELSE OnTheWay(s)
<1>1. CASE NodeOf[s] # n
  <2>1. CastsOf(NodeOf[s])' = CastsOf(NodeOf[s])
    BY <1>1 DEF CastsOf
  <2>2. QED
    BY <1>1, <2>1, WayKept
<1>2. CASE NodeOf[s] = n
  <2>1. CastsOf(n)' = CastsOf(n) \ {c}
    BY DEF CastsOf
  <2>2. \A d \in CastsOf(n) : d.msg = c.msg <=> d = c
    BY Apart
  <2>3. c.msg \notin Elements(inbox[n])
    BY Apart
  <2>4. \A m : Way(s, m)' <=> Way(s, m) /\ m # c.msg
    BY <1>2, <2>1, <2>2, <2>3 DEF Way
  <2>5. QED
    BY <1>2, <2>4, WayIs
<1>3. QED
  BY <1>1, <1>2

LEMMA EndCastMaps ==
  ASSUME MembersInv, NEW n \in Nodes, NEW c \in CastsOf(n), EndCast(c)
  PROVE  room!Leave
<1>1. /\ UNCHANGED <<framework, published, inbox, got, disturbed, pc, alive, faults>>
      /\ casts' = casts \ {c} /\ c.left = {}
  BY DEF EndCast, cluster, history
<1>2. ASSUME NEW s \in Sockets
      PROVE  OnTheWay(s)' \subseteq OnTheWay(s) /\ (alive'[s] => OnTheWay(s)' = OnTheWay(s))
  <2>1. OnTheWay(s)' = IF NodeOf[s] = n THEN OnTheWay(s) \ {c.msg} ELSE OnTheWay(s)
    BY <1>1, CastGone
  <2>2. ASSUME alive[s], NodeOf[s] = n PROVE ~Way(s, c.msg)
    <3>1. pc[s] # "new"
      BY <2>2, Facts
    <3>2. \A d \in CastsOf(n) : d.msg = c.msg => d = c
      BY Apart
    <3>3. c.msg \notin Elements(inbox[n])
      BY Apart
    <3>4. QED
      BY <1>1, <2>2, <3>1, <3>2, <3>3 DEF Way
  <2>3. QED
    BY <1>1, <2>1, <2>2, WayIs
<1>3. QED
  BY <1>1, <1>2, Leaves DEF JoinedKept

LEMMA BreakCastMaps ==
  ASSUME MembersInv, NEW n \in Nodes, NEW c \in CastsOf(n), BreakCast(c) \/ ThrowCast(c)
  PROVE  room!Next
<1>1. /\ UNCHANGED <<framework, published, inbox, got, pc, alive, faults>>
      /\ casts' = casts \ {c}
  BY DEF BreakCast, ThrowCast, cluster, history
<1>2. \A s \in Sockets :
        OnTheWay(s)' = IF NodeOf[s] = n THEN OnTheWay(s) \ {c.msg} ELSE OnTheWay(s)
  BY <1>1, CastGone
<1>3. c \in casts /\ c.node = n /\ c.msg \in 1..published
  BY Facts DEF CastsOf
<1>4. \/ framework = "fastapi" /\ <<n, c.msg>> \in disturbed /\ UNCHANGED disturbed
      \/ /\ framework = "spring"
         /\ \E s \in {r \in Sockets : pc[r] # "new"} \cap room!At(n) :
              c.msg \in OnTheWay(s) /\ (~alive[s] \/ OnTheWay(s) # {c.msg})
         /\ disturbed' = disturbed \cup {<<n, c.msg>>}
  <2>1. CASE BreakCast(c)
    BY <1>3, <2>1 DEF BreakCast, Intact, MembersInv, SizeOK, history
  <2>2. CASE ThrowCast(c)
    <3>1. PICK s \in c.left : ~alive[s] \/ \E d \in CastsOf(n) \ {c} : s \in d.left
      BY <1>3, <2>2 DEF ThrowCast
    <3>2. s \in Sockets /\ NodeOf[s] = n /\ pc[s] # "new"
      BY <1>3, Facts DEF Here, MembersInv, ChannelInv, WalkOK
    <3>3. s \in {r \in Sockets : pc[r] # "new"} \cap room!At(n)
      BY <3>2 DEF room!At
    <3>4. Way(s, c.msg)
      BY <3>2 DEF Way
    <3>5. ASSUME NEW d \in CastsOf(n) \ {c}, s \in d.left PROVE OnTheWay(s) # {c.msg}
      <4>1. Way(s, d.msg)
        BY <3>2, <3>5 DEF Way
      <4>2. c.msg # d.msg
        BY Apart
      <4>3. QED
        BY <4>1, <4>2, WayIs
    <3>6. c.msg \in OnTheWay(s) /\ (~alive[s] \/ OnTheWay(s) # {c.msg})
      BY <3>1, <3>4, <3>5, WayIs
    <3>7. QED
      BY <1>3, <2>2, <3>3, <3>6 DEF ThrowCast
  <2>3. QED
    BY <2>1, <2>2
<1>5. PICK m \in 1..published : m = c.msg
  BY <1>3
<1>6. room!GiveUp(n, m)
  <2>1. \/ framework = "fastapi" /\ <<n, m>> \in disturbed /\ UNCHANGED disturbed
        \/ /\ framework = "spring"
           /\ \E s \in {r \in Sockets : pc[r] # "new"} \cap room!At(n) :
                m \in OnTheWay(s) /\ (s \notin {r \in Sockets : alive[r]} \/ OnTheWay(s) # {m})
           /\ disturbed' = disturbed \cup {<<n, m>>}
    BY <1>4, <1>5
  <2>2. QED
    BY <1>1, <1>2, <1>5, <2>1 DEF room!GiveUp, room!At
<1>7. QED
  BY <1>6 DEF room!Next

\* A send hands one client one message, or nobody, if he is not there.
LEMMA SendWay ==
  ASSUME MembersInv, NEW n \in Nodes, NEW c \in CastsOf(n), NEW s \in c.left, Send(c, s),
         NEW r \in Sockets
  PROVE  OnTheWay(r)' = IF r = s /\ pc[s] # "new" THEN OnTheWay(r) \ {c.msg} ELSE OnTheWay(r)
<1>1. UNCHANGED <<inbox, pc>> /\ c \in Casts /\ c \in casts /\ c.node = n
  BY Facts DEF Send, cluster, CastsOf
<1>2. PICK v : v.node = n /\ v.msg = c.msg /\ v.left = c.left \ {s} /\ casts' = (casts \ {c}) \cup {v}
  <2>1. PICK failed : casts' = (casts \ {c}) \cup {Visited(c, s, failed)}
    BY DEF Send
  <2>2. /\ Visited(c, s, failed).node = n /\ Visited(c, s, failed).msg = c.msg
        /\ Visited(c, s, failed).left = c.left \ {s}
    BY <1>1 DEF Visited, Casts
  <2>3. QED
    BY <2>1, <2>2
<1>3. CASE NodeOf[r] # n
  <2>1. CastsOf(NodeOf[r])' = CastsOf(NodeOf[r])
    BY <1>1, <1>2, <1>3 DEF CastsOf
  <2>2. r # s
    BY <1>1, <1>3, Facts DEF Here
  <2>3. QED
    BY <1>1, <2>1, <2>2, WayKept
<1>4. CASE NodeOf[r] = n
  <2>1. CastsOf(n)' = (CastsOf(n) \ {c}) \cup {v}
    BY <1>2 DEF CastsOf
  <2>2. (\A d \in CastsOf(n) : d.msg = c.msg <=> d = c) /\ c.msg \notin Elements(inbox[n])
    BY Apart
  <2>3. \A m : Way(r, m)' <=> Way(r, m) /\ ~(m = c.msg /\ r = s /\ pc[s] # "new")
    BY <1>1, <1>2, <1>4, <2>1, <2>2 DEF Way
  <2>4. QED
    BY <2>3, WayIs
<1>5. QED
  BY <1>3, <1>4

LEMMA SendMaps ==
  ASSUME MembersInv, NEW n \in Nodes, NEW c \in CastsOf(n), NEW s \in c.left, Send(c, s)
  PROVE  room!Next
<1>1. /\ UNCHANGED <<framework, published, inbox, disturbed, pc, alive, faults>>
      /\ c \in casts /\ c.node = n /\ c.msg \in 1..published /\ s \in Sockets /\ NodeOf[s] = n
  BY Facts DEF Send, cluster, history, CastsOf, Here
<1>2. \A r \in Sockets : OnTheWay(r)' = IF r = s /\ pc[s] # "new" THEN OnTheWay(r) \ {c.msg}
                                        ELSE OnTheWay(r)
  BY SendWay
<1>3. got' = [r \in Sockets |-> IF r = s /\ alive[s] THEN Append(got[r], c.msg) ELSE got[r]]
  BY DEF Send, Received
<1>4. CASE ~alive[s]
  <2>1. got' = got
    BY <1>3, <1>4, Facts
  <2>2. room!Leave
    BY <1>1, <1>2, <1>4, <2>1, Leaves DEF JoinedKept
  <2>3. QED
    BY <2>2 DEF room!Next
<1>5. CASE alive[s]
  <2>1. PICK m \in 1..published : m = c.msg
    BY <1>1
  <2>2. framework # "nest" /\ pc[s] # "new"
    BY <1>1, <1>5, Facts DEF IInv, CastsOK
  <2>3. m \in OnTheWay(s)
    BY <1>1, <2>1, WayIs DEF Way
  <2>4. ASSUME framework # "spring", NEW k \in OnTheWay(s) PROVE m <= k
    <3>1. CASE k \in Elements(inbox[n])
      <4>1. k \in 1..published /\ published \in Nat
        BY <3>1, Ordered, Facts DEF Elements
      <4>2. m < k
        BY <2>1, <3>1, Apart
      <4>3. QED
        BY <4>1, <4>2
    <3>2. ASSUME NEW d \in CastsOf(n), d.msg = k PROVE m <= k
      <4>1. framework = "fastapi" /\ d = c
        BY <2>2, <2>4, <3>2, FrameworksAssumption, Facts DEF IInv, ClusterOK, CastsOK, CastsOf
      <4>2. QED
        BY <2>1, <3>2, <4>1
    <3>3. QED
      BY <1>1, <2>4, <3>1, <3>2, WayIs DEF Way
  <2>5. room!HandOut(n, m, {s})
    <3>1. s \in {r \in Sockets : alive[r]} \cap room!At(n)
      BY <1>1, <1>5 DEF room!At
    <3>2. got' = [r \in Sockets |-> IF r \in {s} THEN Append(got[r], m) ELSE got[r]]
      BY <1>3, <1>5, <2>1
    <3>3. \A r \in Sockets : OnTheWay(r)' = IF r \in {s} THEN OnTheWay(r) \ {m} ELSE OnTheWay(r)
      BY <1>2, <2>1, <2>2
    <3>4. \A r \in Sockets : OnTheWay(r)' \subseteq 1..published
      BY <3>3, WayType
    <3>5. QED
      BY <1>1, <2>2, <2>3, <2>4, <3>1, <3>2, <3>3, <3>4 DEF room!HandOut, room!Spared
  <2>6. {s} \in SUBSET Sockets
    BY <1>1
  <2>7. QED
    BY <2>5, <2>6 DEF room!Next
<1>6. QED
  BY <1>4, <1>5

-----------------------------------------------------------------------------
\* The oldest message leaves the inbox.
LEMMA DropWay ==
  ASSUME MembersInv, NEW n \in Nodes, inbox[n] # <<>>, Drop(n)
  PROVE  /\ Head(inbox[n]) \in 1..published /\ Head(inbox[n]) \in Elements(inbox[n])
         /\ Elements(inbox'[n]) = Elements(inbox[n]) \ {Head(inbox[n])}
         /\ \A k \in Elements(inbox[n]) : Head(inbox[n]) <= k
         /\ \A k \in Nodes \ {n} : inbox'[k] = inbox[k]
<1>1. /\ inbox[n] \in Seq(1..published) /\ published \in Nat /\ Ascending(inbox[n])
      /\ inbox' = [inbox EXCEPT ![n] = Tail(@)]
  BY Facts DEF Drop, MembersInv, ChannelInv, AheadOK
<1>2. inbox'[n] = Tail(inbox[n]) /\ \A k \in Nodes \ {n} : inbox'[k] = inbox[k]
  BY <1>1, Facts
<1>3. /\ Head(inbox[n]) \in 1..published /\ 1 \in DOMAIN inbox[n] /\ Head(inbox[n]) = inbox[n][1]
      /\ \A i \in DOMAIN Tail(inbox[n]) :
           /\ Head(inbox[n]) < Tail(inbox[n])[i]
           /\ \E k \in DOMAIN inbox[n] : Tail(inbox[n])[i] = inbox[n][k]
  BY <1>1, TakesOldest
<1>4. \A k \in Elements(inbox[n]) : k \in 1..published
  BY Ordered, Facts DEF Elements
<1>5. Elements(inbox[n]) \subseteq {Head(inbox[n])} \cup Elements(Tail(inbox[n]))
  BY <1>1, TakesFirst
<1>6. \A k \in Elements(Tail(inbox[n])) :
        k \in Elements(inbox[n]) /\ Head(inbox[n]) < k
  BY <1>3 DEF Elements
<1>7. \A k \in Elements(Tail(inbox[n])) : k # Head(inbox[n])
  BY <1>1, <1>3, <1>4, <1>6
<1>8. Head(inbox[n]) \in Elements(inbox[n])
  BY <1>3 DEF Elements
<1>9. ASSUME NEW k \in Elements(inbox[n]) PROVE Head(inbox[n]) <= k
  <2>1. k \in 1..published /\ Head(inbox[n]) \in 1..published /\ published \in Nat
    BY <1>1, <1>3, <1>4
  <2>2. k = Head(inbox[n]) \/ Head(inbox[n]) < k
    BY <1>5, <1>6
  <2>3. QED
    BY <2>1, <2>2
<1>10. Elements(inbox'[n]) = Elements(inbox[n]) \ {Head(inbox[n])}
  BY <1>2, <1>5, <1>6, <1>7
<1>11. QED
  BY <1>2, <1>3, <1>8, <1>9, <1>10

\* A broadcast starts: whoever is there is in the room that it will visit.
LEMMA StartsMaps ==
  ASSUME MembersInv, NEW n \in Nodes, Take(n), UNCHANGED got,
         \/ casts' = casts /\ rooms[n] = {}
         \/ \E c : c.node = n /\ c.msg = Head(inbox[n]) /\ c.left = rooms[n]
                   /\ casts' = casts \cup {c}
  PROVE  room!Leave
<1>1. UNCHANGED <<framework, published, disturbed, pc, alive, faults>> /\ inbox[n] # <<>> /\ Drop(n)
  BY DEF Take, history
<1>2. ASSUME NEW s \in Sockets, NodeOf[s] # n PROVE OnTheWay(s)' = OnTheWay(s)
  <2>1. CastsOf(NodeOf[s])' = CastsOf(NodeOf[s])
    BY <1>2 DEF CastsOf
  <2>2. QED
    BY <1>1, <1>2, <2>1, DropWay, Facts, WayKept
<1>3. ASSUME NEW s \in Sockets, NodeOf[s] = n
      PROVE  OnTheWay(s)' \subseteq OnTheWay(s) /\ (alive[s] => OnTheWay(s)' = OnTheWay(s))
  <2>1. /\ Elements(inbox'[n]) = Elements(inbox[n]) \ {Head(inbox[n])}
        /\ Head(inbox[n]) \in Elements(inbox[n])
    BY <1>1, DropWay
  <2>2. alive[s] => s \in rooms[n]
    BY <1>3, Facts
  <2>3. CASE casts' = casts /\ rooms[n] = {}
    <3>1. CastsOf(n)' = CastsOf(n)
      BY <2>3 DEF CastsOf
    <3>2. \A m : Way(s, m)' => Way(s, m)
      BY <1>1, <1>3, <2>1, <3>1 DEF Way
    <3>3. QED
      BY <2>2, <2>3, <3>2, WayIs
  <2>4. CASE \E c : c.node = n /\ c.msg = Head(inbox[n]) /\ c.left = rooms[n]
                    /\ casts' = casts \cup {c}
    <3>1. PICK c : c.node = n /\ c.msg = Head(inbox[n]) /\ c.left = rooms[n]
                   /\ casts' = casts \cup {c}
      BY <2>4
    <3>2. CastsOf(n)' = CastsOf(n) \cup {c}
      BY <3>1 DEF CastsOf
    <3>3. \A m : Way(s, m)' => Way(s, m)
      BY <1>1, <1>3, <2>1, <3>1, <3>2 DEF Way
    <3>4. alive[s] => \A m : Way(s, m) => Way(s, m)'
      BY <1>1, <1>3, <2>1, <2>2, <3>1, <3>2 DEF Way
    <3>5. QED
      BY <3>3, <3>4, WayIs
  <2>5. QED
    BY <2>3, <2>4
<1>4. QED
  BY <1>1, <1>2, <1>3, Leaves DEF JoinedKept

\* NestJS hands the message to everybody who is there.
LEMMA NestMaps ==
  ASSUME MembersInv, NEW n \in Nodes, Take(n), framework = "nest"
  PROVE  room!Next
<1>1. /\ UNCHANGED <<framework, published, casts, disturbed, pc, alive, faults>>
      /\ inbox[n] # <<>> /\ Drop(n) /\ Received(rooms[n], Head(inbox[n]))
      /\ casts = {}
  BY Facts DEF Take, history, IInv, CastsOK
<1>2. PICK m \in 1..published : m = Head(inbox[n])
  BY <1>1, DropWay
<1>3. PICK to \in SUBSET Sockets : to = {s \in rooms[n] : alive[s]}
  BY Facts
<1>4. \A s \in to : alive[s] /\ NodeOf[s] = n
  BY <1>3, Facts DEF IInv, SocketsOK, Here
<1>5. \A s \in Sockets : alive[s] /\ NodeOf[s] = n => s \in to
  BY <1>3, Facts
<1>6. got' = [s \in Sockets |-> IF s \in to THEN Append(got[s], m) ELSE got[s]]
  BY <1>1, <1>2, <1>3 DEF Received
<1>7. ASSUME NEW s \in Sockets
      PROVE  /\ OnTheWay(s) = Elements(inbox[NodeOf[s]])
             /\ OnTheWay(s)' = Elements(inbox'[NodeOf[s]])
  <2>1. CastsOf(NodeOf[s]) = {} /\ CastsOf(NodeOf[s])' = {}
    BY <1>1 DEF CastsOf
  <2>2. \A k : /\ Way(s, k) <=> k \in Elements(inbox[NodeOf[s]])
               /\ Way(s, k)' <=> k \in Elements(inbox'[NodeOf[s]])
    BY <2>1 DEF Way
  <2>3. QED
    BY <2>2, WayIs
<1>8. /\ m \in Elements(inbox[n]) /\ Elements(inbox'[n]) = Elements(inbox[n]) \ {m}
      /\ \A k \in Elements(inbox[n]) : m <= k
      /\ \A k \in Nodes \ {n} : inbox'[k] = inbox[k]
  BY <1>1, <1>2, DropWay
<1>9. ASSUME NEW s \in Sockets
      PROVE  OnTheWay(s)' = IF NodeOf[s] = n THEN OnTheWay(s) \ {m} ELSE OnTheWay(s)
  <2>1. NodeOf[s] \in Nodes
    BY Facts
  <2>2. QED
    BY <1>7, <1>8, <2>1
<1>10. CASE to = {}
  <2>1. got' = got
    BY <1>6, <1>10, Facts
  <2>2. room!Leave
    BY <1>1, <1>5, <1>9, <1>10, <2>1, Leaves DEF JoinedKept
  <2>3. QED
    BY <2>2 DEF room!Next
<1>11. CASE to # {}
  <2>1. \A s \in to : s \in {r \in Sockets : alive[r]} \cap room!At(n) /\ m \in OnTheWay(s)
                      /\ \A k \in OnTheWay(s) : m <= k
    BY <1>4, <1>7, <1>8 DEF room!At
  <2>2. \A s \in {r \in Sockets : alive[r]} \cap room!At(n) : s \in to
    BY <1>5 DEF room!At
  <2>3. \A s \in Sockets : IF s \in to THEN OnTheWay(s)' = OnTheWay(s) \ {m}
                           ELSE /\ OnTheWay(s)' \subseteq OnTheWay(s)
                                /\ alive'[s] => OnTheWay(s)' = OnTheWay(s)
    BY <1>1, <1>4, <1>5, <1>9
  <2>4. \A s \in Sockets : OnTheWay(s)' \subseteq 1..published
    BY <1>9, WayType
  <2>5. room!HandOut(n, m, to)
    BY <1>1, <1>6, <1>11, <2>1, <2>2, <2>3, <2>4 DEF room!HandOut, room!Spared
  <2>6. QED
    BY <2>5 DEF room!Next
<1>12. QED
  BY <1>10, <1>11

LEMMA TakeMaps ==
  ASSUME MembersInv, NEW n \in Nodes, Take(n)
  PROVE  room!Next
<1>1. CASE framework = "nest"
  BY <1>1, NestMaps
<1>2. CASE framework = "fastapi" /\ rooms[n] = {}
  <2>1. casts' = casts /\ Received(rooms[n], Head(inbox[n]))
    BY <1>2 DEF Take
  <2>2. got' = got
    BY <1>2, <2>1, Facts DEF Received
  <2>3. room!Leave
    BY <1>2, <2>1, <2>2, StartsMaps
  <2>4. QED
    BY <2>3 DEF room!Next
<1>3. CASE framework # "nest" /\ ~(framework = "fastapi" /\ rooms[n] = {})
  <2> DEFINE cast == [node |-> n, msg |-> Head(inbox[n]), left |-> rooms[n],
                      size |-> IF framework = "fastapi" THEN Cardinality(rooms[n]) ELSE 0,
                      failed |-> {}]
  <2>1. casts' = casts \cup {cast} /\ got' = got
    BY <1>3 DEF Take
  <2>2. cast.node = n /\ cast.msg = Head(inbox[n]) /\ cast.left = rooms[n]
    OBVIOUS
  <2> HIDE DEF cast
  <2>3. room!Leave
    BY <2>1, <2>2, StartsMaps
  <2>4. QED
    BY <2>3 DEF room!Next
<1>4. QED
  BY <1>1, <1>2, <1>3

-----------------------------------------------------------------------------
\* A newcomer is on the walk, or he is not.  In Spring that concerns nobody
\* else; in FastAPI the walk may start again for those who were on it.
LEMMA ConnectMaps ==
  ASSUME MembersInv, NEW s \in Sockets, Connect(s)
  PROVE  room!Join(s)
<1>1. PICK n \in Nodes : n = NodeOf[s]
  BY Facts
<1>2. /\ UNCHANGED <<framework, published, inbox, got, faults>> /\ Disturb(n)
      /\ pc[s] = "new" /\ pc' = [pc EXCEPT ![s] = "joining"] /\ alive' = [alive EXCEPT ![s] = TRUE]
  BY <1>1 DEF Connect, cluster
<1>3. PICK left \in [CastsOf(n) -> SUBSET Sockets] :
        /\ \A c \in CastsOf(n) : left[c] \in Rewalks(c, s)
        /\ casts' = (casts \ CastsOf(n)) \cup {[c EXCEPT !.left = left[c]] : c \in CastsOf(n)}
  BY <1>1 DEF Connect
<1> DEFINE New(c) == [c EXCEPT !.left = left[c]]
<1>4. ASSUME NEW c \in CastsOf(n)
      PROVE  New(c).node = n /\ New(c).msg = c.msg /\ New(c).left = left[c]
  BY Facts DEF Casts, CastsOf
<1>5. casts' = (casts \ CastsOf(n)) \cup {New(c) : c \in CastsOf(n)}
  BY <1>3
<1> HIDE DEF New
<1>6. /\ ~alive[s] /\ {r \in Sockets : alive'[r]} = {r \in Sockets : alive[r]} \cup {s}
      /\ s \notin {r \in Sockets : pc[r] # "new"}
      /\ {r \in Sockets : pc'[r] # "new"} = {r \in Sockets : pc[r] # "new"} \cup {s}
      /\ pc'[s] # "new" /\ \A r \in Sockets \ {s} : pc'[r] = pc[r]
  BY <1>2, Facts
<1>7. ASSUME NEW r \in Sockets, NodeOf[r] = n, NEW m
      PROVE  Way(r, m)' <=> \/ m \in Elements(inbox[n])
                            \/ \E c \in CastsOf(n) : c.msg = m /\ (r \in left[c] \/ pc'[r] = "new")
  <2>1. CastsOf(n)' = {New(c) : c \in CastsOf(n)}
    BY <1>4, <1>5 DEF CastsOf
  <2>2. (\E c \in CastsOf(n)' : c.msg = m /\ (r \in c.left \/ pc'[r] = "new"))
        <=> \E c \in CastsOf(n) : c.msg = m /\ (r \in left[c] \/ pc'[r] = "new")
    BY <1>4, <2>1
  <2>3. QED
    BY <1>2, <1>7, <2>2 DEF Way
<1>8. ASSUME NEW r \in Sockets, NodeOf[r] # n PROVE OnTheWay(r)' = OnTheWay(r)
  <2>1. CastsOf(NodeOf[r])' = CastsOf(NodeOf[r])
    BY <1>4, <1>5, <1>8 DEF CastsOf
  <2>2. r # s
    BY <1>1, <1>8
  <2>3. QED
    BY <1>2, <1>6, <2>1, <2>2, WayKept
<1>9. OnTheWay(s)' \subseteq OnTheWay(s)
  <2>1. \A m : Way(s, m)' => Way(s, m)
    BY <1>1, <1>2, <1>7 DEF Way
  <2>2. QED
    BY <2>1, WayIs
<1>10. CASE UNCHANGED disturbed /\ (framework # "fastapi" \/ CastsOf(n) = {})
  <2>1. ASSUME NEW r \in Sockets \ {s}, NodeOf[r] = n PROVE OnTheWay(r)' = OnTheWay(r)
    <3>1. \A c \in CastsOf(n) : r \in left[c] <=> r \in c.left
      BY <1>3, <1>10 DEF Rewalks
    <3>2. \A m : Way(r, m)' <=> Way(r, m)
      BY <1>6, <1>7, <2>1, <3>1 DEF Way
    <3>3. QED
      BY <3>2, WayIs
  <2>2. \A r \in Sockets \ {s} : OnTheWay(r)' = OnTheWay(r)
    BY <1>8, <2>1
  <2>3. \A r \in Sockets : OnTheWay(r)' \subseteq 1..published
    BY <1>9, <2>2, WayType
  <2>4. QED
    BY <1>2, <1>6, <1>9, <1>10, <2>2, <2>3 DEF room!Join
<1>11. ASSUME NEW c \in CastsOf(n), CastsOf(n) = {c}, room!Disturb(n, c.msg)
       PROVE  room!Join(s)
  <2>1. PICK m \in 1..published : m = c.msg
    BY Facts DEF CastsOf
  <2>2. framework = "fastapi" /\ room!Disturb(n, m)
    BY <1>11, <2>1 DEF room!Disturb
  <2>3. ASSUME NEW r \in Sockets \ {s}, NodeOf[r] = n PROVE room!Shuffled(r, m)
    <3>1. \A k : Way(r, k) /\ k # m <=> k \in Elements(inbox[n])
      BY <1>11, <2>1, <2>3, Apart DEF Way
    <3>2. \A k : Way(r, k)' /\ k # m <=> k \in Elements(inbox[n])
      BY <1>7, <1>11, <2>1, <2>3, Apart
    <3>3. OnTheWay(r)' \in {OnTheWay(r) \ {m}, OnTheWay(r) \cup {m}}
      BY <3>1, <3>2, WayIs
    <3>4. \A i \in DOMAIN got[r] : got[r][i] <= m
      BY <2>1, <2>2, <2>3 DEF MembersInv, ChannelInv, OrderOK, CastsOf, Here
    <3>5. ASSUME NEW k \in OnTheWay(r) PROVE m <= k
      <4>1. CASE k = m
        BY <4>1
      <4>2. CASE k \in Elements(inbox[n])
        <5>1. k \in 1..published /\ published \in Nat
          BY <4>2, Ordered, Facts DEF Elements
        <5>2. m < k
          BY <2>1, <4>2, Apart
        <5>3. QED
          BY <5>1, <5>2
      <4>3. QED
        BY <3>1, <3>5, <4>1, <4>2, WayIs
    <3>6. QED
      BY <3>3, <3>4, <3>5 DEF room!Shuffled
  <2>4. \A r \in Sockets \ {s} : IF NodeOf[r] = NodeOf[s] THEN room!Shuffled(r, m)
                                 ELSE OnTheWay(r)' = OnTheWay(r)
    BY <1>1, <1>8, <2>3
  <2>5. \A r \in Sockets : OnTheWay(r)' \subseteq 1..published
    <3>1. \A r \in Sockets \ {s} : OnTheWay(r)' \subseteq OnTheWay(r) \cup {m}
      BY <2>4 DEF room!Shuffled
    <3>2. QED
      BY <1>9, <3>1, WayType
  <2>6. QED
    BY <1>1, <1>2, <1>6, <1>9, <2>2, <2>4, <2>5 DEF room!Join
<1>12. QED
  BY <1>2, <1>10, <1>11, DisturbMaps

\* Who leaves the room was gone already, and misses what was on its way.
LEMMA DisconnectMaps ==
  ASSUME MembersInv, NEW s \in Sockets, Disconnect(s)
  PROVE  room!Leave
<1>1. PICK n \in Nodes : n = NodeOf[s]
  BY Facts
<1>2. /\ UNCHANGED <<framework, published, inbox, got, alive, faults>> /\ ~alive[s]
      /\ pc[s] = "open" /\ pc' = [pc EXCEPT ![s] = "leaving"]
      /\ casts' = (casts \ CastsOf(n)) \cup {Without(c, s) : c \in CastsOf(n)}
      /\ Disturb(n) \/ UNCHANGED disturbed
  BY <1>1 DEF Disconnect, cluster
<1>3. \A r \in Sockets : pc'[r] = "new" <=> pc[r] = "new"
  BY <1>2, Facts
<1>4. ASSUME NEW c \in CastsOf(n)
      PROVE  Without(c, s).node = n /\ Without(c, s).msg = c.msg /\ Without(c, s).left = c.left \ {s}
  BY Facts DEF Without, Casts, CastsOf
<1>5. ASSUME NEW r \in Sockets, NodeOf[r] # n PROVE OnTheWay(r)' = OnTheWay(r)
  <2>1. CastsOf(NodeOf[r])' = CastsOf(NodeOf[r])
    BY <1>2, <1>4, <1>5 DEF CastsOf
  <2>2. QED
    BY <1>2, <1>3, <2>1, WayKept
<1>6. ASSUME NEW r \in Sockets, NodeOf[r] = n
      PROVE  OnTheWay(r)' \subseteq OnTheWay(r) /\ (alive[r] => OnTheWay(r)' = OnTheWay(r))
  <2>1. CastsOf(n)' = {Without(c, s) : c \in CastsOf(n)}
    BY <1>2, <1>4 DEF CastsOf
  <2>2. ASSUME NEW m
        PROVE  (\E c \in CastsOf(n)' : c.msg = m /\ (r \in c.left \/ pc'[r] = "new"))
               <=> \E c \in CastsOf(n) : c.msg = m /\ ((r \in c.left /\ r # s) \/ pc[r] = "new")
    BY <1>3, <1>4, <2>1
  <2>3. \A m : Way(r, m)' => Way(r, m)
    BY <1>2, <1>6, <2>2 DEF Way
  <2>4. r # s => \A m : Way(r, m) => Way(r, m)'
    BY <1>2, <1>6, <2>2 DEF Way
  <2>5. QED
    BY <1>2, <2>3, <2>4, WayIs
<1>7. UNCHANGED disturbed \/ \E k \in Nodes, m \in 1..published : room!Disturb(k, m)
  <2>1. ASSUME NEW c \in CastsOf(n), room!Disturb(n, c.msg)
        PROVE  \E k \in Nodes, m \in 1..published : room!Disturb(k, m)
    <3>1. PICK m \in 1..published : m = c.msg
      BY Facts DEF CastsOf
    <3>2. room!Disturb(n, m)
      BY <2>1, <3>1 DEF room!Disturb
    <3>3. QED
      BY <3>2
  <2>2. QED
    BY <1>2, <2>1, DisturbMaps
<1>8. QED
  BY <1>2, <1>3, <1>5, <1>6, <1>7, Leaves DEF JoinedKept

LEMMA EndpointMaps ==
  ASSUME MembersInv, [Next]_vars, NEW s \in Sockets, Endpoint(s)
  PROVE  room!Next
<1>1. faults' \in {faults, faults + 1}
  BY FaultsStep, Facts
<1>2. CASE Connect(s)
  <2>1. room!Join(s)
    BY <1>2, ConnectMaps
  <2>2. QED
    BY <2>1 DEF room!Next
<1>3. CASE Disconnect(s)
  <2>1. room!Leave
    BY <1>3, DisconnectMaps
  <2>2. QED
    BY <2>1 DEF room!Next
<1>4. ASSUME pc[s] \in Speaking,
             \/ EndpointError(s)
             \/ pc' \in {pc, [pc EXCEPT ![s] = After(s)]} /\ alive' = alive
      PROVE  JoinedKept /\ \A r \in Sockets : alive'[r] => alive[r]
  <2>1. After(s) # "new"
    BY <1>4 DEF After, Speaking
  <2>2. pc[s] # "new"
    BY <1>4 DEF Speaking
  <2>3. QED
    BY <1>4, <2>1, <2>2, Facts DEF EndpointError, JoinedKept
<1>5. CASE \/ ClientGone(s) \/ PublishFails(s)
           \/ ReceiveFails(s) \/ PublishUnfollowed(s)
  <2>1. UNCHANGED <<framework, published, inbox, casts, got, disturbed>>
    BY <1>5 DEF ClientGone, PublishFails, ReceiveFails, PublishUnfollowed, cluster, history
  <2>2. JoinedKept /\ \A r \in Sockets : alive'[r] => alive[r]
    <3>1. CASE ClientGone(s)
      BY <3>1, Facts DEF ClientGone, JoinedKept
    <3>2. CASE PublishFails(s) \/ ReceiveFails(s) \/ PublishUnfollowed(s)
      BY <1>4, <3>2 DEF PublishFails, ReceiveFails, PublishUnfollowed, Speaking
    <3>3. QED
      BY <1>5, <3>1, <3>2
  <2>3. room!Leave
    BY <1>1, <2>1, <2>2, QuietMaps
  <2>4. QED
    BY <2>3 DEF room!Next
<1>6. CASE PublishFrom(s) \/ PublishReplyLost(s)
  <2>1. Publish /\ UNCHANGED <<casts, got, disturbed>>
    BY <1>6 DEF PublishFrom, PublishReplyLost, Publish
  <2>2. JoinedKept /\ \A r \in Sockets : alive'[r] => alive[r]
    <3>1. CASE PublishFrom(s)
      <4>1. After(s) # "new" /\ pc[s] # "new"
        BY <3>1 DEF PublishFrom, After, Speaking
      <4>2. QED
        BY <3>1, <4>1, Facts DEF PublishFrom, JoinedKept
    <3>2. CASE PublishReplyLost(s)
      BY <1>4, <3>2 DEF PublishReplyLost
    <3>3. QED
      BY <1>6, <3>1, <3>2
  <2>3. QED
    BY <1>1, <2>1, <2>2, PublishMaps
<1>7. QED
  BY <1>2, <1>3, <1>5, <1>6 DEF Endpoint

LEMMA StepMaps == MembersInv /\ [Next]_vars => room!Next
<1> SUFFICES ASSUME MembersInv, [Next]_vars PROVE room!Next
  OBVIOUS
<1>1. ASSUME NEW s \in Sockets, Endpoint(s) PROVE room!Next
  BY <1>1, EndpointMaps
<1>2. CASE BroadcastViaHttp
  BY <1>2, Facts, FaultsStep, PublishMaps DEF BroadcastViaHttp, Publish, JoinedKept
<1>3. ASSUME NEW n \in Nodes, Listener(n) PROVE room!Next
  <2>1. ASSUME NEW c \in CastsOf(n), EndCast(c) PROVE room!Next
    <3>1. room!Leave
      BY <2>1, EndCastMaps
    <3>2. QED
      BY <3>1 DEF room!Next
  <2>2. QED
    BY <1>3, <2>1, TakeMaps, SendMaps, BreakCastMaps DEF Listener, Cast
<1>4. ASSUME NEW n \in Nodes, LinkUp(n) \/ Lifespan(n) PROVE room!Next
  <2>1. room!Leave
    BY <1>4, NodeMaps
  <2>2. QED
    BY <2>1 DEF room!Next
<1>5. CASE UNCHANGED vars
  <2>1. UNCHANGED <<framework, published, inbox, casts, got, disturbed, faults, pc, alive>>
    BY <1>5 DEF vars, cluster, history
  <2>2. room!Leave
    BY <2>1, QuietMaps DEF JoinedKept
  <2>3. QED
    BY <2>2 DEF room!Next
<1>6. QED
  BY <1>1, <1>2, <1>3, <1>4, <1>5, LinkDownMaps DEF Next

LEMMA InitMaps == Init => room!Init
<1> SUFFICES ASSUME Init PROVE room!Init
  OBVIOUS
<1>1. ASSUME NEW s \in Sockets PROVE OnTheWay(s) = {}
  <2>1. inbox[NodeOf[s]] = <<>> /\ casts = {}
    BY SocketsAssumption DEF Init
  <2>2. QED
    BY <2>1 DEF OnTheWay, Elements, CastsOf
<1>2. {s \in Sockets : alive[s]} = {} /\ {s \in Sockets : pc[s] # "new"} = {}
  BY DEF Init
<1>3. QED
  BY <1>1, <1>2 DEF Init, room!Init

\* Whatever the nodes do with their sockets, threads and subscriptions, for the
\* clients it is a run of the channel.
THEOREM Implements == Spec => KeepsChannel
<1>1. MembersInv /\ [Next]_vars => [room!Next]_(room!vars)
  BY StepMaps
<1>2. QED
  BY <1>1, InitMaps, MembersInit, MembersStep, PTL DEF Spec, KeepsChannel, room!Spec
=============================================================================
