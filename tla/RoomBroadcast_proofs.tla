------------------------ MODULE RoomBroadcast_proofs ------------------------
(***************************************************************************)
(* Proofs about the room broadcast, for any number of nodes, clients,      *)
(* publications and faults.                                                *)
(***************************************************************************)
EXTENDS RoomBroadcast, TLAPS, FiniteSetTheorems, SequenceTheorems

\* The parts of the invariant: what the nodes share, ...
ClusterOK ==
  /\ framework \in Frameworks
  /\ node \in [Nodes -> {"up", "stopping", "down"}]
  /\ link \in [Nodes -> {"up", "down", "off"}]
  /\ inbox \in [Nodes -> Seq(1..published)]
  /\ \A n \in Nodes : link[n] # "up" => inbox[n] = <<>>
  /\ published \in 0..MaxPublished

\* ... their sockets, ...
SocketsOK ==
  /\ rooms \in [Nodes -> SUBSET Sockets]
  /\ \A n \in Nodes : rooms[n] \subseteq Here(n)
  /\ pc \in [Sockets -> Speaking \cup {"new", "done"}]
  /\ alive \in [Sockets -> BOOLEAN]
  /\ \A s \in Sockets : alive[s] => pc[s] \in {"joining", "open"}

\* ... their broadcasts, of which FastAPI has one at a time, ...
CastsOK ==
  /\ casts \subseteq Casts
  /\ \A c \in casts : c.msg <= published
  /\ framework = "nest" => casts = {}
  /\ framework = "fastapi" => \A c, d \in casts : c.node = d.node => c = d

\* ... what is recorded, ...
HistoryOK ==
  /\ got \in [Sockets -> Seq(1..published)]
  /\ due \in [Numbers -> SUBSET Sockets]
  /\ disturbed \subseteq Nodes \X Numbers
  /\ faults \in 0..MaxFaults

\* ... and what is left of a node that is down.
DownOK ==
  \A n \in Nodes : node[n] = "down" =>
    /\ link[n] = "off" /\ rooms[n] = {} /\ CastsOf(n) = {}
    /\ \A s \in Here(n) : pc[s] \in {"new", "done"} /\ ~alive[s]

IInv == ClusterOK /\ SocketsOK /\ CastsOK /\ HistoryOK /\ DownOK

-----------------------------------------------------------------------------
(***************************************************************************)
(* Sequences of messages.                                                  *)
(***************************************************************************)
LEMMA AppendType ==
  ASSUME NEW p \in Nat, NEW s \in Seq(1..p), NEW m \in 1..p
  PROVE  /\ Append(s, m) \in Seq(1..p) /\ Len(Append(s, m)) = Len(s) + 1 /\ Len(s) \in Nat
         /\ \A i \in 1..Len(s) : Append(s, m)[i] = s[i]
         /\ Append(s, m)[Len(s) + 1] = m
BY AppendProperties

LEMMA Widen ==
  ASSUME NEW p \in Nat, NEW s \in Seq(1..p)
  PROVE  s \in Seq(1 .. p + 1)
<1>1. 1..p \subseteq 1 .. p + 1
  OBVIOUS
<1>2. QED
  BY <1>1, SeqMonotonic

LEMMA ElementsType ==
  ASSUME NEW p \in Nat, NEW s \in Seq(1..p)
  PROVE  /\ Elements(s) \subseteq 1..p /\ Len(s) \in Nat /\ DOMAIN s = 1..Len(s)
         /\ \A i \in 1..Len(s) : s[i] \in 1..p
BY LenProperties, ElementOfSeq DEF Elements

-----------------------------------------------------------------------------
LEMMA InitType == Init => IInv
<1> SUFFICES ASSUME Init PROVE IInv
  OBVIOUS
<1>1. \A S : <<>> \in Seq(S)
  BY EmptySeq
<1>2. ClusterOK
  BY <1>1, BoundsAssumption DEF Init, ClusterOK
<1>3. SocketsOK /\ CastsOK
  BY DEF Init, SocketsOK, CastsOK
<1>4. HistoryOK
  BY <1>1, BoundsAssumption DEF Init, HistoryOK, Numbers
<1>5. DownOK
  BY DEF Init, DownOK, CastsOf, Here
<1>6. QED
  BY <1>2, <1>3, <1>4, <1>5 DEF IInv

\* What a publication does.
LEMMA PublishType ==
  ASSUME IInv, Publish
  PROVE  ClusterOK' /\ published' = published + 1 /\ published \in Nat
<1>1. /\ published \in Nat /\ published' = published + 1 /\ published' \in 0..MaxPublished
      /\ MaxPublished \in Nat
  BY BoundsAssumption DEF Publish, IInv, ClusterOK
<1>2. ASSUME NEW n \in Nodes
      PROVE inbox'[n] \in Seq(1..published') /\ (link[n] # "up" => inbox'[n] = <<>>)
  <2>1. inbox[n] \in Seq(1..published')
    BY <1>1, Widen DEF IInv, ClusterOK
  <2>2. Append(inbox[n], published') \in Seq(1..published')
    BY <1>1, <2>1, AppendType
  <2>3. QED
    BY <2>1, <2>2 DEF Publish, IInv, ClusterOK
<1>3. inbox' \in [Nodes -> Seq(1..published')]
  BY <1>2 DEF Publish
<1>4. QED
  BY <1>1, <1>2, <1>3 DEF Publish, IInv, ClusterOK

\* A message is taken from a node's inbox.
LEMMA TakeType ==
  ASSUME IInv, NEW n \in Nodes, inbox[n] # <<>>, Drop(n),
         UNCHANGED <<framework, node, link, published>>
  PROVE  /\ ClusterOK' /\ Head(inbox[n]) \in 1..published
         /\ Tail(inbox[n]) \in Seq(1..published)
<1>1. inbox[n] \in Seq(1..published)
  BY DEF IInv, ClusterOK
<1>2. Head(inbox[n]) \in 1..published /\ Tail(inbox[n]) \in Seq(1..published)
  BY <1>1, HeadTailProperties
<1>3. link[n] = "up"
  BY DEF IInv, ClusterOK
<1>4. QED
  BY <1>2, <1>3 DEF Drop, IInv, ClusterOK

\* A node's subscription goes.
LEMMA UnsubscribeType ==
  ASSUME IInv, NEW n \in Nodes, NEW to \in {"down", "off"}, Unsubscribe(n, to),
         UNCHANGED <<framework, published>>, node' \in [Nodes -> {"up", "stopping", "down"}]
  PROVE  ClusterOK' /\ due' \in [Numbers -> SUBSET Sockets]
<1>1. <<>> \in Seq(1..published)
  BY EmptySeq
<1>2. ClusterOK'
  BY <1>1 DEF Unsubscribe, IInv, ClusterOK
<1>3. due' \in [Numbers -> SUBSET Sockets]
  BY DEF Unsubscribe, IInv, HistoryOK
<1>4. QED
  BY <1>2, <1>3

\* Publications are numbered one by one.
LEMMA NumberedStep ==
  ASSUME IInv, [Next]_vars
  PROVE  framework' = framework /\ published \in Nat /\ published' \in {published, published + 1}
<1>1. published \in Nat
  BY BoundsAssumption DEF IInv, ClusterOK
<1>2. CASE Publish
  BY <1>1, <1>2 DEF Publish
<1>3. CASE UNCHANGED <<framework, published>>
  BY <1>1, <1>3
<1>4. ASSUME NEW s \in Sockets, Endpoint(s) PROVE Publish \/ UNCHANGED <<framework, published>>
  BY <1>4 DEF Endpoint, Connect, ClientGone, PublishFrom, PublishFails, ReceiveFails, PublishUnfollowed,
     PublishReplyLost,
     Disconnect, cluster
<1>5. ASSUME NEW n \in Nodes, Listener(n) PROVE UNCHANGED <<framework, published>>
  BY <1>5 DEF Listener, Take, Cast, Send, EndCast, BreakCast, ThrowCast, cluster
<1>6. ASSUME NEW n \in Nodes, LinkDown(n) \/ LinkUp(n) \/ Lifespan(n)
      PROVE  UNCHANGED <<framework, published>>
  BY <1>6 DEF LinkDown, LinkUp, Lifespan, StartNode, StartDeaf, StopNode, HaltNode, CrashNode,
     Forget
<1>7. QED
  BY <1>2, <1>3, <1>4, <1>5, <1>6 DEF Next, BroadcastViaHttp, vars, cluster

LEMMA ClusterStep == IInv /\ [Next]_vars => ClusterOK'
<1> SUFFICES ASSUME IInv, [Next]_vars PROVE ClusterOK'
  OBVIOUS
<1>1. CASE UNCHANGED cluster
  BY <1>1 DEF cluster, IInv, ClusterOK
<1>2. ASSUME NEW s \in Sockets, Endpoint(s) PROVE Publish \/ UNCHANGED cluster
  BY <1>2 DEF Endpoint, Connect, ClientGone, PublishFrom, PublishFails, ReceiveFails, PublishUnfollowed,
     PublishReplyLost, Disconnect
<1>3. ASSUME NEW n \in Nodes, Take(n) PROVE ClusterOK'
  BY <1>3, TakeType DEF Take
<1>4. ASSUME NEW n \in Nodes, NEW c \in CastsOf(n), Cast(c) PROVE UNCHANGED cluster
  BY <1>4 DEF Cast, Send, EndCast, BreakCast, ThrowCast
<1>5. ASSUME NEW n \in Nodes, LinkDown(n) PROVE ClusterOK'
  BY <1>5, UnsubscribeType DEF LinkDown, IInv, ClusterOK
<1>6. ASSUME NEW n \in Nodes, LinkUp(n) \/ StartNode(n) \/ StartDeaf(n) PROVE ClusterOK'
  <2>1. inbox[n] = <<>>
    BY <1>6 DEF LinkUp, StartNode, StartDeaf, IInv, ClusterOK, DownOK
  <2>2. QED
    BY <1>6, <2>1 DEF LinkUp, StartNode, StartDeaf, IInv, ClusterOK
<1>7. ASSUME NEW n \in Nodes, StopNode(n) PROVE ClusterOK'
  <2>1. node' \in [Nodes -> {"up", "stopping", "down"}]
    BY <1>7 DEF StopNode, IInv, ClusterOK
  <2>2. CASE Unsubscribe(n, "off")
    BY <1>7, <2>1, <2>2, UnsubscribeType DEF StopNode
  <2>3. CASE UNCHANGED <<link, inbox>>
    BY <1>7, <2>1, <2>3 DEF StopNode, IInv, ClusterOK
  <2>4. QED
    BY <1>7, <2>2, <2>3 DEF StopNode
<1>8. ASSUME NEW n \in Nodes, HaltNode(n) \/ CrashNode(n) PROVE ClusterOK'
  <2>1. node' \in [Nodes -> {"up", "stopping", "down"}]
    BY <1>8 DEF HaltNode, CrashNode, Forget, IInv, ClusterOK
  <2>2. QED
    BY <1>8, <2>1, UnsubscribeType DEF HaltNode, CrashNode, Forget
<1>9. QED
  BY <1>1, <1>2, <1>3, <1>4, <1>5, <1>6, <1>7, <1>8, PublishType
     DEF Next, Listener, Lifespan, BroadcastViaHttp, vars, cluster

LEMMA AfterType ==
  ASSUME NEW s \in Sockets, pc[s] \in Speaking
  PROVE  After(s) = IF pc[s] = "leaving" THEN "done" ELSE "open"
BY DEF After, Speaking

LEMMA SocketsStep == IInv /\ [Next]_vars => SocketsOK'
<1> SUFFICES ASSUME IInv, [Next]_vars PROVE SocketsOK'
  OBVIOUS
<1> USE DEF IInv, SocketsOK, Speaking
<1>1. CASE UNCHANGED <<rooms, pc, alive>>
  BY <1>1 DEF Here
<1>2. ASSUME NEW s \in Sockets,
            \/ PublishFrom(s) \/ PublishFails(s) \/ PublishReplyLost(s)
            \/ ReceiveFails(s) \/ PublishUnfollowed(s)
      PROVE  SocketsOK'
  <2>1. UNCHANGED rooms /\ pc[s] \in Speaking
    BY <1>2 DEF PublishFrom, PublishFails, ReceiveFails, PublishUnfollowed, PublishReplyLost
  <2>2. After(s) \in {"open", "done"}
    BY <2>1, AfterType
  <2>3. /\ pc' \in {pc, [pc EXCEPT ![s] = After(s)], [pc EXCEPT ![s] = "done"]}
        /\ alive' \in {alive, [alive EXCEPT ![s] = FALSE]}
    BY <1>2 DEF PublishFrom, PublishFails, ReceiveFails, PublishUnfollowed, PublishReplyLost, EndpointError
  <2>4. pc' \in [Sockets -> Speaking \cup {"new", "done"}]
    BY <2>2, <2>3
  <2>5. alive' \in [Sockets -> BOOLEAN]
    BY <2>3
  <2>6. \A r \in Sockets : alive'[r] => pc'[r] \in {"joining", "open"}
    <3>1. alive[s] => After(s) = "open"
      BY <2>1, AfterType
    <3>2. CASE pc' = pc \/ pc' = [pc EXCEPT ![s] = After(s)]
      BY <2>3, <3>1, <3>2
    <3>3. CASE alive' = [alive EXCEPT ![s] = FALSE]
      BY <2>3, <3>3
    <3>4. CASE ~alive[s]
      BY <2>3, <3>4
    <3>5. QED
      BY <1>2, <3>2, <3>3 DEF PublishFrom, PublishFails, ReceiveFails, PublishUnfollowed, PublishReplyLost,
         EndpointError
  <2>7. QED
    BY <2>1, <2>4, <2>5, <2>6 DEF Here
<1>3. ASSUME NEW s \in Sockets, Connect(s) PROVE SocketsOK'
  <2>1. /\ rooms' \in [Nodes -> SUBSET Sockets]
        /\ \A n \in Nodes : rooms'[n] \subseteq Here(n)
    <3>1. rooms' = [rooms EXCEPT ![NodeOf[s]] = @ \cup {s}] /\ NodeOf[s] \in Nodes
      BY <1>3, SocketsAssumption DEF Connect
    <3>2. \A n \in Nodes : rooms'[n] \in SUBSET Sockets /\ rooms'[n] \subseteq Here(n)
      BY <3>1 DEF Here
    <3>3. QED
      BY <3>1, <3>2
  <2>2. pc' = [pc EXCEPT ![s] = "joining"] /\ alive' = [alive EXCEPT ![s] = TRUE]
    BY <1>3 DEF Connect
  <2>3. QED
    BY <2>1, <2>2 DEF Here
<1>4. ASSUME NEW s \in Sockets, ClientGone(s) PROVE SocketsOK'
  BY <1>4 DEF ClientGone, Here
<1>5. ASSUME NEW s \in Sockets, Disconnect(s) PROVE SocketsOK'
  BY <1>5, SocketsAssumption DEF Disconnect, RoomWithout, Here
<1>6. ASSUME NEW n \in Nodes, NEW c \in CastsOf(n), Cast(c) PROVE SocketsOK'
  <2>1. UNCHANGED <<pc, alive>>
    BY <1>6 DEF Cast, Send, EndCast, BreakCast, ThrowCast
  <2>2. rooms' = rooms \/ rooms' = [rooms EXCEPT ![c.node] = @ \ c.failed]
    BY <1>6 DEF Cast, Send, EndCast, BreakCast, ThrowCast
  <2>3. rooms' \in [Nodes -> SUBSET Sockets] /\ \A m \in Nodes : rooms'[m] \subseteq rooms[m]
    BY <2>2
  <2>4. QED
    BY <2>1, <2>3 DEF Here
<1>7. ASSUME NEW n \in Nodes, StopNode(n) \/ HaltNode(n) \/ CrashNode(n) PROVE SocketsOK'
  <2>1. rooms' \in {rooms, [rooms EXCEPT ![n] = {}]}
    BY <1>7 DEF StopNode, HaltNode, CrashNode, Forget
  <2>2. rooms' \in [Nodes -> SUBSET Sockets] /\ \A m \in Nodes : rooms'[m] \subseteq rooms[m]
    BY <2>1
  <2>3. pc' \in [Sockets -> Speaking \cup {"new", "done"}]
    BY <1>7 DEF StopNode, HaltNode, CrashNode
  <2>4. alive' \in [Sockets -> BOOLEAN]
    <3>1. alive' = alive \/ alive' = [s \in Sockets |-> alive[s] /\ s \notin Here(n)]
      BY <1>7 DEF StopNode, HaltNode, CrashNode
    <3>2. QED
      BY <3>1, Zenon
  <2>5. ASSUME NEW s \in Sockets, alive'[s] PROVE pc'[s] \in {"joining", "open"}
    <3>1. alive[s] /\ (CrashNode(n) => s \notin Here(n))
      BY <1>7, <2>5 DEF StopNode, HaltNode, CrashNode
    <3>2. pc'[s] = pc[s]
      BY <1>7, <3>1 DEF StopNode, HaltNode, CrashNode
    <3>3. QED
      BY <3>1, <3>2
  <2>6. QED
    BY <2>2, <2>3, <2>4, <2>5 DEF Here
<1>8. QED
  BY <1>1, <1>2, <1>3, <1>4, <1>5, <1>6, <1>7 DEF Next, Endpoint, Listener, Lifespan,
     BroadcastViaHttp, Take, LinkDown, LinkUp, StartNode, StartDeaf, vars

\* A broadcast that is under way is only ever cut down, and a join may extend it.
LEMMA CastsStep == IInv /\ [Next]_vars => CastsOK'
<1> SUFFICES ASSUME IInv, [Next]_vars PROVE CastsOK'
  OBVIOUS
<1>1. framework' = framework /\ published \in Nat /\ published' \in {published, published + 1}
  BY NumberedStep
<1>2. CASE casts' \subseteq casts
  BY <1>1, <1>2, BoundsAssumption DEF IInv, CastsOK, Casts, Numbers
<1>3. ASSUME NEW n, NEW f \in [CastsOf(n) -> Casts],
             \A c \in CastsOf(n) : f[c].node = c.node /\ f[c].msg = c.msg,
             casts' = (casts \ CastsOf(n)) \cup {f[c] : c \in CastsOf(n)}
      PROVE  CastsOK'
  <2>1. \A c \in casts' : \E d \in casts : c \in Casts /\ c.node = d.node /\ c.msg = d.msg
                        /\ c = IF d.node = n THEN f[d] ELSE d
    BY <1>3 DEF IInv, CastsOK, CastsOf
  <2>2. casts' \subseteq Casts /\ (framework = "nest" => casts' = {})
    BY <2>1 DEF IInv, CastsOK
  <2>3. \A c \in casts' : c.msg <= published'
    BY <1>1, <2>1, BoundsAssumption DEF IInv, CastsOK, Casts, Numbers
  <2>4. framework = "fastapi" => \A c, d \in casts' : c.node = d.node => c = d
    BY <2>1 DEF IInv, CastsOK
  <2>5. QED
    BY <1>1, <2>2, <2>3, <2>4 DEF CastsOK
<1>4. ASSUME NEW s \in Sockets, Connect(s) PROVE CastsOK'
  <2>1. PICK left \in [CastsOf(NodeOf[s]) -> SUBSET Sockets] :
          casts' = (casts \ CastsOf(NodeOf[s]))
                     \cup {[c EXCEPT !.left = left[c]] : c \in CastsOf(NodeOf[s])}
    BY <1>4 DEF Connect
  <2> DEFINE f == [c \in CastsOf(NodeOf[s]) |-> [c EXCEPT !.left = left[c]]]
  <2>2. f \in [CastsOf(NodeOf[s]) -> Casts]
        /\ \A c \in CastsOf(NodeOf[s]) : f[c].node = c.node /\ f[c].msg = c.msg
    BY DEF IInv, CastsOK, CastsOf, Casts
  <2>3. casts' = (casts \ CastsOf(NodeOf[s])) \cup {f[c] : c \in CastsOf(NodeOf[s])}
    BY <2>1
  <2> HIDE DEF f
  <2>4. QED
    BY <1>3, <2>2, <2>3
<1>5. ASSUME NEW s \in Sockets, Disconnect(s) PROVE CastsOK'
  <2> DEFINE f == [c \in CastsOf(NodeOf[s]) |-> Without(c, s)]
  <2>1. f \in [CastsOf(NodeOf[s]) -> Casts]
        /\ \A c \in CastsOf(NodeOf[s]) : f[c].node = c.node /\ f[c].msg = c.msg
    <3>1. -1 \in -1..Cardinality(Sockets)
      BY SocketsAssumption, FS_CardinalityType
    <3>2. QED
      BY <3>1 DEF IInv, CastsOK, CastsOf, Casts, Without
  <2>2. casts' = (casts \ CastsOf(NodeOf[s])) \cup {f[c] : c \in CastsOf(NodeOf[s])}
    BY <1>5 DEF Disconnect
  <2>3. QED
    BY <1>3, <2>1, <2>2
<1>6. ASSUME NEW n \in Nodes, Take(n) PROVE CastsOK'
  <2>1. Head(inbox[n]) \in 1..published
    BY <1>6, TakeType DEF Take
  <2>2. Cardinality(rooms[n]) \in 0..Cardinality(Sockets)
    BY SocketsAssumption, FS_Subset, FS_CardinalityType DEF IInv, SocketsOK
  <2>3. CASE casts' = casts
    BY <1>2, <2>3
  <2>4. CASE casts' # casts
    <3> DEFINE cast == [node |-> n, msg |-> Head(inbox[n]), left |-> rooms[n],
                        size |-> IF framework = "fastapi" THEN Cardinality(rooms[n]) ELSE 0,
                        failed |-> {}]
    <3>1. casts' = casts \cup {cast} /\ framework # "nest" /\ published' = published
      BY <1>6, <2>4 DEF Take
    <3>2. cast \in Casts /\ cast.node = n /\ cast.msg = Head(inbox[n])
      <4>1. 0 \in -1..Cardinality(Sockets) /\ Cardinality(rooms[n]) \in -1..Cardinality(Sockets)
        BY <2>2, SocketsAssumption, FS_CardinalityType
      <4>2. Head(inbox[n]) \in Numbers
        BY <1>1, <2>1, BoundsAssumption DEF Numbers, IInv, ClusterOK
      <4>3. rooms[n] \in SUBSET Sockets
        BY DEF IInv, SocketsOK
      <4>4. QED
        BY <4>1, <4>2, <4>3 DEF Casts
    <3> HIDE DEF cast
    <3>3. framework = "fastapi" => \A c \in casts : c.node # n
      BY <1>6 DEF Take, MayTake, CastsOf
    <3>4. QED
      BY <1>1, <2>1, <3>1, <3>2, <3>3 DEF IInv, CastsOK
  <2>5. QED
    BY <2>3, <2>4
<1>7. ASSUME NEW n \in Nodes, NEW c \in CastsOf(n), NEW s \in c.left, Send(c, s) PROVE CastsOK'
  <2>1. PICK failed \in SUBSET Sockets : casts' = (casts \ {c}) \cup {Visited(c, s, failed)}
    BY <1>7 DEF Send, IInv, CastsOK, CastsOf, Casts
  <2>2. /\ Visited(c, s, failed) \in Casts /\ Visited(c, s, failed).node = c.node
        /\ Visited(c, s, failed).msg = c.msg
    BY DEF Visited, IInv, CastsOK, CastsOf, Casts
  <2>3. published' = published /\ c \in casts
    BY <1>7 DEF Send, cluster, CastsOf
  <2>4. QED
    BY <1>1, <2>1, <2>2, <2>3 DEF IInv, CastsOK
<1>8. ASSUME NEW n \in Nodes, NEW c \in CastsOf(n), EndCast(c) \/ BreakCast(c) \/ ThrowCast(c)
      PROVE  casts' \subseteq casts
  BY <1>8 DEF EndCast, BreakCast, ThrowCast
<1>9. QED
  BY <1>2, <1>4, <1>5, <1>6, <1>7, <1>8 DEF Next, Endpoint, Listener, Lifespan, Cast,
     BroadcastViaHttp, LinkDown, LinkUp, StartNode, StartDeaf, StopNode, HaltNode, CrashNode,
     Forget, ClientGone, PublishFrom, PublishFails, ReceiveFails, PublishUnfollowed, PublishReplyLost, vars

\* What a send does to the clients.
LEMMA ReceivedType ==
  ASSUME IInv, NEW audience, NEW m \in 1..published, Received(audience, m)
  PROVE  got' \in [Sockets -> Seq(1..published)]
<1>1. \A s \in Sockets : Append(got[s], m) \in Seq(1..published) /\ got[s] \in Seq(1..published)
  BY AppendType DEF IInv, HistoryOK, ClusterOK
<1>2. QED
  BY <1>1 DEF Received

LEMMA GotStep == IInv /\ [Next]_vars => got' \in [Sockets -> Seq(1..published')]
<1> SUFFICES ASSUME IInv, [Next]_vars PROVE got' \in [Sockets -> Seq(1..published')]
  OBVIOUS
<1>1. CASE got' \in [Sockets -> Seq(1..published)]
  <2>1. published \in Nat /\ published' \in {published, published + 1}
    BY NumberedStep
  <2>2. \A s \in Sockets : got'[s] \in Seq(1..published')
    BY <1>1, <2>1, Widen
  <2>3. QED
    BY <1>1, <2>2
<1>2. CASE UNCHANGED got
  BY <1>1, <1>2 DEF IInv, HistoryOK
<1>3. ASSUME NEW n \in Nodes, Take(n) PROVE got' \in [Sockets -> Seq(1..published)]
  <2>1. Head(inbox[n]) \in 1..published
    BY <1>3, TakeType DEF Take
  <2>2. CASE Received(rooms[n], Head(inbox[n]))
    BY <2>1, <2>2, ReceivedType
  <2>3. CASE UNCHANGED got
    BY <2>3 DEF IInv, HistoryOK
  <2>4. QED
    BY <1>3, <2>2, <2>3 DEF Take
<1>4. ASSUME NEW n \in Nodes, NEW c \in CastsOf(n), NEW s \in c.left, Send(c, s)
      PROVE  got' \in [Sockets -> Seq(1..published)]
  <2>1. c.msg \in 1..published
    BY BoundsAssumption DEF IInv, CastsOK, CastsOf, Casts, Numbers, ClusterOK
  <2>2. QED
    BY <1>4, <2>1, ReceivedType DEF Send
<1>5. ASSUME NEW s \in Sockets, Endpoint(s) PROVE UNCHANGED got
  BY <1>5 DEF Endpoint, Connect, ClientGone, PublishFrom, PublishFails, ReceiveFails, PublishUnfollowed,
     PublishReplyLost,
     Disconnect
<1>6. ASSUME NEW n \in Nodes, LinkDown(n) \/ LinkUp(n) \/ Lifespan(n) PROVE UNCHANGED got
  BY <1>6 DEF LinkDown, LinkUp, Lifespan, StartNode, StartDeaf, StopNode, HaltNode, CrashNode,
     Forget
<1>7. ASSUME NEW n \in Nodes, NEW c \in CastsOf(n), EndCast(c) \/ BreakCast(c) \/ ThrowCast(c)
      PROVE  UNCHANGED got
  BY <1>7 DEF EndCast, BreakCast, ThrowCast
<1>8. QED
  BY <1>1, <1>2, <1>3, <1>4, <1>5, <1>6, <1>7 DEF Next, Listener, Cast, BroadcastViaHttp, vars

LEMMA HistoryStep == IInv /\ [Next]_vars => HistoryOK'
<1> SUFFICES ASSUME IInv, [Next]_vars PROVE HistoryOK'
  OBVIOUS
<1> USE DEF IInv, HistoryOK
<1>1. faults' \in 0..MaxFaults
  <2>1. faults' = faults \/ Fault
    <3>1. ASSUME NEW s \in Sockets, Endpoint(s) PROVE faults' = faults \/ Fault
      BY <3>1 DEF Endpoint, Connect, ClientGone, PublishFrom, PublishFails, ReceiveFails, PublishUnfollowed,
         PublishReplyLost,
         Disconnect
    <3>2. ASSUME NEW n \in Nodes, Listener(n) PROVE faults' = faults
      BY <3>2 DEF Listener, Take, Cast, Send, EndCast, BreakCast, ThrowCast
    <3>3. ASSUME NEW n \in Nodes, LinkDown(n) \/ LinkUp(n) \/ Lifespan(n)
          PROVE  faults' = faults \/ Fault
      BY <3>3 DEF LinkDown, LinkUp, Lifespan, StartNode, StartDeaf, StopNode, HaltNode,
         CrashNode
    <3>4. QED
      BY <3>1, <3>2, <3>3 DEF Next, BroadcastViaHttp, vars
  <2>2. QED
    BY <2>1, BoundsAssumption DEF Fault
<1>2. due' \in [Numbers -> SUBSET Sockets]
  <2>1. CASE Publish
    BY <2>1 DEF Publish, Members
  <2>2. CASE UNCHANGED due
    BY <2>2
  <2>3. ASSUME NEW n \in Nodes, NEW to, Unsubscribe(n, to)
        PROVE  due' \in [Numbers -> SUBSET Sockets]
    BY <2>3 DEF Unsubscribe
  <2>4. ASSUME NEW s \in Sockets, Endpoint(s) PROVE Publish \/ UNCHANGED due
    BY <2>4 DEF Endpoint, Connect, ClientGone, PublishFrom, PublishFails, ReceiveFails, PublishUnfollowed,
       PublishReplyLost,
       Disconnect, history
  <2>5. ASSUME NEW n \in Nodes, Listener(n) PROVE UNCHANGED due
    BY <2>5 DEF Listener, Take, Cast, Send, EndCast, BreakCast, ThrowCast, history
  <2>6. ASSUME NEW n \in Nodes, LinkDown(n) \/ LinkUp(n) \/ Lifespan(n)
        PROVE  UNCHANGED due \/ \E to : Unsubscribe(n, to)
    BY <2>6 DEF LinkDown, LinkUp, Lifespan, StartNode, StartDeaf, StopNode, HaltNode,
       CrashNode,
       Forget, history
  <2>7. QED
    BY <2>1, <2>2, <2>3, <2>4, <2>5, <2>6 DEF Next, BroadcastViaHttp, vars, history
<1>3. disturbed' \subseteq Nodes \X Numbers
  <2>1. ASSUME NEW n \in Nodes, NEW c \in CastsOf(n) PROVE <<n, c.msg>> \in Nodes \X Numbers
    BY <2>1 DEF CastsOK, CastsOf, Casts
  <2>2. CASE UNCHANGED disturbed
    BY <2>2
  <2>3. ASSUME NEW n \in Nodes, Disturb(n) PROVE disturbed' \subseteq Nodes \X Numbers
    BY <2>1, <2>3 DEF Disturb
  <2>4. ASSUME NEW s \in Sockets, Endpoint(s) PROVE UNCHANGED disturbed \/ Disturb(NodeOf[s])
    BY <2>4 DEF Endpoint, Connect, ClientGone, PublishFrom, PublishFails, ReceiveFails, PublishUnfollowed,
       PublishReplyLost,
       Disconnect, Publish, history
  <2>5. ASSUME NEW n \in Nodes, Listener(n) PROVE disturbed' \subseteq Nodes \X Numbers
    <3>1. CASE UNCHANGED disturbed
      BY <3>1
    <3>2. ASSUME NEW c \in CastsOf(n), ThrowCast(c) PROVE disturbed' \subseteq Nodes \X Numbers
      BY <2>1, <3>2 DEF ThrowCast, CastsOf
    <3>3. QED
      BY <2>5, <3>1, <3>2 DEF Listener, Take, Cast, Send, EndCast, BreakCast, history
  <2>6. ASSUME NEW n \in Nodes, LinkDown(n) \/ LinkUp(n) \/ Lifespan(n) PROVE UNCHANGED disturbed
    BY <2>6 DEF LinkDown, LinkUp, Lifespan, StartNode, StartDeaf, StopNode, HaltNode,
       CrashNode,
       Forget, history
  <2>7. QED
    BY <2>2, <2>3, <2>4, <2>5, <2>6, SocketsAssumption DEF Next, BroadcastViaHttp, Publish,
       vars,
       history
<1>4. QED
  BY <1>1, <1>2, <1>3, GotStep

\* Nothing of a node outlives its process.
LEMMA DownStep == IInv /\ [Next]_vars => DownOK'
<1> SUFFICES ASSUME IInv, [Next]_vars, NEW n \in Nodes, node'[n] = "down"
             PROVE  /\ link'[n] = "off" /\ rooms'[n] = {} /\ CastsOf(n)' = {}
                    /\ \A s \in Here(n) : pc'[s] \in {"new", "done"} /\ ~alive'[s]
  BY DEF DownOK, Here
<1>1. ASSUME node[n] = "down"
      PROVE  /\ link[n] = "off" /\ rooms[n] = {} /\ CastsOf(n) = {} /\ inbox[n] = <<>>
             /\ \A s \in Here(n) : pc[s] \in {"new", "done"} /\ ~alive[s]
  BY <1>1 DEF IInv, DownOK, ClusterOK
<1>2. ASSUME NEW s \in Sockets, Endpoint(s), node[n] = "down"
      PROVE  NodeOf[s] # n \/ UNCHANGED <<rooms, pc, alive, casts>>
  BY <1>1, <1>2 DEF Endpoint, Connect, ClientGone, PublishFrom, PublishFails, ReceiveFails, PublishUnfollowed,
     PublishReplyLost,
     Disconnect, Here, Speaking
<1>3. CASE node[n] # "down"
  <2>1. Forget(n) /\ (HaltNode(n) \/ CrashNode(n))
    <3>1. Publish => UNCHANGED node
      BY DEF Publish
    <3>2. ASSUME NEW s \in Sockets, Endpoint(s) PROVE UNCHANGED node
      BY <3>1, <3>2 DEF Endpoint, Connect, ClientGone, PublishFrom, PublishFails, ReceiveFails, PublishUnfollowed,
         PublishReplyLost, Disconnect, cluster
    <3>3. ASSUME NEW m \in Nodes, Listener(m) \/ LinkDown(m) \/ LinkUp(m) PROVE UNCHANGED node
      BY <3>3 DEF Listener, Take, Cast, Send, EndCast, BreakCast, ThrowCast, LinkDown, LinkUp,
         cluster
    <3>4. ASSUME NEW m \in Nodes, StartNode(m) \/ StartDeaf(m) \/ StopNode(m) PROVE node'[n] # "down"
      BY <1>3, <3>4 DEF StartNode, StartDeaf, StopNode, IInv, ClusterOK
    <3>5. ASSUME NEW m \in Nodes, HaltNode(m) \/ CrashNode(m)
          PROVE  Forget(n) /\ (HaltNode(n) \/ CrashNode(n))
      BY <1>3, <3>5 DEF HaltNode, CrashNode, Forget, IInv, ClusterOK
    <3>6. QED
      BY <1>3, <3>1, <3>2, <3>3, <3>4, <3>5 DEF Next, BroadcastViaHttp, Lifespan, vars, cluster
  <2>2. link'[n] = "off" /\ rooms'[n] = {} /\ CastsOf(n)' = {}
    BY <2>1 DEF Forget, Unsubscribe, CastsOf, IInv, ClusterOK, SocketsOK
  <2>3. ASSUME NEW s \in Here(n) PROVE pc'[s] \in {"new", "done"} /\ ~alive'[s]
    <3>1. s \in Sockets
      BY DEF Here
    <3>2. CASE HaltNode(n)
      BY <3>1, <3>2 DEF HaltNode, IInv, SocketsOK
    <3>3. CASE CrashNode(n)
      <4>1. pc'[s] \in {"new", "done"}
        BY <3>1, <3>3 DEF CrashNode
      <4>2. ~alive'[s]
        BY <3>1, <3>3 DEF CrashNode
      <4>3. QED
        BY <4>1, <4>2
    <3>4. QED
      BY <2>1, <3>2, <3>3
  <2>4. QED
    BY <2>2, <2>3
<1>4. CASE node[n] = "down"
  <2> DEFINE Still == /\ link'[n] = "off" /\ rooms'[n] = {} /\ CastsOf(n)' = {}
                      /\ \A s \in Here(n) : pc'[s] = pc[s] /\ alive'[s] = alive[s]
  <2>1. /\ link[n] = "off" /\ rooms[n] = {} /\ CastsOf(n) = {} /\ inbox[n] = <<>>
        /\ \A s \in Here(n) : pc[s] \in {"new", "done"} /\ ~alive[s]
    BY <1>1, <1>4
  <2>2. CASE UNCHANGED <<link, rooms, pc, alive, casts>>
    BY <2>1, <2>2 DEF CastsOf
  <2>3. ASSUME NEW s \in Sockets, Endpoint(s) PROVE Still
    <3>1. link' = link
      BY <2>3 DEF Endpoint, Connect, ClientGone, PublishFrom, PublishFails, ReceiveFails, PublishUnfollowed,
         PublishReplyLost,
         Disconnect, Publish, cluster
    <3>2. CASE UNCHANGED <<rooms, pc, alive, casts>>
      BY <2>2, <3>1, <3>2
    <3>3. CASE NodeOf[s] # n
      <4>1. rooms'[n] = rooms[n]
        BY <2>3, <3>3 DEF Endpoint, Connect, ClientGone, PublishFrom, PublishFails,
           ReceiveFails, PublishUnfollowed,
           PublishReplyLost, Disconnect, IInv, SocketsOK
      <4>2. \A r \in Here(n) : pc'[r] = pc[r] /\ alive'[r] = alive[r]
        BY <2>3, <3>3 DEF Endpoint, Connect, ClientGone, PublishFrom, PublishFails,
           ReceiveFails, PublishUnfollowed,
           PublishReplyLost, EndpointError, Disconnect, Here, IInv, SocketsOK
      <4>3. CASE UNCHANGED casts
        BY <2>1, <3>1, <4>1, <4>2, <4>3 DEF CastsOf
      <4>4. ASSUME casts' # casts PROVE \A c \in casts' : \E d \in casts : c.node = d.node
        <5>1. CASE Connect(s)
          BY <5>1 DEF Connect, CastsOf, IInv, CastsOK, Casts
        <5>2. CASE Disconnect(s)
          BY <5>2 DEF Disconnect, Without, CastsOf, IInv, CastsOK, Casts
        <5>3. QED
          BY <2>3, <4>4, <5>1, <5>2 DEF Endpoint, ClientGone, PublishFrom, PublishFails,
             ReceiveFails, PublishUnfollowed,
             PublishReplyLost
      <4>5. QED
        BY <2>1, <3>1, <4>1, <4>2, <4>3, <4>4 DEF CastsOf
    <3>4. QED
      BY <1>2, <1>4, <2>3, <3>2, <3>3
  <2>4. ASSUME NEW m \in Nodes, Listener(m) PROVE Still
    <3>1. UNCHANGED <<link, pc, alive>>
      BY <2>4 DEF Listener, Take, Cast, Send, EndCast, BreakCast, ThrowCast, cluster
    <3>2. rooms'[n] = {}
      <4>1. rooms' = rooms \/ \E c \in CastsOf(m) : rooms' = [rooms EXCEPT ![c.node] = @ \ c.failed]
        BY <2>4 DEF Listener, Take, Cast, Send, EndCast, BreakCast, ThrowCast
      <4>2. QED
        BY <2>1, <4>1 DEF IInv, SocketsOK
    <3>3. CASE casts' \subseteq casts
      BY <2>1, <3>1, <3>2, <3>3 DEF CastsOf
    <3>4. ASSUME Take(m), casts' # casts PROVE Still
      <4>1. m # n
        BY <2>1, <3>4 DEF Take
      <4>2. \A c \in casts' : c \in casts \/ c.node = m
        BY <3>4 DEF Take
      <4>3. QED
        BY <2>1, <3>1, <3>2, <4>1, <4>2 DEF CastsOf
    <3>5. ASSUME NEW c \in CastsOf(m), NEW s \in c.left, Send(c, s) PROVE Still
      <4>1. PICK failed : casts' = (casts \ {c}) \cup {Visited(c, s, failed)}
        BY <3>5 DEF Send
      <4>2. c \in casts /\ Visited(c, s, failed).node = c.node
        BY DEF Visited, CastsOf, IInv, CastsOK, Casts
      <4>3. \A d \in casts' : \E e \in casts : d.node = e.node
        BY <4>1, <4>2
      <4>4. QED
        BY <2>1, <3>1, <3>2, <4>3 DEF CastsOf
    <3>6. QED
      BY <2>4, <3>3, <3>4, <3>5 DEF Listener, Cast, EndCast, BreakCast, ThrowCast
  <2>5. ASSUME NEW m \in Nodes, LinkDown(m) \/ LinkUp(m) PROVE Still
    <3>1. m # n
      BY <2>1, <2>5 DEF LinkDown, LinkUp, MayTake
    <3>2. link'[n] = link[n]
      BY <2>5, <3>1 DEF LinkDown, LinkUp, Unsubscribe, IInv, ClusterOK
    <3>3. UNCHANGED <<rooms, pc, alive, casts>>
      BY <2>5 DEF LinkDown, LinkUp
    <3>4. QED
      BY <2>1, <3>2, <3>3 DEF CastsOf
  <2>6. ASSUME NEW m \in Nodes, Lifespan(m) PROVE Still
    <3>1. m # n
      BY <1>4, <2>6 DEF Lifespan, StartNode, StartDeaf, StopNode, HaltNode, CrashNode, IInv,
         ClusterOK
    <3>2. link'[n] = link[n]
      BY <2>6, <3>1 DEF Lifespan, StartNode, StartDeaf, StopNode, HaltNode, CrashNode, Forget,
         Unsubscribe, IInv, ClusterOK
    <3>3. rooms'[n] = rooms[n] /\ casts' \subseteq casts
      BY <2>6, <3>1 DEF Lifespan, StartNode, StartDeaf, StopNode, HaltNode, CrashNode, Forget,
         IInv, SocketsOK
    <3>4. ASSUME NEW s \in Here(n) PROVE pc'[s] = pc[s] /\ alive'[s] = alive[s]
      <4>1. s \in Sockets /\ s \notin Here(m)
        BY <3>1 DEF Here
      <4>2. pc'[s] = pc[s]
        BY <2>6, <4>1 DEF Lifespan, StartNode, StartDeaf, StopNode, HaltNode, CrashNode
      <4>3. alive' = alive \/ alive' = [r \in Sockets |-> alive[r] /\ r \notin Here(m)]
        BY <2>6 DEF Lifespan, StartNode, StartDeaf, StopNode, HaltNode, CrashNode
      <4>4. alive[s] \in BOOLEAN
        BY <4>1 DEF IInv, SocketsOK
      <4>5. alive'[s] = alive[s]
        BY <4>1, <4>3, <4>4
      <4>6. QED
        BY <4>2, <4>5
    <3>5. QED
      BY <2>1, <3>2, <3>3, <3>4 DEF CastsOf
  <2>7. Still
    BY <2>2, <2>3, <2>4, <2>5, <2>6, <2>1 DEF Next, BroadcastViaHttp, Publish, vars, cluster
  <2>8. QED
    BY <2>1, <2>7
<1>5. QED
  BY <1>3, <1>4

LEMMA TypeStep == IInv /\ [Next]_vars => IInv'
BY ClusterStep, SocketsStep, CastsStep, HistoryStep, DownStep DEF IInv

LEMMA IInvTypeOK == IInv => TypeOK
<1> SUFFICES ASSUME IInv PROVE TypeOK
  OBVIOUS
<1>1. published \in Nat
  BY BoundsAssumption DEF IInv, ClusterOK
<1>2. \A n \in Nodes : Elements(inbox[n]) \subseteq 1..published
  BY <1>1, ElementsType DEF IInv, ClusterOK
<1>3. \A s \in Sockets : Elements(got[s]) \subseteq 1..published
  BY <1>1, ElementsType DEF IInv, HistoryOK
<1>4. ASSUME framework = "fastapi", NEW n \in Nodes PROVE Cardinality(CastsOf(n)) <= 1
  <2>1. CASE CastsOf(n) = {}
    BY <2>1, FS_EmptySet
  <2>2. ASSUME NEW c \in CastsOf(n) PROVE Cardinality(CastsOf(n)) = 1
    <3>1. CastsOf(n) = {c}
      BY <1>4, <2>2 DEF IInv, CastsOK, CastsOf
    <3>2. QED
      BY <3>1, FS_Singleton
  <2>3. QED
    BY <2>1, <2>2
<1>5. QED
  BY <1>2, <1>3, <1>4 DEF TypeOK, IInv, ClusterOK, SocketsOK, CastsOK, HistoryOK, DownOK, Here

\* Only sockets of a room's own node are in it, a node that is down has
\* nothing left, FastAPI has one broadcast per node, NestJS none.
THEOREM TypeCorrect == Spec => []TypeOK
<1>1. Init => IInv
  BY InitType
<1>2. IInv /\ [Next]_vars => IInv'
  BY TypeStep
<1>3. IInv => TypeOK
  BY IInvTypeOK
<1>4. QED
  BY <1>1, <1>2, <1>3, PTL DEF Spec

-----------------------------------------------------------------------------
(***************************************************************************)
(* What becomes of the sockets: one is not in its room before it joins and *)
(* while it takes its leave, and after that only where FastAPI's endpoint  *)
(* ended on an error.                                                      *)
(***************************************************************************)
RoomOK(s) ==
  /\ pc[s] \in {"new", "leaving"} => s \notin rooms[NodeOf[s]]
  /\ pc[s] = "done" /\ s \in rooms[NodeOf[s]] => framework = "fastapi" /\ ~alive[s]

RoomsInv == IInv /\ \A s \in Sockets : RoomOK(s)

\* A socket that a step does not concern: its room may lose members.
LEMMA RoomKept ==
  ASSUME NEW s \in Sockets, RoomOK(s), framework' = framework,
         pc'[s] = pc[s], alive'[s] => alive[s],
         s \in rooms'[NodeOf[s]] => s \in rooms[NodeOf[s]]
  PROVE  RoomOK(s)'
BY DEF RoomOK

LEMMA EndpointRooms ==
  ASSUME RoomsInv, [Next]_vars, NEW s \in Sockets, Endpoint(s), NEW r \in Sockets
  PROVE  RoomOK(r)'
<1>1. framework' = framework
  BY NumberedStep DEF RoomsInv
<1>2. CASE r # s
  <2>1. pc'[r] = pc[r] /\ alive'[r] = alive[r]
    BY <1>2 DEF Endpoint, Connect, ClientGone, PublishFrom, PublishFails, ReceiveFails, PublishUnfollowed,
       PublishReplyLost,
       EndpointError, Disconnect, RoomsInv, IInv, SocketsOK
  <2>2. r \in rooms'[NodeOf[r]] => r \in rooms[NodeOf[r]]
    BY <1>2, SocketsAssumption DEF Endpoint, Connect, ClientGone, PublishFrom,
       PublishFails, ReceiveFails, PublishUnfollowed,
       PublishReplyLost, Disconnect, RoomWithout, RoomsInv, IInv, SocketsOK
  <2>3. QED
    BY <1>1, <2>1, <2>2, RoomKept DEF RoomsInv
<1>3. CASE r = s
  <2>1. /\ pc \in [Sockets -> Speaking \cup {"new", "done"}] /\ alive \in [Sockets -> BOOLEAN]
        /\ rooms \in [Nodes -> SUBSET Sockets] /\ NodeOf[s] \in Nodes
        /\ alive[s] => pc[s] \in {"joining", "open"}
        /\ RoomOK(s)
    BY SocketsAssumption DEF RoomsInv, IInv, SocketsOK
  <2>2. CASE Connect(s)
    <3>1. pc'[s] = "joining"
      BY <2>1, <2>2 DEF Connect
    <3>2. QED
      BY <1>3, <3>1 DEF RoomOK
  <2>3. CASE ClientGone(s)
    BY <1>1, <1>3, <2>1, <2>3, RoomKept DEF ClientGone, RoomsInv
  <2>4. CASE Disconnect(s)
    <3>1. pc'[s] = "leaving" /\ s \notin rooms'[NodeOf[s]]
      BY <2>1, <2>4 DEF Disconnect, RoomWithout
    <3>2. QED
      BY <1>3, <3>1 DEF RoomOK
  <2>5. ASSUME pc[s] \in Speaking, UNCHANGED rooms,
               pc' = [pc EXCEPT ![s] = After(s)], alive' = alive
        PROVE  RoomOK(s)'
    BY <1>1, <2>1, <2>5, AfterType DEF RoomOK
  <2>6. ASSUME UNCHANGED rooms, pc[s] \in Speaking, EndpointError(s)
        PROVE  RoomOK(s)'
    <3>1. CASE framework = "fastapi"
      <4>1. pc'[s] = "done" /\ ~alive'[s]
        BY <2>1, <2>6, <3>1 DEF EndpointError
      <4>2. QED
        BY <1>1, <3>1, <4>1 DEF RoomOK
    <3>2. CASE framework # "fastapi"
      BY <2>5, <2>6, <3>2 DEF EndpointError
    <3>3. QED
      BY <3>1, <3>2
  <2>7. ASSUME UNCHANGED <<rooms, pc, alive>> PROVE RoomOK(s)'
    BY <1>1, <2>1, <2>7, RoomKept DEF RoomsInv
  <2>8. QED
    BY <1>3, <2>2, <2>3, <2>4, <2>5, <2>6, <2>7 DEF Endpoint, PublishFrom, PublishFails,
       ReceiveFails, PublishUnfollowed,
       PublishReplyLost, Speaking
<1>4. QED
  BY <1>2, <1>3

LEMMA NodeRooms ==
  ASSUME RoomsInv, [Next]_vars, NEW n \in Nodes,
         Listener(n) \/ LinkDown(n) \/ LinkUp(n) \/ Lifespan(n), NEW r \in Sockets
  PROVE  RoomOK(r)'
<1>1. framework' = framework
  BY NumberedStep DEF RoomsInv
<1>2. r \in rooms'[NodeOf[r]] => r \in rooms[NodeOf[r]]
  <2>1. /\ rooms \in [Nodes -> SUBSET Sockets] /\ NodeOf[r] \in Nodes
    BY SocketsAssumption DEF RoomsInv, IInv, SocketsOK
  <2>2. ASSUME Listener(n) PROVE rooms' = rooms
                                 \/ \E c \in CastsOf(n) : rooms' = [rooms EXCEPT ![c.node] = @ \ c.failed]
    BY <2>2 DEF Listener, Take, Cast, Send, EndCast, BreakCast, ThrowCast
  <2>3. ASSUME ~Listener(n) PROVE rooms' = rooms \/ rooms' = [rooms EXCEPT ![n] = {}]
    BY <2>3 DEF LinkDown, LinkUp, Lifespan, StartNode, StartDeaf, StopNode, HaltNode,
       CrashNode,
       Forget
  <2>4. QED
    BY <2>1, <2>2, <2>3
<1>3. alive'[r] => alive[r]
  BY DEF Listener, Take, Cast, Send, EndCast, BreakCast, ThrowCast, LinkDown, LinkUp, Lifespan,
     StartNode, StartDeaf, StopNode, HaltNode, CrashNode
<1>4. CASE pc'[r] = pc[r]
  BY <1>1, <1>2, <1>3, <1>4, RoomKept DEF RoomsInv
<1>5. CASE CrashNode(n)
  <2>1. CASE r \in Here(n)
    <3>1. rooms'[NodeOf[r]] = {}
      BY <1>5, <2>1 DEF CrashNode, Forget, Here, RoomsInv, IInv, SocketsOK
    <3>2. QED
      BY <3>1 DEF RoomOK
  <2>2. CASE r \notin Here(n)
    <3>1. pc'[r] = pc[r]
      BY <1>5, <2>2 DEF CrashNode
    <3>2. QED
      BY <1>4, <3>1
  <2>3. QED
    BY <2>1, <2>2
<1>6. QED
  BY <1>4, <1>5 DEF Listener, Take, Cast, Send, EndCast, BreakCast, ThrowCast, LinkDown,
     LinkUp,
     Lifespan, StartNode, StartDeaf, StopNode, HaltNode

LEMMA RoomsStep == RoomsInv /\ [Next]_vars => RoomsInv'
<1> SUFFICES ASSUME RoomsInv, [Next]_vars PROVE RoomsInv'
  OBVIOUS
<1>1. IInv'
  BY TypeStep DEF RoomsInv
<1>2. CASE BroadcastViaHttp \/ UNCHANGED vars
  <2>1. UNCHANGED <<framework, rooms, pc, alive, faults>>
    BY <1>2 DEF BroadcastViaHttp, Publish, vars, cluster
  <2>2. QED
    BY <1>1, <2>1 DEF RoomsInv, RoomOK
<1>3. QED
  BY <1>1, <1>2, EndpointRooms, NodeRooms DEF Next, RoomsInv

LEMMA RoomsInit == Init => RoomsInv
<1>1. ASSUME Init, NEW s \in Sockets PROVE RoomOK(s)
  BY <1>1, SocketsAssumption DEF Init, RoomOK
<1>2. QED
  BY <1>1, InitType DEF RoomsInv

-----------------------------------------------------------------------------
(***************************************************************************)
(* The messages of the channel.                                            *)
(***************************************************************************)
Ascending(seq) == \A i, j \in DOMAIN seq : i < j => seq[i] < seq[j]

\* What is on its way to a node is newer than all that its listener has taken, ...
AheadOK ==
  \A n \in Nodes :
    /\ Ascending(inbox[n])
    /\ \A i \in DOMAIN inbox[n] :
         /\ \A c \in CastsOf(n) : c.msg < inbox[n][i]
         /\ \A s \in Here(n) : \A j \in DOMAIN got[s] : got[s][j] < inbox[n][i]

\* ... a broadcast goes to sockets of its node that have joined, ...
WalkOK ==
  /\ \A c \in casts : c.left \subseteq Here(c.node)
  /\ \A c, d \in casts : c.node = d.node /\ c.msg = d.msg => c = d
  /\ \A s \in Sockets : pc[s] = "new" =>
       got[s] = <<>> /\ s \notin rooms[NodeOf[s]] /\ \A c \in casts : s \notin c.left

\* ... nobody is ahead of the broadcast of its node, where there is one only, ...
OrderOK ==
  framework # "spring" =>
    /\ \A s \in Sockets : \A i, j \in DOMAIN got[s] : i < j => got[s][i] <= got[s][j]
    /\ \A c \in casts : \A s \in Here(c.node) : \A j \in DOMAIN got[s] : got[s][j] <= c.msg

\* ... and who is still to be visited has not got the message.
Excused(s, m) == framework = "fastapi" /\ <<NodeOf[s], m>> \in disturbed

OnceOK ==
  /\ \A c \in casts : \A s \in c.left : c.msg \in Elements(got[s]) => Excused(s, c.msg)
  /\ \A s \in Sockets : \A i, j \in DOMAIN got[s] :
       i # j /\ got[s][i] = got[s][j] => Excused(s, got[s][i])

ChannelInv == IInv /\ AheadOK /\ WalkOK /\ OrderOK /\ OnceOK

\* A message arrives, as a sequence.
LEMMA Arrives ==
  ASSUME NEW p \in Nat, NEW q \in Seq(1..p), NEW m \in Nat
  PROVE  /\ \A j \in DOMAIN Append(q, m) :
              \/ j \in DOMAIN q /\ Append(q, m)[j] = q[j]
              \/ j = Len(q) + 1 /\ Append(q, m)[j] = m
         /\ \A j \in DOMAIN q : j \in Nat /\ j < Len(q) + 1 /\ q[j] \in 1..p
         /\ Len(q) \in Nat
         /\ Elements(Append(q, m)) = Elements(q) \cup {m}
<1>1. q \in Seq(Nat)
  <2>1. 1..p \subseteq Nat
    OBVIOUS
  <2>2. QED
    BY <2>1, SeqMonotonic
<1>2. /\ Append(q, m) \in Seq(Nat) /\ Len(Append(q, m)) = Len(q) + 1
      /\ \A i \in 1..Len(q) : Append(q, m)[i] = q[i]
      /\ Append(q, m)[Len(q) + 1] = m
  BY <1>1, AppendProperties
<1>3. /\ Len(q) \in Nat /\ DOMAIN q = 1..Len(q) /\ \A j \in 1..Len(q) : q[j] \in 1..p
      /\ DOMAIN Append(q, m) = 1 .. Len(q) + 1
  BY <1>2, LenProperties, ElementOfSeq
<1>4. /\ \A j \in DOMAIN Append(q, m) : j \in DOMAIN q \/ j = Len(q) + 1
      /\ \A j \in DOMAIN q : j \in DOMAIN Append(q, m)
      /\ Len(q) + 1 \in DOMAIN Append(q, m)
      /\ \A j \in DOMAIN q : j \in Nat /\ j < Len(q) + 1
  BY <1>3
<1>5. \A j \in DOMAIN q : Append(q, m)[j] = q[j]
  BY <1>2, <1>3
<1>6. Elements(Append(q, m)) = Elements(q) \cup {m}
  BY <1>2, <1>4, <1>5, Zenon DEF Elements
<1>7. QED
  BY <1>2, <1>3, <1>4, <1>5, <1>6

\* The oldest message is taken.
LEMMA TakesOldest ==
  ASSUME NEW p \in Nat, NEW q \in Seq(1..p), q # <<>>, Ascending(q)
  PROVE  /\ Head(q) \in 1..p /\ 1 \in DOMAIN q /\ Head(q) = q[1]
         /\ Ascending(Tail(q))
         /\ \A i \in DOMAIN Tail(q) : /\ Head(q) < Tail(q)[i]
                                      /\ \E k \in DOMAIN q : Tail(q)[i] = q[k]
<1>1. /\ Head(q) = q[1] /\ Head(q) \in 1..p
      /\ Tail(q) \in Seq(1..p) /\ Len(Tail(q)) = Len(q) - 1
      /\ \A i \in 1 .. Len(Tail(q)) : Tail(q)[i] = q[i + 1]
  BY HeadTailProperties
<1>2. /\ Len(q) \in Nat /\ DOMAIN q = 1..Len(q) /\ Len(q) # 0
      /\ DOMAIN Tail(q) = 1..Len(Tail(q)) /\ Len(Tail(q)) \in Nat
  BY <1>1, LenProperties, EmptySeq
<1>3. ASSUME NEW i \in DOMAIN Tail(q)
      PROVE  /\ i + 1 \in DOMAIN q /\ 1 < i + 1 /\ 1 \in DOMAIN q /\ i \in Nat
             /\ Tail(q)[i] = q[i + 1]
  BY <1>1, <1>2
<1>4. \A i \in DOMAIN Tail(q) : Head(q) < Tail(q)[i]
  BY <1>1, <1>3 DEF Ascending
<1>5. Ascending(Tail(q))
  <2> SUFFICES ASSUME NEW i \in DOMAIN Tail(q), NEW j \in DOMAIN Tail(q), i < j
               PROVE  Tail(q)[i] < Tail(q)[j]
    BY DEF Ascending
  <2>1. /\ i + 1 \in DOMAIN q /\ j + 1 \in DOMAIN q /\ i + 1 < j + 1
        /\ Tail(q)[i] = q[i + 1] /\ Tail(q)[j] = q[j + 1]
    BY <1>3
  <2>2. QED
    BY <2>1 DEF Ascending
<1>6. QED
  BY <1>1, <1>2, <1>3, <1>4, <1>5

\* The types that the order of messages is read from.
LEMMA Ordered ==
  ASSUME IInv
  PROVE  /\ published \in Nat
         /\ \A s \in Sockets : got[s] \in Seq(1..published) /\ NodeOf[s] \in Nodes
         /\ \A s \in Sockets : \A j \in DOMAIN got[s] : got[s][j] \in 1..published
         /\ \A n \in Nodes : inbox[n] \in Seq(1..published)
         /\ \A n \in Nodes : \A j \in DOMAIN inbox[n] : inbox[n][j] \in 1..published
         /\ \A c \in casts : /\ c.msg \in 1..published /\ c.node \in Nodes
                             /\ c \in CastsOf(c.node)
<1>1. published \in Nat
  BY BoundsAssumption DEF IInv, ClusterOK
<1>2. /\ \A s \in Sockets : got[s] \in Seq(1..published) /\ NodeOf[s] \in Nodes
      /\ \A n \in Nodes : inbox[n] \in Seq(1..published)
  BY SocketsAssumption DEF IInv, ClusterOK, HistoryOK
<1>3. \A c \in casts : c.msg \in 1..published /\ c.node \in Nodes /\ c \in CastsOf(c.node)
  BY <1>1, BoundsAssumption DEF IInv, CastsOK, Casts, Numbers, CastsOf
<1>4. ASSUME NEW q \in Seq(1..published) PROVE \A j \in DOMAIN q : q[j] \in 1..published
  BY <1>1, ElementsType
<1>5. QED
  BY <1>1, <1>2, <1>3, <1>4

-----------------------------------------------------------------------------
\* A step that hands nothing to a client and starts or widens no broadcast.
Kept ==
  /\ framework' = framework /\ got' = got /\ disturbed \subseteq disturbed'
  /\ \A n \in Nodes : inbox'[n] \in {inbox[n], <<>>, Append(inbox[n], published + 1)}
  /\ \A s \in Sockets : pc'[s] = "new" => pc[s] = "new"
  /\ \A n \in Nodes : rooms'[n] \subseteq rooms[n]
  /\ \A c \in casts' : \E d \in casts : c.node = d.node /\ c.msg = d.msg /\ c.left \subseteq d.left
  /\ \A c, d \in casts' : c.node = d.node /\ c.msg = d.msg => c = d

LEMMA KeptAhead == ChannelInv /\ Kept => AheadOK'
<1> SUFFICES ASSUME ChannelInv, Kept, NEW n \in Nodes
             PROVE  /\ Ascending(inbox'[n])
                    /\ \A i \in DOMAIN inbox'[n] :
                         /\ \A c \in CastsOf(n)' : c.msg < inbox'[n][i]
                         /\ \A s \in Here(n) : \A j \in DOMAIN got[s] : got[s][j] < inbox'[n][i]
  BY DEF AheadOK, Kept, Here, Ascending
<1>1. IInv /\ AheadOK
  BY DEF ChannelInv
<1>2. \A c \in CastsOf(n)' : \E d \in CastsOf(n) : c.msg = d.msg
  BY DEF Kept, CastsOf
<1>3. /\ published \in Nat /\ inbox[n] \in Seq(1..published)
      /\ \A i \in DOMAIN inbox[n] : inbox[n][i] \in 1..published
      /\ \A c \in CastsOf(n) : c.msg \in 1..published
      /\ \A s \in Here(n) : \A j \in DOMAIN got[s] : got[s][j] \in 1..published
  BY <1>1, Ordered DEF CastsOf, Here
<1>4. CASE inbox'[n] = inbox[n]
  BY <1>1, <1>2, <1>4 DEF AheadOK
<1>5. CASE inbox'[n] = <<>>
  <2>1. DOMAIN <<>> = {}
    OBVIOUS
  <2>2. QED
    BY <1>5, <2>1 DEF Ascending
<1>6. CASE inbox'[n] = Append(inbox[n], published + 1)
  <2>1. /\ \A j \in DOMAIN inbox'[n] :
              \/ j \in DOMAIN inbox[n] /\ inbox'[n][j] = inbox[n][j]
              \/ j = Len(inbox[n]) + 1 /\ inbox'[n][j] = published + 1
        /\ \A j \in DOMAIN inbox[n] : j \in Nat /\ j < Len(inbox[n]) + 1
        /\ Len(inbox[n]) \in Nat
    BY <1>3, <1>6, Arrives
  <2>2. Ascending(inbox'[n])
    <3> SUFFICES ASSUME NEW i \in DOMAIN inbox'[n], NEW j \in DOMAIN inbox'[n], i < j
                 PROVE  inbox'[n][i] < inbox'[n][j]
      BY DEF Ascending
    <3>1. i \in DOMAIN inbox[n] /\ inbox'[n][i] = inbox[n][i]
      BY <2>1
    <3>2. CASE j \in DOMAIN inbox[n] /\ inbox'[n][j] = inbox[n][j]
      BY <1>1, <3>1, <3>2 DEF AheadOK, Ascending
    <3>3. CASE inbox'[n][j] = published + 1
      BY <1>3, <3>1, <3>3
    <3>4. QED
      BY <2>1, <3>2, <3>3
  <2>3. \A i \in DOMAIN inbox'[n] : \A c \in CastsOf(n)' : c.msg < inbox'[n][i]
    BY <1>1, <1>2, <1>3, <2>1 DEF AheadOK
  <2>4. \A i \in DOMAIN inbox'[n] : \A s \in Here(n) : \A j \in DOMAIN got[s] :
          got[s][j] < inbox'[n][i]
    BY <1>1, <1>3, <2>1 DEF AheadOK
  <2>5. QED
    BY <2>2, <2>3, <2>4
<1>7. QED
  BY <1>4, <1>5, <1>6 DEF Kept

LEMMA KeptRest == ChannelInv /\ Kept => WalkOK' /\ OrderOK' /\ OnceOK'
<1> SUFFICES ASSUME ChannelInv, Kept PROVE WalkOK' /\ OrderOK' /\ OnceOK'
  OBVIOUS
<1>1. WalkOK'
  <2>1. \A c \in casts' : c.left \subseteq Here(c.node)
    BY DEF Kept, ChannelInv, WalkOK
  <2>2. ASSUME NEW s \in Sockets, pc'[s] = "new"
        PROVE  got'[s] = <<>> /\ s \notin rooms'[NodeOf[s]] /\ \A c \in casts' : s \notin c.left
    BY <2>2, SocketsAssumption DEF Kept, ChannelInv, WalkOK
  <2>3. QED
    BY <2>1, <2>2 DEF Kept, WalkOK, Here
<1>2. OrderOK'
  BY DEF Kept, ChannelInv, OrderOK, Here
<1>3. OnceOK'
  <2>1. \A s \in Sockets : \A m : Excused(s, m)
          => framework' = "fastapi" /\ <<NodeOf[s], m>> \in disturbed'
    BY DEF Kept, Excused
  <2>2. ASSUME NEW c \in casts', NEW s \in c.left, c.msg \in Elements(got'[s])
        PROVE  framework' = "fastapi" /\ <<NodeOf[s], c.msg>> \in disturbed'
    <3>1. PICK d \in casts : c.msg = d.msg /\ s \in d.left
      BY DEF Kept
    <3>2. s \in Sockets
      BY <3>1 DEF ChannelInv, IInv, CastsOK, Casts
    <3>3. QED
      BY <2>1, <2>2, <3>1, <3>2 DEF Kept, ChannelInv, OnceOK
  <2>3. ASSUME NEW s \in Sockets, NEW i \in DOMAIN got'[s], NEW j \in DOMAIN got'[s],
               i # j, got'[s][i] = got'[s][j]
        PROVE  framework' = "fastapi" /\ <<NodeOf[s], got'[s][i]>> \in disturbed'
    <3>1. Excused(s, got[s][i])
      BY <2>3 DEF Kept, ChannelInv, OnceOK
    <3>2. QED
      BY <2>1, <3>1 DEF Kept
  <2>4. QED
    BY <2>2, <2>3 DEF OnceOK, Excused
<1>4. QED
  BY <1>1, <1>2, <1>3

-----------------------------------------------------------------------------
\* The listener takes a message: it is newer than all that came before it.
LEMMA TakeChannel ==
  ASSUME ChannelInv, NEW n \in Nodes, Take(n)
  PROVE  AheadOK' /\ WalkOK' /\ OrderOK' /\ OnceOK'
<1> DEFINE m == Head(inbox[n])
           cast == [node |-> n, msg |-> m, left |-> rooms[n],
                    size |-> IF framework = "fastapi" THEN Cardinality(rooms[n]) ELSE 0,
                    failed |-> {}]
<1>1. IInv /\ AheadOK /\ WalkOK /\ OrderOK /\ OnceOK
  BY DEF ChannelInv
<1>2. /\ framework' = framework /\ pc' = pc /\ rooms' = rooms /\ disturbed' = disturbed
      /\ inbox' = [inbox EXCEPT ![n] = Tail(@)] /\ inbox[n] # <<>>
      /\ inbox \in [Nodes -> Seq(1..published)]
  BY <1>1 DEF Take, Drop, history, IInv, ClusterOK
<1>3. /\ published \in Nat /\ m \in 1..published /\ m \in Nat
      /\ 1 \in DOMAIN inbox[n] /\ m = inbox[n][1]
      /\ Ascending(Tail(inbox[n]))
      /\ \A i \in DOMAIN Tail(inbox[n]) : /\ m < Tail(inbox[n])[i]
                                          /\ \E k \in DOMAIN inbox[n] : Tail(inbox[n])[i] = inbox[n][k]
  <2>1. published \in Nat /\ inbox[n] \in Seq(1..published) /\ Ascending(inbox[n])
    BY <1>1, Ordered DEF AheadOK
  <2>2. QED
    BY <1>2, <2>1, TakesOldest
<1>4. /\ \A c \in CastsOf(n) : c.msg < m
      /\ \A s \in Here(n) : \A j \in DOMAIN got[s] : got[s][j] < m
  BY <1>1, <1>3 DEF AheadOK
<1>5. rooms[n] \subseteq Here(n) /\ \A s \in rooms[n] : pc[s] # "new"
  BY <1>1 DEF IInv, SocketsOK, WalkOK, Here
<1>6. ASSUME NEW s \in Sockets
      PROVE  \/ got'[s] = got[s]
             \/ /\ got'[s] = Append(got[s], m) /\ s \in rooms[n] /\ framework = "nest"
  BY DEF Take, Received
<1>7. ASSUME NEW s \in Sockets
      PROVE  /\ \A j \in DOMAIN got'[s] :
                  \/ j \in DOMAIN got[s] /\ got'[s][j] = got[s][j]
                  \/ j = Len(got[s]) + 1 /\ got'[s][j] = m /\ s \in Here(n) /\ framework = "nest"
             /\ \A j \in DOMAIN got[s] : j \in Nat /\ j < Len(got[s]) + 1 /\ got[s][j] \in Nat
             /\ Len(got[s]) \in Nat
  <2>1. got[s] \in Seq(1..published)
    BY <1>1, Ordered
  <2>2. /\ \A j \in DOMAIN Append(got[s], m) :
             \/ j \in DOMAIN got[s] /\ Append(got[s], m)[j] = got[s][j]
             \/ j = Len(got[s]) + 1 /\ Append(got[s], m)[j] = m
        /\ \A j \in DOMAIN got[s] : j \in Nat /\ j < Len(got[s]) + 1 /\ got[s][j] \in 1..published
        /\ Len(got[s]) \in Nat
    BY <1>3, <2>1, Arrives
  <2>3. CASE got'[s] = got[s]
    BY <2>2, <2>3
  <2>4. CASE got'[s] = Append(got[s], m) /\ s \in rooms[n] /\ framework = "nest"
    BY <1>5, <2>2, <2>4
  <2>5. QED
    BY <1>6, <2>3, <2>4
<1>8. casts' = casts \/ (casts' = casts \cup {cast} /\ got' = got /\ framework # "nest")
  BY DEF Take
<1>9. cast.node = n /\ cast.msg = m /\ cast.left = rooms[n]
  OBVIOUS
<1> HIDE DEF cast, m
<1>10. AheadOK'
  <2> SUFFICES ASSUME NEW k \in Nodes
               PROVE  /\ Ascending(inbox'[k])
                      /\ \A i \in DOMAIN inbox'[k] :
                           /\ \A c \in CastsOf(k)' : c.msg < inbox'[k][i]
                           /\ \A s \in Here(k) : \A j \in DOMAIN got'[s] : got'[s][j] < inbox'[k][i]
    BY DEF AheadOK, Here, Ascending
  <2>1. CASE k = n
    <3>1. inbox'[k] = Tail(inbox[n])
      BY <1>2, <2>1
    <3>2. \A i \in DOMAIN inbox'[k] : \A c \in CastsOf(k)' : c.msg < inbox'[k][i]
      BY <1>1, <1>3, <1>8, <1>9, <2>1, <3>1 DEF AheadOK, CastsOf
    <3>3. \A i \in DOMAIN inbox'[k] : \A s \in Here(k) : \A j \in DOMAIN got'[s] :
            got'[s][j] < inbox'[k][i]
      BY <1>1, <1>3, <1>7, <2>1, <3>1 DEF AheadOK, Here
    <3>4. QED
      BY <1>3, <3>1, <3>2, <3>3
  <2>2. CASE k # n
    <3>1. inbox'[k] = inbox[k] /\ CastsOf(k)' = CastsOf(k)
      BY <1>2, <1>8, <1>9, <2>2 DEF CastsOf
    <3>2. \A s \in Here(k) : got'[s] = got[s]
      BY <1>5, <1>6, <2>2 DEF Here
    <3>3. QED
      BY <1>1, <3>1, <3>2 DEF AheadOK
  <2>3. QED
    BY <2>1, <2>2
<1>11. WalkOK'
  <2>1. \A c \in casts' : c.left \subseteq Here(c.node)
    BY <1>1, <1>5, <1>8, <1>9 DEF WalkOK
  <2>2. \A c, d \in casts' : c.node = d.node /\ c.msg = d.msg => c = d
    <3>1. \A c \in casts : c.node = n => c.msg # m
      BY <1>1, <1>3, <1>4, Ordered DEF CastsOf
    <3>2. QED
      BY <1>1, <1>8, <1>9, <3>1 DEF WalkOK
  <2>3. ASSUME NEW s \in Sockets, pc'[s] = "new"
        PROVE  got'[s] = <<>> /\ s \notin rooms'[NodeOf[s]] /\ \A c \in casts' : s \notin c.left
    BY <1>1, <1>2, <1>5, <1>6, <1>8, <1>9, <2>3 DEF WalkOK
  <2>4. QED
    BY <2>1, <2>2, <2>3 DEF WalkOK, Here
<1>12. OrderOK'
  <2> SUFFICES ASSUME framework # "spring"
               PROVE  /\ \A s \in Sockets : \A i, j \in DOMAIN got'[s] : i < j => got'[s][i] <= got'[s][j]
                      /\ \A c \in casts' : \A s \in Here(c.node) : \A j \in DOMAIN got'[s] :
                           got'[s][j] <= c.msg
    BY <1>2 DEF OrderOK, Here
  <2>1. \A s \in Sockets : \A i, j \in DOMAIN got'[s] : i < j => got'[s][i] <= got'[s][j]
    <3> SUFFICES ASSUME NEW s \in Sockets, NEW i \in DOMAIN got'[s], NEW j \in DOMAIN got'[s], i < j
                 PROVE  got'[s][i] <= got'[s][j]
      OBVIOUS
    <3>1. i \in DOMAIN got[s] /\ got'[s][i] = got[s][i] /\ got[s][i] \in Nat
      BY <1>7
    <3>2. CASE j \in DOMAIN got[s] /\ got'[s][j] = got[s][j]
      BY <1>1, <3>1, <3>2 DEF OrderOK
    <3>3. CASE got'[s][j] = m /\ s \in Here(n)
      BY <1>3, <1>4, <3>1, <3>3
    <3>4. QED
      BY <1>7, <3>2, <3>3
  <2>2. ASSUME NEW c \in casts', NEW s \in Here(c.node), NEW j \in DOMAIN got'[s]
        PROVE  got'[s][j] <= c.msg
    <3>1. got' = got
      <4>1. casts # {} \/ framework # "nest"
        BY <1>8, <2>2
      <4>2. framework # "nest"
        BY <1>1, <4>1 DEF IInv, CastsOK
      <4>3. QED
        BY <4>2 DEF Take, Received, IInv, HistoryOK, ChannelInv
    <3>2. CASE c \in casts
      BY <1>1, <2>2, <3>1, <3>2 DEF OrderOK
    <3>3. CASE c = cast
      <4>1. s \in Sockets /\ got[s][j] \in Nat
        BY <1>7, <2>2, <3>1 DEF Here
      <4>2. QED
        BY <1>3, <1>4, <1>9, <2>2, <3>1, <3>3, <4>1
    <3>4. QED
      BY <1>8, <3>2, <3>3
  <2>3. QED
    BY <2>1, <2>2
<1>13. OnceOK'
  <2>1. \A s \in Here(n) : m \notin Elements(got[s])
    <3> SUFFICES ASSUME NEW s \in Here(n), NEW j \in DOMAIN got[s], got[s][j] = m PROVE FALSE
      BY DEF Elements
    <3>1. QED
      BY <1>3, <1>4
  <2>2. ASSUME NEW c \in casts', NEW s \in c.left, c.msg \in Elements(got'[s])
        PROVE  framework' = "fastapi" /\ <<NodeOf[s], c.msg>> \in disturbed'
    <3>1. s \in Sockets /\ got' = got
      BY <1>1, <1>5, <1>8, <1>9, <2>2 DEF Take, Received, IInv, CastsOK, Casts, HistoryOK, Here
    <3>2. c # cast
      BY <1>5, <1>9, <2>1, <2>2, <3>1
    <3>3. QED
      BY <1>1, <1>2, <1>8, <2>2, <3>1, <3>2 DEF OnceOK, Excused
  <2>3. ASSUME NEW s \in Sockets, NEW i \in DOMAIN got'[s], NEW j \in DOMAIN got'[s],
               i # j, got'[s][i] = got'[s][j]
        PROVE  framework' = "fastapi" /\ <<NodeOf[s], got'[s][i]>> \in disturbed'
    <3>1. CASE /\ i \in DOMAIN got[s] /\ got'[s][i] = got[s][i]
               /\ j \in DOMAIN got[s] /\ got'[s][j] = got[s][j]
      BY <1>1, <1>2, <2>3, <3>1 DEF OnceOK, Excused
    <3>2. ASSUME s \in Here(n), NEW k \in DOMAIN got[s] PROVE got[s][k] # m
      BY <2>1, <3>2 DEF Elements
    <3>3. QED
      BY <1>7, <2>3, <3>1, <3>2
  <2>4. QED
    BY <2>2, <2>3 DEF OnceOK, Excused
<1>14. QED
  BY <1>10, <1>11, <1>12, <1>13

\* One send: the client has not got this message, and FastAPI's listener has not
\* taken a newer one.
LEMMA SendChannel ==
  ASSUME ChannelInv, NEW n \in Nodes, NEW c \in CastsOf(n), NEW s \in c.left, Send(c, s)
  PROVE  AheadOK' /\ WalkOK' /\ OrderOK' /\ OnceOK'
<1>1. /\ IInv /\ AheadOK /\ WalkOK /\ OrderOK /\ OnceOK
      /\ c \in casts /\ c.node = n /\ s \in Here(n) /\ s \in Sockets
  BY DEF ChannelInv, WalkOK, CastsOf, Here
<1>2. UNCHANGED <<framework, inbox, rooms, pc, disturbed>>
  BY DEF Send, cluster, history
<1>3. PICK visited : /\ casts' = (casts \ {c}) \cup {visited}
                     /\ visited.node = n /\ visited.msg = c.msg /\ visited.left = c.left \ {s}
  <2>1. PICK failed : casts' = (casts \ {c}) \cup {Visited(c, s, failed)}
    BY DEF Send
  <2>2. /\ Visited(c, s, failed).node = n /\ Visited(c, s, failed).msg = c.msg
        /\ Visited(c, s, failed).left = c.left \ {s}
    BY <1>1 DEF Visited, IInv, CastsOK, Casts
  <2>3. QED
    BY <2>1, <2>2
<1>4. c.msg \in 1..published /\ c.msg \in Nat
  BY <1>1, Ordered
<1>5. ASSUME NEW r \in Sockets
      PROVE  got'[r] = got[r] \/ (got'[r] = Append(got[r], c.msg) /\ r = s)
  BY DEF Send, Received
<1>6. ASSUME NEW r \in Sockets
      PROVE  /\ \A j \in DOMAIN got'[r] :
                  \/ j \in DOMAIN got[r] /\ got'[r][j] = got[r][j]
                  \/ j = Len(got[r]) + 1 /\ got'[r][j] = c.msg /\ r = s
             /\ \A j \in DOMAIN got[r] : j \in Nat /\ j < Len(got[r]) + 1 /\ got[r][j] \in Nat
             /\ Len(got[r]) \in Nat
  <2>1. got[r] \in Seq(1..published) /\ published \in Nat
    BY <1>1, Ordered
  <2>2. /\ \A j \in DOMAIN Append(got[r], c.msg) :
             \/ j \in DOMAIN got[r] /\ Append(got[r], c.msg)[j] = got[r][j]
             \/ j = Len(got[r]) + 1 /\ Append(got[r], c.msg)[j] = c.msg
        /\ \A j \in DOMAIN got[r] : j \in Nat /\ j < Len(got[r]) + 1 /\ got[r][j] \in Nat
        /\ Len(got[r]) \in Nat
    BY <1>4, <2>1, Arrives
  <2>3. QED
    BY <1>5, <2>2
<1>7. AheadOK'
  <2> SUFFICES ASSUME NEW k \in Nodes
               PROVE  /\ Ascending(inbox[k])
                      /\ \A i \in DOMAIN inbox[k] :
                           /\ \A d \in CastsOf(k)' : d.msg < inbox[k][i]
                           /\ \A r \in Here(k) : \A j \in DOMAIN got'[r] : got'[r][j] < inbox[k][i]
    BY <1>2 DEF AheadOK, Here, Ascending
  <2>1. \A d \in CastsOf(k)' : \E e \in CastsOf(k) : d.msg = e.msg
    BY <1>1, <1>3 DEF CastsOf
  <2>2. \A i \in DOMAIN inbox[k] : \A r \in Here(k) : \A j \in DOMAIN got'[r] :
          got'[r][j] < inbox[k][i]
    <3> SUFFICES ASSUME NEW i \in DOMAIN inbox[k], NEW r \in Here(k), NEW j \in DOMAIN got'[r]
                 PROVE  got'[r][j] < inbox[k][i]
      OBVIOUS
    <3>1. CASE j \in DOMAIN got[r] /\ got'[r][j] = got[r][j]
      BY <1>1, <3>1 DEF AheadOK
    <3>2. CASE got'[r][j] = c.msg /\ r = s
      BY <1>1, <3>2 DEF AheadOK, Here
    <3>3. QED
      BY <1>6, <3>1, <3>2 DEF Here
  <2>3. QED
    BY <1>1, <2>1, <2>2 DEF AheadOK
<1>8. WalkOK'
  <2>1. \A d \in casts' : d.left \subseteq Here(d.node)
    BY <1>1, <1>3 DEF WalkOK
  <2>2. \A d, e \in casts' : d.node = e.node /\ d.msg = e.msg => d = e
    BY <1>1, <1>3 DEF WalkOK
  <2>3. ASSUME NEW r \in Sockets, pc'[r] = "new"
        PROVE  got'[r] = <<>> /\ r \notin rooms'[NodeOf[r]] /\ \A d \in casts' : r \notin d.left
    BY <1>1, <1>2, <1>3, <1>5, <2>3 DEF WalkOK
  <2>4. QED
    BY <2>1, <2>2, <2>3 DEF WalkOK, Here
<1>9. OrderOK'
  <2> SUFFICES ASSUME framework # "spring"
               PROVE  /\ \A r \in Sockets : \A i, j \in DOMAIN got'[r] : i < j => got'[r][i] <= got'[r][j]
                      /\ \A d \in casts' : \A r \in Here(d.node) : \A j \in DOMAIN got'[r] :
                           got'[r][j] <= d.msg
    BY <1>2 DEF OrderOK, Here
  <2>1. framework = "fastapi" /\ \A d \in casts : d.node = n => d = c
    BY <1>1, FrameworksAssumption DEF IInv, ClusterOK, CastsOK
  <2>2. \A r \in Sockets : \A i, j \in DOMAIN got'[r] : i < j => got'[r][i] <= got'[r][j]
    <3> SUFFICES ASSUME NEW r \in Sockets, NEW i \in DOMAIN got'[r], NEW j \in DOMAIN got'[r], i < j
                 PROVE  got'[r][i] <= got'[r][j]
      OBVIOUS
    <3>1. i \in DOMAIN got[r] /\ got'[r][i] = got[r][i] /\ got[r][i] \in Nat
      BY <1>6
    <3>2. CASE j \in DOMAIN got[r] /\ got'[r][j] = got[r][j]
      BY <1>1, <3>1, <3>2 DEF OrderOK
    <3>3. CASE got'[r][j] = c.msg /\ r = s
      BY <1>1, <3>1, <3>3 DEF OrderOK
    <3>4. QED
      BY <1>6, <3>2, <3>3
  <2>3. ASSUME NEW d \in casts', NEW r \in Here(d.node), NEW j \in DOMAIN got'[r]
        PROVE  got'[r][j] <= d.msg
    <3>1. r \in Sockets /\ NodeOf[r] = d.node /\ NodeOf[s] = n
      BY <1>1, <2>3 DEF Here
    <3>2. PICK e \in casts : e.node = d.node /\ e.msg = d.msg
      BY <1>1, <1>3
    <3>3. CASE j \in DOMAIN got[r] /\ got'[r][j] = got[r][j]
      BY <1>1, <2>3, <3>2, <3>3 DEF OrderOK
    <3>4. CASE got'[r][j] = c.msg /\ r = s
      BY <1>4, <2>1, <3>1, <3>2, <3>4
    <3>5. QED
      BY <1>6, <3>1, <3>3, <3>4
  <2>4. QED
    BY <2>2, <2>3
<1>10. OnceOK'
  <2>1. ASSUME NEW d \in casts', NEW r \in d.left, d.msg \in Elements(got'[r])
        PROVE  framework' = "fastapi" /\ <<NodeOf[r], d.msg>> \in disturbed'
    <3>1. PICK e \in casts : e.node = d.node /\ e.msg = d.msg /\ r \in e.left
      BY <1>1, <1>3
    <3>2. r \in Sockets /\ NodeOf[r] = d.node
      BY <1>1, <3>1 DEF WalkOK, Here
    <3>3. CASE d.msg \in Elements(got[r])
      BY <1>1, <1>2, <3>1, <3>2, <3>3 DEF OnceOK, Excused
    <3>4. CASE d.msg \notin Elements(got[r])
      <4>1. r = s /\ d.msg = c.msg
        BY <1>6, <2>1, <3>2, <3>4 DEF Elements
      <4>2. d # visited /\ d \in casts
        BY <1>3, <4>1, <2>1
      <4>3. d = c
        BY <1>1, <3>2, <4>1, <4>2 DEF WalkOK, Here
      <4>4. QED
        BY <1>3, <4>2, <4>3
    <3>5. QED
      BY <3>3, <3>4
  <2>2. ASSUME NEW r \in Sockets, NEW i \in DOMAIN got'[r], NEW j \in DOMAIN got'[r],
               i # j, got'[r][i] = got'[r][j]
        PROVE  framework' = "fastapi" /\ <<NodeOf[r], got'[r][i]>> \in disturbed'
    <3>1. CASE /\ i \in DOMAIN got[r] /\ got'[r][i] = got[r][i]
               /\ j \in DOMAIN got[r] /\ got'[r][j] = got[r][j]
      BY <1>1, <1>2, <2>2, <3>1 DEF OnceOK, Excused
    <3>2. ASSUME r = s, NEW k \in DOMAIN got[r], got[r][k] = c.msg
          PROVE  framework' = "fastapi" /\ <<NodeOf[r], c.msg>> \in disturbed'
      BY <1>1, <1>2, <3>2 DEF OnceOK, Excused, Elements
    <3>3. QED
      BY <1>6, <2>2, <3>1, <3>2
  <2>3. QED
    BY <2>1, <2>2 DEF OnceOK, Excused
<1>11. QED
  BY <1>7, <1>8, <1>9, <1>10

\* A join: the newcomer has got nothing yet, and FastAPI's broadcasts count as
\* disturbed.
LEMMA ConnectChannel ==
  ASSUME ChannelInv, NEW s \in Sockets, Connect(s)
  PROVE  AheadOK' /\ WalkOK' /\ OrderOK' /\ OnceOK'
<1> DEFINE n == NodeOf[s]
<1>1. /\ IInv /\ AheadOK /\ WalkOK /\ OrderOK /\ OnceOK
      /\ n \in Nodes /\ s \in Here(n) /\ pc[s] = "new" /\ got[s] = <<>>
      /\ pc \in [Sockets -> Speaking \cup {"new", "done"}]
      /\ rooms \in [Nodes -> SUBSET Sockets] /\ rooms[n] \subseteq Here(n)
  BY SocketsAssumption DEF ChannelInv, WalkOK, Connect, IInv, SocketsOK, Here
<1>2. /\ UNCHANGED <<framework, inbox, got>> /\ disturbed \subseteq disturbed'
      /\ pc' = [pc EXCEPT ![s] = "joining"] /\ rooms' = [rooms EXCEPT ![n] = @ \cup {s}]
  BY DEF Connect, cluster, Disturb
<1>3. PICK left \in [CastsOf(n) -> SUBSET Sockets] :
        /\ \A c \in CastsOf(n) : left[c] \in Rewalks(c, s)
        /\ casts' = (casts \ CastsOf(n)) \cup {[c EXCEPT !.left = left[c]] : c \in CastsOf(n)}
  BY DEF Connect
<1>4. ASSUME NEW c \in CastsOf(n)
      PROVE  /\ c \in casts /\ c.node = n
             /\ [c EXCEPT !.left = left[c]].node = n /\ [c EXCEPT !.left = left[c]].msg = c.msg
             /\ [c EXCEPT !.left = left[c]].left = left[c]
             /\ \/ left[c] \subseteq c.left
                \/ framework # "fastapi" /\ left[c] \subseteq c.left \cup {s}
                \/ /\ framework = "fastapi" /\ left[c] \subseteq rooms[n] \cup {s}
                   /\ <<n, c.msg>> \in disturbed'
  <2>1. c \in casts /\ c.node = n /\ c \in Casts
    BY <1>1 DEF CastsOf, IInv, CastsOK
  <2>2. /\ [c EXCEPT !.left = left[c]].node = n /\ [c EXCEPT !.left = left[c]].msg = c.msg
        /\ [c EXCEPT !.left = left[c]].left = left[c]
    BY <2>1 DEF Casts
  <2>3. framework = "fastapi" => <<n, c.msg>> \in disturbed'
    BY DEF Connect, Disturb
  <2>4. left[c] \in Rewalks(c, s)
    BY <1>3
  <2>5. CASE framework # "fastapi"
    BY <2>1, <2>2, <2>4, <2>5 DEF Rewalks
  <2>6. CASE framework = "fastapi" /\ c.size = -1
    BY <2>1, <2>2, <2>4, <2>6 DEF Rewalks
  <2>7. CASE framework = "fastapi" /\ c.size # -1
    BY <2>1, <2>2, <2>3, <2>4, <2>7 DEF Rewalks
  <2>8. QED
    BY <2>5, <2>6, <2>7
<1>5. ASSUME NEW c \in casts'
      PROVE  \E d \in casts :
               /\ c.node = d.node /\ c.msg = d.msg
               /\ \/ c.left \subseteq d.left
                  \/ d.node = n /\ framework # "fastapi" /\ c.left \subseteq d.left \cup {s}
                  \/ /\ d.node = n /\ framework = "fastapi" /\ c.left \subseteq rooms[n] \cup {s}
                     /\ <<n, d.msg>> \in disturbed'
  <2>1. CASE c \in casts
    BY <2>1
  <2>2. ASSUME NEW d \in CastsOf(n), c = [d EXCEPT !.left = left[d]]
        PROVE  \E e \in casts :
               /\ c.node = e.node /\ c.msg = e.msg
               /\ \/ c.left \subseteq e.left
                  \/ e.node = n /\ framework # "fastapi" /\ c.left \subseteq e.left \cup {s}
                  \/ /\ e.node = n /\ framework = "fastapi" /\ c.left \subseteq rooms[n] \cup {s}
                     /\ <<n, e.msg>> \in disturbed'
    BY <1>4, <2>2
  <2>3. QED
    BY <1>3, <2>1, <2>2
<1> HIDE DEF n
<1>6. AheadOK'
  <2>1. \A k \in Nodes : \A c \in CastsOf(k)' : \E d \in CastsOf(k) : c.msg = d.msg
    BY <1>5 DEF CastsOf
  <2>2. ASSUME NEW k \in Nodes
        PROVE  /\ Ascending(inbox'[k])
               /\ \A i \in DOMAIN inbox'[k] :
                    /\ \A c \in CastsOf(k)' : c.msg < inbox'[k][i]
                    /\ \A r \in Here(k) : \A j \in DOMAIN got'[r] : got'[r][j] < inbox'[k][i]
    BY <1>1, <1>2, <2>1 DEF AheadOK
  <2>3. QED
    BY <2>2 DEF AheadOK, Here, Ascending
<1>7. WalkOK'
  <2>1. ASSUME NEW c \in casts' PROVE c.left \subseteq Here(c.node)
    <3>1. PICK d \in casts :
            /\ c.node = d.node
            /\ \/ c.left \subseteq d.left
               \/ d.node = n /\ c.left \subseteq d.left \cup {s}
               \/ d.node = n /\ c.left \subseteq rooms[n] \cup {s}
      BY <1>5, <2>1
    <3>2. d.left \subseteq Here(d.node)
      BY <1>1 DEF WalkOK
    <3>3. QED
      BY <1>1, <3>1, <3>2
  <2>2. ASSUME NEW c \in casts', NEW d \in casts', c.node = d.node, c.msg = d.msg PROVE c = d
    <3>1. CASE c.node = n
      <4>0. c \notin casts \ CastsOf(n) /\ d \notin casts \ CastsOf(n)
        BY <2>2, <3>1 DEF CastsOf
      <4>1. PICK e \in CastsOf(n) : c = [e EXCEPT !.left = left[e]]
        BY <1>3, <4>0
      <4>2. PICK f \in CastsOf(n) : d = [f EXCEPT !.left = left[f]]
        BY <1>3, <4>0
      <4>3. e.node = n /\ f.node = n /\ e.msg = c.msg /\ f.msg = d.msg /\ e \in casts /\ f \in casts
        BY <1>4, <4>1, <4>2
      <4>4. e = f
        BY <1>1, <2>2, <4>3 DEF WalkOK
      <4>5. QED
        BY <4>1, <4>2, <4>4
    <3>2. CASE c.node # n
      <4>1. \A e \in casts' : e.node # n => e \in casts
        BY <1>3, <1>4
      <4>2. c \in casts /\ d \in casts
        BY <2>2, <3>2, <4>1
      <4>3. QED
        BY <1>1, <2>2, <4>2 DEF WalkOK
    <3>3. QED
      BY <3>1, <3>2
  <2>3. ASSUME NEW r \in Sockets, pc'[r] = "new"
        PROVE  got'[r] = <<>> /\ r \notin rooms'[NodeOf[r]] /\ \A c \in casts' : r \notin c.left
    <3>1. r # s /\ pc[r] = "new"
      BY <1>1, <1>2, <2>3
    <3>2. got[r] = <<>> /\ r \notin rooms[NodeOf[r]] /\ \A d \in casts : r \notin d.left
      BY <1>1, <3>1 DEF WalkOK
    <3>3. r \notin rooms'[NodeOf[r]] /\ r \notin rooms[n]
      BY <1>1, <1>2, <3>1, <3>2, SocketsAssumption DEF Here
    <3>4. \A c \in casts' : r \notin c.left
      BY <1>5, <3>1, <3>2, <3>3
    <3>5. QED
      BY <1>2, <3>2, <3>3, <3>4
  <2>4. QED
    BY <2>1, <2>2, <2>3 DEF WalkOK, Here
<1>8. OrderOK'
  BY <1>1, <1>2, <1>5 DEF OrderOK, Here
<1>9. OnceOK'
  <2>1. ASSUME NEW c \in casts', NEW r \in c.left, c.msg \in Elements(got'[r])
        PROVE  framework' = "fastapi" /\ <<NodeOf[r], c.msg>> \in disturbed'
    <3>1. r # s
      <4>1. Elements(<<>>) = {}
        BY DEF Elements
      <4>2. QED
        BY <1>1, <1>2, <2>1, <4>1
    <3>2. PICK d \in casts :
            /\ c.node = d.node /\ c.msg = d.msg
            /\ \/ r \in d.left
               \/ /\ d.node = n /\ framework = "fastapi" /\ r \in rooms[n]
                  /\ <<n, d.msg>> \in disturbed'
      BY <1>5, <2>1, <3>1
    <3>3. CASE r \in d.left
      BY <1>1, <1>2, <2>1, <3>2, <3>3 DEF OnceOK, Excused
    <3>4. CASE r \notin d.left
      BY <1>1, <1>2, <3>2, <3>4 DEF Here
    <3>5. QED
      BY <3>3, <3>4
  <2>2. ASSUME NEW r \in Sockets, NEW i \in DOMAIN got'[r], NEW j \in DOMAIN got'[r],
               i # j, got'[r][i] = got'[r][j]
        PROVE  framework' = "fastapi" /\ <<NodeOf[r], got'[r][i]>> \in disturbed'
    BY <1>1, <1>2, <2>2 DEF OnceOK, Excused
  <2>3. QED
    BY <2>1, <2>2 DEF OnceOK, Excused
<1>10. QED
  BY <1>6, <1>7, <1>8, <1>9

-----------------------------------------------------------------------------
\* Every other step hands out nothing.
LEMMA PublishKept ==
  ASSUME ChannelInv, Publish, UNCHANGED <<rooms, casts, got>>,
         \A s \in Sockets : pc'[s] = "new" => pc[s] = "new"
  PROVE  Kept
BY DEF Publish, Kept, ChannelInv, WalkOK

LEMMA EndpointKept ==
  ASSUME ChannelInv, NEW s \in Sockets, Endpoint(s), ~Connect(s)
  PROVE  Kept
<1>1. /\ pc \in [Sockets -> Speaking \cup {"new", "done"}] /\ rooms \in [Nodes -> SUBSET Sockets]
      /\ \A c, d \in casts : c.node = d.node /\ c.msg = d.msg => c = d
  BY DEF ChannelInv, WalkOK, IInv, SocketsOK
<1>2. ASSUME pc[s] \in Speaking, pc' \in {pc, [pc EXCEPT ![s] = After(s)], [pc EXCEPT ![s] = "done"]}
      PROVE  \A r \in Sockets : pc'[r] = "new" => pc[r] = "new"
  BY <1>1, <1>2, AfterType
<1>3. CASE PublishFrom(s) \/ PublishReplyLost(s)
  BY <1>2, <1>3, PublishKept DEF PublishFrom, PublishReplyLost, EndpointError
<1>4. CASE PublishFails(s) \/ ReceiveFails(s) \/ PublishUnfollowed(s)
  BY <1>1, <1>2, <1>4 DEF PublishFails, ReceiveFails, PublishUnfollowed, EndpointError, Speaking, Kept,
     cluster, history
<1>5. CASE ClientGone(s)
  BY <1>1, <1>5 DEF ClientGone, Kept, cluster, history
<1>6. CASE Disconnect(s)
  <2>1. /\ framework' = framework /\ got' = got /\ inbox' = inbox
        /\ disturbed \subseteq disturbed'
        /\ \A r \in Sockets : pc'[r] = "new" => pc[r] = "new"
    BY <1>1, <1>6 DEF Disconnect, cluster, Disturb
  <2>2. \A n \in Nodes : rooms'[n] \subseteq rooms[n]
    BY <1>1, <1>6 DEF Disconnect, RoomWithout
  <2>3. \A c \in CastsOf(NodeOf[s]) : /\ Without(c, s).node = c.node /\ Without(c, s).msg = c.msg
                                      /\ Without(c, s).left \subseteq c.left /\ c \in casts
    BY DEF Without, CastsOf, ChannelInv, IInv, CastsOK, Casts
  <2>4. casts' = (casts \ CastsOf(NodeOf[s])) \cup {Without(c, s) : c \in CastsOf(NodeOf[s])}
    BY <1>6 DEF Disconnect
  <2>5. \A c \in casts' : \E d \in casts : c.node = d.node /\ c.msg = d.msg /\ c.left \subseteq d.left
    BY <2>3, <2>4
  <2>6. ASSUME NEW c \in casts' PROVE \E d \in casts : /\ c.node = d.node /\ c.msg = d.msg
                                                      /\ c = IF d.node = NodeOf[s] THEN Without(d, s) ELSE d
    <3>1. CASE c \in casts \ CastsOf(NodeOf[s])
      BY <3>1 DEF CastsOf
    <3>2. ASSUME NEW d \in CastsOf(NodeOf[s]), c = Without(d, s)
          PROVE  \E e \in casts : /\ c.node = e.node /\ c.msg = e.msg
                                  /\ c = IF e.node = NodeOf[s] THEN Without(e, s) ELSE e
      <4>1. d.node = NodeOf[s]
        BY DEF CastsOf
      <4>2. QED
        BY <2>3, <3>2, <4>1
    <3>3. QED
      BY <2>4, <3>1, <3>2
  <2>7. \A c, d \in casts' : c.node = d.node /\ c.msg = d.msg => c = d
    BY <1>1, <2>6
  <2>8. QED
    BY <2>1, <2>2, <2>5, <2>7 DEF Kept
<1>7. QED
  BY <1>3, <1>4, <1>5, <1>6 DEF Endpoint

LEMMA NodeKept ==
  ASSUME ChannelInv, NEW n \in Nodes,
         (\E c \in CastsOf(n) : EndCast(c) \/ BreakCast(c) \/ ThrowCast(c))
           \/ LinkDown(n) \/ LinkUp(n) \/ Lifespan(n)
  PROVE  Kept
<1>1. /\ rooms \in [Nodes -> SUBSET Sockets] /\ inbox \in [Nodes -> Seq(1..published)]
      /\ \A c, d \in casts : c.node = d.node /\ c.msg = d.msg => c = d
  BY DEF ChannelInv, WalkOK, IInv, SocketsOK, ClusterOK
<1>2. framework' = framework /\ got' = got /\ disturbed \subseteq disturbed' /\ casts' \subseteq casts
  BY DEF EndCast, BreakCast, ThrowCast, LinkDown, LinkUp, Lifespan, StartNode, StartDeaf,
     StopNode,
     HaltNode, CrashNode, Forget, cluster, history
<1>3. \A k \in Nodes : inbox'[k] \in {inbox[k], <<>>}
  <2>1. inbox' = inbox \/ inbox' = [inbox EXCEPT ![n] = <<>>]
    BY DEF EndCast, BreakCast, ThrowCast, LinkDown, LinkUp, Lifespan, StartNode, StartDeaf,
       StopNode, HaltNode, CrashNode, Forget, Unsubscribe, cluster
  <2>2. QED
    BY <1>1, <2>1
<1>4. \A k \in Nodes : rooms'[k] \subseteq rooms[k]
  <2>1. \/ rooms' = rooms \/ rooms' = [rooms EXCEPT ![n] = {}]
        \/ \E c \in CastsOf(n) : rooms' = [rooms EXCEPT ![c.node] = @ \ c.failed]
    BY DEF EndCast, BreakCast, ThrowCast, LinkDown, LinkUp, Lifespan, StartNode, StartDeaf,
       StopNode, HaltNode, CrashNode, Forget
  <2>2. QED
    BY <1>1, <2>1
<1>5. \A s \in Sockets : pc'[s] = "new" => pc[s] = "new"
  BY DEF EndCast, BreakCast, ThrowCast, LinkDown, LinkUp, Lifespan, StartNode, StartDeaf,
     StopNode,
     HaltNode, CrashNode
<1>6. QED
  BY <1>1, <1>2, <1>3, <1>4, <1>5 DEF Kept

LEMMA ChannelStep == ChannelInv /\ [Next]_vars => ChannelInv'
<1> SUFFICES ASSUME ChannelInv, [Next]_vars PROVE ChannelInv'
  OBVIOUS
<1>1. IInv'
  BY TypeStep DEF ChannelInv
<1>2. CASE Kept
  BY <1>1, <1>2, KeptAhead, KeptRest DEF ChannelInv
<1>3. ASSUME NEW s \in Sockets, Endpoint(s) PROVE ChannelInv'
  BY <1>1, <1>2, <1>3, ConnectChannel, EndpointKept DEF ChannelInv
<1>4. ASSUME NEW n \in Nodes, Listener(n) \/ LinkDown(n) \/ LinkUp(n) \/ Lifespan(n)
      PROVE  ChannelInv'
  <2>1. CASE Take(n)
    BY <1>1, <2>1, TakeChannel DEF ChannelInv
  <2>2. CASE \E c \in CastsOf(n) : \E s \in c.left : Send(c, s)
    BY <1>1, <2>2, SendChannel DEF ChannelInv
  <2>3. QED
    BY <1>2, <1>4, <2>1, <2>2, NodeKept DEF Listener, Cast
<1>5. CASE BroadcastViaHttp
  BY <1>2, <1>5, PublishKept DEF BroadcastViaHttp
<1>6. CASE UNCHANGED vars
  BY <1>2, <1>6 DEF vars, cluster, history, Kept, ChannelInv, WalkOK
<1>7. QED
  BY <1>3, <1>4, <1>5, <1>6 DEF Next

LEMMA ChannelInit == Init => ChannelInv
<1> SUFFICES ASSUME Init PROVE ChannelInv
  OBVIOUS
<1>1. IInv
  BY InitType
<1>2. DOMAIN <<>> = {}
  OBVIOUS
<1>3. AheadOK /\ OrderOK /\ OnceOK
  BY <1>2 DEF Init, AheadOK, OrderOK, OnceOK, Ascending
<1>4. WalkOK
  BY SocketsAssumption DEF Init, WalkOK
<1>5. QED
  BY <1>1, <1>3, <1>4 DEF ChannelInv

\* In FastAPI and NestJS no client ever gets an older message after a newer one,
\* whatever is lost, restarted or left.
THEOREM OrderedDelivery == Spec => []ChannelOrder
<1>1. ChannelInv => ChannelOrder
  BY DEF ChannelInv, OrderOK, ChannelOrder
<1>2. QED
  BY <1>1, ChannelInit, ChannelStep, PTL DEF Spec

\* No client gets a publication twice, but for the set that Python rebuilt under
\* FastAPI's walk.
THEOREM DeliveredOnce == Spec => []AtMostOnce
<1>1. ChannelInv => AtMostOnce
  BY DEF ChannelInv, OnceOK, AtMostOnce, Excused
<1>2. QED
  BY <1>1, ChannelInit, ChannelStep, PTL DEF Spec

-----------------------------------------------------------------------------
(***************************************************************************)
(* Nobody is left out.  A client that is there is in its room, and no      *)
(* failed send is one to it; ...                                           *)
(***************************************************************************)
PresentOK ==
  /\ \A s \in Sockets : alive[s] => s \in rooms[NodeOf[s]]
  /\ \A c \in casts : \A s \in c.failed : ~alive[s] /\ pc[s] # "new"

\* ... a walk of FastAPI's that nothing disturbed finds the set as it was; ...
SizeOK ==
  framework = "fastapi" =>
    \A c \in casts : <<c.node, c.msg>> \in disturbed \/ c.size = Cardinality(rooms[c.node])

\* ... a message that is due is on its way, about to be sent, or there.
Pending(s, m) ==
  \/ m \in Elements(inbox[NodeOf[s]])
  \/ \E c \in CastsOf(NodeOf[s]) : c.msg = m /\ s \in c.left
  \/ m \in Elements(got[s])
  \/ <<NodeOf[s], m>> \in disturbed

DueOK == \A m \in 1..published : \A s \in due[m] :
           pc[s] # "new" /\ (alive[s] => Pending(s, m))

MembersInv == ChannelInv /\ PresentOK /\ SizeOK /\ DueOK

\* What the steps do to the clients' presence.
LEMMA PresentStep == MembersInv /\ [Next]_vars => PresentOK'
<1> SUFFICES ASSUME MembersInv, [Next]_vars PROVE PresentOK'
  OBVIOUS
<1>1. /\ pc \in [Sockets -> Speaking \cup {"new", "done"}] /\ alive \in [Sockets -> BOOLEAN]
      /\ rooms \in [Nodes -> SUBSET Sockets] /\ casts \subseteq Casts
      /\ \A s \in Sockets : NodeOf[s] \in Nodes
      /\ \A s \in Sockets : alive[s] => pc[s] \in {"joining", "open"}
      /\ \A s \in Sockets : alive[s] => s \in rooms[NodeOf[s]]
      /\ \A c \in casts : \A s \in c.failed : s \in Sockets /\ ~alive[s] /\ pc[s] # "new"
  BY SocketsAssumption DEF MembersInv, ChannelInv, IInv, SocketsOK, CastsOK, Casts, PresentOK
<1>2. ASSUME \A s \in Sockets : alive'[s] => alive[s] /\ s \in rooms'[NodeOf[s]],
             \A s \in Sockets : pc'[s] = "new" => pc[s] = "new",
             \A c \in casts' : \E d \in casts : c.failed = d.failed
      PROVE  PresentOK'
  BY <1>1, <1>2 DEF PresentOK
<1>3. ASSUME NEW s \in Sockets,
            \/ PublishFrom(s) \/ PublishFails(s) \/ PublishReplyLost(s)
            \/ ReceiveFails(s) \/ PublishUnfollowed(s)
      PROVE  PresentOK'
  <2>1. UNCHANGED <<rooms, casts>> /\ pc[s] \in Speaking
    BY <1>3 DEF PublishFrom, PublishFails, ReceiveFails, PublishUnfollowed, PublishReplyLost, Speaking
  <2>2. /\ pc' \in {pc, [pc EXCEPT ![s] = After(s)], [pc EXCEPT ![s] = "done"]}
        /\ alive' \in {alive, [alive EXCEPT ![s] = FALSE]}
    BY <1>3 DEF PublishFrom, PublishFails, ReceiveFails, PublishUnfollowed, PublishReplyLost, EndpointError
  <2>3. \A r \in Sockets : pc'[r] = "new" => pc[r] = "new"
    BY <1>1, <2>1, <2>2, AfterType
  <2>4. \A r \in Sockets : alive'[r] => alive[r] /\ r \in rooms'[NodeOf[r]]
    BY <1>1, <2>1, <2>2
  <2>5. QED
    BY <1>2, <2>1, <2>3, <2>4
<1>4. ASSUME NEW s \in Sockets, Connect(s) PROVE PresentOK'
  <2>1. /\ pc' = [pc EXCEPT ![s] = "joining"] /\ alive' = [alive EXCEPT ![s] = TRUE] /\ pc[s] = "new"
        /\ rooms' = [rooms EXCEPT ![NodeOf[s]] = @ \cup {s}]
    BY <1>4 DEF Connect
  <2>2. \A c \in casts' : \E d \in casts : c.failed = d.failed
    BY <1>1, <1>4 DEF Connect, CastsOf, Casts
  <2>3. \A r \in Sockets : alive'[r] => r \in rooms'[NodeOf[r]]
    BY <1>1, <2>1
  <2>4. \A c \in casts' : \A r \in c.failed : r # s /\ ~alive'[r] /\ pc'[r] # "new"
    BY <1>1, <2>1, <2>2
  <2>5. QED
    BY <2>3, <2>4 DEF PresentOK
<1>5. ASSUME NEW s \in Sockets, ClientGone(s) PROVE PresentOK'
  BY <1>1, <1>2, <1>5 DEF ClientGone
<1>6. ASSUME NEW s \in Sockets, Disconnect(s) PROVE PresentOK'
  <2>1. /\ pc' = [pc EXCEPT ![s] = "leaving"] /\ alive' = alive /\ ~alive[s]
        /\ rooms' = [rooms EXCEPT ![NodeOf[s]] = @ \ {s}]
    BY <1>1, <1>6 DEF Disconnect, RoomWithout
  <2>2. \A c \in casts' : \E d \in casts : c.failed = d.failed
    BY <1>1, <1>6 DEF Disconnect, Without, CastsOf, Casts
  <2>3. \A r \in Sockets : alive'[r] => alive[r] /\ r \in rooms'[NodeOf[r]]
    BY <1>1, <2>1
  <2>4. \A r \in Sockets : pc'[r] = "new" => pc[r] = "new"
    BY <1>1, <2>1
  <2>5. QED
    BY <1>2, <2>2, <2>3, <2>4
<1>7. ASSUME NEW n \in Nodes, Take(n) PROVE PresentOK'
  <2>1. UNCHANGED <<rooms, pc, alive>>
    BY <1>7 DEF Take
  <2>2. \A c \in casts' : c \in casts \/ c.failed = {}
    BY <1>7 DEF Take
  <2>3. QED
    BY <1>1, <2>1, <2>2 DEF PresentOK
<1>8. ASSUME NEW n \in Nodes, NEW c \in CastsOf(n), NEW s \in c.left, Send(c, s) PROVE PresentOK'
  <2>1. c \in casts /\ s \in Sockets /\ pc[s] # "new"
    BY DEF CastsOf, MembersInv, ChannelInv, WalkOK, Here
  <2>2. UNCHANGED <<rooms, pc, alive>>
    BY <1>8 DEF Send
  <2>3. PICK failed \in IF alive[s] \/ framework = "spring" THEN {c.failed}
                        ELSE {c.failed, c.failed \cup {s}} :
          casts' = (casts \ {c}) \cup {Visited(c, s, failed)}
    BY <1>8 DEF Send
  <2>4. Visited(c, s, failed).failed = failed
    BY <1>1, <2>1 DEF Visited, Casts
  <2>5. \A r \in failed : ~alive[r] /\ pc[r] # "new"
    BY <1>1, <2>1, <2>3
  <2>6. QED
    BY <1>1, <2>2, <2>3, <2>4, <2>5 DEF PresentOK
<1>9. ASSUME NEW n \in Nodes, NEW c \in CastsOf(n), EndCast(c) \/ BreakCast(c) \/ ThrowCast(c)
      PROVE  PresentOK'
  <2>1. UNCHANGED <<pc, alive>> /\ casts' \subseteq casts /\ c \in casts
    BY <1>9 DEF EndCast, BreakCast, ThrowCast, CastsOf
  <2>2. rooms' = rooms \/ rooms' = [rooms EXCEPT ![c.node] = @ \ c.failed]
    BY <1>9 DEF EndCast, BreakCast, ThrowCast
  <2>3. \A r \in Sockets : alive'[r] => alive[r] /\ r \in rooms'[NodeOf[r]]
    BY <1>1, <2>1, <2>2
  <2>4. QED
    BY <1>2, <2>1, <2>3
<1>10. ASSUME NEW n \in Nodes, StopNode(n) PROVE PresentOK'
  <2>1. \A r \in Sockets : alive'[r] => alive[r]
    BY <1>10 DEF StopNode
  <2>2. UNCHANGED <<rooms, pc, casts>>
    BY <1>10 DEF StopNode
  <2>3. QED
    BY <1>1, <1>2, <2>1, <2>2
<1>11. ASSUME NEW n \in Nodes, HaltNode(n) \/ CrashNode(n) PROVE PresentOK'
  <2>1. \A r \in Sockets : alive'[r] => alive[r] /\ r \notin Here(n)
    BY <1>1, <1>11 DEF HaltNode, CrashNode
  <2>2. rooms' = [rooms EXCEPT ![n] = {}] /\ casts' \subseteq casts
    BY <1>11 DEF HaltNode, CrashNode, Forget
  <2>3. \A r \in Sockets : alive'[r] => alive[r] /\ r \in rooms'[NodeOf[r]]
    BY <1>1, <2>1, <2>2 DEF Here
  <2>4. \A r \in Sockets : pc'[r] = "new" => pc[r] = "new"
    BY <1>11 DEF HaltNode, CrashNode
  <2>5. QED
    BY <1>2, <2>2, <2>3, <2>4
<1>12. CASE UNCHANGED <<rooms, pc, alive, casts>>
  BY <1>1, <1>2, <1>12
<1>13. QED
  BY <1>3, <1>4, <1>5, <1>6, <1>7, <1>8, <1>9, <1>10, <1>11, <1>12 DEF Next, Endpoint,
     Listener,
     Cast, Lifespan, BroadcastViaHttp, LinkDown, LinkUp, StartNode, StartDeaf, vars

\* The room of a broadcast changes only when the broadcast counts as disturbed.
LEMMA SizeStep == MembersInv /\ [Next]_vars => SizeOK'
<1> SUFFICES ASSUME MembersInv, [Next]_vars, framework = "fastapi"
             PROVE  \A c \in casts' : \/ <<c.node, c.msg>> \in disturbed'
                                      \/ c.size = Cardinality(rooms'[c.node])
  BY NumberedStep DEF SizeOK, MembersInv, ChannelInv
<1>1. /\ rooms \in [Nodes -> SUBSET Sockets] /\ casts \subseteq Casts
      /\ \A c \in casts : c.node \in Nodes
      /\ \A s \in Sockets : NodeOf[s] \in Nodes
      /\ \A c, d \in casts : c.node = d.node => c = d
      /\ \A c \in casts : <<c.node, c.msg>> \in disturbed \/ c.size = Cardinality(rooms[c.node])
  BY SocketsAssumption DEF MembersInv, ChannelInv, IInv, SocketsOK, CastsOK, Casts, SizeOK
<1>2. ASSUME disturbed \subseteq disturbed',
             \A c \in casts' : c \in casts /\ rooms'[c.node] = rooms[c.node]
      PROVE  \A c \in casts' : <<c.node, c.msg>> \in disturbed' \/ c.size = Cardinality(rooms'[c.node])
  BY <1>1, <1>2
<1>3. ASSUME NEW s \in Sockets,
            \/ PublishFrom(s) \/ PublishFails(s) \/ PublishReplyLost(s)
            \/ ReceiveFails(s) \/ PublishUnfollowed(s) \/ ClientGone(s)
      PROVE  UNCHANGED <<rooms, casts, disturbed>>
  BY <1>3 DEF PublishFrom, PublishFails, ReceiveFails, PublishUnfollowed, PublishReplyLost, ClientGone,
     Publish, history
<1>4. ASSUME NEW s \in Sockets, Connect(s)
      PROVE  \A c \in casts' : <<c.node, c.msg>> \in disturbed' \/ c.size = Cardinality(rooms'[c.node])
  <2>1. /\ rooms' = [rooms EXCEPT ![NodeOf[s]] = @ \cup {s}]
        /\ disturbed' = disturbed \cup {<<NodeOf[s], c.msg>> : c \in CastsOf(NodeOf[s])}
    BY <1>4 DEF Connect, Disturb
  <2>2. \A c \in casts' : \E d \in casts : /\ c.node = d.node /\ c.msg = d.msg
                                           /\ d.node # NodeOf[s] => c = d
    BY <1>1, <1>4 DEF Connect, CastsOf, Casts
  <2>3. QED
    BY <1>1, <2>1, <2>2 DEF CastsOf
<1>5. ASSUME NEW s \in Sockets, Disconnect(s)
      PROVE  \A c \in casts' : <<c.node, c.msg>> \in disturbed' \/ c.size = Cardinality(rooms'[c.node])
  <2>1. rooms' = [rooms EXCEPT ![NodeOf[s]] = @ \ {s}]
    BY <1>1, <1>5 DEF Disconnect, RoomWithout
  <2>2. ASSUME NEW c \in casts'
        PROVE  \E d \in casts : /\ c.node = d.node /\ c.msg = d.msg
                                /\ d.node # NodeOf[s] \/ s \notin rooms[NodeOf[s]] => c.size = d.size
    <3>1. CASE c \in casts
      BY <3>1
    <3>2. ASSUME NEW d \in CastsOf(NodeOf[s]), c = Without(d, s)
          PROVE  \E e \in casts : /\ c.node = e.node /\ c.msg = e.msg
                                  /\ e.node # NodeOf[s] \/ s \notin rooms[NodeOf[s]] => c.size = e.size
      <4>1. d \in casts /\ d \in Casts /\ d.node = NodeOf[s]
        BY <1>1 DEF CastsOf
      <4>2. /\ c.node = d.node /\ c.msg = d.msg
            /\ s \notin rooms[NodeOf[s]] => c.size = d.size
        BY <3>2, <4>1 DEF Without, Casts
      <4>3. QED
        BY <4>1, <4>2
    <3>3. QED
      BY <1>5, <3>1, <3>2 DEF Disconnect
  <2>3. CASE s \in rooms[NodeOf[s]]
    <3>1. disturbed' = disturbed \cup {<<NodeOf[s], c.msg>> : c \in CastsOf(NodeOf[s])}
      BY <1>5, <2>3 DEF Disconnect, Disturb
    <3>2. ASSUME NEW c \in casts'
          PROVE  <<c.node, c.msg>> \in disturbed' \/ c.size = Cardinality(rooms'[c.node])
      <4>1. PICK d \in casts : /\ c.node = d.node /\ c.msg = d.msg
                               /\ d.node # NodeOf[s] => c.size = d.size
        BY <2>2
      <4>2. CASE d.node = NodeOf[s]
        BY <3>1, <4>1, <4>2 DEF CastsOf
      <4>3. CASE d.node # NodeOf[s]
        <5>1. d.node \in Nodes /\ rooms'[d.node] = rooms[d.node]
          BY <1>1, <2>1, <4>3
        <5>2. <<d.node, d.msg>> \in disturbed \/ d.size = Cardinality(rooms[d.node])
          BY <1>1
        <5>3. QED
          BY <3>1, <4>1, <4>3, <5>1, <5>2
      <4>4. QED
        BY <4>2, <4>3
    <3>3. QED
      BY <3>2
  <2>4. CASE s \notin rooms[NodeOf[s]]
    <3>1. disturbed' = disturbed
      BY <1>5, <2>4 DEF Disconnect
    <3>2. \A n \in Nodes : rooms'[n] = rooms[n]
      BY <1>1, <2>1, <2>4
    <3>3. QED
      <4> SUFFICES ASSUME NEW c \in casts'
                   PROVE  <<c.node, c.msg>> \in disturbed' \/ c.size = Cardinality(rooms'[c.node])
        OBVIOUS
      <4>1. PICK d \in casts : c.node = d.node /\ c.msg = d.msg /\ c.size = d.size
        BY <2>2, <2>4
      <4>2. d.node \in Nodes /\ rooms'[d.node] = rooms[d.node]
        BY <1>1, <3>2
      <4>3. <<d.node, d.msg>> \in disturbed \/ d.size = Cardinality(rooms[d.node])
        BY <1>1
      <4>4. QED
        BY <3>1, <4>1, <4>2, <4>3
  <2>5. QED
    BY <2>3, <2>4
<1>6. ASSUME NEW n \in Nodes, Take(n)
      PROVE  \A c \in casts' : <<c.node, c.msg>> \in disturbed' \/ c.size = Cardinality(rooms'[c.node])
  <2>1. UNCHANGED <<rooms, disturbed>>
    BY <1>6 DEF Take, history
  <2>2. \A c \in casts' : c \in casts \/ (c.node = n /\ c.size = Cardinality(rooms[n]))
    BY <1>6 DEF Take
  <2>3. QED
    BY <1>1, <2>1, <2>2
<1>7. ASSUME NEW n \in Nodes, NEW c \in CastsOf(n), NEW s \in c.left, Send(c, s)
      PROVE  \A d \in casts' : <<d.node, d.msg>> \in disturbed' \/ d.size = Cardinality(rooms'[d.node])
  <2>1. UNCHANGED <<rooms, disturbed>>
    BY <1>7 DEF Send, history
  <2>2. PICK failed : casts' = (casts \ {c}) \cup {Visited(c, s, failed)}
    BY <1>7 DEF Send
  <2>3. /\ Visited(c, s, failed).node = c.node /\ Visited(c, s, failed).msg = c.msg
        /\ Visited(c, s, failed).size = c.size /\ c \in casts
    BY <1>1 DEF Visited, CastsOf, Casts
  <2>4. SUFFICES ASSUME NEW d \in casts'
                 PROVE  <<d.node, d.msg>> \in disturbed' \/ d.size = Cardinality(rooms'[d.node])
    OBVIOUS
  <2>5. CASE d \in casts
    BY <1>1, <2>1, <2>5
  <2>6. CASE d = Visited(c, s, failed)
    BY <1>1, <2>1, <2>3, <2>6
  <2>7. QED
    BY <2>2, <2>5, <2>6
<1>8. ASSUME NEW n \in Nodes, NEW c \in CastsOf(n), EndCast(c) \/ BreakCast(c) \/ ThrowCast(c)
      PROVE  \A d \in casts' : <<d.node, d.msg>> \in disturbed' \/ d.size = Cardinality(rooms'[d.node])
  <2>1. /\ c \in casts /\ casts' = casts \ {c} /\ disturbed \subseteq disturbed'
        /\ rooms' = rooms \/ rooms' = [rooms EXCEPT ![c.node] = @ \ c.failed]
    BY <1>8 DEF EndCast, BreakCast, ThrowCast, CastsOf, history
  <2>2. \A d \in casts' : d \in casts /\ d.node # c.node
    BY <1>1, <2>1
  <2>3. \A d \in casts' : rooms'[d.node] = rooms[d.node]
    BY <1>1, <2>1, <2>2
  <2>4. QED
    BY <1>2, <2>1, <2>2, <2>3
<1>9. ASSUME NEW n \in Nodes, HaltNode(n) \/ CrashNode(n)
      PROVE  \A d \in casts' : <<d.node, d.msg>> \in disturbed' \/ d.size = Cardinality(rooms'[d.node])
  <2>1. rooms' = [rooms EXCEPT ![n] = {}] /\ casts' = casts \ CastsOf(n) /\ disturbed' = disturbed
    BY <1>9 DEF HaltNode, CrashNode, Forget
  <2>2. \A d \in casts' : d \in casts /\ rooms'[d.node] = rooms[d.node]
    BY <1>1, <2>1 DEF CastsOf
  <2>3. QED
    BY <1>2, <2>1, <2>2
<1>10. CASE UNCHANGED <<rooms, casts, disturbed>>
  BY <1>1, <1>10
<1>11. QED
  BY <1>3, <1>4, <1>5, <1>6, <1>7, <1>8, <1>9, <1>10 DEF Next, Endpoint, Listener,
     Cast, Lifespan, BroadcastViaHttp, Publish, LinkDown, LinkUp, StartNode, StartDeaf, StopNode,
     vars, history

\* What a client has got and what was disturbed stays so.
LEMMA GotGrows ==
  ASSUME IInv, [Next]_vars
  PROVE  /\ disturbed \subseteq disturbed'
         /\ \A s \in Sockets : Elements(got[s]) \subseteq Elements(got'[s])
<1>1. ASSUME NEW s \in Sockets, Endpoint(s) PROVE got' = got /\ disturbed \subseteq disturbed'
  BY <1>1 DEF Endpoint, Connect, ClientGone, PublishFrom, PublishFails, ReceiveFails, PublishUnfollowed,
     PublishReplyLost,
     Disconnect, Disturb, Publish, history
<1>2. ASSUME NEW n \in Nodes, LinkDown(n) \/ LinkUp(n) \/ Lifespan(n)
      PROVE  got' = got /\ disturbed \subseteq disturbed'
  BY <1>2 DEF LinkDown, LinkUp, Lifespan, StartNode, StartDeaf, StopNode, HaltNode, CrashNode,
     Forget, history
<1>3. ASSUME NEW audience, NEW m \in 1..published, Received(audience, m), NEW s \in Sockets
      PROVE  Elements(got[s]) \subseteq Elements(got'[s])
  <2>1. got'[s] = got[s] \/ got'[s] = Append(got[s], m)
    BY <1>3 DEF Received
  <2>2. got[s] \in Seq(1..published) /\ published \in Nat /\ m \in Nat
    BY <1>3, Ordered
  <2>3. Elements(Append(got[s], m)) = Elements(got[s]) \cup {m}
    BY <2>2, Arrives
  <2>4. QED
    BY <2>1, <2>3
<1>4. ASSUME NEW n \in Nodes, Listener(n)
      PROVE  /\ disturbed \subseteq disturbed'
             /\ \A s \in Sockets : Elements(got[s]) \subseteq Elements(got'[s])
  <2>1. disturbed \subseteq disturbed'
    BY <1>4 DEF Listener, Take, Cast, Send, EndCast, BreakCast, ThrowCast, history
  <2>2. CASE got' = got
    BY <2>1, <2>2
  <2>3. ASSUME Take(n), got' # got PROVE \A s \in Sockets : Elements(got[s]) \subseteq Elements(got'[s])
    <3>1. Head(inbox[n]) \in 1..published /\ Received(rooms[n], Head(inbox[n]))
      BY <2>3, TakeType DEF Take
    <3>2. QED
      BY <1>3, <3>1
  <2>4. ASSUME NEW c \in CastsOf(n), NEW r \in c.left, Send(c, r)
        PROVE  \A s \in Sockets : Elements(got[s]) \subseteq Elements(got'[s])
    <3>1. c.msg \in 1..published /\ Received({r}, c.msg)
      BY <2>4, Ordered DEF Send, CastsOf
    <3>2. QED
      BY <1>3, <3>1
  <2>5. QED
    BY <1>4, <2>1, <2>2, <2>3, <2>4 DEF Listener, Cast, EndCast, BreakCast, ThrowCast
<1>5. QED
  BY <1>1, <1>2, <1>4 DEF Next, BroadcastViaHttp, Publish, vars, history

\* What was pending stays so, unless a step concerns the node's inbox or its
\* broadcasts.
LEMMA PendingKept ==
  ASSUME IInv, [Next]_vars, NEW s \in Sockets, NEW m, Pending(s, m),
         Elements(inbox[NodeOf[s]]) \subseteq Elements(inbox'[NodeOf[s]]),
         \A c \in CastsOf(NodeOf[s]) : s \in c.left =>
           \/ \E d \in CastsOf(NodeOf[s])' : d.msg = c.msg /\ s \in d.left
           \/ c.msg \in Elements(got'[s])
           \/ <<NodeOf[s], c.msg>> \in disturbed'
  PROVE  \/ m \in Elements(inbox'[NodeOf[s]])
         \/ \E c \in CastsOf(NodeOf[s])' : c.msg = m /\ s \in c.left
         \/ m \in Elements(got'[s])
         \/ <<NodeOf[s], m>> \in disturbed'
BY GotGrows DEF Pending

\* The same, one step later.
Pends(s, m) ==
  \/ m \in Elements(inbox'[NodeOf[s]])
  \/ \E c \in CastsOf(NodeOf[s])' : c.msg = m /\ s \in c.left
  \/ m \in Elements(got'[s])
  \/ <<NodeOf[s], m>> \in disturbed'

LEMMA DueFacts ==
  ASSUME MembersInv
  PROVE  /\ IInv /\ published \in Nat /\ 1..published \subseteq Numbers
         /\ inbox \in [Nodes -> Seq(1..published)] /\ casts \subseteq Casts
         /\ due \in [Numbers -> SUBSET Sockets] /\ DOMAIN due = Numbers
         /\ pc \in [Sockets -> Speaking \cup {"new", "done"}] /\ alive \in [Sockets -> BOOLEAN]
         /\ \A s \in Sockets : NodeOf[s] \in Nodes
         /\ \A m \in 1..published : \A s \in due[m] :
              s \in Sockets /\ pc[s] # "new" /\ (alive[s] => Pending(s, m))
         /\ \A s \in Sockets : alive[s] => s \in rooms[NodeOf[s]]
<1>1. IInv /\ PresentOK /\ DueOK /\ \A s \in Sockets : NodeOf[s] \in Nodes
  BY SocketsAssumption DEF MembersInv, ChannelInv
<1>2. /\ published \in Nat /\ 1..published \subseteq Numbers
      /\ inbox \in [Nodes -> Seq(1..published)]
  BY <1>1, BoundsAssumption DEF IInv, ClusterOK, Numbers
<1>3. casts \subseteq Casts /\ due \in [Numbers -> SUBSET Sockets] /\ DOMAIN due = Numbers
  BY <1>1 DEF IInv, CastsOK, HistoryOK
<1>4. pc \in [Sockets -> Speaking \cup {"new", "done"}] /\ alive \in [Sockets -> BOOLEAN]
  BY <1>1 DEF IInv, SocketsOK
<1>5. \A m \in 1..published : \A s \in due[m] :
        s \in Sockets /\ pc[s] # "new" /\ (alive[s] => Pending(s, m))
  BY <1>1, <1>2, <1>3 DEF DueOK
<1>6. QED
  BY <1>1, <1>2, <1>3, <1>4, <1>5 DEF PresentOK

LEMMA PublishDue ==
  ASSUME MembersInv, [Next]_vars, Publish, UNCHANGED casts,
         NEW m \in 1..published', NEW s \in due'[m]
  PROVE  s \in Sockets /\ pc[s] # "new" /\ (alive[s] => Pends(s, m))
<1>1. /\ published' = published + 1 /\ published + 1 \in Numbers
      /\ due' = [due EXCEPT ![published'] = Members]
      /\ \A n \in Nodes : inbox'[n] = IF link[n] = "up" THEN Append(inbox[n], published')
                                      ELSE inbox[n]
  BY DueFacts, BoundsAssumption DEF Publish, Numbers
<1>2. \A n \in Nodes : /\ Elements(inbox[n]) \subseteq Elements(inbox'[n])
                       /\ link[n] = "up" => published + 1 \in Elements(inbox'[n])
  <2>1. ASSUME NEW n \in Nodes
        PROVE  Elements(Append(inbox[n], published + 1)) = Elements(inbox[n]) \cup {published + 1}
    <3>1. published \in Nat /\ published + 1 \in Nat /\ inbox[n] \in Seq(1..published)
      BY DueFacts
    <3>2. QED
      BY <3>1, Arrives
  <2>2. QED
    BY <1>1, <2>1
<1>3. CASE m = published + 1
  <2>1. s \in Members
    BY <1>1, <1>3, DueFacts
  <2>2. s \in Sockets /\ s \in rooms[NodeOf[s]] /\ link[NodeOf[s]] = "up" /\ pc[s] # "new"
    BY <2>1 DEF Members, MembersInv, ChannelInv, WalkOK
  <2>3. QED
    BY <1>2, <1>3, <2>2, DueFacts DEF Pends
<1>4. CASE m # published + 1
  <2>1. m \in 1..published /\ s \in due[m]
    BY <1>1, <1>4, DueFacts
  <2>2. s \in Sockets /\ pc[s] # "new" /\ (alive[s] => Pending(s, m)) /\ NodeOf[s] \in Nodes
    BY <2>1, DueFacts
  <2>3. CastsOf(NodeOf[s])' = CastsOf(NodeOf[s])
    BY DEF CastsOf
  <2>4. QED
    BY <1>2, <2>2, <2>3, DueFacts, PendingKept DEF Pends
<1>5. QED
  BY <1>3, <1>4

LEMMA EndpointDue ==
  ASSUME MembersInv, [Next]_vars, NEW r \in Sockets, Endpoint(r),
         NEW m \in 1..published', NEW s \in due'[m]
  PROVE  pc'[s] # "new" /\ (alive'[s] => Pends(s, m))
<1>1. CASE PublishFrom(r) \/ PublishReplyLost(r)
  <2>1. Publish /\ UNCHANGED casts /\ pc[r] \in Speaking
        /\ pc' \in {pc, [pc EXCEPT ![r] = After(r)], [pc EXCEPT ![r] = "done"]}
        /\ alive' \in {alive, [alive EXCEPT ![r] = FALSE]}
    BY <1>1 DEF PublishFrom, PublishReplyLost, EndpointError
  <2>2. s \in Sockets /\ pc[s] # "new" /\ (alive[s] => Pends(s, m))
    BY <2>1, PublishDue
  <2>3. QED
    BY <2>1, <2>2, AfterType, DueFacts
<1>2. ASSUME ~PublishFrom(r), ~PublishReplyLost(r)
      PROVE  /\ inbox' = inbox /\ got' = got /\ m \in 1..published
             /\ s \in due[m] /\ s \in Sockets /\ pc[s] # "new" /\ (alive[s] => Pending(s, m))
             /\ NodeOf[s] \in Nodes
  <2>1. UNCHANGED <<inbox, got, published, due>>
    BY <1>2 DEF Endpoint, Connect, ClientGone, PublishFails, ReceiveFails, PublishUnfollowed, Disconnect, cluster,
       history
  <2>2. QED
    BY <2>1, DueFacts
<1>3. CASE PublishFails(r) \/ ReceiveFails(r) \/ PublishUnfollowed(r)
  <2>1. UNCHANGED casts /\ pc[r] \in Speaking
        /\ pc' \in {pc, [pc EXCEPT ![r] = After(r)], [pc EXCEPT ![r] = "done"]}
        /\ alive' \in {alive, [alive EXCEPT ![r] = FALSE]}
    BY <1>3 DEF PublishFails, ReceiveFails, PublishUnfollowed, Speaking, EndpointError
  <2>2. CastsOf(NodeOf[s])' = CastsOf(NodeOf[s])
    BY <2>1 DEF CastsOf
  <2>3. CASE ~PublishFrom(r) /\ ~PublishReplyLost(r)
    <3>1. pc'[s] # "new" /\ (alive'[s] => alive[s])
      BY <1>2, <2>1, <2>3, AfterType, DueFacts
    <3>2. QED
      BY <1>2, <2>2, <2>3, <3>1, DueFacts, PendingKept DEF Pends
  <2>4. QED
    BY <1>1, <2>3
<1>4. CASE ClientGone(r) /\ ~PublishFrom(r) /\ ~PublishReplyLost(r)
  <2>1. pc'[s] # "new" /\ (alive'[s] => alive[s]) /\ UNCHANGED casts
    BY <1>2, <1>4, DueFacts DEF ClientGone
  <2>2. CastsOf(NodeOf[s])' = CastsOf(NodeOf[s])
    BY <2>1 DEF CastsOf
  <2>3. QED
    BY <1>2, <1>4, <2>1, <2>2, DueFacts, PendingKept DEF Pends
<1>5. CASE Connect(r) /\ ~PublishFrom(r) /\ ~PublishReplyLost(r)
  <2>1. r # s
    BY <1>2, <1>5 DEF Connect
  <2>2. pc'[s] # "new" /\ (alive'[s] => alive[s])
    BY <1>2, <1>5, <2>1, DueFacts DEF Connect
  <2>3. PICK left \in [CastsOf(NodeOf[r]) -> SUBSET Sockets] :
          /\ \A c \in CastsOf(NodeOf[r]) : left[c] \in Rewalks(c, r)
          /\ casts' = (casts \ CastsOf(NodeOf[r]))
                        \cup {[c EXCEPT !.left = left[c]] : c \in CastsOf(NodeOf[r])}
    BY <1>5 DEF Connect
  <2>4. ASSUME NEW c \in CastsOf(NodeOf[s]), s \in c.left
        PROVE  \/ \E d \in CastsOf(NodeOf[s])' : d.msg = c.msg /\ s \in d.left
               \/ <<NodeOf[s], c.msg>> \in disturbed'
    <3>1. c \in casts /\ c \in Casts /\ c.node = NodeOf[s]
      BY DueFacts DEF CastsOf
    <3>2. CASE NodeOf[r] # NodeOf[s]
      BY <2>3, <2>4, <3>1, <3>2 DEF CastsOf
    <3>3. CASE NodeOf[r] = NodeOf[s] /\ framework = "fastapi"
      BY <1>5, <3>3 DEF Connect, Disturb
    <3>4. CASE NodeOf[r] = NodeOf[s] /\ framework # "fastapi"
      <4>1. c.left \subseteq left[c]
        BY <2>3, <3>4 DEF Rewalks
      <4> DEFINE d == [c EXCEPT !.left = left[c]]
      <4>2. d.msg = c.msg /\ d.node = c.node /\ d.left = left[c]
        BY <3>1 DEF Casts
      <4>3. d \in casts'
        BY <2>3, <3>4
      <4> HIDE DEF d
      <4>4. QED
        BY <2>4, <3>1, <4>1, <4>2, <4>3 DEF CastsOf
    <3>5. QED
      BY <3>2, <3>3, <3>4
  <2>5. QED
    BY <1>2, <1>5, <2>2, <2>4, DueFacts, PendingKept DEF Pends
<1>6. CASE Disconnect(r) /\ ~PublishFrom(r) /\ ~PublishReplyLost(r)
  <2>1. pc'[s] # "new" /\ (alive'[s] => alive[s] /\ r # s)
    BY <1>2, <1>6, DueFacts DEF Disconnect
  <2>2. ASSUME NEW c \in CastsOf(NodeOf[s]), s \in c.left, r # s
        PROVE  \E d \in CastsOf(NodeOf[s])' : d.msg = c.msg /\ s \in d.left
    <3>1. c \in casts /\ c \in Casts /\ c.node = NodeOf[s]
      BY DueFacts DEF CastsOf
    <3>2. casts' = (casts \ CastsOf(NodeOf[r])) \cup {Without(d, r) : d \in CastsOf(NodeOf[r])}
      BY <1>6 DEF Disconnect
    <3>3. CASE NodeOf[r] # NodeOf[s]
      BY <2>2, <3>1, <3>2, <3>3 DEF CastsOf
    <3>4. CASE NodeOf[r] = NodeOf[s]
      <4>1. /\ Without(c, r).msg = c.msg /\ Without(c, r).node = c.node
            /\ Without(c, r).left = c.left \ {r}
        BY <3>1 DEF Without, Casts
      <4>2. Without(c, r) \in casts'
        BY <3>2, <3>4
      <4>3. QED
        BY <2>2, <3>1, <4>1, <4>2 DEF CastsOf
    <3>5. QED
      BY <3>3, <3>4
  <2>3. QED
    BY <1>2, <1>6, <2>1, <2>2, DueFacts, PendingKept DEF Pends
<1>7. QED
  BY <1>1, <1>3, <1>4, <1>5, <1>6 DEF Endpoint

LEMMA TakesFirst ==
  ASSUME NEW p \in Nat, NEW q \in Seq(1..p), q # <<>>
  PROVE  Elements(q) \subseteq {Head(q)} \cup Elements(Tail(q))
<1> SUFFICES ASSUME NEW i \in DOMAIN q, q[i] # Head(q) PROVE q[i] \in Elements(Tail(q))
  BY DEF Elements
<1>1. /\ Head(q) = q[1]
      /\ Tail(q) \in Seq(1..p) /\ Len(Tail(q)) = Len(q) - 1
      /\ \A k \in 1 .. Len(Tail(q)) : Tail(q)[k] = q[k + 1]
  BY HeadTailProperties
<1>2. /\ Len(q) \in Nat /\ DOMAIN q = 1..Len(q)
      /\ DOMAIN Tail(q) = 1..Len(Tail(q)) /\ Len(Tail(q)) \in Nat
  BY <1>1, LenProperties
<1>3. i - 1 \in DOMAIN Tail(q) /\ Tail(q)[i - 1] = q[i]
  BY <1>1, <1>2
<1>4. QED
  BY <1>3 DEF Elements

LEMMA ListenerDue ==
  ASSUME MembersInv, [Next]_vars, NEW n \in Nodes, Listener(n),
         NEW m \in 1..published', NEW s \in due'[m]
  PROVE  pc'[s] # "new" /\ (alive'[s] => Pends(s, m))
<1>1. UNCHANGED <<published, due, pc, alive>>
  BY DEF Listener, Take, Cast, Send, EndCast, BreakCast, ThrowCast, cluster, history
<1>2. /\ IInv /\ m \in 1..published /\ s \in Sockets /\ pc[s] # "new"
      /\ alive[s] => Pending(s, m) /\ s \in rooms[NodeOf[s]]
  BY <1>1, DueFacts
<1> SUFFICES ASSUME alive[s] PROVE Pends(s, m)
  BY <1>1, <1>2
<1>3. CASE Take(n)
  <2>1. CASE NodeOf[s] # n \/ m # Head(inbox[n]) \/ m \notin Elements(inbox[n])
    <3>1. \A c \in CastsOf(NodeOf[s]) : c \in CastsOf(NodeOf[s])'
      BY <1>3 DEF Take, CastsOf
    <3>2. inbox' = [inbox EXCEPT ![n] = Tail(@)] /\ inbox[n] # <<>>
          /\ inbox[n] \in Seq(1..published) /\ published \in Nat
          /\ inbox \in [Nodes -> Seq(1..published)] /\ NodeOf[s] \in Nodes
      BY <1>2, <1>3, DueFacts DEF Take, Drop
    <3>3. m \in Elements(inbox[NodeOf[s]]) => m \in Elements(inbox'[NodeOf[s]])
      <4>1. CASE NodeOf[s] # n
        BY <3>2, <4>1
      <4>2. CASE NodeOf[s] = n
        <5>1. inbox'[n] = Tail(inbox[n])
          BY <3>2
        <5>2. Elements(inbox[n]) \subseteq {Head(inbox[n])} \cup Elements(Tail(inbox[n]))
          BY <3>2, TakesFirst
        <5>3. QED
          BY <2>1, <4>2, <5>1, <5>2
      <4>3. QED
        BY <4>1, <4>2
    <3>4. QED
      BY <1>2, <3>1, <3>3, GotGrows DEF Pending, Pends
  <2>2. CASE NodeOf[s] = n /\ m = Head(inbox[n])
    <3>1. s \in rooms[n] /\ rooms[n] # {}
      BY <1>2, <2>2
    <3>2. CASE framework = "nest"
      <4>1. Received(rooms[n], m)
        BY <1>3, <2>2, <3>2 DEF Take
      <4>2. got'[s] = Append(got[s], m)
        BY <1>2, <3>1, <4>1 DEF Received
      <4>3. got[s] \in Seq(1..published) /\ published \in Nat /\ m \in Nat
        BY <1>2, Ordered
      <4>4. m \in Elements(got'[s])
        BY <4>2, <4>3, Arrives
      <4>5. QED
        BY <4>4 DEF Pends
    <3>3. CASE framework # "nest"
      <4> DEFINE cast == [node |-> n, msg |-> Head(inbox[n]), left |-> rooms[n],
                          size |-> IF framework = "fastapi" THEN Cardinality(rooms[n]) ELSE 0,
                          failed |-> {}]
      <4>1. casts' = casts \cup {cast}
        BY <1>3, <3>1, <3>3 DEF Take
      <4>2. cast.node = n /\ cast.msg = m /\ cast.left = rooms[n]
        BY <2>2
      <4> HIDE DEF cast
      <4>3. QED
        BY <2>2, <3>1, <4>1, <4>2 DEF Pends, CastsOf
    <3>4. QED
      BY <3>2, <3>3
  <2>3. QED
    BY <2>1, <2>2
<1>4. ASSUME inbox' = inbox,
             \A c \in CastsOf(NodeOf[s]) : s \in c.left =>
               \/ \E d \in CastsOf(NodeOf[s])' : d.msg = c.msg /\ s \in d.left
               \/ c.msg \in Elements(got'[s])
               \/ <<NodeOf[s], c.msg>> \in disturbed'
      PROVE  Pends(s, m)
  BY <1>2, <1>4, PendingKept DEF Pends
<1>5. ASSUME NEW c \in CastsOf(n), NEW r \in c.left, Send(c, r) PROVE Pends(s, m)
  <2>1. inbox' = inbox /\ c \in casts /\ c \in Casts /\ c.node = n
    BY <1>5, DueFacts DEF Send, cluster, CastsOf
  <2>2. PICK failed : casts' = (casts \ {c}) \cup {Visited(c, r, failed)}
    BY <1>5 DEF Send
  <2>3. /\ Visited(c, r, failed).msg = c.msg /\ Visited(c, r, failed).node = n
        /\ Visited(c, r, failed).left = c.left \ {r}
    BY <2>1 DEF Visited, Casts
  <2>4. ASSUME NEW d \in CastsOf(NodeOf[s]), s \in d.left
        PROVE  \/ \E e \in CastsOf(NodeOf[s])' : e.msg = d.msg /\ s \in e.left
               \/ d.msg \in Elements(got'[s])
    <3>1. CASE d # c
      BY <2>2, <2>4, <3>1 DEF CastsOf
    <3>2. CASE d = c /\ r # s
      <4>1. NodeOf[s] = n
        BY <2>1, <3>2 DEF CastsOf
      <4>2. QED
        BY <2>2, <2>3, <2>4, <3>2, <4>1 DEF CastsOf
    <3>3. CASE d = c /\ r = s
      <4>1. got'[s] = Append(got[s], c.msg)
        BY <1>2, <1>5, <3>3 DEF Send, Received
      <4>2. got[s] \in Seq(1..published) /\ published \in Nat /\ c.msg \in Nat
        BY <1>2, <2>1, Ordered
      <4>3. QED
        BY <3>3, <4>1, <4>2, Arrives
    <3>4. QED
      BY <3>1, <3>2, <3>3
  <2>5. QED
    BY <1>4, <2>1, <2>4
<1>6. ASSUME NEW c \in CastsOf(n), EndCast(c) \/ BreakCast(c) \/ ThrowCast(c)
      PROVE  Pends(s, m)
  <2>1. inbox' = inbox /\ casts' = casts \ {c} /\ c \in casts /\ c.node = n
    BY <1>6 DEF EndCast, BreakCast, ThrowCast, cluster, CastsOf
  <2>2. c.left = {} \/ <<n, c.msg>> \in disturbed'
    <3>1. CASE EndCast(c)
      BY <3>1 DEF EndCast
    <3>2. CASE BreakCast(c)
      BY <2>1, <3>2 DEF BreakCast, Intact, MembersInv, SizeOK, history
    <3>3. CASE ThrowCast(c)
      BY <2>1, <3>3 DEF ThrowCast
    <3>4. QED
      BY <1>6, <3>1, <3>2, <3>3
  <2>3. ASSUME NEW d \in CastsOf(NodeOf[s]), s \in d.left
        PROVE  \/ \E e \in CastsOf(NodeOf[s])' : e.msg = d.msg /\ s \in e.left
               \/ <<NodeOf[s], d.msg>> \in disturbed'
    <3>1. CASE d # c
      BY <2>1, <2>3, <3>1 DEF CastsOf
    <3>2. CASE d = c
      BY <2>1, <2>2, <2>3, <3>2 DEF CastsOf
    <3>3. QED
      BY <3>1, <3>2
  <2>4. QED
    BY <1>4, <2>1, <2>3
<1>7. QED
  BY <1>3, <1>5, <1>6 DEF Listener, Cast

LEMMA NodeDue ==
  ASSUME MembersInv, [Next]_vars, NEW n \in Nodes, LinkDown(n) \/ LinkUp(n) \/ Lifespan(n),
         NEW m \in 1..published', NEW s \in due'[m]
  PROVE  pc'[s] # "new" /\ (alive'[s] => Pends(s, m))
<1>1. published' = published /\ m \in 1..published /\ m \in Numbers
  BY DueFacts DEF LinkDown, LinkUp, Lifespan, StartNode, StartDeaf, StopNode, HaltNode,
     CrashNode,
     Forget
<1>2. due' = due \/ \E to : Unsubscribe(n, to)
  BY DEF LinkDown, LinkUp, Lifespan, StartNode, StartDeaf, StopNode, HaltNode, CrashNode,
     Forget,
     history
<1>3. s \in due[m]
  BY <1>1, <1>2, DueFacts DEF Unsubscribe
<1>4. /\ IInv /\ s \in Sockets /\ pc[s] # "new" /\ (alive[s] => Pending(s, m))
      /\ NodeOf[s] \in Nodes
  BY <1>1, <1>3, DueFacts
<1>5. alive'[s] => alive[s]
  BY <1>4 DEF LinkDown, LinkUp, Lifespan, StartNode, StartDeaf, StopNode, HaltNode, CrashNode
<1>6. pc'[s] # "new"
  BY <1>4 DEF LinkDown, LinkUp, Lifespan, StartNode, StartDeaf, StopNode, HaltNode, CrashNode
<1> SUFFICES ASSUME alive[s], alive'[s] PROVE Pends(s, m)
  BY <1>5, <1>6
<1>7. CASE HaltNode(n) \/ CrashNode(n)
  <2>1. Forget(n)
    BY <1>7 DEF HaltNode, CrashNode
  <2>2. NodeOf[s] # n
    BY <1>1, <2>1, DueFacts DEF Forget, Unsubscribe
  <2>3. inbox'[NodeOf[s]] = inbox[NodeOf[s]]
    BY <1>4, <2>1, <2>2, DueFacts DEF Forget, Unsubscribe
  <2>4. \A c \in CastsOf(NodeOf[s]) : c \in CastsOf(NodeOf[s])'
    BY <2>1, <2>2 DEF Forget, CastsOf
  <2>5. QED
    BY <1>4, <2>3, <2>4, GotGrows DEF Pending, Pends
<1>8. CASE ~HaltNode(n) /\ ~CrashNode(n)
  <2>1. UNCHANGED casts
    BY <1>8 DEF LinkDown, LinkUp, Lifespan, StartNode, StartDeaf, StopNode
  <2>2. m \in Elements(inbox[NodeOf[s]]) => m \in Elements(inbox'[NodeOf[s]])
    <3>1. CASE inbox' = inbox
      BY <3>1
    <3>2. ASSUME NEW to, Unsubscribe(n, to), m \in Elements(inbox[NodeOf[s]])
          PROVE  m \in Elements(inbox'[NodeOf[s]])
      <4>1. NodeOf[s] # n
        BY <1>1, <3>2, DueFacts DEF Unsubscribe, Elements
      <4>2. QED
        BY <1>4, <3>2, <4>1, DueFacts DEF Unsubscribe
    <3>3. inbox' = inbox \/ \E to : Unsubscribe(n, to)
      BY <1>8 DEF LinkDown, LinkUp, Lifespan, StartNode, StartDeaf, StopNode
    <3>4. QED
      BY <3>1, <3>2, <3>3
  <2>3. CastsOf(NodeOf[s])' = CastsOf(NodeOf[s])
    BY <2>1 DEF CastsOf
  <2>4. QED
    BY <1>4, <2>2, <2>3, GotGrows DEF Pending, Pends
<1>9. QED
  BY <1>7, <1>8

LEMMA MembersStep == MembersInv /\ [Next]_vars => MembersInv'
<1> SUFFICES ASSUME MembersInv, [Next]_vars PROVE MembersInv'
  OBVIOUS
<1>1. ChannelInv' /\ PresentOK' /\ SizeOK'
  BY ChannelStep, PresentStep, SizeStep DEF MembersInv
<1>2. ASSUME NEW m \in 1..published', NEW s \in due'[m]
      PROVE  pc'[s] # "new" /\ (alive'[s] => Pends(s, m))
  <2>1. CASE BroadcastViaHttp
    BY <2>1, PublishDue DEF BroadcastViaHttp
  <2>2. CASE UNCHANGED vars
    <3>1. UNCHANGED <<inbox, casts, got, disturbed, published, due, pc, alive>>
      BY <2>2 DEF vars, cluster, history
    <3>2. QED
      BY <3>1, DueFacts DEF Pending, Pends, CastsOf
  <2>3. QED
    BY <2>1, <2>2, EndpointDue, ListenerDue, NodeDue DEF Next
<1>3. DueOK'
  BY <1>2 DEF DueOK, Pending, Pends
<1>4. QED
  BY <1>1, <1>3 DEF MembersInv

LEMMA MembersInit == Init => MembersInv
<1> SUFFICES ASSUME Init PROVE MembersInv
  OBVIOUS
<1>1. PresentOK /\ SizeOK /\ DueOK
  BY DEF Init, PresentOK, SizeOK, DueOK
<1>2. QED
  BY <1>1, ChannelInit DEF MembersInv

\* Rooms and endpoints agree: whoever has joined and is there is in the room, and
\* a socket outlives its endpoint there only after an error of FastAPI's.
THEOREM SocketsLeave == Spec => []RoomsMatchEndpoints
<1>1. MembersInv /\ RoomsInv => RoomsMatchEndpoints
  <2> SUFFICES ASSUME MembersInv, RoomsInv, NEW s \in Sockets
               PROVE  /\ alive[s] => s \in rooms[NodeOf[s]]
                      /\ s \in rooms[NodeOf[s]] =>
                           \/ pc[s] \in {"joining", "open"}
                           \/ pc[s] = "done" /\ framework = "fastapi" /\ ~alive[s]
    BY DEF RoomsMatchEndpoints
  <2>1. pc[s] \in Speaking \cup {"new", "done"}
    BY DEF RoomsInv, IInv, SocketsOK
  <2>2. QED
    BY <2>1 DEF MembersInv, PresentOK, RoomsInv, RoomOK, Speaking
<1>2. Init => MembersInv /\ RoomsInv
  BY MembersInit, RoomsInit
<1>3. (MembersInv /\ RoomsInv) /\ [Next]_vars => (MembersInv /\ RoomsInv)'
  BY MembersStep, RoomsStep
<1>4. QED
  BY <1>1, <1>2, <1>3, PTL DEF Spec

\* Whoever was in the room at the publication and is still there has got the
\* message when its node has handled it.
THEOREM MembersServed == Spec => []MembersGetMessages
<1>1. MembersInv => MembersGetMessages
  <2> SUFFICES ASSUME MembersInv, NEW m \in 1..published, NEW s \in due[m],
                      alive[s], Handled(NodeOf[s], m)
               PROVE  m \in Elements(got[s]) \/ <<NodeOf[s], m>> \in disturbed
    BY DEF MembersGetMessages
  <2>1. Pending(s, m)
    BY DueFacts
  <2>2. QED
    BY <2>1 DEF Pending, Handled
<1>2. QED
  BY <1>1, MembersInit, MembersStep, PTL DEF Spec

\* In NestJS nothing is ever on record.
NestUndisturbed == framework = "nest" => disturbed = {}

LEMMA NestStep == IInv /\ NestUndisturbed /\ [Next]_vars => NestUndisturbed'
<1> SUFFICES ASSUME IInv, NestUndisturbed, [Next]_vars, framework = "nest" PROVE disturbed' = {}
  BY NumberedStep DEF NestUndisturbed
<1>1. disturbed = {}
  BY DEF NestUndisturbed
<1>2. ASSUME NEW s \in Sockets, Endpoint(s) PROVE disturbed' = disturbed
  BY <1>2 DEF Endpoint, Connect, ClientGone, PublishFrom, PublishFails, ReceiveFails, PublishUnfollowed,
     PublishReplyLost, Disconnect, Disturb, Publish, history
<1>3. ASSUME NEW n \in Nodes, Listener(n) PROVE disturbed' = disturbed
  BY <1>3 DEF Listener, Take, Cast, Send, EndCast, BreakCast, ThrowCast, history
<1>4. ASSUME NEW n \in Nodes, LinkDown(n) \/ LinkUp(n) \/ Lifespan(n)
      PROVE  disturbed' = disturbed
  BY <1>4 DEF LinkDown, LinkUp, Lifespan, StartNode, StartDeaf, StopNode, HaltNode, CrashNode,
     Forget, history
<1>5. QED
  BY <1>1, <1>2, <1>3, <1>4 DEF Next, BroadcastViaHttp, Publish, vars, history

\* NestJS keeps the promise that FastAPI breaks: a message that has come to one
\* client of a node comes to everybody who was in its room and stays.
THEOREM NestServesAll == Frameworks \subseteq {"nest"} /\ Spec => []EveryMemberGetsMessages
<1>1. SUFFICES ASSUME Frameworks \subseteq {"nest"} PROVE Spec => []EveryMemberGetsMessages
  OBVIOUS
<1>2. MembersInv /\ NestUndisturbed => EveryMemberGetsMessages
  <2> SUFFICES ASSUME MembersInv, NestUndisturbed, NEW m \in 1..published, NEW s \in due[m],
                      alive[s], Handled(NodeOf[s], m)
               PROVE  m \in Elements(got[s])
    BY DEF EveryMemberGetsMessages
  <2>1. Pending(s, m)
    BY DueFacts
  <2>2. disturbed = {}
    BY <1>1 DEF NestUndisturbed, MembersInv, ChannelInv, IInv, ClusterOK
  <2>3. QED
    BY <2>1, <2>2 DEF Pending, Handled
<1>3. Init => MembersInv /\ NestUndisturbed
  BY MembersInit DEF Init, NestUndisturbed
<1>4. (MembersInv /\ NestUndisturbed) /\ [Next]_vars => (MembersInv /\ NestUndisturbed)'
  BY MembersStep, NestStep DEF MembersInv, ChannelInv
<1>5. QED
  BY <1>2, <1>3, <1>4, PTL DEF Spec
=============================================================================
