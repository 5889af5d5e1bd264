--------------------------- MODULE RoomBroadcast ---------------------------
(***************************************************************************)
(* Case 3: one chat room spread over the nodes of a cluster.  Every node   *)
(* knows the sockets that are connected to it; a message is published on a *)
(* Redis channel, and each node that listens hands it to its own sockets.  *)
(* The implementations differ in how: FastAPI walks the set of sockets and *)
(* suspends at every send, while sockets join and leave; NestJS walks it   *)
(* in one step of its event loop; Spring runs each message on a thread of  *)
(* its own.  Rooms share nothing, so one is modelled, and a message is the *)
(* number of its publication.  Nodes start, stop and crash while clients   *)
(* join, leave and are written to.                                         *)
(***************************************************************************)
EXTENDS Integers, Sequences, FiniteSets

CONSTANTS Frameworks,    \* the implementations considered
          Nodes,         \* the API nodes
          Sockets,       \* the clients' connections
          NodeOf,        \* the node each of them reaches
          MaxPublished,  \* bound on the publications that are followed
          MaxFaults      \* bound on failed commands, lost links and crashes

ASSUME FrameworksAssumption == Frameworks \subseteq {"fastapi", "nest", "spring"}
ASSUME SocketsAssumption == IsFiniteSet(Sockets) /\ NodeOf \in [Sockets -> Nodes]
ASSUME BoundsAssumption == MaxPublished \in Nat /\ MaxFaults \in Nat

VARIABLES framework,  \* the implementation that runs; never changes
          node,       \* "up", "stopping" or "down"
          link,       \* each node's subscription: "up", "down" while the driver
                      \* may still bring it up, "off" when nobody will
          inbox,      \* messages Redis has pushed to each node
          rooms,      \* the node's set of sockets in the room
          pc,         \* where the endpoint of each socket stands
          alive,      \* whether the client is still there
          casts,      \* broadcasts under way: node, message, sockets still to
                      \* visit, size of FastAPI's set at the start, failed sends
          got,        \* what each client received, in order
          published,  \* publications so far
          due,        \* history: clients that must get each message
          disturbed,  \* history: broadcasts the code may cut short
          faults      \* faults so far

history == <<due, disturbed>>
cluster == <<framework, node, link, inbox, published>>
vars == <<cluster, rooms, pc, alive, casts, got, history, faults>>

Init == /\ framework \in Frameworks
        /\ node = [n \in Nodes |-> "down"]
        /\ link = [n \in Nodes |-> "off"]
        /\ inbox = [n \in Nodes |-> <<>>]
        /\ rooms = [n \in Nodes |-> {}]
        /\ pc = [s \in Sockets |-> "new"]
        /\ alive = [s \in Sockets |-> FALSE]
        /\ casts = {}
        /\ got = [s \in Sockets |-> <<>>]
        /\ published = 0
        /\ due = [m \in 1..MaxPublished |-> {}]
        /\ disturbed = {}
        /\ faults = 0

Fault == /\ faults < MaxFaults
         /\ faults' = faults + 1

CastsOf(n) == {c \in casts : c.node = n}

-----------------------------------------------------------------------------
(***************************************************************************)
(* Publishing.                                                             *)
(***************************************************************************)

\* The clients that are in the room and stay reachable.
Members == {s \in Sockets : /\ s \in rooms[NodeOf[s]]
                            /\ alive[s] /\ pc[s] # "done"
                            /\ link[NodeOf[s]] = "up"}

\* PUBLISH: Redis pushes the message to every node that listens now.
Publish ==
  /\ published < MaxPublished
  /\ published' = published + 1
  /\ inbox' = [n \in Nodes |-> IF link[n] = "up" THEN Append(inbox[n], published')
                               ELSE inbox[n]]
  /\ due' = [due EXCEPT ![published'] = Members]
  /\ UNCHANGED <<framework, node, link, disturbed>>

\* The endpoint after its publication: the notice of the newcomer, a chat
\* message, the notice of the departure.
After(s) == [new |-> "new", joining |-> "open", open |-> "open",
             leaving |-> "done", done |-> "done"][pc[s]]

Speaking == {"joining", "open", "leaving"}

PublishFrom(s) ==
  /\ pc[s] \in Speaking
  /\ Publish
  /\ pc' = [pc EXCEPT ![s] = After(s)]
  /\ UNCHANGED <<rooms, alive, casts, got, faults>>

\* The model follows MaxPublished messages, and a stop does not wait for more:
\* what its endpoints publish beyond is answered, but who gets it is not followed.
PublishUnfollowed(s) ==
  /\ pc[s] \in {"joining", "leaving"} /\ node[NodeOf[s]] = "stopping"
  /\ published = MaxPublished
  /\ pc' = [pc EXCEPT ![s] = After(s)]
  /\ UNCHANGED <<cluster, rooms, alive, casts, got, history, faults>>

\* Mutant: the departure is not noticed when the error ends the endpoint.
EndpointErrorSwallowed(s) ==
  /\ pc' = [pc EXCEPT ![s] = "done"]
  /\ UNCHANGED alive

\* An error in an endpoint: NestJS and Spring swallow it, in FastAPI anything
\* but a WebSocketDisconnect ends the endpoint, which closes the socket and
\* leaves it in the room.
EndpointError(s) ==
  IF framework = "fastapi"
  THEN /\ pc' = [pc EXCEPT ![s] = "done"]
       /\ alive' = [alive EXCEPT ![s] = FALSE]
  ELSE /\ pc' = [pc EXCEPT ![s] = After(s)]
       /\ UNCHANGED alive

PublishFails(s) ==
  /\ pc[s] \in Speaking
  /\ Fault
  /\ EndpointError(s)
  /\ UNCHANGED <<cluster, rooms, casts, got, history>>

\* FastAPI's receive_text raises something else than WebSocketDisconnect: a
\* KeyError for a binary frame, a RuntimeError once a send has failed.
ReceiveFails(s) ==
  /\ framework = "fastapi" /\ pc[s] = "open"
  /\ EndpointError(s)
  /\ UNCHANGED <<cluster, rooms, casts, got, history, faults>>

\* The message is out and the reply lost: the driver publishes it again, or
\* gives up.
PublishReplyLost(s) ==
  /\ pc[s] \in Speaking
  /\ Fault
  /\ Publish
  /\ (UNCHANGED <<pc, alive>>) \/ EndpointError(s)
  /\ UNCHANGED <<rooms, casts, got>>

\* broadcast_via_http, on any node that serves.
BroadcastViaHttp ==
  /\ \E n \in Nodes : node[n] # "down"
  /\ Publish
  /\ UNCHANGED <<rooms, pc, alive, casts, got, faults>>

-----------------------------------------------------------------------------
(***************************************************************************)
(* Joining and leaving.                                                    *)
(***************************************************************************)

\* FastAPI's iteration does not survive a change of the set.
Disturb(n) ==
  disturbed' = IF framework = "fastapi"
               THEN disturbed \cup {<<n, c.msg>> : c \in CastsOf(n)}
               ELSE disturbed

\* Mutant: a walk starts again when somebody joins.
RewalksFromStart(c, s) == {rooms[c.node] \cup {s}}

\* What is left of a broadcast after a join.  Spring's concurrent set may or may
\* not come across the newcomer.  Python's may rebuild its table, and a walk
\* that does not notice finds anybody in it, or skips him.
Rewalks(c, s) ==
  CASE framework # "fastapi" -> {c.left, c.left \cup {s}}
    [] c.size = -1 -> {c.left}
    [] OTHER -> SUBSET (rooms[c.node] \cup {s})

Connect(s) ==
  LET n == NodeOf[s] IN
  /\ pc[s] = "new" /\ node[n] = "up"
  /\ pc' = [pc EXCEPT ![s] = "joining"]
  /\ alive' = [alive EXCEPT ![s] = TRUE]
  /\ rooms' = [rooms EXCEPT ![n] = @ \cup {s}]
  /\ \E left \in [CastsOf(n) -> SUBSET Sockets] :
       /\ \A c \in CastsOf(n) : left[c] \in Rewalks(c, s)
       /\ casts' = (casts \ CastsOf(n))
                     \cup {[c EXCEPT !.left = left[c]] : c \in CastsOf(n)}
  /\ Disturb(n)
  /\ UNCHANGED <<cluster, got, due, faults>>

\* The client goes; its node does not know yet.
ClientGone(s) ==
  /\ pc[s] \in {"joining", "open"} /\ alive[s]
  /\ alive' = [alive EXCEPT ![s] = FALSE]
  /\ UNCHANGED <<cluster, rooms, pc, casts, got, history, faults>>

\* What a departure does to a broadcast: it does not visit the socket any
\* more.  FastAPI deletes an empty room, so that a walk over its set finds it
\* changed for good, whoever joins the next one.
Without(c, s) ==
  [c EXCEPT !.left = @ \ {s},
            !.size = IF framework = "fastapi" /\ rooms[c.node] = {s} THEN -1 ELSE @]

\* Mutant: the room is deleted whoever is left in it.
RoomWithoutAny(n, s) == {}

RoomWithout(n, s) == rooms[n] \ {s}

\* The endpoint notices and takes the socket out of the room.
Disconnect(s) ==
  LET n == NodeOf[s] IN
  /\ pc[s] = "open" /\ ~alive[s]
  /\ pc' = [pc EXCEPT ![s] = "leaving"]
  /\ rooms' = [rooms EXCEPT ![n] = RoomWithout(n, s)]
  /\ casts' = (casts \ CastsOf(n)) \cup {Without(c, s) : c \in CastsOf(n)}
  /\ IF s \in rooms[n] THEN Disturb(n) ELSE UNCHANGED disturbed
  /\ UNCHANGED <<cluster, alive, got, due, faults>>

-----------------------------------------------------------------------------
(***************************************************************************)
(* Listening.                                                              *)
(***************************************************************************)

\* The send to a socket: its client gets the message unless it is gone.
Received(audience, m) ==
  got' = [s \in Sockets |-> IF s \in audience /\ alive[s] THEN Append(got[s], m)
                            ELSE got[s]]

Drop(n) == inbox' = [inbox EXCEPT ![n] = Tail(@)]

\* Mutant: the next message is taken while a broadcast is under way.
MayTakeAlways(n) == link[n] = "up"

\* FastAPI's reader awaits one broadcast before it takes the next message.
MayTake(n) == link[n] = "up" /\ (framework = "fastapi" => CastsOf(n) = {})

\* The listener takes a message.  NestJS sends it to everybody at once, the
\* others start a broadcast; in FastAPI an empty room does not exist.
Take(n) ==
  /\ inbox[n] # <<>>
  /\ MayTake(n)
  /\ Drop(n)
  /\ IF framework = "nest" \/ (framework = "fastapi" /\ rooms[n] = {})
     THEN /\ Received(rooms[n], Head(inbox[n]))
          /\ UNCHANGED casts
     ELSE /\ casts' = casts \cup {[node |-> n, msg |-> Head(inbox[n]),
                                   left |-> rooms[n],
                                   size |-> IF framework = "fastapi"
                                            THEN Cardinality(rooms[n]) ELSE 0,
                                   failed |-> {}]}
          /\ UNCHANGED got
  /\ UNCHANGED <<framework, node, link, published, rooms, pc, alive, history,
                 faults>>

\* The set still has the size it had when FastAPI's walk began.
Intact(c) == framework = "fastapi" => c.size = Cardinality(rooms[c.node])

Visited(c, s, failed) == [c EXCEPT !.left = @ \ {s}, !.failed = failed]

\* One send.  To a client that is gone it may vanish, or fail with an exception
\* of the connection, which FastAPI remembers and Spring ignores; or Spring finds
\* the session closed and skips it.
Send(c, s) ==
  /\ s \in c.left /\ Intact(c)
  /\ Received({s}, c.msg)
  /\ \E failed \in IF alive[s] \/ framework = "spring" THEN {c.failed}
                   ELSE {c.failed, c.failed \cup {s}} :
       casts' = (casts \ {c}) \cup {Visited(c, s, failed)}
  /\ UNCHANGED <<cluster, rooms, pc, alive, history, faults>>

\* The walk is over; FastAPI takes the sockets whose send failed out.
EndCast(c) ==
  /\ c.left = {} /\ Intact(c)
  /\ casts' = casts \ {c}
  /\ rooms' = IF framework = "fastapi"
              THEN [rooms EXCEPT ![c.node] = @ \ c.failed] ELSE rooms
  /\ UNCHANGED <<cluster, pc, alive, got, history, faults>>

\* Mutant: nothing catches the exception, and the reader ends.
BreakCastEndsReader(c) ==
  /\ ~Intact(c)
  /\ casts' = casts \ {c}
  /\ link' = [link EXCEPT ![c.node] = "off"]
  /\ UNCHANGED <<framework, node, inbox, published, rooms, pc, alive, got, history,
                 faults>>

\* FastAPI: "Set changed size during iteration" ends the broadcast; the reader
\* swallows it.
BreakCast(c) ==
  /\ ~Intact(c)
  /\ casts' = casts \ {c}
  /\ UNCHANGED <<cluster, rooms, pc, alive, got, history, faults>>

\* Spring: the send raises what is no IOException, and nobody but the listener
\* container catches it, so that the rest of the room goes without the message.
\* Either the session has been closed since isOpen was asked, or the thread of
\* another message is sending to it, whether its client is still there or not.
ThrowCast(c) ==
  /\ framework = "spring"
  /\ \E s \in c.left : \/ ~alive[s]
                       \/ \E d \in CastsOf(c.node) \ {c} : s \in d.left
  /\ casts' = casts \ {c}
  /\ disturbed' = disturbed \cup {<<c.node, c.msg>>}
  /\ UNCHANGED <<cluster, rooms, pc, alive, got, due, faults>>

\* The subscription goes, and with it what was on its way: of that the node's
\* clients are owed nothing any more, and if the node goes too, of nothing.
Unsubscribe(n, to) ==
  /\ link' = [link EXCEPT ![n] = to]
  /\ inbox' = [inbox EXCEPT ![n] = <<>>]
  /\ due' = [m \in DOMAIN due |->
               IF to = "off" \/ \E i \in DOMAIN inbox[n] : inbox[n][i] = m
               THEN {s \in due[m] : NodeOf[s] # n} ELSE due[m]]

\* It is lost with its connection.  FastAPI's reader notices between two
\* messages.
LinkDown(n) ==
  /\ MayTake(n)
  /\ Fault
  /\ Unsubscribe(n, "down")
  /\ UNCHANGED <<framework, node, published, rooms, pc, alive, casts, got, disturbed>>

\* The drivers subscribe, if they can, for the first time or again: FastAPI's
\* reader ends when the retries run out, and nothing starts it again.
LinkUp(n) ==
  /\ link[n] = "down"
  /\ link' = [link EXCEPT ![n] = "up"]
  /\ UNCHANGED <<framework, node, inbox, published, rooms, pc, alive, casts, got,
                 history, faults>>

-----------------------------------------------------------------------------
(***************************************************************************)
(* A node's life.                                                          *)
(***************************************************************************)
Here(n) == {s \in Sockets : NodeOf[s] = n}

\* The node serves before its subscription is there.
StartNode(n) ==
  /\ node[n] = "down"
  /\ node' = [node EXCEPT ![n] = "up"]
  /\ link' = [link EXCEPT ![n] = "down"]
  /\ UNCHANGED <<framework, inbox, published, rooms, pc, alive, casts, got,
                 history, faults>>

\* Redis cannot be reached at the start: lifespan and initPubSub swallow the
\* error, and the node serves without a listener for as long as it lives.
StartDeaf(n) ==
  /\ node[n] = "down" /\ framework # "spring"
  /\ Fault
  /\ node' = [node EXCEPT ![n] = "up"]
  /\ UNCHANGED <<framework, link, inbox, published, rooms, pc, alive, casts, got,
                 history>>

\* A graceful stop closes the node's connections, whose endpoints come to know
\* it; Spring's listener container stops before that, FastAPI's listener goes
\* on until lifespan cancels it.  NestJS registers no shutdown hooks, so that
\* for it a stop is a crash.
StopNode(n) ==
  /\ node[n] = "up" /\ framework # "nest"
  /\ node' = [node EXCEPT ![n] = "stopping"]
  /\ alive' = [s \in Sockets |-> alive[s] /\ s \notin Here(n)]
  /\ IF framework = "spring" THEN Unsubscribe(n, "off")
                             ELSE UNCHANGED <<link, inbox, due>>
  /\ UNCHANGED <<framework, published, rooms, pc, casts, got, disturbed, faults>>

\* What is left when the process is gone: the next one starts with no sockets.
Forget(n) ==
  /\ node' = [node EXCEPT ![n] = "down"]
  /\ Unsubscribe(n, "off")
  /\ rooms' = [rooms EXCEPT ![n] = {}]
  /\ casts' = casts \ CastsOf(n)
  /\ UNCHANGED <<framework, published, got, disturbed>>

\* Mutant: the stop waits until the room is empty.
HaltNodeRoomEmpty(n) ==
  /\ node[n] = "stopping"
  /\ rooms[n] = {} /\ \A s \in Here(n) : pc[s] \in {"new", "done"}
  /\ Forget(n)
  /\ UNCHANGED <<pc, alive, faults>>

\* Its endpoints have ended: stop_listener cancels the reader, in the middle of
\* a broadcast if need be, and the process ends.
HaltNode(n) ==
  /\ node[n] = "stopping"
  /\ \A s \in Here(n) : pc[s] \in {"new", "done"}
  /\ Forget(n)
  /\ UNCHANGED <<pc, alive, faults>>

CrashNode(n) ==
  /\ node[n] # "down"
  /\ Fault
  /\ Forget(n)
  /\ pc' = [s \in Sockets |-> IF s \in Here(n) /\ pc[s] # "new" THEN "done" ELSE pc[s]]
  /\ alive' = [s \in Sockets |-> alive[s] /\ s \notin Here(n)]

-----------------------------------------------------------------------------
Endpoint(s) == \/ Connect(s) \/ ClientGone(s) \/ Disconnect(s)
               \/ PublishFrom(s) \/ PublishUnfollowed(s)
               \/ PublishFails(s) \/ PublishReplyLost(s) \/ ReceiveFails(s)

Cast(c) == (\E s \in c.left : Send(c, s)) \/ EndCast(c) \/ BreakCast(c) \/ ThrowCast(c)

Listener(n) == Take(n) \/ \E c \in CastsOf(n) : Cast(c)

Lifespan(n) == StartNode(n) \/ StartDeaf(n) \/ StopNode(n) \/ HaltNode(n) \/ CrashNode(n)

Next == \/ \E s \in Sockets : Endpoint(s)
        \/ BroadcastViaHttp
        \/ \E n \in Nodes : Listener(n) \/ LinkDown(n) \/ LinkUp(n) \/ Lifespan(n)

Spec == Init /\ [][Next]_vars

\* A node's process goes on: its listener and, once it waits for nobody any
\* more, its stop.  An endpoint notices that its client is gone, and gets an
\* answer to its notices; a client that stays is free to say nothing.
Fairness ==
  /\ \A n \in Nodes : WF_vars(Listener(n) \/ HaltNode(n))
  /\ \A s \in Sockets :
       WF_vars(\/ Disconnect(s)
               \/ pc[s] # "open" /\ (PublishFrom(s) \/ PublishUnfollowed(s)))

FairSpec == Spec /\ Fairness

-----------------------------------------------------------------------------
(***************************************************************************)
(* Properties.                                                             *)
(***************************************************************************)
Numbers == 1..MaxPublished
Casts == [node : Nodes, msg : Numbers, left : SUBSET Sockets,
          size : -1..Cardinality(Sockets), failed : SUBSET Sockets]
Elements(seq) == {seq[i] : i \in DOMAIN seq}

TypeOK ==
  /\ framework \in Frameworks
  /\ node \in [Nodes -> {"up", "stopping", "down"}]
  /\ link \in [Nodes -> {"up", "down", "off"}]
  /\ \A n \in Nodes : link[n] # "up" => inbox[n] = <<>>
  /\ \A n \in Nodes : node[n] = "down" =>
       /\ link[n] = "off" /\ rooms[n] = {} /\ CastsOf(n) = {}
       /\ \A s \in Here(n) : pc[s] \in {"new", "done"} /\ ~alive[s]
  /\ \A n \in Nodes : Elements(inbox[n]) \subseteq 1..published
  /\ \A n \in Nodes : rooms[n] \subseteq {s \in Sockets : NodeOf[s] = n}
  /\ pc \in [Sockets -> Speaking \cup {"new", "done"}]
  /\ alive \in [Sockets -> BOOLEAN]
  /\ casts \subseteq Casts
  /\ framework = "nest" => casts = {}
  /\ framework = "fastapi" => \A n \in Nodes : Cardinality(CastsOf(n)) <= 1
  /\ \A s \in Sockets : Elements(got[s]) \subseteq 1..published
  /\ published \in 0..MaxPublished
  /\ due \in [Numbers -> SUBSET Sockets]
  /\ disturbed \subseteq Nodes \X Numbers
  /\ faults \in 0..MaxFaults

\* The node's listener has done with the message.
Handled(n, m) == /\ m \in 1..published
                 /\ m \notin Elements(inbox[n])
                 /\ \A c \in CastsOf(n) : c.msg # m

\* Whoever was in the room when a message was published, and is still there
\* when its node has handled it, has got it, as docs/02 section 3.2 promises.
\* The exceptions are the code's: in FastAPI the room may change during the
\* broadcast, in Spring a session may close under it or another broadcast get
\* in its way; NestJS has none.
MembersGetMessages ==
  \A m \in 1..published : \A s \in due[m] :
    alive[s] /\ Handled(NodeOf[s], m) =>
      m \in Elements(got[s]) \/ <<NodeOf[s], m>> \in disturbed

\* FastAPI and NestJS hand a room's messages to each client in the order in
\* which Redis took them, whatever happens between two sends.
ChannelOrder ==
  framework # "spring" =>
    \A s \in Sockets : \A i, j \in DOMAIN got[s] : i < j => got[s][i] <= got[s][j]

\* No client gets one publication twice, although the rooms change under the
\* walk and Spring's broadcasts overlap.  Only a set that Python rebuilt under
\* FastAPI's walk may repeat a client.
AtMostOnce ==
  \A s \in Sockets : \A i, j \in DOMAIN got[s] :
    i # j /\ got[s][i] = got[s][j]
      => framework = "fastapi" /\ <<NodeOf[s], got[s][i]>> \in disturbed

\* Rooms and endpoints agree.  Whoever has joined and is still there is in the
\* room, whatever walks, failing sends and departures of others do to it.  A
\* socket whose endpoint has ended is there in FastAPI only, after an error that
\* was no disconnect, and its client has been closed.
RoomsMatchEndpoints ==
  \A s \in Sockets :
    LET inside == s \in rooms[NodeOf[s]] IN
    /\ alive[s] => inside
    /\ inside => \/ pc[s] \in {"joining", "open"}
                 \/ pc[s] = "done" /\ framework = "fastapi" /\ ~alive[s]

\* A message that has come as far as one client of a node comes to everybody who
\* was there and stays, as the hands-on guide promises all the clients that are
\* connected.
EveryMemberGetsMessages ==
  \A m \in 1..published : \A s \in due[m] : \A t \in Here(NodeOf[s]) :
    alive[s] /\ Handled(NodeOf[s], m) /\ m \in Elements(got[t])
      => m \in Elements(got[s])

\* The room as its clients see it.  What a broadcast has yet to bring is on its
\* way to whom it has yet to visit, and to whoever has not joined, who may find
\* himself in the walk; nobody can tell it from what waits in the inbox.
OnTheWay(s) ==
  Elements(inbox[NodeOf[s]]) \cup
  {c.msg : c \in {d \in CastsOf(NodeOf[s]) : s \in d.left \/ pc[s] = "new"}}

room == INSTANCE Channel WITH
          Clients <- Sockets,
          joined <- {s \in Sockets : pc[s] # "new"},
          members <- {s \in Sockets : alive[s]},
          mail <- [s \in Sockets |-> OnTheWay(s)]

\* Step by step nobody who is there loses a message that reached his node, but
\* with the whole node or through a disturbance that is on record; nobody gets
\* one that was not on its way to him, or out of turn, and NestJS hands each to
\* everybody at once.
KeepsChannel == room!Spec

\* Every message that reached a node is handled, also when the room changes
\* under its broadcast, or the node goes deaf.
MessagesAreHandled ==
  \A n \in Nodes, m \in Numbers : (m \in Elements(inbox[n])) ~> Handled(n, m)

\* A node that is told to stop stops: its endpoints all notice, say their
\* goodbyes and end, whatever broadcast they are part of and also when the
\* goodbye fails.
StopsInTheEnd ==
  \A n \in Nodes : (node[n] = "stopping") ~> (node[n] = "down")
=============================================================================
