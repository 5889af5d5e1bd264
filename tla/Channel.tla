------------------------------ MODULE Channel ------------------------------
(***************************************************************************)
(* What the room of case 3 promises its clients, node by node.  A message  *)
(* that is published is on its way to every client of the nodes that       *)
(* listen.  A member, who has joined and is still there, gets it, in turn; *)
(* otherwise a fault has cost his whole node the message, or handing it    *)
(* out was disturbed: in FastAPI by a client that came or went, in Spring  *)
(* by one that went, or by another message for the same client.  NestJS    *)
(* hands a message to all the members of a node at once and lets nothing   *)
(* disturb it.                                                             *)
(***************************************************************************)
EXTENDS Integers, Sequences

CONSTANTS Frameworks, Nodes, Clients, NodeOf

VARIABLES framework,  \* the implementation that runs; never changes
          joined,     \* the clients that have ever joined, each once
          members,    \* those that are still there
          published,  \* publications so far
          mail,       \* messages that are on their way to each client
          got,        \* what each client received, in order
          disturbed,  \* nodes and messages whose handing out was disturbed
          faults      \* faults so far

vars == <<framework, joined, members, published, mail, got, disturbed, faults>>

Init == /\ framework \in Frameworks
        /\ joined = {}
        /\ members = {}
        /\ published = 0
        /\ mail = [c \in Clients |-> {}]
        /\ got = [c \in Clients |-> <<>>]
        /\ disturbed = {}
        /\ faults = 0

At(n) == {c \in Clients : NodeOf[c] = n}

\* Nothing happens to the messages of a member; who is not there may miss some.
Spared(c) == /\ mail'[c] \subseteq mail[c]
             /\ c \in members' => mail'[c] = mail[c]

Publish(listening) ==
  /\ published' = published + 1
  /\ mail' = [c \in Clients |-> IF NodeOf[c] \in listening
                                THEN mail[c] \cup {published'} ELSE mail[c]]
  /\ members' \in SUBSET members
  /\ faults' \in {faults, faults + 1}
  /\ UNCHANGED <<framework, joined, got, disturbed>>

\* FastAPI: a client that comes or goes disturbs what its node hands out.
Disturb(n, m) == /\ framework = "fastapi"
                 /\ m \in 1..published
                 /\ disturbed' = disturbed \cup {<<n, m>>}

\* The one message that is handed out may then miss a client, or start again
\* for one that has nothing newer.
Shuffled(c, m) ==
  /\ mail'[c] \in {mail[c] \ {m}, mail[c] \cup {m}}
  /\ m \in mail'[c] \ mail[c] => /\ \A i \in DOMAIN got[c] : got[c][i] <= m
                                 /\ \A k \in mail[c] : m <= k

\* A newcomer may miss what is on its way.
Join(c) ==
  /\ c \notin joined
  /\ joined' = joined \cup {c}
  /\ members' = members \cup {c}
  /\ mail' \in [Clients -> SUBSET (1..published)]
  /\ mail'[c] \subseteq mail[c]
  /\ \/ /\ \A d \in Clients \ {c} : mail'[d] = mail[d]
        /\ UNCHANGED disturbed
     \/ \E m \in 1..published :
          /\ Disturb(NodeOf[c], m)
          /\ \A d \in Clients \ {c} : IF NodeOf[d] = NodeOf[c] THEN Shuffled(d, m)
                                      ELSE mail'[d] = mail[d]
  /\ UNCHANGED <<framework, published, got, faults>>

\* Clients leave, or their nodes notice that they have left, or go down.
Leave ==
  /\ members' \in SUBSET members
  /\ mail' \in [Clients -> SUBSET (1..published)]
  /\ \A c \in Clients : Spared(c)
  /\ \/ UNCHANGED disturbed
     \/ \E n \in Nodes, m \in 1..published : Disturb(n, m)
  /\ faults' \in {faults, faults + 1}
  /\ UNCHANGED <<framework, joined, published, got>>

\* A node hands a message to some of its members: the next one of each, except
\* in Spring, and in NestJS to everybody who has yet to get it.
HandOut(n, m, to) ==
  /\ to # {} /\ \A c \in to : c \in members \cap At(n) /\ m \in mail[c]
  /\ framework = "nest" => \A c \in members \cap At(n) : m \in mail[c] => c \in to
  /\ framework # "spring" => \A c \in to : \A k \in mail[c] : m <= k
  /\ got' = [c \in Clients |-> IF c \in to THEN Append(got[c], m) ELSE got[c]]
  /\ UNCHANGED <<framework, joined, members, published, disturbed, faults>>
  /\ mail' \in [Clients -> SUBSET (1..published)]
  /\ \A c \in Clients : IF c \in to THEN mail'[c] = mail[c] \ {m} ELSE Spared(c)

\* A disturbed message is given up, by FastAPI or by Spring: there it is on its
\* way to somebody who has left, or who has another one coming.
GiveUp(n, m) ==
  /\ \/ /\ framework = "fastapi" /\ <<n, m>> \in disturbed
        /\ UNCHANGED disturbed
     \/ /\ framework = "spring"
        /\ \E c \in joined \cap At(n) :
             m \in mail[c] /\ (c \notin members \/ mail[c] # {m})
        /\ disturbed' = disturbed \cup {<<n, m>>}
  /\ mail' = [c \in Clients |-> IF NodeOf[c] = n THEN mail[c] \ {m} ELSE mail[c]]
  /\ UNCHANGED <<framework, joined, members, published, got, faults>>

\* A node loses its link, and all its clients the same messages.
Cut(n, lost) ==
  /\ faults' = faults + 1
  /\ mail' = [c \in Clients |-> IF NodeOf[c] = n THEN mail[c] \ lost ELSE mail[c]]
  /\ UNCHANGED <<framework, joined, members, published, got, disturbed>>

Next == \/ \E listening \in SUBSET Nodes : Publish(listening)
        \/ \E c \in Clients : Join(c)
        \/ Leave
        \/ \E n \in Nodes, m \in 1..published : GiveUp(n, m)
        \/ \E n \in Nodes, m \in 1..published, to \in SUBSET Clients : HandOut(n, m, to)
        \/ \E n \in Nodes, lost \in SUBSET (1..published) : Cut(n, lost)

Spec == Init /\ [][Next]_vars

-----------------------------------------------------------------------------
\* FastAPI and NestJS keep the order of publication for each client.
InOrder ==
  framework # "spring" =>
    \A c \in Clients : \A i, j \in DOMAIN got[c] : i < j => got[c][i] <= got[c][j]

\* Nobody gets a message twice, but from a walk of FastAPI's that was disturbed.
Once ==
  \A c \in Clients : \A i, j \in DOMAIN got[c] :
    i # j /\ got[c][i] = got[c][j]
      => framework = "fastapi" /\ <<NodeOf[c], got[c][i]>> \in disturbed

\* A member who stays misses a message only through a fault or a disturbance
\* that is on record, and in NestJS only through a fault.
Misses(c, m) == m \in mail[c] /\ m \notin mail'[c] /\ \A i \in DOMAIN got'[c] : got'[c][i] # m

NothingMissed ==
  [][\A c \in members \cap members' : \A m \in mail[c] :
       Misses(c, m) => \/ faults' = faults + 1
                       \/ framework # "nest" /\ <<NodeOf[c], m>> \in disturbed']_vars
=============================================================================
