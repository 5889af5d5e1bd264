--------------------------- MODULE Channel_proofs ---------------------------
(***************************************************************************)
(* What the channel is worth to its clients, for any number of them: order *)
(* and at most one copy of each message, and nothing missed in silence.    *)
(***************************************************************************)
EXTENDS Channel, TLAPS, SequenceTheorems

TypeInv == /\ published \in Nat
           /\ mail \in [Clients -> SUBSET (1..published)]
           /\ got \in [Clients -> Seq(1..published)]

\* What is on its way is not older than what is there, ...
Newer(c) == framework # "spring" => \A i \in DOMAIN got[c] : \A k \in mail[c] : got[c][i] <= k

\* ... nor the same, unless it was disturbed.
Again(m, c) == framework = "fastapi" /\ <<NodeOf[c], m>> \in disturbed
Fresh(c) == \A i \in DOMAIN got[c] : got[c][i] \in mail[c] => Again(got[c][i], c)

Ordered(c) == framework # "spring" =>
                \A i, j \in DOMAIN got[c] : i < j => got[c][i] <= got[c][j]
Single(c) == \A i, j \in DOMAIN got[c] :
               i # j /\ got[c][i] = got[c][j] => Again(got[c][i], c)

ClientOK(c) == Newer(c) /\ Fresh(c) /\ Ordered(c) /\ Single(c)

ChannelOK == TypeInv /\ \A c \in Clients : ClientOK(c)

\* What a step does to one client: some of his messages go, one is published,
\* a disturbed one starts again, or he gets one.
Goes(c) == got'[c] = got[c] /\ mail'[c] \subseteq mail[c]
Comes(c) == /\ got'[c] = got[c] /\ published' = published + 1
            /\ mail'[c] \subseteq mail[c] \cup {published + 1}
Starts(c) == /\ got'[c] = got[c] /\ framework = "fastapi"
             /\ \E m \in 1..published :
                  /\ <<NodeOf[c], m>> \in disturbed' /\ mail'[c] \subseteq mail[c] \cup {m}
                  /\ m \in mail'[c] \ mail[c] => \A i \in DOMAIN got[c] : got[c][i] <= m
Gets(c) == \E m \in mail[c] :
             /\ got'[c] = Append(got[c], m) /\ mail'[c] = mail[c] \ {m}
             /\ framework # "spring" => \A k \in mail[c] : m <= k

\* A message is appended.
LEMMA Appended ==
  ASSUME NEW p \in Nat, NEW q \in Seq(1..p), NEW m \in 1..p
  PROVE  /\ Append(q, m) \in Seq(1..p)
         /\ \A j \in DOMAIN Append(q, m) :
              \/ j \in DOMAIN q /\ Append(q, m)[j] = q[j]
              \/ j = Len(q) + 1 /\ Append(q, m)[j] = m
         /\ \A j \in DOMAIN q : j \in Nat /\ j < Len(q) + 1 /\ q[j] \in 1..p
         /\ Len(q) \in Nat
<1>1. /\ Append(q, m) \in Seq(1..p) /\ Len(Append(q, m)) = Len(q) + 1
      /\ \A i \in 1..Len(q) : Append(q, m)[i] = q[i]
      /\ Append(q, m)[Len(q) + 1] = m
  BY AppendProperties
<1>2. /\ Len(q) \in Nat /\ DOMAIN q = 1..Len(q) /\ \A j \in 1..Len(q) : q[j] \in 1..p
      /\ DOMAIN Append(q, m) = 1 .. Len(q) + 1
  BY <1>1, LenProperties, ElementOfSeq
<1>3. /\ \A j \in DOMAIN Append(q, m) : j \in DOMAIN q \/ j = Len(q) + 1
      /\ \A j \in DOMAIN q : j \in Nat /\ j < Len(q) + 1
  BY <1>2
<1>4. QED
  BY <1>1, <1>2, <1>3

LEMMA Widened ==
  ASSUME NEW p \in Nat, NEW q \in Seq(1..p)
  PROVE  q \in Seq(1 .. p + 1)
<1>1. 1..p \subseteq 1 .. p + 1
  OBVIOUS
<1>2. QED
  BY <1>1, SeqMonotonic

\* Every step is one of these for each client.
LEMMA Steps ==
  ASSUME ChannelOK, Next
  PROVE  /\ framework' = framework /\ disturbed \subseteq disturbed'
         /\ TypeInv'
         /\ \A c \in Clients : Goes(c) \/ Comes(c) \/ Starts(c) \/ Gets(c)
<1>1. TypeInv
  BY DEF ChannelOK
<1>2. ASSUME NEW listening \in SUBSET Nodes, Publish(listening)
      PROVE  /\ framework' = framework /\ disturbed' = disturbed
             /\ TypeInv' /\ \A c \in Clients : Comes(c)
  <2>1. published' = published + 1 /\ published' \in Nat /\ got' = got
        /\ UNCHANGED <<framework, disturbed>>
    BY <1>1, <1>2 DEF Publish, TypeInv
  <2>2. mail' = [c \in Clients |-> IF NodeOf[c] \in listening THEN mail[c] \cup {published'} ELSE mail[c]]
    BY <1>2 DEF Publish
  <2>3. 1..published \subseteq 1..published' /\ published' \in 1..published'
    BY <1>1, <2>1 DEF TypeInv
  <2>4. mail' \in [Clients -> SUBSET (1..published')]
    BY <1>1, <2>2, <2>3 DEF TypeInv
  <2>5. got' \in [Clients -> Seq(1..published')]
    BY <1>1, <2>1, Widened DEF TypeInv
  <2>6. QED
    BY <2>1, <2>2, <2>4, <2>5 DEF TypeInv, Comes
<1>3. ASSUME NEW c \in Clients, Join(c)
      PROVE  /\ framework' = framework /\ disturbed \subseteq disturbed'
             /\ TypeInv' /\ \A d \in Clients : Goes(d) \/ Starts(d)
  <2>1. UNCHANGED <<framework, published, got>> /\ TypeInv' /\ disturbed \subseteq disturbed'
    BY <1>1, <1>3 DEF Join, Disturb, TypeInv
  <2>2. ASSUME NEW d \in Clients \ {c}, mail'[d] # mail[d] PROVE Starts(d)
    <3>1. PICK m \in 1..published : Disturb(NodeOf[c], m) /\ NodeOf[d] = NodeOf[c] /\ Shuffled(d, m)
      BY <1>3, <2>2 DEF Join
    <3>2. QED
      BY <2>1, <3>1 DEF Starts, Disturb, Shuffled
  <2>3. Goes(c)
    BY <1>3, <2>1 DEF Join, Goes
  <2>4. QED
    BY <2>1, <2>2, <2>3 DEF Goes
<1>4. CASE Leave
  <2>1. UNCHANGED <<framework, published, got>> /\ TypeInv' /\ disturbed \subseteq disturbed'
    BY <1>1, <1>4 DEF Leave, Disturb, TypeInv
  <2>2. \A c \in Clients : Goes(c)
    BY <1>4, <2>1 DEF Leave, Spared, Goes
  <2>3. QED
    BY <2>1, <2>2
<1>5. ASSUME NEW n \in Nodes, NEW m \in 1..published, NEW to \in SUBSET Clients, HandOut(n, m, to)
      PROVE  /\ framework' = framework /\ disturbed' = disturbed
             /\ TypeInv' /\ \A c \in Clients : Goes(c) \/ Gets(c)
  <2>1. /\ UNCHANGED <<framework, published, disturbed>>
        /\ mail' \in [Clients -> SUBSET (1..published)]
        /\ got' = [c \in Clients |-> IF c \in to THEN Append(got[c], m) ELSE got[c]]
    BY <1>5 DEF HandOut
  <2>2. \A c \in Clients : Append(got[c], m) \in Seq(1..published)
    BY <1>1, Appended DEF TypeInv
  <2>3. got' \in [Clients -> Seq(1..published)]
    BY <1>1, <2>1, <2>2 DEF TypeInv
  <2>4. \A c \in Clients : Goes(c) \/ Gets(c)
    BY <1>5, <2>1 DEF HandOut, Spared, Goes, Gets
  <2>5. QED
    BY <1>1, <2>1, <2>3, <2>4 DEF TypeInv
<1>6. ASSUME NEW n \in Nodes, NEW m \in 1..published, GiveUp(n, m)
      PROVE  /\ framework' = framework /\ disturbed \subseteq disturbed'
             /\ TypeInv' /\ \A c \in Clients : Goes(c)
  BY <1>1, <1>6 DEF GiveUp, TypeInv, Goes
<1>7. ASSUME NEW n \in Nodes, NEW lost \in SUBSET (1..published), Cut(n, lost)
      PROVE  /\ framework' = framework /\ disturbed' = disturbed
             /\ TypeInv' /\ \A c \in Clients : Goes(c)
  BY <1>1, <1>7 DEF Cut, TypeInv, Goes
<1>8. QED
  BY <1>2, <1>3, <1>4, <1>5, <1>6, <1>7 DEF Next

\* A client keeps his order, whichever it is.
LEMMA ClientStep ==
  ASSUME TypeInv, NEW c \in Clients, ClientOK(c),
         framework' = framework, disturbed \subseteq disturbed',
         Goes(c) \/ Comes(c) \/ Starts(c) \/ Gets(c)
  PROVE  ClientOK(c)'
<1>1. /\ published \in Nat /\ got[c] \in Seq(1..published) /\ mail[c] \subseteq 1..published
      /\ Newer(c) /\ Fresh(c) /\ Ordered(c) /\ Single(c)
  BY DEF TypeInv, ClientOK
<1>2. \A m : Again(m, c) => Again(m, c)'
  BY DEF Again
<1>3. \A i \in DOMAIN got[c] : got[c][i] \in 1..published
  BY <1>1, LenProperties, ElementOfSeq
<1>4. ASSUME got'[c] = got[c], Newer(c)', Fresh(c)' PROVE ClientOK(c)'
  BY <1>1, <1>2, <1>4 DEF ClientOK, Ordered, Single
<1>5. CASE Goes(c)
  <2>1. Newer(c)' /\ Fresh(c)'
    BY <1>1, <1>2, <1>5 DEF Newer, Fresh, Goes
  <2>2. QED
    BY <1>4, <1>5, <2>1 DEF Goes
<1>6. CASE Comes(c)
  <2>1. /\ got'[c] = got[c] /\ mail'[c] \subseteq mail[c] \cup {published + 1}
    BY <1>6 DEF Comes
  <2>2. \A i \in DOMAIN got[c] : got[c][i] <= published + 1 /\ got[c][i] # published + 1
    BY <1>1, <1>3
  <2>3. Newer(c)'
    BY <1>1, <2>1, <2>2 DEF Newer
  <2>4. Fresh(c)'
    BY <1>1, <1>2, <2>1, <2>2 DEF Fresh
  <2>5. QED
    BY <1>4, <2>1, <2>3, <2>4
<1>7. CASE Starts(c)
  <2>1. PICK m \in 1..published :
          /\ <<NodeOf[c], m>> \in disturbed' /\ mail'[c] \subseteq mail[c] \cup {m}
          /\ m \in mail'[c] \ mail[c] => \A i \in DOMAIN got[c] : got[c][i] <= m
    BY <1>7 DEF Starts
  <2>2. got'[c] = got[c] /\ Again(m, c)'
    BY <1>7, <2>1 DEF Starts, Again
  <2>3. Newer(c)'
    BY <1>1, <2>1, <2>2 DEF Newer
  <2>4. Fresh(c)'
    BY <1>1, <1>2, <2>1, <2>2 DEF Fresh
  <2>5. QED
    BY <1>4, <2>2, <2>3, <2>4
<1>8. CASE Gets(c)
  <2>1. PICK m \in mail[c] : /\ got'[c] = Append(got[c], m) /\ mail'[c] = mail[c] \ {m}
                             /\ framework # "spring" => \A k \in mail[c] : m <= k
    BY <1>8 DEF Gets
  <2>2. /\ \A j \in DOMAIN got'[c] : \/ j \in DOMAIN got[c] /\ got'[c][j] = got[c][j]
                                     \/ j = Len(got[c]) + 1 /\ got'[c][j] = m
        /\ \A j \in DOMAIN got[c] : j \in Nat /\ j < Len(got[c]) + 1
        /\ Len(got[c]) \in Nat /\ m \in 1..published
    BY <1>1, <2>1, Appended
  <2>3. Newer(c)'
    BY <1>1, <2>1, <2>2 DEF Newer
  <2>4. Fresh(c)'
    BY <1>1, <1>2, <2>1, <2>2 DEF Fresh
  <2>5. Ordered(c)'
    <3> SUFFICES ASSUME framework # "spring", NEW i \in DOMAIN got'[c], NEW j \in DOMAIN got'[c], i < j
                 PROVE  got'[c][i] <= got'[c][j]
      BY DEF Ordered
    <3>1. i \in DOMAIN got[c] /\ got'[c][i] = got[c][i]
      BY <2>2
    <3>2. CASE j \in DOMAIN got[c] /\ got'[c][j] = got[c][j]
      BY <1>1, <3>1, <3>2 DEF Ordered
    <3>3. CASE got'[c][j] = m
      BY <1>1, <3>1, <3>3 DEF Newer
    <3>4. QED
      BY <2>2, <3>2, <3>3
  <2>6. Single(c)'
    <3> SUFFICES ASSUME NEW i \in DOMAIN got'[c], NEW j \in DOMAIN got'[c], i # j,
                        NEW k, got'[c][i] = k, got'[c][j] = k
                 PROVE  Again(k, c)'
      BY DEF Single, Again
    <3>1. CASE /\ i \in DOMAIN got[c] /\ got'[c][i] = got[c][i]
               /\ j \in DOMAIN got[c] /\ got'[c][j] = got[c][j]
      BY <1>1, <1>2, <3>1 DEF Single
    <3>2. CASE k = m /\ \E l \in DOMAIN got[c] : got[c][l] = m
      BY <1>1, <1>2, <3>2 DEF Fresh
    <3>3. QED
      BY <2>2, <3>1, <3>2
  <2>7. QED
    BY <2>3, <2>4, <2>5, <2>6 DEF ClientOK
<1>9. QED
  BY <1>5, <1>6, <1>7, <1>8

LEMMA ChannelInit == Init => ChannelOK
BY EmptySeq DEF Init, ChannelOK, TypeInv, ClientOK, Newer, Fresh, Ordered, Single

LEMMA ChannelStep == ChannelOK /\ [Next]_vars => ChannelOK'
<1> SUFFICES ASSUME ChannelOK, [Next]_vars PROVE ChannelOK'
  OBVIOUS
<1>1. CASE Next
  <2>1. TypeInv'
    BY <1>1, Steps
  <2>2. \A c \in Clients : ClientOK(c)'
    BY <1>1, Steps, ClientStep DEF ChannelOK
  <2>3. QED
    BY <2>1, <2>2 DEF ChannelOK
<1>2. CASE UNCHANGED vars
  BY <1>2 DEF vars, ChannelOK, TypeInv, ClientOK, Newer, Fresh, Ordered, Single, Again
<1>3. QED
  BY <1>1, <1>2

\* In order for FastAPI's and NestJS's clients, ...
THEOREM KeepsOrder == Spec => []InOrder
<1>1. ChannelOK => InOrder
  BY DEF ChannelOK, ClientOK, Ordered, InOrder
<1>2. QED
  BY <1>1, ChannelInit, ChannelStep, PTL DEF Spec

\* ... once each, but for disturbed walks, ...
THEOREM HandsOutOnce == Spec => []Once
<1>1. ChannelOK => Once
  BY DEF ChannelOK, ClientOK, Single, Again, Once
<1>2. QED
  BY <1>1, ChannelInit, ChannelStep, PTL DEF Spec

\* ... and a member misses nothing that no fault and no record accounts for.
THEOREM MissesNothing == Spec => NothingMissed
<1> DEFINE Accounted ==
      \A c \in members \cap members' : \A m \in mail[c] :
        Misses(c, m) => \/ faults' = faults + 1
                        \/ framework # "nest" /\ <<NodeOf[c], m>> \in disturbed'
<1>1. ASSUME ChannelOK, members \subseteq Clients \cap joined, Next PROVE Accounted
  <2> SUFFICES ASSUME NEW c \in members \cap members', NEW m \in mail[c], Misses(c, m)
               PROVE  \/ faults' = faults + 1
                      \/ framework # "nest" /\ <<NodeOf[c], m>> \in disturbed'
    OBVIOUS
  <2>1. c \in Clients /\ mail'[c] # mail[c] /\ m \notin mail'[c] /\ m \in 1..published
        /\ \A i \in DOMAIN got'[c] : got'[c][i] # m
    BY <1>1 DEF Misses, ChannelOK, TypeInv
  <2>2. ASSUME NEW listening \in SUBSET Nodes PROVE ~Publish(listening)
    BY <2>1 DEF Publish
  <2>3. ASSUME NEW d \in Clients, Join(d)
        PROVE  framework # "nest" /\ <<NodeOf[c], m>> \in disturbed'
    <3>1. c # d
      BY <1>1, <2>3 DEF Join
    <3>2. QED
      BY <2>1, <2>3, <3>1 DEF Join, Disturb, Shuffled
  <2>4. ~Leave
    BY <2>1 DEF Leave, Spared
  <2>5. ASSUME NEW n \in Nodes, NEW k \in 1..published, NEW to \in SUBSET Clients
        PROVE  ~HandOut(n, k, to)
    <3> SUFFICES ASSUME HandOut(n, k, to) PROVE FALSE
      OBVIOUS
    <3>1. c \in to /\ k = m
      BY <2>1 DEF HandOut, Spared
    <3>2. got'[c] = Append(got[c], m) /\ got[c] \in Seq(1..published) /\ published \in Nat
      BY <1>1, <2>1, <3>1 DEF HandOut, ChannelOK, TypeInv
    <3>3. Len(got[c]) + 1 \in DOMAIN got'[c] /\ got'[c][Len(got[c]) + 1] = m
      BY <2>1, <3>2, AppendProperties, LenProperties
    <3>4. QED
      BY <2>1, <3>3
  <2>6. ASSUME NEW n \in Nodes, NEW k \in 1..published, GiveUp(n, k)
        PROVE  framework # "nest" /\ <<NodeOf[c], m>> \in disturbed'
    BY <2>1, <2>6 DEF GiveUp
  <2>7. ASSUME NEW n \in Nodes, NEW lost \in SUBSET (1..published), Cut(n, lost)
        PROVE  faults' = faults + 1
    BY <2>7 DEF Cut
  <2>8. QED
    BY <1>1, <2>2, <2>3, <2>4, <2>5, <2>6, <2>7 DEF Next
<1>2. Init => members \subseteq Clients \cap joined
  BY DEF Init
<1>3. members \subseteq Clients \cap joined /\ [Next]_vars
        => (members \subseteq Clients \cap joined)'
  <2> SUFFICES ASSUME [Next]_vars
               PROVE  /\ joined \subseteq joined'
                      /\ \/ members' \subseteq members
                         \/ \E c \in Clients : members' = members \cup {c} /\ c \in joined'
    OBVIOUS
  <2>1. ASSUME NEW listening \in SUBSET Nodes, Publish(listening)
        PROVE  joined' = joined /\ members' \subseteq members
    BY <2>1 DEF Publish
  <2>2. ASSUME NEW c \in Clients, Join(c)
        PROVE  joined' = joined \cup {c} /\ members' = members \cup {c}
    BY <2>2 DEF Join
  <2>3. Leave \/ UNCHANGED vars => joined' = joined /\ members' \subseteq members
    BY DEF Leave, vars
  <2>4. ASSUME NEW n \in Nodes, NEW m, NEW to, HandOut(n, m, to) \/ GiveUp(n, m) \/ Cut(n, to)
        PROVE  UNCHANGED <<joined, members>>
    BY <2>4 DEF HandOut, GiveUp, Cut
  <2>5. QED
    BY <2>1, <2>2, <2>3, <2>4 DEF Next
<1>4. ChannelOK /\ members \subseteq Clients \cap joined /\ [Next]_vars => [Accounted]_vars
  BY <1>1
<1>5. QED
  BY <1>2, <1>3, <1>4, ChannelInit, ChannelStep, PTL DEF Spec, NothingMissed
=============================================================================
