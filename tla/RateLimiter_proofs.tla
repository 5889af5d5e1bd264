------------------------- MODULE RateLimiter_proofs -------------------------
(***************************************************************************)
(* The rate limiter never lets more than Limit requests through in a span  *)
(* of Window - Slack ticks, whatever the clocks, the delays, the number of *)
(* requests and the number of replies lost.                                *)
(***************************************************************************)
EXTENDS RateLimiter, TLAPS, FiniteSetTheorems

\* A span in which no more than Limit may be let through.
Span == Window - Slack

\* Where a stamp can lie, relative to the times its request was sent and let
\* through.
StampsNearClock ==
  /\ \A r \in Requests : pc[r] = "sent" =>
       /\ sentAt[r] <= clock /\ clock <= sentAt[r] + MaxDelay
       /\ sentAt[r] - SlowBy <= stamp[r] /\ stamp[r] <= sentAt[r] + FastBy
  /\ \A r \in admitted :
       /\ pc[r] # "idle"
       /\ sentAt[r] <= admittedAt[r] /\ admittedAt[r] <= sentAt[r] + MaxDelay
       /\ sentAt[r] - SlowBy <= stamp[r] /\ stamp[r] <= sentAt[r] + FastBy
       /\ admittedAt[r] <= clock

\* Redis still remembers whoever was let through within the span.
RecentRemembered ==
  /\ \A r \in admitted : clock < admittedAt[r] + Span => r \in zset
  /\ \A r \in zset : admittedAt[r] + Window <= expires

\* The sorted set never holds more than Limit members.
AtMostLimit == Cardinality(zset) <= Limit

SpansBounded == \A t \in Int : Cardinality(AdmittedIn(t, Span)) <= Limit

IInv == TypeOK /\ StampsNearClock /\ RecentRemembered /\ AtMostLimit /\ SpansBounded

-----------------------------------------------------------------------------
\* The key outlives the window: rounding up to seconds never shortens it.
LEMMA KeyOutlivesWindow == KeyLife \in Int /\ KeyLife >= Window
<1> DEFINE a == Window + TicksPerSecond - 1
           q == a \div TicksPerSecond
<1>1. a \in Nat /\ TicksPerSecond \in Nat /\ TicksPerSecond > 0
  BY TimeAssumption
<1>2. /\ q \in Int
      /\ a = TicksPerSecond * q + (a % TicksPerSecond)
      /\ a % TicksPerSecond \in 0 .. TicksPerSecond - 1
  BY <1>1
<1>3. KeyLife = (q + 1) * TicksPerSecond
  BY DEF KeyLife
<1>4. (q + 1) * TicksPerSecond = TicksPerSecond * q + TicksPerSecond
  BY <1>1, <1>2
<1>5. TicksPerSecond * q \in Int
  BY <1>1, <1>2
<1> HIDE DEF q
<1>6. QED
  BY <1>1, <1>2, <1>3, <1>4, <1>5, TimeAssumption

-----------------------------------------------------------------------------
\* Every set the counting is about is finite.
LEMMA FiniteSets ==
  ASSUME NEW S, S \subseteq Requests
  PROVE  IsFiniteSet(S) /\ Cardinality(S) \in Nat
BY RequestsAssumption, FS_Subset, FS_CardinalityType

LEMMA SlackType == Slack \in Nat /\ Span \in Int /\ Window \in Nat
BY TimeAssumption DEF Slack, Span

\* A script that runs while its stamp is near the clock forgets nobody who was
\* let through within the span.
LEMMA InWindowKeepsRecent ==
  ASSUME TypeOK, StampsNearClock, RecentRemembered,
         NEW r \in Requests, pc[r] = "sent",
         NEW i \in admitted, clock < admittedAt[i] + Span
  PROVE  i \in InWindow(stamp[r])
<1>1. i \in zset /\ i \in Requests
  BY DEF RecentRemembered, TypeOK
<1>2. stamp[i] >= admittedAt[i] - MaxDelay - SlowBy
  BY <1>1, TimeAssumption DEF StampsNearClock, TypeOK
<1>3. stamp[r] <= clock + FastBy
  BY TimeAssumption DEF StampsNearClock, TypeOK
<1>4. QED
  BY <1>1, <1>2, <1>3, TimeAssumption DEF InWindow, TypeOK, Span, Slack

\* A script that finds room leaves at most Limit members, its own among them.
LEMMA RoomForOne ==
  ASSUME TypeOK, NEW r \in Requests, HasRoom(stamp[r])
  PROVE  Cardinality(InWindow(stamp[r]) \cup {r}) <= Limit
<1> DEFINE S == InWindow(stamp[r])
<1>1. S \subseteq Requests
  BY DEF InWindow, TypeOK
<1>2. IsFiniteSet(S) /\ Cardinality(S) \in Nat /\ Cardinality(S) < Limit
  BY <1>1, FiniteSets DEF HasRoom
<1>3. Cardinality(S \cup {r}) = IF r \in S THEN Cardinality(S) ELSE Cardinality(S) + 1
  BY <1>2, FS_AddElement
<1>4. QED
  BY <1>2, <1>3, LimitAssumption

\* The script keeps the invariant, whether it lets the request through or not.
LEMMA ScriptStep ==
  ASSUME IInv, NEW r \in Requests, pc[r] = "sent", SlidingWindow(r),
         pc' = pc \/ \E v \in {"allowed", "denied", "error"} : pc' = [pc EXCEPT ![r] = v],
         UNCHANGED <<clock, stamp, sentAt>>
  PROVE  RecentRemembered' /\ AtMostLimit' /\ SpansBounded' /\ StampsNearClock'
<1> USE DEF IInv
<1>1. InWindow(stamp[r]) \subseteq zset /\ zset \subseteq Requests /\ admitted \subseteq Requests
  BY DEF InWindow, TypeOK
<1>2. CASE HasRoom(stamp[r])
  <2>1. /\ zset' = InWindow(stamp[r]) \cup {r}
        /\ expires' = clock + KeyLife
        /\ admitted' = admitted \cup {r}
        /\ admittedAt' = [admittedAt EXCEPT ![r] = clock]
        /\ clock' = clock
    BY <1>2 DEF SlidingWindow
  <2>2. AtMostLimit'
    BY <1>2, <2>1, RoomForOne DEF AtMostLimit
  <2>3. RecentRemembered'
    <3>1. ASSUME NEW i \in admitted', clock' < admittedAt'[i] + Span PROVE i \in zset'
      <4>1. CASE i = r
        BY <2>1, <4>1
      <4>2. CASE i # r
        BY <1>1, <2>1, <3>1, <4>2, InWindowKeepsRecent DEF TypeOK
      <4>3. QED
        BY <4>1, <4>2
    <3>2. ASSUME NEW i \in zset' PROVE admittedAt'[i] + Window <= expires'
      <4>1. admittedAt'[i] \in Int /\ admittedAt'[i] <= clock
        BY <1>1, <2>1, <3>2 DEF TypeOK, StampsNearClock
      <4>2. QED
        BY <2>1, <4>1, KeyOutlivesWindow, SlackType DEF TypeOK
    <3>3. QED
      BY <3>1, <3>2 DEF RecentRemembered
  <2>4. StampsNearClock'
    BY <1>1, <2>1 DEF StampsNearClock, TypeOK
  <2>5. SpansBounded'
    <3> SUFFICES ASSUME NEW t \in Int PROVE Cardinality(AdmittedIn(t, Span)') <= Limit
      BY DEF SpansBounded
    <3>1. AdmittedIn(t, Span)' = {i \in admitted' : t <= admittedAt'[i] /\ admittedAt'[i] < t + Span}
      BY DEF AdmittedIn
    <3>2. zset' \subseteq Requests /\ AdmittedIn(t, Span) \subseteq Requests
      BY <1>1, <2>1 DEF AdmittedIn
    <3>3. CASE t <= clock /\ clock < t + Span
      <4>1. AdmittedIn(t, Span)' \subseteq zset'
        <5> SUFFICES ASSUME NEW i \in AdmittedIn(t, Span)' PROVE i \in zset'
          OBVIOUS
        <5>1. i \in admitted' /\ t <= admittedAt'[i] /\ i \in Requests
          BY <1>1, <2>1, <3>1
        <5>2. clock' < admittedAt'[i] + Span
          BY <2>1, <3>3, <5>1, SlackType DEF TypeOK
        <5>3. QED
          BY <2>3, <5>1, <5>2 DEF RecentRemembered
      <4>2. Cardinality(AdmittedIn(t, Span)') <= Cardinality(zset')
        BY <3>2, <4>1, FiniteSets, FS_Subset
      <4>3. Cardinality(AdmittedIn(t, Span)') \in Nat /\ Cardinality(zset') \in Nat
        BY <3>2, <4>1, FiniteSets
      <4>4. QED
        BY <2>2, <4>2, <4>3, LimitAssumption DEF AtMostLimit
    <3>4. CASE ~(t <= clock /\ clock < t + Span)
      <4>1. AdmittedIn(t, Span)' \subseteq AdmittedIn(t, Span)
        BY <1>1, <2>1, <3>1, <3>4 DEF AdmittedIn, TypeOK
      <4>2. Cardinality(AdmittedIn(t, Span)') <= Cardinality(AdmittedIn(t, Span))
        BY <3>2, <4>1, FiniteSets, FS_Subset
      <4>3. Cardinality(AdmittedIn(t, Span)') \in Nat /\ Cardinality(AdmittedIn(t, Span)) \in Nat
        BY <3>2, <4>1, FiniteSets
      <4>4. QED
        BY <4>2, <4>3, LimitAssumption DEF SpansBounded
    <3>5. QED
      BY <3>3, <3>4
  <2>6. QED
    BY <2>2, <2>3, <2>4, <2>5
<1>3. CASE ~HasRoom(stamp[r])
  <2>1. zset' = InWindow(stamp[r]) /\ UNCHANGED <<expires, admitted, admittedAt, clock>>
    BY <1>3 DEF SlidingWindow
  <2>2. AtMostLimit'
    <3>1. Cardinality(zset') <= Cardinality(zset)
      BY <1>1, <2>1, FiniteSets, FS_Subset
    <3>2. Cardinality(zset') \in Nat /\ Cardinality(zset) \in Nat
      BY <1>1, <2>1, FiniteSets
    <3>3. QED
      BY <3>1, <3>2, LimitAssumption DEF AtMostLimit
  <2>3. RecentRemembered'
    BY <1>1, <2>1, InWindowKeepsRecent DEF RecentRemembered
  <2>4. StampsNearClock'
    BY <1>1, <2>1 DEF StampsNearClock, TypeOK
  <2>5. SpansBounded'
    BY <2>1 DEF SpansBounded, AdmittedIn
  <2>6. QED
    BY <2>2, <2>3, <2>4, <2>5
<1>4. QED
  BY <1>2, <1>3

LEMMA ScriptType ==
  ASSUME TypeOK, NEW r \in Requests, SlidingWindow(r)
  PROVE  /\ expires' \in Int /\ zset' \subseteq admitted' /\ admitted' \subseteq Requests
         /\ admittedAt' \in [Requests -> Int]
<1>1. InWindow(stamp[r]) \subseteq zset
  BY DEF InWindow
<1>2. QED
  BY <1>1, KeyOutlivesWindow DEF SlidingWindow, TypeOK

LEMMA Inductive == IInv /\ [Next]_vars => IInv'
<1> SUFFICES ASSUME IInv, [Next]_vars PROVE IInv'
  OBVIOUS
<1>1. ASSUME NEW r \in Requests, CheckRateLimit(r) PROVE IInv'
  <2>1. PICK t \in clock - SlowBy .. clock + FastBy : stamp' = [stamp EXCEPT ![r] = t]
    BY <1>1 DEF CheckRateLimit
  <2>2. t \in Int /\ clock - SlowBy <= t /\ t <= clock + FastBy
    BY TimeAssumption DEF IInv, TypeOK
  <2>3. /\ pc[r] = "idle" /\ r \notin admitted
        /\ sentAt' = [sentAt EXCEPT ![r] = clock]
        /\ pc' = [pc EXCEPT ![r] = "sent"]
        /\ UNCHANGED <<clock, zset, expires, admitted, admittedAt, faults>>
    BY <1>1 DEF CheckRateLimit, IInv, StampsNearClock
  <2>4. TypeOK'
    BY <2>1, <2>2, <2>3 DEF IInv, TypeOK
  <2>5. StampsNearClock'
    BY <2>1, <2>2, <2>3, TimeAssumption DEF IInv, StampsNearClock, TypeOK
  <2>6. RecentRemembered' /\ AtMostLimit' /\ SpansBounded'
    BY <2>3 DEF IInv, RecentRemembered, AtMostLimit, SpansBounded, AdmittedIn
  <2>7. QED
    BY <2>4, <2>5, <2>6 DEF IInv
<1>2. ASSUME NEW r \in Requests, Answered(r) PROVE IInv'
  <2>1. /\ pc[r] = "sent" /\ SlidingWindow(r)
        /\ \E v \in {"allowed", "denied", "error"} : pc' = [pc EXCEPT ![r] = v]
        /\ UNCHANGED <<clock, stamp, sentAt, faults>>
    BY <1>2 DEF Answered
  <2>2. TypeOK'
    BY <2>1, ScriptType DEF IInv, TypeOK
  <2>3. QED
    BY <2>1, <2>2, ScriptStep DEF IInv
<1>3. ASSUME NEW r \in Requests, ReplyLost(r) PROVE IInv'
  <2>1. /\ pc[r] = "sent" /\ SlidingWindow(r)
        /\ \/ pc' = pc
           \/ \E v \in {"allowed", "denied", "error"} : pc' = [pc EXCEPT ![r] = v]
        /\ UNCHANGED <<clock, stamp, sentAt>>
        /\ faults' = faults + 1
    BY <1>3 DEF ReplyLost
  <2>2. TypeOK'
    BY <2>1, ScriptType DEF IInv, TypeOK
  <2>3. QED
    BY <2>1, <2>2, ScriptStep DEF IInv
<1>4. ASSUME Tick PROVE IInv'
  <2>1. /\ clock' = clock + 1
        /\ zset' = IF clock' >= expires THEN {} ELSE zset
        /\ UNCHANGED <<expires, pc, stamp, sentAt, admitted, admittedAt, faults>>
        /\ \A r \in Requests : pc[r] = "sent" => clock < sentAt[r] + MaxDelay
    BY <1>4 DEF Tick
  <2>2. TypeOK'
    BY <2>1 DEF IInv, TypeOK
  <2>3. StampsNearClock'
    BY <2>1, TimeAssumption DEF IInv, StampsNearClock, TypeOK
  <2>4. RecentRemembered'
    BY <2>1, SlackType, TimeAssumption DEF IInv, RecentRemembered, TypeOK, Span
  <2>5. AtMostLimit'
    BY <2>1, FS_EmptySet, LimitAssumption DEF IInv, AtMostLimit
  <2>6. SpansBounded'
    BY <2>1 DEF IInv, SpansBounded, AdmittedIn
  <2>7. QED
    BY <2>2, <2>3, <2>4, <2>5, <2>6 DEF IInv
<1>5. CASE UNCHANGED vars
  BY <1>5 DEF vars, IInv, TypeOK, StampsNearClock, RecentRemembered, AtMostLimit,
             SpansBounded, AdmittedIn
<1>6. QED
  BY <1>1, <1>2, <1>3, <1>4, <1>5 DEF Next

\* No request is recorded before the first one.
LEMMA InitInv == Init => IInv
<1> SUFFICES ASSUME Init PROVE IInv
  OBVIOUS
<1>1. TypeOK /\ StampsNearClock /\ RecentRemembered
  BY TimeAssumption DEF Init, TypeOK, StampsNearClock, RecentRemembered
<1>2. AtMostLimit
  BY FS_EmptySet, LimitAssumption DEF Init, AtMostLimit
<1>3. \A t \in Int : AdmittedIn(t, Span) = {}
  BY DEF Init, AdmittedIn
<1>4. SpansBounded
  BY <1>3, FS_EmptySet, LimitAssumption DEF SpansBounded
<1>5. QED
  BY <1>1, <1>2, <1>4 DEF IInv

\* Clock readings, stamps and expiry stay integers, and the sorted set holds
\* only requests that were let through.
THEOREM TypeCorrect == Spec => []TypeOK
<1>1. IInv => TypeOK
  BY DEF IInv
<1>2. QED
  BY <1>1, InitInv, Inductive, PTL DEF Spec

\* The bound on the rate, for all parameters: between any two instants less
\* than Window - Slack apart at most Limit requests were let through.
THEOREM RateLimited == Spec => []RateBounded
<1>1. IInv => RateBounded
  BY BoundsAssumption DEF IInv, SpansBounded, RateBounded, Span
<1>2. QED
  BY <1>1, InitInv, Inductive, PTL DEF Spec

\* What docs/02 section 1.3 promises is true of perfect clocks and of scripts
\* that run when they are sent: the limit then holds over the whole window.
THEOREM RateIsExact == Slack = 0 /\ Spec => []RateExact
<1>1. SUFFICES ASSUME Slack = 0 PROVE Spec => []RateExact
  OBVIOUS
<1>2. IInv => RateExact
  BY <1>1, BoundsAssumption, TimeAssumption DEF IInv, SpansBounded, RateExact, Span
<1>3. QED
  BY <1>2, InitInv, Inductive, PTL DEF Spec

-----------------------------------------------------------------------------
\* Whoever still counts against a request was let through not long ago.
LEMMA CountedAreRecent ==
  ASSUME IInv, NEW r \in Requests, pc[r] = "sent"
  PROVE  InWindow(stamp[r]) \subseteq AdmittedIn(clock - Window - Slack + 1, Window + Slack)
<1> SUFFICES ASSUME NEW i \in InWindow(stamp[r])
             PROVE  i \in AdmittedIn(clock - Window - Slack + 1, Window + Slack)
  OBVIOUS
<1>1. i \in admitted /\ i \in Requests /\ stamp[i] > stamp[r] - Window
  BY DEF InWindow, IInv, TypeOK
<1>2. stamp[r] >= clock - MaxDelay - SlowBy
  BY TimeAssumption DEF IInv, StampsNearClock, TypeOK
<1>3. admittedAt[i] >= stamp[i] - FastBy /\ admittedAt[i] <= clock
  BY <1>1, TimeAssumption DEF IInv, StampsNearClock, TypeOK
<1>4. /\ stamp[i] \in Int /\ stamp[r] \in Int /\ admittedAt[i] \in Int /\ clock \in Int
      /\ Slack = SlowBy + MaxDelay + FastBy
  BY <1>1 DEF IInv, TypeOK, Slack
<1>5. /\ clock - Window - Slack + 1 <= admittedAt[i]
      /\ admittedAt[i] < clock - Window - Slack + 1 + (Window + Slack)
  BY <1>1, <1>2, <1>3, <1>4, TimeAssumption
<1>6. QED
  BY <1>1, <1>5 DEF AdmittedIn

\* A request is denied only when Limit requests got through within Window +
\* Slack ticks: no clock, delay or retry lets a client be turned away for nothing.
THEOREM DenialsFollowAdmissions == Spec => DenialsJustified
<1> DEFINE Justified ==
      \A r \in Requests : pc[r] = "sent" /\ pc'[r] = "denied" =>
        Cardinality(AdmittedIn(clock - Window - Slack + 1, Window + Slack)) >= Limit
<1>1. IInv /\ [Next]_vars => Justified
  <2> SUFFICES ASSUME IInv, [Next]_vars, NEW r \in Requests, pc[r] = "sent", pc'[r] = "denied"
               PROVE  Cardinality(AdmittedIn(clock - Window - Slack + 1, Window + Slack)) >= Limit
    OBVIOUS
  <2>1. ~HasRoom(stamp[r])
    <3>1. PICK q \in Requests : CheckRateLimit(q) \/ Answered(q) \/ ReplyLost(q)
      BY DEF Next, Tick, vars
    <3>2. q = r /\ Answered(r)
      BY <3>1 DEF CheckRateLimit, Answered, ReplyLost, IInv, TypeOK
    <3>3. QED
      BY <3>2 DEF Answered, IInv, TypeOK
  <2> DEFINE A == AdmittedIn(clock - Window - Slack + 1, Window + Slack)
  <2>2. InWindow(stamp[r]) \subseteq A
    BY CountedAreRecent
  <2>3. A \subseteq Requests
    BY DEF AdmittedIn, IInv, TypeOK
  <2>4. IsFiniteSet(A) /\ Cardinality(A) \in Nat /\ Cardinality(InWindow(stamp[r])) \in Nat
    BY <2>2, <2>3, FiniteSets
  <2>5. Cardinality(InWindow(stamp[r])) <= Cardinality(A)
    BY <2>2, <2>4, FS_Subset
  <2> HIDE DEF A
  <2>6. Cardinality(A) >= Limit
    BY <2>1, <2>4, <2>5, LimitAssumption DEF HasRoom
  <2>7. QED
    BY <2>6 DEF A
<1> HIDE DEF Justified
<1>2. Spec => [][Justified]_vars
  BY <1>1, InitInv, Inductive, PTL DEF Spec
<1>3. QED
  BY <1>2 DEF Justified, DenialsJustified
=============================================================================
