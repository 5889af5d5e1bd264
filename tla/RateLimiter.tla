---------------------------- MODULE RateLimiter ----------------------------
(***************************************************************************)
(* Case 1: the sliding-window rate limiter.  A node stamps a request with  *)
(* its own clock and sends a Lua script to Redis; the script drops the     *)
(* stamps that left the window, counts the rest and records the request    *)
(* when there is room.  Node clocks differ from Redis's by at most SlowBy  *)
(* and FastBy, and a script runs at most MaxDelay after it was stamped, so *)
(* scripts may run in another order than they were stamped.  One client is *)
(* modelled: clients share no key.  A request stands for the unique member *)
(* it adds to the sorted set.                                              *)
(***************************************************************************)
EXTENDS Integers, FiniteSets

CONSTANTS Requests,        \* requests of the client
          Limit,           \* requests a window admits
          Window,          \* length of the window, in ticks
          TicksPerSecond,  \* EXPIRE counts in seconds
          SlowBy, FastBy,  \* how far node clocks are behind and ahead
          MaxDelay,        \* ticks from stamp to script
          MaxFaults,       \* bound on replies that are lost
          MaxTime          \* bound on the clock

ASSUME RequestsAssumption == IsFiniteSet(Requests)
ASSUME LimitAssumption == Limit \in Nat
ASSUME TimeAssumption == /\ Window \in Nat \ {0}
                         /\ TicksPerSecond \in Nat \ {0}
                         /\ SlowBy \in Nat /\ FastBy \in Nat /\ MaxDelay \in Nat
ASSUME BoundsAssumption == MaxFaults \in Nat /\ MaxTime \in Nat

VARIABLES clock,     \* Redis's time
          zset,      \* members of ratelimit:<client>, scored by their stamp
          expires,   \* when Redis forgets the key
          pc,        \* where each request stands
          stamp,     \* now_ms as its node read it
          sentAt,    \* history: when it was stamped
          admitted,   \* history: requests the script ever let through
          admittedAt,\* history: when it last did
          faults     \* replies lost so far

vars == <<clock, zset, expires, pc, stamp, sentAt, admitted, admittedAt, faults>>

Init == /\ clock = SlowBy
        /\ zset = {}
        /\ expires = 0
        /\ pc = [r \in Requests |-> "idle"]
        /\ stamp = [r \in Requests |-> 0]
        /\ sentAt = [r \in Requests |-> 0]
        /\ admittedAt = [r \in Requests |-> 0]
        /\ admitted = {}
        /\ faults = 0

\* The node reads its clock and sends the script.
CheckRateLimit(r) ==
  /\ pc[r] = "idle"
  /\ \E t \in clock - SlowBy .. clock + FastBy : stamp' = [stamp EXCEPT ![r] = t]
  /\ sentAt' = [sentAt EXCEPT ![r] = clock]
  /\ pc' = [pc EXCEPT ![r] = "sent"]
  /\ UNCHANGED <<clock, zset, expires, admitted, admittedAt, faults>>

\* Mutant: the bound excluded, ZREMRANGEBYSCORE key 0 "(" .. now - window.
InWindowInclusive(now) == {i \in zset : stamp[i] >= now - Window}

\* ZREMRANGEBYSCORE key 0 (now - window): the bound itself leaves as well.
InWindow(now) == {i \in zset : stamp[i] > now - Window}

\* Mutant: count <= limit.
HasRoomOffByOne(now) == Cardinality(InWindow(now)) <= Limit

HasRoom(now) == Cardinality(InWindow(now)) < Limit

\* EXPIRE key ceil(window / 1000) + 1, in ticks.
KeyLife == ((Window + TicksPerSecond - 1) \div TicksPerSecond + 1) * TicksPerSecond

\* Mutant: ZADD before the count is compared, so that denials count too.
SlidingWindowRecordsAll(r) ==
  /\ zset' = InWindow(stamp[r]) \cup {r}
  /\ expires' = clock + KeyLife
  /\ IF HasRoom(stamp[r])
     THEN /\ admitted' = admitted \cup {r}
          /\ admittedAt' = [admittedAt EXCEPT ![r] = clock]
     ELSE UNCHANGED <<admitted, admittedAt>>

\* SLIDING_WINDOW_LUA, atomic in Redis.
SlidingWindow(r) ==
  IF HasRoom(stamp[r])
  THEN /\ zset' = InWindow(stamp[r]) \cup {r}
       /\ expires' = clock + KeyLife
       /\ admitted' = admitted \cup {r}
       /\ admittedAt' = [admittedAt EXCEPT ![r] = clock]
  ELSE /\ zset' = InWindow(stamp[r])
       /\ UNCHANGED <<expires, admitted, admittedAt>>

\* The script runs and its answer reaches the caller.
Answered(r) ==
  /\ pc[r] = "sent"
  /\ pc' = [pc EXCEPT ![r] = IF HasRoom(stamp[r]) THEN "allowed" ELSE "denied"]
  /\ SlidingWindow(r)
  /\ UNCHANGED <<clock, stamp, sentAt, faults>>

\* The script runs and its reply is lost: the driver sends the same script
\* again, or raises and the request ends in an error that used up its place.
ReplyLost(r) ==
  /\ pc[r] = "sent"
  /\ faults < MaxFaults
  /\ faults' = faults + 1
  /\ SlidingWindow(r)
  /\ \/ UNCHANGED pc
     \/ pc' = [pc EXCEPT ![r] = "error"]
  /\ UNCHANGED <<clock, stamp, sentAt>>

\* Time passes; Redis forgets the whole key when its time is up.
Tick ==
  /\ clock < MaxTime
  /\ \A r \in Requests : pc[r] = "sent" => clock < sentAt[r] + MaxDelay
  /\ clock' = clock + 1
  /\ zset' = IF clock' >= expires THEN {} ELSE zset
  /\ UNCHANGED <<expires, pc, stamp, sentAt, admitted, admittedAt, faults>>

Next == \/ \E r \in Requests : CheckRateLimit(r) \/ Answered(r) \/ ReplyLost(r)
        \/ Tick

Spec == Init /\ [][Next]_vars

-----------------------------------------------------------------------------
(***************************************************************************)
(* Properties.                                                             *)
(***************************************************************************)

TypeOK ==
  /\ clock \in Int /\ expires \in Int
  /\ zset \subseteq admitted /\ admitted \subseteq Requests
  /\ pc \in [Requests -> {"idle", "sent", "allowed", "denied", "error"}]
  /\ stamp \in [Requests -> Int]
  /\ sentAt \in [Requests -> Int]
  /\ admittedAt \in [Requests -> Int]
  /\ faults \in Nat

\* How far a stamp can be from the time its script runs, both ways together.
Slack == SlowBy + MaxDelay + FastBy

\* The requests let through in the span that starts at t.
AdmittedIn(t, span) ==
  {r \in admitted : t <= admittedAt[r] /\ admittedAt[r] < t + span}

\* However the scripts are reordered and whichever clock stamps them, no span
\* of Window - Slack ticks sees more than Limit requests through, retries and
\* lost replies included; with perfect clocks and no delay that is the window.
RateBounded ==
  \A t \in 0..MaxTime :
    Cardinality(AdmittedIn(t, Window - Slack)) <= Limit

\* The limit is exact over the whole window, however many nodes there are:
\* what docs/02 section 1.3 promises.
RateExact ==
  \A t \in 0..MaxTime : Cardinality(AdmittedIn(t, Window)) <= Limit

\* A request is only turned away when Limit requests were let through no
\* longer than Window + Slack ticks before: denials do not feed on denials,
\* and a client that slows down gets through again.
DenialsJustified ==
  [][\A r \in Requests :
       pc[r] = "sent" /\ pc'[r] = "denied" =>
         Cardinality(AdmittedIn(clock - Window - Slack + 1, Window + Slack)) >= Limit]_vars
=============================================================================
