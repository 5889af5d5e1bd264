----------------------- MODULE CircuitBreaker_proofs -----------------------
(***************************************************************************)
(* Proofs about the circuit breaker, for any number of callers, any        *)
(* threshold and any timeout.                                              *)
(***************************************************************************)
EXTENDS CircuitBreaker, TLAPS, FiniteSetTheorems

\* While the circuit is closed its count is the current streak of failures.
CountIsStreak == /\ streak <= failureCount
                 /\ state = "CLOSED" => streak = failureCount

\* Every call under way is as old as the circuit has been open, and under a
\* half-open circuit was admitted by it.
RunningCallsFresh ==
  /\ state = "OPEN" => \A c \in running : elapsed <= age[c]
  /\ state = "HALF_OPEN" => running \subseteq probes

\* Spring runs one call at a time.
SpringSerial == framework = "spring" => \A c, d \in running : c = d

IInv == TypeOK /\ CountMatchesState /\ CountIsStreak /\ SpringSerial

-----------------------------------------------------------------------------
LEMMA InitInv == Init => IInv /\ RunningCallsFresh
BY ThresholdAssumption, TimeAssumption, BoundAssumption
   DEF Init, MaxElapsed, IInv, TypeOK, CountMatchesState, CountIsStreak, SpringSerial,
       RunningCallsFresh

\* Checking the circuit changes neither the count nor whether it is closed.
LEMMA UpdateEffect ==
  ASSUME TypeOK, UpdateStateIfNeeded
  PROVE  /\ state' \in {"CLOSED", "OPEN", "HALF_OPEN"}
         /\ elapsed' \in 0..MaxElapsed /\ drift' \in -MaxSkew..MaxSkew
         /\ (state' = "CLOSED") <=> (state = "CLOSED")
         /\ state' = "OPEN" => state = "OPEN" /\ elapsed' = elapsed
         /\ state' = "HALF_OPEN" /\ state # "HALF_OPEN" =>
              state = "OPEN" /\ elapsed >= RecoveryTimeout - MaxSkew
         /\ state = "HALF_OPEN" => state' = "HALF_OPEN"
BY TimeAssumption DEF UpdateStateIfNeeded, Restamp, MaxElapsed, TypeOK

LEMMA Inductive == IInv /\ [Next]_vars => IInv'
<1> SUFFICES ASSUME IInv, [Next]_vars PROVE IInv'
  OBVIOUS
<1> USE ThresholdAssumption, TimeAssumption, BoundAssumption
    DEF IInv, CountMatchesState, CountIsStreak, SpringSerial
<1>1. ASSUME NEW c \in Callers, Call(c) PROVE IInv'
  <2>1. UpdateStateIfNeeded
        /\ UNCHANGED <<framework, failureCount, healthy, age, streak>>
    BY <1>1 DEF Call
  <2>2. running' \subseteq Callers /\ probes' \subseteq Callers
        /\ running' \subseteq running \cup {c}
    BY <1>1 DEF Call, TypeOK
  <2>3. framework = "spring" => running = {}
    BY <1>1 DEF Call, MonitorFree
  <2>4. TypeOK'
    BY <2>1, <2>2, UpdateEffect DEF TypeOK
  <2>5. CountMatchesState' /\ CountIsStreak'
    BY <2>1, UpdateEffect
  <2>6. SpringSerial'
    BY <2>1, <2>2, <2>3
  <2>7. QED
    BY <2>4, <2>5, <2>6
<1>2. ASSUME NEW c \in Callers, Settle(c) PROVE IInv'
  <2>1. /\ running' = running \ {c}
        /\ age' = [age EXCEPT ![c] = 0]
        /\ probes' \subseteq Callers
        /\ UNCHANGED <<framework, healthy>>
    BY <1>2 DEF Settle, TypeOK
  <2>2. CASE healthy
    <3>1. OnSuccess /\ streak' = 0
      BY <1>2, <2>2 DEF Settle
    <3>2. TypeOK'
      BY <2>1, <3>1 DEF OnSuccess, Restamp, circuit, MaxElapsed, TypeOK
    <3>3. CountMatchesState' /\ CountIsStreak'
      BY <3>1 DEF OnSuccess, Restamp, circuit, MaxElapsed, TypeOK
    <3>4. QED
      BY <2>1, <3>2, <3>3
  <2>3. CASE ~healthy
    <3>1. failureCount < MaxCount /\ OnFailure /\ streak' = streak + 1
      BY <1>2, <2>3 DEF Settle
    <3>2. TypeOK'
      BY <2>1, <3>1 DEF OnFailure, Restamp, circuit, MaxElapsed, TypeOK
    <3>3. CountMatchesState' /\ CountIsStreak'
      BY <3>1 DEF OnFailure, Restamp, circuit, MaxElapsed, TypeOK
    <3>4. QED
      BY <2>1, <3>2, <3>3
  <2>4. QED
    BY <2>2, <2>3
<1>3. ASSUME GetState PROVE IInv'
  <2>1. UpdateStateIfNeeded
        /\ UNCHANGED <<framework, failureCount, healthy, running, age, streak>>
        /\ probes' \subseteq Callers
    BY <1>3 DEF GetState, TypeOK
  <2>2. QED
    BY <2>1, UpdateEffect DEF TypeOK
<1>4. ASSUME ToggleExternalFault PROVE IInv'
  BY <1>4 DEF ToggleExternalFault, circuit, TypeOK
<1>5. ASSUME Tick PROVE IInv'
  <2>1. TypeOK'
    BY <1>5 DEF Tick, MaxElapsed, TypeOK
  <2>2. QED
    BY <1>5, <2>1 DEF Tick
<1>6. ASSUME ClockStep PROVE IInv'
  BY <1>6 DEF ClockStep, TypeOK
<1>7. CASE UNCHANGED vars
  BY <1>7 DEF vars, circuit, TypeOK
<1>8. QED
  BY <1>1, <1>2, <1>3, <1>4, <1>5, <1>6, <1>7 DEF Next

\* The circuit's variables keep their types however calls, results and clock
\* changes interleave; in particular no count or age leaves its range.
THEOREM TypeCorrect == Spec => []TypeOK
<1>1. IInv => TypeOK
  BY DEF IInv
<1>2. Init => IInv
  BY InitInv
<1>3. QED
  BY <1>1, <1>2, Inductive, PTL DEF Spec

\* The match between the circuit's state and its count.
THEOREM StateMatchesCount == Spec => []CountMatchesState
<1>1. IInv => CountMatchesState
  BY DEF IInv
<1>2. Init => IInv
  BY InitInv
<1>3. QED
  BY <1>1, <1>2, Inductive, PTL DEF Spec

\* A closed circuit opens on FailureThreshold failures in a row.
THEOREM OpensOnStreak == Spec => OpensAfterStreak
<1> DEFINE Streak == state = "CLOSED" /\ state' = "OPEN" => streak' >= FailureThreshold
<1>1. IInv /\ [Next]_vars => Streak
  <2> SUFFICES ASSUME IInv, [Next]_vars, state = "CLOSED", state' = "OPEN"
               PROVE  streak' >= FailureThreshold
    OBVIOUS
  <2>1. ASSUME NEW c \in Callers, Call(c) PROVE FALSE
    BY <2>1, UpdateEffect DEF Call, IInv
  <2>2. ASSUME NEW c \in Callers, Settle(c) PROVE streak' >= FailureThreshold
    <3>1. ~healthy
      BY <2>2 DEF Settle, OnSuccess
    <3>2. failureCount' = failureCount + 1 /\ streak' = streak + 1
          /\ failureCount' >= FailureThreshold
      BY <2>2, <3>1 DEF Settle, OnFailure
    <3>3. streak = failureCount
      BY DEF IInv, CountIsStreak
    <3>4. QED
      BY <3>2, <3>3
  <2>3. ASSUME GetState PROVE FALSE
    BY <2>3, UpdateEffect DEF GetState, IInv
  <2>4. ASSUME ToggleExternalFault \/ Tick \/ ClockStep \/ UNCHANGED vars PROVE FALSE
    BY <2>4 DEF ToggleExternalFault, Tick, ClockStep, circuit, vars
  <2>5. QED
    BY <2>1, <2>2, <2>3, <2>4 DEF Next
<1> HIDE DEF Streak
<1>2. Init => IInv
  BY InitInv
<1>3. Spec => [][Streak]_vars
  BY <1>1, <1>2, Inductive, PTL DEF Spec
<1>4. QED
  BY <1>3 DEF Streak, OpensAfterStreak

-----------------------------------------------------------------------------
\* By the time the circuit turns half-open, every call admitted before it
\* opened has been settled.
LEMMA FreshStep ==
  ASSUME MaxLatency + MaxSkew < RecoveryTimeout, TypeOK, RunningCallsFresh, [Next]_vars
  PROVE  RunningCallsFresh'
<1> USE TimeAssumption DEF RunningCallsFresh
<1>1. ASSUME NEW c \in Callers, Call(c) PROVE RunningCallsFresh'
  <2>1. /\ UpdateStateIfNeeded
        /\ running' = IF state' = "OPEN" THEN running ELSE running \cup {c}
        /\ probes' = IF state' # "HALF_OPEN" THEN {}
                     ELSE IF state = "OPEN" THEN {c} ELSE probes \cup {c}
        /\ age' = age
    BY <1>1 DEF Call
  <2>2. CASE state' = "OPEN"
    BY <2>1, <2>2, UpdateEffect
  <2>3. CASE state' = "HALF_OPEN" /\ state = "OPEN"
    <3>1. running = {}
      BY <2>1, <2>3, UpdateEffect DEF TypeOK
    <3>2. QED
      BY <2>1, <2>3, <3>1
  <2>4. CASE state' = "HALF_OPEN" /\ state # "OPEN"
    <3>1. state = "HALF_OPEN"
      BY <2>1, <2>4, UpdateEffect
    <3>2. QED
      BY <2>1, <2>4, <3>1
  <2>5. QED
    BY <2>2, <2>3, <2>4
<1>2. ASSUME NEW c \in Callers, Settle(c) PROVE RunningCallsFresh'
  <2>1. /\ running' = running \ {c}
        /\ age' = [age EXCEPT ![c] = 0]
        /\ probes' = IF state' = "HALF_OPEN" THEN probes ELSE {}
        /\ OnSuccess \/ OnFailure
    BY <1>2 DEF Settle
  <2>2. CASE state' = "OPEN"
    BY <2>1, <2>2 DEF OnSuccess, OnFailure, Restamp, TypeOK
  <2>3. CASE state' = "HALF_OPEN"
    BY <2>1, <2>3 DEF OnSuccess, OnFailure
  <2>4. QED
    BY <2>2, <2>3
<1>3. ASSUME GetState PROVE RunningCallsFresh'
  <2>1. /\ UpdateStateIfNeeded
        /\ probes' = IF state = "HALF_OPEN" THEN probes ELSE {}
        /\ UNCHANGED <<running, age>>
    BY <1>3 DEF GetState
  <2>2. CASE state' = "HALF_OPEN" /\ state # "HALF_OPEN"
    <3>1. running = {}
      BY <2>1, <2>2, UpdateEffect DEF TypeOK
    <3>2. QED
      BY <2>1, <2>2, <3>1
  <2>3. CASE ~(state' = "HALF_OPEN" /\ state # "HALF_OPEN")
    BY <2>1, <2>3, UpdateEffect
  <2>4. QED
    BY <2>2, <2>3
<1>4. ASSUME Tick PROVE RunningCallsFresh'
  BY <1>4 DEF Tick, TypeOK
<1>5. ASSUME ToggleExternalFault \/ ClockStep \/ UNCHANGED vars
      PROVE  RunningCallsFresh'
  BY <1>5 DEF ToggleExternalFault, ClockStep, circuit, vars
<1>6. QED
  BY <1>1, <1>2, <1>3, <1>4, <1>5 DEF Next

\* A half-open circuit is decided by its own probes, when calls are quicker
\* than the recovery timeout by more than the wall clock strays.
THEOREM ProbesDecide ==
  MaxLatency + MaxSkew < RecoveryTimeout /\ Spec => FreshProbeDecides
<1> DEFINE Fresh == \A c \in Callers :
              state = "HALF_OPEN" /\ state' # "HALF_OPEN" /\ c \in running \ running'
                => c \in probes
           FInv == IInv /\ RunningCallsFresh
<1>1. SUFFICES ASSUME MaxLatency + MaxSkew < RecoveryTimeout PROVE Spec => FreshProbeDecides
  OBVIOUS
<1>2. FInv /\ [Next]_vars => FInv'
  <2>1. IInv => TypeOK
    BY DEF IInv
  <2>2. QED
    BY <1>1, <2>1, Inductive, FreshStep
<1>3. FInv => Fresh
  BY DEF RunningCallsFresh
<1>4. Init => FInv
  BY InitInv
<1> HIDE DEF FInv, Fresh
<1>5. Spec => [][Fresh]_vars
  BY <1>2, <1>3, <1>4, PTL DEF Spec
<1>6. QED
  BY <1>5 DEF Fresh, FreshProbeDecides

\* OneProbe holds of Spring, whose monitor lets one call through at a time; it
\* takes an implementation without the monitor to violate it.
THEOREM SpringProbesOnce == Frameworks \subseteq {"spring"} /\ Spec => []OneProbe
<1>1. SUFFICES ASSUME Frameworks \subseteq {"spring"} PROVE Spec => []OneProbe
  OBVIOUS
<1>2. IInv => OneProbe
  <2> SUFFICES ASSUME IInv PROVE Cardinality(running) <= 1
    BY DEF OneProbe
  <2>1. CASE running = {}
    BY <2>1, FS_EmptySet
  <2>2. CASE running # {}
    <3>1. PICK c \in running : TRUE
      BY <2>2
    <3>2. running = {c}
      BY <1>1, <3>1 DEF IInv, SpringSerial, TypeOK
    <3>3. QED
      BY <3>2, FS_Singleton
  <2>3. QED
    BY <2>1, <2>2
<1>3. Init => IInv
  BY InitInv
<1>4. QED
  BY <1>2, <1>3, Inductive, PTL DEF Spec
=============================================================================
