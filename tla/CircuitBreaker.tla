--------------------------- MODULE CircuitBreaker ---------------------------
(***************************************************************************)
(* Case 4: the circuit breaker that guards the payment gateway, one per    *)
(* API node.  Checking the circuit before a call and settling its result   *)
(* are single steps of the node's event loop (FastAPI, NestJS); the call   *)
(* itself runs between them, so the results of calls admitted in different *)
(* states of the circuit arrive in any order.  Spring instead holds the    *)
(* breaker's monitor from the check to the result.  "framework" names the  *)
(* implementation that runs and never changes.                             *)
(***************************************************************************)
EXTENDS Integers, FiniteSets

CONSTANTS Frameworks,        \* the implementations considered
          Callers,           \* concurrent calls
          FailureThreshold,  \* failures in a row that open the circuit
          RecoveryTimeout,   \* ticks the circuit stays open
          MaxLatency,        \* ticks a call to the gateway takes at most
          MaxSkew,           \* ticks the wall clock strays from true time
                             \* while the circuit is open
          MaxCount           \* bound on failure_count and on the streak

ASSUME FrameworksAssumption == Frameworks \subseteq {"fastapi", "nest", "spring"}
ASSUME ThresholdAssumption == FailureThreshold \in Nat \ {0}
ASSUME TimeAssumption == RecoveryTimeout \in Nat /\ MaxLatency \in Nat /\ MaxSkew \in Nat
ASSUME BoundAssumption == MaxCount \in Nat /\ MaxCount > FailureThreshold

VARIABLES framework,     \* the implementation that runs
          state,         \* CLOSED, OPEN or HALF_OPEN
          failureCount,  \* failures counted against the threshold
          elapsed,       \* true time since last_state_change while OPEN
          drift,         \* how far the wall clock has strayed since then
          healthy,       \* whether the external service works
          running,       \* the callers whose call is under way
          age,           \* how long it has been
          probes,        \* history: callers admitted since the last HALF_OPEN
          streak         \* history: results in a row that were failures

circuit == <<state, failureCount, elapsed, drift>>
vars == <<framework, circuit, healthy, running, age, probes, streak>>

Init == /\ framework \in Frameworks
        /\ state = "CLOSED"
        /\ failureCount = 0
        /\ elapsed = 0
        /\ drift = 0
        /\ healthy = TRUE
        /\ running = {}
        /\ age = [c \in Callers |-> 0]
        /\ probes = {}
        /\ streak = 0

-----------------------------------------------------------------------------
\* last_state_change becomes now.
Restamp == elapsed' = 0 /\ drift' = 0

\* Mutant: the timeout is not compared.
UpdateStateAtOnce ==
  IF state = "OPEN"
  THEN state' = "HALF_OPEN" /\ Restamp
  ELSE UNCHANGED <<state, elapsed, drift>>

\* OPEN becomes HALF_OPEN once the wall clock says the timeout has passed.
UpdateStateIfNeeded ==
  IF state = "OPEN" /\ elapsed + drift >= RecoveryTimeout
  THEN state' = "HALF_OPEN" /\ Restamp
  ELSE UNCHANGED <<state, elapsed, drift>>

\* Spring's execute and getState are synchronized: they wait for a call under way.
MonitorFree == framework = "spring" => running = {}

\* The check before the call: an open circuit answers with the fallback at
\* once, any other lets the call through.
Call(c) ==
  /\ c \notin running
  /\ MonitorFree
  /\ UpdateStateIfNeeded
  /\ running' = IF state' = "OPEN" THEN running ELSE running \cup {c}
  /\ probes' = IF state' # "HALF_OPEN" THEN {}
               ELSE IF state = "OPEN" THEN {c} ELSE probes \cup {c}
  /\ UNCHANGED <<framework, failureCount, healthy, age, streak>>

\* Mutant: a success of the closed circuit takes one failure back.
OnSuccessDecrements ==
  /\ IF state = "HALF_OPEN" THEN state' = "CLOSED" /\ Restamp
     ELSE UNCHANGED <<state, elapsed, drift>>
  /\ failureCount' = IF state = "OPEN" THEN failureCount
                     ELSE IF state = "CLOSED" THEN failureCount - 1 ELSE 0

\* Mutant: closing keeps the count.
OnSuccessKeepsCount ==
  /\ IF state = "HALF_OPEN" THEN state' = "CLOSED" /\ Restamp
     ELSE UNCHANGED <<state, elapsed, drift>>
  /\ failureCount' = IF state = "CLOSED" THEN 0 ELSE failureCount

\* Mutant: a success of the closed circuit does not reset the count.
OnSuccessClosesOnly ==
  IF state = "HALF_OPEN"
  THEN state' = "CLOSED" /\ failureCount' = 0 /\ Restamp
  ELSE UNCHANGED circuit

\* Mutant: a success of the half-open circuit does not close it.
OnSuccessResetsOnly ==
  /\ failureCount' = IF state = "CLOSED" THEN 0 ELSE failureCount
  /\ UNCHANGED <<state, elapsed, drift>>

\* A success closes a half-open circuit and restarts the count of a closed
\* one; an open one ignores it.
OnSuccess ==
  /\ IF state = "HALF_OPEN" THEN state' = "CLOSED" /\ Restamp
     ELSE UNCHANGED <<state, elapsed, drift>>
  /\ failureCount' = IF state = "OPEN" THEN failureCount ELSE 0

\* Mutant: the closed circuit forgets to count.
OnFailureUncounted ==
  IF state = "HALF_OPEN" \/ failureCount >= FailureThreshold
  THEN state' = "OPEN" /\ Restamp /\ failureCount' = failureCount + 1
  ELSE UNCHANGED circuit

\* A failure always counts; it opens a half-open circuit and one that reaches
\* the threshold, and restarts the timeout of one that is open already.
OnFailure ==
  /\ failureCount' = failureCount + 1
  /\ IF state = "HALF_OPEN" \/ failureCount' >= FailureThreshold
     THEN state' = "OPEN" /\ Restamp
     ELSE UNCHANGED <<state, elapsed, drift>>

\* The call returns or raises, as the service's health at that moment has it,
\* and the result is settled against the circuit as it is by then.
Settle(c) ==
  /\ c \in running
  /\ running' = running \ {c}
  /\ age' = [age EXCEPT ![c] = 0]
  /\ \/ /\ healthy
        /\ OnSuccess
        /\ streak' = 0
     \/ /\ ~healthy
        /\ failureCount < MaxCount /\ streak < MaxCount
        /\ OnFailure
        /\ streak' = streak + 1
  /\ probes' = IF state' = "HALF_OPEN" THEN probes ELSE {}
  /\ UNCHANGED <<framework, healthy>>

\* getState of NestJS and Spring, behind every answer and the status endpoint,
\* moves the circuit on; FastAPI's get_status only reads.
GetState ==
  /\ framework # "fastapi"
  /\ MonitorFree
  /\ UpdateStateIfNeeded
  /\ probes' = IF state = "HALF_OPEN" THEN probes ELSE {}
  /\ UNCHANGED <<framework, failureCount, healthy, running, age, streak>>

\* external/fault
ToggleExternalFault ==
  /\ healthy' = ~healthy
  /\ UNCHANGED <<framework, circuit, running, age, probes, streak>>

\* Beyond this it no longer matters how long the circuit has been open.
MaxElapsed == RecoveryTimeout + MaxSkew

Tick ==
  /\ running # {} \/ (state = "OPEN" /\ elapsed < MaxElapsed)
  /\ \A c \in running : age[c] < MaxLatency
  /\ age' = [c \in Callers |-> IF c \in running THEN age[c] + 1 ELSE age[c]]
  /\ elapsed' = IF state = "OPEN" /\ elapsed < MaxElapsed
                THEN elapsed + 1 ELSE elapsed
  /\ UNCHANGED <<framework, state, failureCount, drift, healthy, running, probes,
                 streak>>

\* The wall clock is set back or forward.  Only an open circuit reads it.
ClockStep ==
  /\ state = "OPEN"
  /\ drift' \in -MaxSkew..MaxSkew
  /\ UNCHANGED <<framework, state, failureCount, elapsed, healthy, running, age,
                 probes, streak>>

Next == \/ \E c \in Callers : Call(c) \/ Settle(c)
        \/ GetState
        \/ ToggleExternalFault
        \/ Tick \/ ClockStep

Spec == Init /\ [][Next]_vars

\* Calls keep coming, those under way end, and time passes; the wall clock may
\* be set again and again.
Fairness == /\ WF_vars(\E c \in Callers : Call(c))
            /\ \A c \in Callers : WF_vars(Settle(c))
            /\ WF_vars(Tick)

FairSpec == Spec /\ Fairness

-----------------------------------------------------------------------------
(***************************************************************************)
(* Properties.                                                             *)
(***************************************************************************)

TypeOK ==
  /\ framework \in Frameworks
  /\ state \in {"CLOSED", "OPEN", "HALF_OPEN"}
  /\ failureCount \in 0..MaxCount
  /\ elapsed \in 0..MaxElapsed
  /\ drift \in -MaxSkew..MaxSkew
  /\ healthy \in BOOLEAN
  /\ running \subseteq Callers
  /\ age \in [Callers -> 0..MaxLatency]
  /\ probes \subseteq Callers
  /\ streak \in 0..MaxCount

\* The circuit is closed exactly while it has counted fewer failures than the
\* threshold: no order of late results leaves a closed circuit that has had
\* enough, or an open one with nothing counted against it.
CountMatchesState == (state = "CLOSED") <=> (failureCount < FailureThreshold)

\* A closed circuit opens on FailureThreshold failures in a row, in the order
\* their results came in: one success in between, of whichever call, starts
\* the count again.
OpensAfterStreak ==
  [][state = "CLOSED" /\ state' = "OPEN" => streak' >= FailureThreshold]_vars

\* When calls are quicker than the recovery timeout, whatever the wall clock
\* makes of it, a half-open circuit is closed or opened again by a call it let
\* through itself, never by the late result of one admitted before it opened.
FreshProbeDecides ==
  [][\A c \in Callers :
       state = "HALF_OPEN" /\ state' # "HALF_OPEN" /\ c \in running \ running'
         => c \in probes]_vars

\* One trial call at a time while half-open, as docs/02 section 4.2 and the
\* monitor of Spring's execute have it.
OneProbe == state = "HALF_OPEN" => Cardinality(running) <= 1

\* A service that stays healthy gets its traffic back.
Recovers == <>[]healthy => <>[](state = "CLOSED")

\* A service that stays down is cut off, however its late successes fall.
CutsOff == <>[]~healthy => <>[](state # "CLOSED")
=============================================================================
