------------------------------ MODULE Purchase ------------------------------
(***************************************************************************)
(* Case 1: the purchase endpoints of a cluster of API nodes that share one *)
(* Redis.  The stock of an item is one key; a safe purchase reads and      *)
(* rewrites it under a lock key that Redis forgets after TTL; an unsafe    *)
(* one does the same without the lock.  One item is modelled: items share  *)
(* no key.                                                                 *)
(*                                                                         *)
(* A request is identified with the UUID it draws as its lock token.  A    *)
(* Redis command and its reply are one step, because nothing else of the   *)
(* request happens in between; a reply that never arrives is a step of its *)
(* own, after which the driver either sends the command again or raises.   *)
(* The three implementations run the same protocol and differ in how they  *)
(* check the quantity and what they answer; "framework" names the one that *)
(* runs and never changes.                                                 *)
(***************************************************************************)
EXTENDS Integers, FiniteSets

CONSTANTS Frameworks,  \* the implementations considered
          Nodes,       \* the API nodes
          Requests,    \* the purchase requests, each also its lock token
          None,        \* no holder of the lock
          NodeOf,      \* the node that serves each request
          Routes,      \* the endpoints in use: "safe", "unsafe"
          Payloads,    \* the quantities callers send
          Stocks,      \* the stocks inventory/init is called with
          MaxRetries,  \* attempts at the lock before a request gives up
          TTL,         \* ticks until Redis forgets the lock key
          HoldBound,   \* ticks a critical section lasts at most
          LiveSetup,   \* inventory/init may run between a read and its write
          MaxSetups,   \* bound on calls of inventory/init
          MaxFaults    \* bound on commands that fail or lose their reply

ASSUME FrameworksAssumption == Frameworks \subseteq {"fastapi", "nest", "spring"}
ASSUME RequestsAssumption == None \notin Requests /\ NodeOf \in [Requests -> Nodes]
ASSUME DataAssumption == /\ Routes \subseteq {"safe", "unsafe"}
                         /\ Payloads \subseteq Int
                         /\ Stocks \subseteq Int
ASSUME TimeAssumption == /\ MaxRetries \in Nat \ {0}
                         /\ TTL \in Nat \ {0}
                         /\ HoldBound \in Nat
ASSUME BoundsAssumption == /\ LiveSetup \in BOOLEAN
                           /\ MaxSetups \in Nat
                           /\ MaxFaults \in Nat

VARIABLES framework,   \* the implementation that runs
          lock,        \* value of lock:inventory:<item>, None when absent
          ttl,         \* ticks the lock key has left
          stock,       \* value of stock:<item>, 0 when absent
          pc,          \* where each request stands
          route,       \* the endpoint it came in by
          quantity,    \* the units it buys
          attempts,    \* attempts at the lock that failed
          seen,        \* current_stock of its critical section
          held,        \* ticks since it entered the critical section
          outcome,     \* how its critical section ended
          reply,       \* the HTTP status it was answered with
          setups,      \* calls of inventory/init so far
          faults,      \* faults so far
          supply,      \* history: the stock inventory/init last set
          soldUnits,   \* history: units written off since then
          sold         \* history: requests whose write reached Redis

redis == <<lock, ttl, stock>>
input == <<framework, route, quantity>>
history == <<supply, soldUnits, sold>>
vars == <<redis, input, history, pc, attempts, seen, held, outcome, reply,
          setups, faults>>

Init == /\ framework \in Frameworks
        /\ lock = None
        /\ ttl = 0
        /\ stock = 0
        /\ pc = [r \in Requests |-> "idle"]
        /\ route = [r \in Requests |-> "safe"]
        /\ quantity = [r \in Requests |-> 0]
        /\ attempts = [r \in Requests |-> 0]
        /\ seen = [r \in Requests |-> 0]
        /\ held = [r \in Requests |-> 0]
        /\ outcome = [r \in Requests |-> "pending"]
        /\ reply = [r \in Requests |-> "none"]
        /\ setups = 0
        /\ faults = 0
        /\ supply = 0
        /\ soldUnits = 0
        /\ sold = {}

-----------------------------------------------------------------------------
(***************************************************************************)
(* The endpoints: checking the quantity and answering.                     *)
(***************************************************************************)

\* Mutant: the gt=0 of the model is forgotten.
FastQuantityUnchecked(q) == {q}

\* FastAPI declares the quantity gt=0 and answers 422 to anything else.
FastQuantity(q) == IF q > 0 THEN {q} ELSE {}

\* NestJS takes body.quantity || 1: only a zero is replaced.
NestQuantity(q) == IF q = 0 THEN {1} ELSE {q}

\* The Spring DTO replaces anything that is not positive.
SpringQuantity(q) == IF q > 0 THEN {q} ELSE {1}

AcceptedQuantity(q) == IF framework = "fastapi" THEN FastQuantity(q)
                       ELSE IF framework = "nest" THEN NestQuantity(q)
                       ELSE SpringQuantity(q)

\* Mutant: the except clause catches every exception.
FastReplyCatchAll(r, result) == IF result \in {"busy", "error"} THEN "429" ELSE "200"

\* FastAPI: 429 for the lock's TimeoutError only, 500 for any other exception.
FastReply(r, result) == IF result = "busy" THEN "429"
                        ELSE IF result = "error" THEN "500" ELSE "200"

\* NestJS: whatever purchaseWithLock throws becomes 429; the unsafe endpoint
\* has no catch.
NestReply(r, result) == IF result = "error" /\ route[r] = "safe"
                        THEN "429" ELSE FastReply(r, result)

\* Spring: 429 for the TIMEOUT sentinel, 500 for exceptions.
SpringReply(r, result) == IF result = "error" THEN "500"
                          ELSE IF result = "busy" THEN "429" ELSE "200"

Answer(r, result) ==
  /\ pc' = [pc EXCEPT ![r] = "done"]
  /\ reply' = [reply EXCEPT ![r] =
                 IF framework = "fastapi" THEN FastReply(r, result)
                 ELSE IF framework = "nest" THEN NestReply(r, result)
                 ELSE SpringReply(r, result)]

Arrive(r) ==
  /\ pc[r] = "idle"
  /\ \E way \in Routes, p \in Payloads : \E q \in AcceptedQuantity(p) :
        /\ route' = [route EXCEPT ![r] = way]
        /\ quantity' = [quantity EXCEPT ![r] = q]
        /\ pc' = [pc EXCEPT ![r] = IF way = "safe" THEN "acquire" ELSE "read"]
  /\ UNCHANGED <<redis, history, framework, attempts, seen, held, outcome,
                 reply, setups, faults>>

\* A quantity the endpoint refuses: no Redis command is sent.
Reject(r) ==
  /\ pc[r] = "idle"
  /\ \E p \in Payloads : AcceptedQuantity(p) = {}
  /\ pc' = [pc EXCEPT ![r] = "done"]
  /\ reply' = [reply EXCEPT ![r] = "422"]
  /\ UNCHANGED <<redis, input, history, attempts, seen, held, outcome,
                 setups, faults>>

-----------------------------------------------------------------------------
(***************************************************************************)
(* The lock.                                                               *)
(***************************************************************************)

Fault == /\ faults < MaxFaults
         /\ faults' = faults + 1

\* Mutant: SET without NX.
SetNXOverwriting(r) == /\ lock' = r
                       /\ ttl' = TTL
                       /\ UNCHANGED stock

\* SET lock:<resource> token NX PX ttl, on a key that is absent.
SetNX(r) == /\ lock = None
            /\ lock' = r
            /\ ttl' = TTL
            /\ UNCHANGED stock

\* acquire() succeeds; the critical section starts.
Acquire(r) ==
  /\ pc[r] = "acquire"
  /\ SetNX(r)
  /\ pc' = [pc EXCEPT ![r] = "read"]
  /\ UNCHANGED <<input, history, attempts, seen, held, outcome, reply,
                 setups, faults>>

\* The key exists, perhaps with the request's own token: sleep and try again,
\* or give up after MaxRetries attempts.
AcquireBusy(r) ==
  /\ pc[r] = "acquire"
  /\ lock # None
  /\ attempts' = [attempts EXCEPT ![r] = @ + 1]
  /\ IF attempts[r] + 1 < MaxRetries
     THEN UNCHANGED <<pc, reply>>
     ELSE Answer(r, "busy")
  /\ UNCHANGED <<redis, input, history, seen, held, outcome, setups, faults>>

\* Spring only: an interrupt of the sleep between two attempts ends the
\* acquisition with a null token.
AcquireInterrupted(r) ==
  /\ framework = "spring"
  /\ pc[r] = "acquire"
  /\ attempts[r] > 0
  /\ Answer(r, "busy")
  /\ UNCHANGED <<redis, input, history, attempts, seen, held, outcome,
                 setups, faults>>

\* SET NX fails before Redis runs it: the exception leaves the endpoint, which
\* holds no token and releases nothing.
AcquireFails(r) ==
  /\ pc[r] = "acquire"
  /\ Fault
  /\ Answer(r, "error")
  /\ UNCHANGED <<redis, input, history, attempts, seen, held, outcome, setups>>

\* SET NX runs and its reply is lost.  The driver sends it again, to find the
\* key taken by its own token, or raises, leaving the key to its TTL.
AcquireReplyLost(r) ==
  /\ pc[r] = "acquire"
  /\ Fault
  /\ SetNX(r)
  /\ \/ UNCHANGED <<pc, reply>>
     \/ Answer(r, "error")
  /\ UNCHANGED <<input, history, attempts, seen, held, outcome, setups>>

-----------------------------------------------------------------------------
(***************************************************************************)
(* The critical section and its end.                                       *)
(***************************************************************************)

\* The body of the purchase is over: release the lock, or answer at once on
\* the unsafe route.
Leave(r, result) ==
  /\ outcome' = [outcome EXCEPT ![r] = result]
  /\ held' = [held EXCEPT ![r] = 0]
  /\ IF route[r] = "safe"
     THEN /\ pc' = [pc EXCEPT ![r] = "release"]
          /\ UNCHANGED reply
     ELSE Answer(r, result)

\* get_inventory and the check of the stock.
ReadStock(r) ==
  /\ pc[r] = "read"
  /\ seen' = [seen EXCEPT ![r] = stock]
  /\ IF stock < quantity[r]
     THEN Leave(r, "out_of_stock")
     ELSE /\ pc' = [pc EXCEPT ![r] = "write"]
          /\ UNCHANGED <<held, outcome, reply>>
  /\ UNCHANGED <<redis, input, history, attempts, setups, faults>>

\* Mutant: DECRBY in place of the write of the computed stock.
SetStockDecrement(r) ==
  /\ stock' = stock - quantity[r]
  /\ sold' = sold \cup {r}
  /\ soldUnits' = IF r \in sold THEN soldUnits ELSE soldUnits + quantity[r]
  /\ UNCHANGED <<lock, ttl, supply>>

\* SET stock:<item> new_stock, computed from the stock read before the sleep.
SetStock(r) ==
  /\ stock' = seen[r] - quantity[r]
  /\ sold' = sold \cup {r}
  /\ soldUnits' = IF r \in sold THEN soldUnits ELSE soldUnits + quantity[r]
  /\ UNCHANGED <<lock, ttl, supply>>

WriteStock(r) ==
  /\ pc[r] = "write"
  /\ SetStock(r)
  /\ Leave(r, "sold")
  /\ UNCHANGED <<input, attempts, seen, setups, faults>>

\* The read or the write fails before Redis runs it.
BodyFails(r) ==
  /\ pc[r] \in {"read", "write"}
  /\ Fault
  /\ Leave(r, "error")
  /\ UNCHANGED <<redis, input, history, attempts, seen, setups>>

\* The write runs and its reply is lost: sent again, or raised.
WriteReplyLost(r) ==
  /\ pc[r] = "write"
  /\ Fault
  /\ SetStock(r)
  /\ \/ UNCHANGED <<pc, held, outcome, reply>>
     \/ Leave(r, "error")
  /\ UNCHANGED <<input, attempts, seen, setups>>

\* Mutant: DEL without comparing the token.
DeleteBlindly(r) ==
  /\ lock' = None
  /\ ttl' = 0
  /\ UNCHANGED stock

\* RELEASE_LOCK_LUA: delete the key if it still holds the caller's token.
CompareAndDelete(r) ==
  /\ lock' = IF lock = r THEN None ELSE lock
  /\ ttl' = IF lock = r THEN 0 ELSE ttl
  /\ UNCHANGED stock

\* Mutant: release() repeated until the script reports a deletion.
ReleaseUntilDeleted(r) ==
  /\ pc[r] = "release"
  /\ lock = r
  /\ CompareAndDelete(r)
  /\ Answer(r, outcome[r])
  /\ UNCHANGED <<input, history, attempts, seen, held, outcome, setups, faults>>

\* Mutant: release() that finds the key gone is reported as an error.
ReleaseChecked(r) ==
  /\ pc[r] = "release"
  /\ CompareAndDelete(r)
  /\ Answer(r, IF lock = r THEN outcome[r] ELSE "error")
  /\ UNCHANGED <<input, history, attempts, seen, held, outcome, setups, faults>>

\* release(), whose result nobody looks at.
Release(r) ==
  /\ pc[r] = "release"
  /\ CompareAndDelete(r)
  /\ Answer(r, outcome[r])
  /\ UNCHANGED <<input, history, attempts, seen, held, outcome, setups, faults>>

\* The script fails before Redis runs it: the exception replaces the result.
ReleaseFails(r) ==
  /\ pc[r] = "release"
  /\ Fault
  /\ Answer(r, "error")
  /\ UNCHANGED <<redis, input, history, attempts, seen, held, outcome, setups>>

ReleaseReplyLost(r) ==
  /\ pc[r] = "release"
  /\ Fault
  /\ CompareAndDelete(r)
  /\ \/ UNCHANGED <<pc, reply>>
     \/ Answer(r, "error")
  /\ UNCHANGED <<input, history, attempts, seen, held, outcome, setups>>

-----------------------------------------------------------------------------
(***************************************************************************)
(* The rest of the world.                                                  *)
(***************************************************************************)

\* inventory/init overwrites the stock and takes no lock.
InitInventory(s) ==
  /\ setups < MaxSetups
  /\ LiveSetup \/ \A r \in Requests : pc[r] # "write"
  /\ stock' = s
  /\ supply' = s
  /\ soldUnits' = 0
  /\ setups' = setups + 1
  /\ UNCHANGED <<input, lock, ttl, sold, pc, attempts, seen, held, outcome,
                 reply, faults>>

InBody(r) == pc[r] \in {"read", "write"}
InCriticalSection(r) == route[r] = "safe" /\ InBody(r)

\* Mutant: the key outlives its TTL by one reading.
TickLateExpiry ==
  /\ lock # None \/ \E r \in Requests : InCriticalSection(r)
  /\ \A r \in Requests : InCriticalSection(r) => held[r] < HoldBound
  /\ ttl' = IF ttl > 0 THEN ttl - 1 ELSE 0
  /\ lock' = IF ttl = 0 THEN None ELSE lock
  /\ held' = [r \in Requests |->
                IF InCriticalSection(r) THEN held[r] + 1 ELSE held[r]]
  /\ UNCHANGED <<stock, input, history, pc, attempts, seen, outcome, reply,
                 setups, faults>>

\* Mutant: SET without PX, a key that never expires.
TickNoExpiry ==
  /\ lock # None \/ \E r \in Requests : InCriticalSection(r)
  /\ \A r \in Requests : InCriticalSection(r) => held[r] < HoldBound
  /\ UNCHANGED <<lock, ttl>>
  /\ held' = [r \in Requests |->
                IF InCriticalSection(r) THEN held[r] + 1 ELSE held[r]]
  /\ UNCHANGED <<stock, input, history, pc, attempts, seen, outcome, reply,
                 setups, faults>>

\* Time passes.  Redis drops the lock key when its TTL runs out, whoever holds
\* it; no critical section outlasts HoldBound.
Tick ==
  /\ lock # None \/ \E r \in Requests : InCriticalSection(r)
  /\ \A r \in Requests : InCriticalSection(r) => held[r] < HoldBound
  /\ ttl' = IF ttl > 0 THEN ttl - 1 ELSE 0
  /\ lock' = IF ttl' = 0 THEN None ELSE lock
  /\ held' = [r \in Requests |->
                IF InCriticalSection(r) THEN held[r] + 1 ELSE held[r]]
  /\ UNCHANGED <<stock, input, history, pc, attempts, seen, outcome, reply,
                 setups, faults>>

\* An API node dies with every request it serves; nothing restarts it.
Crash(n) ==
  /\ \E r \in Requests : NodeOf[r] = n /\ pc[r] \notin {"done", "dead"}
  /\ pc' = [r \in Requests |->
              IF NodeOf[r] = n /\ pc[r] # "done" THEN "dead" ELSE pc[r]]
  /\ held' = [r \in Requests |-> IF NodeOf[r] = n THEN 0 ELSE held[r]]
  /\ UNCHANGED <<redis, input, history, attempts, seen, outcome, reply,
                 setups, faults>>

-----------------------------------------------------------------------------
Step(r) == \/ Acquire(r) \/ AcquireBusy(r) \/ AcquireInterrupted(r)
           \/ AcquireFails(r) \/ AcquireReplyLost(r)
           \/ ReadStock(r) \/ WriteStock(r) \/ BodyFails(r) \/ WriteReplyLost(r)
           \/ Release(r) \/ ReleaseFails(r) \/ ReleaseReplyLost(r)

Next == \/ \E r \in Requests : Arrive(r) \/ Reject(r) \/ Step(r)
        \/ \E s \in Stocks : InitInventory(s)
        \/ \E n \in Nodes : Crash(n)
        \/ Tick

Spec == Init /\ [][Next]_vars

\* A request that has started goes on until it is answered, and time passes.
Fairness == /\ \A r \in Requests : WF_vars(Step(r))
            /\ WF_vars(Tick)

FairSpec == Spec /\ Fairness
-----------------------------------------------------------------------------
(***************************************************************************)
(* Properties.                                                             *)
(***************************************************************************)

\* The type of every variable; the TTL is that of the key, zero without one.
TypeOK ==
  /\ framework \in Frameworks
  /\ lock \in Requests \cup {None}
  /\ ttl \in 0..TTL
  /\ (ttl = 0) <=> (lock = None)
  /\ stock \in Int
  /\ pc \in [Requests -> {"idle", "acquire", "read", "write", "release",
                          "done", "dead"}]
  /\ route \in [Requests -> {"safe", "unsafe"}]
  /\ quantity \in [Requests -> Int]
  /\ attempts \in [Requests -> 0..MaxRetries]
  /\ seen \in [Requests -> Int]
  /\ held \in [Requests -> Nat]
  /\ outcome \in [Requests -> {"pending", "sold", "out_of_stock", "error"}]
  /\ reply \in [Requests -> {"none", "200", "422", "429", "500"}]
  /\ setups \in Nat
  /\ faults \in Nat
  /\ supply \in Int
  /\ soldUnits \in Int
  /\ sold \subseteq Requests

\* A request that has not yet got or lost the lock has attempts left.
AttemptsLeft == \A r \in Requests :
                  pc[r] \in {"idle", "acquire"} => attempts[r] < MaxRetries

\* Whoever is in a critical section owns the lock key, and the key's TTL and
\* the time spent inside add up to the whole TTL.
HolderOwnsLock ==
  \A r \in Requests :
    IF InCriticalSection(r)
    THEN lock = r /\ ttl + held[r] = TTL /\ held[r] <= HoldBound
    ELSE held[r] = 0

\* At most one request is inside the body of purchase_with_lock, as its
\* docstring and that of DistributedLock say, whatever node it runs on and
\* whichever command failed before.  It needs HoldBound < TTL.
MutualExclusion ==
  \A r1, r2 \in Requests :
    InCriticalSection(r1) /\ InCriticalSection(r2) => r1 = r2

\* Nothing is sold twice and no sale is lost: what inventory/init stocked is
\* what is left plus what the purchases took, counting those that were
\* answered with an error or died after their write.
StockConserved == stock + soldUnits = supply

\* A buyer told that the purchase went through took the units; one told to
\* come back (429) may do so, because nothing was sold to it.  Of NestJS only
\* the first half is true: there 429 also answers a failed release.
RepliesAreHonest ==
  \A r \in Requests :
    /\ reply[r] = "200" => (r \in sold <=> outcome[r] = "sold")
    /\ reply[r] = "429" /\ framework # "nest" => r \notin sold

\* A 429 means that the lock could not be had, as the comment of the NestJS
\* endpoint has it: nothing was sold, and the buyer may send the purchase again.
BusyMeansNotSold ==
  \A r \in Requests : reply[r] = "429" => r \notin sold

\* The buyers whose units were taken and who were told anything but that.
UnconfirmedSales == {r \in sold : pc[r] = "done" /\ reply[r] # "200"}

\* However slow the holders, also when the lock has passed to another before
\* the write or the release, a sale is kept from its buyer only by a command
\* that fails or whose reply is lost, and each of those costs one sale at most.
OneSalePerFault == Cardinality(UnconfirmedSales) <= faults

\* However slow the holders, however many bypass the lock and whatever is sent
\* again, purchases only ever sell too much: no unit leaves the stock without
\* a purchase that took it, although writes of stale stocks overtake one
\* another.  A reset of the stock that a writer overtakes is another matter, so
\* the stock is set once; and of NestJS's purchases some add to the stock.
NoUnitVanishes ==
  setups <= 1 /\ framework # "nest" => stock + soldUnits >= supply

\* Under the lock a writer still has in hand what Redis holds, until it has
\* written; StockConserved rests on it.
WriterSawStock ==
  \A r \in Requests :
    /\ pc[r] = "write" => stock = IF r \in sold THEN seen[r] - quantity[r]
                                  ELSE seen[r]
    /\ pc[r] \in {"idle", "acquire", "read"} => r \notin sold

\* What a writer is about to write covers its quantity.
WriterCovered == \A r \in Requests : pc[r] = "write" => seen[r] >= quantity[r]

\* The lock key is only ever deleted by the request whose token it holds, or
\* by its TTL while no request moves: a release that comes after the TTL ran
\* out leaves the next holder's key alone.
OnlyOwnerReleases ==
  [][\A r \in Requests :
       lock = r /\ lock' # r =>
         lock' = None /\ (pc[r] = "release" \/ (ttl = 1 /\ UNCHANGED pc))]_vars

\* A purchase only takes stock away: FastAPI and Spring let no quantity below
\* one through, and under the lock no stale stock is written back.
PurchasesOnlyTake ==
  [][setups' = setups /\ framework # "nest" => stock' <= stock]_vars

\* Whoever has sent a purchase gets an answer, unless its node dies: the
\* attempts at the lock are finite, also when a dead node holds it.
EveryPurchaseAnswered ==
  \A r \in Requests : pc[r] = "acquire" ~> pc[r] \in {"done", "dead"}

\* A lock whose holder died, or was answered without releasing it, does not
\* stay: the TTL frees it, as docs/02 section 1.2 promises.
OrphanLockExpires ==
  \A r \in Requests : (lock = r /\ pc[r] \in {"done", "dead"}) ~> lock # r

\* The purchases as the inventory's callers see them.
inventory == INSTANCE Inventory WITH
               Quantities <- Payloads \cup {1},
               left <- stock,
               asked <- quantity,
               verdict <- [r \in Requests |->
                             IF r \in sold THEN "sold"
                             ELSE IF outcome[r] = "out_of_stock" THEN "sold_out"
                             ELSE "open"]

\* Under the lock every purchase is atomic: each step of the protocol is one
\* step of Inventory or none that it can see, and a sale takes the quantity of
\* its own request out of the stock Redis holds at that moment.
Linearizable == inventory!Spec
=============================================================================
