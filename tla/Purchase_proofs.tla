-------------------------- MODULE Purchase_proofs --------------------------
(***************************************************************************)
(* Proofs about Purchase, for any number of requests and nodes, any TTL    *)
(* and any bounds on faults.                                               *)
(***************************************************************************)
EXTENDS Purchase, FiniteSetTheorems, TLAPS

PcType == [Requests -> {"idle", "acquire", "read", "write", "release", "done",
                        "dead"}]
ReplyType == [Requests -> {"none", "200", "422", "429", "500"}]

\* What every answer leaves behind, whichever framework gives it: the request
\* is done and its reply is one of the statuses.
LEMMA AnswerEffect ==
  ASSUME TypeOK, NEW r \in Requests, NEW result, Answer(r, result)
  PROVE  /\ pc' = [pc EXCEPT ![r] = "done"]
         /\ reply' \in ReplyType
<1>1. FastReply(r, result) \in {"200", "429", "500"}
  BY DEF FastReply
<1>2. NestReply(r, result) \in {"200", "429", "500"}
  BY <1>1 DEF NestReply
<1>3. SpringReply(r, result) \in {"200", "429", "500"}
  BY DEF SpringReply
<1>4. QED
  BY <1>1, <1>2, <1>3 DEF Answer, TypeOK, ReplyType

\* The quantities the endpoints let through are integers.
LEMMA QuantityType ==
  ASSUME NEW p \in Payloads, NEW q \in AcceptedQuantity(p)
  PROVE  q \in Int
<1>1. p \in Int
  BY DataAssumption
<1>2. QED
  BY <1>1 DEF AcceptedQuantity, FastQuantity, NestQuantity, SpringQuantity

\* Ending the body keeps the types, on either route, and leaves no time held.
LEMMA LeaveEffect ==
  ASSUME TypeOK, NEW r \in Requests,
         NEW result \in {"sold", "out_of_stock", "error"}, Leave(r, result)
  PROVE  /\ pc' = [pc EXCEPT ![r] = "done"] \/ pc' = [pc EXCEPT ![r] = "release"]
         /\ held' = [held EXCEPT ![r] = 0]
         /\ outcome' \in [Requests -> {"pending", "sold", "out_of_stock", "error"}]
         /\ reply' \in ReplyType
<1>1. CASE route[r] = "safe"
  BY <1>1 DEF Leave, TypeOK, ReplyType
<1>2. CASE route[r] # "safe"
  <2>1. Answer(r, result)
    BY <1>2 DEF Leave
  <2>2. QED
    BY <1>2, <2>1, AnswerEffect DEF Leave, TypeOK
<1>3. QED
  BY <1>1, <1>2

-----------------------------------------------------------------------------
\* The types, and the attempts a trying request has left, survive every step.
LEMMA TypeStep ==
  ASSUME TypeOK, AttemptsLeft, [Next]_vars
  PROVE  TypeOK' /\ AttemptsLeft'
<1> USE RequestsAssumption, TimeAssumption DEF AttemptsLeft, PcType, ReplyType
<1>1. ASSUME NEW r \in Requests, Arrive(r) PROVE TypeOK' /\ AttemptsLeft'
  <2>1. PICK way \in Routes, p \in Payloads :
          \E q \in AcceptedQuantity(p) :
            /\ route' = [route EXCEPT ![r] = way]
            /\ quantity' = [quantity EXCEPT ![r] = q]
            /\ pc' = [pc EXCEPT ![r] = IF way = "safe" THEN "acquire" ELSE "read"]
    BY <1>1 DEF Arrive
  <2>2. PICK q \in AcceptedQuantity(p) :
            /\ route' = [route EXCEPT ![r] = way]
            /\ quantity' = [quantity EXCEPT ![r] = q]
            /\ pc' = [pc EXCEPT ![r] = IF way = "safe" THEN "acquire" ELSE "read"]
    BY <2>1
  <2>3. q \in Int /\ way \in {"safe", "unsafe"}
    BY QuantityType, DataAssumption
  <2>4. QED
    BY <1>1, <2>2, <2>3 DEF Arrive, TypeOK, redis, history
<1>2. ASSUME NEW r \in Requests, Reject(r) PROVE TypeOK' /\ AttemptsLeft'
  BY <1>2 DEF Reject, TypeOK, redis, history, input
<1>3. ASSUME NEW r \in Requests, Acquire(r) PROVE TypeOK' /\ AttemptsLeft'
  BY <1>3 DEF Acquire, SetNX, TypeOK, history, input
<1>4. ASSUME NEW r \in Requests, AcquireBusy(r) PROVE TypeOK' /\ AttemptsLeft'
  <2>1. CASE attempts[r] + 1 < MaxRetries
    BY <1>4, <2>1 DEF AcquireBusy, TypeOK, redis, history, input
  <2>2. CASE ~(attempts[r] + 1 < MaxRetries)
    BY <1>4, <2>2, AnswerEffect DEF AcquireBusy, TypeOK, redis, history, input
  <2>3. QED
    BY <2>1, <2>2
<1>5. ASSUME NEW r \in Requests, AcquireInterrupted(r)
      PROVE TypeOK' /\ AttemptsLeft'
  BY <1>5, AnswerEffect DEF AcquireInterrupted, TypeOK, redis, history, input
<1>6. ASSUME NEW r \in Requests, AcquireFails(r) PROVE TypeOK' /\ AttemptsLeft'
  BY <1>6, AnswerEffect DEF AcquireFails, Fault, TypeOK, redis, history, input
<1>7. ASSUME NEW r \in Requests, AcquireReplyLost(r)
      PROVE TypeOK' /\ AttemptsLeft'
  BY <1>7, AnswerEffect DEF AcquireReplyLost, SetNX, Fault, TypeOK, history, input
<1>8. ASSUME NEW r \in Requests, ReadStock(r) PROVE TypeOK' /\ AttemptsLeft'
  <2>1. CASE stock < quantity[r]
    BY <1>8, <2>1, LeaveEffect DEF ReadStock, TypeOK, redis, history, input
  <2>2. CASE ~(stock < quantity[r])
    BY <1>8, <2>2 DEF ReadStock, TypeOK, redis, history, input
  <2>3. QED
    BY <2>1, <2>2
<1>9. ASSUME NEW r \in Requests, WriteStock(r) PROVE TypeOK' /\ AttemptsLeft'
  BY <1>9, LeaveEffect DEF WriteStock, SetStock, TypeOK, input
<1>10. ASSUME NEW r \in Requests, BodyFails(r) PROVE TypeOK' /\ AttemptsLeft'
  BY <1>10, LeaveEffect DEF BodyFails, Fault, TypeOK, redis, history, input
<1>11. ASSUME NEW r \in Requests, WriteReplyLost(r)
       PROVE TypeOK' /\ AttemptsLeft'
  BY <1>11, LeaveEffect DEF WriteReplyLost, SetStock, Fault, TypeOK, input
<1>12. ASSUME NEW r \in Requests, Release(r) PROVE TypeOK' /\ AttemptsLeft'
  BY <1>12, AnswerEffect DEF Release, CompareAndDelete, TypeOK, history, input
<1>13. ASSUME NEW r \in Requests, ReleaseFails(r) PROVE TypeOK' /\ AttemptsLeft'
  BY <1>13, AnswerEffect DEF ReleaseFails, Fault, TypeOK, redis, history, input
<1>14. ASSUME NEW r \in Requests, ReleaseReplyLost(r)
       PROVE TypeOK' /\ AttemptsLeft'
  BY <1>14, AnswerEffect
     DEF ReleaseReplyLost, CompareAndDelete, Fault, TypeOK, history, input
<1>15. ASSUME NEW s \in Stocks, InitInventory(s) PROVE TypeOK' /\ AttemptsLeft'
  BY <1>15, DataAssumption DEF InitInventory, TypeOK, input
<1>16. ASSUME NEW n \in Nodes, Crash(n) PROVE TypeOK' /\ AttemptsLeft'
  BY <1>16 DEF Crash, TypeOK, redis, history, input
<1>17. ASSUME Tick PROVE TypeOK' /\ AttemptsLeft'
  BY <1>17 DEF Tick, TypeOK, history, input
<1>18. ASSUME UNCHANGED vars PROVE TypeOK' /\ AttemptsLeft'
  BY <1>18 DEF vars, TypeOK, redis, history, input
<1>19. QED
  BY <1>1, <1>2, <1>3, <1>4, <1>5, <1>6, <1>7, <1>8, <1>9, <1>10, <1>11,
     <1>12, <1>13, <1>14, <1>15, <1>16, <1>17, <1>18 DEF Next, Step

\* Every variable keeps its type, and Redis keeps a lock key exactly as long
\* as it has TTL left.
THEOREM TypeCorrect == Spec => [](TypeOK /\ AttemptsLeft)
<1>1. Init => TypeOK /\ AttemptsLeft
  BY RequestsAssumption, TimeAssumption DEF Init, TypeOK, AttemptsLeft
<1>2. TypeOK /\ AttemptsLeft /\ [Next]_vars => TypeOK' /\ AttemptsLeft'
  BY TypeStep
<1>3. QED
  BY <1>1, <1>2, PTL DEF Spec

-----------------------------------------------------------------------------
\* Whoever is in a critical section keeps the lock key until it leaves, when
\* no critical section outlasts the TTL.
LEMMA HolderStep ==
  ASSUME HoldBound < TTL, TypeOK, HolderOwnsLock, [Next]_vars
  PROVE  HolderOwnsLock'
<1> USE RequestsAssumption, TimeAssumption DEF HolderOwnsLock, InCriticalSection, InBody
<1>1. ASSUME NEW r \in Requests, Arrive(r) PROVE HolderOwnsLock'
  <2>1. PICK way \in Routes :
            /\ route' = [route EXCEPT ![r] = way]
            /\ pc' = [pc EXCEPT ![r] = IF way = "safe" THEN "acquire" ELSE "read"]
    BY <1>1 DEF Arrive
  <2>2. QED
    BY <1>1, <2>1 DEF Arrive, TypeOK, redis
<1>2. ASSUME NEW r \in Requests, Reject(r) PROVE HolderOwnsLock'
  BY <1>2 DEF Reject, TypeOK, redis, input
<1>3. ASSUME NEW r \in Requests, Acquire(r) PROVE HolderOwnsLock'
  BY <1>3 DEF Acquire, SetNX, TypeOK, input
<1>4. ASSUME NEW r \in Requests, AcquireBusy(r) PROVE HolderOwnsLock'
  BY <1>4, AnswerEffect DEF AcquireBusy, TypeOK, redis, input
<1>5. ASSUME NEW r \in Requests, AcquireInterrupted(r) PROVE HolderOwnsLock'
  BY <1>5, AnswerEffect DEF AcquireInterrupted, TypeOK, redis, input
<1>6. ASSUME NEW r \in Requests, AcquireFails(r) PROVE HolderOwnsLock'
  BY <1>6, AnswerEffect DEF AcquireFails, TypeOK, redis, input
<1>7. ASSUME NEW r \in Requests, AcquireReplyLost(r) PROVE HolderOwnsLock'
  BY <1>7, AnswerEffect DEF AcquireReplyLost, SetNX, TypeOK, input
<1>8. ASSUME NEW r \in Requests, ReadStock(r) PROVE HolderOwnsLock'
  <2>1. CASE stock < quantity[r]
    BY <1>8, <2>1, LeaveEffect DEF ReadStock, TypeOK, redis, input
  <2>2. CASE ~(stock < quantity[r])
    BY <1>8, <2>2 DEF ReadStock, TypeOK, redis, input
  <2>3. QED
    BY <2>1, <2>2
<1>9. ASSUME NEW r \in Requests, WriteStock(r) PROVE HolderOwnsLock'
  BY <1>9, LeaveEffect DEF WriteStock, SetStock, TypeOK, input
<1>10. ASSUME NEW r \in Requests, BodyFails(r) PROVE HolderOwnsLock'
  BY <1>10, LeaveEffect DEF BodyFails, TypeOK, redis, input
<1>11. ASSUME NEW r \in Requests, WriteReplyLost(r) PROVE HolderOwnsLock'
  BY <1>11, LeaveEffect DEF WriteReplyLost, SetStock, TypeOK, input
<1>12. ASSUME NEW r \in Requests, Release(r) PROVE HolderOwnsLock'
  BY <1>12, AnswerEffect DEF Release, CompareAndDelete, TypeOK, input
<1>13. ASSUME NEW r \in Requests, ReleaseFails(r) PROVE HolderOwnsLock'
  BY <1>13, AnswerEffect DEF ReleaseFails, TypeOK, redis, input
<1>14. ASSUME NEW r \in Requests, ReleaseReplyLost(r) PROVE HolderOwnsLock'
  BY <1>14, AnswerEffect DEF ReleaseReplyLost, CompareAndDelete, TypeOK, input
<1>15. ASSUME NEW s \in Stocks, InitInventory(s) PROVE HolderOwnsLock'
  BY <1>15 DEF InitInventory, TypeOK, input
<1>16. ASSUME NEW n \in Nodes, Crash(n) PROVE HolderOwnsLock'
  BY <1>16 DEF Crash, TypeOK, redis, input
<1>17. ASSUME Tick PROVE HolderOwnsLock'
  BY <1>17 DEF Tick, TypeOK, input
<1>18. ASSUME UNCHANGED vars PROVE HolderOwnsLock'
  BY <1>18 DEF vars, redis, input
<1>19. QED
  BY <1>1, <1>2, <1>3, <1>4, <1>5, <1>6, <1>7, <1>8, <1>9, <1>10, <1>11,
     <1>12, <1>13, <1>14, <1>15, <1>16, <1>17, <1>18 DEF Next, Step

\* Mutual exclusion, for every TTL that outlasts the critical sections: two
\* requests inside would both own the one lock key.
THEOREM Exclusion == HoldBound < TTL /\ Spec => []MutualExclusion
<1> DEFINE IInv == TypeOK /\ AttemptsLeft /\ HolderOwnsLock
<1>1. Init => IInv
  BY RequestsAssumption, TimeAssumption
     DEF Init, TypeOK, AttemptsLeft, HolderOwnsLock, InCriticalSection, InBody
<1>2. HoldBound < TTL /\ IInv /\ [Next]_vars => IInv'
  BY TypeStep, HolderStep
<1>3. IInv => MutualExclusion
  BY DEF HolderOwnsLock, MutualExclusion
<1> HIDE DEF IInv
<1>4. SUFFICES ASSUME HoldBound < TTL PROVE Spec => []MutualExclusion
  OBVIOUS
<1>5. IInv /\ [Next]_vars => IInv'
  BY <1>2, <1>4
<1>6. QED
  BY <1>1, <1>3, <1>5, PTL DEF Spec

-----------------------------------------------------------------------------
\* No release, however late, deletes the key of the next holder; this needs
\* nothing but the types, so it holds for holders as slow as one likes.
THEOREM ReleaseIsOwn == Spec => OnlyOwnerReleases
<1> DEFINE Own == \A r \in Requests : lock = r /\ lock' # r =>
                     lock' = None /\ (pc[r] = "release" \/ (ttl = 1 /\ UNCHANGED pc))
<1>1. TypeOK /\ [Next]_vars => Own
  <2> SUFFICES ASSUME TypeOK, [Next]_vars, NEW t \in Requests, lock = t, lock' # t
               PROVE  lock' = None /\ (pc[t] = "release" \/ (ttl = 1 /\ UNCHANGED pc))
    OBVIOUS
  <2> USE RequestsAssumption DEF redis
  <2>1. ASSUME NEW r \in Requests, Arrive(r) \/ Reject(r) PROVE FALSE
    BY <2>1 DEF Arrive, Reject
  <2>2. ASSUME NEW r \in Requests,
               \/ Acquire(r) \/ AcquireBusy(r) \/ AcquireInterrupted(r)
               \/ AcquireFails(r) \/ AcquireReplyLost(r)
        PROVE  FALSE
    BY <2>2 DEF Acquire, AcquireBusy, AcquireInterrupted, AcquireFails,
                AcquireReplyLost, SetNX
  <2>3. ASSUME NEW r \in Requests,
               ReadStock(r) \/ WriteStock(r) \/ BodyFails(r) \/ WriteReplyLost(r)
        PROVE  FALSE
    BY <2>3 DEF ReadStock, WriteStock, BodyFails, WriteReplyLost, SetStock
  <2>4. ASSUME NEW r \in Requests,
               Release(r) \/ ReleaseFails(r) \/ ReleaseReplyLost(r)
        PROVE  lock' = None /\ pc[t] = "release"
    BY <2>4 DEF Release, ReleaseFails, ReleaseReplyLost, CompareAndDelete
  <2>5. ASSUME NEW s \in Stocks, InitInventory(s) PROVE FALSE
    BY <2>5 DEF InitInventory
  <2>6. ASSUME NEW n \in Nodes, Crash(n) PROVE FALSE
    BY <2>6 DEF Crash
  <2>7. ASSUME Tick PROVE lock' = None /\ ttl = 1 /\ UNCHANGED pc
    BY <2>7, TimeAssumption DEF Tick, TypeOK
  <2>8. CASE UNCHANGED vars
    BY <2>8 DEF vars
  <2>9. QED
    BY <2>1, <2>2, <2>3, <2>4, <2>5, <2>6, <2>7, <2>8 DEF Next, Step
<1> HIDE DEF Own
<1>2. Spec => [][Own]_vars
  BY <1>1, TypeCorrect, PTL DEF Spec
<1>3. QED
  BY <1>2 DEF Own, OnlyOwnerReleases

-----------------------------------------------------------------------------
(***************************************************************************)
(* The stock adds up, when every purchase takes the lock, no critical      *)
(* section outlasts the TTL and inventory/init does not cut into one.      *)
(***************************************************************************)
AllSafe == \A r \in Requests : route[r] = "safe"
StockInv == AllSafe /\ WriterSawStock /\ StockConserved

\* The write of a holder: nobody else has a stale stock in hand.
LEMMA WriteKeepsStock ==
  ASSUME HoldBound < TTL, TypeOK, HolderOwnsLock, StockInv,
         NEW r \in Requests, pc[r] = "write", SetStock(r),
         pc' = pc \/ pc' = [pc EXCEPT ![r] = "done"]
                  \/ pc' = [pc EXCEPT ![r] = "release"],
         UNCHANGED input, UNCHANGED seen
  PROVE  StockInv'
<1>1. \A t \in Requests : pc[t] = "write" => t = r
  BY DEF HolderOwnsLock, InCriticalSection, InBody, StockInv, AllSafe
<1>2. stock' = seen[r] - quantity[r] /\ sold' = sold \cup {r} /\ supply' = supply
  BY DEF SetStock
<1>3. AllSafe'
  BY DEF StockInv, AllSafe, input
<1>4. WriterSawStock'
  <2> SUFFICES ASSUME NEW t \in Requests
               PROVE  /\ pc'[t] = "write" =>
                           stock' = IF t \in sold' THEN seen'[t] - quantity'[t]
                                    ELSE seen'[t]
                      /\ pc'[t] \in {"idle", "acquire", "read"} => t \notin sold'
    BY DEF WriterSawStock
  <2>1. CASE t = r
    BY <1>2, <2>1 DEF TypeOK, input
  <2>2. CASE t # r
    BY <1>1, <1>2, <2>2 DEF TypeOK, StockInv, WriterSawStock
  <2>3. QED
    BY <2>1, <2>2
<1>5. StockConserved'
  <2>1. CASE r \in sold
    <3>1. stock' = stock /\ soldUnits' = soldUnits
      BY <1>2, <2>1 DEF StockInv, WriterSawStock, SetStock
    <3>2. QED
      BY <1>2, <3>1 DEF StockInv, StockConserved
  <2>2. CASE r \notin sold
    <3>1. stock' = stock - quantity[r] /\ soldUnits' = soldUnits + quantity[r]
      BY <1>2, <2>2 DEF StockInv, WriterSawStock, SetStock
    <3>2. QED
      BY <1>2, <3>1 DEF StockInv, StockConserved, TypeOK
  <2>3. QED
    BY <2>1, <2>2
<1>6. QED
  BY <1>3, <1>4, <1>5 DEF StockInv

LEMMA StockStep ==
  ASSUME HoldBound < TTL, Routes = {"safe"}, ~LiveSetup,
         TypeOK, HolderOwnsLock, StockInv, [Next]_vars
  PROVE  StockInv'
<1> USE DEF StockInv, AllSafe, WriterSawStock, StockConserved
<1>1. ASSUME NEW r \in Requests, Arrive(r) PROVE StockInv'
  <2>1. PICK q :
            /\ route' = [route EXCEPT ![r] = "safe"]
            /\ quantity' = [quantity EXCEPT ![r] = q]
            /\ pc' = [pc EXCEPT ![r] = "acquire"]
    BY <1>1 DEF Arrive
  <2>2. QED
    BY <1>1, <2>1 DEF Arrive, TypeOK, redis, history
<1>2. ASSUME NEW r \in Requests, Reject(r) PROVE StockInv'
  BY <1>2 DEF Reject, TypeOK, redis, input, history
<1>3. ASSUME NEW r \in Requests, Acquire(r) PROVE StockInv'
  BY <1>3 DEF Acquire, SetNX, TypeOK, input, history
<1>4. ASSUME NEW r \in Requests, AcquireBusy(r) PROVE StockInv'
  BY <1>4, AnswerEffect DEF AcquireBusy, TypeOK, redis, input, history
<1>5. ASSUME NEW r \in Requests, AcquireInterrupted(r) \/ AcquireFails(r)
      PROVE StockInv'
  BY <1>5, AnswerEffect
     DEF AcquireInterrupted, AcquireFails, TypeOK, redis, input, history
<1>6. ASSUME NEW r \in Requests, AcquireReplyLost(r) PROVE StockInv'
  BY <1>6, AnswerEffect DEF AcquireReplyLost, SetNX, TypeOK, input, history
<1>7. ASSUME NEW r \in Requests, ReadStock(r) PROVE StockInv'
  <2>1. CASE stock < quantity[r]
    BY <1>7, <2>1, LeaveEffect DEF ReadStock, TypeOK, redis, input, history
  <2>2. CASE ~(stock < quantity[r])
    BY <1>7, <2>2 DEF ReadStock, TypeOK, redis, input, history
  <2>3. QED
    BY <2>1, <2>2
<1>8. ASSUME NEW r \in Requests, WriteStock(r) PROVE StockInv'
  BY <1>8, LeaveEffect, WriteKeepsStock DEF WriteStock
<1>9. ASSUME NEW r \in Requests, BodyFails(r) PROVE StockInv'
  BY <1>9, LeaveEffect DEF BodyFails, TypeOK, redis, input, history
<1>10. ASSUME NEW r \in Requests, WriteReplyLost(r) PROVE StockInv'
  BY <1>10, LeaveEffect, WriteKeepsStock DEF WriteReplyLost
<1>11. ASSUME NEW r \in Requests,
              Release(r) \/ ReleaseFails(r) \/ ReleaseReplyLost(r)
       PROVE StockInv'
  BY <1>11, AnswerEffect
     DEF Release, ReleaseFails, ReleaseReplyLost, CompareAndDelete, TypeOK,
         redis, input, history
<1>12. ASSUME NEW s \in Stocks, InitInventory(s) PROVE StockInv'
  BY <1>12, DataAssumption DEF InitInventory, TypeOK, input
<1>13. ASSUME NEW n \in Nodes, Crash(n) PROVE StockInv'
  BY <1>13 DEF Crash, TypeOK, redis, input, history
<1>14. ASSUME Tick PROVE StockInv'
  BY <1>14 DEF Tick, TypeOK, input, history
<1>15. CASE UNCHANGED vars
  BY <1>15 DEF vars, redis, input, history
<1>16. QED
  BY <1>1, <1>2, <1>3, <1>4, <1>5, <1>6, <1>7, <1>8, <1>9, <1>10, <1>11,
     <1>12, <1>13, <1>14, <1>15 DEF Next, Step

\* No unit is lost or sold twice, whichever requests crash, fail or repeat
\* their write, as long as the lock's assumptions hold.
THEOREM Conservation ==
  HoldBound < TTL /\ Routes = {"safe"} /\ ~LiveSetup /\ Spec => []StockConserved
<1> DEFINE IInv == TypeOK /\ AttemptsLeft /\ HolderOwnsLock /\ StockInv
<1>1. Init => IInv
  BY RequestsAssumption, TimeAssumption
     DEF Init, TypeOK, AttemptsLeft, HolderOwnsLock, InCriticalSection, InBody,
         StockInv, AllSafe, WriterSawStock, StockConserved
<1>2. SUFFICES ASSUME HoldBound < TTL, Routes = {"safe"}, ~LiveSetup
               PROVE  Spec => []StockConserved
  OBVIOUS
<1>3. IInv /\ [Next]_vars => IInv'
  BY <1>2, TypeStep, HolderStep, StockStep
<1>4. IInv => StockConserved
  BY DEF StockInv
<1> HIDE DEF IInv
<1>5. QED
  BY <1>1, <1>3, <1>4, PTL DEF Spec

-----------------------------------------------------------------------------
(***************************************************************************)
(* The state of one request.  Whoever has not yet written has sold nothing *)
(* and has no outcome; whoever writes saw enough stock; an answer is final.*)
(***************************************************************************)
Underway == {"idle", "acquire", "read", "write"}

RequestOK(r) ==
  /\ pc[r] \in Underway => outcome[r] = "pending"
  /\ pc[r] \in {"idle", "acquire", "read"} => r \notin sold
  /\ pc[r] = "write" => seen[r] >= quantity[r]
  /\ pc[r] = "idle" => quantity[r] = 0
  /\ pc[r] \in {"read", "write"} => quantity[r] \in (Payloads \cup {1}) \ {0}
  /\ pc[r] = "acquire" => quantity[r] \in (Payloads \cup {1}) \ {0}
  /\ pc[r] = "release" /\ outcome[r] # "error" => (r \in sold <=> outcome[r] = "sold")
  /\ reply[r] # "none" => pc[r] = "done"
  /\ reply[r] = "200" => (r \in sold <=> outcome[r] = "sold")
  /\ reply[r] = "429" /\ framework # "nest" => r \notin sold

RequestsOK == \A r \in Requests : RequestOK(r)

\* The answers: 200 is for results that are neither busy nor an error, 429 in
\* FastAPI and Spring for busy ones only.
LEMMA AnswerReply ==
  ASSUME TypeOK, NEW r \in Requests, NEW result, Answer(r, result)
  PROVE  /\ pc' = [pc EXCEPT ![r] = "done"]
         /\ \A t \in Requests \ {r} : reply'[t] = reply[t]
         /\ reply'[r] = "200" => result # "error"
         /\ reply'[r] = "429" /\ framework # "nest" => result = "busy"
<1> DEFINE x == IF framework = "fastapi" THEN FastReply(r, result)
                ELSE IF framework = "nest" THEN NestReply(r, result)
                ELSE SpringReply(r, result)
<1>1. reply' = [reply EXCEPT ![r] = x] /\ pc' = [pc EXCEPT ![r] = "done"]
  BY DEF Answer
<1>2. /\ x = "200" => result # "error"
      /\ x = "429" /\ framework # "nest" => result = "busy"
  BY DEF FastReply, NestReply, SpringReply
<1> HIDE DEF x
<1>3. reply'[r] = x /\ \A t \in Requests \ {r} : reply'[t] = reply[t]
  BY <1>1 DEF TypeOK
<1>4. QED
  BY <1>1, <1>2, <1>3

\* What ends the body with a result leaves the request in order.
LEMMA LeaveReply ==
  ASSUME TypeOK, NEW r \in Requests, NEW result, Leave(r, result)
  PROVE  /\ outcome' = [outcome EXCEPT ![r] = result]
         /\ \A t \in Requests \ {r} : reply'[t] = reply[t] /\ pc'[t] = pc[t]
         /\ \/ pc'[r] = "release" /\ reply'[r] = reply[r]
            \/ /\ pc'[r] = "done"
               /\ reply'[r] = "200" => result # "error"
               /\ reply'[r] = "429" /\ framework # "nest" => result = "busy"
<1>1. CASE route[r] = "safe"
  BY <1>1 DEF Leave, TypeOK
<1>2. CASE route[r] # "safe"
  <2>1. Answer(r, result)
    BY <1>2 DEF Leave
  <2>2. QED
    BY <2>1, AnswerReply DEF Leave, TypeOK
<1>3. QED
  BY <1>1, <1>2

\* The quantities an endpoint lets through were sent, or are one, and not zero.
LEMMA QuantitySent ==
  ASSUME NEW p \in Payloads, NEW q \in AcceptedQuantity(p)
  PROVE  q \in (Payloads \cup {1}) \ {0}
BY DataAssumption DEF AcceptedQuantity, FastQuantity, NestQuantity, SpringQuantity

\* A request that a step does not concern; its node may crash.
LEMMA RequestKept ==
  ASSUME NEW t \in Requests, RequestOK(t), framework' = framework,
         pc'[t] = pc[t] \/ (pc'[t] = "dead" /\ pc[t] # "done"),
         outcome'[t] = outcome[t], t \in sold' <=> t \in sold, seen'[t] = seen[t],
         quantity'[t] = quantity[t], reply'[t] = reply[t]
  PROVE  RequestOK(t)'
BY DEF RequestOK, Underway

LEMMA RequestsStep ==
  ASSUME TypeOK, RequestsOK, [Next]_vars
  PROVE  RequestsOK'
<1> SUFFICES ASSUME NEW t \in Requests PROVE RequestOK(t)'
  BY DEF RequestsOK
<1> USE DEF input, history, redis
<1>0. RequestOK(t)
  BY DEF RequestsOK
<1>1. ASSUME NEW r \in Requests, Arrive(r) PROVE RequestOK(t)'
  <2>1. PICK way \in Routes, p \in Payloads :
          \E q \in AcceptedQuantity(p) :
            /\ route' = [route EXCEPT ![r] = way]
            /\ quantity' = [quantity EXCEPT ![r] = q]
            /\ pc' = [pc EXCEPT ![r] = IF way = "safe" THEN "acquire" ELSE "read"]
    BY <1>1 DEF Arrive
  <2>2. PICK q \in AcceptedQuantity(p) :
            /\ quantity' = [quantity EXCEPT ![r] = q]
            /\ pc' = [pc EXCEPT ![r] = IF way = "safe" THEN "acquire" ELSE "read"]
    BY <2>1
  <2>3. q \in (Payloads \cup {1}) \ {0}
    BY QuantitySent
  <2>4. CASE t = r
    BY <1>0, <1>1, <2>2, <2>3, <2>4 DEF Arrive, TypeOK, RequestOK, Underway
  <2>5. CASE t # r
    BY <1>0, <1>1, <2>2, <2>5, RequestKept DEF Arrive, TypeOK
  <2>6. QED
    BY <2>4, <2>5
<1>2. ASSUME NEW r \in Requests, Reject(r) PROVE RequestOK(t)'
  <2>1. CASE t = r
    BY <1>0, <1>2, <2>1 DEF Reject, TypeOK, RequestOK, Underway
  <2>2. CASE t # r
    BY <1>0, <1>2, <2>2, RequestKept DEF Reject, TypeOK
  <2>3. QED
    BY <2>1, <2>2
<1>3. ASSUME NEW r \in Requests, pc[r] = "acquire", UNCHANGED <<input, history, seen, outcome>>,
             \/ UNCHANGED <<pc, reply>>
             \/ pc' = [pc EXCEPT ![r] = "read"] /\ UNCHANGED reply
             \/ Answer(r, "busy") \/ Answer(r, "error")
      PROVE  RequestOK(t)'
  <2>1. CASE t = r
    <3>1. CASE UNCHANGED <<pc, reply>>
      BY <1>0, <1>3, <3>1, RequestKept
    <3>2. CASE pc' = [pc EXCEPT ![r] = "read"] /\ UNCHANGED reply
      BY <1>0, <1>3, <2>1, <3>2 DEF TypeOK, RequestOK, Underway
    <3>3. ASSUME NEW result \in {"busy", "error"}, Answer(r, result) PROVE RequestOK(t)'
      <4>1. /\ pc'[t] = "done"
            /\ outcome'[t] = "pending" /\ t \notin sold' /\ framework' = framework
        BY <1>0, <1>3, <2>1, <3>3, AnswerReply DEF TypeOK, RequestOK, Underway
      <4>2. QED
        BY <4>1 DEF RequestOK, Underway
    <3>4. QED
      BY <1>3, <3>1, <3>2, <3>3
  <2>2. CASE t # r
    BY <1>0, <1>3, <2>2, RequestKept, AnswerReply DEF TypeOK
  <2>3. QED
    BY <2>1, <2>2
<1>4. ASSUME NEW r \in Requests, NEW result \in {"sold", "out_of_stock", "error"},
             pc[r] \in {"read", "write"}, Leave(r, result), UNCHANGED input,
             \A u \in Requests \ {r} : seen'[u] = seen[u] /\ (u \in sold' <=> u \in sold),
             result # "error" => (r \in sold' <=> result = "sold")
      PROVE  RequestOK(t)'
  <2>1. CASE t = r
    <3>1. reply[r] = "none"
      BY <1>0, <1>4, <2>1 DEF RequestOK
    <3>2. outcome'[r] = result /\ framework' = framework
      BY <1>4, LeaveReply DEF TypeOK
    <3>3. CASE pc'[r] = "release" /\ reply'[r] = reply[r]
      BY <1>4, <2>1, <3>1, <3>2, <3>3 DEF RequestOK, Underway
    <3>4. CASE /\ pc'[r] = "done"
               /\ reply'[r] = "200" => result # "error"
               /\ reply'[r] = "429" /\ framework # "nest" => result = "busy"
      BY <1>4, <2>1, <3>2, <3>4 DEF RequestOK, Underway
    <3>5. QED
      BY <1>4, <3>3, <3>4, LeaveReply
  <2>2. CASE t # r
    <3>1. outcome'[t] = outcome[t] /\ reply'[t] = reply[t] /\ pc'[t] = pc[t]
      BY <1>4, <2>2, LeaveReply DEF TypeOK
    <3>2. QED
      BY <1>0, <1>4, <2>2, <3>1, RequestKept
  <2>3. QED
    BY <2>1, <2>2
<1>5. ASSUME NEW r \in Requests,
             \/ Acquire(r) \/ AcquireBusy(r) \/ AcquireInterrupted(r)
             \/ AcquireFails(r) \/ AcquireReplyLost(r)
      PROVE  RequestOK(t)'
  BY <1>3, <1>5 DEF Acquire, AcquireBusy, AcquireInterrupted, AcquireFails, AcquireReplyLost
<1>6. ASSUME NEW r \in Requests, ReadStock(r) PROVE RequestOK(t)'
  <2>1. CASE stock < quantity[r]
    <3>1. r \notin sold
      BY <1>6 DEF ReadStock, RequestsOK, RequestOK
    <3>2. QED
      BY <1>4, <1>6, <2>1, <3>1 DEF ReadStock, TypeOK
  <2>2. CASE ~(stock < quantity[r])
    <3>1. /\ pc' = [pc EXCEPT ![r] = "write"] /\ seen' = [seen EXCEPT ![r] = stock]
          /\ pc[r] = "read" /\ UNCHANGED <<input, history, outcome, reply>>
      BY <1>6, <2>2 DEF ReadStock
    <3>2. CASE t = r
      BY <1>0, <2>2, <3>1, <3>2 DEF TypeOK, RequestOK, Underway
    <3>3. CASE t # r
      BY <1>0, <3>1, <3>3, RequestKept DEF TypeOK
    <3>4. QED
      BY <3>2, <3>3
  <2>3. QED
    BY <2>1, <2>2
<1>7. ASSUME NEW r \in Requests, WriteStock(r) PROVE RequestOK(t)'
  BY <1>4, <1>7 DEF WriteStock, SetStock
<1>8. ASSUME NEW r \in Requests, BodyFails(r) PROVE RequestOK(t)'
  BY <1>4, <1>8 DEF BodyFails
<1>9. ASSUME NEW r \in Requests, WriteReplyLost(r) PROVE RequestOK(t)'
  <2>1. CASE Leave(r, "error")
    BY <1>4, <1>9, <2>1 DEF WriteReplyLost, SetStock
  <2>2. CASE UNCHANGED <<pc, held, outcome, reply>>
    <3>1. CASE t = r
      <4>1. reply[t] = "none" /\ pc[t] = "write"
        BY <1>0, <1>9, <3>1 DEF WriteReplyLost, RequestOK
      <4>2. QED
        BY <1>0, <1>9, <2>2, <4>1 DEF WriteReplyLost, SetStock, RequestOK, Underway
    <3>2. CASE t # r
      BY <1>0, <1>9, <2>2, <3>2, RequestKept DEF WriteReplyLost, SetStock
    <3>3. QED
      BY <3>1, <3>2
  <2>3. QED
    BY <1>9, <2>1, <2>2 DEF WriteReplyLost
<1>10. ASSUME NEW r \in Requests, Release(r) \/ ReleaseFails(r) \/ ReleaseReplyLost(r)
       PROVE  RequestOK(t)'
  <2>1. /\ UNCHANGED <<input, history, seen, outcome>> /\ pc[r] = "release"
        /\ \/ UNCHANGED <<pc, reply>>
           \/ \E result \in {outcome[r], "error"} : Answer(r, result)
    BY <1>10 DEF Release, ReleaseFails, ReleaseReplyLost
  <2>2. CASE UNCHANGED <<pc, reply>>
    BY <1>0, <2>1, <2>2, RequestKept
  <2>3. ASSUME NEW result \in {outcome[r], "error"}, Answer(r, result) PROVE RequestOK(t)'
    <3>1. CASE t = r
      <4>1. pc'[t] = "done" /\ (reply'[t] = "200" => result # "error")
            /\ (reply'[t] = "429" /\ framework # "nest" => result = "busy")
        BY <2>3, <3>1, AnswerReply DEF TypeOK
      <4>2. outcome[t] # "busy"
        BY DEF TypeOK
      <4>3. outcome[t] # "error" => (t \in sold <=> outcome[t] = "sold")
        BY <1>0, <2>1, <3>1 DEF RequestOK
      <4>4. QED
        BY <2>1, <2>3, <3>1, <4>1, <4>2, <4>3 DEF RequestOK, Underway
    <3>2. CASE t # r
      BY <1>0, <2>1, <2>3, <3>2, RequestKept, AnswerReply DEF TypeOK
    <3>3. QED
      BY <3>1, <3>2
  <2>4. QED
    BY <2>1, <2>2, <2>3
<1>11. ASSUME NEW s \in Stocks, InitInventory(s) PROVE RequestOK(t)'
  BY <1>0, <1>11, RequestKept DEF InitInventory
<1>12. ASSUME NEW n \in Nodes, Crash(n) PROVE RequestOK(t)'
  BY <1>0, <1>12, RequestKept DEF Crash
<1>13. ASSUME Tick PROVE RequestOK(t)'
  BY <1>0, <1>13, RequestKept DEF Tick
<1>14. CASE UNCHANGED vars
  BY <1>0, <1>14, RequestKept DEF vars
<1>15. QED
  BY <1>1, <1>2, <1>5, <1>6, <1>7, <1>8, <1>9, <1>10, <1>11, <1>12, <1>13, <1>14 DEF Next, Step

LEMMA RequestsInit == Init => TypeOK /\ AttemptsLeft /\ RequestsOK
BY RequestsAssumption, TimeAssumption DEF Init, TypeOK, AttemptsLeft, RequestsOK, RequestOK,
   Underway

\* Every answer is true, for holders as slow as one likes, on both routes and
\* whichever commands fail: 200 tells whether the units were sold, and 429 of
\* FastAPI or Spring that they were not.
THEOREM HonestReplies == Spec => []RepliesAreHonest
<1>1. TypeOK /\ AttemptsLeft /\ RequestsOK /\ [Next]_vars => (TypeOK /\ AttemptsLeft /\ RequestsOK)'
  BY TypeStep, RequestsStep
<1>2. RequestsOK => RepliesAreHonest
  BY DEF RequestsOK, RequestOK, RepliesAreHonest
<1>3. QED
  BY <1>1, <1>2, RequestsInit, PTL DEF Spec

\* What docs and the NestJS comment say of 429 holds of the two implementations
\* whose endpoints answer a busy lock with it and nothing else.
THEOREM BusyNotSold ==
  Frameworks \subseteq {"fastapi", "spring"} /\ Spec => []BusyMeansNotSold
<1>1. SUFFICES ASSUME Frameworks \subseteq {"fastapi", "spring"} PROVE Spec => []BusyMeansNotSold
  OBVIOUS
<1>2. TypeOK /\ RepliesAreHonest => BusyMeansNotSold
  BY <1>1 DEF TypeOK, RepliesAreHonest, BusyMeansNotSold
<1>3. QED
  BY <1>2, TypeCorrect, HonestReplies, PTL

\* The stock is not below zero, unless inventory/init has put it there.
StockNotNegative == (\A s \in Stocks : s >= 0) => stock >= 0

\* No purchase writes a stock below zero, locked or not, because it writes what
\* it saw less a quantity that what it saw covered: the negative stock that the
\* docstring of FastAPI's unsafe endpoint speaks of does not come about.
THEOREM NotNegative == Spec => []StockNotNegative
<1> DEFINE Inv == TypeOK /\ AttemptsLeft /\ RequestsOK /\ StockNotNegative
<1>1. Init => Inv
  BY RequestsInit DEF Init, StockNotNegative
<1>2. Inv /\ [Next]_vars => Inv'
  <2> SUFFICES ASSUME Inv, [Next]_vars, \A s \in Stocks : s >= 0 PROVE stock' >= 0
    BY TypeStep, RequestsStep DEF StockNotNegative
  <2>1. stock >= 0
    BY DEF StockNotNegative
  <2>2. ASSUME NEW r \in Requests, pc[r] = "write", SetStock(r) PROVE stock' >= 0
    <3>1. seen[r] >= quantity[r] /\ seen[r] \in Int /\ quantity[r] \in Int
      BY <2>2 DEF RequestsOK, RequestOK, TypeOK
    <3>2. QED
      BY <2>2, <3>1 DEF SetStock
  <2>3. ASSUME NEW r \in Requests, Step(r) PROVE stock' >= 0
    BY <2>1, <2>2, <2>3 DEF Step, Acquire, AcquireBusy, AcquireInterrupted, AcquireFails,
       AcquireReplyLost, SetNX, ReadStock, WriteStock, BodyFails, WriteReplyLost, Release,
       ReleaseFails, ReleaseReplyLost, CompareAndDelete, redis
  <2>4. QED
    BY <2>1, <2>3 DEF Next, Arrive, Reject, InitInventory, Crash, Tick, vars, redis
<1>3. Inv => StockNotNegative
  OBVIOUS
<1> HIDE DEF Inv
<1>4. QED
  BY <1>1, <1>2, <1>3, PTL DEF Spec

-----------------------------------------------------------------------------
(***************************************************************************)
(* Purchases under the lock implement the inventory: the write is the      *)
(* sale of what the request asked for, the reading that finds too little   *)
(* is the refusal, and a write that is repeated changes nothing.           *)
(***************************************************************************)
Verdict == [r \in Requests |-> IF r \in sold THEN "sold"
                               ELSE IF outcome[r] = "out_of_stock" THEN "sold_out"
                               ELSE "open"]

\* Steps the inventory does not see.
SameInventory == stock' = stock /\ quantity' = quantity /\ Verdict' = Verdict

LEMMA Unseen ==
  ASSUME stock' = stock, quantity' = quantity, sold' = sold,
         \A r \in Requests : r \notin sold =>
           (outcome'[r] = "out_of_stock" <=> outcome[r] = "out_of_stock")
  PROVE  SameInventory
BY DEF SameInventory, Verdict

\* A write, whether it reports back or not.
LEMMA WriteSells ==
  ASSUME TypeOK, RequestsOK, WriterSawStock,
         NEW r \in Requests, pc[r] = "write", SetStock(r), quantity' = quantity,
         \A t \in Requests \ {r} : outcome'[t] = outcome[t],
         outcome'[r] # "out_of_stock"
  PROVE  SameInventory \/ inventory!Sell(r)
<1>1. /\ stock' = seen[r] - quantity[r] /\ sold' = sold \cup {r}
      /\ seen[r] \in Int /\ quantity[r] \in Int
  BY DEF SetStock, TypeOK
<1>2. /\ seen[r] >= quantity[r] /\ outcome[r] = "pending" /\ quantity[r] # 0
      /\ stock = IF r \in sold THEN seen[r] - quantity[r] ELSE seen[r]
  BY DEF RequestsOK, RequestOK, Underway, WriterSawStock
<1>3. CASE r \in sold
  BY <1>1, <1>2, <1>3 DEF SameInventory, Verdict
<1>4. CASE r \notin sold
  <2>1. stock >= quantity[r] /\ stock' = stock - quantity[r] /\ Verdict[r] = "open"
    BY <1>1, <1>2, <1>4 DEF Verdict
  <2>2. Verdict' = [Verdict EXCEPT ![r] = "sold"]
    BY <1>1 DEF Verdict
  <2>3. QED
    BY <1>2, <2>1, <2>2 DEF inventory!Sell, inventory!Open, Verdict
<1>5. QED
  BY <1>3, <1>4

\* A request arrives: from here on the inventory knows its quantity.
LEMMA ArriveAsks ==
  ASSUME TypeOK, RequestsOK, NEW r \in Requests, Arrive(r)
  PROVE  inventory!Next
<1>1. PICK way \in Routes, p \in Payloads :
        \E q \in AcceptedQuantity(p) : quantity' = [quantity EXCEPT ![r] = q]
  BY DEF Arrive
<1>2. PICK q \in AcceptedQuantity(p) : quantity' = [quantity EXCEPT ![r] = q]
  BY <1>1
<1>3. q \in Payloads \cup {1} /\ q # 0
  BY QuantitySent
<1>4. pc[r] = "idle" /\ UNCHANGED <<stock, sold, outcome>>
  BY DEF Arrive, redis, history
<1>5. quantity[r] = 0 /\ outcome[r] = "pending" /\ r \notin sold
  BY <1>4 DEF RequestsOK, RequestOK, Underway
<1>6. Verdict[r] = "open" /\ Verdict' = Verdict
  BY <1>4, <1>5 DEF Verdict
<1>7. PICK k \in Payloads \cup {1} : k = q
  BY <1>3
<1>8. inventory!Ask(r, k)
  BY <1>2, <1>3, <1>4, <1>5, <1>6, <1>7 DEF inventory!Ask, Verdict
<1>9. QED
  BY <1>8 DEF inventory!Next

\* One step of the protocol is at most one of the inventory.
LEMMA PurchaseStep ==
  ASSUME TypeOK, RequestsOK, WriterSawStock, [Next]_vars
  PROVE  SameInventory \/ inventory!Next
<1> USE DEF input, history, redis
<1>1. ASSUME NEW r \in Requests, WriteStock(r) \/ WriteReplyLost(r)
      PROVE  SameInventory \/ inventory!Next
  <2>1. /\ pc[r] = "write" /\ SetStock(r) /\ quantity' = quantity
        /\ \/ UNCHANGED outcome
           \/ outcome' = [outcome EXCEPT ![r] = "sold"]
           \/ outcome' = [outcome EXCEPT ![r] = "error"]
    BY <1>1 DEF WriteStock, WriteReplyLost, Leave
  <2>2. outcome[r] = "pending"
    BY <2>1 DEF RequestsOK, RequestOK, Underway
  <2>3. /\ \A t \in Requests \ {r} : outcome'[t] = outcome[t]
        /\ outcome'[r] # "out_of_stock"
    BY <2>1, <2>2 DEF TypeOK
  <2>4. QED
    BY <2>1, <2>3, WriteSells DEF inventory!Next
<1>2. ASSUME NEW r \in Requests, ReadStock(r)
      PROVE  SameInventory \/ inventory!Next
  <2>1. CASE stock < quantity[r]
    <3>1. /\ outcome' = [outcome EXCEPT ![r] = "out_of_stock"] /\ stock' = stock /\ sold' = sold
          /\ quantity' = quantity /\ pc[r] = "read"
      BY <1>2, <2>1 DEF ReadStock, Leave
    <3>2. outcome[r] = "pending" /\ r \notin sold /\ quantity[r] # 0
      BY <3>1 DEF RequestsOK, RequestOK, Underway
    <3>3. Verdict[r] = "open" /\ Verdict' = [Verdict EXCEPT ![r] = "sold_out"]
      BY <3>1, <3>2 DEF Verdict, TypeOK
    <3>4. inventory!Refuse(r)
      BY <2>1, <3>1, <3>2, <3>3 DEF inventory!Refuse, inventory!Open, Verdict
    <3>5. QED
      BY <3>4 DEF inventory!Next
  <2>2. CASE ~(stock < quantity[r])
    BY <1>2, <2>2, Unseen DEF ReadStock
  <2>3. QED
    BY <2>1, <2>2
<1>3. ASSUME NEW r \in Requests, BodyFails(r) PROVE SameInventory
  <2>1. /\ outcome' = [outcome EXCEPT ![r] = "error"] /\ outcome[r] = "pending"
        /\ stock' = stock /\ sold' = sold /\ quantity' = quantity
    BY <1>3 DEF BodyFails, Leave, RequestsOK, RequestOK, Underway
  <2>2. \A t \in Requests : outcome'[t] = "out_of_stock" <=> outcome[t] = "out_of_stock"
    BY <2>1 DEF TypeOK
  <2>3. QED
    BY <2>1, <2>2, Unseen
<1>4. ASSUME NEW s \in Stocks, InitInventory(s) PROVE inventory!Next
  BY <1>4 DEF InitInventory, inventory!Next, inventory!Setup
<1>5. CASE UNCHANGED <<stock, quantity, sold, outcome>>
  BY <1>5, Unseen
<1>6. ASSUME NEW r \in Requests,
             \/ Acquire(r) \/ AcquireBusy(r) \/ AcquireInterrupted(r)
             \/ AcquireFails(r) \/ AcquireReplyLost(r)
             \/ Release(r) \/ ReleaseFails(r) \/ ReleaseReplyLost(r) \/ Reject(r)
      PROVE  UNCHANGED <<stock, quantity, sold, outcome>>
  BY <1>6 DEF Acquire, AcquireBusy, AcquireInterrupted, AcquireFails, AcquireReplyLost, SetNX,
     Release, ReleaseFails, ReleaseReplyLost, CompareAndDelete, Reject
<1>7. (\E n \in Nodes : Crash(n)) \/ Tick \/ UNCHANGED vars
        => UNCHANGED <<stock, quantity, sold, outcome>>
  BY DEF Crash, Tick, vars
<1>8. QED
  BY <1>1, <1>2, <1>3, <1>4, <1>5, <1>6, <1>7, ArriveAsks DEF Next, Step

\* Purchases are atomic for their callers, in any number, on any nodes and with
\* any faults, as long as the lock's assumptions hold.
THEOREM Linearizes ==
  HoldBound < TTL /\ Routes = {"safe"} /\ ~LiveSetup /\ Spec => Linearizable
<1> DEFINE IInv == /\ TypeOK /\ AttemptsLeft /\ RequestsOK
                   /\ HolderOwnsLock /\ StockInv
<1>1. SUFFICES ASSUME HoldBound < TTL, Routes = {"safe"}, ~LiveSetup
               PROVE  Spec => Linearizable
  OBVIOUS
<1>2. Init => IInv
  <2>1. Init => HolderOwnsLock /\ StockInv
    BY DEF Init, HolderOwnsLock, InCriticalSection, InBody, StockInv, AllSafe, WriterSawStock,
       StockConserved
  <2>2. QED
    BY <2>1, RequestsInit
<1>3. IInv /\ [Next]_vars => IInv'
  BY <1>1, TypeStep, RequestsStep, HolderStep, StockStep
<1>4. Init => inventory!Init
  BY DEF Init, inventory!Init
<1>5. IInv /\ [Next]_vars => [inventory!Next]_(inventory!vars)
  <2> SUFFICES ASSUME IInv, [Next]_vars PROVE [inventory!Next]_(inventory!vars)
    OBVIOUS
  <2>1. WriterSawStock
    BY DEF StockInv
  <2>2. SameInventory \/ inventory!Next
    BY <2>1, PurchaseStep
  <2>3. QED
    BY <2>2 DEF inventory!vars, SameInventory, Verdict
<1> HIDE DEF IInv
<1>6. QED
  BY <1>2, <1>3, <1>4, <1>5, PTL DEF Linearizable, inventory!Spec, Spec
-----------------------------------------------------------------------------
(***************************************************************************)
(* Purchases take stock away and never add to it.                          *)
(***************************************************************************)
\* FastAPI and Spring let no quantity below one through.
Buys(r) == framework # "nest" /\ pc[r] \in {"acquire", "read", "write"} => quantity[r] > 0
AllBuy == \A r \in Requests : Buys(r)

LEMMA BuyStep ==
  ASSUME TypeOK, AllBuy, [Next]_vars
  PROVE  AllBuy'
<1> SUFFICES ASSUME NEW t \in Requests PROVE Buys(t)'
  BY DEF AllBuy
<1> USE DEF input, history, redis, Buys
<1>0. Buys(t)
  BY DEF AllBuy
<1>1. ASSUME NEW r \in Requests, Arrive(r) PROVE Buys(t)'
  <2>1. PICK way \in Routes, p \in Payloads :
          \E q \in AcceptedQuantity(p) :
            /\ quantity' = [quantity EXCEPT ![r] = q]
            /\ pc' = [pc EXCEPT ![r] = IF way = "safe" THEN "acquire" ELSE "read"]
    BY <1>1 DEF Arrive
  <2>2. PICK q \in AcceptedQuantity(p) :
            /\ quantity' = [quantity EXCEPT ![r] = q]
            /\ pc' = [pc EXCEPT ![r] = IF way = "safe" THEN "acquire" ELSE "read"]
    BY <2>1
  <2>3. framework # "nest" => q > 0
    BY DataAssumption DEF AcceptedQuantity, FastQuantity, SpringQuantity
  <2>4. QED
    BY <1>0, <1>1, <2>2, <2>3 DEF Arrive, TypeOK
<1>2. ASSUME NEW r \in Requests, Reject(r) PROVE Buys(t)'
  BY <1>0, <1>2 DEF Reject, TypeOK
<1>3. ASSUME NEW r \in Requests, Acquire(r) PROVE Buys(t)'
  BY <1>0, <1>3 DEF Acquire, TypeOK
<1>4. ASSUME NEW r \in Requests,
             AcquireBusy(r) \/ AcquireInterrupted(r) \/ AcquireFails(r) \/ AcquireReplyLost(r)
      PROVE  Buys(t)'
  BY <1>0, <1>4, AnswerEffect
     DEF AcquireBusy, AcquireInterrupted, AcquireFails, AcquireReplyLost, TypeOK
<1>5. ASSUME NEW r \in Requests, ReadStock(r) PROVE Buys(t)'
  <2>1. CASE stock < quantity[r]
    BY <1>0, <1>5, <2>1, LeaveEffect DEF ReadStock, TypeOK
  <2>2. CASE ~(stock < quantity[r])
    BY <1>0, <1>5, <2>2 DEF ReadStock, TypeOK
  <2>3. QED
    BY <2>1, <2>2
<1>6. ASSUME NEW r \in Requests, WriteStock(r) \/ BodyFails(r) \/ WriteReplyLost(r)
      PROVE  Buys(t)'
  BY <1>0, <1>6, LeaveEffect DEF WriteStock, BodyFails, WriteReplyLost, TypeOK
<1>7. ASSUME NEW r \in Requests, Release(r) \/ ReleaseFails(r) \/ ReleaseReplyLost(r)
      PROVE  Buys(t)'
  BY <1>0, <1>7, AnswerEffect DEF Release, ReleaseFails, ReleaseReplyLost, TypeOK
<1>8. ASSUME NEW s \in Stocks, InitInventory(s) PROVE Buys(t)'
  BY <1>0, <1>8 DEF InitInventory
<1>9. ASSUME NEW n \in Nodes, Crash(n) PROVE Buys(t)'
  BY <1>0, <1>9 DEF Crash, TypeOK
<1>10. ASSUME Tick PROVE Buys(t)'
  BY <1>0, <1>10 DEF Tick
<1>11. CASE UNCHANGED vars
  BY <1>0, <1>11 DEF vars
<1>12. QED
  BY <1>1, <1>2, <1>3, <1>4, <1>5, <1>6, <1>7, <1>8, <1>9, <1>10, <1>11 DEF Next, Step

\* In FastAPI and Spring no purchase puts stock back, in any number and with
\* any faults, as long as the lock's assumptions hold.
THEOREM OnlyTake ==
  HoldBound < TTL /\ Routes = {"safe"} /\ ~LiveSetup /\ Spec => PurchasesOnlyTake
<1> DEFINE IInv == /\ TypeOK /\ AttemptsLeft /\ AllBuy
                   /\ HolderOwnsLock /\ StockInv
           Takes == setups' = setups /\ framework # "nest" => stock' <= stock
<1>1. SUFFICES ASSUME HoldBound < TTL, Routes = {"safe"}, ~LiveSetup
               PROVE  Spec => PurchasesOnlyTake
  OBVIOUS
<1>2. Init => IInv
  <2>1. Init => HolderOwnsLock /\ StockInv /\ AllBuy
    BY DEF Init, HolderOwnsLock, InCriticalSection, InBody, StockInv, AllSafe, WriterSawStock,
       StockConserved, AllBuy, Buys
  <2>2. QED
    BY <2>1, RequestsInit
<1>3. IInv /\ [Next]_vars => IInv'
  BY <1>1, TypeStep, BuyStep, HolderStep, StockStep
<1>4. IInv /\ [Next]_vars => [Takes]_vars
  <2> SUFFICES ASSUME IInv, [Next]_vars, setups' = setups, framework # "nest"
               PROVE  stock' <= stock
    OBVIOUS
  <2>1. stock \in Int /\ setups \in Int
    BY DEF TypeOK
  <2>2. ASSUME NEW r \in Requests, pc[r] = "write", SetStock(r) PROVE stock' <= stock
    <3>1. /\ quantity[r] > 0 /\ quantity[r] \in Int /\ seen[r] \in Int
          /\ stock = IF r \in sold THEN seen[r] - quantity[r] ELSE seen[r]
      BY <2>2 DEF AllBuy, Buys, StockInv, WriterSawStock, TypeOK
    <3>2. QED
      BY <2>2, <3>1 DEF SetStock
  <2>3. ASSUME NEW r \in Requests, Step(r) PROVE stock' <= stock
    BY <2>1, <2>2, <2>3 DEF Step, Acquire, AcquireBusy, AcquireInterrupted, AcquireFails,
       AcquireReplyLost, SetNX, ReadStock, WriteStock, BodyFails, WriteReplyLost, Release,
       ReleaseFails, ReleaseReplyLost, CompareAndDelete, redis
  <2>4. ASSUME NEW s \in Stocks, InitInventory(s) PROVE FALSE
    BY <2>1, <2>4 DEF InitInventory
  <2>5. QED
    BY <2>1, <2>3, <2>4 DEF Next, Arrive, Reject, Crash, Tick, vars, redis
<1> HIDE DEF IInv, Takes
<1>5. Spec => [][Takes]_vars
  BY <1>2, <1>3, <1>4, PTL DEF Spec
<1>6. QED
  BY <1>5 DEF Takes, PurchasesOnlyTake

-----------------------------------------------------------------------------
(***************************************************************************)
(* Purchases sell too much, never too little: what a writer saw covers,    *)
(* with all that was sold, what was stocked.                               *)
(***************************************************************************)
Kept(r) ==
  pc[r] = "write" =>
    seen[r] + soldUnits >= supply + (IF r \in sold THEN quantity[r] ELSE 0)

\* Before the first reset the stock is zero, so nobody gets as far as a write.
NothingStocked == /\ stock = 0 /\ supply = 0 /\ soldUnits = 0
                  /\ \A r \in Requests : pc[r] # "write"

UnitsInv ==
  framework # "nest" =>
    /\ setups = 0 => NothingStocked
    /\ setups <= 1 => stock + soldUnits >= supply /\ \A r \in Requests : Kept(r)

\* Steps that leave the stock and the writers alone.
LEMMA UnitsKept ==
  ASSUME TypeOK, UnitsInv,
         UNCHANGED <<framework, setups, stock, supply, soldUnits, sold, seen>>,
         \A t \in Requests : pc'[t] = "write" => pc[t] = "write" /\ quantity'[t] = quantity[t]
  PROVE  UnitsInv'
BY DEF UnitsInv, NothingStocked, Kept

\* A write, the first of its request or one that repeats it.
LEMMA WriteKeepsUnits ==
  ASSUME TypeOK, AllBuy, UnitsInv, NEW r \in Requests, pc[r] = "write", SetStock(r),
         UNCHANGED <<framework, setups, seen, quantity>>,
         \A t \in Requests : pc'[t] = "write" => pc[t] = "write"
  PROVE  UnitsInv'
<1>1. SUFFICES ASSUME framework # "nest", setups <= 1
               PROVE  /\ setups # 0
                      /\ stock' + soldUnits' >= supply'
                      /\ \A t \in Requests : Kept(t)'
  BY DEF UnitsInv, TypeOK
<1>2. setups # 0 /\ Kept(r) /\ quantity[r] > 0
  BY <1>1 DEF UnitsInv, NothingStocked, AllBuy, Buys
<1>3. /\ stock' = seen[r] - quantity[r] /\ sold' = sold \cup {r} /\ supply' = supply
      /\ soldUnits' = IF r \in sold THEN soldUnits ELSE soldUnits + quantity[r]
  BY DEF SetStock
<1>4. /\ seen \in [Requests -> Int] /\ quantity \in [Requests -> Int]
      /\ soldUnits \in Int /\ supply \in Int
  BY DEF TypeOK
<1>5. stock' + soldUnits' >= supply'
  BY <1>2, <1>3, <1>4 DEF Kept
<1>6. ASSUME NEW t \in Requests PROVE Kept(t)'
  <2>1. Kept(t)
    BY <1>1 DEF UnitsInv
  <2>2. CASE t = r
    BY <1>2, <1>3, <1>4, <2>2 DEF Kept
  <2>3. CASE t # r
    BY <1>2, <1>3, <1>4, <2>1, <2>3 DEF Kept
  <2>4. QED
    BY <2>2, <2>3
<1>7. QED
  BY <1>2, <1>5, <1>6

LEMMA UnitsStep ==
  ASSUME TypeOK, RequestsOK, AllBuy, UnitsInv, [Next]_vars
  PROVE  UnitsInv'
<1> USE DEF input, history, redis
<1>1. ASSUME NEW r \in Requests, Arrive(r) PROVE UnitsInv'
  <2>1. PICK way \in Routes, p \in Payloads :
          \E q \in AcceptedQuantity(p) :
            /\ quantity' = [quantity EXCEPT ![r] = q]
            /\ pc' = [pc EXCEPT ![r] = IF way = "safe" THEN "acquire" ELSE "read"]
    BY <1>1 DEF Arrive
  <2>2. PICK q \in AcceptedQuantity(p) :
            /\ quantity' = [quantity EXCEPT ![r] = q]
            /\ pc' = [pc EXCEPT ![r] = IF way = "safe" THEN "acquire" ELSE "read"]
    BY <2>1
  <2>3. \A t \in Requests : pc'[t] = "write" => pc[t] = "write" /\ quantity'[t] = quantity[t]
    BY <2>2 DEF TypeOK
  <2>4. QED
    BY <1>1, <2>3, UnitsKept DEF Arrive
<1>2. ASSUME NEW r \in Requests,
             \/ Reject(r) \/ Acquire(r) \/ AcquireBusy(r) \/ AcquireInterrupted(r)
             \/ AcquireFails(r) \/ AcquireReplyLost(r) \/ BodyFails(r)
             \/ Release(r) \/ ReleaseFails(r) \/ ReleaseReplyLost(r)
      PROVE  UnitsInv'
  <2>1. UNCHANGED <<framework, setups, stock, supply, soldUnits, sold, seen, quantity>>
    BY <1>2 DEF Reject, Acquire, AcquireBusy, AcquireInterrupted, AcquireFails,
       AcquireReplyLost, SetNX, BodyFails, Release, ReleaseFails, ReleaseReplyLost,
       CompareAndDelete
  <2>2. \A t \in Requests : pc'[t] = "write" => pc[t] = "write"
    BY <1>2, AnswerEffect, LeaveEffect
       DEF Reject, Acquire, AcquireBusy, AcquireInterrupted, AcquireFails,
       AcquireReplyLost, BodyFails, Release, ReleaseFails, ReleaseReplyLost, TypeOK
  <2>3. QED
    BY <2>1, <2>2, UnitsKept
<1>3. ASSUME NEW r \in Requests, ReadStock(r) PROVE UnitsInv'
  <2>1. /\ UNCHANGED <<framework, setups, stock, supply, soldUnits, sold, quantity>>
        /\ seen' = [seen EXCEPT ![r] = stock] /\ pc[r] = "read" /\ r \notin sold
    BY <1>3 DEF ReadStock, RequestsOK, RequestOK
  <2>2. CASE stock < quantity[r]
    <3>1. \A t \in Requests : pc'[t] = "write" => pc[t] = "write" /\ t # r
      BY <1>3, <2>2, LeaveEffect DEF ReadStock, TypeOK
    <3>2. QED
      BY <2>1, <3>1 DEF UnitsInv, NothingStocked, Kept, TypeOK
  <2>3. CASE ~(stock < quantity[r])
    <3>1. pc' = [pc EXCEPT ![r] = "write"]
      BY <1>3, <2>3 DEF ReadStock
    <3>2. SUFFICES ASSUME framework # "nest", setups <= 1
                   PROVE  setups # 0 /\ \A t \in Requests : Kept(t)'
      BY <2>1 DEF UnitsInv, TypeOK
    <3>3. quantity[r] > 0 /\ quantity[r] \in Int /\ stock \in Int
      BY <2>1, <3>2 DEF AllBuy, Buys, TypeOK
    <3>4. setups # 0
      BY <2>3, <3>2, <3>3 DEF UnitsInv, NothingStocked
    <3>5. ASSUME NEW t \in Requests PROVE Kept(t)'
      <4>1. CASE t = r
        BY <2>1, <3>2, <4>1 DEF UnitsInv, Kept, TypeOK
      <4>2. CASE t # r
        BY <2>1, <3>1, <3>2, <4>2 DEF UnitsInv, Kept, TypeOK
      <4>3. QED
        BY <4>1, <4>2
    <3>6. QED
      BY <3>4, <3>5
  <2>4. QED
    BY <2>2, <2>3
<1>4. ASSUME NEW r \in Requests, WriteStock(r) \/ WriteReplyLost(r) PROVE UnitsInv'
  <2>1. /\ pc[r] = "write" /\ SetStock(r) /\ UNCHANGED <<framework, setups, seen, quantity>>
        /\ UNCHANGED pc \/ Leave(r, "sold") \/ Leave(r, "error")
    BY <1>4 DEF WriteStock, WriteReplyLost
  <2>2. \A t \in Requests : pc'[t] = "write" => pc[t] = "write"
    BY <2>1, LeaveEffect DEF TypeOK
  <2>3. QED
    BY <2>1, <2>2, WriteKeepsUnits
<1>5. ASSUME NEW s \in Stocks, InitInventory(s) PROVE UnitsInv'
  <2>1. /\ stock' = s /\ supply' = s /\ soldUnits' = 0 /\ setups' = setups + 1
        /\ UNCHANGED <<framework, pc>> /\ s \in Int /\ setups \in Nat
    BY <1>5, DataAssumption DEF InitInventory, TypeOK
  <2>2. QED
    BY <2>1 DEF UnitsInv, NothingStocked, Kept
<1>6. ASSUME NEW n \in Nodes, Crash(n) PROVE UnitsInv'
  BY <1>6, UnitsKept DEF Crash, TypeOK
<1>7. CASE Tick \/ UNCHANGED vars
  BY <1>7, UnitsKept DEF Tick, vars
<1>8. QED
  BY <1>1, <1>2, <1>3, <1>4, <1>5, <1>6, <1>7 DEF Next, Step

\* No unit leaves the stock unsold, on both routes, with holders as slow as one
\* likes, whatever fails or is sent again, and for any number of requests.
THEOREM UnitsStay == Spec => []NoUnitVanishes
<1> DEFINE Inv == TypeOK /\ AttemptsLeft /\ RequestsOK /\ AllBuy /\ UnitsInv
<1>1. Init => Inv
  <2>1. Init => AllBuy /\ UnitsInv
    BY DEF Init, AllBuy, Buys, UnitsInv, NothingStocked, Kept
  <2>2. QED
    BY <2>1, RequestsInit
<1>2. Inv /\ [Next]_vars => Inv'
  BY TypeStep, RequestsStep, BuyStep, UnitsStep
<1>3. Inv => NoUnitVanishes
  BY DEF UnitsInv, NoUnitVanishes
<1> HIDE DEF Inv
<1>4. QED
  BY <1>1, <1>2, <1>3, PTL DEF Spec

-----------------------------------------------------------------------------
(***************************************************************************)
(* What a fault costs.                                                     *)
(***************************************************************************)

\* A sale that its buyer will not hear of: the answer is given, or the error
\* that will be answered is on its way through the release.
Unconfirmed(r) == /\ r \in sold
                  /\ \/ pc[r] = "done" /\ reply[r] # "200"
                     \/ pc[r] = "release" /\ outcome[r] = "error"

AllUnconfirmed == {r \in Requests : Unconfirmed(r)}

ConfirmInv == IsFiniteSet(AllUnconfirmed) /\ Cardinality(AllUnconfirmed) <= faults

\* A result that is neither busy nor an error is answered with 200.
LEMMA AnswerConfirms ==
  ASSUME TypeOK, NEW r \in Requests, NEW result, Answer(r, result),
         result \notin {"busy", "error"}
  PROVE  reply'[r] = "200"
BY DEF Answer, FastReply, NestReply, SpringReply, TypeOK

LEMMA LeaveConfirms ==
  ASSUME TypeOK, NEW r \in Requests, NEW result, Leave(r, result),
         result \notin {"busy", "error"}
  PROVE  /\ outcome'[r] = result
         /\ pc'[r] = "release" \/ (pc'[r] = "done" /\ reply'[r] = "200")
<1>1. outcome'[r] = result
  BY DEF Leave, TypeOK
<1>2. CASE route[r] = "safe"
  BY <1>1, <1>2 DEF Leave, TypeOK
<1>3. CASE route[r] # "safe"
  BY <1>1, <1>3, AnswerConfirms DEF Leave, Answer, TypeOK
<1>4. QED
  BY <1>2, <1>3

\* A step of one request leaves the sales of the others as they are.
LEMMA OthersKept ==
  ASSUME TypeOK, NEW r \in Requests, Arrive(r) \/ Reject(r) \/ Step(r),
         NEW t \in Requests \ {r}
  PROVE  Unconfirmed(t)' <=> Unconfirmed(t)
<1> USE DEF input, history, redis
<1>1. t \in sold' <=> t \in sold
  BY DEF Arrive, Reject, Step, Acquire, AcquireBusy, AcquireInterrupted, AcquireFails,
     AcquireReplyLost, ReadStock, WriteStock, BodyFails, WriteReplyLost, SetStock, Release,
     ReleaseFails, ReleaseReplyLost
<1>2. ASSUME NEW result, Answer(r, result) PROVE pc'[t] = pc[t] /\ reply'[t] = reply[t]
  BY <1>2 DEF Answer, TypeOK
<1>3. ASSUME NEW result, Leave(r, result)
      PROVE  pc'[t] = pc[t] /\ reply'[t] = reply[t] /\ outcome'[t] = outcome[t]
  BY <1>2, <1>3 DEF Leave, TypeOK
<1>4. CASE Arrive(r) \/ Reject(r)
  <2>1. pc'[t] = pc[t] /\ reply'[t] = reply[t] /\ outcome'[t] = outcome[t]
    BY <1>4 DEF Arrive, Reject, TypeOK
  <2>2. QED
    BY <1>1, <2>1 DEF Unconfirmed
<1>5. CASE Step(r)
  <2>1. pc'[t] = pc[t] /\ reply'[t] = reply[t] /\ outcome'[t] = outcome[t]
    <3>1. CASE \/ Acquire(r) \/ AcquireBusy(r) \/ AcquireInterrupted(r)
               \/ AcquireFails(r) \/ AcquireReplyLost(r)
      BY <1>2, <3>1 DEF Acquire, AcquireBusy, AcquireInterrupted, AcquireFails,
         AcquireReplyLost, TypeOK
    <3>2. CASE ReadStock(r) \/ WriteStock(r) \/ BodyFails(r) \/ WriteReplyLost(r)
      BY <1>3, <3>2 DEF ReadStock, WriteStock, BodyFails, WriteReplyLost, TypeOK
    <3>3. CASE Release(r) \/ ReleaseFails(r) \/ ReleaseReplyLost(r)
      BY <1>2, <3>3 DEF Release, ReleaseFails, ReleaseReplyLost, TypeOK
    <3>4. QED
      BY <1>5, <3>1, <3>2, <3>3 DEF Step
  <2>2. QED
    BY <1>1, <2>1 DEF Unconfirmed
<1>6. QED
  BY <1>4, <1>5

\* Its own sale a request keeps from its buyer only by a fault.
LEMMA FaultlessConfirms ==
  ASSUME TypeOK, RequestsOK, NEW r \in Requests, Arrive(r) \/ Reject(r) \/ Step(r),
         UNCHANGED faults, Unconfirmed(r)'
  PROVE  Unconfirmed(r)
<1> USE DEF input, history, redis
<1>1. RequestOK(r) /\ faults \in Nat /\ ~Fault
  BY DEF RequestsOK, TypeOK, Fault
<1>2. CASE \/ Arrive(r) \/ Reject(r) \/ Acquire(r) \/ AcquireBusy(r)
           \/ AcquireInterrupted(r)
  <2>1. r \notin sold
    BY <1>1, <1>2 DEF Arrive, Reject, Acquire, AcquireBusy, AcquireInterrupted, RequestOK, Underway
  <2>2. QED
    BY <1>2, <2>1 DEF Arrive, Reject, Acquire, AcquireBusy, AcquireInterrupted, Unconfirmed
<1>3. CASE ReadStock(r)
  <2>1. r \notin sold /\ sold' = sold
    BY <1>1, <1>3 DEF ReadStock, RequestOK, Underway
  <2>2. QED
    BY <2>1 DEF Unconfirmed
<1>4. CASE WriteStock(r)
  <2>1. Leave(r, "sold")
    BY <1>4 DEF WriteStock
  <2>2. outcome'[r] = "sold" /\ (pc'[r] = "release" \/ (pc'[r] = "done" /\ reply'[r] = "200"))
    BY <2>1, LeaveConfirms
  <2>3. QED
    BY <2>2 DEF Unconfirmed
<1>5. CASE Release(r)
  <2>1. Answer(r, outcome[r]) /\ pc[r] = "release" /\ sold' = sold
    BY <1>5 DEF Release
  <2>2. outcome[r] \notin {"busy", "error"} => reply'[r] = "200"
    BY <2>1, AnswerConfirms
  <2>3. outcome[r] # "busy" /\ pc'[r] = "done"
    BY <2>1 DEF Answer, TypeOK
  <2>4. QED
    BY <2>1, <2>2, <2>3 DEF Unconfirmed
<1>6. QED
  BY <1>1, <1>2, <1>3, <1>4, <1>5 DEF Step, AcquireFails, AcquireReplyLost, BodyFails,
     WriteReplyLost, ReleaseFails, ReleaseReplyLost

\* A step keeps at most one more sale from its buyer, and none when nothing fails.
OneAtMost ==
  \/ faults' = faults /\ \A r \in Requests : Unconfirmed(r)' => Unconfirmed(r)
  \/ faults' = faults + 1 /\ \E k : \A r \in Requests : Unconfirmed(r)' => Unconfirmed(r) \/ r = k

LEMMA StepConfirms ==
  ASSUME TypeOK, RequestsOK, [Next]_vars
  PROVE  OneAtMost
<1> USE DEF input, history, redis
<1>1. ASSUME NEW r \in Requests, Arrive(r) \/ Reject(r) \/ Step(r) PROVE OneAtMost
  <2>1. faults' = faults \/ faults' = faults + 1
    BY <1>1 DEF Arrive, Reject, Step, Acquire, AcquireBusy, AcquireInterrupted, AcquireFails,
       AcquireReplyLost, ReadStock, WriteStock, BodyFails, WriteReplyLost, Release,
       ReleaseFails, ReleaseReplyLost, Fault
  <2>2. QED
    BY <1>1, <2>1, OthersKept, FaultlessConfirms DEF OneAtMost
<1>2. CASE (\E s \in Stocks : InitInventory(s)) \/ Tick \/ UNCHANGED vars
  <2>1. UNCHANGED <<sold, pc, reply, outcome, faults>>
    BY <1>2 DEF InitInventory, Tick, vars
  <2>2. QED
    BY <2>1 DEF OneAtMost, Unconfirmed
<1>3. ASSUME NEW n \in Nodes, Crash(n) PROVE OneAtMost
  <2>1. UNCHANGED <<sold, reply, outcome, faults>>
        /\ \A r \in Requests : pc'[r] \in {pc[r], "dead"}
    BY <1>3 DEF Crash
  <2>2. QED
    BY <2>1 DEF OneAtMost, Unconfirmed
<1>4. QED
  BY <1>1, <1>2, <1>3 DEF Next

\* No more sales are kept from their buyers than commands failed or lost their
\* reply, on both routes, with holders as slow as one likes and for any number
\* of requests, nodes and resets of the stock.
THEOREM FaultsCostOneSale == Spec => []OneSalePerFault
<1> DEFINE Inv == TypeOK /\ AttemptsLeft /\ RequestsOK /\ ConfirmInv
<1>1. Init => Inv
  <2> SUFFICES ASSUME Init PROVE ConfirmInv
    BY RequestsInit
  <2>1. AllUnconfirmed = {}
    BY DEF Init, AllUnconfirmed, Unconfirmed
  <2>2. QED
    BY <2>1, FS_EmptySet DEF Init, ConfirmInv
<1>2. Inv /\ [Next]_vars => Inv'
  <2> SUFFICES ASSUME Inv, [Next]_vars PROVE ConfirmInv'
    BY TypeStep, RequestsStep
  <2>1. /\ IsFiniteSet(AllUnconfirmed) /\ Cardinality(AllUnconfirmed) \in Nat
        /\ Cardinality(AllUnconfirmed) <= faults /\ faults \in Nat
    BY FS_CardinalityType DEF ConfirmInv, TypeOK
  <2>2. CASE faults' = faults /\ \A r \in Requests : Unconfirmed(r)' => Unconfirmed(r)
    <3>1. AllUnconfirmed' \subseteq AllUnconfirmed
      BY <2>2 DEF AllUnconfirmed
    <3>2. QED
      BY <2>1, <2>2, <3>1, FS_Subset, FS_CardinalityType DEF ConfirmInv
  <2>3. ASSUME faults' = faults + 1,
               NEW k, \A r \in Requests : Unconfirmed(r)' => Unconfirmed(r) \/ r = k
        PROVE  ConfirmInv'
    <3>1. AllUnconfirmed' \subseteq AllUnconfirmed \cup {k}
      BY <2>3 DEF AllUnconfirmed
    <3>2. /\ IsFiniteSet(AllUnconfirmed \cup {k}) /\ Cardinality(AllUnconfirmed \cup {k}) \in Nat
          /\ \/ Cardinality(AllUnconfirmed \cup {k}) = Cardinality(AllUnconfirmed)
             \/ Cardinality(AllUnconfirmed \cup {k}) = Cardinality(AllUnconfirmed) + 1
      BY <2>1, FS_AddElement, FS_CardinalityType
    <3>3. IsFiniteSet(AllUnconfirmed') /\ Cardinality(AllUnconfirmed') \in Nat
          /\ Cardinality(AllUnconfirmed') <= Cardinality(AllUnconfirmed \cup {k})
      BY <3>1, <3>2, FS_Subset, FS_CardinalityType
    <3>4. Cardinality(AllUnconfirmed') <= faults'
      BY <2>1, <2>3, <3>2, <3>3
    <3>5. QED
      BY <3>3, <3>4 DEF ConfirmInv
  <2>4. QED
    BY <2>2, <2>3, StepConfirms DEF OneAtMost
<1>3. Inv => OneSalePerFault
  <2> SUFFICES ASSUME Inv PROVE Cardinality(UnconfirmedSales) <= faults
    BY DEF OneSalePerFault
  <2>1. UnconfirmedSales \subseteq AllUnconfirmed
    BY DEF UnconfirmedSales, AllUnconfirmed, Unconfirmed, TypeOK
  <2>2. IsFiniteSet(AllUnconfirmed) /\ Cardinality(AllUnconfirmed) <= faults /\ faults \in Nat
    BY DEF ConfirmInv, TypeOK
  <2>3. QED
    BY <2>1, <2>2, FS_Subset, FS_CardinalityType
<1> HIDE DEF Inv
<1>4. QED
  BY <1>1, <1>2, <1>3, PTL DEF Spec
=============================================================================
