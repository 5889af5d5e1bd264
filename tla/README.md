# A TLA+ verification of the distributed backend playground

The repository implements the same four distributed-systems cases three times:
in FastAPI (`fastapi/app`), NestJS (`nestjs/src`) and Spring Boot
(`spring-boot/src/main`). Each implementation runs as a cluster of its own: an
nginx load balancer, two API nodes and one Redis 7; FastAPI also runs two worker
containers. The nodes share nothing but Redis. This directory models the four
cases in TLA+, checks the models with TLC and proves their most important
properties with TLAPS.

Where the implementations follow the same protocol, one module models all
three: a variable `framework`, chosen by `Init` and never changed, selects what
each of them does differently. Bounds, faults and time are parameters.

## Inventory

| Component | State | Operations | What is hard | What makes it correct |
|---|---|---|---|---|
| Distributed lock and inventory (case 1) | Redis keys `lock:inventory:<item>` (token, TTL) and `stock:<item>` | `inventory/init`, `purchase/safe`, `purchase/unsafe` | TTL running out under the holder, late releases, lost replies, a node dying with the lock, purchases that bypass the lock | one request at a time in the critical section, stock conserved, answers that tell the truth, everybody answered |
| Rate limiter (case 1) | sorted set `ratelimit:<client>` | the Lua script behind `rate-limit` | stamps come from the nodes' clocks, scripts run late and again | no window sees more than the limit; nobody is denied without cause |
| Job queue (case 2) | hash `job:<id>`, stream `stream:jobs`, consumer group with its pending list | submit, poll, worker loop | several commands per operation and a failure or crash between any two; at-least-once delivery that nobody redelivers | messages shared out, acknowledged only when reported, accepted jobs done |
| Room broadcast (case 3) | per node: room -> sockets; Redis pub/sub subscription | connect, disconnect, chat, `broadcast`, listener | sets that change during a broadcast, subscriptions that drop | whoever is in the room and stays gets the message, once and in order |
| Circuit breaker (case 4) | per node: state, failure count, time of last change | guarded call, status, fault injection | results of concurrent calls settle in any order and in any state, on a clock that may be set | opens on a streak, probes decide, closes again |
| Application start and stop | per node: up, stopping or down | start of the listener, graceful stop, crash | a node that starts without Redis, a stop in the middle of a broadcast, farewells that need Redis | a stop ends, nothing of a dead node stays behind, the others miss nothing |
| Redis clients | connection pools, the subscription | connect, subscribe again, resend | lost replies, lost subscriptions | modelled with the commands they carry |
| Health and cluster info, nginx, containers, demo scripts | - | - | - | not modelled, see the end |

Components meet only in Redis: the API nodes of case 1 through the lock and
stock keys, API nodes and workers of case 2 through hash and stream, the nodes
of case 3 through channels. No component of one case calls another case.

## Modules

| Module | What it is |
|---|---|
| `Inventory` | what the purchases promise: each takes effect at one instant |
| `Purchase` | the lock, the purchases and the endpoints, with faults, crashes and time |
| `MCPurchase` | instances of `Purchase` |
| `Purchase_proofs` | exclusion, conservation, releases, answers, what a fault costs, the refinement of `Inventory` |
| `RateLimiter`, `MCRateLimiter`, `RateLimiter_proofs` | the sliding window, its instances, its bound and its denials |
| `CircuitBreaker`, `CircuitBreaker_proofs` | the breaker and its proofs (TLC runs the module itself) |
| `WorkQueue` | what the job queue promises: at-most-once delivery |
| `JobQueue` | submission and workers (TLC runs the module itself) |
| `JobQueue_proofs`, `JobQueue_refinement` | its safety, and that it implements `WorkQueue` |
| `Channel`, `Channel_proofs` | what the room promises its clients, and what that is worth |
| `RoomBroadcast`, `MCRoomBroadcast` | nodes, sockets, publications, listeners and broadcasts, and an instance |
| `RoomBroadcast_proofs`, `RoomBroadcast_refinement` | its safety, and that it implements `Channel` |

### Purchase

A request is identified with its lock token. Its control is `pc`: `idle`,
`acquire` (the retry loop), `read` and `write` (the critical section around
`get_inventory` and the write), `release`, `done`, `dead`. One Redis command with
its reply is one step, since nothing of the request happens in between. Every
command can also fail before Redis runs it (`AcquireFails`, `BodyFails`,
`ReleaseFails`) or run and lose its reply (`...ReplyLost`); the drivers then
either send it again (all three do: redis-py retries, ioredis resends
unfulfilled commands, Lettuce replays them) or raise. Error paths are those of
the source: the exception skips or passes through the `finally` that releases,
and each endpoint's catch clauses choose the HTTP status (`FastReply`,
`NestReply`, `SpringReply`). The quantity checks differ as well
(`FastQuantity`, `NestQuantity`, `SpringQuantity`): NestJS lets a negative one
through.

`Inventory` is what a buyer can count on: a request keeps the quantity it asked
for (`Ask`), and at one instant either exactly that leaves a stock that covers it
(`Sell`) or the stock does not cover it (`Refuse`). `Purchase` implements it when
all take the lock (`Linearizable`): `asked` is `quantity`, so that a write of a
stale stock, which takes another amount out of what Redis holds, is no step of it.

Time is `Tick`: it runs down the key's TTL and counts how long each critical
section lasts. `HoldBound` bounds the latter; the code bounds it only by the
10 ms it sleeps plus two round trips, against a TTL of 5 s. Everything that
needs `HoldBound < TTL` says so.

### RateLimiter

`CheckRateLimit` stamps a request with a node clock that is up to `SlowBy`
behind or `FastBy` ahead of Redis; `Answered` and `ReplyLost` run the script
(`SlidingWindow`) at most `MaxDelay` later. `Tick` forgets the key when its
`EXPIRE` is due. Three history variables record when requests were let through.

### CircuitBreaker

`Call` is the check before the call, `Settle` the result after it. In FastAPI
and NestJS these are single steps of an event loop with the call between them;
Spring holds the breaker's monitor throughout (`MonitorFree`). `GetState` is the
read behind NestJS's and Spring's answers, which moves the state on. The open
time is measured by the node's wall clock, which may be set at any moment
(`ClockStep`): `elapsed` is the true time since the stamp was taken, `drift` how
far the clock has strayed since, at most `MaxSkew` either way, and the code
compares their sum with the recovery timeout. `Restamp` takes a new stamp.

### JobQueue

The hash's `status`, the stream, the group's position (`delivered`), the pending
list (`pel`), and per worker its `wpc` and the `batch` it holds. Each command of
`enqueue_job` and of the worker's loop is an action, with its failure beside it.
FastAPI's worker process dies of an uncaught error, the others return to
polling (`Abandon`). FastAPI and NestJS read one message at a time, Spring all
there are (`ReadSize`). NestJS works on jobs only where `RUN_WORKER` is set to `true`,
which its compose file never does; the model is of a node on which it is.

`WorkQueue` is the queue a client of the system can count on: a job is known
before its message can be seen, the messages wait in one line, each is in the
hands of one worker at most, ever, and only that worker reports on the job; a
message may be lost. `JobQueue` implements it (`DeliversAtMostOnce`): the line is
the part of the stream behind the group's position (`Waiting`), the hands are the
jobs of the batches (`InHand`). The pending list has no counterpart, because
nobody reads it.

### RoomBroadcast

One room; rooms share nothing. Per socket `pc` says where its endpoint stands
(`new`, `joining`, `open`, `leaving`, `done`) and `alive` whether its client is
still there; per node `rooms` is its set of sockets, `inbox` what Redis has
pushed to it, `link` whether it is subscribed. A broadcast under way is a record
of `casts`: the sockets it has yet to visit, the size of the set when it began,
the sends that failed. `Take` starts one and `Send` is one socket of it. In
FastAPI joins and leaves come between two sends, because each is awaited; the
iteration raises when the size has changed (`Intact`, `BreakCast`), goes on
when as many left as came, and then may meet anybody, since Python may have
rebuilt the set (`Rewalks`). NestJS sends to everybody in the step that takes the
message. Spring has any number of broadcasts at once, and its walk ends with an
exception that nobody there catches (`ThrowCast`) when it sends to a session that
another walk is sending to, or that has been closed, by the client or by the server,
since `isOpen` was asked. An endpoint of FastAPI's ends without leaving its room on
every error but a disconnect (`EndpointError`): a publication that fails, which is
one of the faults, or what `receive_text` raises for a binary frame or for a socket on
which a send has failed before (`ReceiveFails`), which takes no fault at all.

`MaxPublished` messages are followed. In a node that stops, the endpoints' notices
and farewells beyond that are answered but reach nobody (`PublishUnfollowed`), so that
the bound never holds up a stop.

A node is `up`, `stopping` or `down`. `StartNode` is the start with a
subscription, `StartDeaf` the one without: FastAPI and NestJS log the failure and serve
all the same, while Spring's context does not start without its listener
container. `StopNode` is the server's stop signal: uvicorn closes the
connections and waits for the endpoints, whose farewells are still published,
and only then runs the end of `lifespan` (`HaltNode`), which cancels the reader
wherever it is. Spring's listener container stops first and hears nothing more;
that Tomcat still accepts connections for a moment is merged into the same step.
NestJS never enables its shutdown hooks, so `onModuleDestroy` does not run on a
signal and a stop is a crash. `CrashNode` is a container that is killed. Either
way the process takes rooms, inbox and broadcasts with it (`Forget`). That closing
the Redis pool may fail at the end changes nothing any more.

`Channel` is the room as its clients see it: per client the messages that are on
their way to him and those that he has got. Nodes listen or do not when
something is published (`Publish`); clients come and go (`Join`, `Leave`); a
node hands one message to some of its members (`HandOut`), NestJS to all of
them at once; FastAPI may give one up that was disturbed, Spring one that was on
its way to a client who has left or who has another one coming (`GiveUp`);
a lost subscription takes the same messages from all clients of a node (`Cut`).
Who is there misses nothing otherwise. `RoomBroadcast` implements it
(`KeepsChannel`): on its way to a client is what waits in his node's inbox and
what a broadcast that has yet to visit him carries (`OnTheWay`). Somebody who has
not joined may still find himself in any broadcast under way. Rooms, sizes, failed
sends, links and the nodes' lives have no counterpart.

## Runs

| Run | Checks | Bounds |
|---|---|---|
| `purchase` | `MutualExclusion`, `StockConserved`, `RepliesAreHonest`, `PurchasesOnlyTake`, `EveryPurchaseAnswered`, `OrphanLockExpires`, refinement `Linearizable` | all implementations, two requests on two nodes, two attempts, TTL 2, sections of at most 1, one fault, crashes of either node |
| `purchase_open` | `NoUnitVanishes`, `OneSalePerFault`, `OnlyOwnerReleases` | all implementations, three requests, safe and unsafe, sections of up to twice the TTL, one reset of the stock at any moment, one fault |
| `purchase_nest` | violation of `BusyMeansNotSold` | NestJS, one fault |
| `rate_limiter` | `RateBounded`, `DenialsJustified` | four requests, limit 2, window 4, clock error 1, delay 1, one lost reply, time up to 7 |
| `rate_limiter_skew` | violation of `RateExact` | as above, no delay, no fault |
| `circuit_breaker` | `CountMatchesState`, `OpensAfterStreak`, `FreshProbeDecides`, `Recovers`, `CutsOff` | all implementations, three callers, threshold 2, timeout 4, latency 2, clock off by at most 1, count up to 5 |
| `circuit_breaker_probe` | violation of `OneProbe` | FastAPI and NestJS, two callers |
| `job_queue` | `HeldOnce`, `FastApiQueuesAccepted`, `NothingLostWithoutFault`, `OneLossPerFault`, `AcknowledgedIsSettled`, `SettledStays`, `JobsFinish`, refinement `DeliversAtMostOnce` | all implementations, two jobs, two workers, one fault |
| `job_queue_crash` | violation of `AcceptedJobsFinish` | FastAPI, one fault |
| `job_queue_swallow` | violation of `AcceptedIsQueued` | NestJS and Spring, one fault |
| `room_broadcast` | `MembersGetMessages`, `ChannelOrder`, `AtMostOnce`, `RoomsMatchEndpoints`, `MessagesAreHandled`, `StopsInTheEnd`, refinement `KeepsChannel` | all implementations, two clients of one node that starts and stops, two messages, one fault or crash; 511,376 states |
| `room_loss` | violation of `EveryMemberGetsMessages` | FastAPI, two clients of one node, one message, no fault |

Why the bounds are enough: two requests on two nodes are contention, a lost race and
a crash of either side; the third request of `purchase_open` takes the lock that
expired while two others are still inside or late. Three callers of the breaker are
one late result and two probes; a timeout of 4 is the least that exceeds the latency
of 2 and the skew of 1, so that every call admitted before the circuit opened is
over when it is half-open, with nothing to spare. Four requests against a limit of
two overlap two windows. Two jobs and two workers give batches, duplicates and a
survivor. Two clients of one node and two messages are what it takes to change a set
under its walk, to change it back to its old size, to overtake and to clash, and one
message is enough for a stop with an endpoint that has joined to have a walk under
way and a farewell to publish; another node is another listener of the same channel,
and what its clients publish is `BroadcastViaHttp`. The node may start, stop and
start again without bound; its crash is the one fault. The fault of `purchase_open`
may hit the write or the release of a holder whose lock has passed to one of the
other two. One fault is what the error paths distinguish, and with it one loss is
allowed and a second one shows; a second fault only repeats them, except where a
property names two (`AcknowledgedIsSettled`, whose exception for the failed update
to FAILED is reached with one, because FastAPI's task can raise by itself).

`CHECK_DEADLOCK FALSE` stands in the configurations whose system may stop: all
requests answered or dead, all jobs done, the clock at its bound.

### What the violations show

- `purchase_nest`: NestJS answers 429 "please retry" also when the write or the
  release failed after the stock was taken.
- `rate_limiter_skew`: the stamps come from the nodes' clocks, so the global
  limit of `docs/02-distributed-patterns.md` (line 48) is not exact.
- `circuit_breaker_probe`: a half-open circuit lets every call through;
  `docs/02-distributed-patterns.md` (line 136) allows one.
- `job_queue_crash`: pending messages are never read again, so `XACK` does not
  guarantee completion as `docs/01-architecture.md` (line 87) has it.
- `job_queue_swallow`: NestJS and Spring swallow the error of XADD.
- `room_loss`: in FastAPI a client that leaves (or joins) while a message is
  handed out makes the walk raise, and clients that stay go without it;
  `docs/03-hands-on-guide.md` (line 137) and `docs/02-distributed-patterns.md`
  (line 110) promise it to everybody who is connected. With `Frameworks =
  {"spring"}` and a third client the same property fails for Spring: a session that
  closes between `isOpen` (`WebSocketChatHandler.java`, line 94) and the send
  (line 96) raises an `IllegalStateException`, and only `IOException` is caught.
  For NestJS it holds (`NestServesAll`).

The exceptions that `MembersGetMessages`, `AtMostOnce` and `KeepsChannel` name are
these: in FastAPI a join or a leave during a broadcast makes the clients that were
not visited yet miss the message, or, more rarely, a client get it twice; in
Spring a broadcast ends when it meets a session that has been closed, or that
another broadcast is sending to. Each broadcast that goes this way is on record
(`disturbed`), and whatever is not on record must arrive.

Two statements of the code's own docs are settled by theorems and not by runs.
`lock_service.py` (line 93) promises that exactly one request at a time enters the
critical section; the key is set with a TTL and never renewed, so that this needs
sections shorter than the TTL (`Exclusion`; with `HoldBound = TTL` TLC finds two
inside). `router.py` (line 89) of case 1 says that the unsafe route oversells,
with a negative stock as an example. It oversells, but the stock does not show it: every
purchase compares what it read with its quantity and writes the difference, which
is never negative (`NotNegative`), the second write of two undoes the first, and
what can be relied on is that no unit is lost (`NoUnitVanishes`).

## Fairness

- `Purchase`: weak fairness of each request's steps (its coroutine or thread is
  scheduled and its drivers time out) and of time. Nothing is assumed of arrivals,
  crashes or resets.
- `CircuitBreaker`: calls keep coming (`Recovers` is about a circuit somebody uses:
  it only leaves OPEN on a call or a status read), calls under way end, time passes.
  The clock may be set again and again.
- `JobQueue`: a submission under way goes on and live workers keep polling. Nothing
  is assumed of `Restart`: no compose file has a restart policy. `JobsFinish`
  therefore needs the bounds of its run, one fault and two workers, to leave a
  worker alive.
- `RoomBroadcast`: a node's process goes on, with its listener or, once its
  endpoints have ended, with its stop; an endpoint notices in the end that its
  client is gone, and its join and farewell are answered, also beyond the bound when
  its node stops. Nothing is assumed of clients, publications, starts and stops, or
  of a lost subscription coming back.

## Proofs

| Theorem | Assumes | Says |
|---|---|---|
| `Purchase_proofs!TypeCorrect` | - | `TypeOK` and `AttemptsLeft` |
| `Purchase_proofs!Exclusion` | `HoldBound < TTL` | `MutualExclusion` |
| `Purchase_proofs!ReleaseIsOwn` | - | `OnlyOwnerReleases` |
| `Purchase_proofs!Conservation` | `HoldBound < TTL`, safe route only, no reset during a section | `StockConserved` |
| `Purchase_proofs!Linearizes` | as `Conservation` | `Linearizable`: `Purchase` implements `Inventory` |
| `Purchase_proofs!OnlyTake` | as `Conservation` | `PurchasesOnlyTake` |
| `Purchase_proofs!HonestReplies` | - | `RepliesAreHonest` |
| `Purchase_proofs!BusyNotSold` | FastAPI or Spring | `BusyMeansNotSold` |
| `Purchase_proofs!NotNegative` | - | `StockNotNegative`: the stock is never below zero, unless it is set so |
| `Purchase_proofs!UnitsStay` | - | `NoUnitVanishes` |
| `Purchase_proofs!FaultsCostOneSale` | - | `OneSalePerFault` |
| `RateLimiter_proofs!TypeCorrect` | - | `TypeOK` |
| `RateLimiter_proofs!RateLimited` | - | `RateBounded` |
| `RateLimiter_proofs!RateIsExact` | `Slack = 0`: equal clocks, no delay | `RateExact` |
| `RateLimiter_proofs!DenialsFollowAdmissions` | - | `DenialsJustified` |
| `CircuitBreaker_proofs!TypeCorrect` | - | `TypeOK` |
| `CircuitBreaker_proofs!StateMatchesCount` | - | `CountMatchesState` |
| `CircuitBreaker_proofs!OpensOnStreak` | - | `OpensAfterStreak` |
| `CircuitBreaker_proofs!ProbesDecide` | `MaxLatency + MaxSkew < RecoveryTimeout` | `FreshProbeDecides` |
| `CircuitBreaker_proofs!SpringProbesOnce` | Spring | `OneProbe` |
| `JobQueue_proofs!TypeCorrect` | - | `TypeOK` |
| `JobQueue_proofs!SharedOut` | - | `HeldOnce` |
| `JobQueue_proofs!FastApiQueues` | - | `FastApiQueuesAccepted` |
| `JobQueue_proofs!AcknowledgedSettled` | - | `AcknowledgedIsSettled` |
| `JobQueue_proofs!StaysSettled` | - | `SettledStays` |
| `JobQueue_proofs!NothingLost` | - | `NothingLostWithoutFault` |
| `JobQueue_proofs!QueuedUntilFault` | - | `AcceptedIsQueued` while `faults = 0` |
| `JobQueue_proofs!FaultsCostOneJob` | - | `OneLossPerFault` |
| `JobQueue_refinement!Refines` | - | `DeliversAtMostOnce`: `JobQueue` implements `WorkQueue` |
| `RoomBroadcast_proofs!TypeCorrect` | - | `TypeOK` |
| `RoomBroadcast_proofs!SocketsLeave` | - | `RoomsMatchEndpoints` |
| `RoomBroadcast_proofs!OrderedDelivery` | - | `ChannelOrder` |
| `RoomBroadcast_proofs!DeliveredOnce` | - | `AtMostOnce` |
| `RoomBroadcast_proofs!MembersServed` | - | `MembersGetMessages` |
| `RoomBroadcast_proofs!NestServesAll` | NestJS | `EveryMemberGetsMessages` |
| `RoomBroadcast_refinement!Implements` | - | `KeepsChannel`: `RoomBroadcast` implements `Channel` |
| `Channel_proofs!KeepsOrder` | - | `InOrder`, of `Channel` |
| `Channel_proofs!HandsOutOnce` | - | `Once`, of `Channel` |
| `Channel_proofs!MissesNothing` | - | `NothingMissed`, of `Channel` |

They hold for every number of requests, nodes, clients, callers, jobs, workers,
messages, retries and faults and every value of the time constants that meets the
modules' assumptions.

Exclusion. `MutualExclusion` is not inductive: it says nothing of the key that
keeps others out. `HolderOwnsLock` does: whoever is inside owns the key, and the
key's remaining TTL and the time spent inside add up to the full TTL. With
`held <= HoldBound < TTL` the key cannot have expired, and two owners of one key
are the same request.

Conservation. On top of it, `WriterSawStock`: a writer still has in hand what
Redis holds, unless its write already ran, and then Redis holds the difference.
Exclusion keeps the other requests from changing the stock meanwhile. A write
sent twice is harmless because it writes a value and not a difference.

The inventory implemented. The write that reaches Redis first is the sale and the
reading that finds too little is the refusal; everything else is a stutter. That the
sale takes its quantity out of the stock of that moment, which must cover it, is
`WriterSawStock` once more; that no request has two verdicts is `RequestOK`, the
invariant of a single request: whoever has not written has sold nothing and has no
outcome, whoever writes saw enough, an answer is final. `RequestOK` needs no lock,
so that `RepliesAreHonest`, `StockNotNegative` and `NoUnitVanishes` hold for holders
as slow as one likes and on both routes. For the last, `UnitsInv` also bounds what a
writer that has read, and not yet written, will leave behind. `OnlyTake` adds that
FastAPI and Spring let no quantity below one through (`AllBuy`).

What a fault costs a buyer. Between the error and the answer a sale passes through
the release, so that counting answers alone is not inductive. `Unconfirmed` counts a
sale as soon as its request holds an error that will be answered, and `ConfirmInv`
that there are no more of these than faults. No step touches another request's
sale (`OthersKept`), none without a fault makes its own unconfirmed
(`FaultlessConfirms`): a write that succeeds leads to a 200 also when the
script then finds the key in other hands. Here no lock is needed either.

The rate limiter. A request let through stays in the sorted set until a script
whose stamp is at least a window ahead removes it or the key expires; both are
more than `Window - Slack` ticks after it was let through. So everything let
through in a span of that length is in the set when the next one is counted. The
denials are the converse: only requests that were let through are ever in the
set (a denied one is not added), and what a script leaves there was let through
at most `Window + Slack` ticks ago. Without slack, which only clocks and delays
make, the bound is the exact limit (`RateIsExact`).

The breaker. `TypeOK` and `CountMatchesState` are inductive together.
`ProbesDecide` also needs that a call still running when the circuit becomes
half-open was admitted after it opened: it would be older than `MaxLatency`
otherwise. A clock set forward by `MaxSkew` shortens the wait by as much, whence
the skew in the assumption.

The job queue. `HeldInv` is `TypeOK`, `HeldOnce` and that each worker goes through
its batch in the order of the stream: what a read hands out lies behind the
group's position, where nobody has been. `KnownInv` says that the hash is there
before the message and past `PENDING` once a worker has reported. `OnceInv` says
that a job with one message is settled only by that message: as long as the
message is waiting or in the hands of a worker that has not reported, the job is
not settled. Acknowledgements and settled jobs follow. `NothingLost` adds `Clean`
under `faults = 0`: every message that was handed out is settled or in somebody's
hands, and every accepted job has a message (`QueuedUntilFault`).

What a fault costs the queue. `Stranded` spares the job that a worker still holds, also
one on which it will not report any more: when the update to FAILED fails, the job
is beyond help before the worker lets go of it. `Lost` counts from that moment,
and `LossInv` bounds what is lost by the faults. FastAPI and NestJS hold one message
at a time (`OneByOne`), so that one step can lose one job at most, the submitter's
(`SubmitLoses`), the worker's (`WorkLoses`) or the next of the stream
(`ReadLoses`), and only a step with a fault loses any (`StepLoses`).

The refinement of `WorkQueue` maps every command to a step of the abstract queue
or to none. A group that is created moves the line only in Spring, where it starts
at the end of the stream; XREADGROUP moves the head of the line into a worker's
hands, or skips it when its reply is lost; HSET of a status is the report of
whoever holds the job; XACK changes nothing that the abstract queue sees;
finishing a message, giving up a batch and a crash drop it from the hands. That a
report needs a job that is known and under way is `KnownInv`.

The room broadcast. The types are proved in five parts, one for each kind of state
(`ClusterOK`, `SocketsOK`, `CastsOK`, `HistoryOK`, `DownOK`). `ChannelInv` adds
what the order rests on: what is in an inbox is newer than everything its
listener has taken (`AheadOK`), broadcasts go to sockets that have joined
(`WalkOK`), nobody is ahead of the one broadcast of a FastAPI node (`OrderOK`),
and who has yet to be visited has not got the message (`OnceOK`). `MembersInv`
follows each message from its publication: it is in the inbox of the member's
node, or in a broadcast that has yet to visit the member, or there (`DueOK`), for
which present members must be in their rooms (`PresentOK`) and an undisturbed
walk of FastAPI's must find the set at its first size (`SizeOK`), so that it is
not broken off. `RoomOK` says where a socket may be in a room: it is not there before it
joins and while it takes its leave, and after that in FastAPI only, its client
closed. With `PresentOK` that is `RoomsMatchEndpoints`. In NestJS nothing is ever on
record as disturbed (`NestUndisturbed`), whence `NestServesAll`.

The channel implemented. `MembersInv` is what the refinement needs as well. A
message is on its way to a client in one place only, because the inbox is newer than
the broadcasts and no two of a node's broadcasts carry the same one (`Apart`): so
the end of a broadcast takes exactly its message from whoever had it coming
(`CastGone`), and a send from one client (`SendWay`). `Take` moves a message from
the inbox to the walk, which nobody who is there can tell, since present members are
in the room (`StartsMaps`); NestJS's hands it out (`NestMaps`). A walk of FastAPI's
ends early only if it is on record as disturbed, by `SizeOK` (`BreakCastMaps`); one
of Spring's ends early because somebody it has yet to visit has left or has another
message coming, both of which the channel sees. A join in FastAPI may put clients
back on the one walk of their node or take them off (`ConnectMaps`), which is the
channel's `Shuffled`; that the repeated message is not older than what they got is
`OrderOK`. What leaves otherwise was on its way to clients that are gone (`Leaves`).

The channel by itself. `ChannelOK` says that what is on its way to a client is not
older than what he has (`Newer`) and not the same, unless it was disturbed
(`Fresh`). From there order and single delivery follow again, in a
specification without rooms, walks or threads: `Channel` is not so weak that
implementing it would mean little. `NothingMissed` is its action property: a member
who stays misses a message by a fault or, outside NestJS, a recorded disturbance.

Only model-checked: liveness (`EveryPurchaseAnswered`, `OrphanLockExpires`,
`Recovers`, `CutsOff`, `JobsFinish`, `MessagesAreHandled`, `StopsInTheEnd`), which
TLAPS cannot prove, and the violations. Five of the latter have a theorem beside
them that says when the violated property does hold: `BusyNotSold`,
`RateIsExact`, `QueuedUntilFault`, `SpringProbesOnce` and `NestServesAll`.

## Plan

The four cases are modelled, each but the rate limiter and the breaker against an
abstract specification, and the safety properties that the passing runs check are
proved, the three refinements among them. Left are the promises of `WorkQueue` in
its own terms, as `Channel_proofs` states them of `Channel`, and Spring's abandoned
batches, which `JobsFinish` and `OneLossPerFault` leave out because the code loses
them.

## Not modelled

In NestJS the publication of a join is not awaited, so a client that goes at once
could be announced after its departure; the model keeps the order. Connection
pools: what a driver does to a command is part of the modules that send it, and
the pools keep nothing else. Health and cluster-info endpoints, which keep no
state. nginx, containers and configuration: in the models any node may serve a
request; a container that comes back is modelled where its state matters (case 3's
nodes, case 2's workers) and otherwise is a new node. Demo and smoke scripts,
tests: clients of the system. The rate limiter's node clocks are within given
bounds. Contents of items, payloads and results: one item and one client stand for
all, since they share no key.
