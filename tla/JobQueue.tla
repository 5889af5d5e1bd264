------------------------------ MODULE JobQueue ------------------------------
(***************************************************************************)
(* Case 2: jobs handed from the API nodes to the workers through a Redis   *)
(* stream with one consumer group.  A job's hash keeps the status clients  *)
(* poll; its message in the stream is what gets it run.  Each command is a *)
(* step of its own, so hash, stream and pending entries list (PEL) drift   *)
(* apart whenever something fails between two commands.  No implementation *)
(* reads the PEL back: XREADGROUP is only ever called with ">".            *)
(***************************************************************************)
EXTENDS Integers, Sequences, FiniteSets

CONSTANTS Frameworks,  \* the implementations considered
          Jobs,        \* the jobs clients submit
          Workers,     \* the consumers of the group
          MaxFaults    \* bound on failed commands, lost replies and crashes

ASSUME FrameworksAssumption == Frameworks \subseteq {"fastapi", "nest", "spring"}
ASSUME BoundAssumption == MaxFaults \in Nat

VARIABLES framework,  \* the implementation that runs; never changes
          submit,     \* where each job's submission stands
          status,     \* status field of the hash job:<id>, "none" when absent
          stream,     \* stream:jobs, the job of each message
          delivered,  \* messages the group has handed out, -1 without a group
          pel,        \* messages delivered and not acknowledged
          wpc,        \* where each worker stands
          batch,      \* messages a worker has read and not finished
          faults      \* faults so far

vars == <<framework, submit, status, stream, delivered, pel, wpc, batch, faults>>
consumer == <<delivered, pel, wpc, batch>>

Init == /\ framework \in Frameworks
        /\ submit = [j \in Jobs |-> "new"]
        /\ status = [j \in Jobs |-> "none"]
        /\ stream = <<>>
        /\ delivered = -1
        /\ pel = {}
        /\ wpc = [w \in Workers |-> "idle"]
        /\ batch = [w \in Workers |-> <<>>]
        /\ faults = 0

Fault == /\ faults < MaxFaults
         /\ faults' = faults + 1

\* Mutant: the group is created without MKSTREAM.
EnsureConsumerGroupNoStream ==
  delivered' = IF delivered # -1 \/ stream = <<>> THEN delivered
               ELSE IF framework = "spring" THEN Len(stream) ELSE 0

\* XGROUP CREATE ... MKSTREAM: FastAPI and NestJS start the group at 0, Spring
\* at the end of the stream; an existing group is left as it is.
EnsureConsumerGroup ==
  delivered' = IF delivered # -1 THEN delivered
               ELSE IF framework = "spring" THEN Len(stream) ELSE 0

-----------------------------------------------------------------------------
(***************************************************************************)
(* enqueue_job, on an API node.                                            *)
(***************************************************************************)
Move(j, to) == submit' = [submit EXCEPT ![j] = to]

\* The group is ensured and the hash written with status PENDING.  NestJS and
\* Spring go on when the group could not be ensured.
WriteHash(j) ==
  /\ submit[j] = "new"
  /\ \/ EnsureConsumerGroup /\ UNCHANGED faults
     \/ framework # "fastapi" /\ Fault /\ UNCHANGED delivered
  /\ status' = [status EXCEPT ![j] = "PENDING"]
  /\ Move(j, "hashed")
  /\ UNCHANGED <<framework, stream, pel, wpc, batch>>

\* The group (FastAPI) or the hash cannot be written, or is written and the
\* reply is lost: the client gets a 500.
WriteHashFails(j) ==
  /\ submit[j] = "new"
  /\ Fault
  /\ Move(j, "refused")
  /\ \/ UNCHANGED <<status, delivered>>
     \/ EnsureConsumerGroup /\ UNCHANGED status
     \/ EnsureConsumerGroup /\ status' = [status EXCEPT ![j] = "PENDING"]
  /\ UNCHANGED <<framework, stream, pel, wpc, batch>>

\* Mutant: the message goes out before the hash is written.
AddToStreamFirst(j) ==
  /\ submit[j] \in {"new", "hashed"}
  /\ stream' = Append(stream, j)
  /\ Move(j, IF submit[j] = "new" THEN "new" ELSE "accepted")
  /\ Len(stream) < 2 * Cardinality(Jobs)
  /\ UNCHANGED <<framework, status, consumer, faults>>

\* XADD: the client gets a 202 and the job's id.
AddToStream(j) ==
  /\ submit[j] = "hashed"
  /\ stream' = Append(stream, j)
  /\ Move(j, "accepted")
  /\ UNCHANGED <<framework, status, consumer, faults>>

\* Mutant: FastAPI swallows the error of XADD as the others do.
AnswerAfterErrorAlwaysAccepted(j) == Move(j, "accepted")

\* FastAPI lets an error of XADD through as a 500; NestJS and Spring swallow
\* it and accept the job.
AnswerAfterError(j) ==
  Move(j, IF framework = "fastapi" THEN "refused" ELSE "accepted")

AddFails(j) ==
  /\ submit[j] = "hashed"
  /\ Fault
  /\ AnswerAfterError(j)
  /\ UNCHANGED <<framework, status, stream, consumer>>

\* XADD runs and its reply is lost: the driver sends it again, which adds a
\* second message, or raises.
AddReplyLost(j) ==
  /\ submit[j] = "hashed"
  /\ Fault
  /\ stream' = Append(stream, j)
  /\ \/ UNCHANGED submit
     \/ AnswerAfterError(j)
  /\ UNCHANGED <<framework, status, consumer>>

\* The API node dies before it answers.
ApiCrash(j) ==
  /\ submit[j] \in {"new", "hashed"}
  /\ Fault
  /\ Move(j, "crashed")
  /\ UNCHANGED <<framework, status, stream, consumer>>

-----------------------------------------------------------------------------
(***************************************************************************)
(* A worker.                                                               *)
(***************************************************************************)

\* The message a worker is at, and its job.
Current(w) == Head(batch[w])
CurrentJob(w) == stream[Current(w)]

\* What an uncaught error leaves of a worker: FastAPI's process ends, NestJS
\* and Spring come back to read the next messages.  The batch is forgotten.
Abandon(w) ==
  /\ wpc' = [wpc EXCEPT ![w] = IF framework = "fastapi" THEN "dead" ELSE "idle"]
  /\ batch' = [batch EXCEPT ![w] = <<>>]

Goto(w, to) == /\ wpc' = [wpc EXCEPT ![w] = to]
               /\ UNCHANGED batch

\* Mutant: FastAPI and NestJS read all there are as well (COUNT left out).
ReadSizeAll == Len(stream) - delivered

\* XREADGROUP >, one message (FastAPI, NestJS) or all there are (Spring).
ReadSize == IF framework = "spring" THEN Len(stream) - delivered ELSE 1

Numbers(from, n) == [i \in 1..n |-> from + i]

\* Mutant: the group hands out from the start every time.
DeliverAgain(n) ==
  /\ pel' = pel \cup {i \in 1..Len(stream) : i <= n}
  /\ delivered' = n

\* The group hands the next n messages to one consumer and keeps them pending.
Deliver(n) ==
  /\ pel' = pel \cup {i \in 1..Len(stream) : delivered < i /\ i <= delivered + n}
  /\ delivered' = delivered + n

ReadGroup(w) ==
  /\ wpc[w] = "idle"
  /\ delivered \in 0 .. Len(stream) - 1
  /\ Deliver(ReadSize)
  /\ batch' = [batch EXCEPT ![w] = Numbers(delivered, ReadSize)]
  /\ wpc' = [wpc EXCEPT ![w] = "start"]
  /\ UNCHANGED <<framework, submit, status, stream, faults>>

\* A worker that finds no group creates it.
CreateGroup(w) ==
  /\ wpc[w] = "idle"
  /\ delivered = -1
  /\ EnsureConsumerGroup
  /\ UNCHANGED <<framework, submit, status, stream, pel, wpc, batch, faults>>

\* The messages are delivered and the reply is lost: the driver reads on with
\* the next ones, or the worker sees an error.
ReadReplyLost(w) ==
  /\ wpc[w] = "idle"
  /\ delivered \in 0 .. Len(stream) - 1
  /\ Fault
  /\ Deliver(ReadSize)
  /\ \/ UNCHANGED <<wpc, batch>>
     \/ Abandon(w)
  /\ UNCHANGED <<framework, submit, status, stream>>

SetStatus(w, s) == status' = [status EXCEPT ![CurrentJob(w)] = s]

\* update_job_status PROCESSING.
StartJob(w) ==
  /\ wpc[w] = "start"
  /\ SetStatus(w, "PROCESSING")
  /\ Goto(w, "work")
  /\ UNCHANGED <<framework, submit, stream, delivered, pel, faults>>

\* That update, or FastAPI's reading of the job after it, fails: nothing
\* catches it and the message stays pending.
StartFails(w) ==
  /\ wpc[w] = "start"
  /\ Fault
  /\ \/ UNCHANGED status
     \/ SetStatus(w, "PROCESSING")
  /\ Abandon(w)
  /\ UNCHANGED <<framework, submit, stream, delivered, pel>>

\* The task itself.  FastAPI's process_task can raise; NestJS reads the job
\* inside the try, so a failed read makes it FAILED as well.
RunTask(w) ==
  /\ wpc[w] = "work"
  /\ \/ Goto(w, "complete") /\ UNCHANGED faults
     \/ framework = "fastapi" /\ Goto(w, "fail") /\ UNCHANGED faults
     \/ framework = "nest" /\ Goto(w, "fail") /\ Fault
  /\ UNCHANGED <<framework, submit, status, stream, delivered, pel>>

\* update_job_status COMPLETED.
CompleteJob(w) ==
  /\ wpc[w] = "complete"
  /\ SetStatus(w, "COMPLETED")
  /\ Goto(w, "ack")
  /\ UNCHANGED <<framework, submit, stream, delivered, pel, faults>>

\* Mutant: the error of the update is swallowed and the message acknowledged.
CompleteFailsAcknowledged(w) ==
  /\ wpc[w] = "complete"
  /\ Fault
  /\ UNCHANGED status
  /\ Goto(w, "ack")
  /\ UNCHANGED <<framework, submit, stream, delivered, pel>>

\* It fails, before or after Redis ran it: FastAPI and NestJS report the job
\* FAILED next, Spring abandons the batch.
CompleteFails(w) ==
  /\ wpc[w] = "complete"
  /\ Fault
  /\ \/ UNCHANGED status
     \/ SetStatus(w, "COMPLETED")
  /\ IF framework = "spring" THEN Abandon(w) ELSE Goto(w, "fail")
  /\ UNCHANGED <<framework, submit, stream, delivered, pel>>

\* update_job_status FAILED; when it fails as well, before or after Redis ran
\* it, the message is acknowledged all the same and the error goes on from there.
FailJob(w) ==
  /\ wpc[w] = "fail"
  /\ \/ SetStatus(w, "FAILED") /\ Goto(w, "ack") /\ UNCHANGED faults
     \/ Fault /\ Goto(w, "ack_raise") /\ (UNCHANGED status \/ SetStatus(w, "FAILED"))
  /\ UNCHANGED <<framework, submit, stream, delivered, pel>>

\* Mutants: the batch is not advanced; the worker returns after one message.
FinishKeepsBatch(w) ==
  /\ wpc' = [wpc EXCEPT ![w] = IF Len(batch[w]) = 1 THEN "idle" ELSE "start"]
  /\ UNCHANGED batch

FinishStops(w) ==
  /\ batch' = [batch EXCEPT ![w] = Tail(@)]
  /\ wpc' = [wpc EXCEPT ![w] = IF Len(batch[w]) = 1 THEN "dead" ELSE "start"]

\* On to the next message of the batch, or back to polling.
Finish(w) ==
  /\ batch' = [batch EXCEPT ![w] = Tail(@)]
  /\ wpc' = [wpc EXCEPT ![w] = IF Len(batch[w]) = 1 THEN "idle" ELSE "start"]

\* XACK.
Acknowledge(w) ==
  /\ wpc[w] \in {"ack", "ack_raise"}
  /\ pel' = pel \ {Current(w)}
  /\ IF wpc[w] = "ack" THEN Finish(w) ELSE Abandon(w)
  /\ UNCHANGED <<framework, submit, status, stream, delivered, faults>>

AcknowledgeFails(w) ==
  /\ wpc[w] \in {"ack", "ack_raise"}
  /\ Fault
  /\ pel' \in {pel, pel \ {Current(w)}}
  /\ Abandon(w)
  /\ UNCHANGED <<framework, submit, status, stream, delivered>>

\* The worker's process dies: with the container, or (FastAPI) by the error of
\* a poll.  Nothing restarts it; somebody may.
Crash(w) ==
  /\ wpc[w] # "dead"
  /\ Fault
  /\ wpc' = [wpc EXCEPT ![w] = "dead"]
  /\ batch' = [batch EXCEPT ![w] = <<>>]
  /\ UNCHANGED <<framework, submit, status, stream, delivered, pel>>

Restart(w) ==
  /\ wpc[w] = "dead"
  /\ wpc' = [wpc EXCEPT ![w] = "idle"]
  /\ UNCHANGED <<framework, submit, status, stream, delivered, pel, batch, faults>>

-----------------------------------------------------------------------------
Submit(j) == WriteHash(j) \/ AddToStream(j)

SubmitFault(j) == WriteHashFails(j) \/ AddFails(j) \/ AddReplyLost(j) \/ ApiCrash(j)

Work(w) == \/ ReadGroup(w) \/ CreateGroup(w)
           \/ StartJob(w) \/ RunTask(w) \/ CompleteJob(w) \/ FailJob(w)
           \/ Acknowledge(w)

WorkFault(w) == \/ ReadReplyLost(w) \/ StartFails(w) \/ CompleteFails(w)
                \/ AcknowledgeFails(w) \/ Crash(w)

Next == \/ \E j \in Jobs : Submit(j) \/ SubmitFault(j)
        \/ \E w \in Workers : Work(w) \/ WorkFault(w) \/ Restart(w)

Spec == Init /\ [][Next]_vars

\* A submission under way goes on and a live worker keeps polling.  No compose
\* file has a restart policy, so nothing is assumed of Restart.
Fairness == /\ \A j \in Jobs : WF_vars(Submit(j))
            /\ \A w \in Workers : WF_vars(Work(w))

FairSpec == Spec /\ Fairness

-----------------------------------------------------------------------------
(***************************************************************************)
(* Properties.                                                             *)
(***************************************************************************)
Messages == 1..Len(stream)
Held(w) == {batch[w][i] : i \in 1..Len(batch[w])}
Settled(j) == status[j] \in {"COMPLETED", "FAILED"}
MessagesOf(j) == {m \in Messages : stream[m] = j}

TypeOK ==
  /\ framework \in Frameworks
  /\ submit \in [Jobs -> {"new", "hashed", "accepted", "refused", "crashed"}]
  /\ status \in [Jobs -> {"none", "PENDING", "PROCESSING", "COMPLETED", "FAILED"}]
  /\ stream \in Seq(Jobs)
  /\ delivered \in -1..Len(stream)
  /\ pel \subseteq 1..delivered
  /\ wpc \in [Workers -> {"idle", "start", "work", "complete", "fail", "ack",
                          "ack_raise", "dead"}]
  /\ batch \in [Workers -> Seq(Messages)]
  /\ \A w \in Workers : (batch[w] = <<>>) <=> (wpc[w] \in {"idle", "dead"})
  /\ faults \in Nat

\* The group shares the messages out: no two workers ever hold the same one,
\* and none is held that is not pending, whatever failed before.
HeldOnce ==
  /\ \A w1, w2 \in Workers : w1 # w2 => Held(w1) \cap Held(w2) = {}
  /\ \A w \in Workers : Held(w) \subseteq pel

\* A job that FastAPI accepted is in the stream; NestJS and Spring accept jobs
\* whose XADD failed.
AcceptedIsQueued == \A j \in Jobs : submit[j] = "accepted" => MessagesOf(j) # {}
FastApiQueuesAccepted == framework = "fastapi" => AcceptedIsQueued

\* Nothing is on its way to run the job any more: every message of it was
\* handed out or skipped, and no worker holds one.
Stranded(j) ==
  /\ \A m \in MessagesOf(j) : m <= delivered
  /\ \A m \in MessagesOf(j), w \in Workers : m \notin Held(w)

\* Without a fault no accepted job is lost between hash, stream and group.
NothingLostWithoutFault ==
  \A j \in Jobs :
    submit[j] = "accepted" /\ Stranded(j) /\ ~Settled(j) => faults > 0

\* A fault costs FastAPI and NestJS at most the one job it strikes: whatever
\* piles up, no more accepted jobs are lost than things went wrong.  Spring can
\* lose a whole batch to one fault, and what the stream held before the group.
LostJobs == {j \in Jobs : submit[j] = "accepted" /\ Stranded(j) /\ ~Settled(j)}
OneLossPerFault == framework # "spring" => Cardinality(LostJobs) <= faults

\* A message is acknowledged only once its job's outcome can be read.  The
\* exceptions are the code's: the update to FAILED failed as well and `finally`
\* acknowledges all the same, or XADD was repeated and another worker is at it.
AcknowledgedIsSettled ==
  [][\A m \in pel \ pel' :
       \/ Settled(stream[m])
       \/ Cardinality(MessagesOf(stream[m])) > 1
       \/ \E w \in Workers : wpc[w] = "ack_raise" /\ Current(w) = m]_vars

\* A settled job is not taken up again unless XADD was repeated; its status may
\* still turn from COMPLETED to FAILED when the reply of that update is lost.
SettledStays ==
  [][\A j \in Jobs : Settled(j) /\ Cardinality(MessagesOf(j)) = 1 => Settled(j)']_vars

\* With a worker left alive, every accepted job is run and reported unless a
\* fault strands it; faults never hold up the jobs they do not strand.
JobsFinish ==
  \A j \in Jobs : submit[j] = "accepted" ~> (Settled(j) \/ Stranded(j))

\* What a worker that reads and a client that polls can count on: hash, stream,
\* group and workers together are a queue that delivers at most once.
Waiting == IF delivered = -1 THEN stream
           ELSE SubSeq(stream, delivered + 1, Len(stream))
InHand == [w \in Workers |-> [i \in DOMAIN batch[w] |-> stream[batch[w][i]]]]

Queue == INSTANCE WorkQueue WITH queue <- Waiting, hands <- InHand

\* A worker finds the hash of every job whose message it reads, no message is
\* handed out twice, and only its holder changes the status the client polls.
DeliversAtMostOnce == Queue!Spec

\* Whatever is accepted gets done: the docs promise that XACK guarantees it.
AcceptedJobsFinish == \A j \in Jobs : submit[j] = "accepted" ~> Settled(j)
=============================================================================
