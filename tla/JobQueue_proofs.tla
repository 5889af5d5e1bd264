-------------------------- MODULE JobQueue_proofs --------------------------
(***************************************************************************)
(* Proofs about the job queue, for any number of jobs, workers and faults. *)
(***************************************************************************)
EXTENDS JobQueue, TLAPS, FiniteSetTheorems, SequenceTheorems

\* A worker goes through its messages in the order of the stream.
BatchesAscend ==
  \A w \in Workers : \A i, k \in 1..Len(batch[w]) :
    i < k => batch[w][i] < batch[w][k]

HeldInv == TypeOK /\ HeldOnce /\ BatchesAscend

-----------------------------------------------------------------------------
\* The rest of a sequence.
LEMMA TailType ==
  ASSUME NEW S, NEW s \in Seq(S), s # <<>>
  PROVE  /\ Len(s) \in Nat \ {0} /\ Tail(s) \in Seq(S) /\ Len(Tail(s)) = Len(s) - 1
         /\ \A i \in 1 .. Len(s) - 1 : Tail(s)[i] = s[i + 1]
         /\ (Tail(s) = <<>>) <=> (Len(s) = 1)
<1>1. Len(s) \in Nat \ {0}
  BY EmptySeq
<1>2. /\ Tail(s) \in Seq(S) /\ Len(Tail(s)) = Len(s) - 1
      /\ \A i \in 1 .. Len(Tail(s)) : Tail(s)[i] = s[i + 1]
  BY HeadTailProperties
<1>3. (Tail(s) = <<>>) <=> (Len(Tail(s)) = 0)
  BY <1>2, EmptySeq
<1>4. QED
  BY <1>1, <1>2, <1>3

\* What a worker reads is a run of consecutive messages.
LEMMA NumbersType ==
  ASSUME NEW from \in Nat, NEW n \in Nat
  PROVE  /\ Numbers(from, n) \in Seq(from + 1 .. from + n)
         /\ Len(Numbers(from, n)) = n
         /\ \A i \in 1..n : Numbers(from, n)[i] = from + i
<1>1. \A i \in 1..n : from + i \in from + 1 .. from + n
  OBVIOUS
<1>2. QED
  BY <1>1 DEF Numbers

\* The group, once there, starts within the stream.
LEMMA EnsureType ==
  ASSUME TypeOK, EnsureConsumerGroup
  PROVE  delivered' \in -1..Len(stream) /\ delivered <= delivered'
BY DEF EnsureConsumerGroup, TypeOK

\* Appending a message keeps everything that was there.
LEMMA AppendEffect ==
  ASSUME stream \in Seq(Jobs), NEW j \in Jobs, stream' = Append(stream, j)
  PROVE  /\ stream' \in Seq(Jobs) /\ Len(stream') = Len(stream) + 1
         /\ \A m \in Messages : stream'[m] = stream[m]
         /\ stream'[Len(stream')] = j
         /\ Messages \subseteq Messages'
BY DEF Messages

LEMMA SubmitType ==
  ASSUME TypeOK, NEW j \in Jobs, Submit(j) \/ SubmitFault(j)
  PROVE  TypeOK'
<1> USE BoundAssumption
<1>1. ASSUME WriteHash(j) PROVE TypeOK'
  BY <1>1, EnsureType DEF WriteHash, TypeOK, Move, Fault, Messages
<1>2. ASSUME WriteHashFails(j) PROVE TypeOK'
  BY <1>2, EnsureType DEF WriteHashFails, TypeOK, Move, Fault, Messages
<1>3. ASSUME stream' = Append(stream, j), UNCHANGED <<framework, status, consumer>>,
             faults' \in Nat, submit' \in [Jobs -> {"new", "hashed", "accepted", "refused", "crashed"}]
      PROVE  TypeOK'
  <2>1. batch' \in [Workers -> Seq(Messages')]
    BY <1>3, AppendEffect, SeqMonotonic DEF TypeOK, consumer
  <2>2. QED
    BY <1>3, <2>1, AppendEffect DEF TypeOK, consumer
<1>4. ASSUME AddToStream(j) PROVE TypeOK'
  BY <1>3, <1>4 DEF AddToStream, Move, TypeOK, consumer
<1>5. ASSUME AddFails(j) PROVE TypeOK'
  BY <1>5 DEF AddFails, AnswerAfterError, Move, TypeOK, Fault, consumer, Messages
<1>6. ASSUME AddReplyLost(j) PROVE TypeOK'
  <2>1. submit' \in [Jobs -> {"new", "hashed", "accepted", "refused", "crashed"}]
    BY <1>6 DEF AddReplyLost, AnswerAfterError, Move, TypeOK
  <2>2. QED
    BY <1>3, <1>6, <2>1 DEF AddReplyLost, TypeOK, Fault, consumer
<1>7. ASSUME ApiCrash(j) PROVE TypeOK'
  BY <1>7 DEF ApiCrash, Move, TypeOK, Fault, consumer, Messages
<1>8. QED
  BY <1>1, <1>2, <1>4, <1>5, <1>6, <1>7 DEF Submit, SubmitFault

LEMMA ReadType ==
  ASSUME TypeOK, NEW w \in Workers,
         ReadGroup(w) \/ CreateGroup(w) \/ ReadReplyLost(w)
  PROVE  TypeOK'
<1>1. ASSUME wpc[w] = "idle", delivered \in 0 .. Len(stream) - 1
      PROVE  /\ ReadSize \in 1 .. Len(stream) - delivered
             /\ Numbers(delivered, ReadSize) \in Seq(Messages)
             /\ Len(Numbers(delivered, ReadSize)) = ReadSize
             /\ Numbers(delivered, ReadSize) # <<>>
  <2>1. ReadSize \in 1 .. Len(stream) - delivered
    BY <1>1 DEF ReadSize, TypeOK
  <2>2. delivered + 1 .. delivered + ReadSize \subseteq Messages
    BY <1>1, <2>1 DEF Messages, TypeOK
  <2>3. /\ Numbers(delivered, ReadSize) \in Seq(delivered + 1 .. delivered + ReadSize)
        /\ Len(Numbers(delivered, ReadSize)) = ReadSize
    <3>1. delivered \in Nat /\ ReadSize \in Nat
      BY <1>1, <2>1 DEF TypeOK
    <3>2. QED
      BY <3>1, NumbersType
  <2>4. Numbers(delivered, ReadSize) \in Seq(Messages)
    BY <2>2, <2>3, SeqMonotonic
  <2>5. QED
    BY <2>1, <2>3, <2>4
<1>2. ASSUME Deliver(ReadSize), wpc[w] = "idle", delivered \in 0 .. Len(stream) - 1,
             stream' = stream
      PROVE  delivered' \in -1..Len(stream') /\ pel' \subseteq 1..delivered'
  <2>1. /\ delivered \in Nat /\ ReadSize \in Nat /\ Len(stream) \in Nat
        /\ delivered + ReadSize <= Len(stream)
    BY <1>1, <1>2 DEF TypeOK
  <2>2. \A i \in pel : i \in 1..delivered
    BY DEF TypeOK
  <2>3. delivered' = delivered + ReadSize
    BY <1>2 DEF Deliver
  <2>4. \A i \in pel' : i \in 1..delivered'
    BY <1>2, <2>1, <2>2, <2>3 DEF Deliver
  <2>5. QED
    BY <1>2, <2>1, <2>3, <2>4
<1>3. ASSUME ReadGroup(w) PROVE TypeOK'
  <2>1. /\ batch' = [batch EXCEPT ![w] = Numbers(delivered, ReadSize)]
        /\ wpc' = [wpc EXCEPT ![w] = "start"]
        /\ UNCHANGED <<framework, submit, status, stream, faults>>
    BY <1>3 DEF ReadGroup
  <2>2. delivered' \in -1..Len(stream') /\ pel' \subseteq 1..delivered'
    BY <1>2, <1>3 DEF ReadGroup
  <2>3. batch' \in [Workers -> Seq(Messages')]
    BY <1>1, <1>3, <2>1 DEF ReadGroup, TypeOK, Messages
  <2>4. \A v \in Workers : (batch'[v] = <<>>) <=> (wpc'[v] \in {"idle", "dead"})
    BY <1>1, <1>3, <2>1 DEF ReadGroup, TypeOK
  <2>5. QED
    BY <2>1, <2>2, <2>3, <2>4 DEF TypeOK
<1>4. ASSUME CreateGroup(w) PROVE TypeOK'
  BY <1>4, EnsureType DEF CreateGroup, TypeOK, Messages
<1>5. ASSUME ReadReplyLost(w) PROVE TypeOK'
  <2>1. delivered' \in -1..Len(stream') /\ pel' \subseteq 1..delivered'
    BY <1>2, <1>5 DEF ReadReplyLost
  <2>2. UNCHANGED <<framework, submit, status, stream>> /\ faults' = faults + 1
    BY <1>5 DEF ReadReplyLost, Fault
  <2>3. CASE UNCHANGED <<wpc, batch>>
    BY <2>1, <2>2, <2>3 DEF TypeOK, Messages
  <2>4. CASE Abandon(w)
    BY <2>1, <2>2, <2>4 DEF Abandon, TypeOK, Messages
  <2>5. QED
    BY <1>5, <2>3, <2>4 DEF ReadReplyLost
<1>6. QED
  BY <1>3, <1>4, <1>5

\* A worker's own steps: what it holds shrinks from the front or is dropped.
LEMMA FinishType ==
  ASSUME TypeOK, NEW w \in Workers, Finish(w), wpc[w] \notin {"idle", "dead"}
  PROVE  /\ batch' \in [Workers -> Seq(Messages)]
         /\ wpc' \in [Workers -> {"idle", "start", "work", "complete", "fail", "ack",
                                  "ack_raise", "dead"}]
         /\ \A v \in Workers : (batch'[v] = <<>>) <=> (wpc'[v] \in {"idle", "dead"})
<1>1. batch[w] \in Seq(Messages) /\ batch[w] # <<>>
  BY DEF TypeOK
<1>2. /\ Tail(batch[w]) \in Seq(Messages)
      /\ (Tail(batch[w]) = <<>>) <=> (Len(batch[w]) = 1)
  BY <1>1, TailType
<1>3. QED
  BY <1>2 DEF Finish, TypeOK

LEMMA AbandonType ==
  ASSUME TypeOK, NEW w \in Workers, Abandon(w)
  PROVE  /\ batch' \in [Workers -> Seq(Messages)]
         /\ wpc' \in [Workers -> {"idle", "start", "work", "complete", "fail", "ack",
                                  "ack_raise", "dead"}]
         /\ \A v \in Workers : (batch'[v] = <<>>) <=> (wpc'[v] \in {"idle", "dead"})
BY DEF Abandon, TypeOK

LEMMA StatusType ==
  ASSUME TypeOK, NEW w \in Workers, wpc[w] \notin {"idle", "dead"},
         NEW s \in {"PROCESSING", "COMPLETED", "FAILED"}, SetStatus(w, s)
  PROVE  status' \in [Jobs -> {"none", "PENDING", "PROCESSING", "COMPLETED", "FAILED"}]
BY DEF SetStatus, TypeOK

LEMMA JobType ==
  ASSUME TypeOK, NEW w \in Workers,
         \/ StartJob(w) \/ RunTask(w) \/ CompleteJob(w) \/ FailJob(w) \/ Acknowledge(w)
         \/ StartFails(w) \/ CompleteFails(w) \/ AcknowledgeFails(w)
         \/ Crash(w) \/ Restart(w)
  PROVE  TypeOK'
<1>1. ASSUME UNCHANGED <<framework, submit, stream, delivered>>, pel' \subseteq pel,
             faults' \in {faults, faults + 1},
             status' = status \/ \E s \in {"PROCESSING", "COMPLETED", "FAILED"} : SetStatus(w, s),
             wpc[w] \notin {"idle", "dead"},
             \/ Abandon(w) \/ Finish(w)
             \/ \E to \in {"work", "complete", "fail", "ack", "ack_raise"} : Goto(w, to)
      PROVE  TypeOK'
  <2>1. status' \in [Jobs -> {"none", "PENDING", "PROCESSING", "COMPLETED", "FAILED"}]
    BY <1>1, StatusType DEF TypeOK
  <2>2. /\ batch' \in [Workers -> Seq(Messages)]
        /\ wpc' \in [Workers -> {"idle", "start", "work", "complete", "fail", "ack",
                                 "ack_raise", "dead"}]
        /\ \A v \in Workers : (batch'[v] = <<>>) <=> (wpc'[v] \in {"idle", "dead"})
    <3>1. CASE Abandon(w)
      BY <3>1, AbandonType
    <3>2. CASE Finish(w)
      BY <1>1, <3>2, FinishType
    <3>3. ASSUME NEW to \in {"work", "complete", "fail", "ack", "ack_raise"}, Goto(w, to)
          PROVE  <2>2!1 /\ <2>2!2 /\ <2>2!3
      BY <1>1, <3>3 DEF Goto, TypeOK
    <3>4. QED
      BY <1>1, <3>1, <3>2, <3>3
  <2>3. QED
    BY <1>1, <2>1, <2>2 DEF TypeOK, Messages
<1>2. ASSUME StartJob(w) PROVE TypeOK'
  BY <1>1, <1>2 DEF StartJob
<1>3. ASSUME RunTask(w) PROVE TypeOK'
  BY <1>1, <1>3 DEF RunTask, Fault
<1>4. ASSUME CompleteJob(w) PROVE TypeOK'
  BY <1>1, <1>4 DEF CompleteJob
<1>5. ASSUME FailJob(w) PROVE TypeOK'
  BY <1>1, <1>5 DEF FailJob, Fault
<1>6. ASSUME Acknowledge(w) PROVE TypeOK'
  BY <1>1, <1>6 DEF Acknowledge
<1>7. ASSUME StartFails(w) PROVE TypeOK'
  BY <1>1, <1>7 DEF StartFails, Fault
<1>8. ASSUME CompleteFails(w) PROVE TypeOK'
  BY <1>1, <1>8 DEF CompleteFails, Fault
<1>9. ASSUME AcknowledgeFails(w) PROVE TypeOK'
  BY <1>1, <1>9 DEF AcknowledgeFails, Fault
<1>10. ASSUME Crash(w) PROVE TypeOK'
  BY <1>10 DEF Crash, Fault, TypeOK, Messages
<1>11. ASSUME Restart(w) PROVE TypeOK'
  BY <1>11 DEF Restart, TypeOK, Messages
<1>12. QED
  BY <1>2, <1>3, <1>4, <1>5, <1>6, <1>7, <1>8, <1>9, <1>10, <1>11

LEMMA TypeStep == TypeOK /\ [Next]_vars => TypeOK'
<1> SUFFICES ASSUME TypeOK, [Next]_vars PROVE TypeOK'
  OBVIOUS
<1>1. CASE UNCHANGED vars
  BY <1>1 DEF vars, TypeOK, Messages
<1>2. QED
  BY <1>1, SubmitType, ReadType, JobType DEF Next, Work, WorkFault

-----------------------------------------------------------------------------
(***************************************************************************)
(* Who holds which message.                                                *)
(***************************************************************************)

\* What a worker holds is one of the messages delivered to it.
LEMMA HeldType ==
  ASSUME TypeOK, NEW w \in Workers
  PROVE  /\ Len(batch[w]) \in Nat
         /\ \A i \in 1..Len(batch[w]) : batch[w][i] \in Messages /\ batch[w][i] \in Held(w)
         /\ wpc[w] \notin {"idle", "dead"} =>
              /\ Len(batch[w]) > 0 /\ Current(w) = batch[w][1]
              /\ Current(w) \in Held(w) /\ Current(w) \in Messages
              /\ CurrentJob(w) \in Jobs
<1>1. batch[w] \in Seq(Messages)
  BY DEF TypeOK
<1>2. Len(batch[w]) \in Nat /\ \A i \in 1..Len(batch[w]) : batch[w][i] \in Messages
  BY <1>1, LenProperties, ElementOfSeq
<1>3. \A i \in 1..Len(batch[w]) : batch[w][i] \in Held(w)
  BY DEF Held
<1>4. ASSUME wpc[w] \notin {"idle", "dead"}
      PROVE  /\ Len(batch[w]) > 0 /\ Current(w) = batch[w][1]
             /\ Current(w) \in Held(w) /\ Current(w) \in Messages
             /\ CurrentJob(w) \in Jobs
  <2>1. batch[w] # <<>>
    BY <1>4 DEF TypeOK
  <2>2. Len(batch[w]) > 0
    BY <1>1, <2>1, EmptySeq
  <2>3. Current(w) = batch[w][1]
    BY DEF Current
  <2>4. QED
    BY <1>2, <1>3, <2>2, <2>3, ElementOfSeq DEF CurrentJob, TypeOK, Messages
<1>5. QED
  BY <1>2, <1>3, <1>4

\* Finishing a message leaves the rest of the batch, one place further on.
LEMMA FinishEffect ==
  ASSUME HeldInv, NEW w \in Workers, wpc[w] \notin {"idle", "dead"}, Finish(w)
  PROVE  /\ Len(batch'[w]) = Len(batch[w]) - 1
         /\ \A i \in 1..Len(batch'[w]) : i + 1 \in 1..Len(batch[w])
                                       /\ batch'[w][i] = batch[w][i + 1]
         /\ Held(w)' = Held(w) \ {Current(w)}
<1>1. batch[w] \in Seq(Messages) /\ batch[w] # <<>> /\ batch'[w] = Tail(batch[w])
  BY DEF Finish, HeldInv, TypeOK
<1>2. /\ Len(batch[w]) \in Nat \ {0} /\ Len(batch'[w]) = Len(batch[w]) - 1
      /\ \A i \in 1 .. Len(batch[w]) - 1 : batch'[w][i] = batch[w][i + 1]
  BY <1>1, TailType
<1>3. \A i \in 2..Len(batch[w]) : batch[w][i] # Current(w)
  <2>1. /\ 1 \in 1..Len(batch[w])
        /\ \A i \in 2..Len(batch[w]) : i \in 1..Len(batch[w]) /\ batch[w][i] \in Int
        /\ batch[w][1] \in Int
    BY <1>2, HeldType DEF HeldInv, Messages
  <2>2. QED
    BY <2>1 DEF HeldInv, BatchesAscend, Current
<1>4. ASSUME NEW m \in Held(w), m # Current(w) PROVE m \in Held(w)'
  <2>1. PICK i \in 1..Len(batch[w]) : batch[w][i] = m
    BY DEF Held
  <2>2. i # 1
    BY <1>4, <2>1 DEF Current
  <2>3. i - 1 \in 1..Len(batch'[w]) /\ batch'[w][i - 1] = m
    BY <1>2, <2>1, <2>2
  <2>4. QED
    BY <2>3 DEF Held
<1>5. ASSUME NEW m \in Held(w)' PROVE m \in Held(w) /\ m # Current(w)
  <2>1. PICK i \in 1..Len(batch'[w]) : batch'[w][i] = m
    BY <1>5 DEF Held
  <2>2. i + 1 \in 2..Len(batch[w]) /\ i + 1 \in 1..Len(batch[w]) /\ batch[w][i + 1] = m
    BY <1>2, <2>1
  <2>3. QED
    BY <1>3, <2>2 DEF Held
<1>6. QED
  BY <1>2, <1>4, <1>5

LEMMA AbandonEffect ==
  ASSUME TypeOK, NEW w \in Workers, Abandon(w)
  PROVE  Len(batch'[w]) = 0 /\ Held(w)' = {} /\ \A v \in Workers \ {w} : batch'[v] = batch[v]
BY DEF Abandon, Held, TypeOK

\* A read hands out messages that nobody has seen.
LEMMA ReadEffect ==
  ASSUME TypeOK, NEW w \in Workers, ReadGroup(w)
  PROVE  /\ ReadSize \in 1 .. Len(stream) - delivered
         /\ Len(batch'[w]) = ReadSize
         /\ \A i \in 1..ReadSize : batch'[w][i] = delivered + i
         /\ Held(w)' = delivered + 1 .. delivered + ReadSize
         /\ pel' = pel \cup (delivered + 1 .. delivered + ReadSize)
         /\ \A v \in Workers \ {w} : batch'[v] = batch[v]
<1>1. /\ ReadSize \in 1 .. Len(stream) - delivered
      /\ delivered \in Nat /\ ReadSize \in Nat /\ Len(stream) \in Nat
  BY DEF ReadGroup, ReadSize, TypeOK
<1>2. batch'[w] = Numbers(delivered, ReadSize) /\ \A v \in Workers \ {w} : batch'[v] = batch[v]
  BY DEF ReadGroup, TypeOK
<1>3. Len(batch'[w]) = ReadSize /\ \A i \in 1..ReadSize : batch'[w][i] = delivered + i
  BY <1>1, <1>2, NumbersType
<1>4. ASSUME NEW m \in delivered + 1 .. delivered + ReadSize PROVE m \in Held(w)'
  <2>1. m - delivered \in 1..ReadSize /\ batch'[w][m - delivered] = m
    BY <1>1, <1>3
  <2>2. QED
    BY <1>3, <2>1 DEF Held
<1>5. Held(w)' \subseteq delivered + 1 .. delivered + ReadSize
  BY <1>1, <1>3 DEF Held
<1>6. pel' = pel \cup (delivered + 1 .. delivered + ReadSize)
  BY <1>1 DEF ReadGroup, Deliver
<1>7. QED
  BY <1>1, <1>2, <1>3, <1>4, <1>5, <1>6

\* A worker that holds less, and only lets go of what it does not hold, leaves
\* the shares of the others alone.
LEMMA HeldShrinks ==
  ASSUME HeldInv, NEW w \in Workers,
         \A v \in Workers \ {w} : batch'[v] = batch[v],
         Held(w)' \subseteq Held(w) \cap pel',
         \A m \in pel \ pel' : m \in Held(w)
  PROVE  HeldOnce'
<1>1. \A v \in Workers \ {w} : Held(v)' = Held(v)
  BY DEF Held
<1>2. \A v \in Workers : Held(v)' \subseteq Held(v)
  BY <1>1
<1>3. \A v \in Workers \ {w} : Held(v) \cap Held(w) = {} /\ Held(v) \subseteq pel
  BY DEF HeldInv, HeldOnce
<1>4. \A v \in Workers : Held(v)' \subseteq pel'
  BY <1>1, <1>3
<1>5. \A u, v \in Workers : u # v => Held(u)' \cap Held(v)' = {}
  BY <1>2 DEF HeldInv, HeldOnce
<1>6. QED
  BY <1>4, <1>5 DEF HeldOnce

\* The messages handed out by a read go to one worker.
LEMMA HeldRead ==
  ASSUME HeldInv, NEW w \in Workers, ReadGroup(w)
  PROVE  HeldOnce' /\ BatchesAscend'
<1>1. /\ Held(w)' = delivered + 1 .. delivered + ReadSize
      /\ pel' = pel \cup Held(w)'
      /\ \A v \in Workers \ {w} : Held(v)' = Held(v)
  BY ReadEffect DEF HeldInv, Held
<1>2. \A v \in Workers \ {w} : Held(v)' \cap Held(w)' = {}
  <2>1. \A v \in Workers \ {w} : Held(v) \subseteq 1..delivered
    BY DEF HeldInv, HeldOnce, TypeOK
  <2>2. QED
    BY <1>1, <2>1 DEF HeldInv, TypeOK
<1>3. HeldOnce'
  BY <1>1, <1>2 DEF HeldInv, HeldOnce
<1>4. BatchesAscend'
  <2>1. \A i, k \in 1..Len(batch'[w]) : i < k => batch'[w][i] < batch'[w][k]
    BY ReadEffect DEF HeldInv, TypeOK
  <2>2. QED
    BY <2>1, ReadEffect DEF HeldInv, BatchesAscend
<1>5. QED
  BY <1>3, <1>4

LEMMA HeldStep == HeldInv /\ [Next]_vars => HeldInv'
<1> SUFFICES ASSUME HeldInv, [Next]_vars PROVE HeldInv'
  OBVIOUS
<1>1. TypeOK'
  BY TypeStep DEF HeldInv
<1>2. ASSUME batch' = batch, pel \subseteq pel' PROVE HeldOnce' /\ BatchesAscend'
  <2>1. \A w \in Workers : Held(w)' = Held(w)
    BY <1>2 DEF Held
  <2>2. HeldOnce'
    BY <1>2, <2>1 DEF HeldInv, HeldOnce
  <2>3. BatchesAscend'
    BY <1>2 DEF HeldInv, BatchesAscend
  <2>4. QED
    BY <2>2, <2>3
<1>3. ASSUME NEW j \in Jobs, Submit(j) \/ SubmitFault(j) PROVE HeldOnce' /\ BatchesAscend'
  <2>1. CASE WriteHash(j) \/ WriteHashFails(j)
    BY <1>2, <2>1 DEF WriteHash, WriteHashFails
  <2>2. CASE AddToStream(j) \/ AddFails(j)
    BY <1>2, <2>2 DEF AddToStream, AddFails, consumer
  <2>3. CASE AddReplyLost(j) \/ ApiCrash(j)
    BY <1>2, <2>3 DEF AddReplyLost, ApiCrash, consumer
  <2>4. QED
    BY <1>3, <2>1, <2>2, <2>3 DEF Submit, SubmitFault
<1>4. ASSUME NEW w \in Workers, Abandon(w), \A m \in pel \ pel' : m \in Held(w)
      PROVE  HeldOnce' /\ BatchesAscend'
  <2>1. HeldOnce'
    BY <1>4, AbandonEffect, HeldShrinks DEF HeldInv
  <2>2. BatchesAscend'
    BY <1>4, AbandonEffect DEF HeldInv, BatchesAscend
  <2>3. QED
    BY <2>1, <2>2
<1>5. ASSUME NEW w \in Workers, Finish(w), wpc[w] \notin {"idle", "dead"},
             pel' = pel \ {Current(w)}
      PROVE  HeldOnce' /\ BatchesAscend'
  <2>1. \A v \in Workers \ {w} : batch'[v] = batch[v]
    BY <1>5 DEF Finish, HeldInv, TypeOK
  <2>2. Held(w)' \subseteq Held(w) \cap pel' /\ \A m \in pel \ pel' : m \in Held(w)
    BY <1>5, FinishEffect, HeldType DEF HeldInv, HeldOnce
  <2>3. HeldOnce'
    BY <2>1, <2>2, HeldShrinks
  <2>4. \A i, k \in 1..Len(batch'[w]) : i < k => batch'[w][i] < batch'[w][k]
    BY <1>5, FinishEffect DEF HeldInv, BatchesAscend
  <2>5. QED
    BY <2>1, <2>3, <2>4 DEF HeldInv, BatchesAscend
<1>6. ASSUME NEW w \in Workers, ReadReplyLost(w) PROVE HeldOnce' /\ BatchesAscend'
  <2>1. pel \subseteq pel'
    BY <1>6 DEF ReadReplyLost, Deliver
  <2>2. CASE Abandon(w)
    BY <1>4, <2>1, <2>2
  <2>3. CASE UNCHANGED <<wpc, batch>>
    BY <1>2, <2>1, <2>3
  <2>4. QED
    BY <1>6, <2>2, <2>3 DEF ReadReplyLost
<1>7. ASSUME NEW w \in Workers, Acknowledge(w) \/ AcknowledgeFails(w)
      PROVE  HeldOnce' /\ BatchesAscend'
  <2>1. wpc[w] \in {"ack", "ack_raise"} /\ Current(w) \in Held(w)
    BY <1>7, HeldType DEF Acknowledge, AcknowledgeFails, HeldInv
  <2>2. QED
    BY <1>4, <1>5, <1>7, <2>1 DEF Acknowledge, AcknowledgeFails
<1>8. ASSUME NEW w \in Workers, StartFails(w) \/ CompleteFails(w)
      PROVE  HeldOnce' /\ BatchesAscend'
  BY <1>2, <1>4, <1>8 DEF StartFails, CompleteFails, Goto
<1>9. ASSUME NEW w \in Workers, Crash(w) PROVE HeldOnce' /\ BatchesAscend'
  <2>1. Len(batch'[w]) = 0 /\ \A v \in Workers \ {w} : batch'[v] = batch[v]
    BY <1>9 DEF Crash, HeldInv, TypeOK
  <2>2. HeldOnce'
    <3>1. Held(w)' = {}
      BY <2>1 DEF Held
    <3>2. QED
      BY <1>9, <2>1, <3>1, HeldShrinks DEF Crash
  <2>3. QED
    BY <2>1, <2>2 DEF HeldInv, BatchesAscend
<1>10. ASSUME NEW w \in Workers,
              \/ CreateGroup(w) \/ StartJob(w) \/ RunTask(w) \/ CompleteJob(w)
              \/ FailJob(w) \/ Restart(w)
       PROVE  HeldOnce' /\ BatchesAscend'
  BY <1>2, <1>10 DEF CreateGroup, StartJob, RunTask, CompleteJob, FailJob, Restart, Goto
<1>11. CASE UNCHANGED vars
  BY <1>1, <1>2, <1>11 DEF vars, HeldInv
<1>12. QED
  BY <1>1, <1>3, <1>6, <1>7, <1>8, <1>9, <1>10, <1>11, HeldRead
     DEF Next, Work, WorkFault, HeldInv

LEMMA HeldInit == Init => HeldInv
BY DEF Init, HeldInv, TypeOK, HeldOnce, BatchesAscend, Held, Messages

\* The types of the queue, however many things go wrong: no message number runs
\* past the stream, and a worker has messages in hand exactly while it works.
THEOREM TypeCorrect == Spec => []TypeOK
<1>1. HeldInv => TypeOK
  BY DEF HeldInv
<1>2. QED
  BY <1>1, HeldInit, HeldStep, PTL DEF Spec

\* No message is ever in the hands of two workers.
THEOREM SharedOut == Spec => []HeldOnce
<1>1. HeldInv => HeldOnce
  BY DEF HeldInv
<1>2. QED
  BY <1>1, HeldInit, HeldStep, PTL DEF Spec

-----------------------------------------------------------------------------
(***************************************************************************)
(* What reaches the stream.                                                *)
(***************************************************************************)

\* Workers leave submissions and stream alone, submissions leave workers alone.
LEMMA WorkerFrame ==
  ASSUME NEW w \in Workers, Work(w) \/ WorkFault(w) \/ Restart(w)
  PROVE  UNCHANGED <<framework, submit, stream>>
BY DEF Work, WorkFault, Restart, ReadGroup, CreateGroup, StartJob, RunTask, CompleteJob,
       FailJob, Acknowledge, ReadReplyLost, StartFails, CompleteFails, AcknowledgeFails, Crash

LEMMA SubmitFrame ==
  ASSUME NEW j \in Jobs, Submit(j) \/ SubmitFault(j)
  PROVE  /\ UNCHANGED <<framework, pel, wpc, batch>>
         /\ submit[j] \in {"new", "hashed"}
         /\ submit' = submit \/ \E to \in {"hashed", "accepted", "refused", "crashed"} :
                                  submit' = [submit EXCEPT ![j] = to]
         /\ stream' = stream \/ (submit[j] = "hashed" /\ stream' = Append(stream, j))
<1>1. CASE WriteHash(j)
  BY <1>1 DEF WriteHash, Move
<1>2. CASE WriteHashFails(j)
  BY <1>2 DEF WriteHashFails, Move
<1>3. CASE AddToStream(j)
  BY <1>3 DEF AddToStream, Move, consumer
<1>4. CASE AddFails(j)
  BY <1>4 DEF AddFails, AnswerAfterError, Move, consumer
<1>5. CASE AddReplyLost(j)
  BY <1>5 DEF AddReplyLost, AnswerAfterError, Move, consumer
<1>6. CASE ApiCrash(j)
  BY <1>6 DEF ApiCrash, Move, consumer
<1>7. QED
  BY <1>1, <1>2, <1>3, <1>4, <1>5, <1>6 DEF Submit, SubmitFault

\* No message leaves the stream or changes its job.
LEMMA MessagesStay ==
  ASSUME TypeOK, [Next]_vars
  PROVE  /\ Messages \subseteq Messages'
         /\ \A m \in Messages : stream'[m] = stream[m]
         /\ \A j \in Jobs : MessagesOf(j) \subseteq MessagesOf(j)'
<1>1. stream' = stream \/ \E j \in Jobs : stream' = Append(stream, j)
  BY SubmitFrame, WorkerFrame DEF Next, vars
<1>2. Messages \subseteq Messages' /\ \A m \in Messages : stream'[m] = stream[m]
  BY <1>1, AppendEffect DEF Messages, TypeOK
<1>3. QED
  BY <1>2 DEF MessagesOf

\* FastAPI answers 202 only with the job in the stream, whatever fails.
THEOREM FastApiQueues == Spec => []FastApiQueuesAccepted
<1> DEFINE Inv == TypeOK /\ FastApiQueuesAccepted
<1>1. Init => Inv
  BY HeldInit DEF Init, HeldInv, FastApiQueuesAccepted, AcceptedIsQueued
<1>2. Inv /\ [Next]_vars => Inv'
  <2> SUFFICES ASSUME Inv, [Next]_vars, framework' = "fastapi",
                      NEW j \in Jobs, submit'[j] = "accepted"
               PROVE  MessagesOf(j)' # {}
    BY TypeStep DEF FastApiQueuesAccepted, AcceptedIsQueued
  <2>1. framework = "fastapi"
    BY SubmitFrame, WorkerFrame DEF Next, vars
  <2>2. CASE submit[j] = "accepted"
    BY <2>1, <2>2, MessagesStay DEF FastApiQueuesAccepted, AcceptedIsQueued
  <2>3. CASE submit[j] # "accepted"
    <3>1. Submit(j) \/ SubmitFault(j)
      BY <2>3, SubmitFrame, WorkerFrame DEF Next, vars, TypeOK
    <3>2. stream' = Append(stream, j)
      BY <2>1, <2>3, <3>1 DEF Submit, SubmitFault, WriteHash, WriteHashFails, AddToStream,
         AddFails, AddReplyLost, ApiCrash, AnswerAfterError, Move, TypeOK
    <3>3. Len(stream)' \in Messages' /\ stream'[Len(stream)'] = j
      BY <3>2, AppendEffect DEF Messages, TypeOK
    <3>4. QED
      BY <3>3 DEF MessagesOf
  <2>4. QED
    BY <2>2, <2>3
<1>3. Inv => FastApiQueuesAccepted
  OBVIOUS
<1>4. QED
  BY <1>1, <1>2, <1>3, PTL DEF Spec

-----------------------------------------------------------------------------
(***************************************************************************)
(* Hash and stream.                                                        *)
(***************************************************************************)
Busy == {"start", "work", "complete", "fail", "ack", "ack_raise"}

\* The hash is there before the message, and past PENDING once a worker has
\* reported on the job.
KnownInv ==
  /\ \A j \in Jobs : submit[j] = "new" => status[j] = "none"
  /\ \A j \in Jobs : submit[j] = "hashed" => status[j] # "none"
  /\ \A m \in Messages : status[stream[m]] # "none"
  /\ \A w \in Workers : wpc[w] \in Busy \ {"start"} =>
       status[CurrentJob(w)] \notin {"none", "PENDING"}

\* What a submission does to the hashes.
LEMMA SubmitStatus ==
  ASSUME TypeOK, KnownInv, NEW j \in Jobs, Submit(j) \/ SubmitFault(j)
  PROVE  /\ status' = status \/ (status[j] = "none" /\ status' = [status EXCEPT ![j] = "PENDING"])
         /\ submit'[j] # "new"  \/ UNCHANGED <<submit, status>>
         /\ submit'[j] = "hashed" => status'[j] # "none"
<1>1. CASE WriteHash(j) \/ WriteHashFails(j)
  BY <1>1 DEF WriteHash, WriteHashFails, Move, KnownInv, TypeOK
<1>2. CASE AddToStream(j) \/ AddFails(j) \/ AddReplyLost(j) \/ ApiCrash(j)
  BY <1>2 DEF AddToStream, AddFails, AddReplyLost, ApiCrash, AnswerAfterError, Move, KnownInv,
              TypeOK
<1>3. QED
  BY <1>1, <1>2 DEF Submit, SubmitFault

\* What a worker does: it reads, or it works on its current message.
Reads(w) ==
  /\ UNCHANGED <<status, stream>> /\ wpc[w] = "idle" /\ pel \subseteq pel'
  /\ \/ ReadGroup(w)
     \/ delivered <= delivered' /\ delivered' \in Int /\ (UNCHANGED <<wpc, batch>> \/ Abandon(w))

Starts(w) == /\ wpc[w] = "start" /\ SetStatus(w, "PROCESSING")
             /\ (Goto(w, "work") \/ Abandon(w))

Settles(w) == \E s \in {"COMPLETED", "FAILED"} :
                /\ wpc[w] \in {"complete", "fail"} /\ SetStatus(w, s)
                /\ \/ Abandon(w)
                   \/ \E to \in Busy \ {"start", "work"} : Goto(w, to)

MovesOn(w) == /\ status' = status
              /\ \/ Abandon(w)
                 \/ wpc[w] = "ack" /\ Finish(w)
                 \/ /\ wpc[w] \in Busy \ {"start"}
                    /\ \E to \in Busy \ {"start", "work", "ack"} : Goto(w, to)

Works(w) == /\ UNCHANGED <<stream, delivered>> /\ wpc[w] \in Busy
            /\ Starts(w) \/ Settles(w) \/ MovesOn(w)

Rests(w) == /\ UNCHANGED <<status, stream, delivered, pel>>
            /\ wpc' = [wpc EXCEPT ![w] = IF wpc[w] = "dead" THEN "idle" ELSE "dead"]
            /\ batch' = [batch EXCEPT ![w] = <<>>]

LEMMA WorkerStep ==
  ASSUME TypeOK, NEW w \in Workers, Work(w) \/ WorkFault(w) \/ Restart(w)
  PROVE  Reads(w) \/ Works(w) \/ Rests(w)
<1>1. CASE ReadGroup(w)
  BY <1>1 DEF ReadGroup, Deliver, Reads
<1>2. CASE CreateGroup(w)
  BY <1>2, EnsureType DEF CreateGroup, Reads, TypeOK
<1>3. CASE ReadReplyLost(w)
  BY <1>3 DEF ReadReplyLost, Deliver, Reads, ReadSize, TypeOK
<1>4. CASE StartJob(w) \/ StartFails(w)
  BY <1>4 DEF StartJob, StartFails, Works, Starts, MovesOn, Busy
<1>5. CASE RunTask(w)
  BY <1>5 DEF RunTask, Works, MovesOn, Busy
<1>6. CASE CompleteJob(w) \/ CompleteFails(w)
  BY <1>6 DEF CompleteJob, CompleteFails, Works, Settles, MovesOn, Busy
<1>7. CASE FailJob(w)
  BY <1>7 DEF FailJob, Works, Settles, MovesOn, Busy
<1>8. CASE Acknowledge(w) \/ AcknowledgeFails(w)
  BY <1>8 DEF Acknowledge, AcknowledgeFails, Works, MovesOn, Busy
<1>9. CASE Crash(w)
  BY <1>9 DEF Crash, Rests, TypeOK
<1>10. CASE Restart(w)
  BY <1>10 DEF Restart, Rests, TypeOK
<1>11. QED
  BY <1>1, <1>2, <1>3, <1>4, <1>5, <1>6, <1>7, <1>8, <1>9, <1>10 DEF Work, WorkFault

LEMMA KnownStep == TypeOK /\ KnownInv /\ [Next]_vars => KnownInv'
<1> SUFFICES ASSUME TypeOK, KnownInv, [Next]_vars PROVE KnownInv'
  OBVIOUS
<1>1. ASSUME NEW j \in Jobs, Submit(j) \/ SubmitFault(j) PROVE KnownInv'
  <2>1. /\ UNCHANGED <<wpc, batch>>
        /\ \A k \in Jobs : status[k] # "none" => status'[k] = status[k]
        /\ \A k \in Jobs \ {j} : status'[k] = status[k] /\ submit'[k] = submit[k]
    BY <1>1, SubmitFrame, SubmitStatus DEF TypeOK
  <2>2. /\ \A k \in Jobs : submit'[k] = "new" => status'[k] = "none"
        /\ \A k \in Jobs : submit'[k] = "hashed" => status'[k] # "none"
    BY <1>1, <2>1, SubmitStatus DEF KnownInv
  <2>3. \A m \in Messages' : status'[stream'[m]] # "none"
    <3>1. CASE stream' = stream
      <4>1. \A m \in Messages : status[stream[m]] # "none" /\ stream[m] \in Jobs
        BY DEF KnownInv, Messages, TypeOK
      <4>2. Messages' = Messages
        BY <3>1 DEF Messages
      <4>3. QED
        BY <2>1, <3>1, <4>1, <4>2
    <3>2. CASE submit[j] = "hashed" /\ stream' = Append(stream, j)
      <4>1. \A m \in Messages' : m \in Messages \/ stream'[m] = j
        BY <3>2, AppendEffect DEF Messages, TypeOK
      <4>2. \A m \in Messages : stream'[m] = stream[m] /\ stream[m] \in Jobs
        BY <3>2, AppendEffect DEF Messages, TypeOK
      <4>3. status[j] # "none" /\ \A m \in Messages : status[stream[m]] # "none"
        BY <3>2 DEF KnownInv
      <4>4. status'[j] # "none" /\ \A m \in Messages : status'[stream[m]] # "none"
        BY <2>1, <4>2, <4>3
      <4>5. QED
        BY <4>1, <4>2, <4>4
    <3>3. QED
      BY <1>1, <3>1, <3>2, SubmitFrame
  <2>4. \A w \in Workers : wpc'[w] \in Busy \ {"start"} =>
          status'[CurrentJob(w)'] \notin {"none", "PENDING"}
    <3>1. ASSUME NEW w \in Workers, wpc[w] \in Busy \ {"start"}
          PROVE  CurrentJob(w)' = CurrentJob(w) /\ CurrentJob(w) \in Jobs
      BY <2>1, <3>1, HeldType, MessagesStay DEF CurrentJob, Current, Busy
    <3>2. QED
      BY <2>1, <3>1 DEF KnownInv
  <2>5. QED
    BY <2>2, <2>3, <2>4 DEF KnownInv
<1>2. ASSUME NEW w \in Workers, Work(w) \/ WorkFault(w) \/ Restart(w) PROVE KnownInv'
  <2>1. UNCHANGED <<submit, stream>>
    BY <1>2, WorkerFrame
  <2>2. ASSUME UNCHANGED status,
               \A v \in Workers : wpc'[v] \in Busy \ {"start"} =>
                 wpc[v] \in Busy \ {"start"} /\ batch'[v] = batch[v]
        PROVE  KnownInv'
    BY <2>1, <2>2 DEF KnownInv, Messages, CurrentJob, Current
  <2>3. CASE Reads(w) \/ Rests(w)
    BY <2>2, <2>3 DEF Reads, Rests, ReadGroup, Abandon, Busy, TypeOK
  <2>4. CASE MovesOn(w)
    BY <2>2, <2>4 DEF MovesOn, Abandon, Finish, Goto, Busy, TypeOK
  <2>5. ASSUME NEW s \in {"PROCESSING", "COMPLETED", "FAILED"},
               wpc[w] \in Busy, SetStatus(w, s),
               Abandon(w) \/ \E to \in Busy : Goto(w, to)
        PROVE  KnownInv'
    <3>1. CurrentJob(w) \in Jobs
      BY <2>5, HeldType DEF Busy
    <3>2. /\ status'[CurrentJob(w)] = s
          /\ \A k \in Jobs : k # CurrentJob(w) => status'[k] = status[k]
          /\ \A k \in Jobs : status'[k] # status[k] => status'[k] = s
      BY <2>5, <3>1 DEF SetStatus, TypeOK
    <3>3. submit[CurrentJob(w)] # "new"
      BY <2>5, <3>1, HeldType DEF KnownInv, CurrentJob, Busy
    <3>4. \A v \in Workers \ {w} : wpc'[v] = wpc[v] /\ batch'[v] = batch[v]
      BY <2>5 DEF Abandon, Goto, TypeOK
    <3>5. wpc'[w] \in Busy => batch'[w] = batch[w]
      BY <2>5 DEF Abandon, Goto, Busy, TypeOK
    <3>6. \A v \in Workers : wpc[v] \in Busy => CurrentJob(v) \in Jobs
      BY HeldType DEF Busy
    <3>7. \A v \in Workers : wpc'[v] \in Busy \ {"start"} =>
            status'[CurrentJob(v)'] \notin {"none", "PENDING"}
      BY <2>1, <3>2, <3>4, <3>5, <3>6 DEF KnownInv, CurrentJob, Current
    <3>8. \A m \in Messages : stream[m] \in Jobs
      BY DEF Messages, TypeOK
    <3>9. QED
      BY <2>1, <3>1, <3>2, <3>3, <3>7, <3>8 DEF KnownInv, Messages
  <2>6. QED
    BY <1>2, <2>3, <2>4, <2>5, WorkerStep DEF Works, Starts, Settles, Busy
<1>3. CASE UNCHANGED vars
  BY <1>3 DEF vars, KnownInv, Messages, CurrentJob, Current
<1>4. QED
  BY <1>1, <1>2, <1>3 DEF Next

-----------------------------------------------------------------------------
(***************************************************************************)
(* Outcomes.                                                               *)
(***************************************************************************)

\* XADD was repeated: another message has the same job.
Repeated(m) == \E k \in Messages : k # m /\ stream[k] = stream[m]

\* A job is settled by its message, and by nothing before it.
OnceInv ==
  /\ \A j \in Jobs : Settled(j) => \E m \in Messages : stream[m] = j
  /\ \A m \in Messages : m > delivered /\ ~Repeated(m) => ~Settled(stream[m])
  /\ \A w \in Workers : \A i \in 1..Len(batch[w]) :
       (i > 1 \/ wpc[w] = "start") /\ ~Repeated(batch[w][i])
         => ~Settled(stream[batch[w][i]])
  /\ \A w \in Workers : wpc[w] = "ack" => Settled(CurrentJob(w)) \/ Repeated(Current(w))

OutcomeInv == HeldInv /\ KnownInv /\ OnceInv

\* A submission settles nothing, and repeats at most its own job.
LEMMA OnceSubmit ==
  ASSUME OutcomeInv, NEW j \in Jobs, Submit(j) \/ SubmitFault(j), [Next]_vars
  PROVE  OnceInv'
<1> USE DEF OutcomeInv, HeldInv
<1>1. /\ UNCHANGED <<wpc, batch>>
      /\ \A k \in Jobs : Settled(k)' <=> Settled(k)
  BY SubmitFrame, SubmitStatus DEF Settled, TypeOK
<1>2. /\ Messages \subseteq Messages' /\ \A m \in Messages : stream'[m] = stream[m]
      /\ \A m \in Messages : stream[m] \in Jobs
  BY MessagesStay DEF Messages, TypeOK
<1>3. \A m \in Messages : Repeated(m) => Repeated(m)'
  BY <1>2 DEF Repeated
<1>4. \A m \in Messages' \ Messages : stream'[m] = j
  BY SubmitFrame, AppendEffect DEF Messages, TypeOK
<1>5. delivered <= delivered' /\ delivered \in Int /\ delivered' \in Int
  <2>1. delivered' = delivered \/ EnsureConsumerGroup
    BY DEF Submit, SubmitFault, WriteHash, WriteHashFails, AddToStream, AddFails, AddReplyLost,
           ApiCrash, consumer
  <2>2. QED
    BY <2>1, EnsureType DEF TypeOK
<1>6. \A k \in Jobs : Settled(k)' => \E m \in Messages' : stream'[m] = k
  BY <1>1, <1>2 DEF OnceInv
<1>7. \A m \in Messages' : m > delivered' /\ ~Repeated(m)' => ~Settled(stream[m])'
  <2>1. ASSUME NEW m \in Messages, m > delivered', ~Repeated(m)' PROVE ~Settled(stream[m])'
    BY <1>1, <1>2, <1>3, <1>5, <2>1 DEF OnceInv, Messages, Settled
  <2>2. ASSUME NEW m \in Messages' \ Messages, ~Repeated(m)' PROVE ~Settled(stream[m])'
    <3>1. stream'[m] = j
      BY <1>4, <2>2
    <3>2. \A k \in Messages : stream[k] # j
      BY <1>2, <2>2, <3>1 DEF Repeated
    <3>3. ~Settled(j)'
      BY <1>1, <3>2 DEF OnceInv
    <3>4. QED
      BY <3>1, <3>3 DEF Settled
  <2>3. QED
    BY <2>1, <2>2
<1>8. \A w \in Workers : \A i \in 1..Len(batch[w]) : batch[w][i] \in Messages
  BY HeldType
<1>9. \A w \in Workers : \A i \in 1..Len(batch'[w]) :
        (i > 1 \/ wpc'[w] = "start") /\ ~Repeated(batch[w][i])'
          => ~Settled(stream[batch[w][i]])'
  BY <1>1, <1>2, <1>3, <1>8 DEF OnceInv, Repeated, Settled
<1>10. \A w \in Workers : wpc'[w] = "ack" => Settled(CurrentJob(w))' \/ Repeated(Current(w))'
  <2>1. \A w \in Workers : wpc[w] = "ack" => Current(w) \in Messages /\ CurrentJob(w) \in Jobs
    BY HeldType
  <2>2. \A w \in Workers : Current(w)' = Current(w)
    BY <1>1 DEF Current
  <2>3. QED
    BY <1>1, <1>2, <1>3, <2>1, <2>2 DEF OnceInv, CurrentJob, Repeated, Settled
<1>11. QED
  BY <1>6, <1>7, <1>9, <1>10 DEF OnceInv

\* The messages of a worker: none is undelivered or another's, and only the
\* current one is the first of the batch.
LEMMA OwnMessages ==
  ASSUME HeldInv, NEW w \in Workers, wpc[w] \in Busy
  PROVE  /\ Current(w) \in Messages /\ CurrentJob(w) \in Jobs /\ Current(w) <= delivered
         /\ \A m \in Messages : m # Current(w) /\ stream[m] = CurrentJob(w)
              => Repeated(m) /\ Repeated(Current(w))
         /\ \A v \in Workers : \A i \in 1..Len(batch[v]) :
              batch[v][i] = Current(w) => v = w /\ i = 1
<1>1. /\ Current(w) \in Messages /\ CurrentJob(w) \in Jobs /\ Current(w) \in Held(w)
      /\ Len(batch[w]) > 0 /\ Len(batch[w]) \in Nat /\ Current(w) = batch[w][1]
  BY HeldType DEF HeldInv, Busy
<1>2. Current(w) <= delivered
  <2>1. Current(w) \in pel
    BY <1>1 DEF HeldInv, HeldOnce
  <2>2. Current(w) \in 1..delivered
    BY <2>1 DEF HeldInv, TypeOK
  <2>3. QED
    BY <2>2 DEF HeldInv, TypeOK
<1>3. ASSUME NEW v \in Workers, NEW i \in 1..Len(batch[v]), batch[v][i] = Current(w)
      PROVE  v = w /\ i = 1
  <2>1. v = w
    BY <1>1, <1>3, HeldType DEF HeldInv, HeldOnce
  <2>2. i = 1
    BY <1>1, <1>3, <2>1 DEF HeldInv, BatchesAscend, Messages
  <2>3. QED
    BY <2>1, <2>2
<1>4. QED
  BY <1>1, <1>2, <1>3 DEF Repeated, CurrentJob

LEMMA OnceWork ==
  ASSUME OutcomeInv, NEW w \in Workers, Works(w)
  PROVE  OnceInv'
<1> USE DEF OutcomeInv, HeldInv
<1>1. /\ stream' = stream /\ delivered' = delivered /\ Messages' = Messages
      /\ \A m \in Messages : Repeated(m)' <=> Repeated(m)
      /\ \A m \in Messages : stream[m] \in Jobs
      /\ \A v \in Workers \ {w} : wpc'[v] = wpc[v] /\ batch'[v] = batch[v]
      /\ \A v \in Workers : \A i \in 1..Len(batch[v]) : batch[v][i] \in Messages
      /\ \A v \in Workers : wpc[v] \in Busy => Current(v) \in Messages /\ CurrentJob(v) \in Jobs
  <2>1. stream' = stream /\ delivered' = delivered
    BY DEF Works
  <2>2. Messages' = Messages /\ \A m \in Messages : stream[m] \in Jobs
    BY <2>1 DEF Messages, TypeOK
  <2>3. \A m \in Messages : Repeated(m)' <=> Repeated(m)
    BY <2>1, <2>2 DEF Repeated
  <2>4. \A v \in Workers \ {w} : wpc'[v] = wpc[v] /\ batch'[v] = batch[v]
    BY DEF Works, Starts, Settles, MovesOn, Abandon, Goto, Finish, TypeOK
  <2>5. \A v \in Workers : \A i \in 1..Len(batch[v]) : batch[v][i] \in Messages
    BY DEF Messages, TypeOK
  <2>6. \A v \in Workers : wpc[v] \in Busy => Current(v) \in Messages /\ CurrentJob(v) \in Jobs
    BY HeldType DEF Busy
  <2>7. QED
    BY <2>1, <2>2, <2>3, <2>4, <2>5, <2>6
<1>2. CASE MovesOn(w)
  <2>1. \A k \in Jobs : Settled(k)' <=> Settled(k)
    BY <1>2 DEF MovesOn, Settled
  <2>2. \A i \in 1..Len(batch'[w]) : ~Repeated(batch'[w][i]) /\ (i > 1 \/ wpc'[w] = "start") =>
          batch'[w][i] \in Messages /\ ~Settled(stream[batch'[w][i]])
    <3>1. CASE Abandon(w)
      BY <3>1, AbandonEffect
    <3>2. CASE wpc[w] = "ack" /\ Finish(w)
      <4>1. \A i \in 1..Len(batch'[w]) :
              i + 1 \in 1..Len(batch[w]) /\ i + 1 > 1 /\ batch'[w][i] = batch[w][i + 1]
        BY <3>2, FinishEffect, HeldType
      <4>2. QED
        BY <1>1, <4>1 DEF OnceInv
    <3>3. ASSUME NEW to \in Busy \ {"start", "work", "ack"}, Goto(w, to)
          PROVE  batch'[w] = batch[w] /\ wpc'[w] # "start"
      BY <3>3 DEF Goto, TypeOK
    <3>4. QED
      BY <1>1, <1>2, <3>1, <3>2, <3>3 DEF MovesOn, OnceInv
  <2>3. \A v \in Workers : wpc'[v] = "ack" => wpc[v] = "ack" /\ batch'[v] = batch[v]
    BY <1>1, <1>2 DEF MovesOn, Abandon, Finish, Goto, TypeOK
  <2>4. \A v \in Workers : wpc'[v] = "ack" =>
          /\ Current(v)' = Current(v) /\ CurrentJob(v)' = CurrentJob(v)
          /\ Current(v) \in Messages /\ CurrentJob(v) \in Jobs
    BY <1>1, <2>3 DEF Current, CurrentJob, Busy
  <2>5. \A v \in Workers : wpc'[v] = "ack" => Settled(CurrentJob(v))' \/ Repeated(Current(v))'
    BY <1>1, <2>1, <2>3, <2>4 DEF OnceInv, Settled, Repeated
  <2>6. QED
    BY <1>1, <2>1, <2>2, <2>5 DEF OnceInv, Repeated, Settled
<1>3. ASSUME NEW s \in {"PROCESSING", "COMPLETED", "FAILED"}, SetStatus(w, s), wpc[w] \in Busy,
             Abandon(w) \/ \E to \in Busy \ {"start"} : Goto(w, to),
             s # "PROCESSING" \/ wpc'[w] # "ack"
      PROVE  OnceInv'
  <2> DEFINE SettledNow(k) == status'[k] \in {"COMPLETED", "FAILED"}
  <2>1. /\ SettledNow(CurrentJob(w)) <=> s # "PROCESSING"
        /\ \A k \in Jobs \ {CurrentJob(w)} : SettledNow(k) <=> Settled(k)
    BY <1>3, OwnMessages DEF SetStatus, Settled, TypeOK
  <2>2. /\ batch'[w] = batch[w] \/ Len(batch'[w]) = 0
        /\ wpc'[w] = "ack" => batch'[w] = batch[w]
        /\ wpc'[w] # "start"
    BY <1>3, AbandonEffect DEF Abandon, Goto, Busy, TypeOK
  <2> HIDE DEF SettledNow
  <2>3. \A j \in Jobs : SettledNow(j) => \E m \in Messages : stream[m] = j
    BY <1>1, <1>3, <2>1, OwnMessages DEF OnceInv, CurrentJob
  <2>4. \A m \in Messages : m > delivered /\ ~Repeated(m) => ~SettledNow(stream[m])
    <3>1. \A m \in Messages : m > delivered => m # Current(w)
      BY <1>3, OwnMessages DEF Messages, TypeOK
    <3>2. QED
      BY <1>1, <1>3, <2>1, <3>1, OwnMessages DEF OnceInv
  <2>5. \A v \in Workers : \A i \in 1..Len(batch'[v]) :
          /\ batch'[v][i] = batch[v][i] /\ batch[v][i] \in Messages
          /\ (i > 1 \/ wpc'[v] = "start") /\ ~Repeated(batch[v][i])
               => ~SettledNow(stream[batch[v][i]])
    <3>1. ASSUME NEW v \in Workers, NEW i \in 1..Len(batch'[v]), i > 1 \/ wpc'[v] = "start",
                 ~Repeated(batch[v][i]), SettledNow(stream[batch[v][i]])
          PROVE  FALSE
      <4>1. i \in 1..Len(batch[v]) /\ (i > 1 \/ wpc[v] = "start") /\ (v = w => i > 1)
        BY <1>1, <2>2, <3>1
      <4>2. ~Settled(stream[batch[v][i]])
        BY <3>1, <4>1 DEF OnceInv
      <4>3. stream[batch[v][i]] = CurrentJob(w)
        BY <1>1, <2>1, <3>1, <4>1, <4>2
      <4>4. batch[v][i] = Current(w)
        BY <1>1, <1>3, <3>1, <4>1, <4>3, OwnMessages
      <4>5. QED
        BY <1>3, <4>1, <4>4, OwnMessages
    <3>2. \A v \in Workers : \A i \in 1..Len(batch'[v]) :
            batch'[v][i] = batch[v][i] /\ batch[v][i] \in Messages
      BY <1>1, <2>2
    <3>3. QED
      BY <3>1, <3>2
  <2>6. ASSUME NEW v \in Workers, wpc'[v] = "ack"
        PROVE  SettledNow(CurrentJob(v)') \/ Repeated(Current(v))'
    <3>1. /\ Current(v)' = Current(v) /\ CurrentJob(v)' = CurrentJob(v)
      BY <1>1, <2>2, <2>6 DEF Current, CurrentJob
    <3>2. CASE v = w
      BY <1>3, <2>1, <2>6, <3>1, <3>2
    <3>3. CASE v # w /\ CurrentJob(v) # CurrentJob(w)
      BY <1>1, <2>1, <2>6, <3>1, <3>3 DEF OnceInv, Repeated, Busy
    <3>4. CASE v # w /\ CurrentJob(v) = CurrentJob(w)
      <4>1. Current(v) \in Messages /\ stream[Current(v)] = CurrentJob(w) /\ wpc[v] \in Busy
        BY <1>1, <2>6, <3>4 DEF CurrentJob, Busy
      <4>2. Current(v) # Current(w)
        BY <1>3, <3>4, <4>1, OwnMessages, HeldType DEF Busy
      <4>3. QED
        BY <1>1, <1>3, <3>1, <4>1, <4>2, OwnMessages DEF Repeated
    <3>5. QED
      BY <3>2, <3>3, <3>4
  <2>7. QED
    <3>1. \A m : Repeated(m)' <=> Repeated(m)
      BY <1>1 DEF Repeated
    <3>2. QED
      BY <1>1, <2>3, <2>4, <2>5, <2>6, <3>1 DEF OnceInv, Settled, SettledNow
<1>4. QED
  <2>1. CASE Starts(w)
    BY <1>3, <2>1 DEF Starts, Goto, Abandon, Busy, TypeOK
  <2>2. CASE Settles(w)
    BY <1>3, <2>2 DEF Settles, Busy
  <2>3. QED
    BY <1>2, <2>1, <2>2 DEF Works

\* Reading messages and coming or going settles nothing.
LEMMA OnceRead ==
  ASSUME OutcomeInv, NEW w \in Workers, Reads(w) \/ Rests(w)
  PROVE  OnceInv'
<1> USE DEF OutcomeInv, HeldInv
<1>1. /\ stream' = stream /\ status' = status /\ Messages' = Messages
      /\ \A m : Repeated(m)' <=> Repeated(m)
      /\ \A v \in Workers \ {w} : wpc'[v] = wpc[v] /\ batch'[v] = batch[v]
      /\ delivered <= delivered' /\ delivered' \in Int /\ delivered \in Int
      /\ wpc'[w] # "ack"
  <2>1. stream' = stream /\ status' = status /\ Messages' = Messages
        /\ \A m : Repeated(m)' <=> Repeated(m)
    BY DEF Reads, Rests, Messages, Repeated
  <2>2. /\ \A v \in Workers \ {w} : wpc'[v] = wpc[v] /\ batch'[v] = batch[v]
        /\ wpc'[w] # "ack"
    BY DEF Reads, Rests, ReadGroup, Abandon, TypeOK
  <2>3. delivered <= delivered' /\ delivered' \in Int /\ delivered \in Int
    <3>1. delivered \in Int /\ Len(stream) \in Nat
      BY DEF TypeOK
    <3>2. CASE delivered \in 0 .. Len(stream) - 1 /\ Deliver(ReadSize)
      BY <3>1, <3>2 DEF Deliver, ReadSize
    <3>3. CASE UNCHANGED delivered
      BY <3>1, <3>3
    <3>4. QED
      BY <3>1, <3>2, <3>3 DEF Reads, Rests, ReadGroup
  <2>4. QED
    BY <2>1, <2>2, <2>3
<1>2. \A i \in 1..Len(batch'[w]) :
        batch'[w][i] \in Messages /\ (batch'[w][i] > delivered \/ UNCHANGED <<wpc, batch>>)
  <2>1. CASE ReadGroup(w)
    <3>1. delivered \in Nat /\ Len(stream) \in Nat /\ ReadSize \in 1 .. Len(stream) - delivered
      <4>1. TypeOK /\ ReadSize \in 1 .. Len(stream) - delivered
        BY <2>1, ReadEffect
      <4>2. Len(stream) \in Nat
        BY DEF TypeOK
      <4>3. QED
        BY <2>1, <4>1, <4>2 DEF ReadGroup
    <3>2. Len(batch'[w]) = ReadSize /\ \A i \in 1..ReadSize : batch'[w][i] = delivered + i
      BY <2>1, ReadEffect
    <3>3. QED
      BY <3>1, <3>2 DEF Messages
  <2>2. CASE UNCHANGED <<wpc, batch>>
    BY <2>2, HeldType
  <2>3. CASE Abandon(w) \/ batch' = [batch EXCEPT ![w] = <<>>]
    BY <2>3, AbandonEffect DEF TypeOK
  <2>4. QED
    BY <2>1, <2>2, <2>3 DEF Reads, Rests
<1>3. \A m \in Messages : m > delivered' => m > delivered
  BY <1>1 DEF Messages
<1>4. \A v \in Workers : \A i \in 1..Len(batch'[v]) :
        (i > 1 \/ wpc'[v] = "start") /\ ~Repeated(batch'[v][i])
          => status[stream[batch'[v][i]]] \notin {"COMPLETED", "FAILED"}
  BY <1>1, <1>2 DEF OnceInv, Settled
<1>5. QED
  BY <1>1, <1>3, <1>4 DEF OnceInv, Settled, CurrentJob, Current

LEMMA OutcomeInit == Init => OutcomeInv
BY HeldInit DEF Init, OutcomeInv, KnownInv, OnceInv, Messages, Settled, Busy

LEMMA OutcomeStep == OutcomeInv /\ [Next]_vars => OutcomeInv'
<1> SUFFICES ASSUME OutcomeInv, [Next]_vars PROVE OnceInv'
  BY HeldStep, KnownStep DEF OutcomeInv, HeldInv
<1>1. ASSUME NEW w \in Workers, Work(w) \/ WorkFault(w) \/ Restart(w) PROVE OnceInv'
  BY <1>1, WorkerStep, OnceRead, OnceWork DEF OutcomeInv, HeldInv
<1>2. CASE UNCHANGED vars
  BY <1>2 DEF vars, OutcomeInv, OnceInv, Settled, Repeated, Messages, CurrentJob, Current
<1>3. QED
  BY <1>1, <1>2, OnceSubmit DEF Next

\* A repeated message is counted.
LEMMA RepeatedCounts ==
  ASSUME TypeOK, NEW m \in Messages, Repeated(m)
  PROVE  Cardinality(MessagesOf(stream[m])) > 1
<1>1. PICK k \in Messages : k # m /\ stream[k] = stream[m]
  BY DEF Repeated
<1>2. IsFiniteSet(MessagesOf(stream[m])) /\ Cardinality(MessagesOf(stream[m])) \in Nat
  <2>1. IsFiniteSet(Messages)
    BY FS_Interval DEF Messages, TypeOK
  <2>2. MessagesOf(stream[m]) \in SUBSET Messages
    BY DEF MessagesOf
  <2>3. QED
    BY <2>1, <2>2, FS_Subset, FS_CardinalityType
<1>3. {k} \cup {m} \subseteq MessagesOf(stream[m])
  BY <1>1 DEF MessagesOf
<1>4. Cardinality({k} \cup {m}) = 2
  <2>1. IsFiniteSet({k}) /\ Cardinality({k}) = 1 /\ m \notin {k}
    BY <1>1, FS_Singleton
  <2>2. Cardinality({k} \cup {m}) = Cardinality({k}) + 1
    BY <2>1, FS_AddElement
  <2>3. QED
    BY <2>1, <2>2
<1>5. QED
  BY <1>2, <1>3, <1>4, FS_Subset

\* A message only leaves the pending list settled, except where the code gives up
\* on the job's status or XADD was repeated.
THEOREM AcknowledgedSettled == Spec => AcknowledgedIsSettled
<1> DEFINE Ack == \A m \in pel \ pel' :
                    \/ Settled(stream[m])
                    \/ Cardinality(MessagesOf(stream[m])) > 1
                    \/ \E w \in Workers : wpc[w] = "ack_raise" /\ Current(w) = m
<1>1. OutcomeInv /\ [Next]_vars => Ack
  <2> SUFFICES ASSUME OutcomeInv, [Next]_vars, NEW m \in pel \ pel' PROVE Ack!(m)
    OBVIOUS
  <2>1. PICK w \in Workers : wpc[w] \in {"ack", "ack_raise"} /\ m = Current(w)
    <3>1. \A j \in Jobs : Submit(j) \/ SubmitFault(j) => pel' = pel
      BY SubmitFrame
    <3>2. ASSUME NEW w \in Workers, Work(w) \/ WorkFault(w) \/ Restart(w)
          PROVE  wpc[w] \in {"ack", "ack_raise"} /\ m = Current(w)
      BY <3>2 DEF Work, WorkFault, Restart, ReadGroup, CreateGroup, StartJob, RunTask,
         CompleteJob, FailJob, Acknowledge, ReadReplyLost, StartFails, CompleteFails,
         AcknowledgeFails, Crash, Deliver
    <3>3. QED
      BY <3>1, <3>2 DEF Next, vars
  <2>2. CASE wpc[w] = "ack"
    <3>1. Current(w) \in Messages
      BY <2>2, HeldType DEF OutcomeInv, HeldInv
    <3>2. Settled(CurrentJob(w)) \/ Repeated(Current(w))
      BY <2>2 DEF OutcomeInv, OnceInv
    <3>3. QED
      BY <2>1, <3>1, <3>2, RepeatedCounts DEF OutcomeInv, HeldInv, CurrentJob
  <2>3. QED
    BY <2>1, <2>2
<1>2. QED
  BY <1>1, OutcomeInit, OutcomeStep, PTL DEF Spec, AcknowledgedIsSettled

\* A settled job stays settled, for as long as it has one message.
THEOREM StaysSettled == Spec => SettledStays
<1> DEFINE Stays == \A j \in Jobs : Settled(j) /\ Cardinality(MessagesOf(j)) = 1 => Settled(j)'
<1>1. OutcomeInv /\ [Next]_vars => Stays
  <2> SUFFICES ASSUME OutcomeInv, [Next]_vars, NEW j \in Jobs, Settled(j),
                      Cardinality(MessagesOf(j)) = 1
               PROVE  Settled(j)'
    OBVIOUS
  <2> USE DEF OutcomeInv, HeldInv
  <2>1. ASSUME NEW k \in Jobs, Submit(k) \/ SubmitFault(k) PROVE Settled(j)'
    BY <2>1, SubmitStatus DEF Settled, TypeOK
  <2>2. ASSUME NEW w \in Workers, Works(w) PROVE Settled(j)'
    <3>1. CASE Starts(w) /\ CurrentJob(w) = j
      <4>1. Current(w) \in Messages /\ stream[Current(w)] = j /\ ~Repeated(Current(w))
        BY <2>2, <3>1, OwnMessages, RepeatedCounts DEF Works, CurrentJob
      <4>2. 1 \in 1..Len(batch[w]) /\ batch[w][1] = Current(w)
        BY <3>1, HeldType DEF Starts
      <4>3. ~Settled(j)
        BY <3>1, <4>1, <4>2 DEF OnceInv, Starts
      <4>4. QED
        BY <4>3
    <3>2. CASE Starts(w) /\ CurrentJob(w) # j
      BY <2>2, <3>2, OwnMessages DEF Starts, SetStatus, Settled, Works, TypeOK
    <3>3. CASE Settles(w)
      BY <2>2, <3>3, OwnMessages DEF Settles, SetStatus, Settled, Works, TypeOK
    <3>4. CASE MovesOn(w)
      BY <3>4 DEF MovesOn, Settled
    <3>5. QED
      BY <2>2, <3>1, <3>2, <3>3, <3>4 DEF Works
  <2>3. ASSUME NEW w \in Workers, Reads(w) \/ Rests(w) PROVE Settled(j)'
    BY <2>3 DEF Reads, Rests, Settled
  <2>4. QED
    BY <2>1, <2>2, <2>3, WorkerStep DEF Next, vars, Settled
<1>2. QED
  BY <1>1, OutcomeInit, OutcomeStep, PTL DEF Spec, SettledStays

-----------------------------------------------------------------------------
(***************************************************************************)
(* Without faults nothing is lost.                                         *)
(***************************************************************************)

\* Every message that was handed out is settled or in somebody's hands.
Clean ==
  /\ \A j \in Jobs : submit[j] = "accepted" => \E m \in Messages : stream[m] = j
  /\ \A j \in Jobs : submit[j] \in {"hashed", "accepted"} => delivered # -1
  /\ \A m \in Messages : submit[stream[m]] = "accepted" /\ ~Repeated(m)
  /\ \A m \in Messages : m <= delivered =>
       Settled(stream[m]) \/ \E w \in Workers : m \in Held(w)
  /\ \A w \in Workers : wpc[w] # "ack_raise"

CleanInv == faults = 0 => Clean

\* A submission without faults: the group, the hash and one message, in that order.
LEMMA CleanSubmit ==
  ASSUME OutcomeInv, Clean, NEW j \in Jobs, Submit(j), UNCHANGED faults
  PROVE  Clean'
<1> USE DEF OutcomeInv, HeldInv
<1>1. /\ UNCHANGED <<pel, wpc, batch>>
      /\ \A k \in Jobs : Settled(k)' <=> Settled(k)
      /\ \A w \in Workers : Held(w)' = Held(w)
  BY SubmitFrame, SubmitStatus DEF Settled, TypeOK, Held
<1>2. /\ stream \in Seq(Jobs) /\ Len(stream) \in Nat /\ delivered \in -1..Len(stream)
      /\ \A m \in Messages : stream[m] \in Jobs
      /\ submit \in [Jobs -> {"new", "hashed", "accepted", "refused", "crashed"}]
  BY DEF TypeOK, Messages
<1>3. CASE WriteHash(j) /\ UNCHANGED faults
  <2>1. /\ stream' = stream /\ submit[j] = "new" /\ submit' = [submit EXCEPT ![j] = "hashed"]
        /\ Messages' = Messages /\ \A m : Repeated(m)' <=> Repeated(m)
    BY <1>3 DEF WriteHash, Move, Messages, Repeated
  <2>2. delivered' # -1 /\ (delivered' = delivered \/ delivered' = 0 \/ Messages = {})
    <3>1. EnsureConsumerGroup \/ (delivered' = delivered /\ faults' = faults + 1)
      BY <1>3 DEF WriteHash, Fault
    <3>2. EnsureConsumerGroup
      BY <1>3, <3>1 DEF TypeOK
    <3>3. delivered = -1 => Messages = {}
      BY <1>2 DEF Clean
    <3>4. QED
      BY <1>2, <3>2, <3>3 DEF EnsureConsumerGroup
  <2>3. \A m \in Messages : m <= delivered' => m <= delivered
    BY <2>2 DEF Messages
  <2>4. \A m \in Messages : submit'[stream[m]] = "accepted"
    BY <1>2, <2>1 DEF Clean
  <2>5. QED
    BY <1>1, <1>2, <2>1, <2>2, <2>3, <2>4 DEF Clean, Settled
<1>4. CASE AddToStream(j)
  <2>1. /\ stream' = Append(stream, j) /\ submit[j] = "hashed"
        /\ submit' = [submit EXCEPT ![j] = "accepted"] /\ UNCHANGED <<delivered, status>>
    BY <1>4 DEF AddToStream, Move, consumer
  <2>2. /\ Len(stream') = Len(stream) + 1 /\ stream'[Len(stream) + 1] = j
        /\ \A m \in Messages : stream'[m] = stream[m]
        /\ Messages' = Messages \cup {Len(stream) + 1} /\ Len(stream) + 1 \notin Messages
    BY <1>2, <2>1 DEF Messages
  <2>3. \A m \in Messages : stream[m] # j
    BY <1>2, <2>1 DEF Clean
  <2>4. \A m \in Messages' : ~Repeated(m)'
    BY <1>2, <2>2, <2>3 DEF Clean, Repeated
  <2>5. ASSUME NEW m \in Messages' PROVE submit'[stream'[m]] = "accepted"
    <3>1. m \in Messages => stream[m] \in Jobs /\ submit[stream[m]] = "accepted"
      BY <1>2 DEF Clean
    <3>2. CASE m \in Messages
      BY <1>2, <2>1, <2>2, <3>1, <3>2
    <3>3. CASE m = Len(stream) + 1
      BY <1>2, <2>1, <2>2, <3>3
    <3>4. QED
      BY <2>2, <3>2, <3>3
  <2>6. \A m \in Messages' : m <= delivered' => m \in Messages
    BY <1>2, <2>1, <2>2 DEF Messages
  <2>7. ASSUME NEW k \in Jobs, submit'[k] = "accepted" PROVE \E m \in Messages' : stream'[m] = k
    <3>1. CASE k = j
      BY <2>2, <3>1
    <3>2. CASE k # j
      <4>1. PICK m \in Messages : stream[m] = k
        BY <1>2, <2>1, <2>7, <3>2 DEF Clean
      <4>2. QED
        BY <2>2, <4>1
    <3>3. QED
      BY <3>1, <3>2
  <2>8. \A k \in Jobs : submit'[k] \in {"hashed", "accepted"} => delivered' # -1
    BY <1>2, <2>1 DEF Clean
  <2>9. \A m \in Messages' : m <= delivered' =>
          Settled(stream[m])' \/ \E w \in Workers : m \in Held(w)'
    <3>1. ASSUME NEW m \in Messages', m <= delivered'
          PROVE  /\ m \in Messages /\ stream'[m] = stream[m] /\ m <= delivered
                 /\ stream[m] \in Jobs
      BY <1>2, <2>1, <2>2, <2>6, <3>1
    <3>2. \A m \in Messages : m <= delivered =>
            Settled(stream[m]) \/ \E w \in Workers : m \in Held(w)
      BY DEF Clean
    <3>3. QED
      BY <1>1, <2>1, <3>1, <3>2 DEF Settled
  <2>10. QED
    BY <1>1, <2>4, <2>5, <2>7, <2>8, <2>9 DEF Clean
<1>5. QED
  BY <1>3, <1>4 DEF Submit, WriteHash, AddToStream

\* A worker at a job without faults: whatever it does to the status, it holds
\* the job's one message until the outcome is there.
LEMMA CleanJob ==
  ASSUME OutcomeInv, Clean, NEW w \in Workers, UNCHANGED faults,
         StartJob(w) \/ RunTask(w) \/ CompleteJob(w) \/ FailJob(w) \/ Acknowledge(w)
  PROVE  Clean'
<1> USE DEF OutcomeInv, HeldInv
<1>1. /\ UNCHANGED <<submit, stream, delivered>> /\ wpc[w] \notin {"idle", "dead"}
      /\ Messages' = Messages /\ \A m : Repeated(m)' <=> Repeated(m)
  BY DEF StartJob, RunTask, CompleteJob, FailJob, Acknowledge, Messages, Repeated
<1>2. Current(w) \in Messages /\ Current(w) \in Held(w) /\ CurrentJob(w) \in Jobs
  BY <1>1, HeldType
<1>3. wpc[w] # "ack_raise" /\ ~Repeated(Current(w))
  BY <1>2 DEF Clean
<1>4. ASSUME NEW m \in Messages, m <= delivered
      PROVE  Settled(stream[m])' \/ \E v \in Workers : m \in Held(v)'
  <2>1. stream[m] \in Jobs /\ (Settled(stream[m]) \/ \E v \in Workers : m \in Held(v))
    BY <1>4 DEF Clean, TypeOK, Messages
  <2>2. CASE UNCHANGED batch
    <3>1. \A v \in Workers : Held(v)' = Held(v)
      BY <2>2 DEF Held
    <3>2. CASE stream[m] = CurrentJob(w)
      <4>1. m = Current(w)
        BY <1>2, <1>3, <3>2 DEF Repeated, CurrentJob
      <4>2. QED
        BY <1>2, <3>1, <4>1
    <3>3. CASE stream[m] # CurrentJob(w)
      <4>1. status'[stream[m]] = status[stream[m]]
        BY <1>1, <1>2, <2>1, <3>3 DEF StartJob, RunTask, CompleteJob, FailJob, Acknowledge,
           SetStatus, TypeOK
      <4>2. QED
        BY <1>1, <2>1, <3>1, <4>1 DEF Settled
    <3>4. QED
      BY <3>2, <3>3
  <2>3. CASE Acknowledge(w)
    <3>1. wpc[w] = "ack" /\ Finish(w) /\ UNCHANGED status
      BY <1>3, <2>3 DEF Acknowledge
    <3>2. Held(w)' = Held(w) \ {Current(w)} /\ Settled(CurrentJob(w))
      BY <1>1, <1>3, <3>1, FinishEffect DEF OnceInv
    <3>3. \A v \in Workers \ {w} : Held(v)' = Held(v)
      BY <3>1 DEF Finish, Held, TypeOK
    <3>4. QED
      BY <1>1, <2>1, <3>1, <3>2, <3>3 DEF Settled, CurrentJob
  <2>4. QED
    BY <2>2, <2>3 DEF StartJob, RunTask, CompleteJob, FailJob, Goto
<1>5. \A v \in Workers : wpc'[v] # "ack_raise"
  <2>1. \A v \in Workers \ {w} : wpc'[v] = wpc[v]
    BY DEF StartJob, RunTask, CompleteJob, FailJob, Acknowledge, Goto, Finish, Abandon, TypeOK
  <2>2. faults' # faults + 1
    BY DEF TypeOK
  <2>3. wpc'[w] # "ack_raise"
    BY <1>3, <2>2 DEF StartJob, RunTask, CompleteJob, FailJob, Acknowledge, Goto, Finish, Fault, TypeOK
  <2>4. QED
    BY <2>1, <2>3 DEF Clean
<1>6. QED
  BY <1>1, <1>4, <1>5 DEF Clean

\* A worker that reads, creates the group or comes back.
LEMMA CleanRead ==
  ASSUME OutcomeInv, Clean, NEW w \in Workers,
         ReadGroup(w) \/ CreateGroup(w) \/ Restart(w)
  PROVE  Clean'
<1> USE DEF OutcomeInv, HeldInv
<1>1. /\ UNCHANGED <<submit, status, stream>>
      /\ Messages' = Messages /\ \A m : Repeated(m)' <=> Repeated(m)
  BY DEF ReadGroup, CreateGroup, Restart, Messages, Repeated
<1>2. \A v \in Workers : wpc'[v] # "ack_raise"
  BY DEF ReadGroup, CreateGroup, Restart, Clean, TypeOK
<1>3. Len(stream) \in Nat /\ delivered \in -1..Len(stream)
  BY DEF TypeOK
<1>4. delivered = -1 => Messages = {} /\ \A j \in Jobs : submit[j] \notin {"hashed", "accepted"}
  BY DEF Clean, Messages, TypeOK
<1>5. delivered # -1 => delivered' # -1
  <2>1. CASE ReadGroup(w)
    <3>1. ReadSize \in 1 .. Len(stream) - delivered /\ delivered' = delivered + ReadSize
      BY <2>1, ReadEffect DEF ReadGroup, Deliver
    <3>2. delivered \in 0 .. Len(stream) - 1
      BY <2>1 DEF ReadGroup
    <3>3. QED
      BY <1>3, <3>1, <3>2
  <2>2. CASE CreateGroup(w) \/ Restart(w)
    BY <2>2 DEF CreateGroup, EnsureConsumerGroup, Restart
  <2>3. QED
    BY <2>1, <2>2
<1>6. ASSUME NEW m \in Messages, m <= delivered'
      PROVE  Settled(stream[m])' \/ \E v \in Workers : m \in Held(v)'
  <2>1. delivered # -1
    BY <1>4
  <2>2. CASE m <= delivered
    <3>1. Settled(stream[m]) \/ \E v \in Workers : m \in Held(v)
      BY <2>2 DEF Clean
    <3>2. \A v \in Workers : Held(v) \subseteq Held(v)'
      <4>1. CASE ReadGroup(w)
        <5>1. Held(w) = {}
          BY <4>1 DEF ReadGroup, Held, TypeOK
        <5>2. \A v \in Workers \ {w} : Held(v)' = Held(v)
          BY <4>1, ReadEffect DEF Held
        <5>3. QED
          BY <5>1, <5>2
      <4>2. CASE UNCHANGED batch
        BY <4>2 DEF Held
      <4>3. QED
        BY <4>1, <4>2 DEF CreateGroup, Restart
    <3>3. QED
      BY <1>1, <3>1, <3>2 DEF Settled
  <2>3. CASE m > delivered
    <3>1. delivered' # delivered
      BY <1>3, <1>6, <2>3 DEF Messages
    <3>2. ReadGroup(w)
      BY <2>1, <3>1 DEF CreateGroup, EnsureConsumerGroup, Restart
    <3>3. /\ Held(w)' = delivered + 1 .. delivered + ReadSize /\ delivered' = delivered + ReadSize
          /\ ReadSize \in 1 .. Len(stream) - delivered
      BY <3>2, ReadEffect DEF ReadGroup, Deliver
    <3>4. m \in Held(w)'
      BY <1>3, <1>6, <2>3, <3>3 DEF Messages
    <3>5. QED
      BY <3>4
  <2>4. QED
    BY <1>3, <2>2, <2>3 DEF Messages
<1>7. \A j \in Jobs : submit'[j] \in {"hashed", "accepted"} => delivered' # -1
  BY <1>1, <1>5 DEF Clean
<1>8. QED
  BY <1>1, <1>2, <1>6, <1>7 DEF Clean

\* As long as nothing fails, a worker or its outcome can be named for every
\* message that was handed out.
LEMMA CleanAlways == Spec => [](OutcomeInv /\ CleanInv)
<1>1. Init => OutcomeInv /\ CleanInv
  BY OutcomeInit DEF Init, CleanInv, Clean, Messages
<1>2. OutcomeInv /\ CleanInv /\ [Next]_vars => OutcomeInv' /\ CleanInv'
  <2> SUFFICES ASSUME OutcomeInv, CleanInv, [Next]_vars, faults' = 0 PROVE Clean'
    BY OutcomeStep DEF CleanInv
  <2>1. faults \in Nat /\ (Fault => faults' # 0)
    BY DEF Fault, OutcomeInv, HeldInv, TypeOK
  <2>2. ASSUME NEW j \in Jobs, Submit(j) \/ SubmitFault(j) PROVE Submit(j) /\ UNCHANGED faults
    BY <2>1, <2>2 DEF Submit, SubmitFault, WriteHash, AddToStream, WriteHashFails, AddFails,
       AddReplyLost, ApiCrash
  <2>3. ASSUME NEW w \in Workers, Work(w) \/ WorkFault(w) \/ Restart(w)
        PROVE  (Work(w) \/ Restart(w)) /\ UNCHANGED faults
    BY <2>1, <2>3 DEF Work, WorkFault, Restart, ReadGroup, CreateGroup, StartJob, RunTask,
       CompleteJob, FailJob, Acknowledge, ReadReplyLost, StartFails, CompleteFails,
       AcknowledgeFails, Crash
  <2>4. CASE UNCHANGED vars
    BY <2>4 DEF vars, CleanInv, Clean, Messages, Settled, Held, Repeated
  <2>5. ASSUME faults = 0, Clean, NEW j \in Jobs, Submit(j) \/ SubmitFault(j) PROVE Clean'
    BY <2>2, <2>5, CleanSubmit
  <2>6. ASSUME faults = 0, Clean, NEW w \in Workers, Work(w) \/ WorkFault(w) \/ Restart(w)
        PROVE  Clean'
    BY <2>3, <2>6, CleanJob, CleanRead DEF Work
  <2>7. QED
    BY <2>1, <2>2, <2>3, <2>4, <2>5, <2>6 DEF Next, CleanInv
<1>3. QED
  BY <1>1, <1>2, PTL DEF Spec

\* Every accepted job is in the stream, on its way, in somebody's hands or
\* settled, as long as nothing fails.
THEOREM NothingLost == Spec => []NothingLostWithoutFault
<1>1. OutcomeInv /\ CleanInv => NothingLostWithoutFault
  <2> SUFFICES ASSUME OutcomeInv, CleanInv, NEW j \in Jobs, submit[j] = "accepted",
                      Stranded(j), ~Settled(j), faults = 0
               PROVE  FALSE
    BY DEF NothingLostWithoutFault, OutcomeInv, HeldInv, TypeOK
  <2>1. PICK m \in Messages : stream[m] = j
    BY DEF CleanInv, Clean
  <2>2. m \in MessagesOf(j)
    BY <2>1 DEF MessagesOf
  <2>3. QED
    BY <2>1, <2>2 DEF Stranded, CleanInv, Clean
<1>2. QED
  BY <1>1, CleanAlways, PTL

\* What NestJS and Spring break when XADD fails, they and FastAPI keep until
\* something fails: the answer "accepted and enqueued" is true.
THEOREM QueuedUntilFault == Spec => [](faults = 0 => AcceptedIsQueued)
<1>1. CleanInv => (faults = 0 => AcceptedIsQueued)
  BY DEF CleanInv, Clean, AcceptedIsQueued, MessagesOf
<1>2. QED
  BY <1>1, CleanAlways, PTL

-----------------------------------------------------------------------------
(***************************************************************************)
(* What a fault costs.                                                     *)
(***************************************************************************)

\* A worker has yet to report the outcome of its current message.
Reporting(w) == wpc[w] \in {"start", "work", "complete", "fail"}

\* Nothing is left that would report on an accepted job: unlike Stranded, this
\* also counts the job of a worker that is past its last report.
Lost(j) == /\ submit[j] = "accepted" /\ ~Settled(j)
           /\ \A m \in MessagesOf(j) : m <= delivered
           /\ \A w \in Workers : Reporting(w) => CurrentJob(w) # j

AllLost == {j \in Jobs : Lost(j)}

\* FastAPI and NestJS read one message at a time.
OneByOne == framework # "spring" => \A w \in Workers : Len(batch[w]) <= 1

LossInv == /\ OneByOne
           /\ framework # "spring" => IsFiniteSet(AllLost) /\ Cardinality(AllLost) <= faults

\* A submission takes no job but its own, and that one only when it fails: what
\* has been put in the stream is past all that was handed out.
LEMMA SubmitLoses ==
  ASSUME OutcomeInv, framework # "spring", NEW j \in Jobs, Submit(j) \/ SubmitFault(j)
  PROVE  /\ \A k \in Jobs \ {j} : Lost(k)' => Lost(k)
         /\ UNCHANGED faults => ~Lost(j)'
<1> USE DEF OutcomeInv, HeldInv
<1>1. /\ UNCHANGED <<wpc, batch>> /\ submit \in [Jobs -> {"new", "hashed", "accepted", "refused", "crashed"}]
      /\ \A k \in Jobs \ {j} : submit'[k] = submit[k]
      /\ \A k \in Jobs : Settled(k)' <=> Settled(k)
  BY SubmitFrame, SubmitStatus DEF Settled, TypeOK
<1>2. /\ stream \in Seq(Jobs) /\ Len(stream) \in Nat /\ delivered \in -1..Len(stream)
      /\ faults \in Nat
  BY DEF TypeOK
<1>3. \/ stream' = stream
      \/ /\ stream' = Append(stream, j) /\ Len(stream') = Len(stream) + 1
         /\ \A m \in Messages : stream'[m] = stream[m]
         /\ stream'[Len(stream) + 1] = j
         /\ Messages' = Messages \cup {Len(stream) + 1}
  <2>1. CASE stream' = Append(stream, j)
    BY <1>2, <2>1 DEF Messages
  <2>2. QED
    BY <2>1, SubmitFrame
<1>4. \A k \in Jobs \ {j} : MessagesOf(k)' = MessagesOf(k)
  BY <1>2, <1>3 DEF MessagesOf, Messages
<1>5. delivered' = delivered \/ (delivered = -1 /\ delivered' = 0)
  BY DEF Submit, SubmitFault, WriteHash, WriteHashFails, AddToStream, AddFails, AddReplyLost,
         ApiCrash, consumer, EnsureConsumerGroup
<1>6. \A w \in Workers : Reporting(w) => CurrentJob(w)' = CurrentJob(w)
  BY <1>1, <1>3, HeldType DEF Reporting, CurrentJob, Current
<1>7. ASSUME NEW k \in Jobs \ {j}, Lost(k)' PROVE Lost(k)
  <2>1. submit[k] = "accepted" /\ ~Settled(k)
    BY <1>1, <1>7 DEF Lost
  <2>2. \A m \in MessagesOf(k) : m <= delivered
    <3>1. \A m \in MessagesOf(k) : m <= delivered' /\ m \in 1..Len(stream)
      BY <1>4, <1>7 DEF Lost, MessagesOf, Messages
    <3>2. QED
      BY <1>2, <1>5, <3>1
  <2>3. \A w \in Workers : Reporting(w) => CurrentJob(w) # k
    BY <1>1, <1>6, <1>7 DEF Lost, Reporting
  <2>4. QED
    BY <2>1, <2>2, <2>3 DEF Lost
<1>8. ASSUME UNCHANGED faults, Lost(j)' PROVE FALSE
  <2>1. CASE WriteHash(j)
    BY <1>1, <1>8, <2>1 DEF WriteHash, Move, Lost
  <2>2. CASE AddToStream(j)
    <3>1. stream' = Append(stream, j) /\ delivered' = delivered
      BY <2>2 DEF AddToStream, consumer
    <3>2. Len(stream) + 1 \in MessagesOf(j)'
      BY <1>2, <1>3, <3>1 DEF MessagesOf, Messages
    <3>3. QED
      BY <1>2, <1>8, <3>1, <3>2 DEF Lost
  <2>3. QED
    BY <1>2, <1>8, <2>1, <2>2 DEF Submit, SubmitFault, WriteHashFails, AddFails, AddReplyLost,
       ApiCrash, Fault
<1>9. QED
  BY <1>7, <1>8

\* A worker at a message loses no other job than that one.
LEMMA WorkLoses ==
  ASSUME OutcomeInv, NEW w \in Workers, Work(w) \/ WorkFault(w) \/ Restart(w),
         wpc[w] \in Busy, NEW j \in Jobs, j # CurrentJob(w), Lost(j)'
  PROVE  Lost(j)
<1> USE DEF OutcomeInv, HeldInv
<1>1. /\ UNCHANGED <<submit, stream, delivered>>
      /\ \A v \in Workers \ {w} : wpc'[v] = wpc[v] /\ batch'[v] = batch[v]
  <2>1. UNCHANGED <<submit, stream>>
    BY WorkerFrame
  <2>2. Works(w) \/ Rests(w)
    BY WorkerStep DEF Reads, Busy
  <2>3. QED
    BY <2>1, <2>2 DEF Works, Rests, Starts, Settles, MovesOn, Abandon, Goto, Finish, TypeOK
<1>2. status'[j] = status[j]
  <2>1. CurrentJob(w) \in Jobs
    BY HeldType DEF Busy
  <2>2. Works(w) \/ Rests(w)
    BY WorkerStep DEF Reads, Busy
  <2>3. QED
    BY <2>1, <2>2 DEF Works, Rests, Starts, Settles, MovesOn, SetStatus, TypeOK
<1>3. MessagesOf(j)' = MessagesOf(j)
  BY <1>1 DEF MessagesOf, Messages
<1>4. \A v \in Workers : Reporting(v) => CurrentJob(v) # j
  BY <1>1 DEF Lost, Reporting, CurrentJob, Current
<1>5. QED
  BY <1>1, <1>2, <1>3, <1>4 DEF Lost, Settled

\* The job of the next message is the one a read can lose.
NextJob == stream[delivered + 1]

LEMMA ReadLoses ==
  ASSUME OutcomeInv, framework # "spring", NEW w \in Workers,
         Work(w) \/ WorkFault(w) \/ Restart(w), wpc[w] \notin Busy,
         NEW j \in Jobs, Lost(j)'
  PROVE  Lost(j) \/ (delivered' = delivered + 1 /\ j = NextJob)
<1> USE DEF OutcomeInv, HeldInv
<1>1. /\ UNCHANGED <<submit, stream, status>>
      /\ \A v \in Workers \ {w} : wpc'[v] = wpc[v] /\ batch'[v] = batch[v]
  <2>1. UNCHANGED <<submit, stream>>
    BY WorkerFrame
  <2>2. Reads(w) \/ Rests(w)
    BY WorkerStep DEF Works
  <2>3. QED
    BY <2>1, <2>2 DEF Reads, Rests, ReadGroup, Abandon, TypeOK
<1>2. \/ delivered' = delivered
      \/ delivered = -1 /\ delivered' = 0
      \/ delivered' = delivered + 1
  BY DEF Work, WorkFault, Restart, ReadGroup, CreateGroup, StartJob, RunTask, CompleteJob,
     FailJob, Acknowledge, ReadReplyLost, StartFails, CompleteFails, AcknowledgeFails, Crash,
     Deliver, ReadSize, EnsureConsumerGroup
<1>3. /\ Len(stream) \in Nat /\ delivered \in -1..Len(stream)
      /\ \A m \in MessagesOf(j) : m \in 1..Len(stream) /\ m <= delivered' /\ stream[m] = j
  BY <1>1 DEF TypeOK, Lost, MessagesOf, Messages
<1>4. \A v \in Workers : Reporting(v) => CurrentJob(v) # j
  BY <1>1 DEF Lost, Reporting, Busy, CurrentJob, Current
<1>5. CASE \A m \in MessagesOf(j) : m <= delivered
  BY <1>1, <1>4, <1>5 DEF Lost, Settled
<1>6. ASSUME NEW m \in MessagesOf(j), ~(m <= delivered)
      PROVE  delivered' = delivered + 1 /\ j = NextJob
  BY <1>2, <1>3, <1>6 DEF NextJob
<1>7. QED
  BY <1>5, <1>6

\* Nor is that one lost while nothing fails: a worker leaves its job settled, and
\* what is read is what it works on next.
LEMMA WorkKeeps ==
  ASSUME OutcomeInv, framework # "spring", NEW w \in Workers,
         Work(w) \/ WorkFault(w) \/ Restart(w), UNCHANGED faults,
         NEW j \in Jobs, Lost(j)'
  PROVE  Lost(j)
<1> USE DEF OutcomeInv, HeldInv
<1>1. faults \in Nat /\ ~Fault
  BY DEF TypeOK, Fault
<1>2. CASE wpc[w] \in Busy /\ j = CurrentJob(w)
  <2>1. /\ UNCHANGED <<submit, stream>>
        /\ \/ StartJob(w) \/ RunTask(w) \/ CompleteJob(w) \/ FailJob(w) \/ Acknowledge(w)
    BY <1>1, <1>2, WorkerFrame DEF Work, WorkFault, Restart, ReadGroup, CreateGroup,
       ReadReplyLost, StartFails, CompleteFails, AcknowledgeFails, Crash, Busy
  <2>2. CASE StartJob(w) \/ RunTask(w)
    <3>1. Reporting(w)' /\ batch' = batch
      BY <1>1, <2>2 DEF StartJob, RunTask, Goto, Reporting, TypeOK
    <3>2. CurrentJob(w)' = j
      BY <1>2, <2>1, <3>1 DEF CurrentJob, Current
    <3>3. QED
      BY <3>1, <3>2 DEF Lost
  <2>3. CASE CompleteJob(w) \/ FailJob(w)
    <3>1. Settled(j)'
      BY <1>1, <1>2, <2>3 DEF CompleteJob, FailJob, SetStatus, Settled, TypeOK
    <3>2. QED
      BY <3>1 DEF Lost
  <2>4. CASE Acknowledge(w)
    <3>1. /\ UNCHANGED <<status, delivered>> /\ ~Reporting(w)
          /\ \A v \in Workers \ {w} : wpc'[v] = wpc[v] /\ batch'[v] = batch[v]
      BY <2>4 DEF Acknowledge, Finish, Abandon, Reporting, TypeOK
    <3>2. QED
      BY <2>1, <3>1 DEF Lost, Settled, MessagesOf, Messages, Reporting, CurrentJob, Current
  <2>5. QED
    BY <2>1, <2>2, <2>3, <2>4
<1>3. CASE wpc[w] \notin Busy /\ delivered' = delivered + 1 /\ j = NextJob
  <2>1. delivered \in Int /\ UNCHANGED stream
    BY WorkerFrame DEF TypeOK
  <2>2. CASE ReadGroup(w)
    <3>1. /\ Len(batch'[w]) = 1 /\ batch'[w][1] = delivered + 1
          /\ wpc'[w] = "start"
      <4>1. ReadSize = 1
        BY DEF ReadSize
      <4>2. Len(batch'[w]) = 1 /\ batch'[w][1] = delivered + 1
        BY <2>2, <4>1, ReadEffect
      <4>3. QED
        BY <2>2, <4>2 DEF ReadGroup, TypeOK
    <3>2. CurrentJob(w)' = j
      BY <1>3, <2>1, <3>1 DEF CurrentJob, Current, NextJob
    <3>3. QED
      BY <3>1, <3>2 DEF Lost, Reporting
  <2>3. CASE CreateGroup(w)
    <3>1. /\ delivered = -1 /\ delivered' = 0 /\ UNCHANGED <<submit, status, stream, wpc, batch>>
      BY <2>3 DEF CreateGroup, EnsureConsumerGroup
    <3>2. MessagesOf(j) = {} \/ \E m \in MessagesOf(j) : ~(m <= delivered')
      BY <3>1 DEF MessagesOf, Messages
    <3>3. QED
      BY <3>1, <3>2 DEF Lost, Settled, MessagesOf, Messages, Reporting, CurrentJob, Current
  <2>4. QED
    BY <1>1, <1>3, <2>1, <2>2, <2>3 DEF Work, WorkFault, Restart, StartJob, RunTask, CompleteJob,
       FailJob, Acknowledge, ReadReplyLost, StartFails, CompleteFails, AcknowledgeFails, Crash,
       Busy
<1>4. QED
  BY <1>2, <1>3, WorkLoses, ReadLoses

\* However it fails, a step takes one job at most, and none when nothing fails.
OneAtMost ==
  \/ faults' = faults /\ \A j \in Jobs : Lost(j)' => Lost(j)
  \/ faults' = faults + 1 /\ \E k : \A j \in Jobs : Lost(j)' => Lost(j) \/ j = k

LEMMA StepLoses ==
  ASSUME OutcomeInv, framework # "spring", [Next]_vars
  PROVE  OneAtMost
<1>1. CASE UNCHANGED vars
  BY <1>1 DEF vars, OneAtMost, Lost, Settled, MessagesOf, Messages, Reporting, CurrentJob, Current
<1>2. ASSUME NEW j \in Jobs, Submit(j) \/ SubmitFault(j)
      PROVE  OneAtMost
  <2>1. faults' = faults \/ faults' = faults + 1
    BY <1>2 DEF Submit, SubmitFault, WriteHash, WriteHashFails, AddToStream, AddFails,
       AddReplyLost, ApiCrash, Fault
  <2>2. QED
    BY <1>2, <2>1, SubmitLoses DEF OneAtMost
<1>3. ASSUME NEW w \in Workers, Work(w) \/ WorkFault(w) \/ Restart(w)
      PROVE  OneAtMost
  <2>1. faults' = faults \/ faults' = faults + 1
    BY <1>3 DEF Work, WorkFault, Restart, ReadGroup, CreateGroup, StartJob, RunTask, CompleteJob,
       FailJob, Acknowledge, ReadReplyLost, StartFails, CompleteFails, AcknowledgeFails, Crash,
       Fault
  <2>2. CASE wpc[w] \in Busy
    BY <1>3, <2>1, <2>2, WorkLoses, WorkKeeps DEF OneAtMost
  <2>3. CASE wpc[w] \notin Busy
    BY <1>3, <2>1, <2>3, ReadLoses, WorkKeeps DEF OneAtMost
  <2>4. QED
    BY <2>2, <2>3
<1>4. QED
  BY <1>1, <1>2, <1>3 DEF Next

LEMMA OneByOneStep ==
  ASSUME OutcomeInv, OneByOne, [Next]_vars
  PROVE  OneByOne'
<1> USE DEF OutcomeInv, HeldInv
<1> SUFFICES ASSUME framework # "spring", NEW v \in Workers PROVE Len(batch'[v]) <= 1
  BY SubmitFrame, WorkerFrame DEF OneByOne, Next, vars
<1>1. Len(batch[v]) \in Nat /\ Len(batch[v]) <= 1
  BY HeldType DEF OneByOne
<1>2. ASSUME NEW w \in Workers, Work(w) \/ WorkFault(w) \/ Restart(w)
      PROVE  Len(batch'[v]) <= 1
  <2>1. CASE ReadGroup(w)
    <3>1. ReadSize = 1
      BY DEF ReadSize
    <3>2. Len(batch'[w]) = ReadSize /\ \A u \in Workers \ {w} : batch'[u] = batch[u]
      BY <2>1, ReadEffect
    <3>3. CASE v = w
      <4>1. Len(batch'[v]) = 1
        BY <3>1, <3>2, <3>3, Zenon
      <4>2. QED
        BY <4>1
    <3>4. CASE v # w
      <4>1. batch'[v] = batch[v]
        BY <3>2, <3>4
      <4>2. QED
        BY <1>1, <4>1
    <3>5. QED
      BY <3>3, <3>4
  <2>2. CASE batch'[v] = batch[v] \/ batch'[v] = <<>>
    BY <1>1, <2>2
  <2>3. CASE Finish(w) /\ wpc[w] \in Busy
    BY <1>1, <2>3, FinishEffect DEF Finish, Busy, TypeOK
  <2>4. QED
    BY <1>2, <2>1, <2>2, <2>3, WorkerStep DEF Reads, Works, Rests, Starts, Settles, MovesOn,
       Abandon, Goto, Busy, TypeOK
<1>3. QED
  BY <1>1, <1>2, SubmitFrame DEF Next, vars

\* In FastAPI and NestJS no more accepted jobs are lost than commands failed,
\* replies were lost and processes died, for any number of each.
THEOREM FaultsCostOneJob == Spec => []OneLossPerFault
<1> DEFINE Inv == OutcomeInv /\ LossInv
<1>1. Init => Inv
  <2> SUFFICES ASSUME Init PROVE LossInv
    BY OutcomeInit
  <2>1. AllLost = {}
    BY DEF Init, AllLost, Lost
  <2>2. QED
    BY <2>1, FS_EmptySet DEF Init, LossInv, OneByOne
<1>2. Inv /\ [Next]_vars => Inv'
  <2> SUFFICES ASSUME Inv, [Next]_vars, framework # "spring"
               PROVE  IsFiniteSet(AllLost') /\ Cardinality(AllLost') <= faults'
    BY OutcomeStep, OneByOneStep, SubmitFrame, WorkerFrame DEF LossInv, Next, vars
  <2>1. /\ IsFiniteSet(AllLost) /\ Cardinality(AllLost) \in Nat
        /\ Cardinality(AllLost) <= faults /\ faults \in Nat
    BY FS_CardinalityType DEF LossInv, OutcomeInv, HeldInv, TypeOK
  <2>2. CASE faults' = faults /\ \A j \in Jobs : Lost(j)' => Lost(j)
    <3>1. AllLost' \subseteq AllLost
      BY <2>2 DEF AllLost
    <3>2. QED
      BY <2>1, <2>2, <3>1, FS_Subset, FS_CardinalityType
  <2>3. ASSUME faults' = faults + 1, NEW k, \A j \in Jobs : Lost(j)' => Lost(j) \/ j = k
        PROVE  IsFiniteSet(AllLost') /\ Cardinality(AllLost') <= faults'
    <3>1. AllLost' \subseteq AllLost \cup {k}
      BY <2>3 DEF AllLost
    <3>2. /\ IsFiniteSet(AllLost \cup {k}) /\ Cardinality(AllLost \cup {k}) \in Nat
          /\ Cardinality(AllLost \cup {k}) <= faults + 1
      <4>1. /\ IsFiniteSet(AllLost \cup {k}) /\ Cardinality(AllLost \cup {k}) \in Nat
            /\ \/ Cardinality(AllLost \cup {k}) = Cardinality(AllLost)
               \/ Cardinality(AllLost \cup {k}) = Cardinality(AllLost) + 1
        BY <2>1, FS_AddElement, FS_CardinalityType
      <4>2. QED
        BY <2>1, <4>1
    <3>3. IsFiniteSet(AllLost') /\ Cardinality(AllLost') \in Nat
          /\ Cardinality(AllLost') <= Cardinality(AllLost \cup {k})
      BY <3>1, <3>2, FS_Subset, FS_CardinalityType
    <3>4. QED
      BY <2>1, <2>3, <3>2, <3>3
  <2>4. QED
    BY <2>2, <2>3, StepLoses DEF OneAtMost
<1>3. Inv => OneLossPerFault
  <2> SUFFICES ASSUME Inv, framework # "spring" PROVE Cardinality(LostJobs) <= faults
    BY DEF OneLossPerFault
  <2>1. ASSUME NEW j \in LostJobs, NEW w \in Workers, Reporting(w), CurrentJob(w) = j
        PROVE  FALSE
    <3>1. Current(w) \in Messages /\ Current(w) \in Held(w) /\ stream[Current(w)] = j
      BY <2>1, HeldType DEF OutcomeInv, HeldInv, Reporting, CurrentJob
    <3>2. QED
      BY <2>1, <3>1 DEF LostJobs, Stranded, MessagesOf
  <2>2. LostJobs \subseteq AllLost
    BY <2>1 DEF LostJobs, AllLost, Lost, Stranded
  <2>3. IsFiniteSet(AllLost) /\ Cardinality(AllLost) <= faults /\ faults \in Nat
    BY DEF LossInv, OutcomeInv, HeldInv, TypeOK
  <2>4. QED
    BY <2>2, <2>3, FS_Subset, FS_CardinalityType
<1>4. QED
  BY <1>1, <1>2, <1>3, PTL DEF Spec
=============================================================================
