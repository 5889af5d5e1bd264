------------------------ MODULE JobQueue_refinement ------------------------
(***************************************************************************)
(* The job queue implements WorkQueue: every step of hash, stream, group   *)
(* and workers is one of the abstract queue's, or none, for any number of  *)
(* jobs, workers and faults.                                               *)
(***************************************************************************)
EXTENDS JobQueue_proofs

HandedOut == IF delivered = -1 THEN 0 ELSE delivered

-----------------------------------------------------------------------------
(***************************************************************************)
(* The refinement mapping.                                                 *)
(***************************************************************************)

\* The line is the part of the stream behind the group's position.
WaitingIsRest ==
  /\ Waiting \in Seq(Jobs) /\ HandedOut \in 0..Len(stream)
  /\ Len(Waiting) \in Nat /\ Len(Waiting) = Len(stream) - HandedOut
  /\ \A i \in 1..Len(Waiting) : Waiting[i] = stream[HandedOut + i]

LEMMA WaitingType == TypeOK => WaitingIsRest
<1> SUFFICES ASSUME TypeOK PROVE WaitingIsRest
  OBVIOUS
<1> USE DEF WaitingIsRest
<1>1. stream \in Seq(Jobs) /\ Len(stream) \in Nat /\ delivered \in -1..Len(stream)
  BY DEF TypeOK
<1>2. CASE delivered = -1
  BY <1>1, <1>2 DEF Waiting, HandedOut
<1>3. CASE delivered # -1
  <2>1. delivered \in 0..Len(stream) /\ HandedOut = delivered
    BY <1>1, <1>3 DEF HandedOut
  <2>2. \A i \in delivered + 1 .. Len(stream) : stream[i] \in Jobs
    BY <1>1, <2>1
  <2>3. Waiting = SubSeq(stream, delivered + 1, Len(stream))
    BY <1>3 DEF Waiting
  <2>4. /\ Waiting \in Seq(Jobs)
        /\ Len(Waiting) = IF delivered + 1 <= Len(stream)
                          THEN Len(stream) - (delivered + 1) + 1 ELSE 0
        /\ \A i \in 1 .. Len(stream) - (delivered + 1) + 1 :
             Waiting[i] = stream[delivered + 1 + i - 1]
    BY <1>1, <2>1, <2>2, <2>3, SubSeqProperties
  <2>5. Len(Waiting) = Len(stream) - delivered
    BY <1>1, <2>1, <2>4
  <2>6. ASSUME NEW i \in 1..Len(Waiting) PROVE Waiting[i] = stream[delivered + i]
    <3>1. i \in 1 .. Len(stream) - (delivered + 1) + 1 /\ delivered + 1 + i - 1 = delivered + i
      BY <1>1, <2>1, <2>5
    <3>2. QED
      BY <2>4, <3>1
  <2>7. QED
    BY <1>1, <2>1, <2>4, <2>5, <2>6
<1>4. QED
  BY <1>2, <1>3

\* What a worker has in hand are the jobs of its batch.
HandsAreJobs ==
  /\ InHand \in [Workers -> Seq(Jobs)]
  /\ \A w \in Workers :
       /\ Len(InHand[w]) = Len(batch[w]) /\ Len(batch[w]) \in Nat
       /\ \A i \in 1..Len(batch[w]) : InHand[w][i] = stream[batch[w][i]]
       /\ (InHand[w] = <<>>) <=> (batch[w] = <<>>)

LEMMA HandsType == TypeOK => HandsAreJobs
<1> SUFFICES ASSUME TypeOK PROVE HandsAreJobs
  OBVIOUS
<1>1. ASSUME NEW w \in Workers
      PROVE  /\ InHand[w] \in Seq(Jobs)
             /\ Len(InHand[w]) = Len(batch[w]) /\ Len(batch[w]) \in Nat
             /\ \A i \in 1..Len(batch[w]) : InHand[w][i] = stream[batch[w][i]]
             /\ (InHand[w] = <<>>) <=> (batch[w] = <<>>)
  <2>1. batch[w] \in Seq(Messages) /\ stream \in Seq(Jobs)
    BY DEF TypeOK
  <2>2. Len(batch[w]) \in Nat /\ DOMAIN batch[w] = 1..Len(batch[w])
    BY <2>1, LenProperties
  <2>3. \A i \in 1..Len(batch[w]) : stream[batch[w][i]] \in Jobs
    BY <2>1, <2>2, ElementOfSeq DEF Messages
  <2>4. InHand[w] = [i \in 1..Len(batch[w]) |-> stream[batch[w][i]]]
    BY <2>2 DEF InHand
  <2>5. InHand[w] \in Seq(Jobs) /\ Len(InHand[w]) = Len(batch[w])
    BY <2>2, <2>3, <2>4
  <2>6. (InHand[w] = <<>>) <=> (batch[w] = <<>>)
    BY <2>1, <2>2, <2>5, EmptySeq
  <2>7. QED
    BY <2>2, <2>4, <2>5, <2>6
<1>2. QED
  BY <1>1 DEF InHand, HandsAreJobs

\* Two states with the same messages in hand map to the same hands.
LEMMA HandEqual ==
  ASSUME TypeOK, TypeOK', NEW w \in Workers, batch'[w] = batch[w],
         \A m \in Messages : stream'[m] = stream[m]
  PROVE  InHand'[w] = InHand[w]
<1>1. \A i \in DOMAIN batch[w] : batch[w][i] \in Messages
  <2>1. batch[w] \in Seq(Messages)
    BY DEF TypeOK
  <2>2. QED
    BY <2>1, LenProperties, ElementOfSeq
<1>2. QED
  BY <1>1 DEF InHand

\* When the group stays where it is, the line and the hands of those whose
\* batch does not change stay as well.
LEMMA LineStays ==
  ASSUME TypeOK, stream' = stream, delivered' = delivered
  PROVE  Waiting' = Waiting
BY DEF Waiting

\* The group moves on by n messages: they leave the line.
LEMMA LineAdvances ==
  ASSUME TypeOK, TypeOK', stream' = stream, delivered # -1,
         NEW n \in 1 .. Len(stream) - delivered, delivered' = delivered + n
  PROVE  n \in 1..Len(Waiting) /\ Waiting' = SubSeq(Waiting, n + 1, Len(Waiting))
<1>1. delivered \in 0..Len(stream) /\ Len(stream) \in Nat /\ delivered' # -1
  BY DEF TypeOK
<1>2. HandedOut = delivered /\ HandedOut' = delivered + n
  BY <1>1 DEF HandedOut
<1>3. /\ Waiting \in Seq(Jobs) /\ Len(Waiting) = Len(stream) - delivered
      /\ \A i \in 1..Len(Waiting) : Waiting[i] = stream[delivered + i]
  BY <1>2, WaitingType DEF WaitingIsRest
<1>4. /\ Waiting' \in Seq(Jobs) /\ Len(Waiting') = Len(stream) - (delivered + n)
      /\ \A i \in 1..Len(Waiting') : Waiting'[i] = stream[delivered + n + i]
  <2>1. WaitingIsRest'
    BY WaitingType, PTL
  <2>2. QED
    BY <1>2, <2>1 DEF WaitingIsRest
<1>5. DEFINE Rest == SubSeq(Waiting, n + 1, Len(Waiting))
<1>6. n \in 1..Len(Waiting) /\ Len(Waiting) \in Nat
  BY <1>1, <1>3
<1>7. \A i \in n + 1 .. Len(Waiting) : Waiting[i] \in Jobs
  BY <1>3, <1>6, ElementOfSeq
<1>8. /\ Rest \in Seq(Jobs)
      /\ Len(Rest) = IF n + 1 <= Len(Waiting) THEN Len(Waiting) - (n + 1) + 1 ELSE 0
      /\ \A i \in 1 .. Len(Waiting) - (n + 1) + 1 : Rest[i] = Waiting[n + 1 + i - 1]
  BY <1>6, <1>7, SubSeqProperties
<1>9. Len(Rest) = Len(Waiting')
  <2>1. Len(Rest) = IF n + 1 <= Len(Waiting) THEN Len(Waiting) - (n + 1) + 1 ELSE 0
    BY <1>8
  <2>2. Len(Waiting) = Len(stream) - delivered /\ Len(Waiting') = Len(stream) - (delivered + n)
    BY <1>3, <1>4
  <2> HIDE DEF Rest
  <2>3. QED
    BY <1>1, <1>6, <2>1, <2>2
<1>10. ASSUME NEW i \in 1..Len(Waiting') PROVE Waiting'[i] = Rest[i]
  <2>1. /\ i \in 1 .. Len(Waiting) - (n + 1) + 1 /\ n + 1 + i - 1 = n + i
        /\ n + i \in 1..Len(Waiting) /\ delivered + (n + i) = delivered + n + i
    BY <1>1, <1>3, <1>4, <1>6
  <2>2. Rest[i] = Waiting[n + i]
    BY <1>8, <2>1
  <2>3. QED
    BY <1>3, <1>4, <2>1, <2>2
<1>11. Waiting' = Rest
  <2> HIDE DEF Rest
  <2>1. QED
    BY <1>4, <1>8, <1>9, <1>10, SeqEqual
<1>12. QED
  BY <1>6, <1>11

\* A message is added: it is the last of the line.
LEMMA LineGrows ==
  ASSUME TypeOK, TypeOK', NEW j \in Jobs, stream' = Append(stream, j), delivered' = delivered
  PROVE  Waiting' = Append(Waiting, j)
<1>1. /\ WaitingIsRest /\ WaitingIsRest' /\ HandedOut' = HandedOut
      /\ stream \in Seq(Jobs) /\ Len(stream) \in Nat
  <2>1. WaitingIsRest'
    BY WaitingType, PTL
  <2>2. QED
    BY <2>1, WaitingType DEF HandedOut, TypeOK
<1>2. /\ Len(stream') = Len(stream) + 1 /\ stream'[Len(stream) + 1] = j
      /\ \A m \in 1..Len(stream) : stream'[m] = stream[m]
  BY <1>1
<1> DEFINE longer == Append(Waiting, j)
<1>3. /\ Waiting \in Seq(Jobs) /\ Len(Waiting) \in Nat /\ Len(Waiting) = Len(stream) - HandedOut
      /\ HandedOut \in 0..Len(stream)
      /\ \A i \in 1..Len(Waiting) : Waiting[i] = stream[HandedOut + i]
  BY <1>1 DEF WaitingIsRest
<1>4. /\ Waiting' \in Seq(Jobs) /\ Len(Waiting') = Len(stream) + 1 - HandedOut
      /\ \A i \in 1..Len(Waiting') : Waiting'[i] = stream'[HandedOut + i]
  BY <1>1, <1>2 DEF WaitingIsRest
<1>5. /\ longer \in Seq(Jobs) /\ Len(longer) = Len(Waiting) + 1
      /\ \A i \in 1..Len(Waiting) : longer[i] = Waiting[i]
      /\ longer[Len(Waiting) + 1] = j
  BY <1>3, AppendProperties
<1> HIDE DEF longer
<1>6. Len(longer) = Len(Waiting')
  BY <1>1, <1>3, <1>4, <1>5
<1>7. ASSUME NEW i \in 1..Len(Waiting') PROVE Waiting'[i] = longer[i]
  <2>1. CASE i \in 1..Len(Waiting)
    <3>1. HandedOut + i \in 1..Len(stream)
      BY <1>1, <1>3, <2>1
    <3>2. QED
      BY <1>2, <1>3, <1>4, <1>5, <2>1, <3>1
  <2>2. CASE i = Len(Waiting) + 1
    <3>1. HandedOut + i = Len(stream) + 1
      BY <1>1, <1>3, <2>2
    <3>2. QED
      BY <1>2, <1>4, <1>5, <2>2, <3>1
  <2>3. Len(Waiting') = Len(Waiting) + 1 /\ Len(Waiting) \in Nat
    BY <1>3, <1>5, <1>6
  <2>4. QED
    BY <2>1, <2>2, <2>3
<1>8. Waiting' = longer
  BY <1>4, <1>5, <1>6, <1>7, SeqEqual
<1>9. QED
  BY <1>8 DEF longer

\* The group is created: the line stays, or is given up.
LEMMA LineEnsured ==
  ASSUME TypeOK, stream' = stream, EnsureConsumerGroup
  PROVE  Waiting' \in {Waiting, <<>>}
<1>1. stream \in Seq(Jobs) /\ Len(stream) \in Nat
  BY DEF TypeOK
<1>2. CASE delivered' = delivered
  BY <1>2 DEF Waiting
<1>3. CASE delivered = -1 /\ delivered' = 0
  <2>1. Waiting' = SubSeq(stream, 1, Len(stream)) /\ Waiting = stream
    BY <1>3 DEF Waiting
  <2>2. QED
    BY <1>1, <2>1, SubSeqFull
<1>4. CASE delivered = -1 /\ delivered' = Len(stream)
  <2>1. Waiting' = SubSeq(stream, Len(stream) + 1, Len(stream))
    BY <1>1, <1>4 DEF Waiting
  <2>2. QED
    BY <1>1, <2>1, SubSeqEmpty
<1>5. QED
  BY <1>2, <1>3, <1>4 DEF EnsureConsumerGroup

\* Giving the line up is skipping all of it.
LEMMA LineGivenUp ==
  ASSUME TypeOK, Waiting' = <<>>, UNCHANGED <<status, InHand>>
  PROVE  Queue!Skip \/ UNCHANGED Queue!vars
<1>1. Waiting \in Seq(Jobs) /\ Len(Waiting) \in Nat
  BY WaitingType DEF WaitingIsRest
<1>2. CASE Waiting = <<>>
  BY <1>2 DEF Queue!vars
<1>3. CASE Waiting # <<>>
  <2>1. Len(Waiting) \in 1..Len(Waiting)
    BY <1>1, <1>3, EmptySeq
  <2>2. SubSeq(Waiting, Len(Waiting) + 1, Len(Waiting)) = <<>>
    BY <1>1, SubSeqEmpty
  <2>3. QED
    BY <2>1, <2>2 DEF Queue!Skip, Queue!Advance
<1>4. QED
  BY <1>2, <1>3

-----------------------------------------------------------------------------
(***************************************************************************)
(* The steps.                                                              *)
(***************************************************************************)

\* The hands only change with the batches, and a batch keeps its messages.
LEMMA HandsStay ==
  ASSUME TypeOK, TypeOK', UNCHANGED batch, \A m \in Messages : stream'[m] = stream[m]
  PROVE  InHand' = InHand
<1>1. \A w \in Workers : InHand'[w] = InHand[w]
  BY HandEqual
<1>2. QED
  BY <1>1 DEF InHand

\* One worker's batch changes, to what has the jobs s.
LEMMA HandChanges ==
  ASSUME TypeOK, TypeOK', stream' = stream, NEW w \in Workers, NEW s,
         \A v \in Workers \ {w} : batch'[v] = batch[v], InHand'[w] = s
  PROVE  InHand' = [InHand EXCEPT ![w] = s]
<1>1. \A v \in Workers \ {w} : InHand'[v] = InHand[v]
  BY HandEqual
<1>2. QED
  BY <1>1 DEF InHand

\* The batch is abandoned.
LEMMA HandsAbandon ==
  ASSUME TypeOK, TypeOK', stream' = stream, NEW w \in Workers, batch' = [batch EXCEPT ![w] = <<>>]
  PROVE  InHand' = [InHand EXCEPT ![w] = <<>>]
<1>1. batch'[w] = <<>> /\ \A v \in Workers \ {w} : batch'[v] = batch[v]
  BY DEF TypeOK
<1>2. InHand'[w] = <<>>
  BY <1>1 DEF InHand
<1>3. QED
  BY <1>1, <1>2, HandChanges

\* The worker is through with the first message.
LEMMA HandsFinish ==
  ASSUME HeldInv, TypeOK', stream' = stream, NEW w \in Workers,
         wpc[w] \notin {"idle", "dead"}, Finish(w)
  PROVE  InHand' = [InHand EXCEPT ![w] = Tail(@)]
<1> USE DEF HeldInv
<1>1. /\ Len(batch'[w]) = Len(batch[w]) - 1
      /\ \A i \in 1..Len(batch'[w]) : i + 1 \in 1..Len(batch[w]) /\ batch'[w][i] = batch[w][i + 1]
  BY FinishEffect
<1>2. /\ InHand[w] \in Seq(Jobs) /\ InHand[w] # <<>>
      /\ Len(InHand[w]) = Len(batch[w]) /\ Len(batch[w]) \in Nat
      /\ \A i \in 1..Len(batch[w]) : InHand[w][i] = stream[batch[w][i]]
  BY HandsType DEF HandsAreJobs, TypeOK
<1>3. /\ InHand'[w] \in Seq(Jobs) /\ Len(InHand'[w]) = Len(batch'[w])
      /\ \A i \in 1..Len(batch'[w]) : InHand'[w][i] = stream[batch'[w][i]]
  <2>1. HandsAreJobs'
    BY HandsType, PTL
  <2>2. QED
    BY <2>1 DEF HandsAreJobs
<1>4. /\ Tail(InHand[w]) \in Seq(Jobs) /\ Len(Tail(InHand[w])) = Len(InHand[w]) - 1
      /\ \A i \in 1..Len(Tail(InHand[w])) : Tail(InHand[w])[i] = InHand[w][i + 1]
  BY <1>2, HeadTailProperties
<1>5. ASSUME NEW i \in 1..Len(InHand'[w]) PROVE InHand'[w][i] = Tail(InHand[w])[i]
  <2>1. i \in 1..Len(batch'[w]) /\ i \in 1..Len(Tail(InHand[w]))
    BY <1>1, <1>2, <1>3, <1>4
  <2>2. InHand'[w][i] = stream[batch[w][i + 1]] /\ i + 1 \in 1..Len(batch[w])
    BY <1>1, <1>3, <2>1
  <2>3. QED
    BY <1>2, <1>4, <2>1, <2>2
<1>6. InHand'[w] = Tail(InHand[w])
  <2>1. /\ InHand'[w] \in Seq(Jobs) /\ Tail(InHand[w]) \in Seq(Jobs)
        /\ Len(InHand'[w]) = Len(Tail(InHand[w]))
    BY <1>1, <1>2, <1>3, <1>4
  <2>2. QED
    BY <1>5, <2>1, SeqEqual
<1>7. \A v \in Workers \ {w} : batch'[v] = batch[v]
  <2>1. batch' = [batch EXCEPT ![w] = Tail(batch[w])] /\ DOMAIN batch = Workers
    BY DEF Finish, TypeOK
  <2>2. QED
    BY <2>1
<1>8. InHand' = [InHand EXCEPT ![w] = Tail(InHand[w])]
  BY <1>6, <1>7, HandChanges
<1>9. QED
  BY <1>8

\* A worker reads the first messages of the line.
LEMMA HandsRead ==
  ASSUME TypeOK, TypeOK', NEW w \in Workers, ReadGroup(w)
  PROVE  /\ ReadSize \in 1..Len(Waiting)
         /\ Waiting' = SubSeq(Waiting, ReadSize + 1, Len(Waiting))
         /\ InHand' = [InHand EXCEPT ![w] = SubSeq(Waiting, 1, ReadSize)]
<1>1. /\ ReadSize \in 1 .. Len(stream) - delivered /\ ReadSize \in Nat
      /\ Len(batch'[w]) = ReadSize /\ \A i \in 1..ReadSize : batch'[w][i] = delivered + i
      /\ \A v \in Workers \ {w} : batch'[v] = batch[v]
  BY ReadEffect
<1>2. delivered # -1 /\ delivered' = delivered + ReadSize /\ stream' = stream
  BY DEF ReadGroup, Deliver
<1>3. /\ ReadSize \in 1..Len(Waiting)
      /\ Waiting' = SubSeq(Waiting, ReadSize + 1, Len(Waiting))
  BY <1>1, <1>2, LineAdvances
<1>4. /\ Waiting \in Seq(Jobs) /\ Len(Waiting) \in Nat
      /\ \A i \in 1..Len(Waiting) : Waiting[i] = stream[delivered + i]
  BY <1>2, WaitingType DEF WaitingIsRest, HandedOut
<1> DEFINE first == SubSeq(Waiting, 1, ReadSize)
<1>5. /\ first \in Seq(Jobs) /\ Len(first) = ReadSize
      /\ \A i \in 1..ReadSize : first[i] = Waiting[i]
  <2>1. \A i \in 1..ReadSize : i \in 1..Len(Waiting) /\ Waiting[i] \in Jobs
    BY <1>1, <1>3, <1>4, ElementOfSeq
  <2>2. /\ first \in Seq(Jobs)
        /\ Len(first) = IF 1 <= ReadSize THEN ReadSize - 1 + 1 ELSE 0
        /\ \A i \in 1 .. ReadSize - 1 + 1 : first[i] = Waiting[1 + i - 1]
    BY <1>1, <2>1, SubSeqProperties
  <2> HIDE DEF first
  <2>3. 1 <= ReadSize /\ ReadSize - 1 + 1 = ReadSize /\ \A i \in 1..ReadSize : 1 + i - 1 = i
    BY <1>1, <1>3, <1>4
  <2>4. QED
    BY <2>2, <2>3
<1>6. /\ InHand'[w] \in Seq(Jobs) /\ Len(InHand'[w]) = Len(batch'[w])
      /\ \A i \in 1..Len(batch'[w]) : InHand'[w][i] = stream[batch'[w][i]]
  <2>1. HandsAreJobs'
    BY HandsType, PTL
  <2>2. QED
    BY <1>2, <2>1 DEF HandsAreJobs
<1> HIDE DEF first
<1>7. ASSUME NEW i \in 1..ReadSize PROVE InHand'[w][i] = first[i]
  <2>1. i \in 1..Len(Waiting) /\ i \in 1..Len(batch'[w])
    BY <1>1, <1>3, <1>4
  <2>2. InHand'[w][i] = stream[delivered + i]
    BY <1>1, <1>6, <2>1
  <2>3. first[i] = stream[delivered + i]
    BY <1>4, <1>5, <2>1
  <2>4. QED
    BY <2>2, <2>3
<1>8. InHand'[w] = first
  <2>1. /\ InHand'[w] \in Seq(Jobs) /\ Len(InHand'[w]) = Len(first)
        /\ \A i \in 1..Len(InHand'[w]) : InHand'[w][i] = first[i]
    BY <1>1, <1>5, <1>6, <1>7
  <2>2. QED
    BY <1>5, <2>1, SeqEqual
<1>9. InHand' = [InHand EXCEPT ![w] = first]
  BY <1>1, <1>2, <1>8, HandChanges
<1>10. QED
  BY <1>3, <1>9 DEF first

AbstractStep == Queue!Next \/ UNCHANGED Queue!vars

\* A submission registers the job or adds its message.
LEMMA SubmitRefines ==
  ASSUME TypeOK, TypeOK', KnownInv, NEW j \in Jobs, Submit(j) \/ SubmitFault(j)
  PROVE  AbstractStep
<1> USE DEF AbstractStep
<1>1. InHand' = InHand
  <2>1. [Next]_vars
    BY DEF Next
  <2>2. UNCHANGED batch /\ \A m \in Messages : stream'[m] = stream[m]
    BY <2>1, SubmitFrame, MessagesStay
  <2>3. QED
    BY <2>2, HandsStay
<1>2. CASE stream' = stream /\ status' = [status EXCEPT ![j] = "PENDING"]
           /\ submit[j] = "new" /\ (EnsureConsumerGroup \/ UNCHANGED delivered)
  <2>1. status[j] = "none"
    BY <1>2 DEF KnownInv
  <2>2. Waiting' \in {Waiting, <<>>}
    BY <1>2, LineEnsured, LineStays
  <2>3. Queue!Register(j)
    BY <1>1, <1>2, <2>1, <2>2 DEF Queue!Register
  <2>4. QED
    BY <2>3 DEF Queue!Next
<1>3. CASE stream' = stream /\ status' = status /\ (EnsureConsumerGroup \/ UNCHANGED delivered)
  <2>1. Waiting' \in {Waiting, <<>>}
    BY <1>3, LineEnsured, LineStays
  <2>2. CASE Waiting' = Waiting
    BY <1>1, <1>3, <2>2 DEF Queue!vars
  <2>3. CASE Waiting' = <<>>
    BY <1>1, <1>3, <2>3, LineGivenUp DEF Queue!Next
  <2>4. QED
    BY <2>1, <2>2, <2>3
<1>4. CASE submit[j] = "hashed" /\ stream' = Append(stream, j) /\ UNCHANGED <<status, delivered>>
  <2>1. status[j] # "none" /\ Waiting' = Append(Waiting, j)
    BY <1>4, LineGrows DEF KnownInv
  <2>2. Queue!Enqueue(j)
    BY <1>1, <1>4, <2>1 DEF Queue!Enqueue
  <2>3. QED
    BY <2>2 DEF Queue!Next
<1>5. QED
  BY <1>2, <1>3, <1>4 DEF Submit, SubmitFault, WriteHash, WriteHashFails, AddToStream, AddFails,
     AddReplyLost, ApiCrash, consumer

\* The job a worker is at is the first it has in hand.
LEMMA HandHead ==
  ASSUME TypeOK, NEW w \in Workers, wpc[w] \notin {"idle", "dead"}
  PROVE  /\ InHand[w] # <<>> /\ Head(InHand[w]) = CurrentJob(w)
         /\ CurrentJob(w) \in Jobs
<1>1. /\ InHand[w] \in Seq(Jobs) /\ InHand[w] # <<>>
      /\ InHand[w][1] = stream[batch[w][1]]
  <2>1. Len(batch[w]) > 0 /\ Len(batch[w]) \in Nat
    BY HeldType
  <2>2. QED
    BY <2>1, HandsType DEF HandsAreJobs, TypeOK
<1>2. Head(InHand[w]) = InHand[w][1]
  BY <1>1
<1>3. QED
  BY <1>1, <1>2, HeldType DEF CurrentJob

\* Setting a status is a report, and abandoning the batch a release.
LEMMA ReportRefines ==
  ASSUME TypeOK, TypeOK', UNCHANGED <<stream, delivered>>,
         NEW w \in Workers, wpc[w] \notin {"idle", "dead"},
         NEW s \in {"PROCESSING", "COMPLETED", "FAILED"},
         SetStatus(w, s) \/ UNCHANGED status,
         s # "PROCESSING" => status[CurrentJob(w)] # "PENDING",
         Abandon(w) \/ UNCHANGED batch
  PROVE  AbstractStep
<1> USE DEF AbstractStep
<1>1. Waiting' = Waiting
  BY LineStays
<1>2. InHand' \in {InHand, [InHand EXCEPT ![w] = <<>>]}
  <2>1. CASE Abandon(w)
    BY <2>1, HandsAbandon DEF Abandon
  <2>2. CASE UNCHANGED batch
    BY <2>2, HandsStay
  <2>3. QED
    BY <2>1, <2>2
<1>3. InHand[w] # <<>> /\ Head(InHand[w]) = CurrentJob(w)
  BY HandHead
<1>4. CASE SetStatus(w, s)
  <2>1. Queue!Report(w, s)
    BY <1>1, <1>2, <1>3, <1>4 DEF Queue!Report, SetStatus
  <2>2. QED
    BY <2>1 DEF Queue!Next
<1>5. CASE UNCHANGED status /\ InHand' = InHand
  BY <1>1, <1>5 DEF Queue!vars
<1>6. CASE UNCHANGED status /\ InHand' = [InHand EXCEPT ![w] = <<>>]
  <2>1. Queue!Release(w)
    BY <1>1, <1>3, <1>6 DEF Queue!Release
  <2>2. QED
    BY <2>1 DEF Queue!Next
<1>7. QED
  BY <1>2, <1>4, <1>5, <1>6

\* The worker at its job.
LEMMA JobRefines ==
  ASSUME HeldInv, TypeOK', KnownInv, NEW w \in Workers,
         \/ StartJob(w) \/ RunTask(w) \/ CompleteJob(w) \/ FailJob(w) \/ Acknowledge(w)
         \/ StartFails(w) \/ CompleteFails(w) \/ AcknowledgeFails(w)
  PROVE  AbstractStep
<1> USE DEF HeldInv
<1>1. wpc[w] \in {"work", "complete", "fail", "ack", "ack_raise"}
        => status[CurrentJob(w)] # "PENDING"
  BY DEF KnownInv, Busy
<1>2. CASE StartJob(w) \/ StartFails(w)
  BY <1>2, ReportRefines DEF StartJob, StartFails, Goto
<1>3. CASE RunTask(w) \/ CompleteJob(w) \/ CompleteFails(w)
  BY <1>1, <1>3, ReportRefines DEF RunTask, CompleteJob, CompleteFails, Goto
<1>4. CASE FailJob(w)
  BY <1>1, <1>4, ReportRefines DEF FailJob, Goto
<1>5. CASE (Acknowledge(w) \/ AcknowledgeFails(w)) /\ Abandon(w)
  BY <1>1, <1>5, ReportRefines DEF Acknowledge, AcknowledgeFails
<1>6. CASE Acknowledge(w) /\ Finish(w)
  <2>1. UNCHANGED <<stream, delivered, status>> /\ wpc[w] \notin {"idle", "dead"}
    BY <1>6 DEF Acknowledge
  <2>2. InHand' = [InHand EXCEPT ![w] = Tail(@)] /\ InHand[w] # <<>> /\ Waiting' = Waiting
    BY <1>6, <2>1, HandsFinish, HandHead, LineStays
  <2>3. Queue!Release(w)
    BY <2>1, <2>2 DEF Queue!Release
  <2>4. QED
    BY <2>3 DEF Queue!Next, AbstractStep
<1>7. QED
  BY <1>2, <1>3, <1>4, <1>5, <1>6 DEF Acknowledge, AcknowledgeFails

\* The worker between its jobs.
LEMMA IdleRefines ==
  ASSUME HeldInv, TypeOK', NEW w \in Workers,
         ReadGroup(w) \/ CreateGroup(w) \/ ReadReplyLost(w) \/ Crash(w) \/ Restart(w)
  PROVE  AbstractStep
<1> USE DEF HeldInv, AbstractStep
<1>1. CASE ReadGroup(w)
  <2>1. InHand[w] = <<>>
    BY <1>1, HandsType DEF HandsAreJobs, ReadGroup, TypeOK
  <2>2. Queue!Take(w)
    BY <1>1, <2>1, HandsRead DEF Queue!Take, Queue!Advance, ReadGroup
  <2>3. QED
    BY <2>2 DEF Queue!Next
<1>2. CASE CreateGroup(w)
  <2>1. /\ UNCHANGED <<status, stream, batch>> /\ InHand' = InHand
        /\ Waiting' \in {Waiting, <<>>}
    BY <1>2, HandsStay, LineEnsured DEF CreateGroup
  <2>2. CASE Waiting' = Waiting
    BY <2>1, <2>2 DEF Queue!vars
  <2>3. CASE Waiting' = <<>>
    BY <2>1, <2>3, LineGivenUp DEF Queue!Next
  <2>4. QED
    BY <2>1, <2>2, <2>3
<1>3. CASE ReadReplyLost(w)
  <2>1. batch' = batch
    BY <1>3 DEF ReadReplyLost, Abandon, TypeOK
  <2>2. UNCHANGED <<status, stream>> /\ InHand' = InHand
    BY <1>3, <2>1, HandsStay DEF ReadReplyLost
  <2>3. /\ ReadSize \in 1 .. Len(stream) - delivered
        /\ delivered' = delivered + ReadSize /\ delivered # -1
    BY <1>3 DEF ReadReplyLost, Deliver, ReadSize, TypeOK
  <2>4. ReadSize \in 1..Len(Waiting) /\ Waiting' = SubSeq(Waiting, ReadSize + 1, Len(Waiting))
    BY <2>2, <2>3, LineAdvances
  <2>5. Queue!Skip
    BY <2>2, <2>4 DEF Queue!Skip, Queue!Advance
  <2>6. QED
    BY <2>5 DEF Queue!Next
<1>4. CASE Crash(w)
  <2>1. UNCHANGED <<status, stream, delivered>> /\ Waiting' = Waiting
    BY <1>4, LineStays DEF Crash
  <2>2. InHand' = [InHand EXCEPT ![w] = <<>>]
    BY <1>4, <2>1, HandsAbandon DEF Crash
  <2>3. CASE InHand[w] = <<>>
    BY <2>1, <2>2, <2>3, HandsType DEF HandsAreJobs, Queue!vars
  <2>4. CASE InHand[w] # <<>>
    BY <2>1, <2>2, <2>4 DEF Queue!Release, Queue!Next
  <2>5. QED
    BY <2>3, <2>4
<1>5. CASE Restart(w)
  BY <1>5, HandsStay, LineStays DEF Restart, Queue!vars
<1>6. QED
  BY <1>1, <1>2, <1>3, <1>4, <1>5

\* Hash, stream, group and workers deliver at most once what was registered,
\* whatever fails: the job queue implements the abstract one.
THEOREM Refines == Spec => DeliversAtMostOnce
<1>1. Init => Queue!Init
  BY DEF Init, Queue!Init, Waiting, InHand
<1>2. OutcomeInv /\ [Next]_vars => [Queue!Next]_(Queue!vars)
  <2> SUFFICES ASSUME OutcomeInv, [Next]_vars PROVE AbstractStep
    BY DEF AbstractStep
  <2>1. HeldInv /\ TypeOK /\ TypeOK' /\ KnownInv
    BY OutcomeStep DEF OutcomeInv, HeldInv
  <2>2. ASSUME NEW j \in Jobs, Submit(j) \/ SubmitFault(j) PROVE AbstractStep
    BY <2>1, <2>2, SubmitRefines
  <2>3. ASSUME NEW w \in Workers, Work(w) \/ WorkFault(w) \/ Restart(w) PROVE AbstractStep
    BY <2>1, <2>3, JobRefines, IdleRefines DEF Work, WorkFault
  <2>4. CASE UNCHANGED vars
    BY <2>4 DEF vars, AbstractStep, Queue!vars, Waiting, InHand
  <2>5. QED
    BY <2>2, <2>3, <2>4 DEF Next
<1>3. QED
  BY <1>1, <1>2, OutcomeInit, OutcomeStep, PTL DEF Spec, DeliversAtMostOnce, Queue!Spec
=============================================================================
