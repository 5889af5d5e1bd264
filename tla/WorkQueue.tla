----------------------------- MODULE WorkQueue -----------------------------
(***************************************************************************)
(* What the job queue of case 2 promises.  A job is known before its       *)
(* message can be seen; messages wait in one line; each is in the hands of *)
(* at most one worker, ever, and only who has it in hand reports on its    *)
(* job.  A message may be lost on its way or out of a worker's hands: the  *)
(* queue delivers at most once.                                            *)
(***************************************************************************)
EXTENDS Integers, Sequences

CONSTANTS Jobs, Workers

VARIABLES status,  \* what a client that polls is told of each job
          queue,   \* the jobs of the messages that wait
          hands    \* the jobs each worker has in hand, the first one first

vars == <<status, queue, hands>>

Init == /\ status = [j \in Jobs |-> "none"]
        /\ queue = <<>>
        /\ hands = [w \in Workers |-> <<>>]

\* The first n messages leave the line.
Advance(n) == queue' = SubSeq(queue, n + 1, Len(queue))

\* A job becomes known; the line may be given up on the way.
Register(j) == /\ status[j] = "none"
               /\ status' = [status EXCEPT ![j] = "PENDING"]
               /\ queue' \in {queue, <<>>}
               /\ UNCHANGED hands

Enqueue(j) == /\ status[j] # "none"
              /\ queue' = Append(queue, j)
              /\ UNCHANGED <<status, hands>>

Take(w) == /\ hands[w] = <<>>
           /\ \E n \in 1..Len(queue) :
                /\ hands' = [hands EXCEPT ![w] = SubSeq(queue, 1, n)]
                /\ Advance(n)
           /\ UNCHANGED status

Skip == /\ \E n \in 1..Len(queue) : Advance(n)
        /\ UNCHANGED <<status, hands>>

\* A job is reported done only once it has been reported under way.
Report(w, s) ==
  /\ hands[w] # <<>>
  /\ s # "PROCESSING" => status[Head(hands[w])] # "PENDING"
  /\ status' = [status EXCEPT ![Head(hands[w])] = s]
  /\ hands' \in {hands, [hands EXCEPT ![w] = <<>>]}
  /\ UNCHANGED queue

\* A worker is through with a message, or drops all it has.
Release(w) == /\ hands[w] # <<>>
              /\ hands' \in {[hands EXCEPT ![w] = Tail(@)], [hands EXCEPT ![w] = <<>>]}
              /\ UNCHANGED <<status, queue>>

Next == \/ \E j \in Jobs : Register(j) \/ Enqueue(j)
        \/ \E w \in Workers : Take(w) \/ Release(w)
        \/ \E w \in Workers, s \in {"PROCESSING", "COMPLETED", "FAILED"} : Report(w, s)
        \/ Skip

Spec == Init /\ [][Next]_vars
=============================================================================
