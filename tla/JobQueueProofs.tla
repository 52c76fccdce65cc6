--------------------------- MODULE JobQueueProofs ---------------------------
(***************************************************************************)
(* Safety of the job queue for every set of jobs and workers, every batch  *)
(* size and any number of faults.                                          *)
(*                                                                         *)
(* The properties of JobQueue are not inductive by themselves: that a      *)
(* popped job cannot be answered twice, say, depends on no second copy of  *)
(* it being on the list, which depends on no web request pushing it again, *)
(* which depends on where that request is.  IInv collects these facts.     *)
(***************************************************************************)
EXTENDS JobQueue, TLAPS

\* A worker holds a job exactly while it runs it or reports on it, and is
\* enqueueing another only in the schedule check or in a run.
WorkerShape ==
    \A w \in Workers :
        /\ job[w] \in Jobs <=> pc[w] \in {"run", "report"}
        /\ child[w] \in Jobs => pc[w] \in {"schedule", "run"}
        /\ child[w] \notin UserJobs
        /\ pc[w] \in {"run", "report"} => processed[w] < BatchSize
        /\ pc[w] # "exited" => failures[w] < MaxFailures

\* A verdict belongs to a job that was run: not to one that waits or is still
\* being enqueued; and an answer is the verdict.
VerdictShape ==
    /\ \A w \in Workers :
        /\ pc[w] = "run" => verdict[job[w]] = "none"
        /\ pc[w] = "report" => verdict[job[w]] \in Verdicts
        /\ child[w] \in Jobs => verdict[child[w]] = "none"
    /\ \A j \in Waiting : verdict[j] = "none"
    /\ \A j \in Jobs :
        /\ results[j] = "absent" => verdict[j] = "none"
        /\ results[j] \in Verdicts => verdict[j] = results[j]

\* A request that has marked its job is the only holder of it; one that has
\* not started has left no trace.
RequestShape ==
    \A j \in UserJobs :
        /\ request[j] = "new" => results[j] = "absent"
        /\ request[j] = "marked" =>
            /\ results[j] = "pending"
            /\ verdict[j] = "none"
            /\ j \notin Waiting \cup Held

\* OneHolder in three parts.
Distinct == \A i, k \in DOMAIN queue : queue[i] = queue[k] => i = k
Apart == \A j \in Waiting : j \notin Held
Hands ==
    \A w, x \in Workers :
        /\ job[w] \in Jobs /\ job[w] = job[x] => w = x
        /\ child[w] \in Jobs /\ child[w] = child[x] => w = x
        /\ job[w] \in Jobs => job[w] # child[x]

IInv ==
    /\ TypeOK
    /\ WorkerShape
    /\ VerdictShape
    /\ RequestShape
    /\ QueuedIsPending
    /\ Distinct /\ Apart /\ Hands
    /\ PendingIsOwned

-----------------------------------------------------------------------------
(* The list and the workers' hands                                         *)

\* RPUSH adds its job behind the others: no other entry changes.
LEMMA PushWaiting ==
    ASSUME queue \in Seq(Jobs), NEW j \in Jobs, queue' = Append(queue, j)
    PROVE  /\ queue' \in Seq(Jobs)
           /\ Waiting' = Waiting \cup {j}
           /\ Distinct /\ j \notin Waiting => Distinct'
<1>1. /\ queue' \in Seq(Jobs)
      /\ Len(queue') = Len(queue) + 1
      /\ \A i \in 1..Len(queue) : queue'[i] = queue[i]
      /\ queue'[Len(queue) + 1] = j
      /\ DOMAIN queue = 1..Len(queue)
      /\ DOMAIN queue' = 1..(Len(queue) + 1)
      /\ Len(queue) \in Nat
  OBVIOUS
<1>2. Waiting' = Waiting \cup {j}
  BY <1>1 DEF Waiting
<1>3. ASSUME Distinct, j \notin Waiting PROVE Distinct'
  BY <1>1, <1>3 DEF Distinct, Waiting
<1> QED
  BY <1>1, <1>2, <1>3

\* LPOP takes the first entry: without duplicates it leaves none of it.
LEMMA PopWaiting ==
    ASSUME queue \in Seq(Jobs), queue # <<>>, queue' = Tail(queue)
    PROVE  /\ queue' \in Seq(Jobs)
           /\ Head(queue) \in Jobs
           /\ Waiting = Waiting' \cup {Head(queue)}
           /\ Distinct => Distinct' /\ Head(queue) \notin Waiting'
<1>1. /\ queue' \in Seq(Jobs)
      /\ Len(queue) \in Nat \ {0}
      /\ Len(queue') = Len(queue) - 1
      /\ \A i \in 1..(Len(queue) - 1) : queue'[i] = queue[i + 1]
      /\ DOMAIN queue = 1..Len(queue)
      /\ DOMAIN queue' = 1..(Len(queue) - 1)
      /\ Head(queue) = queue[1]
      /\ Head(queue) \in Jobs
  OBVIOUS
<1>2. ASSUME NEW x \in Waiting PROVE x \in Waiting' \cup {Head(queue)}
  <2>1. PICK i \in 1..Len(queue) : x = queue[i]
    BY <1>1, <1>2 DEF Waiting
  <2>2. CASE i = 1
    BY <1>1, <2>1, <2>2
  <2>3. CASE i # 1
    <3>1. i - 1 \in 1..(Len(queue) - 1) /\ queue'[i - 1] = queue[i]
      BY <1>1, <2>1, <2>3
    <3> QED
      BY <1>1, <2>1, <3>1 DEF Waiting
  <2> QED
    BY <2>2, <2>3
<1>3. Waiting' \cup {Head(queue)} \subseteq Waiting
  BY <1>1 DEF Waiting
<1>4. ASSUME Distinct PROVE Distinct' /\ Head(queue) \notin Waiting'
  BY <1>1, <1>4 DEF Distinct, Waiting
<1> QED
  BY <1>1, <1>2, <1>3, <1>4

\* What the workers hold are jobs or nothing.
LEMMA HeldJobs ==
    ASSUME TypeOK
    PROVE  /\ Held \subseteq Jobs \cup {NoJob}
           /\ \A w \in Workers : job[w] \in Held /\ child[w] \in Held
           /\ Waiting \subseteq Jobs
BY DEF TypeOK, Held, Waiting

-----------------------------------------------------------------------------
(* Every step preserves IInv                                               *)

\* Steps that move a worker through its frame and touch no job.
LEMMA QuietInv ==
    ASSUME IInv, TypeOK', WorkerShape',
           UNCHANGED <<results, queue, request, job, child, verdict, lost>>,
           \A w \in Workers : \A s \in {"run", "report"} : pc'[w] = s <=> pc[w] = s
    PROVE  IInv'
<1>1. Waiting' = Waiting /\ Held' = Held
  BY DEF Waiting, Held
<1>2. VerdictShape'
  BY <1>1 DEF IInv, VerdictShape
<1>3. RequestShape' /\ QueuedIsPending' /\ PendingIsOwned'
  BY <1>1 DEF IInv, RequestShape, QueuedIsPending, PendingIsOwned
<1>4. Distinct' /\ Apart' /\ Hands'
  BY <1>1 DEF IInv, Distinct, Apart, Hands
<1> QED
  BY <1>2, <1>3, <1>4 DEF IInv

\* Connecting touches no job.
LEMMA ConnectInv ==
    ASSUME IInv, NEW w \in Workers, Connect(w)
    PROVE  IInv'
<1> USE BoundsAssumption, FaultsAssumption DEF Connect, FrameOk, EndFrame, webVars,
   frameVars, historyVars
<1>1. TypeOK'
  BY DEF IInv, TypeOK, WorkerShape
<1>2. WorkerShape'
  BY DEF IInv, TypeOK, WorkerShape
<1>3. \A x \in Workers : \A s \in {"run", "report"} : pc'[x] = s <=> pc[x] = s
  BY DEF IInv, TypeOK
<1> QED
  BY <1>1, <1>2, <1>3, QuietInv

\* Nor does failing to; the frame counts as a failed one.
LEMMA ConnectFailsInv ==
    ASSUME IInv, NEW w \in Workers, ConnectFails(w)
    PROVE  IInv'
<1> USE BoundsAssumption, FaultsAssumption
   DEF ConnectFails, Fault, FrameErr, EndFrame, webVars, frameVars, historyVars
<1>1. TypeOK'
  BY DEF IInv, TypeOK, WorkerShape
<1>2. WorkerShape'
  BY DEF IInv, TypeOK, WorkerShape
<1>3. \A x \in Workers : \A s \in {"run", "report"} : pc'[x] = s <=> pc[x] = s
  BY DEF IInv, TypeOK
<1> QED
  BY <1>1, <1>2, <1>3, QuietInv

\* The sample and the sweep touch no job, whatever their outcome.
LEMMA SweepInv ==
    ASSUME IInv, NEW w \in Workers, NEW o \in Outcomes, Sweep(w, o)
    PROVE  IInv'
<1> USE BoundsAssumption, FaultsAssumption
   DEF Sweep, Issue, Fault, FrameErr, EndFrame, webVars, frameVars, historyVars
<1>1. TypeOK'
  <2>1. CASE o = "ok"
    <3>1. (SampledLength > 0) \in BOOLEAN
      OBVIOUS
    <3>2. busy' \in [Workers -> BOOLEAN]
      BY <2>1, <3>1 DEF IInv, TypeOK
    <3> QED
      BY <2>1, <3>2 DEF IInv, TypeOK
  <2>2. CASE o # "ok"
    <3>1. /\ pc[w] = "frame"
          /\ conn' = [conn EXCEPT ![w] = "none"]
          /\ FrameErr(w)
          /\ UNCHANGED <<results, queue, webVars, job, child, historyVars>>
      BY <2>2
    <3>2. faults' \in 0..MaxFaults
      BY DEF IInv, TypeOK
    <3> HIDE DEF Sweep
    <3> QED
      BY <3>1, <3>2 DEF IInv, TypeOK, WorkerShape
  <2> QED
    BY <2>1, <2>2
<1>2. WorkerShape'
  BY DEF IInv, TypeOK, WorkerShape
<1>3. \A x \in Workers : \A s \in {"run", "report"} : pc'[x] = s <=> pc[x] = s
  BY DEF IInv, TypeOK
<1> QED
  BY <1>1, <1>2, <1>3, QuietInv

\* Nor does entering the batch, or skipping it.
LEMMA StartBatchInv ==
    ASSUME IInv, NEW w \in Workers, StartBatch(w)
    PROVE  IInv'
<1> USE BoundsAssumption, FaultsAssumption
   DEF StartBatch, FrameOk, EndFrame, webVars, frameVars, historyVars
<1>1. TypeOK'
  <2>1. CASE busy[w]
    BY <2>1 DEF IInv, TypeOK
  <2>2. CASE ~busy[w]
    <3>1. /\ FrameOk(w)
          /\ UNCHANGED <<results, queue, webVars, conn, job, child, historyVars, faults>>
      BY <2>2, Zenon
    <3> HIDE DEF StartBatch
    <3> QED
      BY <3>1 DEF IInv, TypeOK
  <2> QED
    BY <2>1, <2>2
<1>2. WorkerShape'
  BY DEF IInv, TypeOK, WorkerShape
<1>3. \A x \in Workers : \A s \in {"run", "report"} : pc'[x] = s <=> pc[x] = s
  BY DEF IInv, TypeOK
<1> QED
  BY <1>1, <1>2, <1>3, QuietInv

\* Nor does leaving it.
LEMMA EndBatchInv ==
    ASSUME IInv, NEW w \in Workers, EndBatch(w)
    PROVE  IInv'
<1> USE BoundsAssumption, FaultsAssumption
   DEF EndBatch, FrameOk, EndFrame, webVars, frameVars, historyVars
<1>1. TypeOK'
  BY DEF IInv, TypeOK, WorkerShape
<1>2. WorkerShape'
  BY DEF IInv, TypeOK, WorkerShape
<1>3. \A x \in Workers : \A s \in {"run", "report"} : pc'[x] = s <=> pc[x] = s
  BY DEF IInv, TypeOK
<1> QED
  BY <1>1, <1>2, <1>3, QuietInv

\* A new request has left no trace, so its marker overwrites nothing.
LEMMA RequestMarkInv ==
    ASSUME IInv, NEW j \in UserJobs, NEW o \in Outcomes, RequestMark(j, o)
    PROVE  IInv'
<1> USE JobsAssumption, BoundsAssumption, FaultsAssumption, HeldJobs
    DEF IInv, RequestMark, Issue, Fault, MarkPending, LinkAfter, Applied, Outcomes,
        Drop, webVars, frameVars, historyVars, Verdicts
<1>1. queue' = queue /\ Waiting' = Waiting
  BY DEF Waiting
<1>2. Held' = Held
  BY DEF Held
<1>3. TypeOK'
  BY <1>1 DEF TypeOK, WorkerShape
<1>4. WorkerShape'
  BY DEF TypeOK, WorkerShape
<1>5. VerdictShape'
  BY <1>1, <1>2 DEF TypeOK, WorkerShape, VerdictShape, RequestShape,
     QueuedIsPending, Apart, Hands
<1>6. RequestShape'
  BY <1>1, <1>2 DEF TypeOK, WorkerShape, VerdictShape, RequestShape, QueuedIsPending
<1>7. QueuedIsPending'
  BY <1>1, <1>2, <1>3 DEF TypeOK, WorkerShape, VerdictShape, RequestShape,
     QueuedIsPending, Apart
<1>8. Distinct' /\ Apart'
  BY <1>1, <1>2 DEF TypeOK, WorkerShape, RequestShape, QueuedIsPending, Distinct,
     Apart
<1>9. Hands'
  BY <1>1, <1>2 DEF TypeOK, WorkerShape, QueuedIsPending, Apart, Hands
<1>10. PendingIsOwned'
  BY <1>1, <1>2 DEF TypeOK, WorkerShape, RequestShape, PendingIsOwned
<1> QED
  BY <1>3, <1>4, <1>5, <1>6, <1>7, <1>8, <1>9, <1>10

\* A marked request is the only holder of its job until it is pushed.
LEMMA RequestPushInv ==
    ASSUME IInv, NEW j \in UserJobs, NEW o \in Outcomes, RequestPush(j, o)
    PROVE  IInv'
<1> USE JobsAssumption, BoundsAssumption, FaultsAssumption, HeldJobs
    DEF IInv, RequestPush, Issue, Fault, PushJob, LinkAfter, Applied, Outcomes,
        Drop, webVars, frameVars, historyVars, Verdicts
<1>1. IF Applied(o)
      THEN queue' \in Seq(Jobs) /\ Waiting' = Waiting \cup {j} /\ Distinct'
      ELSE queue' = queue /\ Waiting' = Waiting
  <2>1. CASE Applied(o)
    BY <2>1, PushWaiting DEF TypeOK, RequestShape
  <2>2. CASE ~Applied(o)
    BY <2>2 DEF Waiting
  <2> QED
    BY <2>1, <2>2
<1>2. Held' = Held
  BY DEF Held
<1>3. TypeOK'
  BY <1>1 DEF TypeOK, WorkerShape
<1>4. WorkerShape'
  BY DEF TypeOK, WorkerShape
<1>5. VerdictShape'
  BY <1>1, <1>2 DEF TypeOK, WorkerShape, VerdictShape, RequestShape,
     QueuedIsPending, Apart, Hands
<1>6. RequestShape'
  BY <1>1, <1>2 DEF TypeOK, WorkerShape, VerdictShape, RequestShape, QueuedIsPending
<1>7. QueuedIsPending'
  BY <1>1, <1>2, <1>3 DEF TypeOK, WorkerShape, VerdictShape, RequestShape,
     QueuedIsPending, Apart
<1>8. Distinct' /\ Apart'
  BY <1>1, <1>2 DEF TypeOK, WorkerShape, RequestShape, QueuedIsPending, Distinct,
     Apart
<1>9. Hands'
  BY <1>1, <1>2 DEF TypeOK, WorkerShape, QueuedIsPending, Apart, Hands
<1>10. PendingIsOwned'
  BY <1>1, <1>2 DEF TypeOK, WorkerShape, RequestShape, PendingIsOwned
<1> QED
  BY <1>3, <1>4, <1>5, <1>6, <1>7, <1>8, <1>9, <1>10

\* A request that gives up loses at most the job it marked.
LEMMA RequestTimeoutInv ==
    ASSUME IInv, NEW j \in UserJobs, RequestTimeout(j)
    PROVE  IInv'
<1> USE JobsAssumption, BoundsAssumption, FaultsAssumption, HeldJobs
    DEF IInv, RequestTimeout, Drop, webVars, frameVars, historyVars, Verdicts
<1>1. queue' = queue /\ Waiting' = Waiting
  BY DEF Waiting
<1>2. Held' = Held
  BY DEF Held
<1>3. TypeOK'
  BY <1>1 DEF TypeOK, WorkerShape
<1>4. WorkerShape'
  BY DEF TypeOK, WorkerShape
<1>5. VerdictShape'
  BY <1>1, <1>2 DEF TypeOK, WorkerShape, VerdictShape, RequestShape,
     QueuedIsPending, Apart, Hands
<1>6. RequestShape'
  BY <1>1, <1>2 DEF TypeOK, WorkerShape, VerdictShape, RequestShape, QueuedIsPending
<1>7. QueuedIsPending'
  BY <1>1, <1>2, <1>3 DEF TypeOK, WorkerShape, VerdictShape, RequestShape,
     QueuedIsPending, Apart
<1>8. Distinct' /\ Apart'
  BY <1>1, <1>2 DEF TypeOK, WorkerShape, RequestShape, QueuedIsPending, Distinct,
     Apart
<1>9. Hands'
  BY <1>1, <1>2 DEF TypeOK, WorkerShape, QueuedIsPending, Apart, Hands
<1>10. PendingIsOwned'
  BY <1>1, <1>2 DEF TypeOK, WorkerShape, RequestShape, PendingIsOwned
<1> QED
  BY <1>3, <1>4, <1>5, <1>6, <1>7, <1>8, <1>9, <1>10

\* A restart loses the jobs marked and not pushed.
LEMMA WebRestartInv ==
    ASSUME IInv, WebRestart
    PROVE  IInv'
<1> USE JobsAssumption, BoundsAssumption, FaultsAssumption, HeldJobs
    DEF IInv, WebRestart, Drop, webVars, frameVars, historyVars, Verdicts
<1>1. queue' = queue /\ Waiting' = Waiting
  BY DEF Waiting
<1>2. Held' = Held
  BY DEF Held
<1>3. TypeOK'
  BY <1>1 DEF TypeOK, WorkerShape
<1>4. WorkerShape'
  BY DEF TypeOK, WorkerShape
<1>5. VerdictShape'
  BY <1>1, <1>2 DEF TypeOK, WorkerShape, VerdictShape, RequestShape,
     QueuedIsPending, Apart, Hands
<1>6. RequestShape'
  BY <1>1, <1>2 DEF TypeOK, WorkerShape, VerdictShape, RequestShape, QueuedIsPending
<1>7. QueuedIsPending'
  BY <1>1, <1>2, <1>3 DEF TypeOK, WorkerShape, VerdictShape, RequestShape,
     QueuedIsPending, Apart
<1>8. Distinct' /\ Apart'
  BY <1>1, <1>2 DEF TypeOK, WorkerShape, RequestShape, QueuedIsPending, Distinct,
     Apart
<1>9. Hands'
  BY <1>1, <1>2 DEF TypeOK, WorkerShape, QueuedIsPending, Apart, Hands
<1>10. PendingIsOwned'
  BY <1>1, <1>2 DEF TypeOK, WorkerShape, RequestShape, PendingIsOwned
<1> QED
  BY <1>3, <1>4, <1>5, <1>6, <1>7, <1>8, <1>9, <1>10

\* A worker marks a job no one has marked before.
LEMMA EnqueueMarkInv ==
    ASSUME IInv, NEW w \in Workers, NEW j \in Jobs, NEW o \in Outcomes, EnqueueMark(w, j, o)
    PROVE  IInv'
<1> USE JobsAssumption, BoundsAssumption, FaultsAssumption, HeldJobs
    DEF IInv, EnqueueMark, MayEnqueue, Percolated, Issue, Fault, MarkPending,
        LinkAfter, Applied, Outcomes, Drop, webVars, frameVars, historyVars,
        Verdicts
<1>1. queue' = queue /\ Waiting' = Waiting
  BY DEF Waiting
<1>2. \A x \in Jobs : x \in Held' <=> x \in Held \/ (o = "ok" /\ x = j)
  BY DEF TypeOK, Held
<1>3. TypeOK'
  BY <1>1 DEF TypeOK, WorkerShape
<1>4. WorkerShape'
  BY DEF TypeOK, WorkerShape
<1>5. VerdictShape'
  BY <1>1, <1>2 DEF TypeOK, WorkerShape, VerdictShape, RequestShape,
     QueuedIsPending, Apart, Hands
<1>6. RequestShape'
  BY <1>1, <1>2 DEF TypeOK, WorkerShape, VerdictShape, RequestShape, QueuedIsPending
<1>7. QueuedIsPending'
  <2>1. Held' \subseteq Jobs \cup {NoJob} /\ Waiting' \subseteq Jobs
    <3>1. /\ job' \in [Workers -> Jobs \cup {NoJob}]
          /\ child' \in [Workers -> Jobs \cup {NoJob}]
      BY <1>3 DEF TypeOK
    <3>2. Waiting' \subseteq Jobs
      BY <1>1 DEF TypeOK
    <3> QED
      BY <3>1, <3>2 DEF Held
  <2>2. SUFFICES ASSUME NEW x \in Jobs, x \in Waiting' \/ x \in Held'
                 PROVE  results'[x] = "pending"
    BY <2>1 DEF QueuedIsPending
  <2> QED
    BY <1>1, <1>2, <1>3, <2>2 DEF TypeOK, WorkerShape, VerdictShape, RequestShape,
       QueuedIsPending, Apart, Hands
<1>8. Distinct' /\ Apart'
  BY <1>1, <1>2 DEF TypeOK, WorkerShape, RequestShape, QueuedIsPending, Distinct,
     Apart
<1>9. Hands'
  BY <1>1, <1>2 DEF TypeOK, WorkerShape, QueuedIsPending, Apart, Hands
<1>10. PendingIsOwned'
  BY <1>1, <1>2 DEF TypeOK, WorkerShape, RequestShape, PendingIsOwned
<1> QED
  BY <1>3, <1>4, <1>5, <1>6, <1>7, <1>8, <1>9, <1>10

\* The pushed job leaves the hand of the worker that marked it.
LEMMA EnqueuePushInv ==
    ASSUME IInv, NEW w \in Workers, NEW o \in Outcomes, EnqueuePush(w, o)
    PROVE  IInv'
<1> USE JobsAssumption, BoundsAssumption, FaultsAssumption, HeldJobs
    DEF IInv, EnqueuePush, Issue, Fault, PushJob, LinkAfter, Applied, Outcomes,
        Drop, webVars, frameVars, historyVars, Verdicts
<1>1. IF Applied(o)
      THEN queue' \in Seq(Jobs) /\ Waiting' = Waiting \cup {child[w]} /\ Distinct'
      ELSE queue' = queue /\ Waiting' = Waiting
  <2>1. CASE Applied(o)
    BY <2>1, PushWaiting DEF TypeOK, Apart
  <2>2. CASE ~Applied(o)
    BY <2>2 DEF Waiting
  <2> QED
    BY <2>1, <2>2
<1>2. \A x \in Jobs : x \in Held' <=> x \in Held /\ x # child[w]
  BY DEF TypeOK, Held, Hands
<1>3. TypeOK'
  BY <1>1 DEF TypeOK, WorkerShape
<1>4. WorkerShape'
  BY DEF TypeOK, WorkerShape
<1>5. VerdictShape'
  BY <1>1, <1>2 DEF TypeOK, WorkerShape, VerdictShape, RequestShape,
     QueuedIsPending, Apart, Hands
<1>6. RequestShape'
  BY <1>1, <1>2 DEF TypeOK, WorkerShape, VerdictShape, RequestShape, QueuedIsPending
<1>7. QueuedIsPending'
  <2>1. Held' \subseteq Jobs \cup {NoJob} /\ Waiting' \subseteq Jobs
    <3>1. /\ job' \in [Workers -> Jobs \cup {NoJob}]
          /\ child' \in [Workers -> Jobs \cup {NoJob}]
      BY <1>3 DEF TypeOK
    <3>2. Waiting' \subseteq Jobs
      BY <1>1 DEF TypeOK
    <3> QED
      BY <3>1, <3>2 DEF Held
  <2>2. SUFFICES ASSUME NEW x \in Jobs, x \in Waiting' \/ x \in Held'
                 PROVE  results'[x] = "pending"
    BY <2>1 DEF QueuedIsPending
  <2> QED
    BY <1>1, <1>2, <1>3, <2>2 DEF TypeOK, WorkerShape, VerdictShape, RequestShape,
       QueuedIsPending, Apart, Hands
<1>8. Distinct' /\ Apart'
  BY <1>1, <1>2 DEF TypeOK, WorkerShape, RequestShape, QueuedIsPending, Distinct,
     Apart
<1>9. Hands'
  BY <1>1, <1>2 DEF TypeOK, WorkerShape, QueuedIsPending, Apart, Hands
<1>10. PendingIsOwned'
  BY <1>1, <1>2 DEF TypeOK, WorkerShape, RequestShape, PendingIsOwned
<1> QED
  BY <1>3, <1>4, <1>5, <1>6, <1>7, <1>8, <1>9, <1>10

\* The popped job leaves the list: the worker is its only holder.
LEMMA PopJobInv ==
    ASSUME IInv, NEW w \in Workers, PopJob(w)
    PROVE  IInv'
<1> USE JobsAssumption, BoundsAssumption, FaultsAssumption, HeldJobs
    DEF IInv, PopJob, MayPop, webVars, frameVars, historyVars, Verdicts
<1>1. /\ queue' \in Seq(Jobs)
      /\ Head(queue) \in Jobs
      /\ Waiting = Waiting' \cup {Head(queue)}
      /\ Distinct' /\ Head(queue) \notin Waiting'
  BY PopWaiting DEF TypeOK
<1>2. \A x \in Jobs : x \in Held' <=> x \in Held \/ x = Head(queue)
  <2>1. job[w] \notin Jobs
    BY DEF WorkerShape
  <2> QED
    BY <1>1, <2>1 DEF TypeOK, Held
<1>3. TypeOK'
  BY <1>1 DEF TypeOK, WorkerShape
<1>4. WorkerShape'
  BY DEF TypeOK, WorkerShape
<1>5. VerdictShape'
  BY <1>1, <1>2 DEF TypeOK, WorkerShape, VerdictShape, RequestShape,
     QueuedIsPending, Apart, Hands
<1>6. RequestShape'
  BY <1>1, <1>2 DEF TypeOK, WorkerShape, VerdictShape, RequestShape, QueuedIsPending
<1>7. QueuedIsPending'
  <2>1. Held' \subseteq Jobs \cup {NoJob} /\ Waiting' \subseteq Jobs
    <3>1. /\ job' \in [Workers -> Jobs \cup {NoJob}]
          /\ child' \in [Workers -> Jobs \cup {NoJob}]
      BY <1>3 DEF TypeOK
    <3>2. Waiting' \subseteq Jobs
      BY <1>1 DEF TypeOK
    <3> QED
      BY <3>1, <3>2 DEF Held
  <2>2. SUFFICES ASSUME NEW x \in Jobs, x \in Waiting' \/ x \in Held'
                 PROVE  results'[x] = "pending"
    BY <2>1 DEF QueuedIsPending
  <2> QED
    BY <1>1, <1>2, <1>3, <2>2 DEF TypeOK, WorkerShape, VerdictShape, RequestShape,
       QueuedIsPending, Apart, Hands
<1>8. Distinct' /\ Apart'
  BY <1>1, <1>2 DEF TypeOK, WorkerShape, RequestShape, QueuedIsPending, Distinct,
     Apart
<1>9. Hands'
  BY <1>1, <1>2 DEF TypeOK, WorkerShape, QueuedIsPending, Apart, Hands
<1>10. PendingIsOwned'
  BY <1>1, <1>2 DEF TypeOK, WorkerShape, RequestShape, PendingIsOwned
<1> QED
  BY <1>3, <1>4, <1>5, <1>6, <1>7, <1>8, <1>9, <1>10

\* An expired job leaves the list and is lost.
LEMMA PopExpiredInv ==
    ASSUME IInv, NEW w \in Workers, PopExpired(w)
    PROVE  IInv'
<1> USE JobsAssumption, BoundsAssumption, FaultsAssumption, HeldJobs
    DEF IInv, PopExpired, MayPop, Drop, webVars, frameVars, historyVars, Verdicts
<1>1. /\ queue' \in Seq(Jobs)
      /\ Head(queue) \in Jobs
      /\ Waiting = Waiting' \cup {Head(queue)}
      /\ Distinct' /\ Head(queue) \notin Waiting'
  BY PopWaiting DEF TypeOK
<1>2. Held' = Held
  BY DEF Held
<1>3. TypeOK'
  BY <1>1 DEF TypeOK, WorkerShape
<1>4. WorkerShape'
  BY DEF TypeOK, WorkerShape
<1>5. VerdictShape'
  BY <1>1, <1>2 DEF TypeOK, WorkerShape, VerdictShape, RequestShape,
     QueuedIsPending, Apart, Hands
<1>6. RequestShape'
  BY <1>1, <1>2 DEF TypeOK, WorkerShape, VerdictShape, RequestShape, QueuedIsPending
<1>7. QueuedIsPending'
  BY <1>1, <1>2, <1>3 DEF TypeOK, WorkerShape, VerdictShape, RequestShape,
     QueuedIsPending, Apart
<1>8. Distinct' /\ Apart'
  BY <1>1, <1>2 DEF TypeOK, WorkerShape, RequestShape, QueuedIsPending, Distinct,
     Apart
<1>9. Hands'
  BY <1>1, <1>2 DEF TypeOK, WorkerShape, QueuedIsPending, Apart, Hands
<1>10. PendingIsOwned'
  BY <1>1, <1>2 DEF TypeOK, WorkerShape, RequestShape, PendingIsOwned
<1> QED
  BY <1>3, <1>4, <1>5, <1>6, <1>7, <1>8, <1>9, <1>10

\* A pop whose reply is cut loses at most the head of the list.
LEMMA PopFailsInv ==
    ASSUME IInv, NEW w \in Workers, NEW o \in Outcomes, PopFails(w, o)
    PROVE  IInv'
<1> USE JobsAssumption, BoundsAssumption, FaultsAssumption, HeldJobs
    DEF IInv, PopFails, MayPop, Issue, Fault, Applied, Outcomes, FrameOk, EndFrame,
        Drop, webVars, frameVars, historyVars, Verdicts
<1>1. IF Applied(o) /\ queue # <<>>
      THEN /\ queue' \in Seq(Jobs)
           /\ Head(queue) \in Jobs
           /\ Waiting = Waiting' \cup {Head(queue)}
           /\ Distinct' /\ Head(queue) \notin Waiting'
      ELSE queue' = queue /\ Waiting' = Waiting
  <2>1. CASE Applied(o) /\ queue # <<>>
    BY <2>1, PopWaiting DEF TypeOK
  <2>2. CASE ~(Applied(o) /\ queue # <<>>)
    BY <2>2 DEF Waiting
  <2> QED
    BY <2>1, <2>2
<1>2. Held' = Held
  BY DEF Held
<1>3. TypeOK'
  BY <1>1 DEF TypeOK, WorkerShape
<1>4. WorkerShape'
  BY DEF TypeOK, WorkerShape
<1>5. VerdictShape'
  BY <1>1, <1>2 DEF TypeOK, WorkerShape, VerdictShape, RequestShape,
     QueuedIsPending, Apart, Hands
<1>6. RequestShape'
  BY <1>1, <1>2 DEF TypeOK, WorkerShape, VerdictShape, RequestShape, QueuedIsPending
<1>7. QueuedIsPending'
  BY <1>1, <1>2, <1>3 DEF TypeOK, WorkerShape, VerdictShape, RequestShape,
     QueuedIsPending, Apart
<1>8. Distinct' /\ Apart'
  BY <1>1, <1>2 DEF TypeOK, WorkerShape, RequestShape, QueuedIsPending, Distinct,
     Apart
<1>9. Hands'
  BY <1>1, <1>2 DEF TypeOK, WorkerShape, QueuedIsPending, Apart, Hands
<1>10. PendingIsOwned'
  BY <1>1, <1>2 DEF TypeOK, WorkerShape, RequestShape, PendingIsOwned
<1> QED
  BY <1>3, <1>4, <1>5, <1>6, <1>7, <1>8, <1>9, <1>10

\* A job that runs has no verdict before this one.
LEMMA ExecuteInv ==
    ASSUME IInv, NEW w \in Workers, NEW v \in Verdicts, NEW o \in Outcomes, Execute(w, v, o)
    PROVE  IInv'
<1> USE JobsAssumption, BoundsAssumption, FaultsAssumption, HeldJobs
    DEF IInv, Execute, Issue, Fault, LinkAfter, webVars, frameVars, historyVars,
        Verdicts
<1>1. queue' = queue /\ Waiting' = Waiting
  BY DEF Waiting
<1>2. Held' = Held
  BY DEF Held
<1>3. TypeOK'
  BY <1>1 DEF TypeOK, WorkerShape
<1>4. WorkerShape'
  BY DEF TypeOK, WorkerShape
<1>5. VerdictShape'
  BY <1>1, <1>2 DEF TypeOK, WorkerShape, VerdictShape, RequestShape,
     QueuedIsPending, Apart, Hands
<1>6. RequestShape'
  BY <1>1, <1>2 DEF TypeOK, WorkerShape, VerdictShape, RequestShape, QueuedIsPending
<1>7. QueuedIsPending'
  BY <1>1, <1>2, <1>3 DEF TypeOK, WorkerShape, VerdictShape, RequestShape,
     QueuedIsPending, Apart
<1>8. Distinct' /\ Apart'
  BY <1>1, <1>2 DEF TypeOK, WorkerShape, RequestShape, QueuedIsPending, Distinct,
     Apart
<1>9. Hands'
  BY <1>1, <1>2 DEF TypeOK, WorkerShape, QueuedIsPending, Apart, Hands
<1>10. PendingIsOwned'
  BY <1>1, <1>2 DEF TypeOK, WorkerShape, RequestShape, PendingIsOwned
<1> QED
  BY <1>3, <1>4, <1>5, <1>6, <1>7, <1>8, <1>9, <1>10

\* A job that returns early leaves the hand of its worker and is lost.
LEMMA AbortInv ==
    ASSUME IInv, NEW w \in Workers, Abort(w)
    PROVE  IInv'
<1> USE JobsAssumption, BoundsAssumption, FaultsAssumption, HeldJobs
    DEF IInv, Abort, FrameOk, EndFrame, Drop, webVars, frameVars, historyVars,
        Verdicts
<1>1. queue' = queue /\ Waiting' = Waiting
  BY DEF Waiting
<1>2. \A x \in Jobs : x \in Held' <=> x \in Held /\ x # job[w]
  BY DEF TypeOK, Held, Hands
<1>3. TypeOK'
  BY <1>1 DEF TypeOK, WorkerShape
<1>4. WorkerShape'
  BY DEF TypeOK, WorkerShape
<1>5. VerdictShape'
  BY <1>1, <1>2 DEF TypeOK, WorkerShape, VerdictShape, RequestShape,
     QueuedIsPending, Apart, Hands
<1>6. RequestShape'
  BY <1>1, <1>2 DEF TypeOK, WorkerShape, VerdictShape, RequestShape, QueuedIsPending
<1>7. QueuedIsPending'
  <2>1. Held' \subseteq Jobs \cup {NoJob} /\ Waiting' \subseteq Jobs
    <3>1. /\ job' \in [Workers -> Jobs \cup {NoJob}]
          /\ child' \in [Workers -> Jobs \cup {NoJob}]
      BY <1>3 DEF TypeOK
    <3>2. Waiting' \subseteq Jobs
      BY <1>1 DEF TypeOK
    <3> QED
      BY <3>1, <3>2 DEF Held
  <2>2. SUFFICES ASSUME NEW x \in Jobs, x \in Waiting' \/ x \in Held'
                 PROVE  results'[x] = "pending"
    BY <2>1 DEF QueuedIsPending
  <2> QED
    BY <1>1, <1>2, <1>3, <2>2 DEF TypeOK, WorkerShape, VerdictShape, RequestShape,
       QueuedIsPending, Apart, Hands
<1>8. Distinct' /\ Apart'
  BY <1>1, <1>2 DEF TypeOK, WorkerShape, RequestShape, QueuedIsPending, Distinct,
     Apart
<1>9. Hands'
  BY <1>1, <1>2 DEF TypeOK, WorkerShape, QueuedIsPending, Apart, Hands
<1>10. PendingIsOwned'
  BY <1>1, <1>2 DEF TypeOK, WorkerShape, RequestShape, PendingIsOwned
<1> QED
  BY <1>3, <1>4, <1>5, <1>6, <1>7, <1>8, <1>9, <1>10

\* An answer, or the loss of it, leaves the worker with no job.
LEMMA ReportInv ==
    ASSUME IInv, NEW w \in Workers, NEW o \in Outcomes, Report(w, o)
    PROVE  IInv'
<1> USE JobsAssumption, BoundsAssumption, FaultsAssumption, HeldJobs
    DEF IInv, Report, Counted, Issue, Fault, LinkAfter, Applied, Outcomes, FrameOk,
        EndFrame, Drop, webVars, frameVars, historyVars, Verdicts
<1>1. queue' = queue /\ Waiting' = Waiting
  BY DEF Waiting
<1>2. \A x \in Jobs : x \in Held' <=> x \in Held /\ x # job[w]
  BY DEF TypeOK, Held, Hands
<1>3. TypeOK'
  <2>1. job[w] \in Jobs /\ verdict[job[w]] \in {"success", "failure"} /\ processed[w] < BatchSize
    BY DEF WorkerShape, VerdictShape
  <2>2. results' \in [Jobs -> {"absent", "pending"} \cup {"success", "failure"}]
    BY <2>1 DEF TypeOK
  <2>3. processed' \in [Workers -> 0..BatchSize]
    <3>1. PICK c \in {0, 1} : c = Counted(job[w])
      BY DEF Counted
    <3>2. processed' = [processed EXCEPT ![w] = 0] \/ processed' = [processed EXCEPT ![w] = @ + c]
      BY <3>1
    <3>3. processed[w] + c \in 0..BatchSize /\ 0 \in 0..BatchSize
      BY <2>1, <3>1 DEF TypeOK
    <3> QED
      BY <3>2, <3>3 DEF TypeOK
  <2>4. /\ pc' \in [Workers -> {"frame", "schedule", "batch", "run", "report", "exited"}]
        /\ failures' \in [Workers -> 0..MaxFailures]
    <3>1. pc' = [pc EXCEPT ![w] = "batch"] \/ pc' = [pc EXCEPT ![w] = "frame"]
      OBVIOUS
    <3>2. failures' = failures \/ failures' = [failures EXCEPT ![w] = 0]
      OBVIOUS
    <3>3. /\ pc \in [Workers -> {"frame", "schedule", "batch", "run", "report", "exited"}]
          /\ failures \in [Workers -> 0..MaxFailures]
          /\ MaxFailures \in Nat
      BY DEF TypeOK
    <3> HIDE DEF IInv, Report
    <3>4. pc' \in [Workers -> {"frame", "schedule", "batch", "run", "report", "exited"}]
      BY <3>1, <3>3
    <3>5. failures' \in [Workers -> 0..MaxFailures]
      BY <3>2, <3>3
    <3> QED
      BY <3>4, <3>5
  <2>6. busy' \in [Workers -> BOOLEAN]
    <3>1. busy' = busy \/ busy' = [busy EXCEPT ![w] = FALSE]
      OBVIOUS
    <3> QED
      BY <3>1 DEF TypeOK
  <2>5. lost' \in SUBSET Jobs /\ faults' \in 0..MaxFaults
    BY <2>1 DEF TypeOK
  <2> QED
    BY <1>1, <2>1, <2>2, <2>3, <2>4, <2>5, <2>6 DEF TypeOK
<1>4. WorkerShape'
  BY DEF TypeOK, WorkerShape
<1>5. VerdictShape'
  BY <1>1, <1>2 DEF TypeOK, WorkerShape, VerdictShape, RequestShape,
     QueuedIsPending, Apart, Hands
<1>6. RequestShape'
  BY <1>1, <1>2 DEF TypeOK, WorkerShape, VerdictShape, RequestShape, QueuedIsPending
<1>7. QueuedIsPending'
  <2>1. Held' \subseteq Jobs \cup {NoJob} /\ Waiting' \subseteq Jobs
    <3>1. /\ job' \in [Workers -> Jobs \cup {NoJob}]
          /\ child' \in [Workers -> Jobs \cup {NoJob}]
      BY <1>3 DEF TypeOK
    <3>2. Waiting' \subseteq Jobs
      BY <1>1 DEF TypeOK
    <3> QED
      BY <3>1, <3>2 DEF Held
  <2>2. SUFFICES ASSUME NEW x \in Jobs, x \in Waiting' \/ x \in Held'
                 PROVE  results'[x] = "pending"
    BY <2>1 DEF QueuedIsPending
  <2> QED
    BY <1>1, <1>2, <1>3, <2>2 DEF TypeOK, WorkerShape, VerdictShape, RequestShape,
       QueuedIsPending, Apart, Hands
<1>8. Distinct' /\ Apart'
  BY <1>1, <1>2 DEF TypeOK, WorkerShape, RequestShape, QueuedIsPending, Distinct,
     Apart
<1>9. Hands'
  BY <1>1, <1>2 DEF TypeOK, WorkerShape, QueuedIsPending, Apart, Hands
<1>10. PendingIsOwned'
  <2>1. job[w] \in Jobs /\ verdict[job[w]] # "pending"
    BY DEF WorkerShape, VerdictShape
  <2> QED
    BY <1>1, <1>2, <2>1 DEF TypeOK, PendingIsOwned
<1> QED
  BY <1>3, <1>4, <1>5, <1>6, <1>7, <1>8, <1>9, <1>10

\* A crash loses what the worker held.
LEMMA CrashInv ==
    ASSUME IInv, NEW w \in Workers, Crash(w)
    PROVE  IInv'
<1> USE JobsAssumption, BoundsAssumption, FaultsAssumption, HeldJobs
    DEF IInv, Crash, Fault, FrameOk, EndFrame, Drop, webVars, frameVars,
        historyVars, Verdicts
<1>1. queue' = queue /\ Waiting' = Waiting
  BY DEF Waiting
<1>2. \A x \in Jobs : x \in Held' <=> x \in Held /\ x \notin {job[w], child[w]}
  BY DEF TypeOK, Held, Hands
<1>3. TypeOK'
  BY <1>1 DEF TypeOK, WorkerShape
<1>4. WorkerShape'
  BY DEF TypeOK, WorkerShape
<1>5. VerdictShape'
  BY <1>1, <1>2 DEF TypeOK, WorkerShape, VerdictShape, RequestShape,
     QueuedIsPending, Apart, Hands
<1>6. RequestShape'
  BY <1>1, <1>2 DEF TypeOK, WorkerShape, VerdictShape, RequestShape, QueuedIsPending
<1>7. QueuedIsPending'
  <2>1. Held' \subseteq Jobs \cup {NoJob} /\ Waiting' \subseteq Jobs
    <3>1. /\ job' \in [Workers -> Jobs \cup {NoJob}]
          /\ child' \in [Workers -> Jobs \cup {NoJob}]
      BY <1>3 DEF TypeOK
    <3>2. Waiting' \subseteq Jobs
      BY <1>1 DEF TypeOK
    <3> QED
      BY <3>1, <3>2 DEF Held
  <2>2. SUFFICES ASSUME NEW x \in Jobs, x \in Waiting' \/ x \in Held'
                 PROVE  results'[x] = "pending"
    BY <2>1 DEF QueuedIsPending
  <2> QED
    BY <1>1, <1>2, <1>3, <2>2 DEF TypeOK, WorkerShape, VerdictShape, RequestShape,
       QueuedIsPending, Apart, Hands
<1>8. Distinct' /\ Apart'
  BY <1>1, <1>2 DEF TypeOK, WorkerShape, RequestShape, QueuedIsPending, Distinct,
     Apart
<1>9. Hands'
  BY <1>1, <1>2 DEF TypeOK, WorkerShape, QueuedIsPending, Apart, Hands
<1>10. PendingIsOwned'
  BY <1>1, <1>2 DEF TypeOK, WorkerShape, RequestShape, PendingIsOwned
<1> QED
  BY <1>3, <1>4, <1>5, <1>6, <1>7, <1>8, <1>9, <1>10

-----------------------------------------------------------------------------
(* The inductive invariant                                                 *)

\* IInv holds before anything has been queued.
LEMMA InitInv == Init => IInv
<1> SUFFICES ASSUME Init PROVE IInv
  OBVIOUS
<1> USE JobsAssumption, BoundsAssumption, FaultsAssumption DEF Init
<1>1. TypeOK
  BY DEF TypeOK, Verdicts
<1>2. Waiting = {} /\ Held \subseteq {NoJob}
  BY DEF Waiting, Held
<1>3. WorkerShape /\ VerdictShape /\ RequestShape
  BY <1>2 DEF WorkerShape, VerdictShape, RequestShape, Verdicts
<1>4. QueuedIsPending /\ PendingIsOwned
  BY <1>2 DEF QueuedIsPending, PendingIsOwned
<1>5. Distinct /\ Apart /\ Hands
  BY <1>2 DEF Distinct, Apart, Hands
<1> QED
  BY <1>1, <1>3, <1>4, <1>5 DEF IInv

\* Every step, of whichever process, preserves IInv.
LEMMA NextInv == IInv /\ [Next]_vars => IInv'
<1> SUFFICES ASSUME IInv, [Next]_vars PROVE IInv'
  OBVIOUS
<1>1. ASSUME NEW j \in UserJobs, Request(j) PROVE IInv'
  BY <1>1, RequestMarkInv, RequestPushInv, RequestTimeoutInv DEF Request
<1>2. CASE WebRestart
  BY <1>2, WebRestartInv
<1>3. ASSUME NEW w \in Workers, Work(w) PROVE IInv'
  <2>1. CASE Connect(w) \/ ConnectFails(w) \/ StartBatch(w) \/ EndBatch(w)
    BY <2>1, ConnectInv, ConnectFailsInv, StartBatchInv, EndBatchInv
  <2>2. CASE \E o \in Outcomes : Sweep(w, o)
    BY <2>2, SweepInv
  <2>3. CASE \E j \in Jobs, o \in Outcomes : EnqueueMark(w, j, o)
    BY <2>3, EnqueueMarkInv
  <2>4. CASE \E o \in Outcomes : EnqueuePush(w, o)
    BY <2>4, EnqueuePushInv
  <2>5. CASE PopJob(w) \/ PopExpired(w) \/ Abort(w)
    BY <2>5, PopJobInv, PopExpiredInv, AbortInv
  <2>6. CASE \E o \in Outcomes : PopFails(w, o)
    BY <2>6, PopFailsInv
  <2>7. CASE \E v \in Verdicts, o \in Outcomes : Execute(w, v, o)
    BY <2>7, ExecuteInv
  <2>8. CASE \E o \in Outcomes : Report(w, o)
    BY <2>8, ReportInv
  <2> QED
    BY <1>3, <2>1, <2>2, <2>3, <2>4, <2>5, <2>6, <2>7, <2>8 DEF Work
<1>4. ASSUME NEW w \in Workers, Crash(w) PROVE IInv'
  BY <1>4, CrashInv
<1>5. CASE UNCHANGED vars
  <2>1. TypeOK'
    BY <1>5 DEF IInv, TypeOK, vars, webVars, frameVars, historyVars
  <2>2. WorkerShape'
    BY <1>5 DEF IInv, WorkerShape, vars, webVars, frameVars, historyVars
  <2> QED
    BY <1>5, <2>1, <2>2, QuietInv DEF vars, webVars, frameVars, historyVars
<1> QED
  BY <1>1, <1>2, <1>3, <1>4, <1>5 DEF Next

\* Every reachable state satisfies the inductive invariant.
THEOREM Inductive == Spec => []IInv
BY InitInv, NextInv, PTL DEF Spec

\* Type correctness, and with it the bounds the code relies on: a batch
\* never counts more than BatchSize jobs, no worker goes on after
\* MaxFailures failed frames in a row.
THEOREM TypeCorrect == Spec => []TypeOK
<1>1. IInv => TypeOK
  BY DEF IInv
<1> QED
  BY <1>1, Inductive, PTL

\* Whatever waits on the list or is in a worker's hands reads as pending:
\* no pending marker overwrites an answer and no answer precedes its job.
THEOREM QueuedReadsPending == Spec => []QueuedIsPending
<1>1. IInv => QueuedIsPending
  BY DEF IInv
<1> QED
  BY <1>1, Inductive, PTL

\* No job is ever in two places: at most one worker carries it out.
THEOREM AtMostOnce == Spec => []OneHolder
<1>1. IInv => OneHolder
  BY DEF IInv, OneHolder, Distinct, Apart, Hands
<1> QED
  BY <1>1, Inductive, PTL

\* A pending job is on the list, in a worker's hands, with the request that
\* queues it, or was hit by one of the named losses.
THEOREM NoJobForgotten == Spec => []PendingIsOwned
<1>1. IInv => PendingIsOwned
  BY DEF IInv
<1> QED
  BY <1>1, Inductive, PTL

-----------------------------------------------------------------------------
(* The queue implements the board                                          *)

\* An empty queue is an empty board.
LEMMA InitBoard == Init => Board!Init
BY DEF Init, Board!Init

\* Marking is Post, the end of an execution is Execute, an applied report is
\* Answer; every other step leaves the board alone.
LEMMA NextBoard == IInv /\ [Next]_vars => [Board!Next]_(Board!vars)
<1> SUFFICES ASSUME IInv, [Next]_vars PROVE Board!Next \/ UNCHANGED <<results, verdict>>
  BY DEF Board!vars
<1> USE JobsAssumption DEF Board!Next, webVars, frameVars, historyVars, vars
<1>1. ASSUME NEW j \in UserJobs, NEW o \in Outcomes, RequestMark(j, o)
      PROVE  Board!Post(j) \/ UNCHANGED <<results, verdict>>
  BY <1>1 DEF IInv, RequestShape, RequestMark, MarkPending, Board!Post
<1>2. ASSUME NEW w \in Workers, NEW j \in Jobs, NEW o \in Outcomes, EnqueueMark(w, j, o)
      PROVE  Board!Post(j) \/ UNCHANGED <<results, verdict>>
  BY <1>2 DEF EnqueueMark, MarkPending, Board!Post
<1>3. ASSUME NEW w \in Workers, job[w] \in Jobs
      PROVE  results[job[w]] = "pending"
  BY <1>3 DEF IInv, QueuedIsPending, Held
<1>4. ASSUME NEW w \in Workers, NEW v \in Verdicts, NEW o \in Outcomes, Execute(w, v, o)
      PROVE  Board!Execute(job[w], v) /\ job[w] \in Jobs
  BY <1>3, <1>4 DEF IInv, WorkerShape, VerdictShape, Execute, Board!Execute
<1>5. ASSUME NEW w \in Workers, NEW o \in Outcomes, Report(w, o)
      PROVE  \/ Board!Answer(job[w]) /\ job[w] \in Jobs
             \/ UNCHANGED <<results, verdict>>
  BY <1>3, <1>5 DEF IInv, WorkerShape, VerdictShape, Report, Board!Answer,
     Board!Verdicts, Verdicts
<1>6. ASSUME NEW j \in UserJobs, Request(j)
      PROVE  Board!Next \/ UNCHANGED <<results, verdict>>
  <2>1. CASE \E o \in Outcomes : RequestMark(j, o)
    BY <1>1, <2>1
  <2>2. CASE (\E o \in Outcomes : RequestPush(j, o)) \/ RequestTimeout(j)
    BY <2>2 DEF RequestPush, RequestTimeout
  <2> QED
    BY <1>6, <2>1, <2>2 DEF Request
<1>7. ASSUME NEW w \in Workers, Work(w)
      PROVE  Board!Next \/ UNCHANGED <<results, verdict>>
  <2>1. CASE \E j \in Jobs, o \in Outcomes : EnqueueMark(w, j, o)
    BY <1>2, <2>1
  <2>2. CASE \E v \in Verdicts, o \in Outcomes : Execute(w, v, o)
    BY <1>4, <2>2 DEF Verdicts, Board!Verdicts
  <2>3. CASE \E o \in Outcomes : Report(w, o)
    BY <1>5, <2>3
  <2>4. CASE \/ Connect(w) \/ ConnectFails(w)
             \/ \E o \in Outcomes : Sweep(w, o)
             \/ \E o \in Outcomes : EnqueuePush(w, o)
             \/ StartBatch(w) \/ EndBatch(w)
    BY <2>4 DEF Connect, ConnectFails, Sweep, EnqueuePush, StartBatch, EndBatch
  <2>5. CASE \/ PopJob(w) \/ PopExpired(w) \/ Abort(w)
             \/ \E o \in Outcomes : PopFails(w, o)
    BY <2>5 DEF PopJob, PopExpired, Abort, PopFails
  <2> QED
    BY <1>7, <2>1, <2>2, <2>3, <2>4, <2>5 DEF Work
<1>8. CASE WebRestart \/ (\E w \in Workers : Crash(w)) \/ UNCHANGED vars
  BY <1>8 DEF WebRestart, Crash
<1> QED
  BY <1>6, <1>7, <1>8 DEF Next

\* Pollers see a board on which a job is posted once, executed at most once
\* and answered at most once with that execution's outcome.
THEOREM QueueImplementsBoard == Spec => ImplementsBoard
<1>1. Spec => Board!Init /\ [][Board!Next]_(Board!vars)
  BY InitBoard, NextBoard, Inductive, PTL DEF Spec
<1> QED
  BY <1>1 DEF ImplementsBoard, Board!Spec
=============================================================================
