------------------------------ MODULE JobQueue ------------------------------
(***************************************************************************)
(* The background job system: the web server and the registrar workers     *)
(* themselves put jobs on one redis list, registrar workers pop and carry  *)
(* them out, and the outcome is left in one redis hash that clients poll.  *)
(*                                                                         *)
(* Every redis command is a step of its own and has the outcomes of        *)
(* RedisLink: an operation of several commands can be cut anywhere.  The   *)
(* work a job does in mongo is the choice of its verdict here.             *)
(***************************************************************************)
EXTENDS Integers, Sequences, FiniteSets, RedisLink

CONSTANTS
    Jobs,         \* job identifiers (uuids: each is created once)
    UserJobs,     \* those created by requests to the web server
    TimerJobs,    \* those created by a worker's periodic schedule check
    Spawn,        \* Spawn[j]: the job that carrying out j enqueues, or NoJob
    NoJob,
    StaleJobs,    \* schedule runs whose nonce no longer matches
    Unrecorded,   \* jobs whose execution returns before a result is recorded
    Workers,      \* the registrar processes
    BatchSize,    \* jobs a worker counts before it starts its next frame
    MaxFailures,  \* failed frames in a row after which a worker exits
    CounterRange, \* values of the integer the queue length is cast to
    Reporting     \* is the queue length sampled (an analytics sink is set)?

ASSUME JobsAssumption ==
    /\ UserJobs \subseteq Jobs
    /\ TimerJobs \subseteq Jobs
    /\ UserJobs \cap TimerJobs = {}
    /\ NoJob \notin Jobs
    /\ Spawn \in [Jobs -> Jobs \cup {NoJob}]
    /\ \A j \in Jobs : Spawn[j] \notin UserJobs \cup TimerJobs \cup {j}
    /\ \A i, j \in Jobs : Spawn[i] = Spawn[j] /\ Spawn[i] # NoJob => i = j
    /\ StaleJobs \subseteq Jobs
    /\ Unrecorded \subseteq Jobs
    /\ \A j \in StaleJobs \cup Unrecorded : Spawn[j] = NoJob

ASSUME BoundsAssumption ==
    /\ BatchSize \in Nat \ {0}
    /\ MaxFailures \in Nat \ {0}
    /\ CounterRange \in Nat \ {0}
    /\ Reporting \in BOOLEAN

VARIABLES
    results,    \* the results hash: what a poll of each job reads
    queue,      \* the registrar job list, head first
    request,    \* how far the web request that creates a user job has come
    web,        \* the one redis connection of the web server
    conn,       \* conn[w]: the redis connection of worker w
    pc,         \* pc[w]: where worker w is in its frame
    busy,       \* busy[w]: was the sampled queue length positive?
    processed,  \* processed[w]: jobs counted in this batch
    failures,   \* failures[w]: failed frames since the last good one
    job,        \* job[w]: the job worker w popped and works on
    child,      \* child[w]: the job w has marked pending and not yet pushed
    verdict,    \* history: how the execution of a job ended
    lost        \* history: jobs a fault, an expiry or an early return dropped

webVars == <<request, web>>
frameVars == <<busy, processed, failures>>
historyVars == <<verdict, lost>>
vars == <<results, queue, request, web, conn, pc, busy, processed, failures,
          job, child, verdict, lost, faults>>

Verdicts == {"success", "failure"}
Waiting == {queue[i] : i \in DOMAIN queue}
Held == {job[w] : w \in Workers} \cup {child[w] : w \in Workers}

TypeOK ==
    /\ results \in [Jobs -> {"absent", "pending"} \cup Verdicts]
    /\ queue \in Seq(Jobs)
    /\ request \in [UserJobs -> {"new", "marked", "accepted", "refused"}]
    /\ web \in {"up", "broken"}
    /\ conn \in [Workers -> {"none", "up", "broken"}]
    /\ pc \in [Workers -> {"frame", "schedule", "batch", "run", "report", "exited"}]
    /\ busy \in [Workers -> BOOLEAN]
    /\ processed \in [Workers -> 0..BatchSize]
    /\ failures \in [Workers -> 0..MaxFailures]
    /\ job \in [Workers -> Jobs \cup {NoJob}]
    /\ child \in [Workers -> Jobs \cup {NoJob}]
    /\ verdict \in [Jobs -> {"none"} \cup Verdicts]
    /\ lost \in SUBSET Jobs
    /\ faults \in 0..MaxFaults

Init ==
    /\ results = [j \in Jobs |-> "absent"]
    /\ queue = <<>>
    /\ request = [j \in UserJobs |-> "new"]
    /\ web = "up"
    /\ conn = [w \in Workers |-> "none"]
    /\ pc = [w \in Workers |-> "frame"]
    /\ busy = [w \in Workers |-> FALSE]
    /\ processed = [w \in Workers |-> 0]
    /\ failures = [w \in Workers |-> 0]
    /\ job = [w \in Workers |-> NoJob]
    /\ child = [w \in Workers |-> NoJob]
    /\ verdict = [j \in Jobs |-> "none"]
    /\ lost = {}
    /\ faults = 0

-----------------------------------------------------------------------------
(* The two commands that queue a job                                       *)

\* HSET of the pending marker, and RPUSH of the job.
MarkPending(j, o) ==
    results' = IF Applied(o) THEN [results EXCEPT ![j] = "pending"] ELSE results
PushJob(j, o) ==
    queue' = IF Applied(o) THEN Append(queue, j) ELSE queue
Drop(js) == lost' = lost \cup js

-----------------------------------------------------------------------------
(* The web server: Worker::queue_job                                       *)

\* Mutant: the job is pushed and its marker forgotten.
RequestForgetsMark(j, o) ==
    /\ request[j] = "new"
    /\ Issue(web, o)
    /\ PushJob(j, o)
    /\ request' = [request EXCEPT ![j] = IF o = "ok" THEN "accepted" ELSE "refused"]
    /\ web' = LinkAfter(o)
    /\ UNCHANGED <<results, conn, pc, frameVars, job, child, historyVars>>

RequestMark(j, o) ==
    /\ request[j] = "new"
    /\ Issue(web, o)
    /\ MarkPending(j, o)
    /\ request' = [request EXCEPT ![j] = IF o = "ok" THEN "marked" ELSE "refused"]
    /\ web' = LinkAfter(o)
    /\ Drop(IF o = "unanswered" THEN {j} ELSE {})
    /\ UNCHANGED <<queue, conn, pc, frameVars, job, child, verdict>>

RequestPush(j, o) ==
    /\ request[j] = "marked"
    /\ Issue(web, o)
    /\ PushJob(j, o)
    /\ request' = [request EXCEPT ![j] = IF o = "ok" THEN "accepted" ELSE "refused"]
    /\ web' = LinkAfter(o)
    /\ Drop(IF o = "unsent" THEN {j} ELSE {})
    /\ UNCHANGED <<results, conn, pc, frameVars, job, child, verdict>>

\* The lock around the shared connection was not obtained within a second.
RequestTimeout(j) ==
    /\ request[j] \in {"new", "marked"}
    /\ request' = [request EXCEPT ![j] = "refused"]
    /\ Drop(IF request[j] = "marked" THEN {j} ELSE {})
    /\ UNCHANGED <<results, queue, web, conn, pc, frameVars, job, child, verdict, faults>>

\* Only a new process opens a new connection: the broken one stays in place.
WebRestart ==
    /\ web = "broken"
    /\ web' = "up"
    /\ request' = [j \in UserJobs |->
                     IF request[j] = "marked" THEN "refused" ELSE request[j]]
    /\ Drop({j \in UserJobs : request[j] = "marked"})
    /\ UNCHANGED <<results, queue, conn, pc, frameVars, job, child, verdict, faults>>

-----------------------------------------------------------------------------
(* A registrar worker: the frame                                           *)

\* Both ends of a frame; the frame's locals go with it.
EndFrame(w) ==
    /\ busy' = [busy EXCEPT ![w] = FALSE]
    /\ processed' = [processed EXCEPT ![w] = 0]

FrameOk(w) ==
    /\ EndFrame(w)
    /\ pc' = [pc EXCEPT ![w] = "frame"]
    /\ failures' = [failures EXCEPT ![w] = 0]

FrameErr(w) ==
    /\ EndFrame(w)
    /\ failures' = [failures EXCEPT ![w] = @ + 1]
    /\ pc' = [pc EXCEPT ![w] = IF failures[w] + 1 < MaxFailures THEN "frame" ELSE "exited"]

\* Mutant: off by one, a single waiting job is not seen.
SampledLengthLess == Len(queue) - 1

\* LLEN cast to an unsigned integer; without a sink nothing is sampled and
\* the worker assumes that there is work.
SampledLength ==
    IF Reporting THEN Len(queue) % CounterRange ELSE 1

\* A frame without a connection only connects.
Connect(w) ==
    /\ pc[w] = "frame" /\ conn[w] = "none"
    /\ conn' = [conn EXCEPT ![w] = "up"]
    /\ FrameOk(w)
    /\ UNCHANGED <<results, queue, webVars, job, child, historyVars, faults>>

ConnectFails(w) ==
    /\ pc[w] = "frame" /\ conn[w] = "none"
    /\ Fault
    /\ FrameErr(w)
    /\ UNCHANGED <<results, queue, webVars, conn, job, child, historyVars>>

\* The length sample, fill_pool and mark_active: an error of either of the
\* last two ends the frame, and the connection is gone with it.
Sweep(w, o) ==
    /\ pc[w] = "frame" /\ conn[w] # "none"
    /\ Issue(conn[w], o)
    /\ IF o = "ok"
       THEN /\ pc' = [pc EXCEPT ![w] = "schedule"]
            /\ busy' = [busy EXCEPT ![w] = SampledLength > 0]
            /\ UNCHANGED <<conn, processed, failures>>
       ELSE /\ conn' = [conn EXCEPT ![w] = "none"]
            /\ FrameErr(w)
    /\ UNCHANGED <<results, queue, webVars, job, child, historyVars>>

-----------------------------------------------------------------------------
(* WorkerHandle::enqueue, from the schedule check and from a running job   *)

\* What carrying out job j enqueues, and whether it has.
Percolated(j) == {Spawn[j]} \ {NoJob}
Spawned(j) == \A c \in Percolated(j) : results[c] # "absent"

\* The jobs worker w may enqueue where it is.
MayEnqueue(w) ==
    CASE pc[w] = "schedule" -> TimerJobs
      [] pc[w] = "run" -> Percolated(job[w])
      [] OTHER -> {}

\* After an error of either command the schedule check goes on, and a running
\* job can only fail: the connection is broken and every later command on it
\* errs too.
EnqueueMark(w, j, o) ==
    /\ child[w] = NoJob
    /\ j \in MayEnqueue(w)
    /\ results[j] = "absent"
    /\ Issue(conn[w], o)
    /\ MarkPending(j, o)
    /\ conn' = [conn EXCEPT ![w] = LinkAfter(o)]
    /\ child' = IF o = "ok" THEN [child EXCEPT ![w] = j] ELSE child
    /\ Drop(IF o = "unanswered" THEN {j} ELSE {})
    /\ UNCHANGED <<queue, webVars, pc, frameVars, job, verdict>>

EnqueuePush(w, o) ==
    /\ child[w] # NoJob
    /\ Issue(conn[w], o)
    /\ PushJob(child[w], o)
    /\ conn' = [conn EXCEPT ![w] = LinkAfter(o)]
    /\ child' = [child EXCEPT ![w] = NoJob]
    /\ Drop(IF o = "unsent" THEN {child[w]} ELSE {})
    /\ UNCHANGED <<results, webVars, pc, frameVars, job, verdict>>

-----------------------------------------------------------------------------
(* The batch: work_jobs                                                    *)

StartBatch(w) ==
    /\ pc[w] = "schedule" /\ child[w] = NoJob
    /\ IF busy[w]
       THEN pc' = [pc EXCEPT ![w] = "batch"] /\ UNCHANGED frameVars
       ELSE FrameOk(w)
    /\ UNCHANGED <<results, queue, webVars, conn, job, child, historyVars, faults>>

\* Mutant: off by one, a batch of one job too many.
MayPopLong(w) == pc[w] = "batch" /\ processed[w] <= BatchSize

MayPop(w) == pc[w] = "batch" /\ processed[w] < BatchSize

\* Mutant: the job is read and left on the list.
PeekJob(w) ==
    /\ MayPop(w) /\ conn[w] = "up" /\ queue # <<>>
    /\ job' = [job EXCEPT ![w] = Head(queue)]
    /\ pc' = [pc EXCEPT ![w] = "run"]
    /\ UNCHANGED <<results, queue, webVars, conn, frameVars, child, historyVars, faults>>

\* LPOP hands out a job that decodes.
PopJob(w) ==
    /\ MayPop(w) /\ conn[w] = "up" /\ queue # <<>>
    /\ queue' = Tail(queue)
    /\ job' = [job EXCEPT ![w] = Head(queue)]
    /\ pc' = [pc EXCEPT ![w] = "run"]
    /\ UNCHANGED <<results, webVars, conn, frameVars, child, historyVars, faults>>

\* LPOP hands out a job whose token expired (a day after it was queued).
PopExpired(w) ==
    /\ MayPop(w) /\ conn[w] = "up" /\ queue # <<>>
    /\ queue' = Tail(queue)
    /\ Drop({Head(queue)})
    /\ UNCHANGED <<results, webVars, conn, pc, frameVars, job, child, verdict, faults>>

\* The list is empty, or the batch is full.
EndBatch(w) ==
    /\ pc[w] = "batch"
    /\ processed[w] = BatchSize \/ (conn[w] = "up" /\ queue = <<>>)
    /\ FrameOk(w)
    /\ UNCHANGED <<results, queue, webVars, conn, job, child, historyVars, faults>>

\* The error is logged, the frame is a good one, the connection is kept.
PopFails(w, o) ==
    /\ MayPop(w)
    /\ o # "ok"
    /\ Issue(conn[w], o)
    /\ conn' = [conn EXCEPT ![w] = "broken"]
    /\ IF Applied(o) /\ queue # <<>>
       THEN queue' = Tail(queue) /\ Drop({Head(queue)})
       ELSE UNCHANGED <<queue, lost>>
    /\ FrameOk(w)
    /\ UNCHANGED <<results, webVars, job, child, verdict>>

\* The job's own work ends: with success only after it has enqueued what it
\* percolates, with failure at any point, and always if redis fails it.
Execute(w, v, o) ==
    /\ pc[w] = "run" /\ child[w] = NoJob
    /\ job[w] \notin Unrecorded
    /\ v = "success" => o = "ok" /\ Spawned(job[w])
    /\ Issue(conn[w], o)
    /\ conn' = [conn EXCEPT ![w] = LinkAfter(o)]
    /\ verdict' = [verdict EXCEPT ![job[w]] = v]
    /\ pc' = [pc EXCEPT ![w] = "report"]
    /\ UNCHANGED <<results, queue, webVars, frameVars, job, child, lost>>

\* A scannable link that cannot be built returns before the result is set.
Abort(w) ==
    /\ pc[w] = "run" /\ child[w] = NoJob
    /\ job[w] \in Unrecorded
    /\ Drop({job[w]})
    /\ job' = [job EXCEPT ![w] = NoJob]
    /\ FrameOk(w)
    /\ UNCHANGED <<results, queue, webVars, conn, child, verdict, faults>>

\* A schedule run found stale is recorded as a success and not counted.
Counted(j) == IF j \in StaleJobs /\ verdict[j] = "success" THEN 0 ELSE 1

\* Mutant: nothing is recorded for a job that is not counted.
ReportCountedOnly(w, o) ==
    /\ pc[w] = "report"
    /\ Issue(conn[w], o)
    /\ results' = IF Applied(o) /\ Counted(job[w]) = 1
                  THEN [results EXCEPT ![job[w]] = verdict[job[w]]] ELSE results
    /\ conn' = [conn EXCEPT ![w] = LinkAfter(o)]
    /\ Drop(IF Applied(o) THEN {} ELSE {job[w]})
    /\ job' = [job EXCEPT ![w] = NoJob]
    /\ pc' = [pc EXCEPT ![w] = "batch"]
    /\ UNCHANGED <<queue, webVars, frameVars, child, verdict>>

\* Mutant: a job whose outcome could not be written goes back on the list.
ReportRequeues(w, o) ==
    /\ pc[w] = "report"
    /\ Issue(conn[w], o)
    /\ results' = IF Applied(o) THEN [results EXCEPT ![job[w]] = verdict[job[w]]] ELSE results
    /\ queue' = IF o = "ok" THEN queue ELSE Append(queue, job[w])
    /\ conn' = [conn EXCEPT ![w] = LinkAfter(o)]
    /\ job' = [job EXCEPT ![w] = NoJob]
    /\ pc' = [pc EXCEPT ![w] = "batch"]
    /\ UNCHANGED <<webVars, frameVars, child, historyVars>>

\* HSET of the outcome.
Report(w, o) ==
    /\ pc[w] = "report"
    /\ Issue(conn[w], o)
    /\ results' = IF Applied(o) THEN [results EXCEPT ![job[w]] = verdict[job[w]]] ELSE results
    /\ conn' = [conn EXCEPT ![w] = LinkAfter(o)]
    /\ Drop(IF Applied(o) THEN {} ELSE {job[w]})
    /\ job' = [job EXCEPT ![w] = NoJob]
    /\ IF o = "ok"
       THEN /\ pc' = [pc EXCEPT ![w] = "batch"]
            /\ processed' = [processed EXCEPT ![w] = @ + Counted(job[w])]
            /\ UNCHANGED <<busy, failures>>
       ELSE FrameOk(w)
    /\ UNCHANGED <<queue, webVars, child, verdict>>

\* The process dies between any two steps and is started again.
Crash(w) ==
    /\ pc[w] # "exited"
    /\ Fault
    /\ conn' = [conn EXCEPT ![w] = "none"]
    /\ FrameOk(w)
    /\ Drop({job[w], child[w]} \ {NoJob})
    /\ job' = [job EXCEPT ![w] = NoJob]
    /\ child' = [child EXCEPT ![w] = NoJob]
    /\ UNCHANGED <<results, queue, webVars, verdict>>

-----------------------------------------------------------------------------
(* The specification                                                       *)

Request(j) ==
    \/ \E o \in Outcomes : RequestMark(j, o) \/ RequestPush(j, o)
    \/ RequestTimeout(j)

Work(w) ==
    \/ Connect(w)
    \/ ConnectFails(w)
    \/ \E o \in Outcomes : Sweep(w, o)
    \/ \E j \in Jobs, o \in Outcomes : EnqueueMark(w, j, o)
    \/ \E o \in Outcomes : EnqueuePush(w, o)
    \/ StartBatch(w)
    \/ PopJob(w)
    \/ PopExpired(w)
    \/ EndBatch(w)
    \/ \E o \in Outcomes : PopFails(w, o)
    \/ \E v \in Verdicts, o \in Outcomes : Execute(w, v, o)
    \/ Abort(w)
    \/ \E o \in Outcomes : Report(w, o)

Next ==
    \/ \E j \in UserJobs : Request(j)
    \/ WebRestart
    \/ \E w \in Workers : Work(w) \/ Crash(w)

Spec == Init /\ [][Next]_vars

\* The loop of a registrar process never waits for anything but a command,
\* so each keeps taking steps until it exits.  Nothing is assumed of web
\* requests, of restarts, or of what a step's outcome is.
FairSpec == Spec /\ \A w \in Workers : WF_vars(Work(w))

-----------------------------------------------------------------------------
(* What must be true                                                       *)

\* A job that waits, is being enqueued or is being carried out reads as
\* pending: its result was set before it was pushed, and by no one since.  A
\* worker that pops a job at once must not have its answer overwritten by
\* the pending marker of the process that queued it.
QueuedIsPending ==
    \A j \in Waiting \cup (Held \ {NoJob}) : results[j] = "pending"

\* Delivery is at most once: a job is in one place of the list, or with one
\* worker, and never in both.
OneHolder ==
    /\ \A i, k \in DOMAIN queue : queue[i] = queue[k] => i = k
    /\ Waiting \cap Held = {}
    /\ \A w, x \in Workers :
         /\ job[w] \in Jobs /\ job[w] = job[x] => w = x
         /\ child[w] \in Jobs /\ child[w] = child[x] => w = x
         /\ job[w] \in Jobs => job[w] # child[x]

\* A job that reads as pending still has someone who owes the answer, unless
\* one of the named losses hit it: a cut command, a crash, an expired token,
\* a request that gave up between its two commands, an early return.  No
\* interleaving of healthy workers forgets a job.
PendingIsOwned ==
    \A j \in Jobs : results[j] = "pending" =>
        \/ j \in Waiting \cup Held \cup lost
        \/ j \in UserJobs /\ request[j] = "marked"

\* Pollers see what the abstract board promises: at most one execution, and
\* an answer that is that execution's and is never taken back.
Board == INSTANCE JobBoard WITH status <- results
ImplementsBoard == Board!Spec

\* A queued job is answered, whatever the workers were doing when it was
\* pushed, unless a named loss hits it or every worker has exited.
Settled(j) ==
    \/ results[j] \in Verdicts
    \/ j \in lost
    \/ \A w \in Workers : pc[w] = "exited"
AnsweredEventually ==
    \A j \in Jobs : j \in Waiting ~> Settled(j)
=============================================================================
