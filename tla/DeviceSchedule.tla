--------------------------- MODULE DeviceSchedule ---------------------------
(***************************************************************************)
(* Device schedules.  In every frame a registrar worker looks for schedule *)
(* documents that have not been executed for a while, enqueues a run with  *)
(* a new nonce for each, and then stores the nonces in the documents.  A   *)
(* run whose nonce is not the stored one is ignored.  Users toggle         *)
(* schedules, which rewrites the whole document and enqueues a run without *)
(* nonce.                                                                  *)
(*                                                                         *)
(* Every access to mongo and to redis is a step of its own.  The job list  *)
(* is the one of JobQueue: here it is only a FIFO list, a batch ends when  *)
(* it is empty, and every frame pops (no analytics sink).                  *)
(***************************************************************************)
EXTENDS Naturals, Sequences, FiniteSets, RedisLink

CONSTANTS
    Devices,
    Workers,      \* the registrar processes
    Nonces,       \* uuids; one that occurs nowhere any more is used again
    NoNonce,
    NoJob,
    MaxToggles    \* bound of the model on requests of users

AnyNonce == Nonces \cup {NoNonce}
Run(d, n) == [what |-> "run", device |-> d, nonce |-> n]
Toggle(d, b) == [what |-> "toggle", device |-> d, on |-> b]
Jobs == {Run(d, n) : d \in Devices, n \in AnyNonce}
            \cup {Toggle(d, b) : d \in Devices, b \in BOOLEAN}

ASSUME ScheduleAssumption ==
    /\ NoNonce \notin Nonces
    /\ NoJob \notin Jobs
    /\ IsFiniteSet(Devices) /\ IsFiniteSet(Workers)
    /\ MaxToggles \in Nat

VARIABLES
    doc,       \* doc[d]: the schedule document of device d
    jobs,      \* the registrar job list, head first
    link,      \* link[w]: the redis connection of worker w
    pc,        \* pc[w]: where worker w is in its frame
    todo,      \* todo[w]: due devices whose run w has not enqueued yet
    updates,   \* updates[w][d]: the nonce w has yet to store for device d
    job,       \* job[w]: the job w popped
    read,      \* read[w]: the document that job read
    runs,      \* history: scheduled runs of device d since it was last due
    lost,      \* history: nonces whose run failed or was lost
    toggles    \* history: requests so far

checkVars == <<todo, updates>>
jobVars == <<job, read>>
historyVars == <<runs, lost>>
vars == <<doc, jobs, link, pc, checkVars, jobVars, historyVars, toggles, faults>>

Documents ==
    [on: BOOLEAN, last_executed: {"never", "recent", "old"},
     refresh_nonce: AnyNonce, latest_refresh_nonce: AnyNonce]

\* The document that the upsert of a first toggle inserts.
Fresh == [on |-> FALSE, last_executed |-> "never",
          refresh_nonce |-> NoNonce, latest_refresh_nonce |-> NoNonce]

Waiting == {jobs[i] : i \in DOMAIN jobs}
Present == (Waiting \cup {job[w] : w \in Workers}) \ {NoJob}

TypeOK ==
    /\ doc \in [Devices -> Documents]
    /\ jobs \in Seq(Jobs)
    /\ link \in [Workers -> {"up", "broken"}]
    /\ pc \in [Workers -> {"find", "check", "batch", "begin", "act", "enqueue"}]
    /\ todo \in [Workers -> SUBSET Devices]
    /\ updates \in [Workers -> [Devices -> AnyNonce]]
    /\ job \in [Workers -> Jobs \cup {NoJob}]
    /\ read \in [Workers -> Documents]
    /\ runs \in [Devices -> Nat]
    /\ lost \in SUBSET Nonces
    /\ toggles \in 0..MaxToggles
    /\ faults \in 0..MaxFaults
    /\ \A w \in Workers :
         /\ job[w] # NoJob <=> pc[w] \in {"begin", "act", "enqueue"}
         /\ pc[w] # "check" => todo[w] = {} /\ \A d \in Devices : updates[w][d] = NoNonce

Init ==
    /\ doc = [d \in Devices |-> Fresh]
    /\ jobs = <<>>
    /\ link = [w \in Workers |-> "up"]
    /\ pc = [w \in Workers |-> "find"]
    /\ todo = [w \in Workers |-> {}]
    /\ updates = [w \in Workers |-> [d \in Devices |-> NoNonce]]
    /\ job = [w \in Workers |-> NoJob]
    /\ read = [w \in Workers |-> Fresh]
    /\ runs = [d \in Devices |-> 0]
    /\ lost = {}
    /\ toggles = 0
    /\ faults = 0

-----------------------------------------------------------------------------
(* Users and time                                                          *)

Push(j) == jobs' = Append(jobs, j)

RequestToggle(d, b) ==
    /\ toggles < MaxToggles
    /\ toggles' = toggles + 1
    /\ Push(Toggle(d, b))
    /\ UNCHANGED <<doc, link, pc, checkVars, jobVars, historyVars, faults>>

\* The last execution falls behind the cutoff.
Elapse(d) ==
    /\ doc[d].last_executed = "recent"
    /\ doc' = [doc EXCEPT ![d].last_executed = "old"]
    /\ runs' = [runs EXCEPT ![d] = 0]
    /\ UNCHANGED <<jobs, link, pc, checkVars, jobVars, lost, toggles, faults>>

-----------------------------------------------------------------------------
(* check_schedules                                                         *)

To(w, place) == pc' = [pc EXCEPT ![w] = place]
Relink(w, l) == link' = [link EXCEPT ![w] = l]

Due(d) == doc[d].last_executed = "old"

\* Mutant: a schedule that never had a nonce is left to the next job.
EligibleIfSet(d) ==
    /\ doc[d].refresh_nonce = doc[d].latest_refresh_nonce
    /\ doc[d].refresh_nonce # NoNonce

\* Both nonces are absent, or both are there and equal.
Eligible(d) == doc[d].refresh_nonce = doc[d].latest_refresh_nonce

\* One query; its error ends the check.
Find(w) ==
    /\ pc[w] = "find"
    /\ \/ /\ todo' = [todo EXCEPT ![w] = {d \in Devices : Due(d) /\ Eligible(d)}]
          /\ UNCHANGED faults
       \/ Fault /\ UNCHANGED todo
    /\ To(w, "check")
    /\ UNCHANGED <<doc, jobs, link, updates, jobVars, historyVars, toggles>>

IsNew(n) ==
    /\ \A d \in Devices : n \notin {doc[d].refresh_nonce, doc[d].latest_refresh_nonce}
    /\ \A j \in Present : j.what = "run" => j.nonce # n
    /\ \A w \in Workers :
         /\ n \notin {updates[w][d] : d \in Devices}
         /\ n \notin {read[w].refresh_nonce, read[w].latest_refresh_nonce}

\* Which of the new uuids it is makes no difference.
NewNonce == CHOOSE n \in Nonces : IsNew(n)

\* The nonce will be stored even if its run could not be enqueued.
Refresh(w, d, o) ==
    /\ pc[w] = "check" /\ d \in todo[w]
    /\ Issue(link[w], o)
    /\ Relink(w, LinkAfter(o))
    /\ todo' = [todo EXCEPT ![w] = @ \ {d}]
    /\ updates' = [updates EXCEPT ![w][d] = NewNonce]
    /\ IF Applied(o)
       THEN Push(Run(d, NewNonce)) /\ lost' = lost \ {NewNonce}
       ELSE lost' = lost \cup {NewNonce} /\ UNCHANGED jobs
    /\ UNCHANGED <<doc, pc, jobVars, runs, toggles>>

\* After all runs are enqueued; an error is logged.
StoreNonce(w, d) ==
    /\ pc[w] = "check" /\ todo[w] = {}
    /\ updates[w][d] # NoNonce
    /\ \/ doc' = [doc EXCEPT ![d].refresh_nonce = updates[w][d]] /\ UNCHANGED faults
       \/ Fault /\ UNCHANGED doc
    /\ updates' = [updates EXCEPT ![w][d] = NoNonce]
    /\ UNCHANGED <<jobs, link, pc, todo, jobVars, historyVars, toggles>>

EndCheck(w) ==
    /\ pc[w] = "check" /\ todo[w] = {}
    /\ \A d \in Devices : updates[w][d] = NoNonce
    /\ To(w, "batch")
    /\ UNCHANGED <<doc, jobs, link, checkVars, jobVars, historyVars, toggles, faults>>

-----------------------------------------------------------------------------
(* The batch                                                               *)

Pop(w) ==
    /\ pc[w] = "batch" /\ link[w] = "up" /\ jobs # <<>>
    /\ job' = [job EXCEPT ![w] = Head(jobs)]
    /\ jobs' = Tail(jobs)
    /\ To(w, "begin")
    /\ UNCHANGED <<doc, link, checkVars, read, historyVars, toggles, faults>>

\* The result of the job before, or the next pop, breaks the connection.  (A
\* pop that redis ran without answer ends like Pop and Crash.)
Cut(w) ==
    /\ pc[w] = "batch" /\ link[w] = "up"
    /\ Fault
    /\ Relink(w, "broken")
    /\ UNCHANGED <<doc, jobs, pc, checkVars, jobVars, historyVars, toggles>>

\* A broken connection is replaced before the next check.
EndBatch(w) ==
    /\ pc[w] = "batch"
    /\ jobs = <<>> \/ link[w] = "broken"
    /\ Relink(w, "up")
    /\ To(w, "find")
    /\ UNCHANGED <<doc, jobs, checkVars, jobVars, historyVars, toggles, faults>>

EndJob(w) ==
    /\ job' = [job EXCEPT ![w] = NoJob]
    /\ read' = [read EXCEPT ![w] = Fresh]
    /\ To(w, "batch")

\* Mutant: the stored nonce is not looked at.
NeverStale(j) == FALSE

\* Only two nonces that are both there can differ.
Stale(j) ==
    /\ j.what = "run"
    /\ NoNonce \notin {j.nonce, doc[j.device].refresh_nonce}
    /\ j.nonce # doc[j.device].refresh_nonce

\* Mutant: a run found stale stays in hand.
IgnoreKeepsJob(w) ==
    /\ pc[w] = "begin" /\ Stale(job[w])
    /\ To(w, "batch")
    /\ UNCHANGED <<doc, jobs, link, checkVars, jobVars, historyVars, toggles, faults>>

\* execute: the run is found stale.
Ignore(w) ==
    /\ pc[w] = "begin" /\ Stale(job[w])
    /\ EndJob(w)
    /\ UNCHANGED <<doc, jobs, link, checkVars, historyVars, toggles, faults>>

\* toggle and execute: read the document.
Begin(w) ==
    /\ pc[w] = "begin" /\ ~Stale(job[w])
    /\ read' = [read EXCEPT ![w] = doc[job[w].device]]
    /\ To(w, "act")
    /\ UNCHANGED <<doc, jobs, link, checkVars, job, historyVars, toggles, faults>>

\* toggle: replace the document by the one that was read, switched.
ToggleReplace(w) ==
    /\ pc[w] = "act" /\ job[w].what = "toggle"
    /\ doc' = [doc EXCEPT ![job[w].device] = [read[w] EXCEPT !.on = job[w].on]]
    /\ To(w, "enqueue")
    /\ UNCHANGED <<jobs, link, checkVars, jobVars, historyVars, toggles, faults>>

\* toggle: enqueue a run without nonce.
ToggleEnqueue(w, o) ==
    /\ pc[w] = "enqueue"
    /\ Issue(link[w], o)
    /\ Relink(w, LinkAfter(o))
    /\ IF Applied(o) THEN Push(Run(job[w].device, NoNonce)) ELSE UNCHANGED jobs
    /\ EndJob(w)
    /\ UNCHANGED <<doc, checkVars, historyVars, toggles>>

Executed(w) == [doc EXCEPT ![job[w].device].last_executed = "recent"]

\* Mutant: the nonce of the run is not recorded.
FinishForgetsNonce(w) ==
    /\ pc[w] = "act" /\ job[w].what = "run"
    /\ doc' = Executed(w)
    /\ runs' = [runs EXCEPT ![job[w].device] =
                  IF job[w].nonce = NoNonce THEN @ ELSE @ + 1]
    /\ EndJob(w)
    /\ UNCHANGED <<jobs, link, checkVars, lost, toggles, faults>>

\* execute: the events are on their way; record the time and the nonce that
\* was read at the beginning.
Finish(w) ==
    /\ pc[w] = "act" /\ job[w].what = "run"
    /\ doc' = [Executed(w) EXCEPT ![job[w].device].latest_refresh_nonce =
                 read[w].refresh_nonce]
    /\ runs' = [runs EXCEPT ![job[w].device] =
                  IF job[w].nonce = NoNonce THEN @ ELSE @ + 1]
    /\ EndJob(w)
    /\ UNCHANGED <<jobs, link, checkVars, lost, toggles, faults>>

NonceOf(j) == IF j # NoJob /\ j.what = "run" THEN {j.nonce} \ {NoNonce} ELSE {}

\* An error of mongo, of the calendar, or of the user's token.
JobFails(w) ==
    /\ pc[w] \in {"begin", "act"}
    /\ lost' = lost \cup NonceOf(job[w])
    /\ EndJob(w)
    /\ UNCHANGED <<doc, jobs, link, checkVars, runs, toggles, faults>>

\* The process dies between any two steps and is started again.
Crash(w) ==
    /\ Fault
    /\ lost' = lost \cup NonceOf(job[w])
    /\ job' = [job EXCEPT ![w] = NoJob]
    /\ read' = [read EXCEPT ![w] = Fresh]
    /\ todo' = [todo EXCEPT ![w] = {}]
    /\ updates' = [updates EXCEPT ![w] = [d \in Devices |-> NoNonce]]
    /\ Relink(w, "up")
    /\ To(w, "find")
    /\ UNCHANGED <<doc, jobs, runs, toggles>>

-----------------------------------------------------------------------------
(* The specification                                                       *)

Check(w) ==
    \/ Find(w)
    \/ \E d \in todo[w], o \in Outcomes : Refresh(w, d, o)
    \/ \E d \in Devices : StoreNonce(w, d)
    \/ EndCheck(w)

Batch(w) ==
    \/ Pop(w)
    \/ Cut(w)
    \/ EndBatch(w)
    \/ Ignore(w)
    \/ Begin(w)
    \/ ToggleReplace(w)
    \/ \E o \in Outcomes : ToggleEnqueue(w, o)
    \/ Finish(w)
    \/ JobFails(w)

Next ==
    \/ \E d \in Devices : Elapse(d) \/ \E b \in BOOLEAN : RequestToggle(d, b)
    \/ \E w \in Workers : Check(w) \/ Batch(w) \/ Crash(w)

Spec == Init /\ [][Next]_vars

\* A worker never waits for anything but mongo and redis.
FairSpec == Spec /\ \A w \in Workers : WF_vars(Check(w) \/ Batch(w))

-----------------------------------------------------------------------------
(* What must be true                                                       *)

\* A due schedule that check_schedules passes over "will be handled by next
\* execution job": such a job exists, unless the run of the stored nonce
\* failed or was lost.  True of one worker whatever breaks; with two, a run
\* may be carried out before its own nonce is stored.
HasRun(d) ==
    \E j \in Present : j \in {Run(d, NoNonce), Run(d, doc[d].refresh_nonce)}
SkippedIsOwed ==
    \A d \in Devices : Due(d) /\ ~Eligible(d) =>
        HasRun(d) \/ doc[d].refresh_nonce \in lost

\* Runs that were queued in a row do not all run: once a first nonce is
\* stored, one worker carries out at most one scheduled run of a device until
\* it is due again, however often it died or failed to store a nonce.
OncePerPeriod ==
    \A d \in Devices : doc[d].refresh_nonce # NoNonce => runs[d] <= 1

\* A due schedule is executed again, unless the run of its nonce failed or
\* was lost.
RefreshedEventually ==
    \A d \in Devices : Due(d) ~> ~Due(d) \/ doc[d].refresh_nonce \in lost
=============================================================================
