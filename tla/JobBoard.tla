------------------------------ MODULE JobBoard ------------------------------
(***************************************************************************)
(* What the background job system promises to whoever polls a job, free of *)
(* queues, workers, connections and crashes.                               *)
(*                                                                         *)
(* A job is posted at most once, carried out at most once, and answered at *)
(* most once with the outcome of that one execution.  A job may stay       *)
(* pending for ever (delivery is at most once), but an answer, once        *)
(* visible, is never taken back.                                           *)
(***************************************************************************)
CONSTANT Jobs    \* the identifiers of the jobs

VARIABLES
    status,      \* status[j]: what a client that polls job j is told
    verdict      \* verdict[j]: how the one execution of j ended, if it did

vars == <<status, verdict>>

Verdicts == {"success", "failure"}

Init ==
    /\ status = [j \in Jobs |-> "absent"]
    /\ verdict = [j \in Jobs |-> "none"]

Post(j) ==
    /\ status[j] = "absent"
    /\ status' = [status EXCEPT ![j] = "pending"]
    /\ UNCHANGED verdict

Execute(j, v) ==
    /\ status[j] = "pending"
    /\ verdict[j] = "none"
    /\ verdict' = [verdict EXCEPT ![j] = v]
    /\ UNCHANGED status

Answer(j) ==
    /\ status[j] = "pending"
    /\ verdict[j] \in Verdicts
    /\ status' = [status EXCEPT ![j] = verdict[j]]
    /\ UNCHANGED verdict

Next ==
    \E j \in Jobs :
        \/ Post(j)
        \/ \E v \in Verdicts : Execute(j, v)
        \/ Answer(j)

Spec == Init /\ [][Next]_vars
=============================================================================
