----------------------------- MODULE MCJobQueue -----------------------------
(* Small instances of JobQueue: a schedule toggle, which percolates a run  *)
(* when it is carried out, a timer job that will be found stale, and a     *)
(* scannable link that returns before its result is recorded.              *)
EXTENDS JobQueue, TLC

CONSTANTS toggle, run, timer, link, none

MCSpawn == [j \in Jobs |-> IF j = toggle THEN run ELSE none]

\* Sound for the safety runs only.
WorkerSymmetry == Permutations(Workers)
=============================================================================
