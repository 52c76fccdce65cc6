SPECIFICATION Spec
CONSTANTS
    toggle = toggle
    run = run
    timer = timer
    link = link
    none = none
    Jobs = {toggle, run, timer, link}
    UserJobs = {toggle, link}
    TimerJobs = {timer}
    Spawn <- MCSpawn
    NoJob = none
    StaleJobs = {timer}
    Unrecorded = {link}
    Workers = {w1, w2}
    BatchSize = 2
    MaxFailures = 2
    CounterRange = 65536
    Reporting = TRUE
    MaxFaults = 2
SYMMETRY WorkerSymmetry
INVARIANT TypeOK
INVARIANT QueuedIsPending
INVARIANT OneHolder
INVARIANT PendingIsOwned
PROPERTY ImplementsBoard
CHECK_DEADLOCK FALSE
