SPECIFICATION FairSpec
CONSTANTS
    toggle = toggle
    run = run
    timer = timer
    link = link
    none = none
    Jobs = {toggle, run, timer}
    UserJobs = {toggle}
    TimerJobs = {timer}
    Spawn <- MCSpawn
    NoJob = none
    StaleJobs = {timer}
    Unrecorded = {}
    Workers = {w1, w2}
    BatchSize = 1
    MaxFailures = 1
    CounterRange = 65536
    Reporting = TRUE
    MaxFaults = 1
PROPERTY AnsweredEventually
CHECK_DEADLOCK FALSE
