CONSTANTS
    SystemTasks <- MCTasks
    period <- MCperiod
    execution_time <- MCexecution_time
    first_release <- MCfirst_release
    cycle_duration = 4
    thermal = 1
    MaxTime = 6
SPECIFICATION FairSpec
INVARIANTS
    TypeOK
    ReleasesAccounted
    RunsHighest
    ActiveWithinElapsed
PROPERTIES
    FullService
    ShutdownEndsScheduler
CHECK_DEADLOCK FALSE
