\* Two executions of one task, one failing database call, one crash.
SPECIFICATION FairSpec
CONSTANTS
    Tasks = {t1}
    NoTask = NoTask
    Executions = {e1, e2}
    BusyDatabase = FALSE
    MaxTriggers = 2
    MaxFaults = 1
    MaxCrashes = 1
INVARIANTS OneRunPerTask RunningTaskHasARun LogClosedBeforeSettled
PROPERTIES ExecutionEnds
CHECK_DEADLOCK FALSE
