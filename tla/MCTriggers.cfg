\* Three requests of two handlers over two tasks that may share a folder.
SPECIFICATION Spec
CONSTANTS
    Tasks = {t1, t2}
    NoTask = NoTask
    Folders = {f1}
    Expressions = {e1, e2}
    Handlers = {h1, h2}
    MaxRequests = 3
    MaxRefusals = 1
SYMMETRY TriggerSymmetry
INVARIANTS CronJobsAreKept RuntimeFollowsRows
CHECK_DEADLOCK FALSE
