\* Two callers, a full channel, full and partial batches, one crash.
SPECIFICATION FairSpec
CONSTANTS
    Callers = {c1, c2}
    Capacity = 2
    BatchSize = 2
    MaxMessages = 4
    MaxCrashes = 1
INVARIANTS PromisedIsDurable RowsInOrder OnlyRefusedAreDropped
PROPERTIES ImplementsDurableLog OperationSettles
CHECK_DEADLOCK FALSE
