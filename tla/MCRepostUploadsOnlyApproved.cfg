SPECIFICATION Spec
CONSTANTS
    Entries = {x1}
    NoEntry = NoEntry
    Actors = {a1, a2}
    MaxRequests = 4
    MaxCrashes = 0
PROPERTY UploadsOnlyApproved
CHECK_DEADLOCK FALSE
