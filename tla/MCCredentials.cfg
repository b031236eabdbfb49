\* One site, two requests or runs at once, three in all, one fault.
CONSTANT User = {u1, u2}
CONSTANT Site = {s1}
CONSTANT Actor <- MCActor
CONSTANT NoKey = NoKey
CONSTANT NoRow = NoRow
CONSTANT MaxRequests = 3
CONSTANT MaxFaults = 1
SPECIFICATION MCSpec
INVARIANT RegistryFollowsRows
INVARIANT StoredIsRecoverable
INVARIANT RunHasTheKey
PROPERTY RequestsEnd
CHECK_DEADLOCK FALSE
