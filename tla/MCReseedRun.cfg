\* Two matches that may be one torrent, two adders at a time, a second run after a crash.
SPECIFICATION FairSpec
CONSTANTS
    Runs = {r1}
    Items = {i1, i2}
    Hashes = {h1, h2}
    NoItem = NoItem
    AddConcurrency = 2
    MaxStarts = 2
    MaxFaults = 1
    MaxCrashes = 1
INVARIANTS AddersKeepApart ReportAddsUp SuccessIsInDestination
PROPERTIES RunEnds
CHECK_DEADLOCK FALSE
