\* A query of five hashes in batches of four, two or three, with a retrying download.
SPECIFICATION FairSpec
CONSTANTS
    Downloads = {d1}
    Query = q
    Retries = 1
    Threshold = 2
    MaxDoublings = 2
    NumHashes = 5
    FirstBatch = 7
    MinBatch = 2
    MaxDownloads = 3
    MaxCooldowns = 1
INVARIANTS BreakerIsNotMissed EveryHashIsAskedFor
PROPERTY CallersEnd
CHECK_DEADLOCK FALSE
