\* Two actors, two entries: reviews, submissions and batches, one crash.
SPECIFICATION FairSpec
CONSTANTS
    Entries = {x1, x2}
    NoEntry = NoEntry
    Actors = {a1, a2}
    MaxRequests = 4
    MaxCrashes = 1
INVARIANTS SubmittedWasUploaded UploadedWasApproved ApprovedIsAdapted
PROPERTIES BatchTakesEveryEntry ActorsFinish
CHECK_DEADLOCK FALSE
