\* One match on two sites; a statement reads one of the two hashes, commits in between,
\* and a match that fails leaves the task of its first site running.
SPECIFICATION FairMatchSpec
CONSTANTS
    Runs = {r1}
    Sites = {s1, s2}
    NoSite = none
    Hashes = {h1, h2}
    InChunk = 1
    MaxStarts = 1
INVARIANT MatchAddsUp
PROPERTIES ImplementsMatchContract MatchEnds
CHECK_DEADLOCK FALSE
