CONSTANT Family <- MCFamily
SPECIFICATION FairAdapterSpec
INVARIANT SubmittedIsStored
INVARIANT DeadSessionIsReported
INVARIANT ProbeIsJust
PROPERTY CallsEnd
CHECK_DEADLOCK TRUE
