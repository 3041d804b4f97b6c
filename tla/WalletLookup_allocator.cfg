\* u1 verified three times, twice within one batch (two rows of one pair,
\* which GET /wallet meets as MultipleResultsFound), cache expiry and a
\* restart; no failed creation.
CONSTANTS
    u1 = u1
    u2 = u2
    n1 = n1
    n2 = n2
    Users = {u1, u2}
    Networks = {n1}
    Log <- LogRepeatedVerification
    MaxOffset = 4
    BatchSize = 2
    MaxConcurrentGenerations = 50
    TrimAbove = 2
    TrimTo = 2
    MaxFaults = 0
    MaxBrokerFaults = 0
    MaxSendFaults = 0
    StartMayFail = FALSE
    MaxRestarts = 1
    Gets = {1}
    MaxLookupFaults = 0
SPECIFICATION LookupCrashSpec
INVARIANT UniqueDerivationIndex
PROPERTY AllocatorRefinement
CHECK_DEADLOCK FALSE
