\* GET /wallet next to the consumer: retry duplicates in one batch,
\* two DB or generator errors, a DB error of a lookup, broker and send
\* failures, cache expiry; no restart.  Failed creations and expiry reseed
\* the allocator from the table.
CONSTANTS
    u1 = u1
    u2 = u2
    n1 = n1
    n2 = n2
    Users = {u1, u2}
    Networks = {n1}
    Log <- LogRetryDuplicate
    MaxOffset = 4
    BatchSize = 2
    MaxConcurrentGenerations = 50
    TrimAbove = 2
    TrimTo = 2
    MaxFaults = 2
    MaxBrokerFaults = 1
    MaxSendFaults = 1
    StartMayFail = TRUE
    MaxRestarts = 0
    Gets = {1, 2}
    MaxLookupFaults = 1
SPECIFICATION LookupSpec
INVARIANT LookupTypeOK
INVARIANT UniqueDerivationIndex
PROPERTY RegistryRefinement
CHECK_DEADLOCK FALSE
