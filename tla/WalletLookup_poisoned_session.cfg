\* No consumer-side faults: one failed GET /wallet round trip on the shared
\* session stops provisioning.
CONSTANTS
    u1 = u1
    u2 = u2
    n1 = n1
    n2 = n2
    Users = {u1, u2}
    Networks = {n1}
    Log <- LogRetryDuplicate
    MaxOffset = 4
    BatchSize = 2
    MaxConcurrentGenerations = 50
    TrimAbove = 2
    TrimTo = 2
    MaxFaults = 0
    MaxBrokerFaults = 0
    MaxSendFaults = 0
    StartMayFail = FALSE
    MaxRestarts = 0
    Gets = {1}
    MaxLookupFaults = 1
SPECIFICATION LookupSpec
PROPERTY ProvisionedDespiteLookups
CHECK_DEADLOCK FALSE
