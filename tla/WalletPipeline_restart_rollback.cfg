CONSTANTS
    u1 = u1
    u2 = u2
    n1 = n1
    n2 = n2
    Users = {u1, u2}
    Networks = {n1}
    Log <- LogTwoUsers
    MaxOffset = 2
    BatchSize = 1
    MaxConcurrentGenerations = 50
    TrimAbove = 10
    TrimTo = 5
    MaxFaults = 0
    MaxBrokerFaults = 0
    MaxSendFaults = 0
    StartMayFail = FALSE
    MaxRestarts = 1
SPECIFICATION Spec
INVARIANT PublishedWalletIsPersisted
CHECK_DEADLOCK FALSE
