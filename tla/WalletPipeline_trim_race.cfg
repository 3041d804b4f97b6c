CONSTANTS
    u1 = u1
    u2 = u2
    n1 = n1
    n2 = n2
    Users = {u1, u2}
    Networks = {n1, n2}
    Log <- LogTrimRace
    MaxOffset = 4
    BatchSize = 2
    MaxConcurrentGenerations = 50
    TrimAbove = 2
    TrimTo = 2
    MaxFaults = 0
    MaxBrokerFaults = 0
    MaxSendFaults = 0
    StartMayFail = FALSE
    MaxRestarts = 0
SPECIFICATION Spec
INVARIANT OneWalletPerUserNetwork
CHECK_DEADLOCK FALSE
