\* Requests racing on one pair, with a DB error, three failed sends and a restart.
CONSTANTS
    u1 = u1
    u2 = u2
    n1 = n1
    Users = {u1, u2}
    Networks = {n1}
    Requests = {1, 2, 3}
    MaxConcurrentVerifications = 100
    MaxFaults = 1
    MaxSendFaults = 3
    MaxRestarts = 1
SPECIFICATION Spec
INVARIANT TypeOK
INVARIANT CommittedRowsVerified
CHECK_DEADLOCK FALSE
