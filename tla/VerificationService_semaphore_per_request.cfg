\* Two requests inside verify_user with max_concurrent_verifications = 1.
CONSTANTS
    u1 = u1
    u2 = u2
    n1 = n1
    Users = {u1, u2}
    Networks = {n1}
    Requests = {1, 2}
    MaxConcurrentVerifications = 1
    MaxFaults = 0
    MaxSendFaults = 0
    MaxRestarts = 0
SPECIFICATION Spec
INVARIANT ConcurrencyBound
CHECK_DEADLOCK FALSE
