\* A restart after the commit kills the publish task; re-verifying returns early.
CONSTANTS
    u1 = u1
    u2 = u2
    n1 = n1
    Users = {u1}
    Networks = {n1}
    Requests = {1, 2}
    MaxConcurrentVerifications = 100
    MaxFaults = 0
    MaxSendFaults = 0
    MaxRestarts = 1
SPECIFICATION Spec
PROPERTY VerifiedEventuallyAnnounced
CHECK_DEADLOCK FALSE
