\* Two concurrent POST /verify for one pair: two events with distinct
\* timestamps in one batch give the pair two wallets.
CONSTANTS
    u1 = u1
    u2 = u2
    n1 = n1
    Users = {u1}
    Networks = {n1}
    Requests = {1, 2}
    BatchSize = 2
    MaxVerificationFaults = 0
    MaxVerificationSends = 1
    MaxWalletSends = 0
SPECIFICATION Spec
INVARIANT OneWalletPerVerifiedPair
CHECK_DEADLOCK FALSE
