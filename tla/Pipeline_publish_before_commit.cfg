\* One request for u1, whose commit may fail after verify_user spawned the
\* user.verified publish: the wallet service provisions a wallet for a
\* verification that was rolled back.
CONSTANTS
    u1 = u1
    u2 = u2
    n1 = n1
    Users = {u1}
    Networks = {n1}
    Requests = {1}
    BatchSize = 2
    MaxVerificationFaults = 1
    MaxVerificationSends = 0
    MaxWalletSends = 0
SPECIFICATION Spec
PROPERTY WalletBackedByVerification
CHECK_DEADLOCK FALSE
