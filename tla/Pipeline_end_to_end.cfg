\* Two requests for any pairs, a failed or duplicated user.verified send
\* and two failed wallet.created sends: every verified pair gets its
\* wallet and every wallet is announced.
CONSTANTS
    u1 = u1
    u2 = u2
    n1 = n1
    Users = {u1, u2}
    Networks = {n1}
    Requests = {1, 2}
    BatchSize = 2
    MaxVerificationFaults = 0
    MaxVerificationSends = 1
    MaxWalletSends = 2
SPECIFICATION Spec
PROPERTY VerifiedUserGetsWallet
PROPERTY WalletAnnounced
CHECK_DEADLOCK FALSE
