------------------------------- MODULE Pipeline -------------------------------
(***************************************************************************)
(* The two services together: the verification service's user.verified   *)
(* topic is the partition the wallet service's consumer reads.  Each       *)
(* service is its own process: a step is a step of one of them, and the   *)
(* other's state is unchanged.                                             *)
(***************************************************************************)
EXTENDS Naturals, FiniteSets

CONSTANTS
    Users, Networks,
    Requests,             \* POST /verify requests
    BatchSize,            \* wallet settings.batch_processing_size
    MaxVerificationFaults, \* DB errors in the verification service
    MaxVerificationSends,  \* failed user.verified send attempts
    MaxWalletSends         \* failed wallet.created send attempts

VARIABLES
    \* verification service
    req, holding, txn, rows, vOutbox, topic, vFaults, vSendFaults, vRestarts,
    \* wallet service
    position, committed, running, tasks, processedEvents, walletCache,
    indexCache, wallets, sessionOk, wOutbox, published, issued, wFaults,
    brokerFaults, wSendFaults, producer, wRestarts

vvars == <<req, holding, txn, rows, vOutbox, vFaults, vSendFaults, vRestarts>>
wvars == <<position, committed, running, tasks, processedEvents, walletCache,
           indexCache, wallets, sessionOk, wOutbox, published, issued, wFaults,
           brokerFaults, wSendFaults, producer, wRestarts>>
vars == <<vvars, topic, wvars>>

\* The verification service without restarts; the semaphore's permits are
\* never the limit.
V == INSTANCE VerificationService WITH
    outbox <- vOutbox, faults <- vFaults, sendFaults <- vSendFaults,
    restarts <- vRestarts,
    MaxConcurrentVerifications <- Cardinality(Requests),
    MaxFaults <- MaxVerificationFaults, MaxSendFaults <- MaxVerificationSends, MaxRestarts <- 0

\* The wallet service reading the topic from its start, with failed
\* wallet.created sends as its only failures; the trim thresholds are
\* scaled as in WalletPipeline's runs.
W == INSTANCE WalletPipeline WITH
    log <- topic, Log <- <<>>,
    MaxOffset <- Cardinality(Requests) + MaxVerificationSends,
    outbox <- wOutbox, faults <- wFaults, sendFaults <- wSendFaults,
    restarts <- wRestarts,
    MaxConcurrentGenerations <- BatchSize, TrimAbove <- 10, TrimTo <- 5,
    MaxFaults <- 0, MaxBrokerFaults <- 0, MaxSendFaults <- MaxWalletSends, StartMayFail <- FALSE,
    MaxRestarts <- 0

TypeOK == V!TypeOK /\ W!TypeOK

Init == V!Init /\ W!Init

VerificationStep == V!Next /\ UNCHANGED wvars
WalletStep == W!Next /\ UNCHANGED vvars

Next == VerificationStep \/ WalletStep

\* Each service's event loop runs its ready tasks (as in the two modules).
Fairness ==
    /\ \A r \in Requests : WF_vars(V!RequestStep(r) /\ UNCHANGED wvars)
    /\ WF_vars((\E p \in vOutbox : V!PublishAttempt(p)) /\ UNCHANGED wvars)
    /\ WF_vars(W!Poll /\ UNCHANGED vvars)
    /\ WF_vars(W!BatchDone /\ UNCHANGED vvars)
    /\ \A o \in W!Offsets : WF_vars(W!TaskStep(o) /\ UNCHANGED vvars)
    /\ WF_vars((\E p \in wOutbox : W!PublishAttempt(p)) /\ UNCHANGED vvars)

Spec == Init /\ [][Next]_vars /\ Fairness

-----------------------------------------------------------------------------
(* Properties *)

Verified(u, n) == \E w \in V!RowsOf(u, n) : w.status = "verified"
Provisioned(u, n) == W!RowsOf(u, n) # {}

\* A user whose verification is committed VERIFIED eventually has a wallet
\* on that network: user.verified is published, consumed, handled and the
\* wallet flushed (spec §2 happy path, §8 scenario 1).
VerifiedUserGetsWallet ==
    \A u \in Users, n \in Networks : Verified(u, n) ~> Provisioned(u, n)

\* A wallet is provisioned only for a user whose verification is, or
\* eventually becomes, committed VERIFIED (spec §2: the wallet service
\* acts on verified users); verify_user spawns the publish before the
\* request's commit, which may then fail.
WalletBackedByVerification ==
    \A u \in Users, n \in Networks : Provisioned(u, n) ~> Verified(u, n)

\* Every wallet the consumer flushes for a verified user is eventually
\* announced on wallet.created, through failed sends of both services
\* and the retry duplicates they cause (spec §4.2, §7).
WalletAnnounced == W!WalletCreatedEventuallyPublished

\* Verifying a pair, however often and concurrently, leaves it one wallet.
OneWalletPerVerifiedPair == W!OneWalletPerUserNetwork

=============================================================================
