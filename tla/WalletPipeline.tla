--------------------------- MODULE WalletPipeline ---------------------------
(***************************************************************************)
(* The wallet service's provisioning pipeline (src/wallet_service):        *)
(*   KafkaEventConsumer._consume_loop polls a batch of user.verified       *)
(*   records, runs EventHandler.handle_user_verified for each record as a  *)
(*   concurrent asyncio task, and commits offsets only if no task failed.  *)
(*   The handler deduplicates on an in-memory key set, then calls          *)
(*   WalletService.create_wallet: cache, repository lookup,                *)
(*   DerivationService.get_next_index, generator, repository flush, cache  *)
(*   set and a fire-and-forget wallet.created publish with 3 attempts.     *)
(*                                                                         *)
(* A task step is the code between two suspension points that touch       *)
(* shared state (a DB round trip on the shared session, the generator's    *)
(* executor call).  asyncio locks that are free are taken without         *)
(* suspending, so the handler's dedupe region, the cache operations and   *)
(* the allocator's cache-hit path are atomic parts of those steps.         *)
(***************************************************************************)
EXTENDS Naturals, Sequences, FiniteSets, FiniteSetsExt

CONSTANTS
    Users,       \* user ids (model values)
    Networks,    \* networks (model values)
    Log,         \* the user.verified partition's records at start
    MaxOffset,   \* bound on the partition's length
    BatchSize,   \* settings.batch_processing_size
    MaxConcurrentGenerations, \* settings.max_concurrent_generations
    TrimAbove,   \* processed-set size above which the handler trims (10000)
    TrimTo,      \* size the handler trims to (5000)
    MaxFaults,   \* bound on injected DB and generator errors
    MaxBrokerFaults, \* bound on getmany / commit errors
    MaxSendFaults,   \* bound on failed wallet.created send attempts
    StartMayFail,    \* whether the producer's start() may raise
    MaxRestarts  \* bound on process restarts

\* A user.verified event: the handler's key is user_id:network:timestamp.
Event == [user: Users, net: Networks, ts: Nat]

ASSUME /\ Log \in Seq(Event) /\ MaxOffset \in Nat /\ Len(Log) <= MaxOffset
       /\ BatchSize \in Nat \ {0}
       /\ TrimTo \in Nat /\ TrimAbove \in Nat /\ TrimTo <= TrimAbove
       /\ MaxFaults \in Nat /\ MaxRestarts \in Nat
       /\ MaxBrokerFaults \in Nat /\ MaxSendFaults \in Nat /\ StartMayFail \in BOOLEAN
       \* create_wallet is only called by the handler, once per record of a
       \* batch, and batches never overlap, so the generation semaphore
       \* (50 permits against batches of 10) never makes a caller wait.
       /\ BatchSize <= MaxConcurrentGenerations

\* Python None for the allocator's cached next index.
NoIndex == -1

\* A wallet row.  Generation is deterministic and injective in
\* (user, network, index): the seed passphrase carries user_id and the path
\* carries the network's base path and the index, so the triple stands for
\* the address and the unique wallet_address column is unique on it.
Wallet == [user: Users, net: Networks, idx: Nat]

PCs == {"receive", "lookup", "seed", "create", "ok", "failed"}
Done == {"ok", "failed"}

VARIABLES
    log,             \* the user.verified partition
    position,        \* consumer fetch position: records 1..position fetched
    committed,       \* committed consumer-group offset (durable in Kafka)
    running,         \* KafkaEventConsumer._running
    tasks,           \* offset -> task of the batch in flight
    processedEvents, \* EventHandler._processed_events
    walletCache,     \* CacheService entries wallet:{user}:{network}
    indexCache,      \* CacheService entries next_index:{network}
    wallets,         \* rows flushed into the shared session's transaction
    sessionOk,       \* FALSE once a DB error left the session needing rollback
    outbox,          \* running _publish_wallet_created tasks
    published,       \* the wallet.created topic
    issued,          \* history: indices get_next_index returned, per network
    faults,          \* injected DB and generator errors so far
    brokerFaults,    \* getmany / commit errors so far
    sendFaults,      \* failed publish attempts so far
    producer,        \* KafkaEventPublisher._producer: none, started, unstarted
    restarts         \* process restarts so far

vars == <<position, committed, running, tasks, processedEvents, walletCache,
          indexCache, wallets, sessionOk, outbox, published, issued,
          faults, brokerFaults, sendFaults, producer, restarts, log>>

Offsets == 1..MaxOffset

Key(e) == <<e.user, e.net, e.ts>>
Task == [pc: PCs, idx: Nat \cup {NoIndex}]
Publish == [w: Wallet, tries: 0..2]

TypeOK ==
    /\ log \in Seq(Event) /\ Len(log) <= MaxOffset
    /\ position \in 0..Len(log) /\ committed \in 0..position
    /\ running \in BOOLEAN
    /\ DOMAIN tasks \subseteq 1..Len(log) /\ \A o \in DOMAIN tasks : tasks[o] \in Task
    /\ processedEvents \subseteq Users \X Networks \X Nat
    /\ walletCache \subseteq Wallet
    /\ indexCache \in [Networks -> Nat \cup {NoIndex}]
    /\ wallets \subseteq Wallet
    /\ sessionOk \in BOOLEAN
    /\ outbox \subseteq Publish
    /\ published \in Seq(Wallet)
    /\ issued \in [Networks -> Seq(Nat)]
    /\ faults \in 0..MaxFaults /\ restarts \in 0..MaxRestarts
    /\ brokerFaults \in 0..MaxBrokerFaults /\ sendFaults \in 0..MaxSendFaults
    /\ producer \in {"none", "started", "unstarted"}

Init ==
    /\ log = Log
    /\ position = 0 /\ committed = 0 /\ running = TRUE
    /\ tasks = <<>>
    /\ processedEvents = {}
    /\ walletCache = {}
    /\ indexCache = [n \in Networks |-> NoIndex]
    /\ wallets = {}
    /\ sessionOk = TRUE
    /\ outbox = {}
    /\ published = <<>>
    /\ issued = [n \in Networks |-> <<>>]
    /\ faults = 0 /\ brokerFaults = 0 /\ sendFaults = 0 /\ restarts = 0
    /\ producer = "none"

-----------------------------------------------------------------------------
(* Helpers *)

RowsOf(u, n) == {w \in wallets : w.user = u /\ w.net = n}
CachedOf(u, n) == {w \in walletCache : w.user = u /\ w.net = n}

\* cache.set("wallet:{user}:{network}", w) replaces the entry of that key.
CacheSet(w) == walletCache' = (walletCache \ CachedOf(w.user, w.net)) \cup {w}

\* repository.get_next_derivation_index: max(derivation_index) + 1, or 0.
NextDerivationIndex(n) ==
    LET used == {w.idx : w \in {v \in wallets : v.net = n}}
    IN IF used = {} THEN 0 ELSE Max(used) + 1

\* The processed set after the size check.  list(set)[-5000:] keeps
\* TrimTo keys of a Python set, whose iteration order is the hash order,
\* not the insertion order: any TrimTo of them may survive.
Trimmed(S) ==
    IF Cardinality(S) > TrimAbove THEN kSubset(TrimTo, S) ELSE {S}

SetPc(o, pc) == tasks' = [tasks EXCEPT ![o].pc = pc]

\* generator.generate: the seed is derived from the mnemonic with the
\* passphrase wallet-service:{user_id}, the key at {base_path}/{index}; the
\* address is abstracted to the triple it is a function of.
Address(u, n, i) == [user |-> u, net |-> n, idx |-> i]

\* WalletRepository.create: session.add and flush.  The row joins the shared
\* session's open transaction; nothing commits it.
Create(w) == wallets' = wallets \cup {w}

\* KafkaEventPublisher.publish: send_and_wait of the wallet.created record
\* (key user_id:network) appends it to the topic.
Send(w) == published' = Append(published, w)

\* The handler's except branch: discard the key, re-raise to the consumer.
FailTask(o) ==
    /\ processedEvents' = processedEvents \ {Key(log[o])}
    /\ SetPc(o, "failed")

\* A DB round trip that raises.  The first error is injected (a lost
\* connection, a timeout, a concurrent use of the shared session); the
\* session is never rolled back, so every later round trip raises too.
DbError(o) ==
    /\ \/ /\ sessionOk /\ faults < MaxFaults
          /\ faults' = faults + 1
       \/ /\ ~sessionOk
          /\ UNCHANGED faults
    /\ sessionOk' = FALSE
    /\ FailTask(o)

\* Mutant: the cache-hit path returns the cached index without advancing it.
IssueStale(o, n, i) ==
    /\ tasks' = [tasks EXCEPT ![o] = [pc |-> "create", idx |-> i]]
    /\ indexCache' = [indexCache EXCEPT ![n] = i]
    /\ issued' = [issued EXCEPT ![n] = Append(@, i)]

\* get_next_index returns i and leaves i + 1 cached for the network.
Issue(o, n, i) ==
    /\ tasks' = [tasks EXCEPT ![o] = [pc |-> "create", idx |-> i]]
    /\ indexCache' = [indexCache EXCEPT ![n] = i + 1]
    /\ issued' = [issued EXCEPT ![n] = Append(@, i)]

-----------------------------------------------------------------------------
(* Consumer loop *)

\* Mutant: the batch's tasks start one past the fetch position.
PollOffByOne ==
    /\ running /\ tasks = <<>>
    /\ position < Len(log)
    /\ LET hi == IF position + BatchSize < Len(log)
                 THEN position + BatchSize ELSE Len(log)
       IN /\ tasks' = [o \in position + 2 .. hi |-> [pc |-> "receive", idx |-> NoIndex]]
          /\ position' = hi
    /\ UNCHANGED <<committed, running, processedEvents, walletCache, indexCache,
                   wallets, sessionOk, outbox, published, issued, faults,
                   brokerFaults, sendFaults, producer, restarts, log>>

\* getmany(max_records = batch_processing_size): one task per record.
Poll ==
    /\ running /\ tasks = <<>>
    /\ position < Len(log)
    /\ LET hi == IF position + BatchSize < Len(log)
                 THEN position + BatchSize ELSE Len(log)
       IN /\ tasks' = [o \in position + 1 .. hi |-> [pc |-> "receive", idx |-> NoIndex]]
          /\ position' = hi
    /\ UNCHANGED <<committed, running, processedEvents, walletCache, indexCache,
                   wallets, sessionOk, outbox, published, issued, faults, brokerFaults, sendFaults, producer, restarts, log>>

\* getmany raises: the loop exits and its finally clause stops the consumer.
PollError ==
    /\ running /\ tasks = <<>>
    /\ brokerFaults < MaxBrokerFaults
    /\ running' = FALSE
    /\ brokerFaults' = brokerFaults + 1
    /\ UNCHANGED <<position, committed, tasks, processedEvents, walletCache,
                   indexCache, wallets, sessionOk, outbox, published, issued, faults, sendFaults, producer, restarts, log>>

\* Mutant: commits the offset of the last record plus one.
BatchDoneCommitNext ==
    /\ running /\ tasks # <<>>
    /\ \A o \in DOMAIN tasks : tasks[o].pc \in Done
    /\ tasks' = <<>>
    /\ IF \E o \in DOMAIN tasks : tasks[o].pc = "failed"
       THEN UNCHANGED <<committed, running, brokerFaults>>
       ELSE /\ committed' = position + 1
            /\ UNCHANGED <<running, brokerFaults>>
    /\ UNCHANGED <<position, processedEvents, walletCache, indexCache, wallets,
                   sessionOk, outbox, published, issued, faults, sendFaults, producer, restarts, log>>

\* Mutant: the failure test inverted, commits only batches that failed.
BatchDoneInverted ==
    /\ running /\ tasks # <<>>
    /\ \A o \in DOMAIN tasks : tasks[o].pc \in Done
    /\ tasks' = <<>>
    /\ IF \E o \in DOMAIN tasks : tasks[o].pc = "failed"
       THEN /\ committed' = position
            /\ UNCHANGED <<running, brokerFaults>>
       ELSE UNCHANGED <<committed, running, brokerFaults>>
    /\ UNCHANGED <<position, processedEvents, walletCache, indexCache, wallets,
                   sessionOk, outbox, published, issued, faults, sendFaults, producer, restarts, log>>

\* gather(..., return_exceptions=True) returned: commit only if no task
\* failed.  A failed batch is not rewound: position stays where getmany
\* left it.  Commit retries three times on CommitFailedError and then
\* raises out of the loop, which stops the consumer.
BatchDone ==
    /\ running /\ tasks # <<>>
    /\ \A o \in DOMAIN tasks : tasks[o].pc \in Done
    /\ tasks' = <<>>
    /\ IF \E o \in DOMAIN tasks : tasks[o].pc = "failed"
       THEN UNCHANGED <<committed, running, brokerFaults>>
       ELSE \/ /\ committed' = position
               /\ UNCHANGED <<running, brokerFaults>>
            \/ /\ brokerFaults < MaxBrokerFaults
               /\ brokerFaults' = brokerFaults + 1
               /\ running' = FALSE
               /\ UNCHANGED committed
    /\ UNCHANGED <<position, processedEvents, walletCache, indexCache, wallets,
                   sessionOk, outbox, published, issued, faults, sendFaults, producer, restarts, log>>

-----------------------------------------------------------------------------
(* One record's task *)

\* Mutant: no duplicate check, every delivery goes on to create_wallet.
HandleUserVerifiedNoDedupe(o) ==
    LET e == log[o] IN
    /\ tasks[o].pc = "receive"
    /\ \E kept \in Trimmed(processedEvents \cup {Key(e)}) : processedEvents' = kept
    /\ SetPc(o, IF CachedOf(e.user, e.net) # {} THEN "ok" ELSE "lookup")
    /\ UNCHANGED <<position, committed, running, walletCache, indexCache, wallets,
                   sessionOk, outbox, published, issued, faults, brokerFaults, sendFaults, producer, restarts, log>>

\* handle_user_verified up to create_wallet's first DB round trip: the
\* dedupe region under _event_lock, then the cache lookup.
HandleUserVerified(o) ==
    LET e == log[o] IN
    /\ tasks[o].pc = "receive"
    /\ IF Key(e) \in processedEvents
       THEN /\ SetPc(o, "ok")
            /\ UNCHANGED processedEvents
       ELSE /\ \E kept \in Trimmed(processedEvents \cup {Key(e)}) :
                  processedEvents' = kept
            /\ SetPc(o, IF CachedOf(e.user, e.net) # {} THEN "ok" ELSE "lookup")
    /\ UNCHANGED <<position, committed, running, walletCache, indexCache, wallets,
                   sessionOk, outbox, published, issued, faults, brokerFaults, sendFaults, producer, restarts, log>>

\* repository.get_by_user_and_network and what follows it without
\* suspending: a hit fills the cache; a miss enters _generate_wallet, whose
\* get_next_index returns at once on a cached index and otherwise waits on
\* the max(derivation_index) query.  scalar_one_or_none raises when the
\* pair has several rows.
Lookup(o) ==
    LET e == log[o]
        found == RowsOf(e.user, e.net)
    IN
    /\ tasks[o].pc = "lookup"
    /\ \/ /\ DbError(o)
          /\ UNCHANGED <<walletCache, indexCache, issued>>
       \/ /\ sessionOk
          /\ Cardinality(found) > 1
          /\ FailTask(o)
          /\ UNCHANGED <<walletCache, indexCache, issued, sessionOk, faults>>
       \/ /\ sessionOk
          /\ Cardinality(found) = 1
          /\ CacheSet(CHOOSE w \in found : TRUE)
          /\ SetPc(o, "ok")
          /\ UNCHANGED <<processedEvents, indexCache, issued, sessionOk, faults>>
       \/ /\ sessionOk
          /\ found = {}
          /\ IF indexCache[e.net] # NoIndex
             THEN Issue(o, e.net, indexCache[e.net])
             ELSE /\ SetPc(o, "seed")
                  /\ UNCHANGED <<indexCache, issued>>
          /\ UNCHANGED <<processedEvents, walletCache, sessionOk, faults>>
    /\ UNCHANGED <<position, committed, running, wallets, outbox, published, brokerFaults, sendFaults, producer, restarts, log>>

\* Mutant: no second look at the cache once the lock is held; every
\* waiter reseeds from the table.
GetNextIndexNoRecheck(o) ==
    LET n == log[o].net IN
    /\ tasks[o].pc = "seed"
    /\ \/ /\ DbError(o)
          /\ UNCHANGED <<indexCache, issued>>
       \/ /\ sessionOk
          /\ Issue(o, n, NextDerivationIndex(n))
          /\ UNCHANGED <<processedEvents, sessionOk, faults>>
    /\ UNCHANGED <<position, committed, running, walletCache, wallets, outbox,
                   published, brokerFaults, sendFaults, producer, restarts, log>>

\* get_next_index's body once the per-network lock is held: another task
\* may have seeded the cache while this one waited for the lock.
GetNextIndex(o) ==
    LET n == log[o].net IN
    /\ tasks[o].pc = "seed"
    /\ \/ /\ DbError(o)
          /\ UNCHANGED <<indexCache, issued>>
       \/ /\ sessionOk
          /\ indexCache[n] # NoIndex
          /\ Issue(o, n, indexCache[n])
          /\ UNCHANGED <<processedEvents, sessionOk, faults>>
       \/ /\ sessionOk
          /\ indexCache[n] = NoIndex
          /\ Issue(o, n, NextDerivationIndex(n))
          /\ UNCHANGED <<processedEvents, sessionOk, faults>>
    /\ UNCHANGED <<position, committed, running, walletCache, wallets, outbox,
                   published, brokerFaults, sendFaults, producer, restarts, log>>

\* generator.generate, Wallet(...), repository.create (add + flush), then
\* cache.set and create_task(_publish_wallet_created).  The table has no
\* constraint on (user_id, network).  Its unique wallet_address would make
\* the flush raise only for a reused (user, network, index), which
\* UniqueDerivationIndex rules out.  A failed step does not return the
\* allocated index.
CreateWallet(o) ==
    LET e == log[o]
        w == Address(e.user, e.net, tasks[o].idx)
    IN
    /\ tasks[o].pc = "create"
    /\ \/ /\ faults < MaxFaults
          \* the generator or Wallet's validation raises (an executor error,
          \* an address its validate_address rejects): the session is untouched
          /\ faults' = faults + 1
          /\ FailTask(o)
          /\ UNCHANGED <<wallets, walletCache, outbox, sessionOk>>
       \/ /\ DbError(o)
          /\ UNCHANGED <<wallets, walletCache, outbox>>
       \/ /\ sessionOk
          /\ Create(w)
          /\ CacheSet(w)
          /\ outbox' = outbox \cup {[w |-> w, tries |-> 0]}
          /\ SetPc(o, "ok")
          /\ UNCHANGED <<processedEvents, sessionOk, faults>>
    /\ UNCHANGED <<position, committed, running, indexCache, published,
                   issued, brokerFaults, sendFaults, producer, restarts, log>>

-----------------------------------------------------------------------------
(* Background publish, cache expiry, restart *)

\* _get_producer: the first call finds self._producer None, creates the
\* producer, assigns it and awaits start(); later calls get the assigned
\* one.  The check, the free lock and the assignment run without a
\* suspension, so one producer is created per process; a send while
\* start() is pending waits on the producer's metadata, which the model
\* folds into the start.
GetProducer ==
    \/ /\ producer = "none"
       /\ producer' = "started"
    \/ /\ producer = "started"
       /\ UNCHANGED producer

\* start() raises (the broker unreachable at the first wallet.created):
\* the producer was assigned before the await, so the never-started
\* producer stays in self._producer and every later attempt of the
\* process goes through it and fails.
ProducerUnusable ==
    \/ /\ producer = "none" /\ StartMayFail
       /\ producer' = "unstarted"
    \/ /\ producer = "unstarted"
       /\ UNCHANGED producer

\* One attempt of the publish loop of `attempts` attempts: on failure it
\* sleeps and retries, and after the last failure it logs and gives up.
Attempt(p, attempts) ==
    LET retry == IF p.tries < attempts - 1 THEN {[p EXCEPT !.tries = @ + 1]} ELSE {}
    IN
    /\ p \in outbox
    /\ \/ /\ GetProducer
          /\ \/ /\ Send(p.w)
                /\ outbox' = outbox \ {p}
                /\ UNCHANGED sendFaults
             \/ /\ sendFaults < MaxSendFaults
                /\ sendFaults' = sendFaults + 1
                /\ outbox' = (outbox \ {p}) \cup retry
                /\ UNCHANGED published
       \/ /\ ProducerUnusable
          /\ outbox' = (outbox \ {p}) \cup retry
          /\ UNCHANGED <<published, sendFaults>>
    /\ UNCHANGED <<position, committed, running, tasks, processedEvents, walletCache,
                   indexCache, wallets, sessionOk, issued, faults, brokerFaults, restarts, log>>

\* Mutant: the retry loop gives up after the second failed attempt.
PublishAttemptTwice(p) == Attempt(p, 2)

\* _publish_wallet_created: three attempts of publisher.publish.
PublishAttempt(p) == Attempt(p, 3)

\* An entry passes cache_ttl_seconds (3600 s) and get() drops it.  DB calls
\* time out after 60 s, so an entry outlives every step of a batch: expiry
\* happens while no batch is in flight.
CacheExpire ==
    /\ tasks = <<>>
    /\ \/ \E c \in walletCache :
             /\ walletCache' = walletCache \ {c}
             /\ UNCHANGED indexCache
       \/ \E n \in Networks :
             /\ indexCache[n] # NoIndex
             /\ indexCache' = [indexCache EXCEPT ![n] = NoIndex]
             /\ UNCHANGED walletCache
    /\ UNCHANGED <<position, committed, running, tasks, processedEvents, wallets,
                   sessionOk, outbox, published, issued, faults, brokerFaults, sendFaults, producer, restarts, log>>

\* The process dies and starts again.  Kafka keeps the committed offset and
\* the published events; memory is lost; the shared session's transaction,
\* which repository.create only flushes and nothing commits, rolls back.
Restart ==
    /\ restarts < MaxRestarts
    /\ restarts' = restarts + 1
    /\ position' = committed
    /\ running' = TRUE
    /\ tasks' = <<>>
    /\ processedEvents' = {}
    /\ walletCache' = {}
    /\ indexCache' = [n \in Networks |-> NoIndex]
    /\ wallets' = {}
    /\ sessionOk' = TRUE
    /\ outbox' = {}
    /\ issued' = [n \in Networks |-> <<>>]
    /\ producer' = "none"
    /\ UNCHANGED <<committed, published, faults, brokerFaults, sendFaults, log>>

-----------------------------------------------------------------------------

TaskStep(o) ==
    /\ o \in DOMAIN tasks
    /\ \/ HandleUserVerified(o)
       \/ Lookup(o)
       \/ GetNextIndex(o)
       \/ CreateWallet(o)

Next ==
    \/ Poll
    \/ PollError
    \/ BatchDone
    \/ \E o \in Offsets : TaskStep(o)
    \/ \E p \in outbox : PublishAttempt(p)
    \/ CacheExpire
    \/ Restart

\* The event loop runs every ready task, and the consumer loop and the
\* publish tasks never stop by themselves: weak fairness on each of them.
\* Errors, expiry and restarts are the environment's and get none.
Fairness ==
    /\ WF_vars(Poll)
    /\ WF_vars(BatchDone)
    /\ \A o \in Offsets : WF_vars(TaskStep(o))
    /\ WF_vars(\E p \in outbox : PublishAttempt(p))

Spec == Init /\ [][Next]_vars /\ Fairness

-----------------------------------------------------------------------------
(* Properties *)

HasWallet(e) == RowsOf(e.user, e.net) # {}

\* Two wallets of one network never share a derivation index (spec §3):
\* the allocator's cache, its reseeding from max(derivation_index) after a
\* miss, failed creations that leave holes, expiry and restarts must never
\* hand one index to two rows.
UniqueDerivationIndex ==
    \A v, w \in wallets : v # w /\ v.net = w.net => v.idx # w.idx

\* A (user, network) pair has at most one wallet row (spec §3, §8 scenario
\* 2 and 5), whatever duplicate deliveries, batch interleavings, dedupe-set
\* trims, failures and restarts the consumer goes through.
OneWalletPerUserNetwork ==
    \A u \in Users, n \in Networks : Cardinality(RowsOf(u, n)) <= 1

\* Every record below the committed offset has been provisioned: the
\* consumer commits only batches whose tasks all succeeded (spec §4.6).
CommittedEventsProvisioned ==
    \A o \in 1..committed : HasWallet(log[o])

\* Every wallet announced on wallet.created is a persisted row, so that
\* downstream state can be re-derived from the database (spec §7).
PublishedWalletIsPersisted ==
    \A i \in 1..Len(published) : published[i] \in wallets

\* Every wallet row is eventually announced on wallet.created: the
\* fire-and-forget publish task retries three times (spec §4.2, §7).
WalletCreatedEventuallyPublished ==
    \A u \in Users, n \in Networks :
        RowsOf(u, n) # {} ~>
            \E i \in 1..Len(published) : published[i].user = u /\ published[i].net = n

\* The allocator implements IndexAllocator: floor is one past the last
\* index get_next_index returned in this process, calls the number of
\* calls that returned.
Allocator == INSTANCE IndexAllocator WITH
    floor <- [n \in Networks |-> IF issued[n] = <<>> THEN 0
                                 ELSE issued[n][Len(issued[n])] + 1],
    calls <- [n \in Networks |-> Len(issued[n])]

\* While every creation succeeds, every get_next_index call returns more
\* than the calls before it in the process (spec §4.3): through cache hits,
\* concurrent tasks waiting on the per-network lock, reseeds from
\* max(derivation_index) after an expiry, and a restart.  A failed
\* creation followed by an expiry breaks it: the reseed hands out the
\* failed creation's index again.
AllocatorRefinement == Allocator!Spec

\* The pipeline implements WalletRegistry: the flushed rows are the
\* registry and wallet.created is the announcement log.
Registry == INSTANCE WalletRegistry WITH registry <- wallets, announced <- published

\* Rows are only ever added, one per pair and index, never changed or
\* removed, and only rows are announced: across retry duplicates in one
\* batch, DB and generator failures, publish retries and a failed
\* producer start.
RegistryRefinement == Registry!Spec

\* Every user.verified record is eventually provisioned and committed.
AllEventsProvisioned ==
    <>[](committed = Len(log) /\ \A o \in 1..Len(log) : HasWallet(log[o]))

=============================================================================
