# TLA+ models of the verification → wallet provisioning pipeline

This directory holds the TLA+ models of the two services in `src/`, the
TLC configurations that check them, and `PROJECT.json`. That file lists
the components, the runs, the mutants, the mapping from definitions to
source lines, the findings and the hazards.

## 1. Inventory

### The system's parts

| Component | Source | State | Operations |
|---|---|---|---|
| VerificationCore | `user_verification_service/src/services/verification_service.py` | semaphore (`max_concurrent_verifications`) | `verify_user`: size check, existing-VERIFIED check, save PENDING, sleep, verify, `update_status`, background `_publish_event` (3 attempts) |
| VerificationRepository | `.../repositories/verification_repository.py` | `verifications` table (no unique key on user/network), one session per request, committed at request end | `save`, `get_by_user_and_network` (`scalar_one_or_none`), `update_status` |
| user.verified producer | `.../kafka/producer.py` | lazily started producer | `publish`, `publish_batch` (unused) |
| EventConsumer | `wallet_service/infrastructure/kafka/consumer.py` | fetch position, committed group offset, `_running` | `_consume_loop`: `getmany` a batch, one task per record, `gather`, commit only if no failure (3 attempts on `CommitFailedError`), exit and `stop()` on any error |
| EventHandler | `wallet_service/services/event_handler.py` | `_processed_events` set under `_event_lock` | `handle_user_verified`: dedupe on `user:network:timestamp`, trim above 10000, `create_wallet`, on error discard the key and re-raise |
| WalletCore | `wallet_service/services/wallet_service.py` | generation semaphore (50) | `create_wallet`: cache, repository lookup, `_generate_wallet` (allocate index, generate), `repository.create`, cache set, fire-and-forget `_publish_wallet_created` (3 attempts); `get_wallet` |
| DerivationAllocator | `wallet_service/services/derivation_service.py` | per-network `asyncio.Lock`; cache entry `next_index:{network}` | `get_next_index`: cached index and advance, or reseed from `max(derivation_index)+1` |
| WalletRepository | `wallet_service/infrastructure/repositories/wallet_repository.py`, `database/models.py` | `wallets` table (unique `wallet_address` only) on **one session shared by every task**, opened in `main.py:61` | `create` (add + flush, never commit), `get_by_user_and_network`, `get_next_derivation_index`, `update_last_accessed` |
| Cache | `wallet_service/infrastructure/cache/cache_service.py` | `key -> (expiry, value)` under one lock | `get` (lazy expiry), `set` (TTL 3600 s), `delete` |
| WalletGenerator | `wallet_service/infrastructure/crypto/...` | path cache | `generate(mnemonic, user, index)`: seed with passphrase `wallet-service:{user}`, derive at `{base}/{index}`, validate |
| wallet.created producer | `wallet_service/infrastructure/kafka/producer.py` | lazily started producer | `publish` |
| HTTP APIs | `api/routes/*`, `api/dependencies/*`, `CacheMiddleware` | per-request session and `VerificationService` (verification side); the shared session and cache (wallet side) | `POST /verify`, `GET /wallet/{user}`, health |

### How they interact

`POST /verify` runs `verify_user`. It spawns a task that publishes
`user.verified` (key `user_id`) and returns without waiting for it. The
wallet service's consumer polls that topic and hands every record of a
batch to the handler as a concurrent asyncio task. All those tasks use
the same cache, the same allocator and one shared SQLAlchemy session.
`create_wallet` spawns a task that publishes `wallet.created`. The
scheduling is cooperative, so tasks interleave only at `await`s that
really suspend: DB round trips, executor calls and sleeps. A free
`asyncio.Lock` is taken without suspending.

### What is hard

* Concurrency inside a batch. Tasks for the same `(user, network)`
  interleave between the repository lookup and the flush. Tasks of one
  network interleave around the allocator.
* At-least-once delivery. Producer retries create exact duplicates. Two
  concurrent verifications create two events for one pair, with
  different timestamps.
* Failures. A DB error leaves the shared session needing a rollback that
  nobody issues. A generator can raise. Commit and poll errors stop the
  consumer. A publish is dropped after three attempts.
* Time. Cache entries expire, including the allocator's next index.
* Restarts. Memory is lost. Kafka keeps the committed offset and the
  published events. The DB keeps only what was committed.

### What makes each part correct

* Allocator: within a process the indices it returns for a network
  strictly increase. No two rows of a network share an index.
* Handler and WalletCore: one row per `(user, network)` however often,
  and however concurrently, an event is delivered. At most one
  `wallet.created` per pair.
* Consumer: a committed record has been provisioned. Every record is
  eventually provisioned.
* Across components: a published `wallet.created` names a persisted row.
  A VERIFIED verification leads to a wallet.

## 2. Plan and status

1. **`WalletPipeline`** (done): consumer, handler, `create_wallet`,
   allocator, repository, cache and the wallet.created publish, with
   faults, expiry and restarts.
2. **`VerificationService`** (done): `POST /verify` and `verify_user` with
   the per-request session and service, the delay, the commit at request
   end, the background publish, DB errors, send failures and restarts.
3. **`Pipeline`** (done): composes 2 and 1 over the user.verified topic.
4. **`WalletLookup`** (done): `GET /wallet` and `get_wallet` next to the
   pipeline, on the same cache and the same shared session.
5. **Abstract specifications, checked by refinement** (done):
   * `IndexAllocator` is what the allocator promises.
   * `WalletRegistry` is what the rows and wallet.created promise.
6. **Producer lifecycle** (done): `_get_producer`'s lazy start, with a
   start that may raise.
7. Still open:
   * the counterexamples that no run currently keeps (section 4).

## 3. Modules

### `WalletPipeline.tla`

The variables correspond to the code as follows:

* `log` is the user.verified partition. In this module's own runs it
  starts as the constant `Log`. In `Pipeline` it is the verification
  service's topic.
* `position` and `committed` are the consumer's fetch position and its
  group offset.
* `running` is `_running`.
* `tasks` holds the batch in flight: a `pc` per record and the index it
  was allocated.
* `processedEvents` is `_processed_events`.
* `walletCache` and `indexCache` are the two kinds of cache entry.
* `wallets` is the rows flushed into the shared session.
* `sessionOk` is FALSE once a DB error has left that session needing a
  rollback.
* `outbox` holds the running publish tasks and `published` is the
  wallet.created topic.
* `producer` is `KafkaEventPublisher._producer`: `none` before the
  first publish, `started`, or `unstarted` when it was assigned and its
  `start()` raised. The constant `StartMayFail` allows that failure.
* `issued` is a history of the indices the allocator returned.
* `faults`, `brokerFaults`, `sendFaults` and `restarts` are bounded
  counters.

A task's steps are the code between suspension points:

* `HandleUserVerified`: dedupe, trim and the cache lookup.
* `Lookup`: the repository lookup. A hit fills the cache. On a miss it
  allocates from a cached index or moves on to the seed step.
* `GetNextIndex`: the allocator body under its lock.
* `CreateWallet`: generate, construct, flush, cache set and spawn the
  publish.

The consumer's own steps are `Poll`, `BatchDone` and `PollError`.
`BatchDone` commits, or stops the consumer after the commit retries fail.
The environment's steps are `PublishAttempt`, `CacheExpire` and
`Restart`. `PublishAttempt` is one attempt of the retry loop:
`GetProducer` starts the producer on first use, and the send then
succeeds or raises. With `StartMayFail`, `ProducerUnusable` is the first
start raising after the assignment, or a later attempt going through
that never-started producer. Either way the attempt fails and nothing
is delivered.

Abstractions:

* An address is the triple `Address(user, network, index)`. Generation is
  deterministic, and the passphrase carries the user, so the map is
  injective.
* The generation semaphore is never contended (an `ASSUME`).
* Injected faults stand for any DB error. Every such error poisons the
  session, which nothing rolls back.
* Entries expire only between batches. DB calls time out after 60 s,
  against a 3600 s TTL.
* A restart empties `wallets`. Nothing commits the session opened at
  `main.py:61`.

The module also defines the two refinement mappings:

* `Allocator`: `issued` maps onto `IndexAllocator`. `floor` is one past
  the last index returned and `calls` is the number of calls.
* `Registry`: `wallets` and `published` map onto `WalletRegistry`.

### `WalletLookup.tla`

This module extends `WalletPipeline` with `GET /wallet`. Each request
has a `pc` and the wallet it will return. The other variables are:

* `touches`, the background `update_last_accessed` tasks;
* `lookupFaults`, a bounded counter.

Each step below is one piece of `get_wallet`, in code order:

| Action | Code |
|---|---|
| `GetCached` | `cache.get`; a hit spawns `update_last_accessed` and answers 200 |
| `GetLookup` | `get_by_user_and_network` on the shared session. One row fills the cache. None is a 404. Several are a 500 (`MultipleResultsFound`). A DB error is a 500 and poisons the session. |
| `GetTouch` | the awaited `update_last_accessed` |
| `Touch` | the spawned `update_last_accessed` |
| `LookupRestart` | the pipeline's `Restart`, which also fails the requests in flight |

`LookupSpec` has no restarts and `LookupCrashSpec` has them.

`CacheMiddleware` is left out because it is never active. `main.py` looks
for `redis_cache` on `request.state`, but lifespan stores it on
`app.state`.

### `VerificationService.tla`

Each request has `req[r]`: a `pc`, a user and a network. The other
variables are:

* `holding`: the requests inside a semaphore.
* `txn`: the status of the row the request's own transaction flushed.
* `rows`: the committed table.
* `outbox`: the publish tasks, with their attempt counts.
* `topic`: user.verified.
* Counters for DB errors, send failures and restarts.

`ServiceOf(r) = r` models `get_verification_service`, which builds a
service, and so a semaphore, per request.

The request's steps are:

* `Arrive`;
* `Acquire`: semaphore, decode and size check;
* `Check`: the existing-row lookup;
* `Save`: the flush;
* `Wake`: `verify()`, `UpdateStatus` and the spawn of the publish;
* `Commit`: `get_session` after the yield; a failure rolls back through
  `Fail`.

`PublishAttempt` is one attempt of `_publish_event`'s three (`Attempt`)
and models one `send_and_wait`. It can succeed, fail before
the broker writes, or fail after the write (a lost acknowledgement, so the
retry duplicates the event). `Restart` loses in-flight requests, open
transactions and publish tasks.

### `Pipeline.tla`

This module composes the two services. `V` instantiates
`VerificationService`, and `W` instantiates `WalletPipeline` with
`log <- topic`. A step is a step of one service, with the other unchanged.
`W`'s `MaxOffset` is the number of requests plus the number of failed
sends, since each lost acknowledgement adds one record. `W`'s only
failures are failed wallet.created sends (`MaxWalletSends`), so that
`WalletAnnounced` is `WalletPipeline`'s `WalletCreatedEventuallyPublished`
over the composed system.

### `IndexAllocator.tla` and `WalletRegistry.tla`

These are abstract specifications, written from the spec rather than
from code:

* `IndexAllocator`: each call returns more than every earlier call in
  the process, and a restart resets that.
* `WalletRegistry`: rows are only added, at most one per pair and per
  `(network, index)`, and only rows are announced.

### MC modules

`MCWalletPipeline` names the users and the networks, and defines the logs.
`MCWalletLookup`, `MCVerificationService` and `MCPipeline` instantiate
the other modules.

## 4. Runs

| Run | Expect | Checks and what it shows |
|---|---|---|
| `safety` | pass (5.1M states) | `LookupTypeOK`, `UniqueDerivationIndex`, `RegistryRefinement`. Setting: retry duplicates in one batch, 2 DB/generator errors, a failed lookup, broker and send failures, a failed producer start, expiry. Failed creations and expiry reseed the allocator without giving two rows one index, and rows and events refine the registry. |
| `allocator` | pass (414k) | `UniqueDerivationIndex`, `AllocatorRefinement`. Setting: one pair verified twice in a batch, GETs meeting `MultipleResultsFound`, expiry, a restart, no failed creation. Only in that setting does allocation strictly increase: a failed creation breaks it (below). |
| `verification_safety` | pass (1.8M) | `TypeOK`, `CommittedRowsVerified`. Setting: 3 requests racing on pairs, a DB error, three failed sends, a restart. No PENDING row is ever committed, and a publish task never exceeds its three attempts. |
| `end_to_end` | pass (222k) | `VerifiedUserGetsWallet`, `WalletAnnounced`, across both services, with a failed or duplicated user.verified send and two failed wallet.created sends |
| `trim_race` | violation | `OneWalletPerUserNetwork`: in the second batch (two networks), the first copy of a retry duplicate takes the processed set over `TrimAbove`, and the trim drops that key at once. The second copy passes the dedupe and both tasks insert a row. The same log with no trim passes. |
| `failed_batch_skipped` | violation | `CommittedEventsProvisioned`: a failed batch is never re-polled |
| `restart_rollback` | violation | `PublishedWalletIsPersisted`: the event stays, and the uncommitted row is rolled back |
| `restart_unannounced` | violation | `VerifiedEventuallyAnnounced`: a restart after the commit and before the send loses user.verified for good; a re-verify returns the VERIFIED row early and never publishes |
| `semaphore_per_request` | violation | `ConcurrencyBound`: a semaphore per request caps nothing |
| `double_verify` | violation | `OneWalletPerVerifiedPair`: two concurrent `POST /verify` requests give two wallets |
| `poisoned_session` | violation | `ProvisionedDespiteLookups`: one failed GET round trip stops provisioning |
| `publish_before_commit` | violation | `WalletBackedByVerification`: the publish task is spawned before the request's commit; the commit fails and the event still gets the user a wallet |

Bounds: 2 users and 1 network (2 in `trim_race`), with logs of 2–4 records and batches of
2. There are up to 3 verification requests and 2 GETs, and 1–2 faults of
each kind. The trim thresholds are scaled to 2/2, keeping
`TrimTo >= BatchSize`. These bounds are enough for every interleaving of
two tasks, or two requests, on one pair, and for a fault or a restart at
each step.

Every property of a passing run has a mutant in `PROJECT.json`, a
plausible bug that TLC catches. Examples:

* the dedupe dropped;
* a stale cached index;
* no re-check of the cache under the allocator lock;
* the commit offset one too far;
* two publish attempts instead of three, or four instead of three;
* the flush autocommitted;
* `update_status` never awaited.

These were also seen while modelling but are not kept as runs, because
at most 12 runs are allowed. Each was a TLC counterexample at the time:

* If the wallet producer's first `start()` raises, no wallet.created is
  delivered for the rest of the process (`WalletCreatedEventuallyPublished`
  fails in a `WalletLookup` run with two failed sends, one GET and
  `StartMayFail = TRUE`).
* Once a pair has two committed rows, every `POST /verify` of that pair
  fails with 500.
* After a failed creation and an expiry of `next_index`, the allocator
  hands the same index out again in one process, against the spec's
  strictly increasing allocation (§4.3). No row ever shares it, which the
  `safety` run checks.
* One failed commit or poll stops the consumer for good.
* After a restart, or once a pair has two rows, `GET /wallet` can serve
  a second address for a pair: the consumer's `cache.set` overwrites the
  entry a GET filled.

## 5. Fairness

Each process's asyncio event loop runs every ready task. So these get
weak fairness:

* each request step and each publish task of the verification service;
* the wallet consumer's `Poll`, `BatchDone` and task steps;
* its publish tasks;
* the steps of each GET.

Clients, DB, broker and send errors, expiry and restarts belong to the
environment and get no fairness. `CHECK_DEADLOCK FALSE` is set
everywhere because the system really does stop: after the last record
the consumer polls empty batches, and after a commit or poll error it
has stopped for good.

## 6. Not modelled

* Cryptography and address formats: out of TLC's reach. They are
  abstracted to an injective map.
* Request validation (base64, network names), response formatting,
  `/health` and the `CacheMiddleware`. The middleware is inactive
  because of the `request.state` lookup.
* What aiokafka does with a producer whose `start()` raised. The model
  takes the two outcomes, raise or hang, to be a failed attempt. The
  verification service starts its producer in the lifespan, so a failed
  start there stops the process from starting.
* `verified_at`. `update_status` writes only the status, so a committed
  VERIFIED row keeps `verified_at` NULL, against the spec's invariant
  (§3). This is a single deterministic step, which a unit test shows, so
  no run is spent on it.
* Shutdown's own steps. Its `xclose()` call raises `AttributeError`
  before `engine.dispose()`. `Restart` models the process going down and
  losing its publish tasks, which `restart_unannounced` shows. Every send
  is `send_and_wait`, so the skipped producer stop loses nothing more.
* Configuration and logging.
* The wallet service's `DatabaseConnection` and `core.middleware`
  modules, which are not in the repository. The model assumes the same
  non-autocommit `async_sessionmaker` as the verification service.
