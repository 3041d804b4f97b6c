---------------------------- MODULE WalletLookup ----------------------------
(***************************************************************************)
(* GET /wallet/{user_id} (api/routes/wallet.py) next to the provisioning   *)
(* pipeline.  The route calls WalletService.get_wallet on the service     *)
(* built in main.py's lifespan, so a lookup uses the same cache and the    *)
(* same shared session as the consumer's tasks: a cache hit spawns         *)
(* update_last_accessed as a background task, a miss queries the table,   *)
(* fills the cache and awaits update_last_accessed.                       *)
(***************************************************************************)
EXTENDS WalletPipeline

CONSTANTS
    Gets,           \* GET /wallet requests
    MaxLookupFaults \* bound on DB errors of the lookup's round trips

ASSUME MaxLookupFaults \in Nat

\* "idle": not sent; "cache": cache.get; "lookup": awaiting
\* get_by_user_and_network; "touch": awaiting update_last_accessed;
\* "ok" (200), "notfound" (404), "error" (500): answered.
GetPCs == {"idle", "cache", "lookup", "touch", "ok", "notfound", "error"}

VARIABLES
    gets,         \* request -> [pc, user, net, w]: w holds the wallet it returns
    touches,      \* running update_last_accessed tasks of cache hits
    lookupFaults  \* DB errors of lookups so far

lvars == <<gets, touches, lookupFaults>>
allVars == <<vars, lvars>>

LookupTypeOK ==
    /\ TypeOK
    /\ gets \in [Gets -> [pc: GetPCs, user: Users, net: Networks,
                          w: SUBSET Wallet]]
    /\ touches \subseteq Gets
    /\ lookupFaults \in 0..MaxLookupFaults

LookupInit ==
    /\ Init
    /\ gets = [q \in Gets |-> [pc |-> "idle", user |-> CHOOSE u \in Users : TRUE,
                               net |-> CHOOSE n \in Networks : TRUE, w |-> {}]]
    /\ touches = {}
    /\ lookupFaults = 0

SetGet(q, pc) == gets' = [gets EXCEPT ![q].pc = pc]

\* A round trip of a lookup on the shared session raises.  The first error
\* is injected (a timeout, or a consumer task's statement in progress on
\* the same connection); it leaves the session's transaction needing a
\* rollback nobody issues, so every later round trip raises too.
LookupDbError ==
    \/ /\ sessionOk /\ lookupFaults < MaxLookupFaults
       /\ lookupFaults' = lookupFaults + 1
       /\ sessionOk' = FALSE
    \/ /\ ~sessionOk
       /\ UNCHANGED <<lookupFaults, sessionOk>>

\* Any step of the pipeline leaves the lookups alone.
PipelineStep ==
    /\ \/ Poll \/ PollError \/ BatchDone
       \/ \E o \in Offsets : TaskStep(o)
       \/ \E p \in outbox : PublishAttempt(p)
       \/ CacheExpire
    /\ UNCHANGED lvars

-----------------------------------------------------------------------------
(* A GET /wallet request *)

\* A client asks for the wallet of some (user, network).  The route's
\* network check passes: every network of the model is supported.
GetArrive(q) ==
    /\ gets[q].pc = "idle"
    /\ \E u \in Users, n \in Networks :
          gets' = [gets EXCEPT ![q] = [pc |-> "cache", user |-> u, net |-> n,
                                       w |-> {}]]
    /\ UNCHANGED <<vars, touches, lookupFaults>>

\* get_wallet's cache.get("wallet:{user}:{network}").  A hit spawns
\* update_last_accessed(cached.id) and returns the cached wallet.
GetCached(q) ==
    LET hit == CachedOf(gets[q].user, gets[q].net) IN
    /\ gets[q].pc = "cache"
    /\ \/ /\ hit # {}
          /\ gets' = [gets EXCEPT ![q].pc = "ok", ![q].w = {CHOOSE c \in hit : TRUE}]
          /\ touches' = touches \cup {q}
       \/ /\ hit = {}
          /\ SetGet(q, "lookup")
          /\ UNCHANGED touches
    /\ UNCHANGED <<vars, lookupFaults>>

\* repository.get_by_user_and_network on the shared session: it sees the
\* rows the consumer's tasks flushed.  A row is cached and its
\* last_accessed_at updated; none is a 404; several raise
\* MultipleResultsFound after the fetch, a 500 that leaves the session
\* usable.
GetLookup(q) ==
    LET found == RowsOf(gets[q].user, gets[q].net) IN
    /\ gets[q].pc = "lookup"
    /\ \/ /\ LookupDbError
          /\ SetGet(q, "error")
          /\ UNCHANGED walletCache
       \/ /\ sessionOk
          /\ Cardinality(found) > 1
          /\ SetGet(q, "error")
          /\ UNCHANGED <<walletCache, sessionOk, lookupFaults>>
       \/ /\ sessionOk
          /\ Cardinality(found) = 1
          /\ LET w == CHOOSE v \in found : TRUE IN
             /\ CacheSet(w)
             /\ gets' = [gets EXCEPT ![q].pc = "touch", ![q].w = {w}]
          /\ UNCHANGED <<sessionOk, lookupFaults>>
       \/ /\ sessionOk
          /\ found = {}
          /\ SetGet(q, "notfound")
          /\ UNCHANGED <<walletCache, sessionOk, lookupFaults>>
    /\ UNCHANGED <<position, committed, running, tasks, processedEvents,
                   indexCache, wallets, outbox, published, issued, faults,
                   brokerFaults, sendFaults, producer, restarts, log, touches>>

\* The awaited update_last_accessed: an UPDATE on the shared session.  On
\* success the wallet is returned; an error is a 500 although the cache
\* was already filled.
GetTouch(q) ==
    /\ gets[q].pc = "touch"
    /\ \/ /\ LookupDbError
          /\ SetGet(q, "error")
       \/ /\ sessionOk
          /\ SetGet(q, "ok")
          /\ UNCHANGED <<sessionOk, lookupFaults>>
    /\ UNCHANGED <<position, committed, running, tasks, processedEvents,
                   walletCache, indexCache, wallets, outbox, published, issued,
                   faults, brokerFaults, sendFaults, producer, restarts, log, touches>>

-----------------------------------------------------------------------------
(* Background update, restart *)

\* The update_last_accessed task spawned by a cache hit.  Its exception is
\* never retrieved, but a failed UPDATE still leaves the shared session
\* needing a rollback.
Touch(q) ==
    /\ q \in touches
    /\ touches' = touches \ {q}
    /\ \/ LookupDbError
       \/ /\ sessionOk
          /\ UNCHANGED <<sessionOk, lookupFaults>>
    /\ UNCHANGED <<position, committed, running, tasks, processedEvents,
                   walletCache, indexCache, wallets, outbox, published, issued,
                   faults, brokerFaults, sendFaults, producer, restarts, log, gets>>

\* The process restarts: requests in flight get no answer (a 500 to the
\* client) and background updates are lost.
LookupRestart ==
    /\ Restart
    /\ gets' = [q \in Gets |-> IF gets[q].pc \in {"cache", "lookup", "touch"}
                               THEN [gets[q] EXCEPT !.pc = "error"] ELSE gets[q]]
    /\ touches' = {}
    /\ UNCHANGED lookupFaults

GetStep(q) == GetCached(q) \/ GetLookup(q) \/ GetTouch(q) \/ Touch(q)

LookupNext ==
    \/ PipelineStep
    \/ \E q \in Gets : GetArrive(q) \/ GetStep(q)

\* The same with process restarts.
LookupCrashNext == LookupNext \/ LookupRestart

\* The pipeline's fairness, and the event loop runs every ready request
\* handler and background task.
LookupFairness ==
    /\ WF_allVars(Poll /\ UNCHANGED lvars)
    /\ WF_allVars(BatchDone /\ UNCHANGED lvars)
    /\ \A o \in Offsets : WF_allVars(TaskStep(o) /\ UNCHANGED lvars)
    /\ WF_allVars((\E p \in outbox : PublishAttempt(p)) /\ UNCHANGED lvars)
    /\ \A q \in Gets : WF_allVars(GetStep(q))

LookupSpec == LookupInit /\ [][LookupNext]_allVars /\ LookupFairness
LookupCrashSpec == LookupInit /\ [][LookupCrashNext]_allVars /\ LookupFairness

-----------------------------------------------------------------------------
(* Properties *)

\* Provisioning does not depend on the HTTP side: every user.verified
\* record is eventually provisioned and committed, whatever GET /wallet
\* requests run next to the consumer.
ProvisionedDespiteLookups == AllEventsProvisioned

=============================================================================
