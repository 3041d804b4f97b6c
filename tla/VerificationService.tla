------------------------- MODULE VerificationService -------------------------
(***************************************************************************)
(* The user verification service (src/user_verification_service):         *)
(*   POST /verify builds, per request, a session from the pool and a new   *)
(*   VerificationService around it (api/dependencies/database.py), then    *)
(*   runs verify_user: semaphore, size check, existing-VERIFIED lookup,    *)
(*   save PENDING (flush), sleep, update_status VERIFIED, create_task of   *)
(*   the user.verified publish (3 attempts).  The session is committed     *)
(*   when the request's dependency exits, after verify_user returned.      *)
(*                                                                         *)
(* A request is identified by a number; it is also the id of the row it   *)
(* saves and the timestamp of the event it publishes, which are unique    *)
(* per request (uuid4, datetime.now()).                                    *)
(***************************************************************************)
EXTENDS Naturals, Sequences, FiniteSets

CONSTANTS
    Users,          \* user ids (model values)
    Networks,       \* networks (model values)
    Requests,       \* POST /verify requests, 1..k
    MaxConcurrentVerifications, \* settings.max_concurrent_verifications
    MaxFaults,      \* bound on injected DB errors
    MaxSendFaults,  \* bound on failed send_and_wait attempts
    MaxRestarts     \* bound on process restarts

ASSUME /\ Requests \subseteq Nat
       /\ MaxConcurrentVerifications \in Nat \ {0}
       /\ MaxFaults \in Nat /\ MaxSendFaults \in Nat /\ MaxRestarts \in Nat

\* "idle": not sent yet; "acquire": waiting on the semaphore; "check":
\* awaiting get_by_user_and_network; "save": awaiting the flush;
\* "sleep": in the verification delay; "commit": verify_user returned and
\* the dependency awaits session.commit(); "ok" / "failed": finished.
PCs == {"idle", "acquire", "check", "save", "sleep", "commit", "ok", "failed"}
InFlight == {"acquire", "check", "save", "sleep", "commit"}

\* Row status in the request's own, uncommitted transaction.
NoRow == "none"
Status == {"pending", "verified"}

Row == [id: Requests, user: Users, net: Networks, status: Status]
Event == [user: Users, net: Networks, ts: Requests]
Publish == [id: Requests, user: Users, net: Networks, tries: 0..2]

VARIABLES
    req,      \* request -> [pc, user, net]
    holding,  \* requests inside `async with self._semaphore`
    txn,      \* request -> status of the row its session flushed, or NoRow
    rows,     \* committed rows of the verifications table
    outbox,   \* running _publish_event tasks
    topic,    \* the user.verified topic
    faults,   \* injected DB errors so far
    sendFaults, \* failed publish attempts so far
    restarts  \* process restarts so far

vars == <<req, holding, txn, rows, outbox, topic, faults, sendFaults, restarts>>

TypeOK ==
    /\ req \in [Requests -> [pc: PCs, user: Users, net: Networks]]
    /\ holding \subseteq Requests
    /\ txn \in [Requests -> Status \cup {NoRow}]
    /\ rows \subseteq Row
    /\ outbox \subseteq Publish
    /\ topic \in Seq(Event)
    /\ faults \in 0..MaxFaults /\ sendFaults \in 0..MaxSendFaults
    /\ restarts \in 0..MaxRestarts

Init ==
    /\ req = [r \in Requests |-> [pc |-> "idle", user |-> CHOOSE u \in Users : TRUE,
                                  net |-> CHOOSE n \in Networks : TRUE]]
    /\ holding = {}
    /\ txn = [r \in Requests |-> NoRow]
    /\ rows = {}
    /\ outbox = {}
    /\ topic = <<>>
    /\ faults = 0 /\ sendFaults = 0 /\ restarts = 0

-----------------------------------------------------------------------------
(* Helpers *)

\* get_verification_service constructs a VerificationService per request,
\* and __init__ creates its asyncio.Semaphore: each request's semaphore
\* is its own.
ServiceOf(r) == r

\* Permits of r's semaphore held by requests of the same service instance.
HeldOn(r) == {q \in holding : ServiceOf(q) = ServiceOf(r)}

\* select ... where user_id = u and network = n, on committed rows.
RowsOf(u, n) == {w \in rows : w.user = u /\ w.net = n}

SetPc(r, pc) == req' = [req EXCEPT ![r].pc = pc]

\* KafkaEventPublisher.publish: send_and_wait appends the record to the
\* topic (key user_id) once the broker has written it.
Announce(e) == topic' = Append(topic, e)

\* An exception leaves verify_user (releasing the semaphore) and the
\* dependency's get_session rolls the transaction back: nothing was
\* committed, a publish task already spawned keeps running.
Fail(r) ==
    /\ SetPc(r, "failed")
    /\ holding' = holding \ {r}
    /\ txn' = [txn EXCEPT ![r] = NoRow]

\* An injected DB error: connection loss, timeout, serialization error.
DbFault(r) ==
    /\ faults < MaxFaults
    /\ faults' = faults + 1
    /\ Fail(r)
    /\ UNCHANGED <<rows, outbox, topic, sendFaults, restarts>>

-----------------------------------------------------------------------------
(* A request *)

\* A client sends POST /verify for some (user, network).
Arrive(r) ==
    /\ req[r].pc = "idle"
    /\ \E u \in Users, n \in Networks :
          req' = [req EXCEPT ![r] = [pc |-> "acquire", user |-> u, net |-> n]]
    /\ UNCHANGED <<holding, txn, rows, outbox, topic, faults, sendFaults, restarts>>

\* `async with self._semaphore`, b64decode and the size check.  A document
\* over max_document_size_mb raises ValueError before touching storage.
Acquire(r) ==
    /\ req[r].pc = "acquire"
    /\ Cardinality(HeldOn(r)) < MaxConcurrentVerifications
    /\ \/ /\ holding' = holding \cup {r}
          /\ SetPc(r, "check")
       \/ /\ SetPc(r, "failed")
          /\ UNCHANGED holding
    /\ UNCHANGED <<txn, rows, outbox, topic, faults, sendFaults, restarts>>

\* get_by_user_and_network: scalar_one_or_none raises MultipleResultsFound
\* on several rows; an existing VERIFIED row is returned unchanged (and the
\* semaphore released); otherwise the request goes on to save.
Check(r) ==
    LET found == RowsOf(req[r].user, req[r].net) IN
    /\ req[r].pc = "check"
    /\ \/ DbFault(r)
       \/ /\ Cardinality(found) > 1
          /\ Fail(r)
          /\ UNCHANGED <<rows, outbox, topic, faults, sendFaults, restarts>>
       \/ /\ Cardinality(found) = 1
          /\ \E w \in found : w.status = "verified"
          /\ SetPc(r, "commit")
          /\ holding' = holding \ {r}
          /\ UNCHANGED <<txn, rows, outbox, topic, faults, sendFaults, restarts>>
       \/ /\ Cardinality(found) <= 1
          /\ ~\E w \in found : w.status = "verified"
          /\ SetPc(r, "save")
          /\ UNCHANGED <<holding, txn, rows, outbox, topic, faults, sendFaults, restarts>>

\* Mutant: the flush is committed at once, as with an autocommit session.
SaveAutocommit(r) ==
    /\ req[r].pc = "save"
    /\ \/ DbFault(r)
       \/ /\ rows' = rows \cup {[id |-> r, user |-> req[r].user, net |-> req[r].net,
                                status |-> "pending"]}
          /\ txn' = [txn EXCEPT ![r] = "pending"]
          /\ SetPc(r, "sleep")
          /\ UNCHANGED <<holding, outbox, topic, faults, sendFaults, restarts>>

\* repository.save: session.add + flush of a PENDING row, then the
\* asyncio.sleep(verification_delay_seconds) begins.
Save(r) ==
    /\ req[r].pc = "save"
    /\ \/ DbFault(r)
       \/ /\ txn' = [txn EXCEPT ![r] = "pending"]
          /\ SetPc(r, "sleep")
          /\ UNCHANGED <<holding, rows, outbox, topic, faults, sendFaults, restarts>>

\* Mutant: update_status is never awaited, the row stays PENDING.
WakeNoStatusUpdate(r) ==
    /\ req[r].pc = "sleep"
    /\ \/ DbFault(r)
       \/ /\ outbox' = outbox \cup
                {[id |-> r, user |-> req[r].user, net |-> req[r].net, tries |-> 0]}
          /\ SetPc(r, "commit")
          /\ holding' = holding \ {r}
          /\ UNCHANGED <<txn, rows, topic, faults, sendFaults, restarts>>

\* repository.update_status: UPDATE ... SET status = 'verified' on the
\* request's own, still uncommitted row.
UpdateStatus(r) == txn' = [txn EXCEPT ![r] = "verified"]

\* The delay ends: verification.verify(), update_status(id, VERIFIED),
\* then create_task(_publish_event) and return, releasing the semaphore.
\* The publish task is spawned before the dependency commits.
Wake(r) ==
    /\ req[r].pc = "sleep"
    /\ \/ DbFault(r)
       \/ /\ UpdateStatus(r)
          /\ outbox' = outbox \cup
                {[id |-> r, user |-> req[r].user, net |-> req[r].net, tries |-> 0]}
          /\ SetPc(r, "commit")
          /\ holding' = holding \ {r}
          /\ UNCHANGED <<rows, topic, faults, sendFaults, restarts>>

\* get_session after the yield: session.commit() makes the request's row
\* visible to other sessions; a failing commit rolls it back.
Commit(r) ==
    /\ req[r].pc = "commit"
    /\ \/ DbFault(r)
       \/ /\ rows' = rows \cup (IF txn[r] = NoRow THEN {}
                 ELSE {[id |-> r, user |-> req[r].user, net |-> req[r].net,
                        status |-> txn[r]]})
          /\ txn' = [txn EXCEPT ![r] = NoRow]
          /\ SetPc(r, "ok")
          /\ UNCHANGED <<holding, outbox, topic, faults, sendFaults, restarts>>

-----------------------------------------------------------------------------
(* Background publish and restart *)

\* One attempt of _publish_event's loop of `attempts` attempts:
\* publisher.publish awaits send_and_wait.  The event, and so its
\* timestamp, is built once before the loop.  An attempt may fail before
\* the broker wrote the record, or after it (the acknowledgement is lost):
\* either way the task sleeps and retries, and after the last failure it
\* logs and gives up.
Attempt(p, attempts) ==
    LET e == [user |-> p.user, net |-> p.net, ts |-> p.id]
        retry == IF p.tries < attempts - 1 THEN {[p EXCEPT !.tries = @ + 1]} ELSE {}
    IN
    /\ p \in outbox
    /\ \/ /\ Announce(e)
          /\ outbox' = outbox \ {p}
          /\ UNCHANGED sendFaults
       \/ /\ sendFaults < MaxSendFaults
          /\ sendFaults' = sendFaults + 1
          /\ outbox' = (outbox \ {p}) \cup retry
          /\ \/ UNCHANGED topic
             \/ Announce(e)
    /\ UNCHANGED <<req, holding, txn, rows, faults, restarts>>

\* Mutant: the loop runs range(4), one attempt more than the code's three.
PublishAttemptFour(p) == Attempt(p, 4)

\* _publish_event: for attempt in range(3).
PublishAttempt(p) == Attempt(p, 3)

\* The process dies: in-flight requests and publish tasks are lost, open
\* transactions roll back; the table and the topic keep what they hold.
Restart ==
    /\ restarts < MaxRestarts
    /\ restarts' = restarts + 1
    /\ req' = [r \in Requests |->
                 IF req[r].pc \in InFlight THEN [req[r] EXCEPT !.pc = "failed"]
                 ELSE req[r]]
    /\ holding' = {}
    /\ txn' = [r \in Requests |-> NoRow]
    /\ outbox' = {}
    /\ UNCHANGED <<rows, topic, faults, sendFaults>>

-----------------------------------------------------------------------------

RequestStep(r) ==
    \/ Acquire(r)
    \/ Check(r)
    \/ Save(r)
    \/ Wake(r)
    \/ Commit(r)

Next ==
    \/ \E r \in Requests : Arrive(r) \/ RequestStep(r)
    \/ \E p \in outbox : PublishAttempt(p)
    \/ Restart

\* The event loop runs every ready request coroutine and publish task.
\* Clients sending requests, errors and restarts get no fairness.
Fairness ==
    /\ \A r \in Requests : WF_vars(RequestStep(r))
    /\ WF_vars(\E p \in outbox : PublishAttempt(p))

Spec == Init /\ [][Next]_vars /\ Fairness

-----------------------------------------------------------------------------
(* Properties *)

\* Concurrent verify_user calls are capped by max_concurrent_verifications
\* (spec §4.1): never more requests inside the semaphore than permits.
ConcurrencyBound == Cardinality(holding) <= MaxConcurrentVerifications

\* No other session ever sees a PENDING row: save only flushes, the status
\* is updated in the same transaction, and an error or a crash during the
\* delay rolls the row back, so every committed row is VERIFIED.
CommittedRowsVerified == \A w \in rows : w.status = "verified"


\* Every verification committed VERIFIED is eventually announced on
\* user.verified for its (user, network), which is what gets the user a
\* wallet (spec §2, §7): through failed and retried sends and restarts.
VerifiedEventuallyAnnounced ==
    \A w \in Row :
        (w \in rows /\ w.status = "verified") ~>
            \E i \in 1..Len(topic) : topic[i].user = w.user /\ topic[i].net = w.net

=============================================================================
