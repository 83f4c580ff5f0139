---------------------------- MODULE ByocConnector ----------------------------
(***************************************************************************)
(* TenantByocConnectorRuntime over the in-memory stores: threads that run  *)
(* execute, threads that serve worker requests (claim_next_job and the     *)
(* two ways to submit a result), and the administrative operations.  Each  *)
(* critical section of a store or of the connector's own lock is one step; *)
(* between two steps of a thread any other thread may run.                 *)
(*                                                                         *)
(* The call of execute that enqueues job j is caller j.  Fair admission,   *)
(* cost limits and worker authentication have modules of their own: here a *)
(* request simply passes or fails authentication.  Counters and progress   *)
(* events are left out.                                                    *)
(***************************************************************************)
EXTENDS ByocJobStore, ByocResultStore

CONSTANTS
  KeyOf,            \* idempotency key of each job: tenant, call and run id
  Requests,         \* worker request slots: how many requests are served at once
  Timeout,          \* timeout_ms of the tool, in ticks
  BlockingModes,    \* the values of non_blocking_execute that are considered
  Strategy,         \* the result store's conflict strategy
  SuccessValues,    \* bound: the result statuses that workers report
  SoundValues,      \* bound: whether the artifact metadata they report match
  Cancelled,        \* bound: the calls for which cancellation is requested
  Admins,           \* bound: the tenants that force a cleanup
  CleanupInterval   \* cleanup_interval_seconds

ASSUME ConnectorAssumption ==
  /\ ResultJobs = JobIds
  /\ KeyOf \in [JobIds -> Keys]
  /\ Timeout \in Nat \ {0} /\ CleanupInterval \in Nat \ {0}
  /\ BlockingModes \in SUBSET BOOLEAN /\ SuccessValues \in SUBSET BOOLEAN
  /\ SoundValues \in SUBSET BOOLEAN /\ Cancelled \in SUBSET Calls /\ Admins \in SUBSET Tenants

VARIABLES
  non_blocking,   \* _non_blocking_execute, fixed when the connector is built
  caller,         \* where each call of execute stands
  deadline,       \* its deadline
  req,            \* what each request slot is doing
  envelope,       \* lease_token in the envelope of each job, which all claims of it share
  received,       \* leases as workers were told of them
  last_cleanup,   \* _last_cleanup_epoch; 0 before the first cleanup
  unkeyed         \* history: jobs whose result was rejected for a blank key

callVars == <<non_blocking, caller, deadline>>
reqVars == <<req, envelope, received>>
vars == <<storeVars, resultVars, callVars, reqVars, last_cleanup, unkeyed>>

CallerStates == {"idle", "prune", "enqueue", "requeue", "poll",
                 "delivered", "timed_out", "queued"}

RequestStates == {"idle", "claim_prune", "claim_requeue", "claim_take", "claim_reply",
                  "submit_prune", "submit_auth", "submit_lookup", "submit_complete",
                  "submit_ingest"}

\* Idle request slots all look the same.
NoRequest == [pc |-> "idle", tenant |-> "", job |-> 0, token |-> 0,
              key |-> NoKey, success |-> FALSE, sound |-> FALSE]

ConnectorInit ==
  /\ StoreInit
  /\ ResultInit /\ conflict_strategy = Strategy
  /\ non_blocking \in BlockingModes
  /\ caller = [j \in JobIds |-> "idle"]
  /\ deadline = [j \in JobIds |-> 0]
  /\ req = [r \in Requests |-> NoRequest]
  /\ envelope = [j \in JobIds |-> 0]
  /\ received = {}
  /\ last_cleanup = 0
  /\ unkeyed = {}

-----------------------------------------------------------------------------
(* Cleanup, which opens every handler: the decision and the pruning are    *)
(* separate critical sections.                                             *)

\* The decision, made under the connector's lock with a clock reading taken before it.
CleanupDue(at) == last_cleanup = 0 \/ at >= last_cleanup + CleanupInterval

\* A thread that takes the decision continues at one of two places.
AfterGate(at, due, skip) == IF CleanupDue(at) THEN due ELSE skip
Gate(at) == last_cleanup' = IF CleanupDue(at) THEN at ELSE last_cleanup

\* The pruning; the in-memory result store prunes nothing.
Prune(t) == \E at \in Readings : CleanupRetention(t, at)

\* cleanup_retention with force, from the administrative endpoint.
ForcedCleanup(t) ==
  /\ last_cleanup' \in Readings
  /\ Prune(t)
  /\ UNCHANGED <<resultVars, callVars, reqVars, unkeyed>>

-----------------------------------------------------------------------------
(* execute.  Callers are numbered in the order in which they enqueue.      *)

ExecuteStart(j, at) ==
  /\ caller[j] = "idle"
  /\ j > 1 => caller[j - 1] # "idle"
  /\ Gate(at)
  /\ caller' = [caller EXCEPT ![j] = AfterGate(at, "prune", "enqueue")]
  /\ UNCHANGED <<storeVars, resultVars, non_blocking, deadline, reqVars, unkeyed>>

ExecutePrune(j) ==
  /\ caller[j] = "prune"
  /\ Prune(TenantOf[j])
  /\ caller' = [caller EXCEPT ![j] = "enqueue"]
  /\ UNCHANGED <<resultVars, non_blocking, deadline, reqVars, last_cleanup, unkeyed>>

\* perf_counter() + timeout; one that lies beyond the last tick of the model is moved
\* to that tick.
Deadline == IF now + Timeout <= MaxTime THEN now + Timeout ELSE MaxTime

ExecuteEnqueue(j) ==
  /\ caller[j] = "enqueue"
  /\ j = enqueued + 1
  /\ Enqueue
  /\ caller' = [caller EXCEPT ![j] = IF non_blocking THEN "queued" ELSE "requeue"]
  /\ deadline' = [deadline EXCEPT ![j] = Deadline]
  /\ UNCHANGED <<resultVars, non_blocking, reqVars, last_cleanup, unkeyed>>

\* The polling loop: _requeue_expired_leases with the dead-letter limit ...
ExecuteRequeue(j) ==
  /\ caller[j] = "requeue"
  /\ RequeueExpiredLeases(DlqLimit)
  /\ caller' = [caller EXCEPT ![j] = "poll"]
  /\ UNCHANGED <<resultVars, non_blocking, deadline, reqVars, last_cleanup, unkeyed>>

\* Mutation: the deadline only counts as long as no worker holds the job.
ExecutePollWhileLeased(j) ==
  /\ caller[j] = "poll"
  /\ \/ /\ Consume(j)
        /\ caller' = [caller EXCEPT ![j] = "delivered"]
     \/ /\ results[j] = NoResult
        /\ caller' = [caller EXCEPT ![j] =
             IF now >= deadline[j] /\ states[j].status = "queued" THEN "timed_out" ELSE "requeue"]
        /\ UNCHANGED resultVars
  /\ UNCHANGED <<storeVars, non_blocking, deadline, reqVars, last_cleanup, unkeyed>>

\* ... then consume, and only when there is nothing to consume a look at the clock
\* (which is all the thread does before its next turn, so it is part of this step).
ExecutePoll(j) ==
  /\ caller[j] = "poll"
  /\ \/ /\ Consume(j)
        /\ caller' = [caller EXCEPT ![j] = "delivered"]
     \/ /\ results[j] = NoResult
        /\ caller' = [caller EXCEPT ![j] = IF now >= deadline[j] THEN "timed_out" ELSE "requeue"]
        /\ UNCHANGED resultVars
  /\ UNCHANGED <<storeVars, non_blocking, deadline, reqVars, last_cleanup, unkeyed>>

-----------------------------------------------------------------------------
(* claim_next_job.                                                         *)

Goto(r, s) == req' = [req EXCEPT ![r].pc = s]

Finish(r) == req' = [req EXCEPT ![r] = NoRequest]

ClaimStart(r, t, at) ==
  /\ req[r].pc = "idle"
  /\ Gate(at)
  /\ req' = [req EXCEPT ![r] = [NoRequest EXCEPT
                !.pc = AfterGate(at, "claim_prune", "claim_requeue"), !.tenant = t]]
  /\ UNCHANGED <<storeVars, resultVars, callVars, envelope, received, unkeyed>>

ClaimPrune(r) ==
  /\ req[r].pc = "claim_prune"
  /\ Prune(req[r].tenant)
  /\ Goto(r, "claim_requeue")
  /\ UNCHANGED <<resultVars, callVars, envelope, received, last_cleanup, unkeyed>>

ClaimRequeue(r) ==
  /\ req[r].pc = "claim_requeue"
  /\ RequeueExpiredLeases(DlqLimit)
  /\ Goto(r, "claim_take")
  /\ UNCHANGED <<resultVars, callVars, envelope, received, last_cleanup, unkeyed>>

\* Authentication, which may raise, and the claim itself.
ClaimTake(r) ==
  /\ req[r].pc = "claim_take"
  /\ \/ /\ Finish(r)
        /\ UNCHANGED <<storeVars, envelope>>
     \/ \E at \in Readings :
          /\ ClaimNext(req[r].tenant, at)
          /\ IF claims' = claims
               THEN Finish(r) /\ UNCHANGED envelope
               ELSE \E c \in claims' \ claims :
                      /\ envelope' = [envelope EXCEPT ![c.job] = c.token]
                      /\ req' = [req EXCEPT ![r].pc = "claim_reply", ![r].job = c.job,
                                            ![r].token = c.token]
  /\ UNCHANGED <<resultVars, callVars, received, last_cleanup, unkeyed>>

\* The reply is built from the shared envelope after the store's lock was released.
ClaimReply(r) ==
  /\ req[r].pc = "claim_reply"
  /\ received' = received \cup {[job |-> req[r].job, token |-> envelope[req[r].job]]}
  /\ Finish(r)
  /\ UNCHANGED <<storeVars, resultVars, callVars, envelope, last_cleanup, unkeyed>>

-----------------------------------------------------------------------------
(* submit_result and submit_result_webhook: both prune, authenticate and   *)
(* go through _ingest_result_after_auth.                                   *)

\* A worker submits under a lease it was told of; it echoes the job's idempotency key
\* or leaves it blank.  sound tells whether verify_result_artifact_metadata will accept.
SubmitStart(r, lease, key, success, sound, at) ==
  /\ req[r].pc = "idle"
  /\ Gate(at)
  /\ req' = [req EXCEPT ![r] =
       [pc |-> AfterGate(at, "submit_prune", "submit_auth"), tenant |-> TenantOf[lease.job],
        job |-> lease.job, token |-> lease.token,
        key |-> key, success |-> success, sound |-> sound]]
  /\ UNCHANGED <<storeVars, resultVars, callVars, envelope, received, unkeyed>>

SubmitPrune(r) ==
  /\ req[r].pc = "submit_prune"
  /\ Prune(req[r].tenant)
  /\ Goto(r, "submit_auth")
  /\ UNCHANGED <<resultVars, callVars, envelope, received, last_cleanup, unkeyed>>

\* Authentication, which may raise, and has_idempotency_key: a known key is answered as
\* a duplicate without a look at the lease.
SubmitAuth(r) ==
  /\ req[r].pc = "submit_auth"
  /\ \/ Finish(r)
     \/ req[r].key \notin seen_keys /\ Goto(r, "submit_lookup")
  /\ UNCHANGED <<storeVars, resultVars, callVars, envelope, received, last_cleanup, unkeyed>>

\* get_leased_job and the comparison of the artifact metadata.
SubmitLookup(r) ==
  /\ req[r].pc = "submit_lookup"
  /\ GetLeasedJob(req[r].job, req[r].token)
  /\ IF LeaseActive(req[r].job, req[r].token) /\ req[r].sound
       THEN Goto(r, "submit_complete")
       ELSE Finish(r)
  /\ UNCHANGED <<resultVars, callVars, envelope, received, last_cleanup, unkeyed>>

\* Mutation: the outcome of complete_claim is not looked at.
SubmitCompleteUnchecked(r) ==
  /\ req[r].pc = "submit_complete"
  /\ CompleteClaim(req[r].job, req[r].token)
  /\ Goto(r, "submit_ingest")
  /\ UNCHANGED <<resultVars, callVars, envelope, received, last_cleanup, unkeyed>>

\* complete_claim; the lease may have gone since it was looked up.
SubmitComplete(r) ==
  /\ req[r].pc = "submit_complete"
  /\ CompleteClaim(req[r].job, req[r].token)
  /\ IF LeaseActive(req[r].job, req[r].token) THEN Goto(r, "submit_ingest") ELSE Finish(r)
  /\ UNCHANGED <<resultVars, callVars, envelope, received, last_cleanup, unkeyed>>

\* Mutation: the lease is looked at once more, after the job was completed.
SubmitIngestIfLeased(r) ==
  /\ req[r].pc = "submit_ingest"
  /\ IF states[req[r].job].status = "leased"
       THEN Ingest(req[r].job, [key |-> req[r].key, success |-> req[r].success])
       ELSE UNCHANGED resultVars
  /\ Finish(r)
  /\ UNCHANGED <<storeVars, callVars, envelope, received, last_cleanup, unkeyed>>

SubmitIngest(r) ==
  /\ req[r].pc = "submit_ingest"
  /\ Ingest(req[r].job, [key |-> req[r].key, success |-> req[r].success])
  /\ unkeyed' = IF req[r].key = NoKey THEN unkeyed \cup {req[r].job} ELSE unkeyed
  /\ Finish(r)
  /\ UNCHANGED <<storeVars, callVars, envelope, received, last_cleanup>>

-----------------------------------------------------------------------------
(* The remaining operations.                                               *)

\* request_cancellation
RequestCancellation(c) ==
  /\ CancelPendingCall(c)
  /\ UNCHANGED <<resultVars, callVars, reqVars, last_cleanup, unkeyed>>

\* replay_dead_letter_job; replay_dead_letter_jobs is a series of these.
Replay(j) ==
  /\ ReplayDeadLetterJob(j)
  /\ UNCHANGED <<resultVars, callVars, reqVars, last_cleanup, unkeyed>>

ConnectorTick ==
  /\ Tick
  /\ UNCHANGED <<resultVars, callVars, reqVars, last_cleanup, unkeyed>>

\* One step of the thread that runs caller j.
CallerStep(j) ==
  \/ ExecutePrune(j) \/ ExecuteEnqueue(j) \/ ExecuteRequeue(j) \/ ExecutePoll(j)

\* One step of the thread that serves request r.
RequestStep(r) ==
  \/ ClaimPrune(r) \/ ClaimRequeue(r) \/ ClaimTake(r) \/ ClaimReply(r)
  \/ SubmitPrune(r) \/ SubmitAuth(r) \/ SubmitLookup(r) \/ SubmitComplete(r)
  \/ SubmitIngest(r)

\* What the connector's own threads do: execute is called and goes on, requests go on.
ServerStep ==
  \/ \E j \in JobIds : CallerStep(j) \/ \E at \in Readings : ExecuteStart(j, at)
  \/ \E r \in Requests : RequestStep(r)
  \/ ConnectorTick

\* A worker asks for a job.
WorkerClaims(r) == \E t \in Tenants, at \in Readings : ClaimStart(r, t, at)

\* A worker submits the result of a lease it was given, with the job's key or without one.
WorkerSubmits(r, sound, keyed) ==
  \E lease \in received, success \in SuccessValues, at \in Readings :
    SubmitStart(r, lease, IF keyed THEN KeyOf[lease.job] ELSE NoKey, success, sound, at)

WorkerCall(r) ==
  \/ WorkerClaims(r)
  \/ \E sound \in SoundValues, keyed \in BOOLEAN : WorkerSubmits(r, sound, keyed)

OperatorCall ==
  \/ \E j \in JobIds : Replay(j)
  \/ \E c \in Cancelled : RequestCancellation(c)
  \/ \E t \in Admins : ForcedCleanup(t)

ConnectorNext == ServerStep \/ (\E r \in Requests : WorkerCall(r)) \/ OperatorCall

\* A thread that is inside execute or inside a request keeps running, and time passes.
ConnectorFairness ==
  /\ \A j \in JobIds : WF_vars(CallerStep(j))
  /\ \A r \in Requests : WF_vars(RequestStep(r))
  /\ WF_vars(ConnectorTick)

ConnectorSpec == ConnectorInit /\ [][ConnectorNext]_vars /\ ConnectorFairness

-----------------------------------------------------------------------------
(* Properties.                                                             *)

\* Type invariant of the connector's threads.
ConnectorTypeOK ==
  /\ non_blocking \in BOOLEAN
  /\ caller \in [JobIds -> CallerStates]
  /\ deadline \in [JobIds -> Nat]
  /\ req \in [Requests -> [pc : RequestStates, tenant : Tenants \cup {""},
                           job : JobIds \cup {0}, token : Tokens, key : Keys \cup {NoKey},
                           success : BOOLEAN, sound : BOOLEAN]]
  /\ envelope \in [JobIds -> Tokens]
  /\ received \in SUBSET [job : JobIds, token : Tokens]
  /\ last_cleanup \in Nat
  /\ unkeyed \in SUBSET JobIds

\* The requests that have completed job j and are about to ingest its result.
Ingesting(j) == {r \in Requests : req[r].pc = "submit_ingest" /\ req[r].job = j}

\* Of the four critical sections of a submission, complete_claim is the one that
\* decides: whatever requests race with it, at most one of them gets to ingest a
\* result of a job, and it finds no earlier one.  So a job never has a result before
\* its lease is spent, and ingest never meets a conflicting result.
OneIngestPerJob ==
  \A j \in JobIds :
    /\ \A r, s \in Ingesting(j) : r = s
    /\ Ingesting(j) # {} => results[j] = NoResult /\ consumed[j] = {} /\ j \notin unkeyed
    /\ Ingesting(j) # {} \/ results[j] # NoResult \/ consumed[j] # {} =>
         states[j].status \in {"completed", "absent"}

\* A completed job's result is not lost between complete_claim and ingest: its key is
\* known to the result store, or a request is about to ingest it, or the worker left
\* the key blank.
CompletedIsAnswered ==
  \A j \in JobIds : states[j].status = "completed" =>
    KeyOf[j] \in seen_keys \/ Ingesting(j) # {} \/ j \in unkeyed

\* The connector keeps the promise of ByocCall to the callers of execute.
CallOutcome ==
  [j \in JobIds |-> CASE caller[j] \in {"idle", "prune", "enqueue"} -> "idle"
                      [] caller[j] \in {"requeue", "poll"} -> "waiting"
                      [] OTHER -> caller[j]]

Call == INSTANCE ByocCall WITH Callers <- JobIds, CallKey <- KeyOf, outcome <- CallOutcome

\* The connector implements the abstract call: what execute returns to its callers is
\* what ByocCall allows, and every waiting caller is answered or times out.
ImplementsCall == Call!CallSpec

-----------------------------------------------------------------------------
(* A statement of the repository's tests that the code does not keep.      *)

\* "cancel path expires lease and requeues then marks cancelled": after a cancellation no
\* job of the call is left for workers.
NoOrphanAfterCancel ==
  [][\A j \in JobIds : CallOf[j] \in withdrawn' \ withdrawn =>
       states'[j].status \notin {"queued", "leased"}]_vars
=============================================================================
