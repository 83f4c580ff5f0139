---------------------------- MODULE ByocJobStore ----------------------------
(***************************************************************************)
(* The in-memory job queue of the bring-your-own-compute connector,        *)
(* InMemoryByocJobQueueStore.  Every method runs under the store's lock,   *)
(* so each is one action; what a method reads before it takes the lock     *)
(* (claim_next and cleanup_retention read the clock) may be stale by up to *)
(* MaxLag ticks when the lock is granted.                                  *)
(*                                                                         *)
(* Jobs are numbered in the order in which they are first enqueued, which  *)
(* is the iteration order of the _states dictionary: job ids are fresh     *)
(* uuids, so an id that was pruned never comes back.  Lease tokens are     *)
(* fresh uuids too; the k-th claim of a job is given token k, so a         *)
(* (job, token) pair is never issued twice.  Token 0 is the empty string.  *)
(***************************************************************************)
EXTENDS Naturals, Sequences, FiniteSets

CONSTANTS
  Tenants,        \* tenant ids
  Calls,          \* tool call ids
  MaxJobs,        \* bound: number of jobs ever enqueued
  TenantOf,       \* envelope.tenant_id of each job
  CallOf,         \* envelope.call_id of each job
  LeaseTtl,       \* lease_ttl_seconds, already max(int(...), 1)
  DlqLimit,       \* max_claim_attempts_before_dlq given to requeue_expired_leases
  CompletedTtl,   \* completed_ttl_seconds of cleanup_retention
  CancelledTtl,   \* cancelled_ttl_seconds
  MaxCompleted,   \* max_completed_records
  MaxCancelled,   \* max_cancelled_records
  MaxClaims,      \* bound: claims of one job
  MaxReplays,     \* bound: dead-letter replays of one job
  MaxTime,        \* bound: clock ticks
  MaxLag          \* longest wait for the lock, in ticks

JobIds == 1..MaxJobs

ASSUME StoreAssumption ==
  /\ MaxJobs \in Nat
  /\ TenantOf \in [JobIds -> Tenants]
  /\ CallOf \in [JobIds -> Calls]
  /\ LeaseTtl \in Nat \ {0}
  /\ DlqLimit \in Nat
  /\ CompletedTtl \in Nat \ {0} /\ CancelledTtl \in Nat \ {0}
  /\ MaxCompleted \in Nat /\ MaxCancelled \in Nat
  /\ MaxClaims \in Nat /\ MaxReplays \in Nat
  /\ MaxTime \in Nat /\ MaxLag \in Nat

VARIABLES
  states,         \* _states: job -> _JobState; "absent" when not in the dictionary
  tenant_queue,   \* _tenant_queue: tenant -> deque of job ids
  enqueued,       \* jobs 1..enqueued have been enqueued at some time
  now,            \* the clock
  claims,         \* leases handed to workers: what a worker was told, never updated
  withdrawn       \* history: calls for which cancel_pending_call has run

storeVars == <<states, tenant_queue, enqueued, now, claims, withdrawn>>

Statuses == {"absent", "queued", "leased", "completed", "cancelled", "dead_lettered"}

JobState == [status : Statuses, lease_token : Nat, lease_expires : Nat,
             claim_attempt : Nat, at : Nat, replay_count : Nat]

\* A job that is not in the dictionary.
Absent == [status |-> "absent", lease_token |-> 0, lease_expires |-> 0,
           claim_attempt |-> 0, at |-> 0, replay_count |-> 0]

Tokens == 0..MaxClaims

Claims == [job : JobIds, token : Tokens, until : Nat]

StoreInit ==
  /\ states = [j \in JobIds |-> Absent]
  /\ tenant_queue = [t \in Tenants |-> <<>>]
  /\ enqueued = 0
  /\ now = 1
  /\ claims = {}
  /\ withdrawn = {}

\* Clock values a method that read the clock before locking may be using.
Readings == {at \in 1..now : at + MaxLag >= now}

-----------------------------------------------------------------------------
(* _requeue_expired_leases_unlocked: a scan in dictionary order.           *)

\* The elements of a set of job ids in dictionary order.
Rank(S, j) == Cardinality({k \in S : k <= j})
InsertionOrder(S) == [i \in 1..Cardinality(S) |-> CHOOSE j \in S : Rank(S, j) = i]

\* Mutation: a lease counts as expired one tick early.
ExpiredEarly(st, at) == {j \in JobIds : st[j].status = "leased" /\ st[j].lease_expires <= at + 1}

Expired(st, at) == {j \in JobIds : st[j].status = "leased" /\ st[j].lease_expires <= at}

\* should_dlq; a limit of None is passed on as 0, which the code treats alike.
Exhausted(st, j, limit) == limit > 0 /\ st[j].claim_attempt >= limit

Requeued(st, at, limit) == {j \in Expired(st, at) : ~Exhausted(st, j, limit)}

\* A job leaves the leased state: its lease fields are cleared.
Unleased(s, to) == [s EXCEPT !.status = to, !.lease_token = 0, !.lease_expires = 0]

StatesAfterRequeue(st, at, limit) ==
  [j \in JobIds |->
     IF j \in Requeued(st, at, limit) THEN Unleased(st[j], "queued")
     ELSE IF j \in Expired(st, at) THEN [Unleased(st[j], "dead_lettered") EXCEPT !.at = at]
     ELSE st[j]]

\* Mutation: no "continue" after dead-lettering, so the job is appended all the same.
QueueAfterRequeueAll(st, q, at, limit) ==
  [t \in Tenants |-> q[t] \o InsertionOrder({j \in Expired(st, at) : TenantOf[j] = t})]

QueueAfterRequeue(st, q, at, limit) ==
  [t \in Tenants |-> q[t] \o InsertionOrder({j \in Requeued(st, at, limit) : TenantOf[j] = t})]

\* The scan as a step of its own on the store's state.
RequeueScan(at, limit) ==
  /\ states' = StatesAfterRequeue(states, at, limit)
  /\ tenant_queue' = QueueAfterRequeue(states, tenant_queue, at, limit)

-----------------------------------------------------------------------------
(* Operations.                                                             *)

\* enqueue: the early return for a known job id never fires for a fresh uuid.
Enqueue ==
  /\ enqueued < MaxJobs
  /\ LET j == enqueued + 1 IN
       /\ states' = [states EXCEPT ![j] = [Absent EXCEPT !.status = "queued"]]
       /\ tenant_queue' = [tenant_queue EXCEPT ![TenantOf[j]] = Append(@, j)]
  /\ enqueued' = enqueued + 1
  /\ UNCHANGED <<now, claims, withdrawn>>

\* claim_next: requeue without a dead-letter limit, then pop the deque until a
\* queued entry turns up; entries of jobs in any other state are dropped.
ClaimNext(t, at) ==
  LET st == StatesAfterRequeue(states, at, 0)
      q  == QueueAfterRequeue(states, tenant_queue, at, 0)
      Live(i) == st[q[t][i]].status = "queued"
  IN  /\ \/ \E i \in 1..Len(q[t]) :
              LET j == q[t][i]
                  n == st[j].claim_attempt + 1
              IN  /\ Live(i)
                  /\ \A k \in 1..(i - 1) : ~Live(k)
                  /\ n <= MaxClaims
                  /\ states' = [st EXCEPT ![j] =
                                  [@ EXCEPT !.status = "leased", !.lease_token = n,
                                            !.lease_expires = at + LeaseTtl,
                                            !.claim_attempt = n]]
                  /\ tenant_queue' = [q EXCEPT ![t] = SubSeq(@, i + 1, Len(@))]
                  /\ claims' = claims \cup {[job |-> j, token |-> n, until |-> at + LeaseTtl]}
         \/ /\ \A i \in 1..Len(q[t]) : ~Live(i)
            /\ states' = st
            /\ tenant_queue' = [q EXCEPT ![t] = <<>>]
            /\ UNCHANGED claims
      /\ UNCHANGED <<enqueued, now, withdrawn>>

\* Mutation: the expiry of the lease is not looked at.
LeaseActiveIfTokenMatches(j, token) ==
  states[j].status = "leased" /\ states[j].lease_token = token

\* The lease (j, token) is the active one; both lookups below test it the same way.
LeaseActive(j, token) ==
  /\ states[j].status = "leased"
  /\ states[j].lease_expires > now
  /\ states[j].lease_token = token

LeaseLapsed(j) == states[j].status = "leased" /\ states[j].lease_expires <= now

\* complete_claim: an expired lease triggers the scan (without a limit) and fails.
CompleteClaim(j, token) ==
  /\ \/ /\ LeaseActive(j, token)
        /\ states' = [states EXCEPT ![j] = [@ EXCEPT !.status = "completed", !.at = now]]
        /\ UNCHANGED tenant_queue
     \/ LeaseLapsed(j) /\ RequeueScan(now, 0)
     \/ ~LeaseActive(j, token) /\ ~LeaseLapsed(j) /\ UNCHANGED <<states, tenant_queue>>
  /\ UNCHANGED <<enqueued, now, claims, withdrawn>>

\* get_leased_job: the same tests, reading only, and the same scan on an expired lease.
GetLeasedJob(j, token) ==
  /\ IF LeaseLapsed(j) THEN RequeueScan(now, 0) ELSE UNCHANGED <<states, tenant_queue>>
  /\ UNCHANGED <<enqueued, now, claims, withdrawn>>

\* requeue_expired_leases
RequeueExpiredLeases(limit) ==
  /\ RequeueScan(now, limit)
  /\ UNCHANGED <<enqueued, now, claims, withdrawn>>

\* cancel_pending_call: queued jobs of the call are cancelled (their deque entries
\* stay), leased ones lose their lease, and the scan requeues those.
CancelPendingCall(c) ==
  LET st == [j \in JobIds |->
               IF CallOf[j] = c /\ states[j].status = "queued"
                 THEN [states[j] EXCEPT !.status = "cancelled", !.at = now]
               ELSE IF CallOf[j] = c /\ states[j].status = "leased"
                 THEN [states[j] EXCEPT !.lease_expires = 0]
               ELSE states[j]]
  IN  /\ states' = StatesAfterRequeue(st, now, 0)
      /\ tenant_queue' = QueueAfterRequeue(st, tenant_queue, now, 0)
      /\ withdrawn' = withdrawn \cup {c}
      /\ UNCHANGED <<enqueued, now, claims>>

\* replay_dead_letter_job: back to the tail of the deque; claim_attempt is kept.
ReplayDeadLetterJob(j) ==
  /\ states[j].status = "dead_lettered"
  /\ states[j].replay_count < MaxReplays
  /\ states' = [states EXCEPT ![j] =
                  [Unleased(states[j], "queued") EXCEPT
                     !.at = 0, !.replay_count = states[j].replay_count + 1]]
  /\ tenant_queue' = [tenant_queue EXCEPT ![TenantOf[j]] = Append(@, j)]
  /\ UNCHANGED <<enqueued, now, claims, withdrawn>>

\* Mutation: retention selects rows by tenant only.
OfAnyStatus(st, t, s) == {j \in JobIds : st[j].status # "absent" /\ TenantOf[j] = t}

\* cleanup_retention: drop what is older than its TTL, then the oldest beyond the cap
\* (a stable sort by the time stamp, so ties go by dictionary order).
OfStatus(st, t, s) == {j \in JobIds : st[j].status = s /\ TenantOf[j] = t}
Stale(t, s, ttl, at) == {j \in OfStatus(states, t, s) : states[j].at > 0 /\ states[j].at + ttl <= at}
Older(j, k) == \/ states[j].at < states[k].at
               \/ states[j].at = states[k].at /\ j < k
Overflow(S, cap) == {j \in S : Cardinality({k \in S : Older(j, k)}) >= cap}
Pruned(t, s, ttl, cap, at) ==
  LET stale == Stale(t, s, ttl, at)
  IN  stale \cup Overflow(OfStatus(states, t, s) \ stale, cap)

CleanupRetention(t, at) ==
  LET gone == Pruned(t, "completed", CompletedTtl, MaxCompleted, at)
              \cup Pruned(t, "cancelled", CancelledTtl, MaxCancelled, at)
  IN  /\ states' = [j \in JobIds |-> IF j \in gone THEN Absent ELSE states[j]]
      /\ UNCHANGED <<tenant_queue, enqueued, now, claims, withdrawn>>

Tick ==
  /\ now < MaxTime
  /\ now' = now + 1
  /\ UNCHANGED <<states, tenant_queue, enqueued, claims, withdrawn>>

-----------------------------------------------------------------------------
(* The store under every sequence of calls its clients can make; a worker  *)
(* may present any token, one that it was never given included.            *)

StoreNext ==
  \/ Enqueue
  \/ \E t \in Tenants, at \in Readings : ClaimNext(t, at)
  \/ \E j \in JobIds, token \in Tokens : CompleteClaim(j, token)
  \/ \E j \in JobIds, token \in Tokens : GetLeasedJob(j, token)
  \/ \E limit \in {0, DlqLimit} : RequeueExpiredLeases(limit)
  \/ \E c \in Calls : CancelPendingCall(c)
  \/ \E j \in JobIds : ReplayDeadLetterJob(j)
  \/ \E t \in Tenants, at \in Readings : CleanupRetention(t, at)
  \/ Tick

StoreSpec == StoreInit /\ [][StoreNext]_storeVars

-----------------------------------------------------------------------------
(* Properties.                                                             *)

\* Type invariant of the store's dictionaries and of the callers' view of them.
StoreTypeOK ==
  /\ states \in [JobIds -> JobState]
  /\ tenant_queue \in [Tenants -> Seq(JobIds)]
  /\ enqueued \in 0..MaxJobs
  /\ now \in Nat \ {0}
  /\ claims \in SUBSET Claims
  /\ withdrawn \in SUBSET Calls

\* In the deques q, no entry occurs twice and each is in the deque of its own tenant.
EntriesDistinct(q) ==
  \A t \in Tenants : \A i \in 1..Len(q[t]) :
    /\ TenantOf[q[t][i]] = t
    /\ \A k \in 1..Len(q[t]) : q[t][i] = q[t][k] => i = k

\* Only queued jobs, and jobs cancelled while queued (and perhaps pruned since), have
\* an entry.
EntriesClaimable(st, q) ==
  \A t \in Tenants : \A i \in 1..Len(q[t]) :
    st[q[t][i]].status \in {"queued", "cancelled", "absent"}

\* Every queued job has an entry.
QueuedHasEntry(st, q) ==
  \A j \in JobIds : st[j].status = "queued" =>
    \E i \in 1..Len(q[TenantOf[j]]) : q[TenantOf[j]][i] = j

Exact(st, q) == EntriesDistinct(q) /\ EntriesClaimable(st, q) /\ QueuedHasEntry(st, q)

\* The status field and the deques agree whatever mix of claims, expiries,
\* cancellations, replays and prunings has run: a queued job is in the deque of its
\* tenant exactly once, so it is neither lost nor handed out twice, and a job that is
\* leased, completed or dead-lettered is in none.
QueueExact == Exact(states, tenant_queue)

\* Two workers never both hold a lease on one job that each believes unexpired,
\* unless the call was cancelled (cancel_pending_call revokes a lease early and the
\* worker is not told).
LeaseMutex ==
  \A c, d \in claims :
    c.job = d.job /\ c.until > now /\ d.until > now
      => c = d \/ CallOf[c.job] \in withdrawn

\* A job is completed only while the most recent of its claims is unexpired in the
\* eyes of the worker that holds it.
CompletedByHolder ==
  [][\A j \in JobIds :
       states[j].status # "completed" /\ states'[j].status = "completed" =>
         \E c \in claims : /\ c.job = j
                           /\ c.token = states[j].claim_attempt
                           /\ c.until > now]_storeVars

\* Where a job may go from each status in one call of the store.  A claim can find
\* its own expired lease and take the job again, so leased may follow leased.
Successors(s) ==
  CASE s = "absent"        -> {"absent", "queued"}
    [] s = "queued"        -> {"queued", "leased", "cancelled"}
    [] s = "leased"        -> {"leased", "queued", "completed", "dead_lettered"}
    [] s = "completed"     -> {"completed", "absent"}
    [] s = "cancelled"     -> {"cancelled", "absent"}
    [] s = "dead_lettered" -> {"dead_lettered", "queued"}

\* The life cycle of a job: completed and cancelled are final until retention forgets
\* the record, retention forgets nothing else, a forgotten job never returns, and only
\* jobs that were leased can be dead-lettered.
LifecycleOrder ==
  [][\A j \in JobIds : /\ states'[j].status \in Successors(states[j].status)
                       /\ j <= enqueued /\ states[j].status = "absent" =>
                            states'[j].status = "absent"]_storeVars
=============================================================================
