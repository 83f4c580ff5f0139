---------------------------- MODULE SandboxRuntime ----------------------------
(***************************************************************************)
(* TenantSandboxToolRuntime and TenantSandboxPool.  execute consumes a     *)
(* cancellation token, takes its tenant's worker from the pool, submits    *)
(* the handler to the worker's executor and waits for it, all in its own   *)
(* thread and with no lock held in between; or it runs the handler in a    *)
(* child process.  Workers are evicted meanwhile: to make room, because    *)
(* they look idle, or on request.                                          *)
(*                                                                         *)
(* The k-th executor the pool creates is executor k.  The resource hooks   *)
(* compare numbers of the manifest; here they allow or block.              *)
(***************************************************************************)
EXTENDS Naturals, Sequences, FiniteSets

CONSTANTS
  Invocations,        \* calls of execute
  InvocationTenant,   \* the tenant of each
  CallId,             \* the call_id of each; a retry has the call_id of the first try
  Isolations,         \* "thread", "process"
  MaxWorkers,         \* max_workers_per_tenant
  MaxPoolTenants,     \* max_tenants; 0 for None
  IdleSeconds,        \* max_idle_seconds
  MaxExecutors,       \* bound: executors created
  PoolTime,           \* bound: clock ticks
  PoolLag,            \* longest wait for the pool's lock after the clock was read
  MaxRequested        \* bound: cancellations requested

ASSUME SandboxAssumption ==
  /\ Isolations \in SUBSET {"thread", "process"}
  /\ MaxWorkers \in Nat \ {0} /\ MaxPoolTenants \in Nat /\ IdleSeconds \in Nat
  /\ MaxExecutors \in Nat /\ PoolTime \in Nat /\ PoolLag \in Nat /\ MaxRequested \in Nat

PoolTenants == {InvocationTenant[i] : i \in Invocations}
Executors == 1..MaxExecutors

VARIABLES
  isolation,               \* _enable_process_isolation
  workers,                 \* _workers: the executor of each tenant; 0 for none
  last_used,               \* last_used_monotonic of each tenant's worker
  created,                 \* executors created so far
  shut,                    \* executors that were shut down
  work_queue,              \* per executor, the work items not yet taken by a thread
  inv,                     \* per invocation: where execute stands, its executor, its result
  handler,                 \* per invocation: its future, or its child process
  to_evict,                \* what evict_idle has still to evict
  pending_cancellations,   \* _pending_cancellations
  cancel_requested, cancel_cleared,   \* tokens registered; tokens withdrawn again
  poolClock

poolVars == <<workers, last_used, created, shut, work_queue>>
tokenVars == <<pending_cancellations, cancel_requested, cancel_cleared>>
sandboxVars == <<isolation, poolVars, inv, handler, to_evict, tokenVars, poolClock>>

SandboxInit ==
  /\ isolation \in Isolations
  /\ workers = [t \in PoolTenants |-> 0]
  /\ last_used = [t \in PoolTenants |-> 0]
  /\ created = 0
  /\ shut = {}
  /\ work_queue = [e \in Executors |-> <<>>]
  /\ inv = [i \in Invocations |-> [at |-> "new", executor |-> 0, result |-> "none"]]
  /\ handler = [i \in Invocations |-> "none"]
  /\ to_evict = {}
  /\ pending_cancellations = {}
  /\ cancel_requested = 0 /\ cancel_cleared = 0
  /\ poolClock = 0

PoolReadings == {at \in 0..poolClock : at + PoolLag >= poolClock}

At(i, place) == inv' = [inv EXCEPT ![i].at = place]
Return(i, result) == inv' = [inv EXCEPT ![i].at = "returned", ![i].result = result]

-----------------------------------------------------------------------------
(* The pool.                                                               *)

\* shutdown(wait=False, cancel_futures=True) cancels what no thread has taken yet; running
\* handlers go on.
FuturesAfterShutdown(es) ==
  [i \in Invocations |->
     IF handler[i] = "queued" /\ inv[i].executor \in es THEN "cancelled" ELSE handler[i]]

\* _remove_worker_unlocked for the tenants ts.
RemoveWorkers(ts) ==
  LET es == {workers[t] : t \in ts} \ {0}
  IN /\ shut' = shut \cup es
     /\ work_queue' = [e \in Executors |-> IF e \in es THEN <<>> ELSE work_queue[e]]
     /\ handler' = FuturesAfterShutdown(es)

Pooled == {t \in PoolTenants : workers[t] # 0}

\* _evict_one_for_capacity_unlocked: the tenant whose place is taken, if one must go.
Victims ==
  IF MaxPoolTenants = 0 \/ Cardinality(Pooled) < MaxPoolTenants THEN {{}}
  ELSE {{t} : t \in {u \in Pooled : \A v \in Pooled : last_used[u] <= last_used[v]}}

\* acquire.
AcquireWorker(i, at) ==
  LET t == InvocationTenant[i]
  IN /\ inv[i].at = "dispatch" /\ isolation = "thread"
     /\ last_used' = [last_used EXCEPT ![t] = at]
     /\ \/ /\ workers[t] # 0
           /\ inv' = [inv EXCEPT ![i].at = "acquired", ![i].executor = workers[t]]
           /\ UNCHANGED <<workers, created, shut, work_queue, handler>>
        \/ /\ workers[t] = 0
           /\ created < MaxExecutors
           /\ \E victims \in Victims :
                /\ RemoveWorkers(victims)
                /\ workers' = [u \in PoolTenants |-> IF u = t THEN created + 1
                                                     ELSE IF u \in victims THEN 0
                                                     ELSE workers[u]]
           /\ created' = created + 1
           /\ inv' = [inv EXCEPT ![i].at = "acquired", ![i].executor = created + 1]
     /\ UNCHANGED <<isolation, to_evict, tokenVars, poolClock>>

Evict(ts) ==
  /\ RemoveWorkers(ts)
  /\ workers' = [t \in PoolTenants |-> IF t \in ts THEN 0 ELSE workers[t]]
  /\ UNCHANGED <<isolation, last_used, created, inv, tokenVars, poolClock>>

\* evict_tenant on request, and close.
EvictTenant(t) == workers[t] # 0 /\ Evict({t}) /\ UNCHANGED to_evict
ClosePool == Cardinality(Pooled) > 1 /\ Evict(Pooled) /\ UNCHANGED to_evict

\* evict_idle looks under the lock, and then evicts tenant by tenant.
ScanIdle(at) ==
  /\ to_evict = {}
  /\ to_evict' = {t \in Pooled : at > last_used[t] + IdleSeconds}
  /\ to_evict' # {}
  /\ UNCHANGED <<isolation, poolVars, inv, handler, tokenVars, poolClock>>

EvictIdle(t) ==
  /\ t \in to_evict
  /\ to_evict' = to_evict \ {t}
  /\ Evict({t})

-----------------------------------------------------------------------------
(* execute.                                                                *)

\* Mutation: the token stays registered.
ConsumedAndKept(c) == pending_cancellations

ConsumedToken(c) == pending_cancellations \ {c}

\* ManifestBudgetResourceHooks: budgets of the manifest against those of the platform before
\* the handler runs, and against its duration afterwards.
HookDecisions == {"allow", "block"}

BlockedForResources(i) == Return(i, "blocked")

\* The start of execute, up to the resource hook before_execute.
StartExecute(i) ==
  /\ inv[i].at = "new"
  /\ \/ /\ CallId[i] \in pending_cancellations
        /\ pending_cancellations' = ConsumedToken(CallId[i])
        /\ Return(i, "cancelled")
     \/ /\ CallId[i] \notin pending_cancellations
        /\ \E decision \in HookDecisions :
             IF decision = "allow" THEN At(i, "dispatch") ELSE BlockedForResources(i)
        /\ UNCHANGED pending_cancellations
  /\ UNCHANGED <<isolation, poolVars, handler, to_evict, cancel_requested, cancel_cleared, poolClock>>

\* submit raises when the executor was shut down since acquire.
Submit(i) ==
  LET e == inv[i].executor
  IN /\ inv[i].at = "acquired"
     /\ \/ e \in shut /\ Return(i, "error") /\ UNCHANGED <<work_queue, handler>>
        \/ /\ e \notin shut
           /\ At(i, "waiting")
           /\ work_queue' = [work_queue EXCEPT ![e] = Append(work_queue[e], i)]
           /\ handler' = [handler EXCEPT ![i] = "queued"]
     /\ UNCHANGED <<isolation, workers, last_used, created, shut, to_evict, tokenVars, poolClock>>

RunningOn(e) == {i \in Invocations : handler[i] = "running" /\ inv[i].executor = e}

\* A thread of the executor takes the next work item, and drops it if it was cancelled.
TakeWork(e) ==
  /\ work_queue[e] # <<>>
  /\ Cardinality(RunningOn(e)) < MaxWorkers
  /\ work_queue' = [work_queue EXCEPT ![e] = Tail(work_queue[e])]
  /\ handler' = IF handler[Head(work_queue[e])] = "queued"
                THEN [handler EXCEPT ![Head(work_queue[e])] = "running"] ELSE handler
  /\ UNCHANGED <<isolation, workers, last_used, created, shut, inv, to_evict, tokenVars, poolClock>>

\* A handler may raise a TimeoutError of its own.
HandlerEnds(i) ==
  /\ handler[i] = "running"
  /\ \E outcome \in {"value", "raised", "raised_timeout"} :
       handler' = [handler EXCEPT ![i] = outcome]
  /\ UNCHANGED <<isolation, poolVars, inv, to_evict, tokenVars, poolClock>>

\* In a child a large value does not fit into the pipe of the result queue: the child waits
\* for a reader while run waits for the child.
ChildBlocks(i) ==
  /\ isolation = "process" /\ handler[i] = "running"
  /\ handler' = [handler EXCEPT ![i] = "value_unread"]
  /\ UNCHANGED <<isolation, poolVars, inv, to_evict, tokenVars, poolClock>>

\* future.result, or run, has the handler's outcome.  The hook after_execute may still block.
CollectResult(i) ==
  /\ inv[i].at = "waiting"
  /\ \/ handler[i] = "value" /\ \E decision \in HookDecisions :
            IF decision = "allow" THEN Return(i, "success") ELSE BlockedForResources(i)
     \/ handler[i] \in {"raised", "cancelled"} /\ Return(i, "error")
     \/ handler[i] = "raised_timeout"
          /\ Return(i, IF isolation = "thread" THEN "timeout" ELSE "error")
  /\ UNCHANGED <<isolation, poolVars, handler, to_evict, tokenVars, poolClock>>

\* future.result times out ...
ResultTimesOut(i) ==
  /\ isolation = "thread"
  /\ inv[i].at = "waiting" /\ handler[i] \in {"queued", "running"}
  /\ At(i, "timing_out")
  /\ UNCHANGED <<isolation, poolVars, handler, to_evict, tokenVars, poolClock>>

\* Mutation: the future is left as it is.
CancelledFutureLeft(i) == handler

\* cancel has an effect on a future that no thread has taken.
CancelledFuture(i) ==
  IF handler[i] = "queued" THEN [handler EXCEPT ![i] = "cancelled"] ELSE handler

\* ... and the future is cancelled afterwards.
CancelFuture(i) ==
  /\ inv[i].at = "timing_out"
  /\ handler' = CancelledFuture(i)
  /\ Return(i, "timeout")
  /\ UNCHANGED <<isolation, poolVars, to_evict, tokenVars, poolClock>>

\* ProcessSandboxRunner.run.
StartChild(i) ==
  /\ inv[i].at = "dispatch" /\ isolation = "process"
  /\ At(i, "waiting")
  /\ handler' = [handler EXCEPT ![i] = "running"]
  /\ UNCHANGED <<isolation, poolVars, to_evict, tokenVars, poolClock>>

\* _terminate.
Terminated(i) == [handler EXCEPT ![i] = "killed"]

\* join timed out and the child is alive: it is terminated or killed.
ChildTimesOut(i) ==
  /\ isolation = "process" /\ inv[i].at = "waiting" /\ handler[i] \in {"running", "value_unread"}
  /\ handler' = Terminated(i)
  /\ Return(i, "timeout")
  /\ UNCHANGED <<isolation, poolVars, to_evict, tokenVars, poolClock>>

-----------------------------------------------------------------------------
(* Cancellation tokens.                                                    *)

RequestToken(c) ==
  /\ c \notin pending_cancellations
  /\ cancel_requested < MaxRequested
  /\ pending_cancellations' = pending_cancellations \cup {c}
  /\ cancel_requested' = cancel_requested + 1
  /\ UNCHANGED <<isolation, poolVars, inv, handler, to_evict, cancel_cleared, poolClock>>

ClearToken(c) ==
  /\ c \in pending_cancellations
  /\ pending_cancellations' = pending_cancellations \ {c}
  /\ cancel_cleared' = cancel_cleared + 1
  /\ UNCHANGED <<isolation, poolVars, inv, handler, to_evict, cancel_requested, poolClock>>

PoolTick ==
  /\ poolClock < PoolTime
  /\ poolClock' = poolClock + 1
  /\ UNCHANGED <<isolation, poolVars, inv, handler, to_evict, tokenVars>>

-----------------------------------------------------------------------------
ExecuteStep(i) ==
  \/ StartExecute(i) \/ Submit(i) \/ HandlerEnds(i) \/ ChildBlocks(i) \/ CollectResult(i)
  \/ ResultTimesOut(i) \/ CancelFuture(i) \/ StartChild(i) \/ ChildTimesOut(i)
  \/ \E at \in PoolReadings : AcquireWorker(i, at)

SandboxNext ==
  \/ \E i \in Invocations : ExecuteStep(i) \/ RequestToken(CallId[i]) \/ ClearToken(CallId[i])
  \/ \E e \in Executors : TakeWork(e)
  \/ \E t \in PoolTenants : EvictTenant(t) \/ EvictIdle(t)
  \/ \E at \in PoolReadings : ScanIdle(at)
  \/ ClosePool \/ PoolTick

SandboxSpec == SandboxInit /\ [][SandboxNext]_sandboxVars

-----------------------------------------------------------------------------
(* Properties.                                                             *)

\* Type invariant of the runtime and its pool.
SandboxTypeOK ==
  /\ isolation \in Isolations
  /\ workers \in [PoolTenants -> 0..MaxExecutors] /\ last_used \in [PoolTenants -> Nat]
  /\ created \in 0..MaxExecutors /\ shut \in SUBSET Executors
  /\ work_queue \in [Executors -> Seq(Invocations)]
  /\ inv \in [Invocations ->
                [at : {"new", "dispatch", "acquired", "waiting", "timing_out", "returned"},
                 executor : 0..MaxExecutors,
                 result : {"none", "success", "blocked", "error", "timeout", "cancelled"}]]
  /\ handler \in [Invocations -> {"none", "queued", "running", "value", "value_unread", "raised",
                                  "raised_timeout", "cancelled", "killed"}]
  /\ to_evict \in SUBSET PoolTenants
  /\ {cancel_requested, cancel_cleared, poolClock} \subseteq Nat

\* Work goes on behind a returned call only after a timeout of the thread pool, and then the
\* handler was running already: whoever is told error, blocked or cancelled can rely on nothing
\* being executed, whatever evictions raced with the call, and no handler starts after its call
\* has returned, when the thread that an earlier handler kept busy comes free.
NoHiddenWork ==
  \A i \in Invocations :
    handler[i] \in {"queued", "running", "value_unread"} /\ inv[i].at = "returned" =>
      inv[i].result = "timeout" /\ isolation = "thread" /\ handler[i] = "running"

\* "one-shot cancel token semantics": every token registered is pending, was withdrawn, or
\* has cancelled exactly one call, retries under the same call_id included.
TokensOneShot ==
  Cardinality({i \in Invocations : inv[i].result = "cancelled"})
    + Cardinality(pending_cancellations) + cancel_cleared = cancel_requested

\* Together: what execute and request_cancellation answer is what happens to the call.
SandboxAnswersHold == NoHiddenWork /\ TokensOneShot
=============================================================================
