----------------------------- MODULE ByocBudget -----------------------------
(* The budget of a tenant's BYOC connector (tools/byoc/connector_runtime.py) and the operator's   *)
(* requests to it (api/routers/runtime_control.py, policies/governance_anomaly_detector.py).      *)
(* Threads execute tool calls: a call is checked against the budget of its partition, waits for a *)
(* fair-admission slot, queues a job and is charged when it returns. Operators and workers reach  *)
(* the connector through requests that resolve the tenant's context, are suspended while their    *)
(* entitlement decision is written to the audit log, and then act on the context they resolved,   *)
(* which may have been evicted meanwhile: every context has a connector and a ledger of its own.  *)
EXTENDS Naturals, FiniteSets, SequencesExt

CONSTANTS BudgetThreads,       \* threads that execute tool calls
          BudgetOperators,     \* clients of the operator routes, one request each at a time
          CallKinds,           \* records [provider, tool] of the calls made
          TenantLimit,         \* cost_limit_microunits_per_tenant
          PartitionLimits,     \* budget_partition_limits_microunits: <<"tool", t>> |-> limit
          CostWindow,          \* cost_window_seconds
          Costs,               \* the charge of each ToolStatus
          ClaimsBeforeDlq,     \* max_claim_attempts_before_dlq
          BudgetSettings,      \* records [enforce, windowed, scope, fair, nonblocking]
          Thresholds,          \* the anomaly detector's thresholds; shares in percent
          MaxExecutions, MaxRefused, MaxOperatorRequests, MaxConnectors, MaxBudgetTime   \* model bounds

ASSUME BudgetAssumption ==
  /\ TenantLimit \in Nat /\ CostWindow \in Nat \ {0} /\ ClaimsBeforeDlq \in Nat \ {0}
  /\ \A k \in DOMAIN PartitionLimits : PartitionLimits[k] \in Nat
  /\ IsFiniteSet(BudgetThreads) /\ MaxConnectors \in Nat \ {0}
  /\ DOMAIN Costs = {"success", "error", "timeout", "cancelled"}
  /\ \A s \in DOMAIN Costs : Costs[s] \in Nat

VARIABLES budget,      \* the connector's settings, the same for every context of the tenant
          connectors,  \* how many contexts of the tenant were built; the last one is current
          ledger,      \* what each connector has recorded
          jobs,        \* the jobs queued so far and the connector whose store holds each
          executing,   \* what each thread is doing
          asking,      \* the request each operator has under way
          asked,       \* how many requests were made, evictions included
          reported,    \* the last governance report
          clock        \* whole seconds; 1 at the start, as 0 is no time

budgetVars == <<budget, connectors, ledger, jobs, executing, asking, asked, reported, clock>>

WholeTenant == <<"tenant", "all">>

Partitions == {WholeTenant} \cup DOMAIN PartitionLimits

\* No window has been opened: its start is read as the present second.
NoWindow == [start |-> 0, cost |-> 0]

NewLedger ==
  [total |-> 0, window |-> NoWindow, attempts |-> 0, rejected |-> <<>>, slotTimeouts |-> 0,
   parts |-> [k \in Partitions |-> [total |-> 0, window |-> NoWindow]],
   replays |-> [ok |-> 0, failed |-> 0]]

(* A scope that names no configured partition falls back to the tenant's budget: a limit set for  *)
(* other keys applies only under the scope that names it.                                         *)
Candidate(call) ==
  CASE budget.scope = "per_provider" -> <<"provider", call.provider>>
    [] budget.scope = "per_tool"     -> <<"tool", call.tool>>
    [] OTHER                         -> WholeTenant

PartitionOf(call) ==
  IF Candidate(call) \in DOMAIN PartitionLimits THEN Candidate(call) ELSE WholeTenant

PartitionLimit(key) == IF key \in DOMAIN PartitionLimits THEN PartitionLimits[key] ELSE TenantLimit

\* The window as of now: an old one is closed, and a first look opens it.
WindowNow(w) ==
  LET start == IF w.start = 0 THEN clock ELSE w.start
  IN IF clock - start >= CostWindow THEN [start |-> clock, cost |-> 0]
     ELSE [start |-> start, cost |-> w.cost]

PartitionWindow(g, key) == WindowNow(ledger[g].parts[key].window)

Charged(w, amount) == [WindowNow(w) EXCEPT !.cost = @ + amount]

\* What the limit is compared with.
Consumed(g, key) ==
  IF budget.windowed THEN PartitionWindow(g, key).cost ELSE ledger[g].parts[key].total

\* Mutation: a budget that is exactly used up still admits a call.
CostLimitExceededLate(g, key) ==
  PartitionLimit(key) > 0 /\ Consumed(g, key) > PartitionLimit(key)

\* A limit of zero is no limit.
CostLimitExceeded(g, key) ==
  PartitionLimit(key) > 0 /\ Consumed(g, key) >= PartitionLimit(key)

\* The ledger after a rejection, whatever rejected it.
Rejected(entry, reason) == [entry EXCEPT !.rejected = Append(@, reason)]

CostReason(key) ==
  <<IF budget.windowed THEN "cost_window" ELSE "cost",
    IF key = WholeTenant THEN "tenant" ELSE "partition">>

\* The charge of a returned call, to the tenant and to the partition of the call.
RecordTenantCost(entry, key, amount) ==
  [entry EXCEPT
     !.total = @ + amount,
     !.parts[key].total = @ + amount,
     !.window = IF budget.windowed THEN Charged(@, amount) ELSE @,
     !.parts[key].window = IF budget.windowed THEN Charged(@, amount) ELSE @]

CostForStatus(status) == Costs[status]

-----------------------------------------------------------------------------
Free == [state |-> "free"]

BudgetInit ==
  /\ budget \in BudgetSettings
  /\ connectors = 1
  /\ ledger = [g \in 1..MaxConnectors |-> NewLedger]
  /\ jobs = <<>>
  /\ executing = [t \in BudgetThreads |-> Free]
  /\ asking = [o \in BudgetOperators |-> Free]
  /\ asked = 0
  /\ reported = Free
  /\ clock = 1

Refused(g) == Len(ledger[g].rejected)

(* The first step of execute(): where limits are enforced, the partition's spending is compared   *)
(* with its limit, and the comparison itself opens or renews the partition's window.              *)
CheckBudget(t, call) ==
  LET key == PartitionOf(call)
      g == connectors
      looked == IF budget.enforce /\ budget.windowed /\ PartitionLimit(key) > 0
                THEN [ledger[g] EXCEPT !.parts[key].window = WindowNow(@)] ELSE ledger[g]
      over == budget.enforce /\ CostLimitExceeded(g, key)
  IN /\ executing[t] = Free /\ Refused(g) < MaxRefused
     /\ ledger' = [ledger EXCEPT ![g] = IF over THEN Rejected(looked, CostReason(key)) ELSE looked]
     /\ executing' = [executing EXCEPT ![t] =
          IF over THEN Free ELSE [state |-> "admitting", key |-> key, at |-> g]]
     /\ UNCHANGED <<budget, connectors, jobs, asking, asked, reported, clock>>

\* No slot within the wait: the call is refused, and counted as a rejected result.
SlotTimeout(t) ==
  /\ executing[t].state = "admitting" /\ budget.fair /\ Refused(executing[t].at) < MaxRefused
  /\ ledger' = [ledger EXCEPT ![executing[t].at] =
       [Rejected(ledger[executing[t].at], <<"slot", "timeout">>) EXCEPT !.slotTimeouts = @ + 1]]
  /\ executing' = [executing EXCEPT ![t] = Free]
  /\ UNCHANGED <<budget, connectors, jobs, asking, asked, reported, clock>>

\* The job is queued; a non-blocking call returns at once, as a success that is never charged.
QueueJob(t) ==
  /\ executing[t].state = "admitting" /\ Len(jobs) < MaxExecutions
  /\ jobs' = Append(jobs, [at |-> executing[t].at, state |-> "queued", lease |-> 0,
                           result |-> "none"])
  /\ executing' = [executing EXCEPT ![t] =
       IF budget.nonblocking THEN Free
       ELSE [state |-> "waiting", key |-> @.key, at |-> @.at, job |-> Len(jobs) + 1]]
  /\ UNCHANGED <<budget, connectors, ledger, asking, asked, reported, clock>>

Return(t, status) ==
  /\ ledger' = [ledger EXCEPT ![executing[t].at] =
       RecordTenantCost(@, executing[t].key, CostForStatus(status))]
  /\ executing' = [executing EXCEPT ![t] = Free]
  /\ UNCHANGED <<budget, connectors, asking, asked, reported, clock>>

\* The worker's result has come: the call is charged by its status.
MapResult(t) ==
  /\ executing[t].state = "waiting"
  /\ jobs[executing[t].job].result # "none"
  /\ Return(t, jobs[executing[t].job].result)
  /\ jobs' = [jobs EXCEPT ![executing[t].job].result = "none"]

\* The deadline passes; a result that comes just then is no longer looked for.
TimeoutResult(t) ==
  /\ executing[t].state = "waiting"
  /\ Return(t, "timeout")
  /\ UNCHANGED jobs

\* A lease runs out: the job is queued again, or dead-lettered when it was claimed too often.
RequeueExpiredLease(j) ==
  /\ jobs[j].state = "leased"
  /\ jobs' = [jobs EXCEPT ![j].state =
       IF jobs[j].lease >= ClaimsBeforeDlq THEN "dead" ELSE "queued"]
  /\ UNCHANGED <<budget, connectors, ledger, executing, asking, asked, reported, clock>>

-----------------------------------------------------------------------------
(* The routes. A request names the job and the lease it is about where it has any.                *)
PlainRoutes == {"stats", "metrics", "claim", "replay_all"}

JobRoutes == {"submit", "cancel", "replay"}

(* The context is resolved first; then the entitlement decision is taken and its audit event is   *)
(* awaited, and a caller without the entitlement is answered 403.                                 *)
EnforceFeatureEntitlement(o, route, job, lease) ==
  /\ asking[o] = Free /\ asked < MaxOperatorRequests
  /\ asked' = asked + 1
  /\ asking' = [asking EXCEPT ![o] =
       [state |-> route, at |-> connectors, job |-> job, lease |-> lease]]
  /\ UNCHANGED <<budget, connectors, ledger, jobs, executing, reported, clock>>

NotEntitled(o) ==
  /\ asking[o] # Free
  /\ asking' = [asking EXCEPT ![o] = Free]
  /\ UNCHANGED <<budget, connectors, ledger, jobs, executing, asked, reported, clock>>

BudgetAnswer(o, newLedger, newJobs, report) ==
  /\ asking' = [asking EXCEPT ![o] = Free]
  /\ ledger' = newLedger /\ jobs' = newJobs /\ reported' = report
  /\ UNCHANGED <<budget, connectors, executing, asked, clock>>

\* The tenant's figures: reading them renews the tenant's window, though not the partitions'.
ControlStatsForTenant(g) == [ledger EXCEPT ![g].window = WindowNow(@)]

Occurrences(reasons, r) == Cardinality({i \in DOMAIN reasons : reasons[i] = r})

Percent(part, whole) == IF whole > 0 THEN (100 * part) \div whole ELSE 0

DetectGovernanceAnomalies(utilization, rate, attempts, reasons) ==
  IF attempts < Thresholds.attempts THEN {}
  ELSE {<<"cost">> : x \in {y \in {1} : utilization >= Thresholds.utilization}}
       \cup {<<"rate">> : x \in {y \in {1} : rate >= Thresholds.rate}}
       \cup {<<"reason", r>> : r \in {q \in ToSet(reasons) :
                 /\ Occurrences(reasons, q) >= Thresholds.rejections
                 /\ Percent(Occurrences(reasons, q), Len(reasons)) >= Thresholds.share}}

GovernanceMetrics(g) ==
  LET e == ControlStatsForTenant(g)[g]
      spent == IF budget.windowed THEN e.window.cost ELSE e.total
      rate == Percent(Len(e.rejected), e.attempts)
  IN [state |-> "reported", spent |-> spent, attempts |-> e.attempts,
      rejections |-> Len(e.rejected), rate |-> rate,
      anomalies |-> DetectGovernanceAnomalies(
                      Percent(spent, TenantLimit), rate, e.attempts, e.rejected)]

ReadFigures(o) ==
  LET g == asking[o].at
  IN /\ asking[o].state \in {"stats", "metrics"}
     /\ BudgetAnswer(o, ControlStatsForTenant(g), jobs,
               IF asking[o].state = "metrics" THEN GovernanceMetrics(g) ELSE reported)

QueuedAt(g) == {j \in DOMAIN jobs : jobs[j].at = g /\ jobs[j].state = "queued"}

\* The oldest queued job of the connector is leased to the worker, or there is none.
ClaimNextJob(o) ==
  LET ready == QueuedAt(asking[o].at)
      first == CHOOSE j \in ready : \A k \in ready : j <= k
  IN /\ asking[o].state = "claim"
     /\ BudgetAnswer(o, ledger,
               IF ready = {} THEN jobs
               ELSE [jobs EXCEPT ![first].state = "leased", ![first].lease = @ + 1], reported)

(* A result counts as an attempt; it is rejected when the artifact's metadata is wrong or the     *)
(* lease is not held in this connector's store, a duplicate when its key was ingested before.     *)
IngestResultAfterAuth(o, status, wrong) ==
  LET g == asking[o].at
      j == asking[o].job
      tried == [ledger[g] EXCEPT !.attempts = @ + 1]
      held == jobs[j].at = g /\ jobs[j].state = "leased" /\ jobs[j].lease = asking[o].lease
      duplicate == jobs[j].at = g /\ jobs[j].state = "completed"
      counted == IF wrong = "tenant" THEN Rejected(tried, <<"submit", "tenant">>)
                 ELSE IF duplicate THEN tried
                 ELSE IF ~held THEN Rejected(tried, <<"submit", "lease">>)
                 ELSE IF wrong = "artifact" THEN Rejected(tried, <<"submit", "artifact">>)
                 ELSE tried
  IN /\ asking[o].state = "submit"
     /\ Refused(g) < MaxRefused
     /\ BudgetAnswer(o, [ledger EXCEPT ![g] = counted],
               IF held /\ wrong = "none"
               THEN [jobs EXCEPT ![j].state = "completed", ![j].result = status]
               ELSE jobs, reported)

\* Only a job no worker has claimed is cancelled.
RequestCancellation(o) ==
  LET j == asking[o].job
  IN /\ asking[o].state = "cancel"
     /\ BudgetAnswer(o, ledger, IF j \in QueuedAt(asking[o].at)
                          THEN [jobs EXCEPT ![j].state = "cancelled"] ELSE jobs, reported)

DeadLettersAt(g) == {j \in DOMAIN jobs : jobs[j].at = g /\ jobs[j].state = "dead"}

\* A dead-lettered job is queued again with its claims forgotten; any other is a failed replay.
ReplayDeadLetterJobs(o) ==
  LET g == asking[o].at
      dead == DeadLettersAt(g)
      chosen == IF asking[o].state = "replay_all" THEN dead ELSE {asking[o].job}
  IN /\ asking[o].state \in {"replay", "replay_all"}
     /\ BudgetAnswer(o, [ledger EXCEPT ![g].replays =
                     [ok |-> @.ok + Cardinality(chosen \cap dead),
                      failed |-> @.failed + Cardinality(chosen \ dead)]],
               [j \in DOMAIN jobs |-> IF j \in chosen \cap dead
                                      THEN [jobs[j] EXCEPT !.state = "queued", !.lease = 0]
                                      ELSE jobs[j]], reported)

-----------------------------------------------------------------------------
\* Another tenant's request takes the context's place in the cache; the next has a new connector.
EvictConnector ==
  /\ connectors < MaxConnectors /\ asked < MaxOperatorRequests
  /\ asked' = asked + 1
  /\ connectors' = connectors + 1
  /\ UNCHANGED <<budget, ledger, jobs, executing, asking, reported, clock>>

\* Only the windows read the clock.
PassSecond ==
  /\ budget.windowed /\ clock < MaxBudgetTime
  /\ clock' = clock + 1
  /\ UNCHANGED <<budget, connectors, ledger, jobs, executing, asking, asked, reported>>

BudgetNext ==
  \/ \E t \in BudgetThreads :
       \/ \E call \in CallKinds : CheckBudget(t, call)
       \/ SlotTimeout(t) \/ QueueJob(t) \/ MapResult(t) \/ TimeoutResult(t)
  \/ \E j \in DOMAIN jobs : RequeueExpiredLease(j)
  \/ \E o \in BudgetOperators :
       \/ \E r \in PlainRoutes : EnforceFeatureEntitlement(o, r, 0, 0)
       \/ \E r \in JobRoutes, j \in DOMAIN jobs :
            EnforceFeatureEntitlement(o, r, j, jobs[j].lease)
       \/ NotEntitled(o) \/ ReadFigures(o) \/ ClaimNextJob(o)
       \/ \E status \in DOMAIN Costs, wrong \in {"none", "tenant", "artifact"} :
            IngestResultAfterAuth(o, status, wrong)
       \/ RequestCancellation(o) \/ ReplayDeadLetterJobs(o)
  \/ EvictConnector \/ PassSecond

BudgetSpec == BudgetInit /\ [][BudgetNext]_budgetVars

-----------------------------------------------------------------------------
DearestCost == CHOOSE c \in {Costs[s] : s \in DOMAIN Costs} : \A s \in DOMAIN Costs : Costs[s] <= c

(* Calls are checked before they run and charged after they return (connector_runtime.py:190,     *)
(* :251, :1101), by threads that do not see one another's calls: a partition may be overspent,    *)
(* but by no more than the calls that can be under way together cost. Nothing else, no window     *)
(* turning over, no report read and no worker's submission, moves a budget past that.             *)
OverspendBounded ==
  budget.enforce =>
    \A g \in 1..connectors, k \in Partitions :
      LET spent == IF budget.windowed THEN ledger[g].parts[k].window.cost
                   ELSE ledger[g].parts[k].total
      IN PartitionLimit(k) > 0 =>
           spent <= PartitionLimit(k) - 1 + Cardinality(BudgetThreads) * DearestCost

(* A report's rejection rate is a share of the submissions. It is computed from two counters that *)
(* are not about the same events: refused calls count as rejections and not as submissions.       *)
RejectionRateBounded == reported.state = "reported" => reported.rate <= 100
=============================================================================
