---------------------------- MODULE FairAdmission ----------------------------
(***************************************************************************)
(* ByocFairAdmissionCoordinator and the way execute uses it.  A call       *)
(* acquires admission (or gives up when its wait times out), runs, and     *)
(* releases it.  acquire and release hold the coordinator's lock; their    *)
(* loop over _try_grant_unlocked takes one step per grant, during which    *)
(* nobody else can have the lock.                                          *)
(*                                                                         *)
(* Requests are numbered as _next_request_id does.  The pending list is in *)
(* the order of these numbers (a request is appended under the lock that   *)
(* numbers it), so it is modelled as a set.                                *)
(***************************************************************************)
EXTENDS Naturals, FiniteSets

CONSTANTS
  AdmissionTenants,
  Limits,            \* the values of max_inflight_global, each at least 1
  MaxRequests,       \* bound: calls of acquire
  CleanupModes       \* whether the stores' cleanup can raise (the SQLite ones can)

ASSUME AdmissionAssumption ==
  Limits \in SUBSET (Nat \ {0}) /\ MaxRequests \in Nat /\ CleanupModes \in SUBSET BOOLEAN

RequestIds == 1..MaxRequests

VARIABLES
  max_inflight,         \* _max_inflight_global
  cleanup_may_fail,     \* which stores the connector has
  next_request_id,      \* _next_request_id
  tenant,               \* the tenant of each request
  phase,                \* where the call that made the request stands
  pending,              \* _pending
  granted,              \* the requests whose granted flag is set
  inflight_total,       \* _inflight_total
  inflight_by_tenant,   \* _inflight_by_tenant; 0 when the key is missing
  grants_total,         \* _grants_total
  holder,               \* the request whose thread holds the lock; 0 when it is free
  overtaken_by          \* history: per pending request, the tenants granted since it came

setup == <<max_inflight, cleanup_may_fail>>
counters == <<inflight_total, inflight_by_tenant, grants_total>>
fairVars == <<setup, next_request_id, tenant, phase, pending, granted, counters, holder, overtaken_by>>

Phases == {"new", "acquiring", "waiting", "cleanup", "running", "releasing",
           "done", "timed_out", "raised"}

FairInit ==
  /\ max_inflight \in Limits
  /\ cleanup_may_fail \in CleanupModes
  /\ next_request_id = 0
  /\ tenant \in [RequestIds -> AdmissionTenants]
  /\ phase = [r \in RequestIds |-> "new"]
  /\ pending = {}
  /\ granted = {}
  /\ inflight_total = 0
  /\ inflight_by_tenant = [t \in AdmissionTenants |-> 0]
  /\ grants_total = [t \in AdmissionTenants |-> 0]
  /\ holder = 0
  /\ overtaken_by = [r \in RequestIds |-> {}]

Move(r, to) == phase' = [phase EXCEPT ![r] = to]

-----------------------------------------------------------------------------
(* _try_grant_unlocked.                                                    *)

\* Mutation: first come, first served.
PreferredFifo(r, s) == r <= s

\* _pick_next_tenant sorts the tenants by (grants, first pending request); the request
\* taken is the first of its tenant.  In terms of requests: fewest grants, then oldest.
Preferred(r, s) ==
  \/ grants_total[tenant[r]] < grants_total[tenant[s]]
  \/ grants_total[tenant[r]] = grants_total[tenant[s]] /\ r <= s

\* Mutation: one slot is never used.
CanGrantBelow == inflight_total + 1 < max_inflight /\ pending # {}

CanGrant == inflight_total < max_inflight /\ pending # {}

\* One turn of the loop.
Grant ==
  /\ holder # 0
  /\ CanGrant
  /\ \E r \in pending :
       /\ \A s \in pending : Preferred(r, s)
       /\ pending' = pending \ {r}
       /\ granted' = granted \cup {r}
       /\ inflight_total' = inflight_total + 1
       /\ inflight_by_tenant' =
            [inflight_by_tenant EXCEPT ![tenant[r]] = inflight_by_tenant[tenant[r]] + 1]
       /\ grants_total' = [grants_total EXCEPT ![tenant[r]] = grants_total[tenant[r]] + 1]
       /\ overtaken_by' = [s \in RequestIds |->
                             IF s \in pending \ {r} THEN overtaken_by[s] \cup {tenant[r]}
                             ELSE overtaken_by[s]]
  /\ UNCHANGED <<setup, next_request_id, tenant, phase, holder>>

-----------------------------------------------------------------------------
(* acquire.                                                                *)

Acquire ==
  /\ holder = 0
  /\ next_request_id < MaxRequests
  /\ next_request_id' = next_request_id + 1
  /\ pending' = pending \cup {next_request_id + 1}
  /\ holder' = next_request_id + 1
  /\ Move(next_request_id + 1, "acquiring")
  /\ UNCHANGED <<setup, tenant, granted, counters, overtaken_by>>

\* Condition.wait returns, notified or not, and has the lock again.
Wake(r) ==
  /\ holder = 0
  /\ phase[r] = "waiting"
  /\ Move(r, "acquiring")
  /\ holder' = r
  /\ UNCHANGED <<setup, next_request_id, tenant, pending, granted, counters, overtaken_by>>

\* The loop over _try_grant_unlocked has ended.
LoopDone(r) == holder = r /\ phase[r] = "acquiring" /\ ~CanGrant

Admitted(r) ==
  /\ LoopDone(r)
  /\ r \in granted
  /\ Move(r, "cleanup")
  /\ holder' = 0
  /\ UNCHANGED <<setup, next_request_id, tenant, pending, granted, counters, overtaken_by>>

WaitAgain(r) ==
  /\ LoopDone(r)
  /\ r \notin granted
  /\ Move(r, "waiting")
  /\ holder' = 0
  /\ UNCHANGED <<setup, next_request_id, tenant, pending, granted, counters, overtaken_by>>

\* Mutation: the deadline is looked at before the granted flag.
GiveUpEarly(r) ==
  /\ LoopDone(r)
  /\ pending' = pending \ {r}
  /\ Move(r, "timed_out")
  /\ holder' = 0
  /\ UNCHANGED <<setup, next_request_id, tenant, granted, counters, overtaken_by>>

\* The deadline has passed: the request is taken off the list and None returned.
GiveUp(r) ==
  /\ LoopDone(r)
  /\ r \notin granted
  /\ pending' = pending \ {r}
  /\ Move(r, "timed_out")
  /\ holder' = 0
  /\ UNCHANGED <<setup, next_request_id, tenant, granted, counters, overtaken_by>>

-----------------------------------------------------------------------------
(* execute, between acquire and release.                                   *)

\* The periodic cleanup runs before the try statement whose finally releases.
CleanupOk(r) ==
  /\ phase[r] = "cleanup"
  /\ Move(r, "running")
  /\ UNCHANGED <<setup, next_request_id, tenant, pending, granted, counters, holder, overtaken_by>>

CleanupRaises(r) ==
  /\ cleanup_may_fail
  /\ phase[r] = "cleanup"
  /\ Move(r, "raised")
  /\ UNCHANGED <<setup, next_request_id, tenant, pending, granted, counters, holder, overtaken_by>>

ReleasedTenant(t) ==
  [inflight_by_tenant EXCEPT ![t] =
     IF inflight_by_tenant[t] <= 1 THEN 0 ELSE inflight_by_tenant[t] - 1]

\* release, up to its loop ...
Release(r) ==
  /\ holder = 0
  /\ phase[r] = "running"
  /\ Move(r, "releasing")
  /\ holder' = r
  /\ inflight_total' = IF inflight_total > 0 THEN inflight_total - 1 ELSE 0
  /\ inflight_by_tenant' = ReleasedTenant(tenant[r])
  /\ UNCHANGED <<setup, next_request_id, tenant, pending, granted, grants_total, overtaken_by>>

\* Mutation: release does not grant.
ReleasedAtOnce(r) ==
  /\ phase[r] = "releasing"
  /\ Move(r, "done")
  /\ holder' = 0
  /\ UNCHANGED <<setup, next_request_id, tenant, pending, granted, counters, overtaken_by>>

\* Mutation: the loop of release ends only when nobody is pending.
ReleasedWhenNonePending(r) ==
  /\ phase[r] = "releasing"
  /\ pending = {}
  /\ Move(r, "done")
  /\ holder' = 0
  /\ UNCHANGED <<setup, next_request_id, tenant, pending, granted, counters, overtaken_by>>

\* ... and after it.
Released(r) ==
  /\ phase[r] = "releasing"
  /\ ~CanGrant
  /\ Move(r, "done")
  /\ holder' = 0
  /\ UNCHANGED <<setup, next_request_id, tenant, pending, granted, counters, overtaken_by>>

-----------------------------------------------------------------------------
FairStep(r) ==
  \/ Wake(r) \/ Admitted(r) \/ WaitAgain(r) \/ GiveUp(r)
  \/ CleanupOk(r) \/ CleanupRaises(r) \/ Release(r) \/ Released(r)

FairNext == Acquire \/ Grant \/ \E r \in RequestIds : FairStep(r)

FairSpec == FairInit /\ [][FairNext]_fairVars

\* A thread that holds the lock keeps running, a wait returns, tools return, and a
\* request that is woken again and again sees its deadline pass at last.
FairFairness ==
  /\ WF_fairVars(Grant)
  /\ \A r \in RequestIds :
       /\ WF_fairVars(Admitted(r)) /\ WF_fairVars(WaitAgain(r)) /\ SF_fairVars(GiveUp(r))
       /\ WF_fairVars(CleanupOk(r)) /\ WF_fairVars(Released(r))
       /\ SF_fairVars(Wake(r)) /\ SF_fairVars(Release(r))

FairLiveSpec == FairSpec /\ FairFairness

-----------------------------------------------------------------------------
(* Properties.                                                             *)

\* Type invariant of the coordinator.
FairTypeOK ==
  /\ max_inflight \in Limits
  /\ cleanup_may_fail \in CleanupModes
  /\ next_request_id \in 0..MaxRequests
  /\ tenant \in [RequestIds -> AdmissionTenants]
  /\ phase \in [RequestIds -> Phases]
  /\ pending \in SUBSET RequestIds
  /\ granted \in SUBSET RequestIds
  /\ inflight_total \in Nat
  /\ inflight_by_tenant \in [AdmissionTenants -> Nat]
  /\ grants_total \in [AdmissionTenants -> Nat]
  /\ holder \in RequestIds \cup {0}
  /\ overtaken_by \in [RequestIds -> SUBSET AdmissionTenants]

\* The requests that occupy a slot: granted, and the call not yet at its release.
Occupying == {r \in granted : phase[r] \notin {"releasing", "done"}}

\* The counters say how many calls are admitted, in all and per tenant, and never more
\* than the limit.  A call that was granted while its wait timed out is counted and
\* admitted, or neither: no slot is lost to the race of a grant with a timeout.
InflightExact ==
  /\ inflight_total = Cardinality(Occupying)
  /\ inflight_total <= max_inflight
  /\ \A t \in AdmissionTenants :
       inflight_by_tenant[t] = Cardinality({r \in Occupying : tenant[r] = t})
  /\ \A r \in Occupying : phase[r] # "timed_out"

\* No slot stays free while somebody waits: whenever the lock is free and a request is
\* pending, all slots are taken.  So no wake-up is lost.
NoIdleSlot == holder = 0 /\ pending # {} => inflight_total = max_inflight

\* While a request waits, another tenant is served before it only up to one grant more
\* than the request's own tenant has had.
NoOvertaking ==
  \A r \in pending : \A t \in overtaken_by[r] :
    grants_total[t] <= grants_total[tenant[r]] + 1

\* The calls that are being executed.
Executing == {r \in granted : phase[r] \in {"acquiring", "waiting", "cleanup", "running"}}

GivesUp(r) == phase[r] # "timed_out" /\ phase'[r] = "timed_out"

\* Where cleanups do not fail, a call gives up only because as many other calls as the
\* limit allows are being executed at that moment.
TimeoutOnlyUnderLoad ==
  [][\A r \in RequestIds : GivesUp(r) /\ ~cleanup_may_fail =>
       Cardinality(Executing) = max_inflight]_fairVars

\* Every call of acquire returns, admitted or not, and every admitted call gives its slot
\* back unless its cleanup failed.
AcquireReturns ==
  \A r \in RequestIds :
    /\ phase[r] = "acquiring" ~> phase[r] \in {"done", "timed_out", "raised"}
    /\ phase[r] = "cleanup" ~> phase[r] \in {"done", "raised"}

\* "no tenant starvation under fair-admission contention": a call gives up only because
\* other calls are being executed.  A cleanup that raises keeps the slot of its call for
\* good.
NoStarvation ==
  [][\A r \in RequestIds : GivesUp(r) => Executing # {}]_fairVars
=============================================================================
