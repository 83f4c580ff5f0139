------------------------- MODULE FairAdmissionProofs -------------------------
(***************************************************************************)
(* Proofs about FairAdmission, for any number of requests and tenants and  *)
(* any limits.                                                             *)
(***************************************************************************)
EXTENDS FairAdmission, FiniteSetTheorems, TLAPS

\* A request that has not been made yet has left no trace.
Untouched ==
  \A r \in RequestIds : r > next_request_id =>
    phase[r] = "new" /\ r \notin pending /\ r \notin granted /\ overtaken_by[r] = {}

\* Where a request is and what the coordinator knows of it agree: it is on the list or has
\* been granted, never both, and after it gave up it is neither.
PhasesAgree ==
  /\ \A r \in pending : r \notin granted /\ phase[r] \in {"acquiring", "waiting"}
  /\ \A r \in granted : phase[r] \notin {"new", "timed_out"}
  /\ \A r \in RequestIds : phase[r] \in {"cleanup", "running", "releasing", "done", "raised"} =>
                             r \in granted
  /\ \A r \in RequestIds : phase[r] \in {"acquiring", "waiting"} => r \in pending \cup granted
  /\ \A r \in RequestIds : phase[r] = "raised" => cleanup_may_fail

\* The lock is held by the one thread that is inside acquire or release.
LockHeld ==
  \A r \in RequestIds : phase[r] \in {"acquiring", "releasing"} <=> holder = r

OccupyingOf(t) == {r \in Occupying : tenant[r] = t}

FairIInv ==
  FairTypeOK /\ Untouched /\ PhasesAgree /\ LockHeld /\ InflightExact /\ NoIdleSlot
    /\ NoOvertaking

-----------------------------------------------------------------------------
(* Counting the calls that occupy a slot.                                  *)

\* The sets that are counted are finite.
LEMMA OccupyingFinite ==
  ASSUME FairTypeOK
  PROVE  /\ IsFiniteSet(Occupying)
         /\ \A t : IsFiniteSet(OccupyingOf(t))
<1>1. IsFiniteSet(RequestIds)
  BY FS_Interval, AdmissionAssumption DEF RequestIds
<1>2. Occupying \subseteq RequestIds
  BY DEF FairTypeOK, Occupying
<1>3. \A t : OccupyingOf(t) \subseteq RequestIds
  BY <1>2 DEF OccupyingOf
<1> QED
  BY <1>1, <1>2, <1>3, FS_Subset

\* A step that moves no call into or out of the occupied slots keeps the counts.
LEMMA SameOccupying ==
  ASSUME FairTypeOK, InflightExact, Occupying' = Occupying, UNCHANGED tenant,
         UNCHANGED <<inflight_total, inflight_by_tenant, max_inflight>>,
         \A r \in Occupying : phase'[r] # "timed_out"
  PROVE  InflightExact'
<1>1. \A t : OccupyingOf(t)' = OccupyingOf(t)
  BY DEF OccupyingOf
<1>2. \A t \in AdmissionTenants : inflight_by_tenant[t] = Cardinality(OccupyingOf(t))
  BY DEF InflightExact, OccupyingOf
<1>3. \A t \in AdmissionTenants : inflight_by_tenant'[t] = Cardinality(OccupyingOf(t)')
  BY <1>1, <1>2
<1> QED
  BY <1>3 DEF InflightExact, OccupyingOf

-----------------------------------------------------------------------------
\* The initial states satisfy the inductive invariant.
LEMMA FairInitially == FairInit => FairIInv
<1> SUFFICES ASSUME FairInit PROVE FairIInv
  OBVIOUS
<1> USE AdmissionAssumption
<1>1. FairTypeOK
  BY DEF FairInit, FairTypeOK, RequestIds, Phases
<1>2. Untouched /\ PhasesAgree /\ NoIdleSlot /\ NoOvertaking
  BY DEF FairInit, Untouched, PhasesAgree, NoIdleSlot, NoOvertaking
<1>3. LockHeld
  BY DEF FairInit, LockHeld, RequestIds
<1>4. InflightExact
  <2>1. Occupying = {}
    BY DEF FairInit, Occupying
  <2>2. \A t : {r \in Occupying : tenant[r] = t} = {}
    BY <2>1
  <2>3. Cardinality({}) = 0
    BY FS_EmptySet
  <2>4. max_inflight \in Nat /\ inflight_total = 0
    BY DEF FairInit
  <2>5. inflight_total <= max_inflight
    BY <2>4
  <2>6. \A t \in AdmissionTenants : inflight_by_tenant[t] = 0
    BY DEF FairInit
  <2>7. inflight_total = Cardinality(Occupying)
    BY <2>1, <2>3, <2>4
  <2>8. \A t \in AdmissionTenants :
          inflight_by_tenant[t] = Cardinality({r \in Occupying : tenant[r] = t})
    BY <2>2, <2>3, <2>6
  <2> QED
    BY <2>1, <2>5, <2>7, <2>8 DEF InflightExact
<1> QED
  BY <1>1, <1>2, <1>3, <1>4 DEF FairIInv

\* Acquire keeps the inductive invariant.
LEMMA AcquireKeeps == FairIInv /\ Acquire => FairIInv'
<1> SUFFICES ASSUME FairIInv, Acquire PROVE FairIInv'
  OBVIOUS
<1> USE AdmissionAssumption DEF FairIInv
<1> DEFINE n == next_request_id + 1
<1>1. n \in RequestIds /\ n # 0 /\ phase[n] = "new" /\ n \notin granted /\ n \notin pending
        /\ overtaken_by[n] = {}
  BY DEF Acquire, FairTypeOK, Untouched, RequestIds
<1>2. phase' = [phase EXCEPT ![n] = "acquiring"] /\ holder' = n /\ holder = 0
        /\ next_request_id' = n /\ pending' = pending \cup {n}
  BY DEF Acquire, Move
<1>3. UNCHANGED <<setup, tenant, granted, counters, overtaken_by>>
  BY DEF Acquire
<1> HIDE DEF n
<1>4. FairTypeOK'
  <2>1. next_request_id' \in 0..MaxRequests
    BY <1>1, <1>2 DEF RequestIds
  <2> QED
    BY <1>1, <1>2, <1>3, <2>1 DEF FairTypeOK, setup, counters, Phases
<1>5. Untouched'
  <2>1. \A r \in RequestIds : r > n => r > next_request_id /\ r # n
    BY DEF n, FairTypeOK, RequestIds
  <2> QED
    BY <1>2, <1>3, <2>1 DEF Untouched, FairTypeOK
<1>6. PhasesAgree'
  BY <1>1, <1>2, <1>3 DEF PhasesAgree, FairTypeOK, setup
<1>7. LockHeld'
  <2>1. \A r \in RequestIds : phase[r] \notin {"acquiring", "releasing"}
    BY <1>2 DEF LockHeld, RequestIds
  <2> QED
    BY <1>1, <1>2, <2>1 DEF LockHeld, FairTypeOK
<1>8. InflightExact'
  <2>1. Occupying' = Occupying
    BY <1>1, <1>2, <1>3 DEF Occupying, FairTypeOK
  <2>2. \A r \in Occupying : phase'[r] # "timed_out"
    BY <1>1, <1>2 DEF Occupying, FairTypeOK, InflightExact
  <2> QED
    BY <1>3, <2>1, <2>2, SameOccupying DEF setup, counters
<1>9. NoIdleSlot'
  BY <1>1, <1>2 DEF NoIdleSlot
<1>10. NoOvertaking'
  BY <1>1, <1>2, <1>3 DEF NoOvertaking, counters
<1> QED
  BY <1>4, <1>5, <1>6, <1>7, <1>8, <1>9, <1>10

\* A step that moves one call between two phases that both occupy its slot, or both do
\* not, keeps the counts.
LEMMA MoveKeepsCounts ==
  ASSUME FairTypeOK, InflightExact, NEW r \in RequestIds, NEW to \in Phases, Move(r, to),
         UNCHANGED <<setup, tenant, granted, counters>>,
         r \in granted => to # "timed_out" /\ (r \in Occupying <=> to \notin {"releasing", "done"})
  PROVE  InflightExact'
<1>1. \A s \in RequestIds : phase'[s] = IF s = r THEN to ELSE phase[s]
  BY DEF Move, FairTypeOK
<1>2. granted \subseteq RequestIds
  BY DEF FairTypeOK
<1>3. Occupying' = Occupying
  BY <1>1, <1>2 DEF Occupying
<1>4. \A s \in Occupying : phase'[s] # "timed_out"
  BY <1>1, <1>2 DEF Occupying, InflightExact
<1> QED
  BY <1>3, <1>4, SameOccupying DEF setup, counters

\* A grant keeps the inductive invariant.
LEMMA GrantKeeps == FairIInv /\ Grant => FairIInv'
<1> SUFFICES ASSUME FairIInv, Grant PROVE FairIInv'
  OBVIOUS
<1> USE AdmissionAssumption DEF FairIInv
<1>1. PICK x \in pending :
        /\ \A s \in pending : Preferred(x, s)
        /\ pending' = pending \ {x}
        /\ granted' = granted \cup {x}
        /\ inflight_total' = inflight_total + 1
        /\ inflight_by_tenant' =
             [inflight_by_tenant EXCEPT ![tenant[x]] = inflight_by_tenant[tenant[x]] + 1]
        /\ grants_total' = [grants_total EXCEPT ![tenant[x]] = grants_total[tenant[x]] + 1]
        /\ overtaken_by' = [s \in RequestIds |->
                              IF s \in pending \ {x} THEN overtaken_by[s] \cup {tenant[x]}
                              ELSE overtaken_by[s]]
  BY DEF Grant
<1>2. UNCHANGED <<setup, next_request_id, tenant, phase, holder>> /\ holder # 0
        /\ inflight_total < max_inflight
  BY DEF Grant, CanGrant
<1>3. x \in RequestIds /\ tenant[x] \in AdmissionTenants /\ x \notin granted
        /\ phase[x] \in {"acquiring", "waiting"}
  BY DEF FairTypeOK, PhasesAgree
<1>4. FairTypeOK'
  <2>1. inflight_total' \in Nat
    BY <1>1 DEF FairTypeOK
  <2>2. inflight_by_tenant' \in [AdmissionTenants -> Nat]
    BY <1>1, <1>3 DEF FairTypeOK
  <2>3. grants_total' \in [AdmissionTenants -> Nat]
    BY <1>1, <1>3 DEF FairTypeOK
  <2>4. overtaken_by' \in [RequestIds -> SUBSET AdmissionTenants]
    BY <1>1, <1>3 DEF FairTypeOK
  <2>5. pending' \in SUBSET RequestIds /\ granted' \in SUBSET RequestIds
    BY <1>1, <1>3 DEF FairTypeOK
  <2> QED
    BY <1>2, <2>1, <2>2, <2>3, <2>4, <2>5 DEF FairTypeOK, setup
<1>5. Untouched'
  BY <1>1, <1>2, <1>3 DEF Untouched
<1>6. PhasesAgree'
  BY <1>1, <1>2, <1>3 DEF PhasesAgree, setup
<1>7. LockHeld'
  BY <1>2 DEF LockHeld
<1>8. InflightExact'
  <2>1. Occupying' = Occupying \cup {x} /\ x \notin Occupying
    BY <1>1, <1>2, <1>3 DEF Occupying
  <2>2. \A t : OccupyingOf(t)' = IF t = tenant[x] THEN OccupyingOf(t) \cup {x}
                                 ELSE OccupyingOf(t)
    BY <1>2, <2>1 DEF OccupyingOf
  <2>3. \A t : x \notin OccupyingOf(t)
    BY <2>1 DEF OccupyingOf
  <2>4. IsFiniteSet(Occupying) /\ \A t : IsFiniteSet(OccupyingOf(t))
    BY OccupyingFinite
  <2>5. Cardinality(Occupying \cup {x}) = Cardinality(Occupying) + 1
    BY <2>1, <2>4, FS_AddElement
  <2>6. inflight_total' = Cardinality(Occupying')
    BY <1>1, <2>1, <2>5 DEF InflightExact
  <2>7. inflight_total' <= max_inflight'
    BY <1>1, <1>2 DEF FairTypeOK, setup
  <2>8. \A t : Cardinality(OccupyingOf(t) \cup {x}) = Cardinality(OccupyingOf(t)) + 1
    BY <2>3, <2>4, FS_AddElement
  <2>9. \A t \in AdmissionTenants : inflight_by_tenant[t] = Cardinality(OccupyingOf(t))
    BY DEF InflightExact, OccupyingOf
  <2>10. \A t \in AdmissionTenants : inflight_by_tenant'[t] = Cardinality(OccupyingOf(t)')
    <3> SUFFICES ASSUME NEW t \in AdmissionTenants
                 PROVE  inflight_by_tenant'[t] = Cardinality(OccupyingOf(t)')
      OBVIOUS
    <3>1. CASE t = tenant[x]
      <4>1. inflight_by_tenant'[t] = inflight_by_tenant[t] + 1
        BY <1>1, <1>3, <3>1 DEF FairTypeOK
      <4>2. OccupyingOf(t)' = OccupyingOf(t) \cup {x}
        BY <2>2, <3>1
      <4> QED
        BY <4>1, <4>2, <2>8, <2>9
    <3>2. CASE t # tenant[x]
      <4>1. inflight_by_tenant'[t] = inflight_by_tenant[t]
        BY <1>1, <1>3, <3>2 DEF FairTypeOK
      <4>2. OccupyingOf(t)' = OccupyingOf(t)
        BY <2>2, <3>2
      <4> QED
        BY <4>1, <4>2, <2>9
    <3> QED
      BY <3>1, <3>2
  <2>11. \A r \in Occupying' : phase'[r] # "timed_out"
    BY <1>2, <1>3, <2>1 DEF InflightExact
  <2> QED
    BY <2>6, <2>7, <2>10, <2>11 DEF InflightExact, OccupyingOf
<1>9. NoIdleSlot'
  BY <1>2 DEF NoIdleSlot
<1>10. NoOvertaking'
  <2> SUFFICES ASSUME NEW r \in pending', NEW t \in overtaken_by'[r]
               PROVE  grants_total'[t] <= grants_total'[tenant[r]] + 1
    BY <1>2 DEF NoOvertaking
  <2>1. r \in pending /\ r \in RequestIds /\ r # x /\ t \in overtaken_by[r] \cup {tenant[x]}
    BY <1>1 DEF FairTypeOK
  <2>2. tenant[r] \in AdmissionTenants /\ t \in AdmissionTenants
    BY <1>3, <2>1 DEF FairTypeOK
  <2>3. grants_total[tenant[x]] <= grants_total[tenant[r]]
    BY <1>1, <1>3, <2>1, <2>2 DEF Preferred, FairTypeOK
  <2>4. t = tenant[x] \/ grants_total[t] <= grants_total[tenant[r]] + 1
    BY <2>1 DEF NoOvertaking
  <2>5. grants_total'[tenant[r]] >= grants_total[tenant[r]]
    BY <1>1, <1>3, <2>2 DEF FairTypeOK
  <2>6. CASE t = tenant[x]
    <3>1. grants_total'[t] = grants_total[t] + 1
      BY <1>1, <1>3, <2>6 DEF FairTypeOK
    <3>2. grants_total'[tenant[r]] \in Nat /\ grants_total[t] \in Nat
            /\ grants_total[tenant[r]] \in Nat
      BY <1>4, <2>2, <1>3 DEF FairTypeOK
    <3> QED
      BY <2>3, <2>5, <2>6, <3>1, <3>2
  <2>7. CASE t # tenant[x]
    <3>1. grants_total'[t] = grants_total[t]
      BY <1>1, <1>3, <2>2, <2>7 DEF FairTypeOK
    <3>2. grants_total'[tenant[r]] \in Nat /\ grants_total[t] \in Nat
            /\ grants_total[tenant[r]] \in Nat
      BY <1>4, <2>2, <1>3 DEF FairTypeOK
    <3> QED
      BY <2>4, <2>5, <2>7, <3>1, <3>2
  <2> QED
    BY <2>6, <2>7
<1> QED
  BY <1>4, <1>5, <1>6, <1>7, <1>8, <1>9, <1>10

\* A wait that returns keeps the inductive invariant.
LEMMA WakeKeeps ==
  ASSUME FairIInv, NEW r \in RequestIds, Wake(r)
  PROVE  FairIInv'
<1> USE AdmissionAssumption DEF FairIInv
<1>1. phase[r] = "waiting" /\ holder = 0
  BY DEF Wake
<1>2. /\ Move(r, "acquiring") /\ pending' = pending /\ holder' = r
      /\ UNCHANGED <<setup, next_request_id, tenant, granted, counters, overtaken_by>>
  BY DEF Wake
<1>3. \A s \in RequestIds : phase'[s] = IF s = r THEN "acquiring" ELSE phase[s]
  BY <1>2 DEF Move, FairTypeOK
<1>4. FairTypeOK'
  BY <1>2 DEF FairTypeOK, Move, Phases, setup, counters
<1>5. Untouched'
  BY <1>1, <1>2, <1>3 DEF Untouched
<1>6. PhasesAgree' /\ LockHeld'
  <2>1. PhasesAgree'
    BY <1>1, <1>2, <1>3 DEF PhasesAgree, FairTypeOK, setup
  <2>2. LockHeld'
    BY <1>1, <1>2, <1>3 DEF LockHeld, RequestIds
  <2> QED
    BY <2>1, <2>2
<1>7. InflightExact'
  <2>1. r \in granted => "acquiring" # "timed_out"
                         /\ (r \in Occupying <=> "acquiring" \notin {"releasing", "done"})
    BY <1>1 DEF Occupying
  <2> QED
    BY <1>2, <2>1, MoveKeepsCounts DEF Phases
<1>8. NoIdleSlot'
  BY <1>2 DEF NoIdleSlot, setup, counters, RequestIds
<1>9. NoOvertaking'
  BY <1>2 DEF NoOvertaking, counters
<1> QED
  BY <1>4, <1>5, <1>6, <1>7, <1>8, <1>9

\* A call that is admitted keeps the inductive invariant.
LEMMA AdmittedKeeps ==
  ASSUME FairIInv, NEW r \in RequestIds, Admitted(r)
  PROVE  FairIInv'
<1> USE AdmissionAssumption DEF FairIInv
<1>1. phase[r] = "acquiring" /\ holder = r /\ ~CanGrant /\ r \in granted
  BY DEF Admitted, LoopDone
<1>2. /\ Move(r, "cleanup") /\ pending' = pending /\ holder' = 0
      /\ UNCHANGED <<setup, next_request_id, tenant, granted, counters, overtaken_by>>
  BY DEF Admitted, LoopDone
<1>3. \A s \in RequestIds : phase'[s] = IF s = r THEN "cleanup" ELSE phase[s]
  BY <1>2 DEF Move, FairTypeOK
<1>4. FairTypeOK'
  BY <1>2 DEF FairTypeOK, Move, Phases, setup, counters
<1>5. Untouched'
  BY <1>1, <1>2, <1>3 DEF Untouched
<1>6. PhasesAgree' /\ LockHeld'
  <2>1. PhasesAgree'
    BY <1>1, <1>2, <1>3 DEF PhasesAgree, FairTypeOK, setup
  <2>2. LockHeld'
    BY <1>1, <1>2, <1>3 DEF LockHeld, RequestIds
  <2> QED
    BY <2>1, <2>2
<1>7. InflightExact'
  <2>1. r \in granted => "cleanup" # "timed_out"
                         /\ (r \in Occupying <=> "cleanup" \notin {"releasing", "done"})
    BY <1>1 DEF Occupying
  <2> QED
    BY <1>2, <2>1, MoveKeepsCounts DEF Phases
<1>8. NoIdleSlot'
  <2>1. pending' # {} => pending # {}
    BY <1>2
  <2>2. max_inflight \in Nat /\ inflight_total \in Nat
    BY DEF FairTypeOK
  <2> QED
    BY <1>1, <1>2, <2>1, <2>2 DEF NoIdleSlot, CanGrant, InflightExact, setup, counters
<1>9. NoOvertaking'
  BY <1>2 DEF NoOvertaking, counters
<1> QED
  BY <1>4, <1>5, <1>6, <1>7, <1>8, <1>9

\* A call that waits again keeps the inductive invariant.
LEMMA WaitAgainKeeps ==
  ASSUME FairIInv, NEW r \in RequestIds, WaitAgain(r)
  PROVE  FairIInv'
<1> USE AdmissionAssumption DEF FairIInv
<1>1. phase[r] = "acquiring" /\ holder = r /\ ~CanGrant /\ r \notin granted
  BY DEF WaitAgain, LoopDone
<1>2. /\ Move(r, "waiting") /\ pending' = pending /\ holder' = 0
      /\ UNCHANGED <<setup, next_request_id, tenant, granted, counters, overtaken_by>>
  BY DEF WaitAgain, LoopDone
<1>3. \A s \in RequestIds : phase'[s] = IF s = r THEN "waiting" ELSE phase[s]
  BY <1>2 DEF Move, FairTypeOK
<1>4. FairTypeOK'
  BY <1>2 DEF FairTypeOK, Move, Phases, setup, counters
<1>5. Untouched'
  BY <1>1, <1>2, <1>3 DEF Untouched
<1>6. PhasesAgree' /\ LockHeld'
  <2>1. PhasesAgree'
    BY <1>1, <1>2, <1>3 DEF PhasesAgree, FairTypeOK, setup
  <2>2. LockHeld'
    BY <1>1, <1>2, <1>3 DEF LockHeld, RequestIds
  <2> QED
    BY <2>1, <2>2
<1>7. InflightExact'
  <2>1. r \in granted => "waiting" # "timed_out"
                         /\ (r \in Occupying <=> "waiting" \notin {"releasing", "done"})
    BY <1>1 DEF Occupying
  <2> QED
    BY <1>2, <2>1, MoveKeepsCounts DEF Phases
<1>8. NoIdleSlot'
  <2>1. pending' # {} => pending # {}
    BY <1>2
  <2>2. max_inflight \in Nat /\ inflight_total \in Nat
    BY DEF FairTypeOK
  <2> QED
    BY <1>1, <1>2, <2>1, <2>2 DEF NoIdleSlot, CanGrant, InflightExact, setup, counters
<1>9. NoOvertaking'
  BY <1>2 DEF NoOvertaking, counters
<1> QED
  BY <1>4, <1>5, <1>6, <1>7, <1>8, <1>9

\* A call that gives up keeps the inductive invariant.
LEMMA GiveUpKeeps ==
  ASSUME FairIInv, NEW r \in RequestIds, GiveUp(r)
  PROVE  FairIInv'
<1> USE AdmissionAssumption DEF FairIInv
<1>1. phase[r] = "acquiring" /\ holder = r /\ ~CanGrant /\ r \notin granted
  BY DEF GiveUp, LoopDone
<1>2. /\ Move(r, "timed_out") /\ pending' = pending \ {r} /\ holder' = 0
      /\ UNCHANGED <<setup, next_request_id, tenant, granted, counters, overtaken_by>>
  BY DEF GiveUp, LoopDone
<1>3. \A s \in RequestIds : phase'[s] = IF s = r THEN "timed_out" ELSE phase[s]
  BY <1>2 DEF Move, FairTypeOK
<1>4. FairTypeOK'
  BY <1>2 DEF FairTypeOK, Move, Phases, setup, counters
<1>5. Untouched'
  BY <1>1, <1>2, <1>3 DEF Untouched
<1>6. PhasesAgree' /\ LockHeld'
  <2>1. PhasesAgree'
    BY <1>1, <1>2, <1>3 DEF PhasesAgree, FairTypeOK, setup
  <2>2. LockHeld'
    BY <1>1, <1>2, <1>3 DEF LockHeld, RequestIds
  <2> QED
    BY <2>1, <2>2
<1>7. InflightExact'
  <2>1. r \in granted => "timed_out" # "timed_out"
                         /\ (r \in Occupying <=> "timed_out" \notin {"releasing", "done"})
    BY <1>1 DEF Occupying
  <2> QED
    BY <1>2, <2>1, MoveKeepsCounts DEF Phases
<1>8. NoIdleSlot'
  <2>1. pending' # {} => pending # {}
    BY <1>2
  <2>2. max_inflight \in Nat /\ inflight_total \in Nat
    BY DEF FairTypeOK
  <2> QED
    BY <1>1, <1>2, <2>1, <2>2 DEF NoIdleSlot, CanGrant, InflightExact, setup, counters
<1>9. NoOvertaking'
  BY <1>2 DEF NoOvertaking, counters
<1> QED
  BY <1>4, <1>5, <1>6, <1>7, <1>8, <1>9

\* A cleanup that returns keeps the inductive invariant.
LEMMA CleanupOkKeeps ==
  ASSUME FairIInv, NEW r \in RequestIds, CleanupOk(r)
  PROVE  FairIInv'
<1> USE AdmissionAssumption DEF FairIInv
<1>1. phase[r] = "cleanup"
  BY DEF CleanupOk
<1>2. /\ Move(r, "running") /\ pending' = pending /\ holder' = holder
      /\ UNCHANGED <<setup, next_request_id, tenant, granted, counters, overtaken_by>>
  BY DEF CleanupOk
<1>3. \A s \in RequestIds : phase'[s] = IF s = r THEN "running" ELSE phase[s]
  BY <1>2 DEF Move, FairTypeOK
<1>4. FairTypeOK'
  BY <1>2 DEF FairTypeOK, Move, Phases, setup, counters
<1>5. Untouched'
  BY <1>1, <1>2, <1>3 DEF Untouched
<1>6. PhasesAgree' /\ LockHeld'
  <2>1. PhasesAgree'
    BY <1>1, <1>2, <1>3 DEF PhasesAgree, FairTypeOK, setup
  <2>2. LockHeld'
    BY <1>1, <1>2, <1>3 DEF LockHeld, RequestIds
  <2> QED
    BY <2>1, <2>2
<1>7. InflightExact'
  <2>1. r \in granted => "running" # "timed_out"
                         /\ (r \in Occupying <=> "running" \notin {"releasing", "done"})
    BY <1>1 DEF Occupying
  <2> QED
    BY <1>2, <2>1, MoveKeepsCounts DEF Phases
<1>8. NoIdleSlot'
  BY <1>2 DEF NoIdleSlot, setup, counters, RequestIds
<1>9. NoOvertaking'
  BY <1>2 DEF NoOvertaking, counters
<1> QED
  BY <1>4, <1>5, <1>6, <1>7, <1>8, <1>9

\* A cleanup that raises keeps the inductive invariant.
LEMMA CleanupRaisesKeeps ==
  ASSUME FairIInv, NEW r \in RequestIds, CleanupRaises(r)
  PROVE  FairIInv'
<1> USE AdmissionAssumption DEF FairIInv
<1>1. phase[r] = "cleanup"
  BY DEF CleanupRaises
<1>2. /\ Move(r, "raised") /\ pending' = pending /\ holder' = holder
      /\ UNCHANGED <<setup, next_request_id, tenant, granted, counters, overtaken_by>>
  BY DEF CleanupRaises
<1>3. \A s \in RequestIds : phase'[s] = IF s = r THEN "raised" ELSE phase[s]
  BY <1>2 DEF Move, FairTypeOK
<1>4. FairTypeOK'
  BY <1>2 DEF FairTypeOK, Move, Phases, setup, counters
<1>5. Untouched'
  BY <1>1, <1>2, <1>3 DEF Untouched
<1>6. PhasesAgree' /\ LockHeld'
  <2>1. PhasesAgree'
    <3>1. /\ \A q \in pending' : q \notin granted' /\ phase'[q] \in {"acquiring", "waiting"}
          /\ \A q \in granted' : phase'[q] \notin {"new", "timed_out"}
          /\ \A q \in RequestIds :
               phase'[q] \in {"cleanup", "running", "releasing", "done", "raised"} => q \in granted'
          /\ \A q \in RequestIds :
               phase'[q] \in {"acquiring", "waiting"} => q \in pending' \cup granted'
      BY <1>1, <1>2, <1>3 DEF PhasesAgree, FairTypeOK
    <3>2. cleanup_may_fail /\ cleanup_may_fail' = cleanup_may_fail
      BY <1>2 DEF CleanupRaises, setup
    <3>3. cleanup_may_fail'
      BY <3>2, Zenon
    <3> QED
      BY <3>1, <3>3, Zenon DEF PhasesAgree
  <2>2. LockHeld'
    BY <1>1, <1>2, <1>3 DEF LockHeld, RequestIds
  <2> QED
    BY <2>1, <2>2
<1>7. InflightExact'
  <2>1. r \in granted => "raised" # "timed_out"
                         /\ (r \in Occupying <=> "raised" \notin {"releasing", "done"})
    BY <1>1 DEF Occupying
  <2> QED
    BY <1>2, <2>1, MoveKeepsCounts DEF Phases
<1>8. NoIdleSlot'
  BY <1>2 DEF NoIdleSlot, setup, counters, RequestIds
<1>9. NoOvertaking'
  BY <1>2 DEF NoOvertaking, counters
<1> QED
  BY <1>4, <1>5, <1>6, <1>7, <1>8, <1>9

\* A release that ends keeps the inductive invariant.
LEMMA ReleasedKeeps ==
  ASSUME FairIInv, NEW r \in RequestIds, Released(r)
  PROVE  FairIInv'
<1> USE AdmissionAssumption DEF FairIInv
<1>1. phase[r] = "releasing" /\ ~CanGrant
  BY DEF Released
<1>2. /\ Move(r, "done") /\ pending' = pending /\ holder' = 0
      /\ UNCHANGED <<setup, next_request_id, tenant, granted, counters, overtaken_by>>
  BY DEF Released
<1>3. \A s \in RequestIds : phase'[s] = IF s = r THEN "done" ELSE phase[s]
  BY <1>2 DEF Move, FairTypeOK
<1>4. FairTypeOK'
  BY <1>2 DEF FairTypeOK, Move, Phases, setup, counters
<1>5. Untouched'
  BY <1>1, <1>2, <1>3 DEF Untouched
<1>6. PhasesAgree' /\ LockHeld'
  <2>1. PhasesAgree'
    BY <1>1, <1>2, <1>3 DEF PhasesAgree, FairTypeOK, setup
  <2>2. LockHeld'
    BY <1>1, <1>2, <1>3 DEF LockHeld, RequestIds
  <2> QED
    BY <2>1, <2>2
<1>7. InflightExact'
  <2>1. r \in granted => "done" # "timed_out"
                         /\ (r \in Occupying <=> "done" \notin {"releasing", "done"})
    BY <1>1 DEF Occupying
  <2> QED
    BY <1>2, <2>1, MoveKeepsCounts DEF Phases
<1>8. NoIdleSlot'
  <2>1. pending' # {} => pending # {}
    BY <1>2
  <2>2. max_inflight \in Nat /\ inflight_total \in Nat
    BY DEF FairTypeOK
  <2> QED
    BY <1>1, <1>2, <2>1, <2>2 DEF NoIdleSlot, CanGrant, InflightExact, setup, counters
<1>9. NoOvertaking'
  BY <1>2 DEF NoOvertaking, counters
<1> QED
  BY <1>4, <1>5, <1>6, <1>7, <1>8, <1>9

\* A release keeps the inductive invariant: the call held a slot, so neither counter is
\* clamped at zero.
LEMMA ReleaseKeeps ==
  ASSUME FairIInv, NEW r \in RequestIds, Release(r)
  PROVE  FairIInv'
<1> USE AdmissionAssumption DEF FairIInv
<1>1. /\ phase[r] = "running" /\ holder = 0 /\ holder' = r
      /\ UNCHANGED <<setup, next_request_id, tenant, pending, granted, grants_total, overtaken_by>>
      /\ phase' = [phase EXCEPT ![r] = "releasing"]
      /\ inflight_total' = IF inflight_total > 0 THEN inflight_total - 1 ELSE 0
      /\ inflight_by_tenant' =
           [inflight_by_tenant EXCEPT ![tenant[r]] =
              IF inflight_by_tenant[tenant[r]] <= 1 THEN 0
              ELSE inflight_by_tenant[tenant[r]] - 1]
  BY DEF Release, Move, ReleasedTenant
<1>2. \A s \in RequestIds : phase'[s] = IF s = r THEN "releasing" ELSE phase[s]
  BY <1>1 DEF FairTypeOK
<1>3. r \in granted /\ r \in Occupying /\ tenant[r] \in AdmissionTenants /\ r # 0
  BY <1>1 DEF PhasesAgree, Occupying, FairTypeOK, RequestIds
<1>4. FairTypeOK'
  <2>1. inflight_total' \in Nat
    BY <1>1 DEF FairTypeOK
  <2>2. inflight_by_tenant' \in [AdmissionTenants -> Nat]
    BY <1>1, <1>3 DEF FairTypeOK
  <2>3. phase' \in [RequestIds -> Phases]
    BY <1>1 DEF FairTypeOK, Phases
  <2> QED
    BY <1>1, <2>1, <2>2, <2>3 DEF FairTypeOK, setup
<1>5. Untouched'
  BY <1>1, <1>2 DEF Untouched
<1>6. PhasesAgree'
  BY <1>1, <1>2 DEF PhasesAgree, FairTypeOK, setup
<1>7. LockHeld'
  BY <1>1, <1>2 DEF LockHeld, RequestIds
<1>8. InflightExact'
  <2>1. Occupying' = Occupying \ {r}
    BY <1>1, <1>2, <1>3 DEF Occupying, FairTypeOK
  <2>2. \A t : OccupyingOf(t)' = IF t = tenant[r] THEN OccupyingOf(t) \ {r}
                                 ELSE OccupyingOf(t)
    BY <1>1, <2>1 DEF OccupyingOf
  <2>3. r \in OccupyingOf(tenant[r])
    BY <1>3 DEF OccupyingOf
  <2>4. IsFiniteSet(Occupying) /\ \A t : IsFiniteSet(OccupyingOf(t))
    BY OccupyingFinite
  <2>5. Cardinality(Occupying \ {r}) = Cardinality(Occupying) - 1 /\ Cardinality(Occupying) # 0
    BY <1>3, <2>4, FS_RemoveElement, FS_EmptySet
  <2>6. inflight_total' = Cardinality(Occupying') /\ inflight_total' <= inflight_total
    BY <1>1, <2>1, <2>5 DEF InflightExact, FairTypeOK
  <2>7. inflight_total' <= max_inflight'
    <3>1. max_inflight \in Nat /\ inflight_total \in Nat /\ inflight_total' \in Nat
      BY <1>4 DEF FairTypeOK
    <3> QED
      BY <1>1, <2>6, <3>1 DEF InflightExact, setup
  <2>8. Cardinality(OccupyingOf(tenant[r]) \ {r}) = Cardinality(OccupyingOf(tenant[r])) - 1
          /\ Cardinality(OccupyingOf(tenant[r])) # 0
    BY <2>3, <2>4, FS_RemoveElement, FS_EmptySet
  <2>9. \A t \in AdmissionTenants : inflight_by_tenant[t] = Cardinality(OccupyingOf(t))
    BY DEF InflightExact, OccupyingOf
  <2>10. \A t \in AdmissionTenants : inflight_by_tenant'[t] = Cardinality(OccupyingOf(t)')
    <3> SUFFICES ASSUME NEW t \in AdmissionTenants
                 PROVE  inflight_by_tenant'[t] = Cardinality(OccupyingOf(t)')
      OBVIOUS
    <3>1. CASE t = tenant[r]
      <4>1. inflight_by_tenant[t] \in Nat /\ inflight_by_tenant[t] # 0
        BY <2>8, <2>9, <3>1 DEF FairTypeOK
      <4>2. inflight_by_tenant'[t] = inflight_by_tenant[t] - 1
        BY <1>1, <1>3, <3>1, <4>1 DEF FairTypeOK
      <4>3. OccupyingOf(t)' = OccupyingOf(t) \ {r}
        BY <2>2, <3>1
      <4> QED
        BY <4>2, <4>3, <2>8, <2>9, <3>1
    <3>2. CASE t # tenant[r]
      <4>1. inflight_by_tenant'[t] = inflight_by_tenant[t]
        BY <1>1, <1>3, <3>2 DEF FairTypeOK
      <4>2. OccupyingOf(t)' = OccupyingOf(t)
        BY <2>2, <3>2
      <4> QED
        BY <4>1, <4>2, <2>9
    <3> QED
      BY <3>1, <3>2
  <2>11. \A s \in Occupying' : phase'[s] # "timed_out"
    BY <1>2, <2>1 DEF InflightExact, Occupying, FairTypeOK
  <2> QED
    BY <2>6, <2>7, <2>10, <2>11 DEF InflightExact, OccupyingOf
<1>9. NoIdleSlot'
  BY <1>1, <1>3 DEF NoIdleSlot
<1>10. NoOvertaking'
  BY <1>1 DEF NoOvertaking
<1> QED
  BY <1>4, <1>5, <1>6, <1>7, <1>8, <1>9, <1>10

-----------------------------------------------------------------------------
\* A step that changes nothing keeps the inductive invariant.
LEMMA FairStutterKeeps == FairIInv /\ UNCHANGED fairVars => FairIInv'
<1> SUFFICES ASSUME FairIInv, UNCHANGED fairVars PROVE FairIInv'
  OBVIOUS
<1>1. UNCHANGED <<max_inflight, cleanup_may_fail, next_request_id, tenant, phase, pending,
                  granted, inflight_total, inflight_by_tenant, grants_total, holder, overtaken_by>>
  BY DEF fairVars, setup, counters
<1>2. InflightExact'
  BY <1>1, SameOccupying DEF FairIInv, Occupying, InflightExact
<1> QED
  BY <1>1, <1>2 DEF FairIInv, FairTypeOK, Untouched, PhasesAgree, LockHeld, NoIdleSlot, NoOvertaking

\* Every step of the coordinator and its callers keeps the inductive invariant.
LEMMA FairNextKeeps == FairIInv /\ [FairNext]_fairVars => FairIInv'
<1> SUFFICES ASSUME FairIInv, [FairNext]_fairVars PROVE FairIInv'
  OBVIOUS
<1>1. CASE Acquire
  BY <1>1, AcquireKeeps
<1>2. CASE Grant
  BY <1>2, GrantKeeps
<1>3. ASSUME NEW r \in RequestIds, FairStep(r) PROVE FairIInv'
  BY <1>3, WakeKeeps, AdmittedKeeps, WaitAgainKeeps, GiveUpKeeps, CleanupOkKeeps,
     CleanupRaisesKeeps, ReleaseKeeps, ReleasedKeeps DEF FairStep
<1>4. CASE UNCHANGED fairVars
  BY <1>4, FairStutterKeeps
<1> QED
  BY <1>1, <1>2, <1>3, <1>4 DEF FairNext

\* The inductive invariant holds in every state the coordinator reaches.
THEOREM FairInvariant == FairSpec => []FairIInv
  BY FairInitially, FairNextKeeps, PTL DEF FairSpec

\* _inflight_total and _inflight_by_tenant count exactly the calls that hold a slot, never
\* more than max_inflight_global, whatever grants race with time-outs.
THEOREM FairCountsExact == FairSpec => [](FairTypeOK /\ InflightExact)
<1>1. FairIInv => FairTypeOK /\ InflightExact
  BY DEF FairIInv
<1> QED
  BY <1>1, FairInvariant, PTL

\* No wake-up is lost: when the lock is free and a request is pending, every slot is taken.
THEOREM FairNoIdleSlot == FairSpec => []NoIdleSlot
<1>1. FairIInv => NoIdleSlot
  BY DEF FairIInv
<1> QED
  BY <1>1, FairInvariant, PTL

\* While a request waits, every tenant served meanwhile has had at most one grant more than
\* the tenant of the request.
THEOREM FairNoOvertaking == FairSpec => []NoOvertaking
<1>1. FairIInv => NoOvertaking
  BY DEF FairIInv
<1> QED
  BY <1>1, FairInvariant, PTL

\* A call that gives up finds every slot taken, and where cleanups do not fail the calls
\* that hold them are all being executed.
LEMMA GiveUpUnderLoad ==
  ASSUME FairIInv, [FairNext]_fairVars, NEW r \in RequestIds, GivesUp(r), ~cleanup_may_fail
  PROVE  Cardinality(Executing) = max_inflight
<1> USE AdmissionAssumption DEF FairIInv
<1>1. GiveUp(r)
  <2>1. phase \in [RequestIds -> Phases] /\ phase' # phase
    BY DEF FairTypeOK, GivesUp
  <2>2. ~Acquire /\ ~Grant
    BY <2>1 DEF Acquire, Grant, Move, GivesUp
  <2>3. ~UNCHANGED fairVars
    BY <2>1 DEF fairVars
  <2>4. PICK s \in RequestIds : FairStep(s)
    BY <2>2, <2>3 DEF FairNext
  <2>5. GiveUp(s)
    BY <2>1, <2>4 DEF FairStep, Wake, Admitted, WaitAgain, CleanupOk, CleanupRaises, Release,
                      Released, Move, GivesUp
  <2>6. s = r
    BY <2>1, <2>5 DEF GiveUp, Move, GivesUp
  <2> QED
    BY <2>5, <2>6
<1>2. r \in pending /\ ~CanGrant
  BY <1>1 DEF GiveUp, LoopDone, PhasesAgree
<1>3. inflight_total = max_inflight
  <2>1. max_inflight \in Nat /\ inflight_total \in Nat
    BY DEF FairTypeOK
  <2> QED
    BY <1>2, <2>1 DEF CanGrant, InflightExact
<1>4. Executing = Occupying
  BY DEF Executing, Occupying, PhasesAgree, FairTypeOK, Phases
<1> QED
  BY <1>3, <1>4 DEF InflightExact

\* No call times out for want of a slot that is free: where cleanups do not fail, acquire
\* returns None only while max_inflight_global calls are being executed.
THEOREM FairTimeoutOnlyUnderLoad == FairSpec => TimeoutOnlyUnderLoad
<1>1. FairIInv /\ [FairNext]_fairVars =>
        [\A r \in RequestIds : GivesUp(r) /\ ~cleanup_may_fail =>
           Cardinality(Executing) = max_inflight]_fairVars
  BY GiveUpUnderLoad
<1> QED
  BY <1>1, FairInvariant, PTL DEF FairSpec, TimeoutOnlyUnderLoad
=============================================================================
