-------------------------- MODULE SharedStateProofs --------------------------
(***************************************************************************)
(* Proofs about the state that requests share, for any number of jobs,     *)
(* keys, processes, buckets and ticks: the in-memory result store, the     *)
(* replay guard, the durable admission slots, the rate limiter and the     *)
(* tenant's policy.                                                        *)
(***************************************************************************)
EXTENDS ByocResultStore, ReplayGuard, SqliteFairAdmission, RateLimiter, TenantPolicy,
        IdentityAccess, FiniteSetTheorems, FunctionTheorems, TLAPS

(***************************************************************************)
(* The in-memory result store.  OncePerKey needs that a key which is held  *)
(* somewhere has been seen, since ingest looks at the seen keys only.      *)
(***************************************************************************)

ResultStoreTypeOK ==
  /\ conflict_strategy \in Strategies
  /\ seen_keys \in SUBSET Keys
  /\ results \in [ResultJobs -> Results \cup {NoResult}]
  /\ consumed \in [ResultJobs -> SUBSET Results]

HeldWasSeen ==
  \A j \in ResultJobs :
    /\ results[j] # NoResult => results[j].key \in seen_keys
    /\ \A r \in consumed[j] : r.key \in seen_keys

ResultIInv == ResultStoreTypeOK /\ HeldWasSeen /\ OncePerKey /\ AcceptedKept

\* The empty result store satisfies the inductive invariant.
LEMMA ResultInitIInv == ResultInit => ResultIInv
<1> SUFFICES ASSUME ResultInit PROVE ResultIInv
  OBVIOUS
<1>1. ResultStoreTypeOK /\ HeldWasSeen
  BY DEF ResultInit, ResultStoreTypeOK, HeldWasSeen
<1>2. \A k \in Keys : Holders(k) = {}
  BY DEF ResultInit, Holders
<1> QED BY <1>1, <1>2 DEF ResultIInv, OncePerKey, AcceptedKept, ResultInit

\* ingest stores a result only under a key that no job holds, and under first_write_wins
\* only where nothing is stored.
LEMMA IngestKeeps ==
  ASSUME ResultIInv, NEW j \in ResultJobs, NEW r \in Submitted, Ingest(j, r)
  PROVE  ResultIInv'
<1>1. /\ ResultStoreTypeOK /\ HeldWasSeen /\ OncePerKey /\ AcceptedKept
      /\ conflict_strategy' = conflict_strategy /\ consumed' = consumed
  BY DEF ResultIInv, Ingest
<1>2. CASE ~Stores(IngestOutcome(j, r))
  <2>1. UNCHANGED <<seen_keys, results>>
    BY <1>2 DEF Ingest
  <2>2. \A k : Holders(k)' = Holders(k)
    BY <1>1, <2>1 DEF Holders
  <2> QED BY <1>1, <2>1, <2>2
          DEF ResultIInv, ResultStoreTypeOK, HeldWasSeen, OncePerKey, AcceptedKept
<1>3. CASE Stores(IngestOutcome(j, r))
  <2>1. /\ seen_keys' = seen_keys \cup {r.key} /\ results' = [results EXCEPT ![j] = r]
        /\ r.key # NoKey /\ r.key \notin seen_keys
    BY <1>3 DEF Ingest, IngestOutcome, Stores
  <2>2. r \in Results /\ r # NoResult /\ r.key \in Keys
    BY <2>1, NoResultAssumption DEF Results, Submitted
  <2>3. results'[j] = r /\ \A l \in ResultJobs : l # j => results'[l] = results[l]
    BY <1>1, <2>1 DEF ResultStoreTypeOK
  <2>4. ResultStoreTypeOK' /\ HeldWasSeen'
    BY <1>1, <2>1, <2>2, <2>3 DEF ResultStoreTypeOK, HeldWasSeen
  <2>5. Holders(r.key) = {}
    BY <1>1, <2>1 DEF Holders, HeldWasSeen
  <2>6. \A l \in Holders(r.key)' : l = j
    BY <1>1, <2>3, <2>5 DEF Holders
  <2>7. \A k : k # r.key => Holders(k)' \subseteq Holders(k)
    BY <1>1, <2>3 DEF Holders
  <2>8. \A x \in consumed[j] : x.key # r.key
    BY <1>1, <2>1 DEF HeldWasSeen
  <2>9. OncePerKey'
    <3> SUFFICES ASSUME NEW k \in Keys
                 PROVE  /\ \A i, l \in Holders(k)' : i = l
                        /\ \A l \in Holders(k)' :
                             /\ results'[l] # NoResult => \A x \in consumed[l] : x.key # results'[l].key
                             /\ \A x, y \in consumed[l] : x.key = y.key => x = y
      BY <1>1 DEF OncePerKey
    <3>1. \A i, l \in Holders(k)' : i = l
      <4>1. CASE k = r.key
        BY <2>6, <4>1
      <4>2. CASE k # r.key
        BY <1>1, <2>7, <4>2 DEF OncePerKey
      <4> QED BY <4>1, <4>2
    <3>2. ASSUME NEW l \in Holders(k)'
          PROVE  /\ results'[l] # NoResult => \A x \in consumed[l] : x.key # results'[l].key
                 /\ \A x, y \in consumed[l] : x.key = y.key => x = y
      <4>1. l \in ResultJobs
        BY DEF Holders
      <4>2. results[l] # NoResult => results[l].key \in Keys /\ l \in Holders(results[l].key)
        BY <1>1, <4>1 DEF Holders, ResultStoreTypeOK, Results
      <4>3. \A x \in consumed[l] : x.key \in Keys /\ l \in Holders(x.key)
        BY <1>1, <4>1 DEF Holders, ResultStoreTypeOK, Results
      <4>4. \A x, y \in consumed[l] : x.key = y.key => x = y
        BY <1>1, <4>3 DEF OncePerKey
      <4>5. CASE l = j
        BY <2>3, <2>8, <4>4, <4>5
      <4>6. CASE l # j
        BY <1>1, <2>3, <4>1, <4>2, <4>4, <4>6 DEF OncePerKey
      <4> QED BY <4>5, <4>6
    <3> QED BY <3>1, <3>2
  <2>10. AcceptedKept'
    <3> SUFFICES ASSUME conflict_strategy = "first_write_wins", NEW k \in seen_keys'
                 PROVE  Holders(k)' # {}
      BY <1>1 DEF AcceptedKept
    <3>1. CASE k = r.key
      <4>1. j \in Holders(k)'
        BY <2>2, <2>3, <3>1 DEF Holders
      <4> QED BY <4>1
    <3>2. CASE k # r.key
      <4>1. results[j] = NoResult
        BY <1>1, <1>3, <2>1 DEF HeldWasSeen, IngestOutcome, Stores, ReplacesExisting
      <4>2. PICK l \in Holders(k) : TRUE
        BY <1>1, <2>1, <3>2 DEF AcceptedKept
      <4>3. l \in Holders(k)'
        BY <1>1, <2>3, <4>1, <4>2 DEF Holders
      <4> QED BY <4>3
    <3> QED BY <3>1, <3>2
  <2> QED BY <2>4, <2>9, <2>10 DEF ResultIInv
<1> QED BY <1>2, <1>3

\* consume hands out what was stored; the holders of each key stay the same.
LEMMA ConsumeKeeps ==
  ASSUME ResultIInv, NEW j \in ResultJobs, Consume(j)
  PROVE  ResultIInv'
<1>1. /\ ResultStoreTypeOK /\ HeldWasSeen /\ OncePerKey /\ AcceptedKept
      /\ conflict_strategy' = conflict_strategy /\ seen_keys' = seen_keys
      /\ results[j] # NoResult /\ results[j] \in Results /\ results[j].key \in Keys
      /\ consumed' = [consumed EXCEPT ![j] = @ \cup {results[j]}]
      /\ results' = [results EXCEPT ![j] = NoResult]
  BY DEF ResultIInv, Consume, ResultStoreTypeOK, Results
<1>2. /\ results'[j] = NoResult /\ consumed'[j] = consumed[j] \cup {results[j]}
      /\ \A l \in ResultJobs : l # j => results'[l] = results[l] /\ consumed'[l] = consumed[l]
  BY <1>1 DEF ResultStoreTypeOK
<1>3. ResultStoreTypeOK' /\ HeldWasSeen'
  BY <1>1, <1>2 DEF ResultStoreTypeOK, HeldWasSeen
<1>4. ASSUME NEW k PROVE Holders(k)' = Holders(k)
  <2>1. \A l \in ResultJobs : l \in Holders(k)' <=> l \in Holders(k)
    BY <1>1, <1>2 DEF Holders
  <2> QED BY <2>1 DEF Holders
<1>5. \A x \in consumed[j] : x.key # results[j].key
  <2>1. j \in Holders(results[j].key)
    BY <1>1 DEF Holders
  <2> QED BY <1>1, <2>1 DEF OncePerKey
<1>6. OncePerKey'
  <2> SUFFICES ASSUME NEW k \in Keys, NEW l \in Holders(k)
               PROVE  /\ results'[l] # NoResult => \A x \in consumed'[l] : x.key # results'[l].key
                      /\ \A x, y \in consumed'[l] : x.key = y.key => x = y
    BY <1>1, <1>4 DEF OncePerKey
  <2>1. l \in ResultJobs
    BY DEF Holders
  <2>2. \A x, y \in consumed[l] : x.key = y.key => x = y
    BY <1>1 DEF OncePerKey
  <2>3. CASE l = j
    BY <1>2, <1>5, <2>2, <2>3
  <2>4. CASE l # j
    BY <1>1, <1>2, <2>1, <2>4 DEF OncePerKey
  <2> QED BY <2>3, <2>4
<1>7. AcceptedKept'
  BY <1>1, <1>4 DEF AcceptedKept
<1> QED BY <1>3, <1>6, <1>7 DEF ResultIInv

\* The inductive invariant holds in every reachable state of the result store.
THEOREM ResultInvariant == ResultSpec => []ResultIInv
<1>1. ResultIInv /\ [ResultNext]_resultVars => ResultIInv'
  <2> SUFFICES ASSUME ResultIInv, [ResultNext]_resultVars PROVE ResultIInv'
    OBVIOUS
  <2>1. CASE UNCHANGED resultVars
    BY <2>1 DEF resultVars, ResultIInv, ResultStoreTypeOK, HeldWasSeen, OncePerKey, AcceptedKept,
                Holders
  <2> QED BY <2>1, IngestKeeps, ConsumeKeeps DEF ResultNext
<1> QED BY <1>1, ResultInitIInv, PTL DEF ResultSpec

\* Whatever is submitted and however often, a key is handed out once and for one job, and
\* under first_write_wins no accepted result is lost.
THEOREM ResultStoreSettled == ResultSpec => []ResultsSettled
<1>1. ResultIInv => ResultsSettled
  BY DEF ResultIInv, ResultsSettled
<1> QED BY <1>1, ResultInvariant, PTL

(***************************************************************************)
(* The replay guard.  ReplayBlocked needs what the guard's table says of   *)
(* an acceptance (it is remembered, or a replay window old), and that a    *)
(* token is not accepted before it was minted.  It is proved of the        *)
(* durable guard, and of the in-memory one for as long as it runs.         *)
(***************************************************************************)

GuardTypeOK ==
  /\ lifetime \in [RequestKeys -> Nat] /\ token_expires \in [RequestKeys -> Nat]
  /\ expires_at \in [RequestKeys -> Nat] /\ accepted \in [RequestKeys -> SUBSET Nat]
  /\ time \in Nat \ {0} /\ restarts \in Nat

\* An acceptance is remembered for a replay window.
Remembered ==
  \A k \in RequestKeys : \A a \in accepted[k] :
    expires_at[k] >= a + ReplayTtl \/ a + ReplayTtl <= time

\* A key that was accepted has a token, which was minted before.
AcceptedAfterMint ==
  \A k \in RequestKeys :
    /\ \A a \in accepted[k] : token_expires[k] <= a + lifetime[k]
    /\ lifetime[k] = 0 => token_expires[k] = 0 /\ accepted[k] = {}

GuardIInv == GuardTypeOK /\ Remembered /\ AcceptedAfterMint /\ AcceptedApart /\ AcceptedOnce

\* The empty guard satisfies the inductive invariant.
LEMMA GuardInitIInv == GuardInit => GuardIInv
BY DEF GuardInit, GuardIInv, GuardTypeOK, Remembered, AcceptedAfterMint, AcceptedApart, AcceptedOnce

\* Sweeping at a reading of the clock forgets only acceptances that are a window old.
LEMMA SweptRemembers ==
  ASSUME GuardIInv, NEW at \in GuardReadings, NEW k \in RequestKeys
  PROVE  /\ Swept(at)[k] \in Nat
         /\ \A a \in accepted[k] : Swept(at)[k] >= a + ReplayTtl \/ a + ReplayTtl <= time
<1>1. /\ at \in Nat /\ at <= time /\ time \in Nat /\ expires_at[k] \in Nat /\ ReplayTtl \in Nat
      /\ accepted[k] \subseteq Nat
  BY GuardAssumption DEF GuardIInv, GuardTypeOK, GuardReadings
<1>2. Swept(at)[k] = IF expires_at[k] <= at THEN 0 ELSE expires_at[k]
  BY DEF Swept
<1>3. \A a \in accepted[k] : expires_at[k] >= a + ReplayTtl \/ a + ReplayTtl <= time
  BY DEF GuardIInv, Remembered
<1> QED BY <1>1, <1>2, <1>3

\* A step that keeps the acceptances and the tokens keeps the invariant when the table
\* still remembers.
LEMMA GuardKeeps ==
  ASSUME GuardIInv, UNCHANGED <<lifetime, token_expires, accepted>>,
         GuardTypeOK', Remembered'
  PROVE  GuardIInv'
BY DEF GuardIInv, AcceptedAfterMint, AcceptedApart, AcceptedOnce

\* A key that is accepted again is accepted a replay window later, and only when its
\* token outlives the window.
LEMMA WorkerRequestKeeps ==
  ASSUME GuardIInv, NEW k \in RequestKeys, NEW verified \in GuardReadings,
         NEW at \in GuardReadings, WorkerRequest(k, verified, at)
  PROVE  GuardIInv'
<1>1. /\ GuardTypeOK /\ Remembered /\ AcceptedAfterMint /\ AcceptedApart /\ AcceptedOnce
      /\ at \in Nat /\ at <= time /\ time <= at + GuardLag
      /\ verified \in Nat /\ time <= verified + GuardLag /\ verified <= at
      /\ ReplayTtl \in Nat /\ GuardLag \in Nat /\ time \in Nat
      /\ lifetime[k] \in Nat /\ token_expires[k] \in Nat /\ accepted[k] \subseteq Nat
      /\ UNCHANGED <<lifetime, token_expires, time, restarts>>
      /\ token_expires[k] <= verified + lifetime[k] /\ verified < token_expires[k]
  BY GuardAssumption DEF GuardIInv, GuardTypeOK, GuardReadings, WorkerRequest, Valid
<1>2. Swept(at) \in [RequestKeys -> Nat]
  BY SweptRemembers DEF Swept
<1>3. CASE expires_at' = Swept(at) /\ UNCHANGED accepted
  <2>1. GuardTypeOK'
    BY <1>1, <1>2, <1>3 DEF GuardTypeOK
  <2>2. Remembered'
    BY <1>1, <1>3, SweptRemembers DEF Remembered
  <2> QED BY <1>1, <1>3, <2>1, <2>2, GuardKeeps
<1>4. CASE /\ Swept(at)[k] = 0
           /\ expires_at' = [Swept(at) EXCEPT ![k] = at + ReplayTtl]
           /\ accepted' = [accepted EXCEPT ![k] = @ \cup {at}]
  <2>1. /\ accepted'[k] = accepted[k] \cup {at} /\ expires_at'[k] = at + ReplayTtl
        /\ \A l \in RequestKeys : l # k => /\ accepted'[l] = accepted[l]
                                           /\ expires_at'[l] = Swept(at)[l]
    BY <1>1, <1>2, <1>4 DEF GuardTypeOK
  <2>2. GuardTypeOK'
    BY <1>1, <1>2, <1>4 DEF GuardTypeOK
  <2>3. \A a \in accepted[k] : a \in Nat /\ a + ReplayTtl <= time
    <3> SUFFICES ASSUME NEW a \in accepted[k] PROVE a \in Nat /\ a + ReplayTtl <= time
      OBVIOUS
    <3>1. Swept(at)[k] >= a + ReplayTtl \/ a + ReplayTtl <= time
      BY SweptRemembers
    <3>2. a \in Nat /\ ReplayTtl > 0
      BY <1>1, GuardAssumption
    <3> QED BY <1>1, <1>4, <3>1, <3>2
  <2>4. Remembered'
    <3> SUFFICES ASSUME NEW l \in RequestKeys, NEW a \in accepted'[l]
                 PROVE  expires_at'[l] >= a + ReplayTtl \/ a + ReplayTtl <= time
      BY <1>1 DEF Remembered
    <3>1. CASE l = k
      BY <1>1, <2>1, <2>3, <3>1
    <3>2. CASE l # k
      BY <1>1, <2>1, <3>2, SweptRemembers
    <3> QED BY <3>1, <3>2
  <2>5. AcceptedAfterMint'
    <3>1. lifetime[k] # 0
      BY <1>1 DEF AcceptedAfterMint
    <3>2. \A a \in accepted'[k] : token_expires[k] <= a + lifetime[k]
      BY <1>1, <2>1 DEF AcceptedAfterMint
    <3> QED BY <1>1, <2>1, <3>1, <3>2 DEF AcceptedAfterMint
  <2>6. AcceptedApart'
    <3> SUFFICES ASSUME NEW l \in RequestKeys, NEW a \in accepted'[l], NEW b \in accepted'[l], a < b
                 PROVE  a + ReplayTtl <= b + GuardLag
      BY DEF AcceptedApart
    <3>1. CASE a \in accepted[l] /\ b \in accepted[l]
      BY <1>1, <3>1 DEF AcceptedApart
    <3>2. CASE l = k /\ a \in accepted[k] /\ b = at
      BY <1>1, <2>3, <3>2
    <3>3. CASE l = k /\ a = at /\ b \in accepted[k]
      BY <1>1, <2>3, <3>3
    <3>4. CASE a = at /\ b = at
      BY <1>1, <3>4
    <3> QED BY <2>1, <3>1, <3>2, <3>3, <3>4
  <2>7. AcceptedOnce'
    <3> SUFFICES ASSUME NEW l \in RequestKeys, lifetime[l] + GuardLag <= ReplayTtl,
                        NEW a \in accepted'[l], NEW b \in accepted'[l]
                 PROVE  a = b
      BY <1>1 DEF AcceptedOnce
    <3>1. CASE l # k
      BY <1>1, <2>1, <3>1 DEF AcceptedOnce
    <3>2. CASE l = k
      <4>1. accepted[k] = {}
        <5> SUFFICES ASSUME NEW c \in accepted[k] PROVE FALSE
          OBVIOUS
        <5>1. c \in Nat /\ c + ReplayTtl <= time /\ token_expires[k] <= c + lifetime[k]
          BY <1>1, <2>3 DEF AcceptedAfterMint
        <5> QED BY <1>1, <3>2, <5>1
      <4> QED BY <2>1, <3>2, <4>1
    <3> QED BY <3>1, <3>2
  <2> QED BY <2>2, <2>4, <2>5, <2>6, <2>7 DEF GuardIInv
<1> QED BY <1>3, <1>4 DEF WorkerRequest

\* Every step keeps the inductive invariant, a restart of the durable guard included.
LEMMA GuardStep ==
  ASSUME Durable \/ MaxRestarts = 0, GuardIInv, [GuardNext]_guardVars
  PROVE  GuardIInv'
<1>1. GuardTypeOK /\ Remembered /\ AcceptedAfterMint /\ AcceptedApart /\ AcceptedOnce
  BY DEF GuardIInv
<1>2. CASE UNCHANGED guardVars
  BY <1>1, <1>2 DEF guardVars, GuardIInv, GuardTypeOK, Remembered, AcceptedAfterMint,
                    AcceptedApart, AcceptedOnce
<1>3. ASSUME NEW k \in RequestKeys, NEW ttl \in TokenTtls, Mint(k, ttl) PROVE GuardIInv'
  <2>1. /\ ttl \in Nat \ {0} /\ time \in Nat /\ accepted[k] = {}
        /\ UNCHANGED <<expires_at, time, restarts, accepted>>
    BY <1>1, <1>3, GuardAssumption DEF Mint, GuardTypeOK, AcceptedAfterMint
  <2>2. /\ lifetime'[k] = ttl
        /\ \A l \in RequestKeys : l # k => /\ lifetime'[l] = lifetime[l]
                                           /\ token_expires'[l] = token_expires[l]
    BY <1>1, <1>3 DEF Mint, GuardTypeOK
  <2>3. GuardTypeOK'
    BY <1>1, <1>3, <2>1 DEF Mint, GuardTypeOK
  <2>4. Remembered' /\ AcceptedApart'
    BY <1>1, <2>1 DEF Remembered, AcceptedApart
  <2>5. AcceptedAfterMint' /\ AcceptedOnce'
    BY <1>1, <2>1, <2>2 DEF AcceptedAfterMint, AcceptedOnce
  <2> QED BY <2>3, <2>4, <2>5 DEF GuardIInv
<1>4. ASSUME NEW at \in GuardReadings, Sweep(at) PROVE GuardIInv'
  <2>1. GuardTypeOK'
    BY <1>1, <1>4, SweptRemembers DEF Sweep, GuardTypeOK, Swept
  <2>2. Remembered'
    BY <1>4, SweptRemembers DEF Sweep, Remembered
  <2> QED BY <1>4, <2>1, <2>2, GuardKeeps DEF Sweep
<1>5. CASE Restart
  <2>1. Durable
    BY <1>1, <1>5, GuardAssumption DEF Restart, GuardTypeOK
  <2>2. UNCHANGED <<expires_at, lifetime, token_expires, time, accepted>> /\ restarts' = restarts + 1
    BY <1>5, <2>1 DEF Restart, Kept
  <2>3. GuardTypeOK' /\ Remembered'
    BY <1>1, <2>2 DEF GuardTypeOK, Remembered
  <2> QED BY <2>2, <2>3, GuardKeeps
<1>6. CASE GuardTick
  <2>1. GuardTypeOK'
    BY <1>1, <1>6 DEF GuardTick, GuardTypeOK
  <2>2. Remembered'
    BY <1>1, <1>6, GuardAssumption DEF GuardTick, GuardTypeOK, Remembered
  <2> QED BY <1>6, <2>1, <2>2, GuardKeeps DEF GuardTick
<1> QED BY <1>2, <1>3, <1>4, <1>5, <1>6, WorkerRequestKeeps DEF GuardNext

\* A replayed request is refused until its replay window has passed, and for good when its
\* token does not outlive the window, over restarts of the durable guard.
THEOREM GuardBlocksReplay ==
  ASSUME Durable \/ MaxRestarts = 0
  PROVE  GuardSpec => []ReplayBlocked
<1>1. GuardIInv => ReplayBlocked
  BY DEF GuardIInv, ReplayBlocked
<1>2. GuardIInv /\ [GuardNext]_guardVars => GuardIInv'
  BY GuardStep
<1> QED BY <1>1, <1>2, GuardInitIInv, PTL DEF GuardSpec

(***************************************************************************)
(* The durable admission slots.  That a late release frees nobody else's   *)
(* slot needs that the ids of the slots of running calls differ, which the *)
(* AUTOINCREMENT counter gives; the bound on the calls then follows from   *)
(* the bound on the rows.                                                  *)
(***************************************************************************)

HoldsSlot(p) == call[p].pc = "running"
Leased(p) == HoldsSlot(p) /\ call[p].expires > clock
SlotOf(p) == [id |-> call[p].slot, expires |-> call[p].expires]

SlotTypeOK ==
  /\ slots \in SUBSET Slots
  /\ sequence \in Nat /\ clock \in Nat \ {0} /\ crashed \in Nat
  /\ call \in [Processes -> [pc : {"idle", "waiting", "running"}, slot : Nat, expires : Nat]]

RowsBounded == IsFiniteSet(slots) /\ Cardinality(slots) <= MaxInflight

\* Ids come from the counter, and no two running calls were given the same.
IdsFromCounter ==
  /\ \A p \in Processes : HoldsSlot(p) => call[p].slot <= sequence
  /\ \A p, q \in Processes : HoldsSlot(p) /\ HoldsSlot(q) /\ call[p].slot = call[q].slot => p = q

SlotIInv == SlotTypeOK /\ RowsBounded /\ IdsFromCounter /\ OwnSlotKept

\* The empty table satisfies the inductive invariant.
LEMMA SlotInitIInv == SlotInit => SlotIInv
<1> SUFFICES ASSUME SlotInit PROVE SlotIInv
  OBVIOUS
<1>1. SlotTypeOK /\ \A p \in Processes : ~HoldsSlot(p)
  BY DEF SlotInit, SlotTypeOK, NoCall, HoldsSlot
<1>2. RowsBounded
  BY FS_EmptySet, SlotAssumption DEF SlotInit, RowsBounded
<1> QED BY <1>1, <1>2 DEF SlotIInv, IdsFromCounter, OwnSlotKept, HoldsSlot

\* Deleting rows keeps the bound on the rows.
LEMMA FewerRows ==
  ASSUME RowsBounded, SlotTypeOK, NEW T \in SUBSET slots
  PROVE  IsFiniteSet(T) /\ Cardinality(T) \in Nat /\ Cardinality(T) <= MaxInflight
<1>1. IsFiniteSet(slots) /\ Cardinality(slots) \in Nat /\ Cardinality(slots) <= MaxInflight
  BY FS_CardinalityType DEF RowsBounded
<1>2. IsFiniteSet(T) /\ Cardinality(T) <= Cardinality(slots) /\ Cardinality(T) \in Nat
  BY <1>1, FS_Subset, FS_CardinalityType
<1> QED BY <1>1, <1>2, SlotAssumption

\* The row of a call within its lease is not expired at any reading of the clock.
LEMMA LeasedRowIsLive ==
  ASSUME SlotIInv, NEW at \in SlotReadings, NEW p \in Processes, Leased(p)
  PROVE  SlotOf(p) \in Live(at)
<1>1. SlotOf(p) \in slots
  BY DEF SlotIInv, OwnSlotKept, Leased, HoldsSlot, SlotOf
<1>2. /\ at \in Nat /\ at <= clock /\ clock \in Nat /\ call[p].expires \in Nat
      /\ call[p].expires > clock
  BY DEF SlotIInv, SlotTypeOK, SlotReadings, Leased
<1>3. SlotOf(p).expires > at
  BY <1>2 DEF SlotOf
<1> QED BY <1>1, <1>3 DEF Live

\* acquire inserts a row only where there is room, under an id that was never used.
LEMMA TryAcquireKeeps ==
  ASSUME SlotIInv, NEW p \in Processes, NEW at \in SlotReadings, TryAcquire(p, at)
  PROVE  SlotIInv'
<1>1. /\ SlotTypeOK /\ RowsBounded /\ IdsFromCounter /\ OwnSlotKept
      /\ at \in Nat /\ sequence \in Nat /\ SlotLease \in Nat
      /\ UNCHANGED <<clock, crashed>>
      /\ Live(at) \in SUBSET slots
  BY SlotAssumption DEF SlotIInv, SlotTypeOK, SlotReadings, TryAcquire, Live
<1>2. /\ IsFiniteSet(Live(at)) /\ Cardinality(Live(at)) \in Nat
      /\ Cardinality(Live(at)) <= MaxInflight
  BY <1>1, FewerRows
<1>3. CASE /\ HasRoom(Live(at))
           /\ slots' = Live(at) \cup {[id |-> sequence + 1, expires |-> at + SlotLease]}
           /\ sequence' = sequence + 1
           /\ call' = [call EXCEPT ![p] = [pc |-> "running", slot |-> sequence + 1,
                                           expires |-> at + SlotLease]]
  <2>1. /\ call'[p] = [pc |-> "running", slot |-> sequence + 1, expires |-> at + SlotLease]
        /\ \A q \in Processes : q # p => call'[q] = call[q]
    BY <1>1, <1>3 DEF SlotTypeOK
  <2>2. SlotTypeOK'
    <3>1. [pc |-> "running", slot |-> sequence + 1, expires |-> at + SlotLease]
            \in [pc : {"idle", "waiting", "running"}, slot : Nat, expires : Nat]
      BY <1>1
    <3>2. [id |-> sequence + 1, expires |-> at + SlotLease] \in Slots
      BY <1>1 DEF Slots
    <3> QED BY <1>1, <1>3, <3>1, <3>2 DEF SlotTypeOK
  <2>3. RowsBounded'
    <3>1. /\ IsFiniteSet(slots')
          /\ Cardinality(slots') \in {Cardinality(Live(at)), Cardinality(Live(at)) + 1}
      BY <1>2, <1>3, FS_AddElement
    <3> QED BY <1>2, <1>3, <3>1, SlotAssumption DEF RowsBounded, HasRoom
  <2>4. IdsFromCounter'
    <3> SUFFICES ASSUME NEW q \in Processes, HoldsSlot(q)'
                 PROVE  /\ call'[q].slot <= sequence + 1
                        /\ \A r \in Processes :
                             HoldsSlot(r)' /\ call'[q].slot = call'[r].slot => q = r
      BY <1>3 DEF IdsFromCounter
    <3>1. \A r \in Processes : r # p /\ HoldsSlot(r)' =>
            HoldsSlot(r) /\ call'[r].slot = call[r].slot /\ call[r].slot \in Nat
                       /\ call[r].slot <= sequence
      BY <1>1, <2>1 DEF HoldsSlot, IdsFromCounter, SlotTypeOK
    <3>2. CASE q = p
      BY <1>1, <2>1, <3>1, <3>2
    <3>3. CASE q # p
      BY <1>1, <2>1, <3>1, <3>3 DEF IdsFromCounter
    <3> QED BY <3>2, <3>3
  <2>5. OwnSlotKept'
    <3> SUFFICES ASSUME NEW q \in Processes, call'[q].pc = "running", call'[q].expires > clock
                 PROVE  [id |-> call'[q].slot, expires |-> call'[q].expires] \in slots'
      BY <1>1 DEF OwnSlotKept
    <3>1. CASE q = p
      BY <1>3, <2>1, <3>1
    <3>2. CASE q # p
      <4>1. call'[q] = call[q] /\ Leased(q)
        BY <2>1, <3>2 DEF Leased, HoldsSlot
      <4> QED BY <1>3, <4>1, LeasedRowIsLive DEF SlotOf
    <3> QED BY <3>1, <3>2
  <2> QED BY <2>2, <2>3, <2>4, <2>5 DEF SlotIInv
<1>4. CASE /\ slots' = Live(at) /\ UNCHANGED sequence
           /\ \E to \in {"waiting", "idle"} : call' = [call EXCEPT ![p] = [NoCall EXCEPT !.pc = to]]
  <2>1. PICK to \in {"waiting", "idle"} : call' = [call EXCEPT ![p] = [NoCall EXCEPT !.pc = to]]
    BY <1>4
  <2>2. [NoCall EXCEPT !.pc = to] = [pc |-> to, slot |-> 0, expires |-> 0]
    BY DEF NoCall
  <2>3. call'[p].pc # "running" /\ \A q \in Processes : q # p => call'[q] = call[q]
    BY <1>1, <2>1, <2>2 DEF SlotTypeOK
  <2>4. SlotTypeOK'
    BY <1>1, <1>4, <2>1, <2>2 DEF SlotTypeOK
  <2>5. RowsBounded'
    BY <1>2, <1>4 DEF RowsBounded
  <2>6. IdsFromCounter'
    BY <1>1, <1>4, <2>3 DEF IdsFromCounter, HoldsSlot
  <2>7. OwnSlotKept'
    <3> SUFFICES ASSUME NEW q \in Processes, call'[q].pc = "running", call'[q].expires > clock
                 PROVE  [id |-> call'[q].slot, expires |-> call'[q].expires] \in slots'
      BY <1>1 DEF OwnSlotKept
    <3>1. call'[q] = call[q] /\ Leased(q)
      BY <2>3 DEF Leased, HoldsSlot
    <3> QED BY <1>4, <3>1, LeasedRowIsLive DEF SlotOf
  <2> QED BY <2>4, <2>5, <2>6, <2>7 DEF SlotIInv
<1> QED BY <1>3, <1>4 DEF TryAcquire, NextId

\* A call that ends, or dies, takes no row of another call within its lease with it.
LEMMA CallEnds ==
  ASSUME SlotIInv, NEW p \in Processes, NEW T \in SUBSET slots,
         slots' = T, call' = [call EXCEPT ![p] = NoCall],
         \A q \in Processes : q # p /\ Leased(q) => SlotOf(q) \in T,
         sequence' = sequence, clock' = clock, crashed' \in Nat
  PROVE  SlotIInv'
<1>1. SlotTypeOK /\ RowsBounded /\ IdsFromCounter
  BY DEF SlotIInv
<1>2. /\ NoCall \in [pc : {"idle", "waiting", "running"}, slot : Nat, expires : Nat]
      /\ NoCall.pc = "idle"
  BY DEF NoCall
<1>3. call'[p].pc = "idle" /\ \A q \in Processes : q # p => call'[q] = call[q]
  BY <1>1, <1>2 DEF SlotTypeOK
<1>4. SlotTypeOK'
  BY <1>1, <1>2 DEF SlotTypeOK
<1>5. RowsBounded'
  BY <1>1, FewerRows DEF RowsBounded
<1>6. IdsFromCounter'
  BY <1>1, <1>3 DEF IdsFromCounter, HoldsSlot
<1>7. OwnSlotKept'
  BY <1>3 DEF OwnSlotKept, Leased, HoldsSlot, SlotOf
<1> QED BY <1>4, <1>5, <1>6, <1>7 DEF SlotIInv

\* Every step of every process keeps the inductive invariant.
LEMMA SlotStep == SlotIInv /\ [SlotNext]_slotVars => SlotIInv'
<1> SUFFICES ASSUME SlotIInv, [SlotNext]_slotVars PROVE SlotIInv'
  OBVIOUS
<1>1. SlotTypeOK /\ RowsBounded /\ IdsFromCounter /\ OwnSlotKept /\ clock \in SlotReadings
  BY SlotAssumption DEF SlotIInv, SlotTypeOK, SlotReadings
<1>2. CASE UNCHANGED slotVars
  BY <1>1, <1>2 DEF slotVars, SlotIInv, SlotTypeOK, RowsBounded, IdsFromCounter, OwnSlotKept, HoldsSlot
<1>3. ASSUME NEW p \in Processes, ReleaseSlot(p) PROVE SlotIInv'
  <2> DEFINE T == {s \in Live(clock) : s.id # call[p].slot}
  <2>1. T \in SUBSET slots
    BY DEF Live
  <2>2. ASSUME NEW q \in Processes, q # p, Leased(q) PROVE SlotOf(q) \in T
    <3>1. SlotOf(q) \in Live(clock)
      BY <1>1, <2>2, LeasedRowIsLive
    <3>2. call[q].slot # call[p].slot
      BY <1>1, <1>3, <2>2 DEF ReleaseSlot, IdsFromCounter, Leased, HoldsSlot
    <3> QED BY <3>1, <3>2 DEF SlotOf
  <2>3. slots' = T /\ call' = [call EXCEPT ![p] = NoCall] /\ UNCHANGED <<sequence, clock, crashed>>
    BY <1>3 DEF ReleaseSlot
  <2>4. crashed' \in Nat
    BY <1>1, <2>3 DEF SlotTypeOK
  <2> HIDE DEF T
  <2> QED BY <2>1, <2>2, <2>3, <2>4, CallEnds
<1>4. ASSUME NEW p \in Processes, CrashCall(p) PROVE SlotIInv'
  <2>1. \A q \in Processes : q # p /\ Leased(q) => SlotOf(q) \in slots
    BY <1>1 DEF OwnSlotKept, Leased, HoldsSlot, SlotOf
  <2>2. crashed' \in Nat
    BY <1>1, <1>4 DEF SlotTypeOK, CrashCall
  <2> QED BY <1>4, <2>1, <2>2, CallEnds DEF CrashCall
<1>5. ASSUME NEW at \in SlotReadings, SlotStats(at) PROVE SlotIInv'
  <2>1. Live(at) \in SUBSET slots /\ slots' = Live(at) /\ UNCHANGED <<sequence, call, clock, crashed>>
    BY <1>5 DEF SlotStats, Live
  <2>2. RowsBounded'
    BY <1>1, <2>1, FewerRows DEF RowsBounded
  <2>3. OwnSlotKept'
    BY <2>1, LeasedRowIsLive DEF OwnSlotKept, Leased, HoldsSlot, SlotOf
  <2> QED BY <1>1, <2>1, <2>2, <2>3 DEF SlotIInv, SlotTypeOK, IdsFromCounter, HoldsSlot
<1>6. CASE SlotTick
  <2>1. clock' = clock + 1 /\ UNCHANGED <<slots, sequence, call, crashed>> /\ clock \in Nat
    BY <1>1, <1>6 DEF SlotTick, SlotTypeOK
  <2>2. OwnSlotKept'
    BY <1>1, <2>1 DEF OwnSlotKept, SlotTypeOK
  <2> QED BY <1>1, <2>1, <2>2 DEF SlotIInv, SlotTypeOK, RowsBounded, IdsFromCounter, HoldsSlot
<1> QED BY <1>2, <1>3, <1>4, <1>5, <1>6, TryAcquireKeeps DEF SlotNext

\* Each call within its lease has a row of its own, and there are no more rows than the
\* limit allows, so neither are there calls.
LEMMA LeasedBounded == SlotIInv => LeasedCallsBounded
<1> SUFFICES ASSUME SlotIInv PROVE LeasedCallsBounded
  OBVIOUS
<1> DEFINE P == {p \in Processes : call[p].pc = "running" /\ call[p].expires > clock}
           f == [p \in P |-> SlotOf(p)]
<1>1. f \in [P -> slots]
  BY DEF SlotIInv, OwnSlotKept, SlotOf
<1>2. \A p, q \in P : f[p] = f[q] => p = q
  BY DEF SlotIInv, IdsFromCounter, HoldsSlot, SlotOf
<1> HIDE DEF P, f
<1>3. f \in Injection(P, slots)
  BY <1>1, <1>2, Fun_IsInj
<1>4. IsFiniteSet(slots) /\ Cardinality(slots) \in Nat /\ Cardinality(slots) <= MaxInflight
  BY FS_CardinalityType DEF SlotIInv, RowsBounded
<1>5. IsFiniteSet(P) /\ Cardinality(P) <= Cardinality(slots)
  BY <1>3, <1>4, FS_Injection
<1>6. Cardinality(P) \in Nat
  BY <1>5, FS_CardinalityType
<1> QED BY <1>4, <1>5, <1>6, SlotAssumption DEF LeasedCallsBounded, P

\* Across processes, crashes, late releases and old clock readings, a running call keeps
\* its slot to the end of its lease, and at most MaxInflight calls are within theirs.
THEOREM SlotsAreHonoured == SlotSpec => []SlotsHonoured
<1>1. SlotIInv => SlotsHonoured
  BY LeasedBounded DEF SlotIInv, SlotsHonoured
<1> QED BY <1>1, SlotInitIInv, SlotStep, PTL DEF SlotSpec

(***************************************************************************)
(* The rate limiter.  A window's count is the number of requests allowed   *)
(* in it only as long as windows are entered in order and one process      *)
(* writes the row: that is proved for a limiter whose clock reading is not *)
(* older than the lock and whose rows have one server.                     *)
(***************************************************************************)

\* Later readings of the clock lie in the same window or a later one.
LEMMA WindowsInOrder ==
  ASSUME NEW a \in Nat, NEW b \in Nat, a <= b
  PROVE  Window(a) \in Nat /\ Window(a) <= Window(b)
<1>1. WindowSeconds \in Nat /\ WindowSeconds > 0
  BY RateAssumption
<1>2. /\ Window(a) \in Nat /\ WindowSeconds * Window(a) <= a
      /\ Window(b) \in Nat /\ b < WindowSeconds * (Window(b) + 1)
  BY <1>1 DEF Window
<1>3. WindowSeconds * Window(a) < WindowSeconds * (Window(b) + 1)
  BY <1>1, <1>2
<1> QED BY <1>1, <1>2, <1>3

RateTypeOK ==
  /\ windows \in [Buckets -> [window : Nat, count : Nat]]
  /\ request \in [Servers -> [bucket : Buckets, at : Nat, count : Nat] \cup {NoRow}]
  /\ seconds \in Nat /\ seconds <= RateTime
  /\ allowed \in [Buckets -> [WindowIds -> Nat]]
  /\ refused \in SUBSET [bucket : Buckets, window : WindowIds]

\* The row of a bucket counts the requests allowed in its window, no window ahead of it
\* has been used, and none has been overrun.
RowsCount ==
  \A b \in Buckets :
    /\ windows[b].window <= Window(seconds)
    /\ allowed[b][windows[b].window] = windows[b].count
    /\ \A w \in WindowIds :
         /\ allowed[b][w] <= MaxRequests
         /\ w > windows[b].window => allowed[b][w] = 0

\* A row that was selected is still what the table says when it is replaced.
SelectionCurrent ==
  \A s \in Servers : request[s] # NoRow =>
    /\ backend = "sqlite" /\ request[s].bucket \in Buckets
    /\ request[s].at \in Nat /\ request[s].at <= seconds
    /\ windows[request[s].bucket].window <= Window(request[s].at)
    /\ request[s].count = CountAt(request[s].bucket, request[s].at)
    /\ request[s].count < MaxRequests

RefusedWhenFull == \A r \in refused : allowed[r.bucket][r.window] = MaxRequests

RateIInv == RateTypeOK /\ RowsCount /\ SelectionCurrent /\ RefusedWhenFull

\* The limiter as it is built satisfies the inductive invariant.
LEMMA RateInitIInv == RateInit => RateIInv
<1> SUFFICES ASSUME RateInit PROVE RateIInv
  OBVIOUS
<1>1. Window(0) \in Nat /\ Window(RateTime) \in Nat /\ 0 \in WindowIds /\ WindowIds \subseteq Nat
  BY WindowsInOrder, RateAssumption DEF WindowIds
<1>2. RateTypeOK
  BY <1>1, RateAssumption DEF RateInit, RateTypeOK
<1>3. RowsCount
  BY <1>1, RateAssumption DEF RateInit, RowsCount
<1> QED BY <1>2, <1>3 DEF RateIInv, RateInit, SelectionCurrent, RefusedWhenFull

\* The count that applies to a request is the number of requests allowed in its window.
LEMMA CountIsAllowed ==
  ASSUME RateIInv, NEW b \in Buckets, NEW at \in Nat, at <= seconds,
         windows[b].window <= Window(at)
  PROVE  /\ Window(at) \in WindowIds /\ windows[b].window \in WindowIds
         /\ CountAt(b, at) \in Nat /\ allowed[b][Window(at)] = CountAt(b, at)
         /\ Window(at) <= Window(seconds)
<1>1. /\ seconds \in Nat /\ RateTime \in Nat /\ seconds <= RateTime
      /\ windows[b].window \in Nat /\ windows[b].count \in Nat
  BY RateAssumption DEF RateIInv, RateTypeOK
<1>2. /\ Window(at) \in Nat /\ Window(seconds) \in Nat /\ Window(RateTime) \in Nat
      /\ Window(at) <= Window(seconds) /\ Window(seconds) <= Window(RateTime)
  BY <1>1, WindowsInOrder
<1>3. Window(at) \in WindowIds /\ windows[b].window \in WindowIds
  BY <1>1, <1>2 DEF WindowIds
<1> QED BY <1>1, <1>2, <1>3 DEF CountAt, RateIInv, RowsCount

\* A request that is counted leaves the row and the history in agreement.
LEMMA CountedKeeps ==
  ASSUME RateIInv, NEW b \in Buckets, NEW at \in Nat, at <= seconds,
         windows[b].window <= Window(at), CountAt(b, at) < MaxRequests,
         Counted(b, at, CountAt(b, at)), UNCHANGED seconds,
         request' \in [Servers -> [bucket : Buckets, at : Nat, count : Nat] \cup {NoRow}]
  PROVE  RateTypeOK' /\ RowsCount' /\ RefusedWhenFull'
<1> DEFINE n == CountAt(b, at)
           w == Window(at)
<1>1. /\ RateTypeOK /\ RowsCount /\ RefusedWhenFull /\ MaxRequests \in Nat
      /\ w \in WindowIds /\ windows[b].window \in WindowIds /\ n \in Nat
      /\ allowed[b][w] = n /\ w <= Window(seconds) /\ WindowIds \subseteq Nat
  BY CountIsAllowed, RateAssumption DEF RateIInv, WindowIds
<1>2. /\ windows' = [windows EXCEPT ![b] = [window |-> w, count |-> n + 1]]
      /\ allowed' = [allowed EXCEPT ![b] = [allowed[b] EXCEPT ![w] = allowed[b][w] + 1]]
      /\ refused' = refused /\ n < MaxRequests /\ windows[b].window <= w
  BY DEF Counted
<1> HIDE DEF n, w
<1>3. /\ windows'[b] = [window |-> w, count |-> n + 1]
      /\ allowed'[b] = [allowed[b] EXCEPT ![w] = n + 1]
      /\ \A c \in Buckets : c # b => windows'[c] = windows[c] /\ allowed'[c] = allowed[c]
  BY <1>1, <1>2 DEF RateTypeOK
<1>4. /\ allowed[b] \in [WindowIds -> Nat]
      /\ allowed'[b][w] = n + 1
      /\ \A v \in WindowIds : v # w => allowed'[b][v] = allowed[b][v]
  BY <1>1, <1>3 DEF RateTypeOK
<1>5. RateTypeOK'
  <2>1. [allowed[b] EXCEPT ![w] = allowed[b][w] + 1] \in [WindowIds -> Nat]
    BY <1>1, <1>4
  <2>2. [window |-> w, count |-> n + 1] \in [window : Nat, count : Nat]
    BY <1>1
  <2> QED BY <1>1, <1>2, <2>1, <2>2 DEF RateTypeOK
<1>6. RowsCount'
  <2> SUFFICES ASSUME NEW c \in Buckets
               PROVE  /\ windows'[c].window <= Window(seconds)
                      /\ allowed'[c][windows'[c].window] = windows'[c].count
                      /\ \A v \in WindowIds :
                           /\ allowed'[c][v] <= MaxRequests
                           /\ v > windows'[c].window => allowed'[c][v] = 0
    BY DEF RowsCount
  <2>1. CASE c # b
    BY <1>1, <1>3, <2>1 DEF RowsCount
  <2>2. CASE c = b
    <3>1. windows'[b].window = w /\ windows'[b].count = n + 1
      BY <1>3
    <3>2. ASSUME NEW v \in WindowIds
          PROVE  allowed'[b][v] <= MaxRequests /\ (v > w => allowed'[b][v] = 0)
      <4>1. CASE v = w
        BY <1>1, <1>2, <1>4, <4>1
      <4>2. CASE v # w
        <5>1. windows[b].window \in Nat /\ v \in Nat /\ w \in Nat
          BY <1>1
        <5>2. v > w => v > windows[b].window
          BY <1>2, <5>1
        <5> QED BY <1>1, <1>4, <4>2, <5>2 DEF RowsCount
      <4> QED BY <4>1, <4>2
    <3> QED BY <1>1, <1>4, <2>2, <3>1, <3>2
  <2> QED BY <2>1, <2>2
<1>7. RefusedWhenFull'
  <2> SUFFICES ASSUME NEW r \in refused PROVE allowed'[r.bucket][r.window] = MaxRequests
    BY <1>2 DEF RefusedWhenFull
  <2>1. r.bucket \in Buckets /\ r.window \in WindowIds /\ allowed[r.bucket][r.window] = MaxRequests
    BY <1>1 DEF RateTypeOK, RefusedWhenFull
  <2>2. ~(r.bucket = b /\ r.window = w)
    BY <1>1, <1>2, <2>1
  <2> QED BY <1>3, <1>4, <2>1, <2>2
<1> QED BY <1>5, <1>6, <1>7

\* A request is turned away only when its bucket has used up the window.
LEMMA TurnedKeeps ==
  ASSUME RateIInv, NEW b \in Buckets, NEW at \in Nat, at <= seconds,
         windows[b].window <= Window(at), Spent(CountAt(b, at)), Turned(b, at),
         UNCHANGED <<backend, seconds, request>>
  PROVE  RateIInv'
<1>1. /\ Window(at) \in WindowIds /\ CountAt(b, at) \in Nat
      /\ allowed[b][Window(at)] = CountAt(b, at)
  BY CountIsAllowed
<1>2. CountAt(b, at) >= MaxRequests /\ MaxRequests \in Nat /\ allowed[b][Window(at)] <= MaxRequests
  BY <1>1, RateAssumption DEF Spent, RateIInv, RowsCount
<1>3. allowed[b][Window(at)] = MaxRequests
  BY <1>1, <1>2
<1>4. /\ refused' = refused \cup {[bucket |-> b, window |-> Window(at)]}
      /\ UNCHANGED <<windows, allowed>>
  BY DEF Turned
<1>5. RateTypeOK' /\ RefusedWhenFull'
  BY <1>1, <1>3, <1>4 DEF RateIInv, RateTypeOK, RefusedWhenFull
<1> QED BY <1>4, <1>5 DEF RateIInv, RowsCount, SelectionCurrent, CountAt

\* Every step of a limiter that reads the clock under its lock, over rows that one server
\* writes, keeps the inductive invariant.
LEMMA RateStep ==
  ASSUME RateLag = 0, \A s, u \in Servers : s = u, RateIInv, [RateNext]_rateVars
  PROVE  RateIInv'
<1>1. RateTypeOK /\ RowsCount /\ SelectionCurrent /\ RefusedWhenFull /\ seconds \in Nat
  BY DEF RateIInv, RateTypeOK
<1>2. \A at \in RateReadings : at = seconds
  BY <1>1 DEF RateReadings
<1>3. \A b \in Buckets : windows[b].window <= Window(seconds)
  BY <1>1 DEF RowsCount
<1>4. CASE UNCHANGED rateVars
  BY <1>1, <1>4 DEF rateVars, RateIInv, RateTypeOK, RowsCount, SelectionCurrent, RefusedWhenFull,
                    CountAt
<1>5. ASSUME NEW b \in Buckets, Allow(b, seconds) PROVE RateIInv'
  <2>1. UNCHANGED <<backend, request, seconds>> /\ backend = "memory"
    BY <1>5 DEF Allow
  <2>2. CASE Spent(CountAt(b, seconds))
    BY <1>1, <1>3, <1>5, <2>1, <2>2, TurnedKeeps DEF Allow
  <2>3. CASE ~Spent(CountAt(b, seconds))
    <3>1. CountAt(b, seconds) < MaxRequests
      BY <1>1, <1>3, <2>3, CountIsAllowed, RateAssumption DEF Spent
    <3>2. RateTypeOK' /\ RowsCount' /\ RefusedWhenFull'
      <4>1. request' \in [Servers -> [bucket : Buckets, at : Nat, count : Nat] \cup {NoRow}]
        BY <1>1, <2>1 DEF RateTypeOK
      <4> QED BY <1>1, <1>3, <1>5, <2>1, <2>3, <3>1, <4>1, CountedKeeps DEF Allow
    <3>3. SelectionCurrent'
      BY <1>1, <2>1 DEF SelectionCurrent
    <3> QED BY <3>2, <3>3 DEF RateIInv
  <2> QED BY <2>2, <2>3
<1>6. ASSUME NEW b \in Buckets, NEW s \in Servers, SelectRow(s, b, seconds) PROVE RateIInv'
  <2>1. UNCHANGED <<backend, seconds>> /\ backend = "sqlite"
    BY <1>6 DEF SelectRow
  <2>2. CASE Spent(CountAt(b, seconds)) /\ Turned(b, seconds) /\ UNCHANGED request
    BY <1>1, <1>3, <2>1, <2>2, TurnedKeeps
  <2>3. CASE /\ ~Spent(CountAt(b, seconds))
             /\ request' = [request EXCEPT ![s] = [bucket |-> b, at |-> seconds,
                                                   count |-> CountAt(b, seconds)]]
             /\ UNCHANGED <<windows, allowed, refused>>
    <3> DEFINE row == [bucket |-> b, at |-> seconds, count |-> CountAt(b, seconds)]
    <3>1. CountAt(b, seconds) \in Nat /\ CountAt(b, seconds) < MaxRequests
      BY <1>1, <1>3, <2>3, CountIsAllowed, RateAssumption DEF Spent
    <3>2. row \in [bucket : Buckets, at : Nat, count : Nat]
      BY <1>1, <3>1
    <3>3. /\ row.bucket = b /\ row.at = seconds /\ row.count = CountAt(b, seconds)
          /\ request' = [request EXCEPT ![s] = row]
      BY <2>3
    <3> HIDE DEF row
    <3>4. RateTypeOK'
      BY <1>1, <2>1, <2>3, <3>2, <3>3 DEF RateTypeOK
    <3>5. \A u \in Servers : request'[u] = row
      BY <1>1, <3>3 DEF RateTypeOK
    <3>6. SelectionCurrent'
      <4>1. CountAt(b, seconds)' = CountAt(b, seconds)
        BY <2>1, <2>3 DEF CountAt
      <4>2. /\ b \in Buckets /\ seconds <= seconds
            /\ windows'[b].window <= Window(seconds)
        BY <1>1, <1>3, <2>3
      <4> QED BY <1>1, <2>1, <2>3, <3>1, <3>3, <3>5, <4>1, <4>2 DEF SelectionCurrent, CountAt
    <3> QED BY <1>1, <2>1, <2>3, <3>4, <3>6 DEF RateIInv, RowsCount, RefusedWhenFull
  <2> QED BY <1>6, <2>2, <2>3 DEF SelectRow
<1>7. ASSUME NEW s \in Servers, ReplaceRow(s) PROVE RateIInv'
  <2>1. PICK b, at, n : b = request[s].bucket /\ at = request[s].at /\ n = request[s].count
    OBVIOUS
  <2>2. /\ b \in Buckets /\ at \in Nat /\ at <= seconds /\ windows[b].window <= Window(at)
        /\ n = CountAt(b, at) /\ n < MaxRequests
    BY <1>1, <1>7, <2>1 DEF ReplaceRow, SelectionCurrent
  <2>3. /\ Counted(b, at, n) /\ request' = [request EXCEPT ![s] = NoRow]
        /\ UNCHANGED <<backend, seconds>>
    BY <1>7, <2>1 DEF ReplaceRow
  <2>4. request' \in [Servers -> [bucket : Buckets, at : Nat, count : Nat] \cup {NoRow}]
    BY <1>1, <2>3 DEF RateTypeOK
  <2>5. RateTypeOK' /\ RowsCount' /\ RefusedWhenFull'
    BY <2>2, <2>3, <2>4, CountedKeeps
  <2>6. \A u \in Servers : request'[u] = NoRow
    BY <1>1, <2>3 DEF RateTypeOK
  <2> QED BY <2>5, <2>6 DEF RateIInv, SelectionCurrent
<1>8. CASE RateTick
  <2>1. seconds' = seconds + 1 /\ seconds < RateTime /\ UNCHANGED <<backend, windows, request, allowed, refused>>
    BY <1>8 DEF RateTick
  <2>2. RateTypeOK'
    BY <1>1, <2>1, RateAssumption DEF RateTypeOK
  <2>3. Window(seconds) \in Nat /\ Window(seconds + 1) \in Nat /\ Window(seconds) <= Window(seconds + 1)
    BY <1>1, WindowsInOrder
  <2>4. RowsCount'
    <3> SUFFICES ASSUME NEW b \in Buckets PROVE windows[b].window <= Window(seconds + 1)
      BY <1>1, <2>1 DEF RowsCount
    <3>1. windows[b].window \in Nat
      BY <1>1 DEF RateTypeOK
    <3> QED BY <1>3, <2>3, <3>1
  <2>5. SelectionCurrent'
    BY <1>1, <2>1 DEF SelectionCurrent, CountAt
  <2> QED BY <1>1, <2>1, <2>2, <2>4, <2>5 DEF RateIInv, RefusedWhenFull
<1> QED BY <1>2, <1>4, <1>5, <1>6, <1>7, <1>8 DEF RateNext

\* A bucket gets at most MaxRequests per window and is refused only once it has had them,
\* when the clock is not read ahead of the lock and the rows have one server.
THEOREM RateWithinLimit ==
  ASSUME RateLag = 0, \A s, u \in Servers : s = u
  PROVE  RateSpec => []WithinLimit
<1>1. RateIInv => WithinLimit
  BY DEF RateIInv, RowsCount, RefusedWhenFull, WithinLimit
<1>2. RateIInv /\ [RateNext]_rateVars => RateIInv'
  BY RateStep
<1> QED BY <1>1, <1>2, RateInitIInv, PTL DEF RateSpec

(***************************************************************************)
(* The tenant's policy.  What is stored was resolved from some overlay     *)
(* that was accepted, and what was resolved once resolves to itself; a     *)
(* turn that runs was decided by the chain of the overlay that it read.    *)
(***************************************************************************)

\* o is what resolving an accepted overlay gives.
FromAccepted(o) == \E raw : Resolves(raw) /\ o = Normalized(raw)

EditFields == {"at", "old", "new", "needs", "tier"}
TurnFields == {"at", "overlay", "text", "tier", "decision"}

\* What a request that waits for the audit trail will store was accepted.
EditHolds(e) == DOMAIN e = EditFields /\ (e.at = "audit" => FromAccepted(e.new))

\* A turn that was evaluated holds the decision of the overlay that it read.
TurnHolds(t) ==
  /\ DOMAIN t = TurnFields
  /\ t.at \in {"evaluated", "running"} =>
       t.decision = IF Resolves(t.overlay) THEN IngressDecision(t.overlay, t.text)
                    ELSE Decision("deny", "profile_config")
  /\ t.at = "running" => t.decision.action = "allow"

PolicyIInv ==
  /\ policy = NoOverlay \/ FromAccepted(policy)
  /\ DOMAIN edits = PolicyRequests /\ \A r \in PolicyRequests : EditHolds(edits[r])
  /\ DOMAIN governed = PolicyTurns /\ \A q \in PolicyTurns : TurnHolds(governed[q])

\* The keys that resolving sets.
IngressKeys ==
  {"profile", "max_chars", "phrases", "mode", "threshold", "signals", "plugin", "rules", "timeout"}

\* The settings that have a default of their own.
ThresholdOf(o) == Get(o, "threshold", 65)
SignalsOf(o) == Get(o, "signals", DefaultSignals)
PluginOf(o) == Get(o, "plugin", "")
RulesOf(o) == Get(o, "rules", <<>>)
TimeoutOf(o) == Get(o, "timeout", 2000)

\* What to_overlay_patch says of each.
PatchSays(o, raw) ==
  /\ o["profile"] = ProfileName(raw) /\ o["max_chars"] = MaxChars(raw)
  /\ o["phrases"] = Phrases(raw) /\ o["mode"] = ClassifierMode(raw)
  /\ o["threshold"] = ThresholdOf(raw)
  /\ o["signals"] = SignalsOf(raw)
  /\ o["plugin"] = PluginOf(raw) /\ o["rules"] = RulesOf(raw)
  /\ o["timeout"] = TimeoutOf(raw)

\* Those keys are set, the others are left.
ResolvedFrom(o, raw) ==
  /\ DOMAIN o = DOMAIN raw \cup IngressKeys
  /\ o = [k \in DOMAIN raw \cup IngressKeys |-> o[k]]
  /\ \A k \in DOMAIN raw : k \notin IngressKeys => o[k] = raw[k]
  /\ PatchSays(o, raw)

\* That is what resolving does.
LEMMA NormalizedGives ==
  ASSUME NEW raw, NEW o, o = Normalized(raw)
  PROVE  ResolvedFrom(o, raw)
<1>1. PICK p : p = OverlayPatch(raw)
  OBVIOUS
<1>2. DOMAIN p = IngressKeys
  BY <1>1 DEF OverlayPatch, IngressKeys
<1>3. PatchSays(p, raw)
  BY <1>1 DEF OverlayPatch, PatchSays, ThresholdOf, SignalsOf, PluginOf, RulesOf, TimeoutOf
<1>4. o = [k \in DOMAIN raw \cup DOMAIN p |-> IF k \in DOMAIN p THEN p[k] ELSE raw[k]]
  BY <1>1 DEF Normalized, Updated
<1>5. /\ DOMAIN o = DOMAIN raw \cup IngressKeys
      /\ o = [k \in DOMAIN raw \cup IngressKeys |-> o[k]]
      /\ \A k \in DOMAIN raw : k \notin IngressKeys => o[k] = raw[k]
      /\ \A k \in IngressKeys : o[k] = p[k]
  BY <1>2, <1>4
<1>6. /\ o["profile"] = p["profile"] /\ o["max_chars"] = p["max_chars"]
      /\ o["phrases"] = p["phrases"] /\ o["mode"] = p["mode"]
      /\ o["threshold"] = p["threshold"] /\ o["signals"] = p["signals"]
      /\ o["plugin"] = p["plugin"] /\ o["rules"] = p["rules"] /\ o["timeout"] = p["timeout"]
  <2>1. /\ "profile" \in IngressKeys /\ "max_chars" \in IngressKeys /\ "phrases" \in IngressKeys
        /\ "mode" \in IngressKeys /\ "threshold" \in IngressKeys /\ "signals" \in IngressKeys
        /\ "plugin" \in IngressKeys /\ "rules" \in IngressKeys /\ "timeout" \in IngressKeys
    BY DEF IngressKeys
  <2> QED
    BY <1>5, <2>1
<1>7. PatchSays(o, raw)
  BY <1>3, <1>6 DEF PatchSays
<1> QED
  BY <1>5, <1>7 DEF ResolvedFrom

\* What is set is what Get finds.
LEMMA GetsSet == \A o : \A k \in DOMAIN o : \A d : Get(o, k, d) = o[k]
BY DEF Get

\* An accepted overlay, resolved, is accepted and resolves to itself.
LEMMA ResolvedIsStable ==
  ASSUME NEW raw, NEW o, Resolves(raw), o = Normalized(raw)
  PROVE  Resolves(o) /\ Normalized(o) = o /\ "malformed" \notin DOMAIN o
<1>1. /\ ProfileName(raw) \in {"baseline", "strict", "hardened"}
      /\ ClassifierMode(raw) \in {"off", "shadow", "enforce"}
      /\ "malformed" \notin DOMAIN raw
  BY DEF Resolves, ProfileBaselines, ClassifierAccepted
<1>2. DOMAIN o = DOMAIN raw \cup IngressKeys /\ PatchSays(o, raw)
  BY NormalizedGives DEF ResolvedFrom
<1>3. /\ "profile" \in DOMAIN o /\ "max_chars" \in DOMAIN o /\ "phrases" \in DOMAIN o
      /\ "mode" \in DOMAIN o /\ "threshold" \in DOMAIN o /\ "signals" \in DOMAIN o
      /\ "plugin" \in DOMAIN o /\ "rules" \in DOMAIN o /\ "timeout" \in DOMAIN o
      /\ "malformed" \notin DOMAIN o
  BY <1>1, <1>2 DEF IngressKeys
<1>4. /\ Get(o, "profile", "baseline") = ProfileName(raw)
      /\ Get(o, "mode", "off") = ClassifierMode(raw)
  BY <1>2, <1>3, GetsSet DEF PatchSays
<1>5. ProfileName(o) = ProfileName(raw)
  BY <1>1, <1>4 DEF ProfileName
<1>6. ClassifierMode(o) = ClassifierMode(raw)
  BY <1>1, <1>4 DEF ClassifierMode
<1>7. Baseline(o) = Baseline(raw)
  BY <1>5 DEF Baseline
<1>8. MaxChars(o) = MaxChars(raw) /\ Phrases(o) = Phrases(raw)
  <2>1. o["max_chars"] = MaxChars(raw) /\ o["phrases"] = Phrases(raw)
    BY <1>2 DEF PatchSays
  <2>2. MaxChars(o) = o["max_chars"] /\ Phrases(o) = o["phrases"]
    BY <1>3, GetsSet DEF MaxChars, Phrases
  <2> QED
    BY <2>1, <2>2
<1>9. /\ ThresholdOf(o) = ThresholdOf(raw)
      /\ SignalsOf(o) = SignalsOf(raw)
      /\ PluginOf(o) = PluginOf(raw)
      /\ RulesOf(o) = RulesOf(raw)
      /\ TimeoutOf(o) = TimeoutOf(raw)
  <2>1. /\ ThresholdOf(o) = o["threshold"] /\ SignalsOf(o) = o["signals"]
        /\ PluginOf(o) = o["plugin"] /\ RulesOf(o) = o["rules"] /\ TimeoutOf(o) = o["timeout"]
    BY <1>3 DEF ThresholdOf, SignalsOf, PluginOf, RulesOf, TimeoutOf, Get
  <2> QED
    BY <1>2, <2>1 DEF PatchSays
<1>10. Resolves(o)
  <2>1. MaxCharsAccepted(o) /\ PhrasesAccepted(o) /\ ProfileName(o) \in DOMAIN ProfileBaselines
    BY <1>5, <1>7, <1>8 DEF Resolves, MaxCharsAccepted, PhrasesAccepted
  <2>2. ClassifierAccepted(o)
    BY <1>6, <1>9 DEF Resolves, ClassifierAccepted, ThresholdOf, SignalsOf
  <2>3. PluginAccepted(PluginOf(o)) /\ RulesAccepted(RulesOf(o))
    BY <1>9 DEF Resolves, PluginOf, RulesOf
  <2> QED
    BY <1>3, <2>1, <2>2, <2>3 DEF Resolves, PluginOf, RulesOf
<1>11. Normalized(o) = o
  <2>1. PICK n : n = Normalized(o)
    OBVIOUS
  <2>2. /\ DOMAIN n = DOMAIN o \cup IngressKeys /\ n = [k \in DOMAIN o \cup IngressKeys |-> n[k]]
        /\ \A k \in DOMAIN o : k \notin IngressKeys => n[k] = o[k]
        /\ PatchSays(n, o)
    <3>1. ResolvedFrom(n, o)
      BY <2>1, NormalizedGives
    <3> QED
      BY <3>1 DEF ResolvedFrom
  <2>3. DOMAIN o \cup IngressKeys = DOMAIN o /\ o = [k \in DOMAIN o |-> o[k]]
    BY <1>2, NormalizedGives DEF ResolvedFrom
  <2>4. /\ n["profile"] = o["profile"] /\ n["max_chars"] = o["max_chars"]
        /\ n["phrases"] = o["phrases"] /\ n["mode"] = o["mode"]
        /\ n["threshold"] = o["threshold"] /\ n["signals"] = o["signals"]
        /\ n["plugin"] = o["plugin"] /\ n["rules"] = o["rules"] /\ n["timeout"] = o["timeout"]
    BY <1>2, <1>5, <1>6, <1>8, <1>9, <2>2 DEF PatchSays
  <2>5. \A k \in IngressKeys : n[k] = o[k]
    BY <2>4 DEF IngressKeys
  <2>6. \A k \in DOMAIN o : n[k] = o[k]
    BY <2>2, <2>5
  <2> QED
    BY <2>1, <2>2, <2>3, <2>6
<1> QED
  BY <1>3, <1>10, <1>11

\* The keys of a template, each of which it may be asked for.
TemplateKeys == {"deny", "profile", "rules", "mode", "threshold", "signals"}

\* A template's own settings are acceptable.
LEMMA TemplatesAreAccepted ==
  ASSUME NEW t \in PolicyTemplates
  PROVE  /\ DOMAIN t = TemplateKeys
         /\ t["profile"] \in {"strict", "hardened"} /\ t["mode"] \in {"shadow", "enforce"}
         /\ t["threshold"] \in 0..100 /\ t["signals"] # {} /\ RulesAccepted(t["rules"])
<1>1. ASSUME NEW id, NEW action \in {"deny", "escalate"}, NEW patterns, patterns # {}
      PROVE  RulesAccepted(<<Rule(id, action, patterns)>>)
  <2>1. PICK r : r = Rule(id, action, patterns)
    OBVIOUS
  <2>2. r.action = action /\ r.patterns = patterns
    BY <2>1 DEF Rule
  <2>3. PICK s : s = <<r>>
    OBVIOUS
  <2>4. Len(s) = 1 /\ DOMAIN s = {1} /\ s[1] = r
    BY <2>3
  <2>5. RulesAccepted(s)
    BY <1>1, <2>2, <2>4 DEF RulesAccepted, IsInjective
  <2> QED
    BY <2>1, <2>3, <2>5
<1>2. ASSUME NEW i, NEW j, i # j, NEW a \in {"deny", "escalate"}, NEW b \in {"deny", "escalate"},
             NEW p, p # {}, NEW q, q # {}
      PROVE  RulesAccepted(<<Rule(i, a, p), Rule(j, b, q)>>)
  <2>1. PICK r, u : r = Rule(i, a, p) /\ u = Rule(j, b, q)
    OBVIOUS
  <2>2. r.id = i /\ r.action = a /\ r.patterns = p /\ u.id = j /\ u.action = b /\ u.patterns = q
    BY <2>1 DEF Rule
  <2>3. PICK s : s = <<r, u>>
    OBVIOUS
  <2>4. Len(s) = 2 /\ DOMAIN s = {1, 2} /\ s[1] = r /\ s[2] = u
    BY <2>3
  <2>5. RulesAccepted(s)
    BY <1>2, <2>2, <2>4 DEF RulesAccepted, IsInjective
  <2> QED
    BY <2>1, <2>3, <2>5
<1>3. /\ RulesAccepted(<<Rule("protocol", "escalate", {"bypass policy"})>>)
      /\ RulesAccepted(<<Rule("secrets", "deny", {"export secrets", "dump credentials"}),
                         Rule("exfiltration", "escalate", {"extract data"})>>)
  BY <1>1, <1>2
<1>4. ASSUME NEW d, NEW p \in {"strict", "hardened"}, NEW m \in {"shadow", "enforce"},
             NEW n \in 0..100, NEW s, s # {}, NEW r, RulesAccepted(r),
             t = [deny |-> d, profile |-> p, rules |-> r, mode |-> m, threshold |-> n, signals |-> s]
      PROVE  /\ DOMAIN t = TemplateKeys
             /\ t["profile"] \in {"strict", "hardened"} /\ t["mode"] \in {"shadow", "enforce"}
             /\ t["threshold"] \in 0..100 /\ t["signals"] # {} /\ RulesAccepted(t["rules"])
  <2>1. DOMAIN t = TemplateKeys
    BY <1>4 DEF TemplateKeys
  <2>2. t["profile"] = p /\ t["mode"] = m /\ t["threshold"] = n /\ t["signals"] = s
    BY <1>4
  <2>3. t["rules"] = r
    BY <1>4
  <2> QED
    BY <1>4, <2>1, <2>2, <2>3
<1>5. PICK r1, r2, s1, s2, d2 :
        /\ r1 = <<Rule("protocol", "escalate", {"bypass policy"})>>
        /\ r2 = <<Rule("secrets", "deny", {"export secrets", "dump credentials"}),
                  Rule("exfiltration", "escalate", {"extract data"})>>
        /\ s1 = {"ignore protocol", "bypass policy", "skip guardrails", "disable moderation"}
        /\ s2 = {"export secrets", "dump credentials", "extract data", "bypass controls"}
        /\ d2 = {"delete_records"}
  OBVIOUS
<1>6. \/ t = [deny |-> {}, profile |-> "strict", rules |-> r1, mode |-> "shadow",
              threshold |-> 35, signals |-> s1]
      \/ t = [deny |-> d2, profile |-> "hardened", rules |-> r2, mode |-> "enforce",
              threshold |-> 28, signals |-> s2]
  BY <1>5, Zenon DEF PolicyTemplates
<1>7. s1 # {} /\ s2 # {} /\ RulesAccepted(r1) /\ RulesAccepted(r2)
  BY <1>3, <1>5
<1>8. 35 \in 0..100 /\ 28 \in 0..100
  OBVIOUS
<1>9. CASE t = [deny |-> {}, profile |-> "strict", rules |-> r1, mode |-> "shadow",
                threshold |-> 35, signals |-> s1]
  BY <1>4, <1>7, <1>8, <1>9
<1>10. CASE t = [deny |-> d2, profile |-> "hardened", rules |-> r2, mode |-> "enforce",
                 threshold |-> 28, signals |-> s2]
  BY <1>4, <1>7, <1>8, <1>10
<1> QED
  BY <1>6, <1>9, <1>10

\* Every template can be applied over what is kept of a policy.
LEMMA TemplatesApply ==
  ASSUME NEW kept, "malformed" \notin DOMAIN kept, NEW t \in PolicyTemplates
  PROVE  Resolves(Compiled(t, kept, NoOverlay))
<1>1. PICK c : c = Compiled(t, kept, NoOverlay)
  OBVIOUS
<1>2. PICK unlocked : unlocked = [k \in DOMAIN kept \ LockedKeys |-> kept[k]]
  OBVIOUS
<1>3. PICK below : below = Updated([deny |-> {}], unlocked)
  OBVIOUS
<1>4. DOMAIN below = {"deny"} \cup (DOMAIN kept \ LockedKeys)
  BY <1>2, <1>3 DEF Updated
<1>5. PICK over : over = Updated(below, t)
  OBVIOUS
<1>6. DOMAIN over = DOMAIN below \cup DOMAIN t /\ \A k \in DOMAIN t : over[k] = t[k]
  BY <1>5 DEF Updated
<1>7. DOMAIN c = DOMAIN over /\ \A k \in DOMAIN t : c[k] = t[k]
  <2>1. c = Updated(over, NoOverlay)
    BY <1>1, <1>2, <1>3, <1>5 DEF Compiled
  <2>2. DOMAIN NoOverlay = {}
    BY DEF NoOverlay
  <2>3. c = [k \in DOMAIN over \cup {} |-> IF k \in {} THEN NoOverlay[k] ELSE over[k]]
    BY <2>1, <2>2 DEF Updated
  <2> QED
    BY <1>6, <2>3
<1>8. /\ "profile" \in DOMAIN t /\ "rules" \in DOMAIN t /\ "mode" \in DOMAIN t
      /\ "threshold" \in DOMAIN t /\ "signals" \in DOMAIN t
  BY TemplatesAreAccepted DEF TemplateKeys
<1>9. /\ "malformed" \notin DOMAIN c /\ "max_chars" \notin DOMAIN c
      /\ "phrases" \notin DOMAIN c /\ "plugin" \notin DOMAIN c
  BY <1>4, <1>6, <1>7, TemplatesAreAccepted DEF TemplateKeys, LockedKeys
<1>10. PICK name \in {"strict", "hardened"} : name = t["profile"]
  BY TemplatesAreAccepted
<1>11. ProfileName(c) = name
  BY <1>6, <1>7, <1>8, <1>10 DEF ProfileName, Get
<1>12. ClassifierMode(c) \in {"off", "shadow", "enforce"}
  BY <1>6, <1>7, <1>8, TemplatesAreAccepted DEF ClassifierMode, Get
<1>13. ThresholdOf(c) = t["threshold"] /\ SignalsOf(c) = t["signals"] /\ RulesOf(c) = t["rules"]
  BY <1>6, <1>7, <1>8 DEF ThresholdOf, SignalsOf, RulesOf, Get
<1>14. PluginOf(c) = "" /\ MaxChars(c) = Baseline(c).max_chars /\ Phrases(c) = Baseline(c).phrases
  BY <1>9 DEF PluginOf, MaxChars, Phrases, Get
<1>15. /\ name \in DOMAIN ProfileBaselines
       /\ ProfileBaselines[name].max_chars \in 1..ProfileBaselines[name].max_chars
  <2>1. ProfileBaselines["strict"].max_chars = 4 /\ ProfileBaselines["hardened"].max_chars = 2
    BY DEF ProfileBaselines
  <2>2. name \in DOMAIN ProfileBaselines
    BY DEF ProfileBaselines
  <2>3. 4 \in 1..4 /\ 2 \in 1..2
    OBVIOUS
  <2> QED
    BY <2>1, <2>2, <2>3
<1>16. MaxCharsAccepted(c) /\ PhrasesAccepted(c)
  BY <1>11, <1>14, <1>15 DEF MaxCharsAccepted, PhrasesAccepted, Baseline
<1>17. ClassifierAccepted(c)
  BY <1>12, <1>13, TemplatesAreAccepted DEF ClassifierAccepted, ThresholdOf, SignalsOf
<1>18. PluginAccepted(PluginOf(c)) /\ RulesAccepted(RulesOf(c))
  BY <1>13, <1>14, TemplatesAreAccepted DEF PluginAccepted
<1>19. Resolves(c)
  BY <1>9, <1>11, <1>15, <1>16, <1>17, <1>18 DEF Resolves, PluginOf, RulesOf
<1> QED
  BY <1>1, <1>19

\* A decision with its report.
Facets == {"classifier", "plugin"}
Shaped(d) ==
  /\ DOMAIN d = {"action", "gate", "report"}
  /\ DOMAIN d.report = Facets /\ d.report = [f \in Facets |-> d.report[f]]

\* One round of the loop: who is still allowed was allowed before and by this gate, and what the
\* gate reports replaces what was reported.
LEMMA GateRound ==
  ASSUME NEW s, NEW d, NEW n, Shaped(s), Shaped(d), n = AfterGate(s, d),
         d.action = "none" => \A f \in Facets : d.report[f] = "none"
  PROVE  /\ Shaped(n)
         /\ n.action = "allow" =>
              /\ s.action = "allow" /\ d.action \in {"none", "allow"}
              /\ \A f \in Facets :
                   n.report[f] = IF d.report[f] # "none" THEN d.report[f] ELSE s.report[f]
<1>1. CASE s.action # "allow" \/ d.action = "none"
  <2>1. n = s
    BY <1>1 DEF AfterGate
  <2> QED
    BY <1>1, <2>1
<1>2. CASE s.action = "allow" /\ d.action # "none"
  <2>1. PICK x : x = IF d.action = "allow" THEN s ELSE d
    OBVIOUS
  <2>2. PICK m : m = MergedReport(s.report, d.report)
    OBVIOUS
  <2>3. /\ m = [f \in Facets |-> IF d.report[f] # "none" THEN d.report[f] ELSE s.report[f]]
    BY <2>2 DEF MergedReport, Shaped
  <2>4. n = [x EXCEPT !.report = m]
    BY <1>2, <2>1, <2>2 DEF AfterGate
  <2>5. DOMAIN x = {"action", "gate", "report"}
    BY <2>1 DEF Shaped
  <2>6. DOMAIN n = {"action", "gate", "report"} /\ n.report = m /\ n.action = x.action
    BY <2>4, <2>5
  <2>7. Shaped(n)
    BY <2>3, <2>6 DEF Shaped
  <2>8. n.action = "allow" => d.action = "allow"
    BY <2>1, <2>6
  <2> QED
    BY <1>2, <2>3, <2>6, <2>7, <2>8
<1> QED
  BY <1>1, <1>2

\* Decisions without a report.
LEMMA Unreported ==
  /\ \A a, g : Shaped(Decision(a, g)) /\ Decision(a, g).action = a
               /\ \A f \in Facets : Decision(a, g).report[f] = "none"
  /\ Shaped(Pass) /\ Pass.action = "none" /\ \A f \in Facets : Pass.report[f] = "none"
BY DEF Shaped, Decision, Pass, NoReport, Facets

\* Four of the gates report nothing.
LEMMA PlainGates ==
  ASSUME NEW o, NEW text,
         NEW d \in {EmptyInput(o, text), TooLong(o, text), PromptInjection(o, text),
                    CustomRules(o, text)}
  PROVE  Shaped(d) /\ \A f \in Facets : d.report[f] = "none"
BY Unreported DEF EmptyInput, TooLong, PromptInjection, CustomRules

\* The decisions of the two gates that report.
ClassifierSaw(a, seen) == [Decision(a, "classifier") EXCEPT !.report.classifier = seen]
PluginSaw(a, seen) == [Decision(a, "plugin") EXCEPT !.report.plugin = seen]

\* Each reports on its own facet.
LEMMA Reports ==
  ASSUME NEW a, NEW seen
  PROVE  /\ Shaped(ClassifierSaw(a, seen)) /\ ClassifierSaw(a, seen).action = a
         /\ ClassifierSaw(a, seen).report["plugin"] = "none"
         /\ Shaped(PluginSaw(a, seen)) /\ PluginSaw(a, seen).action = a
         /\ PluginSaw(a, seen).report["classifier"] = "none"
<1>1. ASSUME NEW g, NEW e, e = Decision(a, g)
      PROVE  /\ DOMAIN e = {"action", "gate", "report"} /\ e.action = a
             /\ e.report = [f \in Facets |-> e.report[f]]
             /\ e.report["plugin"] = "none" /\ e.report["classifier"] = "none"
  BY <1>1, Unreported DEF Shaped, Facets
<1>2. /\ Shaped(ClassifierSaw(a, seen)) /\ ClassifierSaw(a, seen).action = a
      /\ ClassifierSaw(a, seen).report["plugin"] = "none"
  <2>1. PICK e : e = Decision(a, "classifier")
    OBVIOUS
  <2>2. PICK d : d = [e EXCEPT !.report.classifier = seen]
    OBVIOUS
  <2>3. PICK m : m = [e.report EXCEPT !["classifier"] = seen]
    OBVIOUS
  <2>4. m = [f \in Facets |-> m[f]] /\ m["plugin"] = "none"
    <3>1. e.report = [f \in Facets |-> e.report[f]] /\ e.report["plugin"] = "none"
      BY <1>1, <2>1
    <3> QED
      BY <2>3, <3>1 DEF Facets
  <2>5. DOMAIN d = {"action", "gate", "report"} /\ d.report = m /\ d.action = a
    BY <1>1, <2>1, <2>2, <2>3
  <2>6. d = ClassifierSaw(a, seen)
    BY <2>1, <2>2 DEF ClassifierSaw
  <2> QED
    BY <2>4, <2>5, <2>6 DEF Shaped
<1>3. /\ Shaped(PluginSaw(a, seen)) /\ PluginSaw(a, seen).action = a
      /\ PluginSaw(a, seen).report["classifier"] = "none"
  <2>1. PICK e : e = Decision(a, "plugin")
    OBVIOUS
  <2>2. PICK d : d = [e EXCEPT !.report.plugin = seen]
    OBVIOUS
  <2>3. PICK m : m = [e.report EXCEPT !["plugin"] = seen]
    OBVIOUS
  <2>4. m = [f \in Facets |-> m[f]] /\ m["classifier"] = "none"
    <3>1. e.report = [f \in Facets |-> e.report[f]] /\ e.report["classifier"] = "none"
      BY <1>1, <2>1
    <3> QED
      BY <2>3, <3>1 DEF Facets
  <2>5. DOMAIN d = {"action", "gate", "report"} /\ d.report = m /\ d.action = a
    BY <1>1, <2>1, <2>2, <2>3
  <2>6. d = PluginSaw(a, seen)
    BY <2>1, <2>2 DEF PluginSaw
  <2> QED
    BY <2>4, <2>5, <2>6 DEF Shaped
<1> QED
  BY <1>2, <1>3

\* The classifier reports on its own facet, and whenever it is on.
LEMMA ClassifierReports ==
  ASSUME NEW o, NEW text, NEW d, d = Classifier(o, text)
  PROVE  /\ Shaped(d) /\ d.report["plugin"] = "none"
         /\ d.action = "none" => d.report["classifier"] = "none"
<1>1. \/ d = Pass
      \/ d = ClassifierSaw("escalate", "high") \/ d = ClassifierSaw("allow", "shadow")
      \/ d = ClassifierSaw("allow", "low")
  BY DEF Classifier, ClassifierSaw
<1>2. CASE d = Pass
  BY <1>2, Unreported DEF Facets
<1>3. ASSUME NEW a \in {"allow", "escalate"}, NEW seen, d = ClassifierSaw(a, seen)
      PROVE  Shaped(d) /\ d.report["plugin"] = "none" /\ d.action # "none"
  BY <1>3, Reports
<1> QED
  BY <1>1, <1>2, <1>3

\* The first rule that matches is one of the rules.
LEMMA FirstMatchIsRule ==
  ASSUME NEW rules, NEW text, DOMAIN rules = {1, 2}, FirstMatch(rules, text) # 0
  PROVE  FirstMatch(rules, text) \in {1, 2}
<1>1. PICK I : I = {i \in DOMAIN rules : rules[i].patterns \cap text.says # {}}
  OBVIOUS
<1>2. FirstMatch(rules, text) = IF I = {} THEN 0 ELSE Min(I)
  BY <1>1 DEF FirstMatch
<1>3. I \subseteq {1, 2} /\ I # {}
  BY <1>1, <1>2
<1>4. \E m \in I : \A n \in I : m <= n
  <2>1. CASE 1 \in I
    BY <1>3, <2>1
  <2>2. CASE 1 \notin I
    <3>1. I = {2}
      BY <1>3, <2>2
    <3> QED
      BY <3>1
  <2> QED
    BY <2>1, <2>2
<1> QED
  BY <1>2, <1>3, <1>4 DEF Min

\* The rules of the signed plugins.
LEMMA SignedRules ==
  ASSUME NEW ref \in DOMAIN SignedPlugins, NEW rules, rules = SignedPlugins[ref].rules
  PROVE  DOMAIN rules = {1, 2} /\ \A i \in {1, 2} : rules[i].action \in {"deny", "escalate"}
<1>1. PICK a1, b1, a2, b2 :
        /\ a1 = Rule("credentials", "deny", {"private key", "seed phrase", "api key"})
        /\ b1 = Rule("bypass", "escalate", {"bypass safety"})
        /\ a2 = Rule("secrets", "deny", {"export secrets", "dump credentials"})
        /\ b2 = Rule("exfiltration", "escalate", {"extract data"})
  OBVIOUS
<1>2. PICK r1, r2 : r1 = <<a1, b1>> /\ r2 = <<a2, b2>>
  OBVIOUS
<1>3. /\ DOMAIN r1 = {1, 2} /\ \A n \in {1, 2} : r1[n].action \in {"deny", "escalate"}
      /\ DOMAIN r2 = {1, 2} /\ \A n \in {1, 2} : r2[n].action \in {"deny", "escalate"}
  <2>1. /\ a1.action = "deny" /\ b1.action = "escalate"
        /\ a2.action = "deny" /\ b2.action = "escalate"
    BY <1>1 DEF Rule
  <2>2. /\ DOMAIN r1 = {1, 2} /\ r1[1] = a1 /\ r1[2] = b1
        /\ DOMAIN r2 = {1, 2} /\ r2[1] = a2 /\ r2[2] = b2
    BY <1>2
  <2> QED
    BY <2>1, <2>2
<1>4. PICK all : all = SignedPlugins
  OBVIOUS
<1>5. all = [signed_v1 |-> [core |-> 1, signer |-> "exo-security",
                            sandbox |-> "declarative_rules_only", rules |-> r1, digest |-> r1],
             signed_v2 |-> [core |-> 1, signer |-> "exo-security",
                            sandbox |-> "declarative_rules_only", rules |-> r2, digest |-> r2]]
  BY <1>1, <1>2, <1>4, Zenon DEF SignedPlugins
<1>6. /\ DOMAIN all = {"signed_v1", "signed_v2"}
      /\ all["signed_v1"].rules = r1 /\ all["signed_v2"].rules = r2
  BY <1>5
<1> QED
  BY <1>3, <1>4, <1>6

\* The plugin's gate reports on its own facet, and whenever a plugin is in force.
LEMMA PluginReports ==
  ASSUME NEW o, NEW text, Resolves(o), NEW d, d = PluginRules(o, text)
  PROVE  /\ Shaped(d) /\ d.report["classifier"] = "none"
         /\ d.action = "none" => d.report["plugin"] = "none"
<1>1. PICK ref : ref = Get(o, "plugin", "")
  OBVIOUS
<1>2. PICK rules : rules = SignedPlugins[ref].rules
  OBVIOUS
<1>3. PICK i : i = FirstMatch(rules, text)
  OBVIOUS
<1>4. ref = "" \/ ref \in DOMAIN SignedPlugins
  BY <1>1 DEF Resolves, PluginAccepted
<1>5. CASE ref = ""
  <2>1. d = Pass
    BY <1>1, <1>5 DEF PluginRules
  <2> QED
    BY <2>1, Unreported DEF Facets
<1>6. CASE ref # "" /\ i = 0
  <2>1. d = PluginSaw("allow", "unmatched")
    BY <1>1, <1>2, <1>3, <1>6 DEF PluginRules, PluginSaw
  <2> QED
    BY <2>1, Reports
<1>7. CASE ref # "" /\ i # 0
  <2>1. i \in {1, 2} /\ rules[i].action \in {"deny", "escalate"}
    BY <1>2, <1>3, <1>4, <1>7, SignedRules, FirstMatchIsRule
  <2>2. PICK a : a = rules[i].action
    OBVIOUS
  <2>3. d = PluginSaw(a, "matched")
    BY <1>1, <1>2, <1>3, <1>7, <2>2 DEF PluginRules, PluginSaw
  <2> QED
    BY <2>1, <2>2, <2>3, Reports
<1> QED
  BY <1>5, <1>6, <1>7

\* A text that the chain allows has passed every gate, and all that was reported is on record.
LEMMA AllowedIsClean ==
  ASSUME NEW o, NEW text, Resolves(o), NEW d, d = IngressDecision(o, text), d.action = "allow"
  PROVE  /\ \A i \in 1..6 : GateChain(o, text)[i].action \notin {"deny", "escalate"}
         /\ d.report = [classifier |-> Classifier(o, text).report.classifier,
                        plugin |-> PluginRules(o, text).report.plugin]
<1>1. PICK g : g = GateChain(o, text)
  OBVIOUS
<1>2. /\ g[1] = EmptyInput(o, text) /\ g[2] = TooLong(o, text) /\ g[3] = Classifier(o, text)
      /\ g[4] = PromptInjection(o, text) /\ g[5] = CustomRules(o, text)
      /\ g[6] = PluginRules(o, text)
  BY <1>1 DEF GateChain
<1>3. \A i \in {1, 2, 4, 5} : Shaped(g[i]) /\ \A f \in Facets : g[i].report[f] = "none"
  BY <1>2, PlainGates
<1>4. /\ Shaped(g[3]) /\ g[3].report["plugin"] = "none"
      /\ g[3].action = "none" => \A f \in Facets : g[3].report[f] = "none"
  BY <1>2, ClassifierReports DEF Facets
<1>5. /\ Shaped(g[6]) /\ g[6].report["classifier"] = "none"
      /\ g[6].action = "none" => \A f \in Facets : g[6].report[f] = "none"
  BY <1>2, PluginReports DEF Facets
<1>6. PICK s0, s1, s2, s3, s4, s5, s6 :
        /\ s0 = Decision("allow", "chain") /\ s1 = AfterGate(s0, g[1]) /\ s2 = AfterGate(s1, g[2])
        /\ s3 = AfterGate(s2, g[3]) /\ s4 = AfterGate(s3, g[4]) /\ s5 = AfterGate(s4, g[5])
        /\ s6 = AfterGate(s5, g[6])
  OBVIOUS
<1>7. d = s6
  BY <1>1, <1>6 DEF IngressDecision
<1>8. Shaped(s0) /\ \A f \in Facets : s0.report[f] = "none"
  BY <1>6, Unreported
<1>9. /\ Shaped(s1)
      /\ s1.action = "allow" => /\ g[1].action \in {"none", "allow"}
                                /\ \A f \in Facets : s1.report[f] = "none"
  BY <1>3, <1>6, <1>8, GateRound
<1>10. /\ Shaped(s2)
       /\ s2.action = "allow" => /\ s1.action = "allow" /\ g[2].action \in {"none", "allow"}
                                 /\ \A f \in Facets : s2.report[f] = s1.report[f]
  BY <1>3, <1>6, <1>9, GateRound
<1>11. /\ Shaped(s3)
       /\ s3.action = "allow" =>
            /\ s2.action = "allow" /\ g[3].action \in {"none", "allow"}
            /\ \A f \in Facets : s3.report[f] = IF g[3].report[f] # "none" THEN g[3].report[f]
                                                ELSE s2.report[f]
  BY <1>4, <1>6, <1>10, GateRound
<1>12. /\ Shaped(s4)
       /\ s4.action = "allow" => /\ s3.action = "allow" /\ g[4].action \in {"none", "allow"}
                                 /\ \A f \in Facets : s4.report[f] = s3.report[f]
  BY <1>3, <1>6, <1>11, GateRound
<1>13. /\ Shaped(s5)
       /\ s5.action = "allow" => /\ s4.action = "allow" /\ g[5].action \in {"none", "allow"}
                                 /\ \A f \in Facets : s5.report[f] = s4.report[f]
  BY <1>3, <1>6, <1>12, GateRound
<1>14. /\ Shaped(s6)
       /\ s6.action = "allow" =>
            /\ s5.action = "allow" /\ g[6].action \in {"none", "allow"}
            /\ \A f \in Facets : s6.report[f] = IF g[6].report[f] # "none" THEN g[6].report[f]
                                                ELSE s5.report[f]
  BY <1>5, <1>6, <1>13, GateRound
<1>15. \A i \in 1..6 : g[i].action \in {"none", "allow"}
  <2>1. \A i \in 1..6 : i \in {1, 2, 3, 4, 5, 6}
    OBVIOUS
  <2> QED
    BY <1>7, <1>9, <1>10, <1>11, <1>12, <1>13, <1>14, <2>1
<1>16. /\ d.report["classifier"] = g[3].report["classifier"]
       /\ d.report["plugin"] = g[6].report["plugin"]
  <2>1. \A f \in Facets : /\ s5.report[f] = s3.report[f] /\ s2.report[f] = "none"
                          /\ s3.report[f] = g[3].report[f]
    BY <1>7, <1>9, <1>10, <1>11, <1>12, <1>13, <1>14
  <2> QED
    BY <1>4, <1>5, <1>7, <1>14, <2>1 DEF Facets
<1>17. d.report = [f \in Facets |-> d.report[f]]
  BY <1>7, <1>14 DEF Shaped
<1>18. d.report = [classifier |-> g[3].report["classifier"], plugin |-> g[6].report["plugin"]]
  BY <1>16, <1>17 DEF Facets
<1> QED
  BY <1>1, <1>2, <1>15, <1>18

\* What is idle, or ended before it was evaluated, holds nothing.
LEMMA NothingHeld ==
  /\ \A to : to # "audit" => EditHolds([NoEdit EXCEPT !.at = to])
  /\ EditHolds(NoEdit) /\ NoEdit.at = "idle" /\ TurnHolds(NoTurn)
<1>1. PICK e : e = NoEdit
  OBVIOUS
<1>2. DOMAIN e = EditFields /\ e.at = "idle"
  BY <1>1 DEF NoEdit, EditFields
<1>3. ASSUME NEW to, to # "audit", NEW n, n = [e EXCEPT !.at = to]
      PROVE  EditHolds(n)
  <2>1. DOMAIN n = EditFields /\ n.at = to
    BY <1>2, <1>3 DEF EditFields
  <2> QED
    BY <1>3, <2>1 DEF EditHolds
<1>4. PICK t : t = NoTurn
  OBVIOUS
<1>5. DOMAIN t = TurnFields /\ t.at = "idle"
  BY <1>4 DEF NoTurn, TurnFields
<1> QED
  BY <1>1, <1>2, <1>3, <1>4, <1>5 DEF EditHolds, TurnHolds

\* The invariant holds at the start.
LEMMA PolicyInitIInv == PolicyInit => PolicyIInv
<1> SUFFICES ASSUME PolicyInit PROVE PolicyIInv
  OBVIOUS
<1>1. PICK e, t : e = NoEdit /\ t = NoTurn
  OBVIOUS
<1>2. edits = [r \in PolicyRequests |-> e] /\ governed = [q \in PolicyTurns |-> t]
  BY <1>1 DEF PolicyInit
<1>3. EditHolds(e) /\ TurnHolds(t)
  BY <1>1, NothingHeld
<1> QED
  BY <1>2, <1>3 DEF PolicyInit, PolicyIInv

\* What either handler holds while it waits was accepted.
LEMMA EditKeeps ==
  ASSUME PolicyIInv, NEW r \in PolicyRequests, NEW raw, NEW needs, NEW tier,
         Edit(r, raw, needs, tier), UNCHANGED <<policy, governed>>
  PROVE  PolicyIInv'
<1>1. PICK e : e = IF Resolves(raw)
                   THEN [at |-> "audit", old |-> policy, new |-> Normalized(raw), needs |-> needs,
                         tier |-> tier]
                   ELSE [NoEdit EXCEPT !.at = "invalid"]
  OBVIOUS
<1>2. EditHolds(e)
  <2>1. CASE Resolves(raw)
    <3>1. PICK new : new = Normalized(raw)
      OBVIOUS
    <3>2. e = [at |-> "audit", old |-> policy, new |-> new, needs |-> needs, tier |-> tier]
      BY <1>1, <2>1, <3>1
    <3>3. DOMAIN e = EditFields /\ e.new = new
      BY <3>2 DEF EditFields
    <3> QED
      BY <2>1, <3>1, <3>3 DEF EditHolds, FromAccepted
  <2>2. CASE ~Resolves(raw)
    BY <1>1, <2>2, NothingHeld
  <2> QED
    BY <2>1, <2>2
<1>3. edits' = [edits EXCEPT ![r] = e]
  BY <1>1 DEF Edit
<1>4. DOMAIN edits' = PolicyRequests /\ \A x \in PolicyRequests : EditHolds(edits'[x])
  BY <1>2, <1>3 DEF PolicyIInv
<1> QED
  BY <1>4 DEF PolicyIInv

\* Applying a template in a request keeps the invariant.
LEMMA ApplyTemplateKeeps ==
  ASSUME PolicyIInv, NEW r \in PolicyRequests, NEW template, NEW merge, NEW extra, NEW tier,
         ApplyTemplate(r, template, merge, extra, tier)
  PROVE  PolicyIInv'
<1>1. UNCHANGED <<policy, governed>>
  BY DEF ApplyTemplate
<1>2. CASE DOMAIN extra \cap LockedKeys # {}
  <2>1. PICK old : old = edits[r]
    OBVIOUS
  <2>2. DOMAIN old = EditFields
    BY <2>1 DEF PolicyIInv, EditHolds
  <2>3. PICK e : e = [old EXCEPT !.at = "invalid"]
    OBVIOUS
  <2>4. EditHolds(e)
    <3>1. DOMAIN e = EditFields /\ e.at = "invalid"
      BY <2>2, <2>3 DEF EditFields
    <3> QED
      BY <3>1 DEF EditHolds
  <2>5. edits' = [edits EXCEPT ![r] = e]
    BY <1>2, <2>1, <2>3 DEF ApplyTemplate
  <2>6. DOMAIN edits' = PolicyRequests /\ \A x \in PolicyRequests : EditHolds(edits'[x])
    BY <2>4, <2>5 DEF PolicyIInv
  <2> QED
    BY <1>1, <2>6 DEF PolicyIInv
<1>3. CASE DOMAIN extra \cap LockedKeys = {}
  <2>1. PICK raw : raw = Compiled(template, IF merge THEN policy ELSE NoOverlay, extra)
    OBVIOUS
  <2>2. Edit(r, raw, {"templates", RequiredFeature(Normalized(raw))}, tier)
    BY <1>3, <2>1 DEF ApplyTemplate
  <2> QED
    BY <1>1, <2>2, EditKeeps
<1> QED
  BY <1>2, <1>3

\* Storing the edited policy keeps the invariant.
LEMMA StoreEditKeeps ==
  ASSUME PolicyIInv, NEW r \in PolicyRequests, StoreEdit(r)
  PROVE  PolicyIInv'
<1>1. EditHolds(edits[r]) /\ edits[r].at = "audit"
  BY DEF PolicyIInv, StoreEdit
<1>2. PICK ends \in {"forbidden", "conflict", "stored"} :
        /\ edits' = [edits EXCEPT ![r] = [NoEdit EXCEPT !.at = ends]]
        /\ policy' = IF ends = "stored" THEN edits[r].new ELSE policy
  BY DEF StoreEdit
<1>3. policy' = NoOverlay \/ FromAccepted(policy')
  BY <1>1, <1>2 DEF PolicyIInv, EditHolds
<1>4. PICK e : e = [NoEdit EXCEPT !.at = ends]
  OBVIOUS
<1>5. EditHolds(e)
  BY <1>4, NothingHeld
<1>6. edits' = [edits EXCEPT ![r] = e]
  BY <1>2, <1>4
<1>7. DOMAIN edits' = PolicyRequests /\ \A x \in PolicyRequests : EditHolds(edits'[x])
  BY <1>5, <1>6 DEF PolicyIInv
<1>8. UNCHANGED governed
  BY DEF StoreEdit
<1> QED
  BY <1>3, <1>7, <1>8 DEF PolicyIInv

\* A turn that reads its policy keeps the invariant.
LEMMA ReadPolicyKeeps ==
  ASSUME PolicyIInv, NEW q \in PolicyTurns, NEW text, NEW tier, ReadPolicy(q, text, tier)
  PROVE  PolicyIInv'
<1>1. PICK none : none = NoTurn
  OBVIOUS
<1>2. PICK t : t = [none EXCEPT !.at = "entitlement", !.overlay = policy, !.text = text, !.tier = tier]
  OBVIOUS
<1>3. DOMAIN none = TurnFields
  BY <1>1, NothingHeld DEF TurnHolds
<1>4. DOMAIN t = TurnFields /\ t.at = "entitlement"
  BY <1>2, <1>3 DEF TurnFields
<1>5. TurnHolds(t)
  BY <1>4 DEF TurnHolds
<1>6. governed' = [governed EXCEPT ![q] = t]
  BY <1>1, <1>2 DEF ReadPolicy
<1>7. DOMAIN governed' = PolicyTurns /\ \A x \in PolicyTurns : TurnHolds(governed'[x])
  BY <1>5, <1>6 DEF PolicyIInv
<1>8. UNCHANGED <<policy, edits>>
  BY DEF ReadPolicy
<1> QED
  BY <1>7, <1>8 DEF PolicyIInv

\* A turn that is evaluated keeps the invariant.
LEMMA EvaluateTurnKeeps ==
  ASSUME PolicyIInv, NEW q \in PolicyTurns, EvaluateTurn(q)
  PROVE  PolicyIInv'
<1>1. PICK t : t = governed[q]
  OBVIOUS
<1>2. DOMAIN t = TurnFields
  BY <1>1 DEF PolicyIInv, TurnHolds
<1>3. PICK d : d = IF Resolves(t.overlay) THEN IngressDecision(t.overlay, t.text)
                   ELSE Decision("deny", "profile_config")
  OBVIOUS
<1>4. PICK n : n = IF Entitled(t.tier, RequiredFeature(t.overlay))
                   THEN [t EXCEPT !.at = "evaluated", !.decision = d]
                   ELSE [t EXCEPT !.at = "forbidden"]
  OBVIOUS
<1>5. TurnHolds(n)
  <2>1. CASE n = [t EXCEPT !.at = "evaluated", !.decision = d]
    <3>1. /\ DOMAIN n = TurnFields /\ n.at = "evaluated" /\ n.decision = d
          /\ n.overlay = t.overlay /\ n.text = t.text
      BY <1>2, <2>1 DEF TurnFields
    <3> QED
      BY <1>3, <3>1 DEF TurnHolds
  <2>2. CASE n = [t EXCEPT !.at = "forbidden"]
    <3>1. DOMAIN n = TurnFields /\ n.at = "forbidden"
      BY <1>2, <2>2 DEF TurnFields
    <3> QED
      BY <3>1 DEF TurnHolds
  <2> QED
    BY <1>4, <2>1, <2>2
<1>6. governed' = [governed EXCEPT ![q] = n]
  BY <1>1, <1>3, <1>4 DEF EvaluateTurn
<1>7. DOMAIN governed' = PolicyTurns /\ \A x \in PolicyTurns : TurnHolds(governed'[x])
  BY <1>5, <1>6 DEF PolicyIInv
<1>8. UNCHANGED <<policy, edits>>
  BY DEF EvaluateTurn
<1> QED
  BY <1>7, <1>8 DEF PolicyIInv

\* The two steps that only move a turn on.
LEMMA TurnMovesKeeps ==
  ASSUME PolicyIInv, NEW q \in PolicyTurns, AdmitTurn(q) \/ FinishTurn(q)
  PROVE  PolicyIInv'
<1>1. PICK t : t = governed[q]
  OBVIOUS
<1>2. TurnHolds(t)
  BY <1>1 DEF PolicyIInv
<1>3. \E to \in {"running", "limited", "refused", "ended"} :
        /\ governed' = [governed EXCEPT ![q].at = to]
        /\ to = "running" => t.at = "evaluated" /\ t.decision.action = "allow"
  BY <1>1 DEF AdmitTurn, FinishTurn
<1>4. PICK to \in {"running", "limited", "refused", "ended"} :
        /\ governed' = [governed EXCEPT ![q].at = to]
        /\ to = "running" => t.at = "evaluated" /\ t.decision.action = "allow"
  BY <1>3
<1>5. PICK n : n = [t EXCEPT !.at = to]
  OBVIOUS
<1>6. TurnHolds(n)
  <2>1. /\ DOMAIN n = TurnFields /\ n.at = to /\ n.decision = t.decision
        /\ n.overlay = t.overlay /\ n.text = t.text
    BY <1>2, <1>5 DEF TurnHolds, TurnFields
  <2> QED
    BY <1>2, <1>4, <2>1 DEF TurnHolds
<1>7. governed' = [governed EXCEPT ![q] = n]
  BY <1>1, <1>4, <1>5
<1>8. DOMAIN governed' = PolicyTurns /\ \A x \in PolicyTurns : TurnHolds(governed'[x])
  BY <1>6, <1>7 DEF PolicyIInv
<1>9. UNCHANGED <<policy, edits>>
  BY DEF AdmitTurn, FinishTurn
<1> QED
  BY <1>8, <1>9 DEF PolicyIInv

\* Every step keeps the invariant.
LEMMA PolicyStep == PolicyIInv /\ [PolicyNext]_policyVars => PolicyIInv'
<1> SUFFICES ASSUME PolicyIInv, [PolicyNext]_policyVars PROVE PolicyIInv'
  OBVIOUS
<1>1. ASSUME NEW r \in PolicyRequests, NEW body, NEW tier, SetPolicy(r, body, tier)
      PROVE  PolicyIInv'
  BY <1>1, EditKeeps DEF SetPolicy
<1>2. CASE UNCHANGED policyVars
  BY <1>2 DEF policyVars, PolicyIInv
<1> QED
  BY <1>1, <1>2, ApplyTemplateKeeps, StoreEditKeeps, ReadPolicyKeeps, EvaluateTurnKeeps,
     TurnMovesKeeps DEF PolicyNext

\* A policy that was accepted resolves, is its own normal form and takes any template.
LEMMA AcceptedStaysUsable == PolicyIInv => PolicyStaysUsable
<1> SUFFICES ASSUME PolicyIInv, policy # NoOverlay
             PROVE  /\ Resolves(policy) /\ Normalized(policy) = policy
                    /\ \A t \in PolicyTemplates : Resolves(Compiled(t, policy, NoOverlay))
  BY DEF PolicyStaysUsable
<1>1. PICK raw : Resolves(raw) /\ policy = Normalized(raw)
  BY DEF PolicyIInv, FromAccepted
<1>2. Resolves(policy) /\ Normalized(policy) = policy /\ "malformed" \notin DOMAIN policy
  BY <1>1, ResolvedIsStable
<1> QED
  BY <1>2, TemplatesApply

\* A turn that runs was decided by a policy that resolves, and passed its gates.
LEMMA RunningIsClean == PolicyIInv => AdmittedIsClean
<1> SUFFICES ASSUME PolicyIInv, NEW q \in Running
             PROVE  LET t == governed[q]
                    IN /\ \A i \in 1..6 : GateChain(t.overlay, t.text)[i].action \notin {"deny", "escalate"}
                       /\ t.decision.report =
                            [classifier |-> Classifier(t.overlay, t.text).report.classifier,
                             plugin |-> PluginRules(t.overlay, t.text).report.plugin]
  BY DEF AdmittedIsClean
<1>1. PICK o, text, d : o = governed[q].overlay /\ text = governed[q].text /\ d = governed[q].decision
  OBVIOUS
<1>2. /\ d.action = "allow"
      /\ d = IF Resolves(o) THEN IngressDecision(o, text) ELSE Decision("deny", "profile_config")
  BY <1>1 DEF PolicyIInv, Running, TurnHolds
<1>3. Resolves(o) /\ d = IngressDecision(o, text)
  BY <1>2, Unreported
<1>4. /\ \A i \in 1..6 : GateChain(o, text)[i].action \notin {"deny", "escalate"}
      /\ d.report = [classifier |-> Classifier(o, text).report.classifier,
                     plugin |-> PluginRules(o, text).report.plugin]
  BY <1>2, <1>3, AllowedIsClean
<1> QED
  BY <1>1, <1>4

\* PolicySound in every behaviour: whatever bodies, extras and texts there are and however the
\* requests interleave, a stored policy stays usable and takes any template, and a turn that runs
\* passed each of the six gates of the policy it read, with both reports on record.
THEOREM PoliciesAreSound == PolicySpec => []PolicySound
<1>1. PolicyIInv => PolicySound
  BY AcceptedStaysUsable, RunningIsClean DEF PolicySound
<1> QED BY <1>1, PolicyInitIInv, PolicyStep, PTL DEF PolicySpec

(***************************************************************************)
(* Access.  The key store has what was asked for: the tenant of a key and  *)
(* the names of its roles, blank roles dropped.                            *)
(***************************************************************************)

AccessIInv ==
  /\ DOMAIN keyTable \subseteq DOMAIN asked_for
  /\ \A k \in DOMAIN asked_for : asked_for[k].roles \subseteq Seq(STRING) \ {<<>>}
  /\ \A k \in DOMAIN keyTable : /\ keyTable[k].tenant = asked_for[k].tenant
                                /\ keyTable[k].csv = JoinRoles(asked_for[k].roles)

\* Roles without commas are read back as they were written.
LEMMA RolesReadBack ==
  ASSUME NEW roles, roles \subseteq Seq(STRING) \ {<<>>}, Plain(roles)
  PROVE  {r \in SplitRoles(JoinRoles(roles)) : r # <<>>} = roles
<1>1. ASSUME NEW r \in roles
      PROVE  ToSet(r) = {r[1]} /\ r = <<r[1]>>
  <2>1. r \in Seq(STRING) /\ Len(r) = 1
    BY DEF Plain
  <2>2. DOMAIN r = {1}
    BY <2>1
  <2>3. ToSet(r) = {r[1]}
    BY <2>2 DEF ToSet
  <2>4. r = <<r[1]>>
    BY <2>1
  <2> QED
    BY <2>3, <2>4
<1>2. JoinRoles(roles) = {r[1] : r \in roles}
  BY <1>1 DEF JoinRoles
<1>3. SplitRoles(JoinRoles(roles)) = {<<n>> : n \in {r[1] : r \in roles}}
  BY <1>2 DEF SplitRoles
<1>4. {<<n>> : n \in {r[1] : r \in roles}} = roles
  BY <1>1
<1> QED
  BY <1>3, <1>4

\* The kinds of credentials.
LEMMA CredentialKinds ==
  /\ None.kind = "none"
  /\ \A c \in Credentials : c.kind \in {"key", "jwt"}
BY DEF None, Credentials, Key, Token

\* What an identity says.
LEMMA IdentitySays ==
  ASSUME NEW via, NEW tenant, NEW roles, NEW state
  PROVE  /\ Identity(via, tenant, roles, state).via = via
         /\ Identity(via, tenant, roles, state).tenant = tenant
         /\ Identity(via, tenant, roles, state).roles = {r \in roles : r # <<>>}
         /\ Identity(via, tenant, roles, state).state = state
BY DEF Identity

\* Whom an API key stands for.
LEMMA KeyIsGenuine ==
  ASSUME AccessIInv, NEW c, NEW who, who = FromApiKey(c), who # Nobody
  PROVE  /\ who.via = c /\ c.kind = "key" /\ c.id \in DOMAIN keyTable
         /\ who.tenant = asked_for[c.id].tenant
         /\ Plain(asked_for[c.id].roles) => who.roles = asked_for[c.id].roles
<1>1. c.kind = "key" /\ c.id \in DOMAIN keyTable
  BY DEF FromApiKey
<1>2. PICK k : k = c.id /\ k \in DOMAIN keyTable /\ k \in DOMAIN asked_for
  BY <1>1 DEF AccessIInv
<1>3. who = Identity(c, keyTable[k].tenant, SplitRoles(keyTable[k].csv), "valid")
  BY <1>1, <1>2 DEF FromApiKey
<1>4. /\ who.via = c /\ who.tenant = keyTable[k].tenant
      /\ who.roles = {r \in SplitRoles(keyTable[k].csv) : r # <<>>}
  BY <1>3, IdentitySays
<1>5. /\ keyTable[k].tenant = asked_for[k].tenant
      /\ keyTable[k].csv = JoinRoles(asked_for[k].roles)
      /\ asked_for[k].roles \subseteq Seq(STRING) \ {<<>>}
  BY <1>2 DEF AccessIInv
<1>6. Plain(asked_for[k].roles) => who.roles = asked_for[k].roles
  BY <1>4, <1>5, RolesReadBack
<1> QED
  BY <1>1, <1>2, <1>4, <1>5, <1>6

\* Whom a token stands for.
LEMMA TokenIsGenuine ==
  ASSUME NEW c, NEW who, who = FromJwt(c), Usable(who)
  PROVE  who.via = c /\ c.kind = "jwt" /\ c.jwt.id \notin expiredJwts
<1>1. who # Nobody /\ who.state # "expired"
  BY DEF Usable
<1>2. c.kind = "jwt"
  BY <1>1 DEF FromJwt
<1>3. PICK j : j = c.jwt
  OBVIOUS
<1>4. j.id \notin expiredJwts
  <2>1. SUFFICES ASSUME j.id \in expiredJwts PROVE FALSE
    OBVIOUS
  <2>2. who = Identity(c, "default", {}, "expired")
    BY <1>1, <1>2, <1>3, <2>1 DEF FromJwt
  <2> QED
    BY <1>1, <2>2, IdentitySays
<1>5. who = Identity(c, OrDefault(j.tenant), ToSet(j.roles), "valid")
  BY <1>1, <1>2, <1>3, <1>4 DEF FromJwt
<1> QED
  BY <1>2, <1>3, <1>4, <1>5, IdentitySays

\* Whom the X-Identity header stands for.
LEMMA AssertionIsNamed ==
  ASSUME NEW a, NEW who, who = FromAssertion(a), who # Nobody
  PROVE  who.via.kind = "assertion"
<1>1. PICK via : via = [kind |-> "assertion", of |-> a]
  OBVIOUS
<1>2. who = Identity(via, OrDefault(a.tenant), ToSet(a.roles), a.state)
  BY <1>1 DEF FromAssertion
<1> QED
  BY <1>1, <1>2, IdentitySays

\* Whoever extract_identity finds for a request is whom its first credential names.
LEMMA ExtractedIsGenuine ==
  ASSUME AccessIInv, NEW h \in HeaderSets, NEW answer, answer.headers = h,
         answer.identity = ExtractIdentity(h), Usable(ExtractIdentity(h))
  PROVE  Genuine(answer)
<1>1. PICK who : who = ExtractIdentity(h)
  OBVIOUS
<1>2. who # Nobody /\ Usable(who) /\ answer.identity = who
  BY <1>1 DEF Usable
<1>3. CASE h.bearer # None
  <2>1. CASE FromJwt(h.bearer) # Nobody
    <3>1. who = FromJwt(h.bearer)
      BY <1>1, <1>3, <2>1 DEF ExtractIdentity
    <3>2. who.via = h.bearer /\ who.via.kind = "jwt" /\ who.via.jwt.id \notin expiredJwts
      BY <1>2, <3>1, TokenIsGenuine
    <3> QED
      BY <1>2, <3>2 DEF Genuine
  <2>2. CASE FromJwt(h.bearer) = Nobody
    <3>1. who = FromApiKey(h.bearer)
      BY <1>1, <1>3, <2>2 DEF ExtractIdentity
    <3>2. /\ who.via = h.bearer /\ who.via.kind = "key" /\ who.via.id \in DOMAIN keyTable
          /\ who.tenant = asked_for[who.via.id].tenant
          /\ Plain(asked_for[who.via.id].roles) => who.roles = asked_for[who.via.id].roles
      BY <1>2, <3>1, KeyIsGenuine
    <3> QED
      BY <1>2, <3>2 DEF Genuine
  <2> QED
    BY <2>1, <2>2
<1>4. CASE h.bearer = None /\ h.apiKey # None
  <2>1. who = FromApiKey(h.apiKey)
    BY <1>1, <1>4 DEF ExtractIdentity
  <2>2. /\ who.via = h.apiKey /\ who.via.kind = "key" /\ who.via.id \in DOMAIN keyTable
        /\ who.tenant = asked_for[who.via.id].tenant
        /\ Plain(asked_for[who.via.id].roles) => who.roles = asked_for[who.via.id].roles
    BY <1>2, <2>1, KeyIsGenuine
  <2> QED
    BY <1>2, <2>2 DEF Genuine
<1>5. CASE h.bearer = None /\ h.apiKey = None
  <2>1. deployment.environment \in {"test", "development"} /\ who = FromAssertion(h.assertion)
    BY <1>1, <1>2, <1>5 DEF ExtractIdentity
  <2>2. who.via.kind = "assertion"
    BY <1>2, <2>1, AssertionIsNamed
  <2> QED
    BY <1>2, <1>5, <2>1, <2>2 DEF Genuine
<1> QED
  BY <1>3, <1>4, <1>5

\* The invariant holds at the start.
LEMMA AccessInitIInv == AccessInit => AccessIInv
BY DEF AccessInit, AccessIInv

\* create_api_key writes for a key what was asked for.
LEMMA CreateApiKeyKeeps ==
  ASSUME AccessIInv, NEW h, NEW tenant, NEW roles \in RoleLists, CreateApiKey(h, tenant, roles)
  PROVE  AccessIInv'
<1>1. PICK id, kept : /\ id = Cardinality(DOMAIN asked_for) + 1
                      /\ kept = {r \in ToSet(roles) : r # <<>>}
  OBVIOUS
<1>2. PICK stored, asked : /\ stored = [tenant |-> tenant, csv |-> JoinRoles(kept)]
                           /\ asked = [tenant |-> tenant, roles |-> kept]
  OBVIOUS
<1>3. /\ keyTable' = [k \in DOMAIN keyTable \cup {id} |-> IF k = id THEN stored ELSE keyTable[k]]
      /\ asked_for' = [k \in DOMAIN asked_for \cup {id} |-> IF k = id THEN asked ELSE asked_for[k]]
  BY <1>1, <1>2 DEF CreateApiKey
<1>4. kept \subseteq Seq(STRING) \ {<<>>}
  <2>1. roles \in Seq(Seq(STRING))
    BY AccessAssumption
  <2>2. ToSet(roles) \subseteq Seq(STRING)
    BY <2>1 DEF ToSet
  <2> QED
    BY <1>1, <2>2
<1>5. /\ stored.tenant = asked.tenant /\ asked.roles = kept
      /\ stored.csv = JoinRoles(asked.roles)
  BY <1>2
<1>6. DOMAIN keyTable' = DOMAIN keyTable \cup {id} /\ DOMAIN asked_for' = DOMAIN asked_for \cup {id}
  BY <1>3
<1>7. ASSUME NEW k \in DOMAIN asked_for'
      PROVE  asked_for'[k].roles \subseteq Seq(STRING) \ {<<>>}
  BY <1>3, <1>4, <1>5, <1>6 DEF AccessIInv
<1>8. ASSUME NEW k \in DOMAIN keyTable'
      PROVE  /\ keyTable'[k].tenant = asked_for'[k].tenant
             /\ keyTable'[k].csv = JoinRoles(asked_for'[k].roles)
  <2>1. k \in DOMAIN asked_for'
    BY <1>6 DEF AccessIInv
  <2>2. CASE k = id
    BY <1>3, <1>5, <1>6, <2>1, <2>2
  <2>3. CASE k # id
    <3>1. k \in DOMAIN keyTable /\ keyTable'[k] = keyTable[k] /\ asked_for'[k] = asked_for[k]
      BY <1>3, <1>6, <2>1, <2>3
    <3> QED
      BY <3>1 DEF AccessIInv
  <2> QED
    BY <2>2, <2>3
<1>9. DOMAIN keyTable' \subseteq DOMAIN asked_for'
  BY <1>6 DEF AccessIInv
<1> QED
  BY <1>7, <1>8, <1>9 DEF AccessIInv, JoinRoles

\* Deleting a key keeps the invariant.
LEMMA DeleteApiKeyKeeps ==
  ASSUME AccessIInv, NEW h, NEW k, DeleteApiKey(h, k)
  PROVE  AccessIInv'
<1>1. keyTable' = [x \in DOMAIN keyTable \ {k} |-> keyTable[x]] /\ UNCHANGED asked_for
  BY DEF DeleteApiKey
<1>2. /\ DOMAIN keyTable' = DOMAIN keyTable \ {k}
      /\ \A x \in DOMAIN keyTable' : keyTable'[x] = keyTable[x]
  BY <1>1
<1> QED
  BY <1>1, <1>2 DEF AccessIInv

\* The other steps leave the keys alone.
LEMMA AccessStep == AccessIInv /\ [AccessNext]_accessVars => AccessIInv'
<1> SUFFICES ASSUME AccessIInv, [AccessNext]_accessVars PROVE AccessIInv'
  OBVIOUS
<1>1. ASSUME UNCHANGED <<keyTable, asked_for>>
      PROVE  AccessIInv'
  BY <1>1 DEF AccessIInv
<1>2. CASE UNCHANGED accessVars
  BY <1>1, <1>2 DEF accessVars
<1>3. ASSUME NEW h,
             \/ Refuse(h) \/ GatewayRequest(h)
             \/ \E t : ListApiKeys(h, t) \/ Connect(h, t) \/ \E admin : TenantCall(h, t, admin)
      PROVE  AccessIInv'
  BY <1>1, <1>3 DEF Refuse, GatewayRequest, ListApiKeys, Connect, TenantCall
<1>4. ASSUME NEW j, Expire(j)
      PROVE  AccessIInv'
  BY <1>1, <1>4 DEF Expire
<1>5. CASE AccessNext
  BY <1>3, <1>4, <1>5, CreateApiKeyKeeps, DeleteApiKeyKeeps DEF AccessNext
<1> QED
  BY <1>2, <1>5

\* Who is answered is genuine at that moment.
LEMMA AnswersAreGenuine ==
  ASSUME AccessIInv, AccessNext, answered' # NoAnswer
  PROVE  Genuine(answered')
<1>1. ASSUME NEW h \in HeaderSets, NEW kind, Answered(kind, h), Usable(ExtractIdentity(h))
      PROVE  Genuine(answered')
  <2>1. PICK who : who = ExtractIdentity(h)
    OBVIOUS
  <2>2. PICK new : new = [kind |-> kind, headers |-> h, identity |-> who]
    OBVIOUS
  <2>3. new.headers = h /\ new.identity = who
    BY <2>2
  <2>4. Genuine(new)
    BY <1>1, <2>1, <2>3, ExtractedIsGenuine
  <2>5. answered' = new
    BY <1>1, <2>1, <2>2 DEF Answered
  <2> QED
    BY <2>4, <2>5
<1>2. ASSUME NEW h \in HeaderSets, NEW t, ListApiKeys(h, t)
      PROVE  Genuine(answered')
  <2>1. PICK who : who = ExtractIdentity(h) /\ Usable(who)
    BY <1>2 DEF ListApiKeys
  <2>2. PICK new, keys : new = [kind |-> "list", headers |-> h, identity |-> who, keys |-> keys]
                         /\ answered' = new
    BY <1>2, <2>1 DEF ListApiKeys
  <2>3. new.headers = h /\ new.identity = who
    BY <2>2
  <2>4. Genuine(new)
    BY <2>1, <2>3, ExtractedIsGenuine
  <2> QED
    BY <2>2, <2>4
<1>3. ASSUME NEW h \in HeaderSets,
             \/ GatewayRequest(h)
             \/ \E t, roles : CreateApiKey(h, t, roles)
             \/ \E k : DeleteApiKey(h, k)
             \/ \E t : Connect(h, t) \/ \E admin : TenantCall(h, t, admin)
      PROVE  Genuine(answered')
  BY <1>1, <1>3 DEF GatewayRequest, CreateApiKey, DeleteApiKey, Connect, TenantCall
<1>4. ASSUME NEW h, Refuse(h) PROVE FALSE
  BY <1>4 DEF Refuse
<1>5. ASSUME NEW j, Expire(j) PROVE FALSE
  BY <1>5 DEF Expire
<1> QED
  BY <1>2, <1>3, <1>4, <1>5 DEF AccessNext

\* AdmittedAsGranted in every behaviour: for any tenants, keys, tokens, assertions and settings of
\* a deployment, a request that is answered acts for whom its first credential names at that
\* moment, and no other header makes good a deleted key or an expired token (extract_identity).
THEOREM AccessIsAsGranted == AccessSpec => AdmittedAsGranted
<1>1. AccessIInv /\ [AccessNext]_accessVars
        => [answered' # answered /\ answered' # NoAnswer => Genuine(answered')]_accessVars
  BY AnswersAreGenuine DEF accessVars
<1> QED BY <1>1, AccessInitIInv, AccessStep, PTL DEF AccessSpec, AdmittedAsGranted
=============================================================================
