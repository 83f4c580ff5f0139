------------------------- MODULE ByocJobStoreProofs -------------------------
(***************************************************************************)
(* Proofs about the in-memory job queue for any number of jobs, tenants,   *)
(* calls and clock ticks and any settings of the leases and limits.        *)
(***************************************************************************)
EXTENDS ByocJobStore, FiniteSetTheorems, FunctionTheorems, SequenceTheorems, TLAPS

(***************************************************************************)
(* What the scan of expired leases appends.                                *)
(***************************************************************************)

\* Job ids are naturals and there are finitely many.
LEMMA JobIdsFinite == JobIds \subseteq Nat /\ IsFiniteSet(JobIds)
BY StoreAssumption, FS_Interval DEF JobIds

\* InsertionOrder lists every element of a set of job ids exactly once: the rank is an
\* injection of the set into 1..n, hence onto it.
LEMMA InsertionOrderLists ==
  ASSUME NEW S \in SUBSET JobIds
  PROVE  /\ InsertionOrder(S) \in Seq(JobIds)
         /\ \A i \in 1..Len(InsertionOrder(S)) : InsertionOrder(S)[i] \in S
         /\ \A j \in S : \E i \in 1..Len(InsertionOrder(S)) : InsertionOrder(S)[i] = j
         /\ \A i, k \in 1..Len(InsertionOrder(S)) :
              InsertionOrder(S)[i] = InsertionOrder(S)[k] => i = k
<1> DEFINE n == Cardinality(S)
           rank == [j \in S |-> Rank(S, j)]
<1>1. IsFiniteSet(S) /\ n \in Nat
  BY JobIdsFinite, FS_Subset, FS_CardinalityType
<1>2. ASSUME NEW j \in S
      PROVE  /\ IsFiniteSet({k \in S : k <= j})
             /\ Rank(S, j) \in 1..n
  <2> DEFINE B == {k \in S : k <= j}
  <2>1. B \in SUBSET S /\ j \in B
    BY JobIdsFinite
  <2>2. IsFiniteSet(B) /\ Cardinality(B) <= n /\ Cardinality(B) \in Nat
    BY <1>1, <2>1, FS_Subset, FS_CardinalityType
  <2>3. Cardinality(B) # 0
    BY <2>1, <2>2, FS_EmptySet
  <2> QED BY <1>1, <2>2, <2>3 DEF Rank
<1>3. ASSUME NEW a \in S, NEW b \in S, a < b
      PROVE  Rank(S, a) # Rank(S, b)
  <2> DEFINE A == {k \in S : k <= a}
             B == {k \in S : k <= b}
  <2> S \subseteq Nat
    BY JobIdsFinite
  <2>a. a \in Nat /\ b \in Nat /\ \A k \in S : k \in Nat
    OBVIOUS
  <2>b. \A k \in S : k <= a => k <= b
    BY <1>3, <2>a
  <2>c. b <= b /\ ~(b <= a)
    BY <1>3, <2>a
  <2>d. A \in SUBSET B
    BY <2>b
  <2>1. A \in SUBSET B /\ b \in B /\ b \notin A
    BY <2>c, <2>d
  <2>2. Cardinality(B) # Cardinality(A)
    BY <1>2, <2>1, FS_Subset
  <2> QED BY <2>2 DEF Rank
<1>4. rank \in [S -> 1..n]
  BY <1>2
<1>5. \A a, b \in S : rank[a] = rank[b] => a = b
  BY <1>3, JobIdsFinite
<1>6. rank \in Injection(S, 1..n)
  BY <1>4, <1>5, Fun_IsInj
<1>7. IsFiniteSet(1..n) /\ Cardinality(1..n) = n
  BY <1>1, FS_Interval
<1>8. rank \in Surjection(S, 1..n)
  BY <1>6, <1>7, FS_Injection
<1>9. \A i \in 1..n : \E j \in S : Rank(S, j) = i
  BY <1>8 DEF Surjection
<1>10. \A i \in 1..n : /\ InsertionOrder(S)[i] \in S
                       /\ Rank(S, InsertionOrder(S)[i]) = i
  BY <1>9 DEF InsertionOrder
<1>11. InsertionOrder(S) \in [1..n -> JobIds] /\ Len(InsertionOrder(S)) = n
  <2>1. InsertionOrder(S) = [i \in 1..n |-> InsertionOrder(S)[i]]
    BY DEF InsertionOrder
  <2>2. InsertionOrder(S) \in [1..n -> JobIds]
    BY <2>1, <1>10
  <2> QED BY <1>1, <2>2, SeqDef, LenProperties
<1>12. InsertionOrder(S) \in Seq(JobIds)
  BY <1>1, <1>11, SeqDef
<1>13. \A j \in S : Rank(S, j) \in 1..n /\ InsertionOrder(S)[Rank(S, j)] = j
  BY <1>2, <1>5, <1>10
<1>14. \A i, k \in 1..n : InsertionOrder(S)[i] = InsertionOrder(S)[k] => i = k
  BY <1>10
<1> HIDE DEF n
<1> QED BY <1>10, <1>11, <1>12, <1>13, <1>14

(***************************************************************************)
(* How the pieces of the operations act on the agreement between statuses  *)
(* and deques.                                                             *)
(***************************************************************************)

Deques == [Tenants -> Seq(JobIds)]
StateMap == [JobIds -> JobState]

\* Statuses may change under unchanged deques as long as no job becomes queued and no
\* job with a deque entry becomes leased, completed or dead-lettered.
LEMMA ExactUnderStatusChange ==
  ASSUME NEW st, NEW u, NEW q \in Deques, Exact(st, q),
         \A j \in JobIds : u[j].status = "queued" => st[j].status = "queued",
         \A j \in JobIds : st[j].status \in {"queued", "cancelled", "absent"} =>
                            u[j].status \in {"queued", "cancelled", "absent"}
  PROVE  Exact(u, q)
<1>1. \A t \in Tenants : \A i \in 1..Len(q[t]) : q[t][i] \in JobIds
  BY ElementOfSeq DEF Deques
<1> QED BY <1>1 DEF Exact, EntriesDistinct, EntriesClaimable, QueuedHasEntry

\* A job without an entry becomes queued and is appended to the deque of its tenant
\* (enqueue and replay_dead_letter_job).
LEMMA ExactUnderAppend ==
  ASSUME NEW st, NEW u, NEW q \in Deques, Exact(st, q), NEW j \in JobIds,
         \A i \in 1..Len(q[TenantOf[j]]) : q[TenantOf[j]][i] # j,
         u[j].status = "queued",
         \A k \in JobIds \ {j} : u[k].status = st[k].status
  PROVE  /\ [q EXCEPT ![TenantOf[j]] = Append(@, j)] \in Deques
         /\ Exact(u, [q EXCEPT ![TenantOf[j]] = Append(@, j)])
<1> DEFINE t0 == TenantOf[j]
           r == [q EXCEPT ![t0] = Append(@, j)]
           n == Len(q[t0])
<1>1. t0 \in Tenants /\ q[t0] \in Seq(JobIds) /\ n \in Nat
  BY StoreAssumption DEF Deques
<1>2. /\ Append(q[t0], j) \in Seq(JobIds)
      /\ Len(Append(q[t0], j)) = n + 1
      /\ \A i \in 1..n : Append(q[t0], j)[i] = q[t0][i]
      /\ Append(q[t0], j)[n + 1] = j
  BY <1>1, AppendProperties
<1>3. /\ r \in Deques
      /\ r[t0] = Append(q[t0], j)
      /\ \A t \in Tenants \ {t0} : r[t] = q[t]
  BY <1>1, <1>2 DEF Deques
<1>4. \A t \in Tenants : \A i \in 1..Len(q[t]) : q[t][i] \in JobIds
  BY ElementOfSeq DEF Deques
<1>5. EntriesDistinct(r)
  <2> SUFFICES ASSUME NEW t \in Tenants, NEW i \in 1..Len(r[t])
               PROVE  /\ TenantOf[r[t][i]] = t
                      /\ \A k \in 1..Len(r[t]) : r[t][i] = r[t][k] => i = k
    BY DEF EntriesDistinct
  <2>1. CASE t # t0
    BY <2>1, <1>3 DEF Exact, EntriesDistinct
  <2>2. CASE t = t0
    <3>1. \A k \in 1..(n + 1) : k \in 1..n \/ k = n + 1
      BY <1>1
    <3> QED BY <2>2, <3>1, <1>1, <1>2, <1>3 DEF Exact, EntriesDistinct
  <2> QED BY <2>1, <2>2
<1>6. EntriesClaimable(u, r)
  <2> SUFFICES ASSUME NEW t \in Tenants, NEW i \in 1..Len(r[t])
               PROVE  u[r[t][i]].status \in {"queued", "cancelled", "absent"}
    BY DEF EntriesClaimable
  <2>1. CASE t # t0
    BY <2>1, <1>3, <1>4 DEF Exact, EntriesClaimable
  <2>2. CASE t = t0
    <3>1. i \in 1..n \/ i = n + 1
      BY <2>2, <1>1, <1>2, <1>3
    <3> QED BY <2>2, <3>1, <1>1, <1>2, <1>3, <1>4 DEF Exact, EntriesClaimable
  <2> QED BY <2>1, <2>2
<1>7. QueuedHasEntry(u, r)
  <2> SUFFICES ASSUME NEW k \in JobIds, u[k].status = "queued"
               PROVE  \E i \in 1..Len(r[TenantOf[k]]) : r[TenantOf[k]][i] = k
    BY DEF QueuedHasEntry
  <2>1. CASE k = j
    BY <2>1, <1>1, <1>2, <1>3
  <2>2. CASE k # j
    <3>1. PICK i \in 1..Len(q[TenantOf[k]]) : q[TenantOf[k]][i] = k
      BY <2>2 DEF Exact, QueuedHasEntry
    <3>2. TenantOf[k] \in Tenants
      BY StoreAssumption
    <3>3. CASE TenantOf[k] = t0
      BY <3>1, <3>3, <1>1, <1>2, <1>3
    <3>4. CASE TenantOf[k] # t0
      BY <3>1, <3>2, <3>4, <1>3
    <3> QED BY <3>3, <3>4
  <2> QED BY <2>1, <2>2
<1> QED BY <1>3, <1>5, <1>6, <1>7 DEF Exact

\* claim_next pops the deque of t up to and including its first queued entry, and
\* leases that job.
LEMMA ExactUnderPop ==
  ASSUME NEW st, NEW u, NEW q \in Deques, Exact(st, q), NEW t \in Tenants,
         NEW i \in 1..Len(q[t]), st[q[t][i]].status = "queued",
         \A k \in 1..(i - 1) : st[q[t][k]].status # "queued",
         u[q[t][i]].status = "leased",
         \A k \in JobIds \ {q[t][i]} : u[k].status = st[k].status
  PROVE  /\ [q EXCEPT ![t] = SubSeq(@, i + 1, Len(@))] \in Deques
         /\ Exact(u, [q EXCEPT ![t] = SubSeq(@, i + 1, Len(@))])
<1> DEFINE j == q[t][i]
           n == Len(q[t])
           rest == SubSeq(q[t], i + 1, n)
           r == [q EXCEPT ![t] = rest]
<1>1. q[t] \in Seq(JobIds) /\ n \in Nat /\ i \in Nat /\ i <= n /\ 1 <= i
  BY DEF Deques
<1>2. \A s \in Tenants : \A k \in 1..Len(q[s]) : q[s][k] \in JobIds
  BY ElementOfSeq DEF Deques
<1>3. /\ rest \in Seq(JobIds)
      /\ Len(rest) = n - i
      /\ \A k \in 1..(n - i) : rest[k] = q[t][i + k]
  BY <1>1, SubSeqProperties
<1>4. /\ r \in Deques
      /\ r[t] = rest
      /\ \A s \in Tenants \ {t} : r[s] = q[s]
  BY <1>3 DEF Deques
<1>5. \A k \in 1..(n - i) : i + k \in 1..n /\ i + k # i
  BY <1>1
<1>6. j \in JobIds /\ TenantOf[j] = t
  BY <1>2 DEF Exact, EntriesDistinct
<1>7. EntriesDistinct(r)
  <2> SUFFICES ASSUME NEW s \in Tenants, NEW a \in 1..Len(r[s])
               PROVE  /\ TenantOf[r[s][a]] = s
                      /\ \A b \in 1..Len(r[s]) : r[s][a] = r[s][b] => a = b
    BY DEF EntriesDistinct
  <2>1. CASE s # t
    BY <2>1, <1>4 DEF Exact, EntriesDistinct
  <2>2. CASE s = t
    <3>1. a \in 1..(n - i) /\ r[s][a] = q[t][i + a] /\ i + a \in 1..n
      BY <2>2, <1>3, <1>4, <1>5
    <3>2. TenantOf[r[s][a]] = s
      BY <2>2, <3>1 DEF Exact, EntriesDistinct
    <3>3. ASSUME NEW b \in 1..Len(r[s]), r[s][a] = r[s][b]
          PROVE  a = b
      <4>1. b \in 1..(n - i) /\ r[s][b] = q[t][i + b] /\ i + b \in 1..n
        BY <2>2, <1>3, <1>4, <1>5
      <4>2. i + a = i + b
        BY <3>1, <3>3, <4>1 DEF Exact, EntriesDistinct
      <4> QED BY <3>1, <4>1, <4>2, <1>1
    <3> QED BY <3>2, <3>3
  <2> QED BY <2>1, <2>2
<1>8. EntriesClaimable(u, r)
  <2> SUFFICES ASSUME NEW s \in Tenants, NEW a \in 1..Len(r[s])
               PROVE  u[r[s][a]].status \in {"queued", "cancelled", "absent"}
    BY DEF EntriesClaimable
  <2>1. CASE s # t
    <3>1. r[s][a] = q[s][a] /\ a \in 1..Len(q[s]) /\ q[s][a] \in JobIds
      BY <2>1, <1>2, <1>4
    <3>2. TenantOf[q[s][a]] = s
      BY <3>1 DEF Exact, EntriesDistinct
    <3>3. q[s][a] # j
      BY <2>1, <3>2, <1>6
    <3> QED BY <3>1, <3>3 DEF Exact, EntriesClaimable
  <2>2. CASE s = t
    <3>1. a \in 1..(n - i) /\ r[s][a] = q[t][i + a] /\ i + a \in 1..n /\ i + a # i
      BY <2>2, <1>3, <1>4, <1>5
    <3>2. q[t][i + a] # j /\ q[t][i + a] \in JobIds
      BY <3>1, <1>2 DEF Exact, EntriesDistinct
    <3> QED BY <3>1, <3>2 DEF Exact, EntriesClaimable
  <2> QED BY <2>1, <2>2
<1>9. QueuedHasEntry(u, r)
  <2> SUFFICES ASSUME NEW k \in JobIds, u[k].status = "queued"
               PROVE  \E a \in 1..Len(r[TenantOf[k]]) : r[TenantOf[k]][a] = k
    BY DEF QueuedHasEntry
  <2>1. k # j /\ st[k].status = "queued"
    OBVIOUS
  <2>2. PICK a \in 1..Len(q[TenantOf[k]]) : q[TenantOf[k]][a] = k
    BY <2>1 DEF Exact, QueuedHasEntry
  <2>3. CASE TenantOf[k] # t
    BY <2>2, <2>3, <1>4, StoreAssumption
  <2>4. CASE TenantOf[k] = t
    <3>1. a \in 1..n /\ q[t][a] = k
      BY <2>2, <2>4
    <3>2. ~(a \in 1..(i - 1)) /\ a # i
      BY <2>1, <3>1
    <3>3. a - i \in 1..(n - i) /\ i + (a - i) = a
      BY <3>1, <3>2, <1>1
    <3>4. rest[a - i] = k
      BY <3>1, <3>3, <1>3
    <3> QED BY <2>4, <3>3, <3>4, <1>3, <1>4
  <2> QED BY <2>3, <2>4
<1> QED BY <1>4, <1>7, <1>8, <1>9 DEF Exact

\* claim_next finds no queued entry: the deque of t is emptied, and t has no queued job.
LEMMA ExactUnderDrain ==
  ASSUME NEW st, NEW q \in Deques, Exact(st, q), NEW t \in Tenants,
         \A i \in 1..Len(q[t]) : st[q[t][i]].status # "queued"
  PROVE  /\ [q EXCEPT ![t] = <<>>] \in Deques
         /\ Exact(st, [q EXCEPT ![t] = <<>>])
<1> DEFINE r == [q EXCEPT ![t] = <<>>]
<1>1. /\ r \in Deques
      /\ r[t] = <<>> /\ Len(r[t]) = 0
      /\ \A s \in Tenants \ {t} : r[s] = q[s]
  BY DEF Deques
<1>2. \A s \in Tenants : s # t \/ 1..Len(r[s]) = {}
  BY <1>1
<1>3. EntriesDistinct(r) /\ EntriesClaimable(st, r)
  BY <1>1, <1>2 DEF Exact, EntriesDistinct, EntriesClaimable
<1>4. QueuedHasEntry(st, r)
  BY <1>1, StoreAssumption DEF Exact, QueuedHasEntry
<1> QED BY <1>1, <1>3, <1>4 DEF Exact

\* What the scan does to each job: it requeues or dead-letters the leased jobs whose
\* lease has expired, and touches no other.
LEMMA ScanEffect ==
  ASSUME NEW st \in StateMap, NEW at \in Nat, NEW limit \in Nat
  PROVE  /\ StatesAfterRequeue(st, at, limit) \in StateMap
         /\ \A j \in JobIds :
              \/ /\ StatesAfterRequeue(st, at, limit)[j] = st[j]
                 /\ ~(st[j].status = "leased" /\ st[j].lease_expires <= at)
              \/ /\ st[j].status = "leased" /\ st[j].lease_expires <= at
                 /\ \/ /\ StatesAfterRequeue(st, at, limit)[j].status = "queued"
                       /\ j \in Requeued(st, at, limit)
                    \/ /\ StatesAfterRequeue(st, at, limit)[j].status = "dead_lettered"
                       /\ j \notin Requeued(st, at, limit)
BY DEF StateMap, JobState, Statuses, StatesAfterRequeue, Requeued, Expired, Unleased

\* The scan leaves a job alone unless it is leased.
LEMMA ScanSkips ==
  ASSUME NEW st \in StateMap, NEW at \in Nat, NEW limit \in Nat, NEW j \in JobIds
  PROVE  StatesAfterRequeue(st, at, limit)[j] = st[j] \/ st[j].status = "leased"
BY ScanEffect

\* The only statuses the scan gives a job are queued and dead_lettered.
LEMMA ScanMoves ==
  ASSUME NEW st \in StateMap, NEW at \in Nat, NEW limit \in Nat, NEW j \in JobIds
  PROVE  \/ StatesAfterRequeue(st, at, limit)[j] = st[j]
         \/ /\ st[j].status = "leased"
            /\ StatesAfterRequeue(st, at, limit)[j].status \in {"queued", "dead_lettered"}
BY ScanEffect

\* The scan keeps statuses and deques in agreement, and appends jobs of st only.
LEMMA ExactUnderScan ==
  ASSUME NEW st \in StateMap, NEW q \in Deques, Exact(st, q),
         NEW at \in Nat, NEW limit \in Nat
  PROVE  /\ QueueAfterRequeue(st, q, at, limit) \in Deques
         /\ Exact(StatesAfterRequeue(st, at, limit), QueueAfterRequeue(st, q, at, limit))
         /\ \A t \in Tenants : \A i \in 1..Len(QueueAfterRequeue(st, q, at, limit)[t]) :
              LET j == QueueAfterRequeue(st, q, at, limit)[t][i] IN
              \/ \E k \in 1..Len(q[t]) : q[t][k] = j
              \/ st[j].status = "leased"
<1> DEFINE u == StatesAfterRequeue(st, at, limit)
           r == QueueAfterRequeue(st, q, at, limit)
           R(t) == {j \in Requeued(st, at, limit) : TenantOf[j] = t}
           app(t) == InsertionOrder(R(t))
           n(t) == Len(q[t])
           m(t) == Len(app(t))
<1>1. \A t \in Tenants : R(t) \in SUBSET JobIds
  BY DEF Requeued, Expired
<1>2. ASSUME NEW t \in Tenants
      PROVE  /\ app(t) \in Seq(JobIds)
             /\ \A i \in 1..m(t) : app(t)[i] \in R(t)
             /\ \A j \in R(t) : \E i \in 1..m(t) : app(t)[i] = j
             /\ \A i, k \in 1..m(t) : app(t)[i] = app(t)[k] => i = k
  BY <1>1, InsertionOrderLists
<1>3. ASSUME NEW t \in Tenants
      PROVE  /\ q[t] \in Seq(JobIds) /\ n(t) \in Nat /\ m(t) \in Nat
             /\ r[t] = q[t] \o app(t)
             /\ r[t] \in Seq(JobIds)
             /\ Len(r[t]) = n(t) + m(t)
             /\ \A i \in 1..n(t) : r[t][i] = q[t][i]
             /\ \A i \in 1..m(t) : r[t][n(t) + i] = app(t)[i]
  <2> HIDE DEF R
  <2>1. q[t] \in Seq(JobIds) /\ app(t) \in Seq(JobIds)
    BY <1>2 DEF Deques
  <2>2. n(t) \in Nat /\ m(t) \in Nat
    BY <2>1, LenProperties
  <2>3. r[t] = q[t] \o app(t)
    BY DEF QueueAfterRequeue, R
  <2>4. /\ q[t] \o app(t) \in Seq(JobIds)
        /\ Len(q[t] \o app(t)) = n(t) + m(t)
        /\ \A i \in 1..(n(t) + m(t)) :
              (q[t] \o app(t))[i] = IF i <= n(t) THEN q[t][i] ELSE app(t)[i - n(t)]
    <3> HIDE DEF app
    <3> QED BY <2>1, ConcatProperties
  <2>5. \A i \in 1..m(t) : /\ n(t) + i \in 1..(n(t) + m(t))
                           /\ ~(n(t) + i <= n(t)) /\ (n(t) + i) - n(t) = i
    <3> HIDE DEF n, m
    <3> QED BY <2>2
  <2>6. \A i \in 1..n(t) : i \in 1..(n(t) + m(t)) /\ i <= n(t)
    <3> HIDE DEF n, m
    <3> QED BY <2>2
  <2> QED
    <3> HIDE DEF n, m, app, r
    <3> QED BY <2>1, <2>2, <2>3, <2>4, <2>5, <2>6
<1>4. \A t \in Tenants : \A i \in 1..n(t) : q[t][i] \in JobIds
  BY <1>3, ElementOfSeq
<1>5. \A t \in Tenants : \A i \in 1..Len(r[t]) :
         i \in 1..n(t) \/ \E k \in 1..m(t) : i = n(t) + k
  <2> SUFFICES ASSUME NEW t \in Tenants, NEW i \in 1..Len(r[t]), i \notin 1..n(t)
               PROVE  \E k \in 1..m(t) : i = n(t) + k
    OBVIOUS
  <2> HIDE DEF n, m, r
  <2>1. n(t) \in Nat /\ m(t) \in Nat /\ i \in 1..(n(t) + m(t))
    BY <1>3
  <2>2. i - n(t) \in 1..m(t) /\ i = n(t) + (i - n(t))
    BY <2>1
  <2> QED BY <2>2
<1>6. /\ u \in StateMap
      /\ \A j \in JobIds : u[j].status = "queued" =>
            st[j].status = "queued" \/ j \in Requeued(st, at, limit)
      /\ \A j \in JobIds : st[j].status # "leased" => u[j] = st[j]
      /\ \A j \in Requeued(st, at, limit) :
            j \in JobIds /\ st[j].status = "leased" /\ u[j].status = "queued"
  BY ScanEffect DEF Requeued, Expired
<1>7. \A t \in Tenants : \A i \in 1..n(t) : q[t][i] \notin Requeued(st, at, limit)
  BY <1>4, <1>6 DEF Exact, EntriesClaimable
<1>8. r \in Deques
  <2>1. r = [t \in Tenants |-> r[t]]
    BY DEF QueueAfterRequeue
  <2> QED BY <2>1, <1>3 DEF Deques
<1>9. ASSUME NEW t \in Tenants, NEW i \in 1..Len(r[t])
      PROVE  \/ /\ i \in 1..n(t) /\ r[t][i] = q[t][i]
                /\ q[t][i] \in JobIds /\ q[t][i] \notin Requeued(st, at, limit)
             \/ \E k \in 1..m(t) : /\ i = n(t) + k /\ r[t][i] = app(t)[k]
                                   /\ r[t][i] \in Requeued(st, at, limit)
                                   /\ TenantOf[r[t][i]] = t
  <2> HIDE DEF n, m, r, app
  <2>1. CASE i \in 1..n(t)
    <3>1. r[t][i] = q[t][i]
      BY <2>1, <1>3
    <3>2. q[t][i] \in JobIds
      BY <2>1, <1>4
    <3>3. q[t][i] \notin Requeued(st, at, limit)
      BY <2>1, <1>7
    <3> QED BY <2>1, <3>1, <3>2, <3>3
  <2>2. CASE i \notin 1..n(t)
    <3>1. PICK k \in 1..m(t) : i = n(t) + k
      BY <2>2, <1>5
    <3>2. r[t][i] = app(t)[k]
      BY <3>1, <1>3
    <3>3. app(t)[k] \in R(t)
      BY <3>1, <1>2
    <3> QED BY <3>1, <3>2, <3>3
  <2> QED BY <2>1, <2>2
<1>10. EntriesDistinct(r) /\ EntriesClaimable(u, r)
  <2> SUFFICES ASSUME NEW t \in Tenants, NEW i \in 1..Len(r[t])
               PROVE  /\ TenantOf[r[t][i]] = t
                      /\ \A k \in 1..Len(r[t]) : r[t][i] = r[t][k] => i = k
                      /\ u[r[t][i]].status \in {"queued", "cancelled", "absent"}
    BY DEF EntriesDistinct, EntriesClaimable
  <2> HIDE DEF r, app, m, u
  <2>1. CASE i \in 1..n(t) /\ r[t][i] \notin Requeued(st, at, limit)
    <3>1. r[t][i] = q[t][i] /\ q[t][i] \in JobIds
      BY <2>1, <1>9
    <3>2. TenantOf[q[t][i]] = t /\ st[q[t][i]].status \in {"queued", "cancelled", "absent"}
      BY <2>1 DEF Exact, EntriesDistinct, EntriesClaimable
    <3>3. ASSUME NEW k \in 1..Len(r[t]), r[t][i] = r[t][k] PROVE i = k
      <4>1. k \in 1..n(t) /\ r[t][k] = q[t][k]
        BY <2>1, <3>3, <1>9
      <4> QED BY <2>1, <3>1, <3>3, <4>1 DEF Exact, EntriesDistinct
    <3>4. u[q[t][i]] = st[q[t][i]]
      BY <3>1, <3>2, <1>6
    <3> QED BY <3>1, <3>2, <3>3, <3>4
  <2>2. CASE r[t][i] \in Requeued(st, at, limit)
    <3>1. TenantOf[r[t][i]] = t /\ \E l \in 1..m(t) : i = n(t) + l /\ r[t][i] = app(t)[l]
      BY <2>2, <1>9
    <3>2. ASSUME NEW k \in 1..Len(r[t]), r[t][i] = r[t][k] PROVE i = k
      <4>1. \E o \in 1..m(t) : k = n(t) + o /\ r[t][k] = app(t)[o]
        BY <2>2, <3>2, <1>9
      <4> QED BY <3>1, <3>2, <4>1, <1>2
    <3> QED BY <2>2, <3>1, <3>2, <1>6
  <2> QED BY <2>1, <2>2, <1>9
<1>11. QueuedHasEntry(u, r)
  <2> SUFFICES ASSUME NEW j \in JobIds, u[j].status = "queued"
               PROVE  \E i \in 1..Len(r[TenantOf[j]]) : r[TenantOf[j]][i] = j
    BY DEF QueuedHasEntry
  <2> HIDE DEF r, app, u, n, m
  <2> DEFINE t == TenantOf[j]
  <2>1. t \in Tenants
    BY StoreAssumption
  <2>2. CASE st[j].status = "queued"
    <3>1. PICK i \in 1..n(t) : q[t][i] = j
      BY <2>2 DEF Exact, QueuedHasEntry, n
    <3>2. i \in 1..Len(r[t]) /\ r[t][i] = j
      BY <2>1, <3>1, <1>3
    <3> QED BY <3>2
  <2>3. CASE j \in Requeued(st, at, limit)
    <3>1. PICK i \in 1..m(t) : app(t)[i] = j
      BY <2>1, <2>3, <1>2
    <3>2. n(t) + i \in 1..Len(r[t]) /\ r[t][n(t) + i] = j
      BY <2>1, <3>1, <1>3
    <3> QED BY <3>2
  <2> QED BY <2>2, <2>3, <1>6
<1>12. \A t \in Tenants : \A i \in 1..Len(r[t]) :
          (\E k \in 1..n(t) : q[t][k] = r[t][i]) \/ st[r[t][i]].status = "leased"
  <2> HIDE DEF r, app, m, n
  <2> QED BY <1>6, <1>9
<1> QED BY <1>8, <1>10, <1>11, <1>12 DEF Exact

(***************************************************************************)
(* The inductive invariant.  QueueExact alone is not inductive: enqueue    *)
(* needs that a job not yet enqueued has no entry, and LeaseMutex needs    *)
(* to know which job states an unexpired claim is compatible with.         *)
(***************************************************************************)

\* Jobs beyond the last one enqueued have no record and no entry, and no one holds a
\* claim on them.
Fresh ==
  /\ \A j \in JobIds : j > enqueued => states[j].status = "absent"
  /\ \A t \in Tenants : \A i \in 1..Len(tenant_queue[t]) : tenant_queue[t][i] <= enqueued
  /\ \A c \in claims : c.job <= enqueued

\* The lease fields of a leased job are what the worker was told at its last claim.
LeasedHasClaim ==
  \A j \in JobIds : states[j].status = "leased" =>
    /\ states[j].lease_token = states[j].claim_attempt
    /\ [job |-> j, token |-> states[j].claim_attempt, until |-> states[j].lease_expires] \in claims

\* While a claim is unexpired and its call not cancelled, its job is not up for claiming.
LiveClaimHeld ==
  \A c \in claims : c.until > now /\ CallOf[c.job] \notin withdrawn =>
    /\ states[c.job].status \in {"leased", "completed", "absent"}
    /\ states[c.job].status = "leased" => c.until = states[c.job].lease_expires

StoreIInv ==
  StoreTypeOK /\ QueueExact /\ Fresh /\ LeasedHasClaim /\ LiveClaimHeld /\ LeaseMutex

\* The empty store satisfies the inductive invariant.
LEMMA StoreInitIInv == StoreInit => StoreIInv
<1> SUFFICES ASSUME StoreInit PROVE StoreIInv
  OBVIOUS
<1>1. StoreTypeOK
  BY StoreAssumption, EmptySeq
     DEF StoreInit, StoreTypeOK, JobState, Statuses, Absent, Claims
<1>2. \A t \in Tenants : 1..Len(tenant_queue[t]) = {}
  BY DEF StoreInit
<1>3. QueueExact
  BY <1>2 DEF StoreInit, QueueExact, Exact, EntriesDistinct, EntriesClaimable,
              QueuedHasEntry, Absent
<1>4. Fresh /\ LeasedHasClaim /\ LiveClaimHeld /\ LeaseMutex
  BY <1>2 DEF StoreInit, Fresh, LeasedHasClaim, LiveClaimHeld, LeaseMutex, Absent
<1> QED BY <1>1, <1>3, <1>4 DEF StoreIInv

\* enqueue keeps the inductive invariant.
LEMMA EnqueueKeeps == StoreIInv /\ Enqueue => StoreIInv'
<1> SUFFICES ASSUME StoreIInv, Enqueue PROVE StoreIInv'
  OBVIOUS
<1> DEFINE j == enqueued + 1
<1>1. j \in JobIds /\ enqueued \in Nat /\ enqueued' = j
  BY StoreAssumption DEF StoreIInv, StoreTypeOK, Enqueue, JobIds
<1>2. /\ states \in StateMap /\ tenant_queue \in Deques
      /\ Exact(states, tenant_queue)
  BY DEF StoreIInv, StoreTypeOK, QueueExact, StateMap, Deques
<1>3. TenantOf[j] \in Tenants
  BY <1>1, StoreAssumption
<1>4. /\ states' \in StateMap
      /\ states'[j].status = "queued"
      /\ states[j].status = "absent"
      /\ \A k \in JobIds \ {j} : states'[k] = states[k]
  BY <1>1, <1>2 DEF Enqueue, StateMap, JobState, Statuses, Absent, StoreIInv, Fresh
<1>5. \A i \in 1..Len(tenant_queue[TenantOf[j]]) : tenant_queue[TenantOf[j]][i] # j
  BY <1>1, <1>3 DEF StoreIInv, Fresh
<1>6. tenant_queue' = [tenant_queue EXCEPT ![TenantOf[j]] = Append(@, j)]
  BY DEF Enqueue
<1>7. tenant_queue' \in Deques /\ Exact(states', tenant_queue')
  <2>1. \A k \in JobIds \ {j} : states'[k].status = states[k].status
    BY <1>4
  <2> HIDE DEF j
  <2>2. [tenant_queue EXCEPT ![TenantOf[j]] = Append(@, j)] \in Deques
        /\ Exact(states', [tenant_queue EXCEPT ![TenantOf[j]] = Append(@, j)])
    BY <1>1, <1>2, <1>4, <1>5, <2>1, ExactUnderAppend
  <2> QED BY <1>6, <2>2
<1>8. StoreTypeOK'
  BY <1>1, <1>4, <1>7, StoreAssumption
     DEF StoreIInv, StoreTypeOK, StateMap, Deques, Enqueue, JobIds
<1>9. Fresh'
  <2>1. \A t \in Tenants : \A i \in 1..Len(tenant_queue'[t]) : tenant_queue'[t][i] <= enqueued'
    <3> SUFFICES ASSUME NEW t \in Tenants, NEW i \in 1..Len(tenant_queue'[t])
                 PROVE  tenant_queue'[t][i] <= enqueued'
      OBVIOUS
    <3>1. tenant_queue[t] \in Seq(JobIds)
      BY <1>2 DEF Deques
    <3>a. \A k \in 1..Len(tenant_queue[t]) : tenant_queue[t][k] \in Nat
      BY <3>1, ElementOfSeq, JobIdsFinite
    <3>2. CASE t # TenantOf[j]
      BY <1>1, <1>2, <1>6, <3>a, <3>2 DEF StoreIInv, Fresh, Deques
    <3>3. CASE t = TenantOf[j]
      <4>1. tenant_queue'[t] = Append(tenant_queue[t], j)
        BY <1>2, <1>3, <1>6, <3>3 DEF Deques
      <4>2. /\ Len(tenant_queue'[t]) = Len(tenant_queue[t]) + 1
            /\ \A k \in 1..Len(tenant_queue[t]) : tenant_queue'[t][k] = tenant_queue[t][k]
            /\ tenant_queue'[t][Len(tenant_queue[t]) + 1] = j
        BY <1>1, <3>1, <4>1, AppendProperties
      <4>3. i \in 1..Len(tenant_queue[t]) \/ i = Len(tenant_queue[t]) + 1
        BY <3>1, <4>2
      <4> QED BY <1>1, <3>a, <4>2, <4>3 DEF StoreIInv, Fresh
    <3> QED BY <3>2, <3>3
  <2>2. \A k \in JobIds : k > enqueued' => states'[k].status = "absent"
    BY <1>1, <1>4, JobIdsFinite DEF StoreIInv, Fresh
  <2>3. \A c \in claims' : c.job <= enqueued'
    BY <1>1, JobIdsFinite DEF StoreIInv, Fresh, Enqueue, StoreTypeOK, Claims
  <2> QED BY <2>1, <2>2, <2>3 DEF Fresh
<1>10. \A c \in claims : c.job # j /\ c.job \in JobIds
  BY <1>1, JobIdsFinite DEF StoreIInv, Fresh, StoreTypeOK, Claims
<1>11. LeasedHasClaim' /\ LiveClaimHeld' /\ LeaseMutex'
  BY <1>4, <1>10 DEF StoreIInv, LeasedHasClaim, LiveClaimHeld, LeaseMutex, Enqueue
<1> QED BY <1>7, <1>8, <1>9, <1>11 DEF StoreIInv, QueueExact

\* The scan, from any store state st that differs from states only in jobs of
\* cancelled calls, keeps what Fresh says of statuses and deques.
LEMMA ScanKeepsFresh ==
  ASSUME NEW st \in StateMap, NEW q \in Deques, Exact(st, q),
         NEW at \in Nat, NEW limit \in Nat, NEW e \in Nat,
         \A j \in JobIds : j > e => st[j].status = "absent",
         \A t \in Tenants : \A i \in 1..Len(q[t]) : q[t][i] <= e
  PROVE  /\ \A j \in JobIds : j > e => StatesAfterRequeue(st, at, limit)[j].status = "absent"
         /\ \A t \in Tenants : \A i \in 1..Len(QueueAfterRequeue(st, q, at, limit)[t]) :
              QueueAfterRequeue(st, q, at, limit)[t][i] <= e
<1> DEFINE r == QueueAfterRequeue(st, q, at, limit)
<1>1. ASSUME NEW j \in JobIds, j > e
      PROVE  StatesAfterRequeue(st, at, limit)[j].status = "absent"
  <2>1. st[j].status = "absent"
    BY <1>1
  <2>2. StatesAfterRequeue(st, at, limit)[j] = st[j] \/ st[j].status = "leased"
    BY ScanSkips
  <2> QED BY <2>1, <2>2
<1>2. ASSUME NEW t \in Tenants, NEW i \in 1..Len(r[t])
      PROVE  r[t][i] <= e
  <2>1. \/ \E k \in 1..Len(q[t]) : q[t][k] = r[t][i]
        \/ st[r[t][i]].status = "leased"
    BY ExactUnderScan
  <2>2. r \in Deques
    BY ExactUnderScan
  <2>3. r[t][i] \in JobIds
    <3> HIDE DEF r
    <3> QED BY <2>2, ElementOfSeq DEF Deques
  <2>4. CASE st[r[t][i]].status = "leased"
    <3>1. ~(r[t][i] > e)
      BY <2>3, <2>4
    <3>2. r[t][i] \in Nat
      BY <2>3, JobIdsFinite
    <3> HIDE DEF r
    <3> QED BY <3>1, <3>2
  <2> QED BY <2>1, <2>4
<1> QED BY <1>1, <1>2

\* A requeue_expired_leases scan, also as run by complete_claim and get_leased_job.
LEMMA ScanKeeps ==
  ASSUME StoreIInv, NEW limit \in Nat, RequeueScan(now, limit),
         UNCHANGED <<enqueued, now, claims, withdrawn>>
  PROVE  StoreIInv'
<1>1. /\ states \in StateMap /\ tenant_queue \in Deques
      /\ Exact(states, tenant_queue) /\ now \in Nat /\ enqueued \in Nat
  BY DEF StoreIInv, StoreTypeOK, QueueExact, StateMap, Deques
<1>2. /\ states' = StatesAfterRequeue(states, now, limit)
      /\ tenant_queue' = QueueAfterRequeue(states, tenant_queue, now, limit)
  BY DEF RequeueScan
<1>3. states' \in StateMap /\ tenant_queue' \in Deques /\ Exact(states', tenant_queue')
  BY <1>1, <1>2, ScanEffect, ExactUnderScan
<1>4. StoreTypeOK'
  BY <1>3 DEF StoreIInv, StoreTypeOK, StateMap, Deques
<1>5. Fresh'
  <2>1. /\ \A j \in JobIds : j > enqueued => states[j].status = "absent"
        /\ \A t \in Tenants : \A i \in 1..Len(tenant_queue[t]) : tenant_queue[t][i] <= enqueued
    BY DEF StoreIInv, Fresh
  <2>2. /\ \A j \in JobIds : j > enqueued => states'[j].status = "absent"
        /\ \A t \in Tenants : \A i \in 1..Len(tenant_queue'[t]) : tenant_queue'[t][i] <= enqueued
    BY <1>1, <1>2, <2>1, ScanKeepsFresh
  <2> QED BY <2>2 DEF StoreIInv, Fresh
<1>6. \A j \in JobIds :
        \/ states'[j] = states[j]
        \/ /\ states[j].status = "leased" /\ states[j].lease_expires <= now
           /\ states'[j].status \in {"queued", "dead_lettered"}
  <2>1. \A j \in JobIds :
          \/ StatesAfterRequeue(states, now, limit)[j] = states[j]
          \/ /\ states[j].status = "leased" /\ states[j].lease_expires <= now
             /\ StatesAfterRequeue(states, now, limit)[j].status \in {"queued", "dead_lettered"}
    BY <1>1, ScanEffect
  <2> QED BY <1>2, <2>1
<1>7. LeasedHasClaim'
  BY <1>6 DEF StoreIInv, LeasedHasClaim
<1>8. \A c \in claims : c.job \in JobIds /\ c.until \in Nat
  BY DEF StoreIInv, StoreTypeOK, Claims
<1>9. LiveClaimHeld'
  BY <1>1, <1>6, <1>8 DEF StoreIInv, LiveClaimHeld
<1>10. LeaseMutex'
  BY DEF StoreIInv, LeaseMutex
<1> QED BY <1>3, <1>4, <1>5, <1>7, <1>9, <1>10 DEF StoreIInv, QueueExact

\* complete_claim keeps it: the job that is completed was leased under the token, so it has
\* no deque entry.
LEMMA CompleteClaimKeeps ==
  ASSUME StoreIInv, NEW j \in JobIds, NEW token, CompleteClaim(j, token)
  PROVE  StoreIInv'
<1>1. CASE LeaseLapsed(j) /\ RequeueScan(now, 0)
  BY <1>1, ScanKeeps DEF CompleteClaim
<1>2. CASE UNCHANGED <<states, tenant_queue>>
  BY <1>2 DEF CompleteClaim, StoreIInv, StoreTypeOK, QueueExact, Exact, EntriesDistinct,
     EntriesClaimable, QueuedHasEntry, Fresh, LeasedHasClaim, LiveClaimHeld, LeaseMutex
<1>3. CASE /\ LeaseActive(j, token)
           /\ states' = [states EXCEPT ![j] = [@ EXCEPT !.status = "completed", !.at = now]]
           /\ UNCHANGED tenant_queue
  <2>1. /\ states \in StateMap /\ tenant_queue \in Deques
        /\ Exact(states, tenant_queue) /\ states[j].status = "leased"
    BY <1>3 DEF StoreIInv, StoreTypeOK, QueueExact, StateMap, Deques, LeaseActive
  <2>2. /\ states' \in StateMap
        /\ states'[j].status = "completed"
        /\ \A k \in JobIds \ {j} : states'[k] = states[k]
    BY <1>3, <2>1 DEF StateMap, JobState, Statuses, StoreIInv, StoreTypeOK
  <2>a. /\ \A k \in JobIds : states'[k].status = "queued" => states[k].status = "queued"
        /\ \A k \in JobIds : states[k].status \in {"queued", "cancelled", "absent"} =>
                             states'[k].status \in {"queued", "cancelled", "absent"}
    BY <2>1, <2>2
  <2>b. Exact(states', tenant_queue)
    BY <2>1, <2>a, ExactUnderStatusChange
  <2>3. Exact(states', tenant_queue')
    BY <1>3, <2>b
  <2>4. StoreTypeOK'
    BY <1>3, <2>2 DEF StoreIInv, StoreTypeOK, StateMap, CompleteClaim
  <2>5. Fresh' /\ LeasedHasClaim' /\ LiveClaimHeld' /\ LeaseMutex'
    <3>1. \A c \in claims : c.job \in JobIds
      BY DEF StoreIInv, StoreTypeOK, Claims
    <3> QED BY <1>3, <2>1, <2>2, <3>1
            DEF StoreIInv, Fresh, LeasedHasClaim, LiveClaimHeld, LeaseMutex, CompleteClaim
  <2> QED BY <2>3, <2>4, <2>5 DEF StoreIInv, QueueExact
<1> QED BY <1>1, <1>2, <1>3 DEF CompleteClaim

\* get_leased_job keeps it: it only scans.
LEMMA GetLeasedJobKeeps ==
  ASSUME StoreIInv, NEW j \in JobIds, NEW token, GetLeasedJob(j, token)
  PROVE  StoreIInv'
<1>1. CASE RequeueScan(now, 0)
  BY <1>1, ScanKeeps DEF GetLeasedJob
<1>2. CASE UNCHANGED <<states, tenant_queue>>
  BY <1>2 DEF GetLeasedJob, StoreIInv, StoreTypeOK, QueueExact, Exact, EntriesDistinct,
     EntriesClaimable, QueuedHasEntry, Fresh, LeasedHasClaim, LiveClaimHeld, LeaseMutex
<1> QED BY <1>1, <1>2 DEF GetLeasedJob

\* replay_dead_letter_job keeps it: a dead letter has no deque entry.
LEMMA ReplayKeeps ==
  ASSUME StoreIInv, NEW j \in JobIds, ReplayDeadLetterJob(j)
  PROVE  StoreIInv'
<1>1. /\ states \in StateMap /\ tenant_queue \in Deques
      /\ Exact(states, tenant_queue) /\ states[j].status = "dead_lettered"
      /\ enqueued \in Nat
  BY DEF StoreIInv, StoreTypeOK, QueueExact, StateMap, Deques, ReplayDeadLetterJob
<1>2. /\ states' \in StateMap
      /\ states'[j].status = "queued"
      /\ \A k \in JobIds \ {j} : states'[k] = states[k]
  <2> DEFINE w == [Unleased(states[j], "queued") EXCEPT
                     !.at = 0, !.replay_count = states[j].replay_count + 1]
  <2>1. states[j] \in JobState
    BY <1>1 DEF StateMap
  <2>2. Unleased(states[j], "queued") \in JobState
        /\ Unleased(states[j], "queued").status = "queued"
    BY <2>1 DEF JobState, Statuses, Unleased
  <2>a. states[j].replay_count + 1 \in Nat
    BY <2>1 DEF JobState
  <2>3. w \in JobState /\ w.status = "queued"
    <3> DEFINE x == Unleased(states[j], "queued")
               n == states[j].replay_count + 1
    <3> HIDE DEF x, n
    <3>1. x \in JobState /\ x.status = "queued" /\ n \in Nat
      BY <2>2, <2>a DEF x, n
    <3>2. [x EXCEPT !.at = 0, !.replay_count = n] \in JobState
          /\ [x EXCEPT !.at = 0, !.replay_count = n].status = "queued"
      BY <3>1 DEF JobState
    <3> QED BY <3>2 DEF x, n
  <2>4. states' = [states EXCEPT ![j] = w]
    BY DEF ReplayDeadLetterJob
  <2> HIDE DEF w
  <2> QED BY <1>1, <2>3, <2>4 DEF StateMap
<1>3. TenantOf[j] \in Tenants /\ j \in Nat /\ j <= enqueued
  BY <1>1, StoreAssumption, JobIdsFinite DEF StoreIInv, Fresh
<1>4. tenant_queue' = [tenant_queue EXCEPT ![TenantOf[j]] = Append(@, j)]
  BY DEF ReplayDeadLetterJob
<1>5. \A i \in 1..Len(tenant_queue[TenantOf[j]]) : tenant_queue[TenantOf[j]][i] # j
  BY <1>1, <1>3 DEF Exact, EntriesClaimable
<1>6. tenant_queue' \in Deques /\ Exact(states', tenant_queue')
  <2>1. \A k \in JobIds \ {j} : states'[k].status = states[k].status
    BY <1>2
  <2>2. [tenant_queue EXCEPT ![TenantOf[j]] = Append(@, j)] \in Deques
        /\ Exact(states', [tenant_queue EXCEPT ![TenantOf[j]] = Append(@, j)])
    BY <1>1, <1>2, <1>5, <2>1, ExactUnderAppend
  <2> QED BY <1>4, <2>2
<1>7. StoreTypeOK'
  BY <1>2, <1>6 DEF StoreIInv, StoreTypeOK, StateMap, Deques, ReplayDeadLetterJob
<1>8. Fresh'
  <2>1. ASSUME NEW t \in Tenants, NEW i \in 1..Len(tenant_queue'[t])
        PROVE  tenant_queue'[t][i] <= enqueued'
    <3>1. tenant_queue[t] \in Seq(JobIds)
      BY <1>1 DEF Deques
    <3>2. CASE t # TenantOf[j]
      BY <1>1, <1>4, <3>2 DEF StoreIInv, Fresh, Deques, ReplayDeadLetterJob
    <3>3. CASE t = TenantOf[j]
      <4>1. tenant_queue'[t] = Append(tenant_queue[t], j)
        BY <1>1, <1>3, <1>4, <3>3 DEF Deques
      <4>2. /\ Len(tenant_queue'[t]) = Len(tenant_queue[t]) + 1
            /\ \A k \in 1..Len(tenant_queue[t]) : tenant_queue'[t][k] = tenant_queue[t][k]
            /\ tenant_queue'[t][Len(tenant_queue[t]) + 1] = j
        BY <3>1, <4>1, AppendProperties
      <4>3. i \in 1..Len(tenant_queue[t]) \/ i = Len(tenant_queue[t]) + 1
        BY <3>1, <4>2
      <4> QED BY <1>3, <4>2, <4>3 DEF StoreIInv, Fresh, ReplayDeadLetterJob
    <3> QED BY <3>2, <3>3
  <2>2. \A k \in JobIds : k > enqueued' => states'[k].status = "absent"
    BY <1>1, <1>2, <1>3 DEF StoreIInv, Fresh, ReplayDeadLetterJob
  <2> QED BY <2>1, <2>2 DEF StoreIInv, Fresh, ReplayDeadLetterJob
<1>9. LeasedHasClaim' /\ LiveClaimHeld' /\ LeaseMutex'
  <2>1. \A c \in claims : c.job \in JobIds
    BY DEF StoreIInv, StoreTypeOK, Claims
  <2> QED BY <1>1, <1>2, <2>1
          DEF StoreIInv, LeasedHasClaim, LiveClaimHeld, LeaseMutex, ReplayDeadLetterJob
<1> QED BY <1>6, <1>7, <1>8, <1>9 DEF StoreIInv, QueueExact

\* claim_next keeps it: the scan only requeues leases that have run out, and the new lease
\* is on a job nobody holds.
LEMMA ClaimNextKeeps ==
  ASSUME StoreIInv, NEW t \in Tenants, NEW at \in Readings, ClaimNext(t, at)
  PROVE  StoreIInv'
<1> DEFINE st == StatesAfterRequeue(states, at, 0)
           q == QueueAfterRequeue(states, tenant_queue, at, 0)
<1>1. /\ states \in StateMap /\ tenant_queue \in Deques
      /\ Exact(states, tenant_queue) /\ now \in Nat /\ enqueued \in Nat
      /\ at \in Nat /\ at <= now
  BY DEF StoreIInv, StoreTypeOK, QueueExact, StateMap, Deques, Readings
<1>2. st \in StateMap /\ q \in Deques /\ Exact(st, q)
  BY <1>1, ScanEffect, ExactUnderScan
<1>3. /\ \A j \in JobIds : j > enqueued => st[j].status = "absent"
      /\ \A s \in Tenants : \A i \in 1..Len(q[s]) : q[s][i] <= enqueued
  <2>1. /\ \A j \in JobIds : j > enqueued => states[j].status = "absent"
        /\ \A s \in Tenants : \A i \in 1..Len(tenant_queue[s]) : tenant_queue[s][i] <= enqueued
    BY DEF StoreIInv, Fresh
  <2> QED BY <1>1, <2>1, ScanKeepsFresh
<1>4. \A j \in JobIds :
        \/ st[j] = states[j]
        \/ /\ states[j].status = "leased" /\ states[j].lease_expires <= at
           /\ st[j].status \in {"queued", "dead_lettered"}
  BY <1>1, ScanEffect
<1>5. \A c \in claims : /\ c \in Claims /\ c.job \in JobIds /\ c.until \in Nat
                        /\ c.job <= enqueued
  BY DEF StoreIInv, StoreTypeOK, Claims, Fresh
<1>6. \A s \in Tenants : \A i \in 1..Len(q[s]) : q[s][i] \in JobIds
  <2> HIDE DEF q
  <2> QED BY <1>2, ElementOfSeq DEF Deques
<1>7. UNCHANGED <<enqueued, now, withdrawn>>
  BY DEF ClaimNext
<1>a. \A j \in JobIds : states[j] \in JobState /\ st[j] \in JobState
  BY <1>1, <1>2 DEF StateMap
<1>8. \A c \in claims : c.until > now /\ CallOf[c.job] \notin withdrawn =>
        /\ st[c.job] = states[c.job]
        /\ st[c.job].status \in {"leased", "completed", "absent"}
        /\ st[c.job].status = "leased" => c.until = st[c.job].lease_expires
  <2> SUFFICES ASSUME NEW c \in claims, c.until > now, CallOf[c.job] \notin withdrawn
               PROVE  st[c.job] = states[c.job]
    BY DEF StoreIInv, LiveClaimHeld
  <2>1. states[c.job].status = "leased" => c.until = states[c.job].lease_expires
    BY DEF StoreIInv, LiveClaimHeld
  <2> HIDE DEF st
  <2> QED BY <1>1, <1>4, <1>5, <2>1
<1>9. \A j \in JobIds : st[j].status = "leased" =>
        /\ st[j].lease_token = st[j].claim_attempt
        /\ [job |-> j, token |-> st[j].claim_attempt, until |-> st[j].lease_expires] \in claims
  <2> SUFFICES ASSUME NEW j \in JobIds, st[j].status = "leased"
               PROVE  st[j] = states[j]
    BY DEF StoreIInv, LeasedHasClaim
  <2> HIDE DEF st
  <2> QED BY <1>4
<1>10. CASE \E i \in 1..Len(q[t]) :
              /\ st[q[t][i]].status = "queued"
              /\ \A k \in 1..(i - 1) : st[q[t][k]].status # "queued"
              /\ st[q[t][i]].claim_attempt + 1 <= MaxClaims
              /\ states' = [st EXCEPT ![q[t][i]] =
                              [@ EXCEPT !.status = "leased",
                                        !.lease_token = st[q[t][i]].claim_attempt + 1,
                                        !.lease_expires = at + LeaseTtl,
                                        !.claim_attempt = st[q[t][i]].claim_attempt + 1]]
              /\ tenant_queue' = [q EXCEPT ![t] = SubSeq(@, i + 1, Len(@))]
              /\ claims' = claims \cup {[job |-> q[t][i], token |-> st[q[t][i]].claim_attempt + 1,
                                         until |-> at + LeaseTtl]}
  <2>1. PICK i \in 1..Len(q[t]) :
              /\ st[q[t][i]].status = "queued"
              /\ \A k \in 1..(i - 1) : st[q[t][k]].status # "queued"
              /\ st[q[t][i]].claim_attempt + 1 <= MaxClaims
              /\ states' = [st EXCEPT ![q[t][i]] =
                              [@ EXCEPT !.status = "leased",
                                        !.lease_token = st[q[t][i]].claim_attempt + 1,
                                        !.lease_expires = at + LeaseTtl,
                                        !.claim_attempt = st[q[t][i]].claim_attempt + 1]]
              /\ tenant_queue' = [q EXCEPT ![t] = SubSeq(@, i + 1, Len(@))]
              /\ claims' = claims \cup {[job |-> q[t][i], token |-> st[q[t][i]].claim_attempt + 1,
                                         until |-> at + LeaseTtl]}
    BY <1>10
  <2> DEFINE j == q[t][i]
             n == st[j].claim_attempt + 1
             new == [job |-> j, token |-> n, until |-> at + LeaseTtl]
  <2> HIDE DEF st, q
  <2>2. j \in JobIds /\ n \in Nat /\ at + LeaseTtl \in Nat /\ j <= enqueued
    BY <1>1, <1>3, <1>6, <1>a, StoreAssumption DEF JobState
  <2>3. /\ states' \in StateMap
        /\ states'[j].status = "leased" /\ states'[j].lease_token = n
        /\ states'[j].claim_attempt = n /\ states'[j].lease_expires = at + LeaseTtl
        /\ \A k \in JobIds \ {j} : states'[k] = st[k]
    <3> HIDE DEF j, n
    <3>1. states' = [st EXCEPT ![j] = [@ EXCEPT !.status = "leased", !.lease_token = n,
                       !.lease_expires = at + LeaseTtl, !.claim_attempt = n]]
      BY <2>1 DEF j, n
    <3> QED BY <1>2, <2>2, <3>1 DEF StateMap, JobState, Statuses
  <2>4. tenant_queue' \in Deques /\ Exact(states', tenant_queue')
    <3>1. \A k \in JobIds \ {q[t][i]} : states'[k].status = st[k].status
      BY <2>3
    <3>2. states'[q[t][i]].status = "leased"
      BY <2>3
    <3>a. /\ st[q[t][i]].status = "queued"
          /\ \A k \in 1..(i - 1) : st[q[t][k]].status # "queued"
      BY <2>1
    <3>3. /\ [q EXCEPT ![t] = SubSeq(@, i + 1, Len(@))] \in Deques
          /\ Exact(states', [q EXCEPT ![t] = SubSeq(@, i + 1, Len(@))])
      BY <1>2, <3>a, <3>1, <3>2, ExactUnderPop
    <3> QED BY <2>1, <3>3
  <2>5. new \in Claims /\ claims' = claims \cup {new}
    <3>0. n <= MaxClaims
      BY <2>1
    <3>1. n \in Tokens
      <4> HIDE DEF n
      <4> QED BY <2>2, <3>0, StoreAssumption DEF Tokens
    <3> HIDE DEF j, n
    <3> QED BY <2>1, <2>2, <3>1 DEF Claims, j, n
  <2>6. StoreTypeOK'
    BY <1>7, <2>3, <2>4, <2>5 DEF StoreIInv, StoreTypeOK, StateMap, Deques
  <2>7. Fresh'
    <3>1. ASSUME NEW s \in Tenants, NEW a \in 1..Len(tenant_queue'[s])
          PROVE  tenant_queue'[s][a] <= enqueued
      <4>1. q[s] \in Seq(JobIds) /\ q[t] \in Seq(JobIds)
        BY <1>2 DEF Deques
      <4>2. CASE s # t
        BY <1>2, <1>3, <2>1, <4>2 DEF Deques
      <4>3. CASE s = t
        <5>1. tenant_queue'[s] = SubSeq(q[t], i + 1, Len(q[t]))
          BY <1>2, <2>1, <4>3 DEF Deques
        <5>2. /\ Len(tenant_queue'[s]) = Len(q[t]) - i
              /\ \A k \in 1..(Len(q[t]) - i) : tenant_queue'[s][k] = q[t][i + k]
          BY <4>1, <5>1, SubSeqProperties
        <5>3. i + a \in 1..Len(q[t]) /\ tenant_queue'[s][a] = q[t][i + a]
          BY <4>1, <5>2
        <5> QED BY <1>3, <5>3
      <4> QED BY <4>2, <4>3
    <3>2. \A k \in JobIds : k > enqueued => states'[k].status = "absent"
      BY <1>1, <1>3, <2>2, <2>3, JobIdsFinite
    <3>3. \A c \in claims' : c.job <= enqueued
      BY <1>5, <2>2, <2>5
    <3> QED BY <1>7, <3>1, <3>2, <3>3 DEF Fresh
  <2>8. LeasedHasClaim'
    BY <1>9, <2>3, <2>5 DEF LeasedHasClaim
  <2>9. \A c \in claims : c.job = j => ~(c.until > now /\ CallOf[c.job] \notin withdrawn)
    BY <1>8, <2>1
  <2>10. LiveClaimHeld'
    <3> SUFFICES ASSUME NEW c \in claims', c.until > now, CallOf[c.job] \notin withdrawn
                 PROVE  /\ states'[c.job].status \in {"leased", "completed", "absent"}
                        /\ states'[c.job].status = "leased" => c.until = states'[c.job].lease_expires
      BY <1>7 DEF LiveClaimHeld
    <3>1. CASE c = new
      BY <2>3, <3>1
    <3>2. CASE c \in claims
      <4>1. c.job # j /\ c.job \in JobIds
        BY <1>5, <2>9, <3>2
      <4>2. states'[c.job] = st[c.job]
        BY <2>3, <4>1
      <4> QED BY <1>8, <3>2, <4>2
    <3> QED BY <2>5, <3>1, <3>2
  <2>11. LeaseMutex'
    <3>1. ASSUME NEW c \in claims, NEW d \in claims, c.job = d.job, c.until > now, d.until > now
          PROVE  c = d \/ CallOf[c.job] \in withdrawn
      BY <3>1 DEF StoreIInv, LeaseMutex
    <3>2. ASSUME NEW c \in claims, c.job = new.job, c.until > now
          PROVE  CallOf[c.job] \in withdrawn /\ CallOf[new.job] \in withdrawn
      BY <2>9, <3>2
    <3> HIDE DEF new
    <3> QED BY <1>7, <2>5, <3>1, <3>2 DEF LeaseMutex
  <2> QED BY <2>4, <2>6, <2>7, <2>8, <2>10, <2>11 DEF StoreIInv, QueueExact
<1>11. CASE /\ \A i \in 1..Len(q[t]) : st[q[t][i]].status # "queued"
            /\ states' = st
            /\ tenant_queue' = [q EXCEPT ![t] = <<>>]
            /\ UNCHANGED claims
  <2> HIDE DEF st, q
  <2>1. tenant_queue' \in Deques /\ Exact(states', tenant_queue')
    <3>1. [q EXCEPT ![t] = <<>>] \in Deques /\ Exact(st, [q EXCEPT ![t] = <<>>])
      BY <1>2, <1>11, ExactUnderDrain
    <3> QED BY <1>11, <3>1
  <2>2. StoreTypeOK'
    BY <1>2, <1>7, <1>11, <2>1 DEF StoreIInv, StoreTypeOK, StateMap, Deques
  <2>3. Fresh'
    <3>1. \A s \in Tenants : \A a \in 1..Len(tenant_queue'[s]) : tenant_queue'[s][a] <= enqueued
      BY <1>2, <1>3, <1>11 DEF Deques
    <3> QED BY <1>3, <1>7, <1>11, <3>1 DEF StoreIInv, Fresh
  <2>4. LeasedHasClaim' /\ LiveClaimHeld' /\ LeaseMutex'
    BY <1>7, <1>8, <1>9, <1>11 DEF StoreIInv, LeasedHasClaim, LiveClaimHeld, LeaseMutex
  <2> QED BY <2>1, <2>2, <2>3, <2>4 DEF StoreIInv, QueueExact
<1> QED BY <1>10, <1>11 DEF ClaimNext

\* cancel_pending_call keeps it.
LEMMA CancelKeeps ==
  ASSUME StoreIInv, NEW c \in Calls, CancelPendingCall(c)
  PROVE  StoreIInv'
<1> DEFINE st == [j \in JobIds |->
                    IF CallOf[j] = c /\ states[j].status = "queued"
                      THEN [states[j] EXCEPT !.status = "cancelled", !.at = now]
                    ELSE IF CallOf[j] = c /\ states[j].status = "leased"
                      THEN [states[j] EXCEPT !.lease_expires = 0]
                    ELSE states[j]]
<1>1. /\ states \in StateMap /\ tenant_queue \in Deques
      /\ Exact(states, tenant_queue) /\ now \in Nat /\ enqueued \in Nat
  BY DEF StoreIInv, StoreTypeOK, QueueExact, StateMap, Deques
<1>2. /\ states' = StatesAfterRequeue(st, now, 0)
      /\ tenant_queue' = QueueAfterRequeue(st, tenant_queue, now, 0)
      /\ withdrawn' = withdrawn \cup {c}
      /\ UNCHANGED <<enqueued, now, claims>>
  BY DEF CancelPendingCall
<1>3. st \in StateMap
  BY <1>1 DEF StateMap, JobState, Statuses
<1>4. \A j \in JobIds :
        \/ st[j] = states[j] /\ (CallOf[j] = c => states[j].status \notin {"queued", "leased"})
        \/ CallOf[j] = c /\ states[j].status = "queued" /\ st[j].status = "cancelled"
        \/ CallOf[j] = c /\ states[j].status = "leased" /\ st[j].status = "leased"
           /\ st[j].lease_expires = 0
  BY <1>1 DEF StateMap, JobState
<1> HIDE DEF st
<1>5. Exact(st, tenant_queue)
  <2>1. /\ \A k \in JobIds : st[k].status = "queued" => states[k].status = "queued"
        /\ \A k \in JobIds : states[k].status \in {"queued", "cancelled", "absent"} =>
                             st[k].status \in {"queued", "cancelled", "absent"}
    BY <1>4
  <2> QED BY <1>1, <2>1, ExactUnderStatusChange
<1>6. states' \in StateMap /\ tenant_queue' \in Deques /\ Exact(states', tenant_queue')
  BY <1>1, <1>2, <1>3, <1>5, ScanEffect, ExactUnderScan
<1>7. StoreTypeOK'
  BY <1>2, <1>6 DEF StoreIInv, StoreTypeOK, StateMap, Deques
<1>8. Fresh'
  <2>1. /\ \A j \in JobIds : j > enqueued => states[j].status = "absent"
        /\ \A t \in Tenants : \A i \in 1..Len(tenant_queue[t]) : tenant_queue[t][i] <= enqueued
    BY DEF StoreIInv, Fresh
  <2>a. \A j \in JobIds : j > enqueued => st[j].status = "absent"
    BY <1>4, <2>1
  <2>2. /\ \A j \in JobIds : j > enqueued => states'[j].status = "absent"
        /\ \A t \in Tenants : \A i \in 1..Len(tenant_queue'[t]) : tenant_queue'[t][i] <= enqueued
    BY <1>1, <1>2, <1>3, <1>5, <2>1, <2>a, ScanKeepsFresh
  <2> QED BY <1>2, <2>2 DEF StoreIInv, Fresh
<1>9. \A j \in JobIds :
        \/ states'[j] = st[j] /\ ~(st[j].status = "leased" /\ st[j].lease_expires <= now)
        \/ /\ st[j].status = "leased" /\ st[j].lease_expires <= now
           /\ states'[j].status \in {"queued", "dead_lettered"}
  <2>1. \A j \in JobIds :
          \/ /\ StatesAfterRequeue(st, now, 0)[j] = st[j]
             /\ ~(st[j].status = "leased" /\ st[j].lease_expires <= now)
          \/ /\ st[j].status = "leased" /\ st[j].lease_expires <= now
             /\ StatesAfterRequeue(st, now, 0)[j].status \in {"queued", "dead_lettered"}
    BY <1>1, <1>3, ScanEffect
  <2> QED BY <1>2, <2>1
<1>10. \A j \in JobIds : states'[j].status = "leased" => states'[j] = states[j]
  <2> SUFFICES ASSUME NEW j \in JobIds, states'[j].status = "leased"
               PROVE  states'[j] = states[j]
    OBVIOUS
  <2>1. states'[j] = st[j] /\ ~(st[j].lease_expires <= now)
    BY <1>9
  <2>2. st[j].lease_expires # 0
    BY <1>1, <2>1
  <2> QED BY <1>4, <2>1, <2>2
<1>11. LeasedHasClaim'
  BY <1>2, <1>10 DEF StoreIInv, LeasedHasClaim
<1>12. \A d \in claims : d.job \in JobIds /\ d.until \in Nat
  BY DEF StoreIInv, StoreTypeOK, Claims
<1>13. LiveClaimHeld'
  <2> SUFFICES ASSUME NEW d \in claims, d.until > now, CallOf[d.job] \notin withdrawn,
                      CallOf[d.job] # c
               PROVE  /\ states'[d.job].status \in {"leased", "completed", "absent"}
                      /\ states'[d.job].status = "leased" => d.until = states'[d.job].lease_expires
    BY <1>2 DEF LiveClaimHeld
  <2>1. /\ states[d.job].status \in {"leased", "completed", "absent"}
        /\ states[d.job].status = "leased" => d.until = states[d.job].lease_expires
    BY DEF StoreIInv, LiveClaimHeld
  <2>2. d.job \in JobIds /\ d.until \in Nat
    BY <1>12
  <2>3. st[d.job] = states[d.job]
    BY <1>4, <2>2
  <2>4. ~(st[d.job].status = "leased" /\ st[d.job].lease_expires <= now)
    BY <1>1, <2>1, <2>2, <2>3
  <2>5. states'[d.job] = states[d.job]
    BY <1>9, <2>2, <2>3, <2>4
  <2> QED BY <2>1, <2>5
<1>14. LeaseMutex'
  BY <1>2 DEF StoreIInv, LeaseMutex
<1> QED BY <1>6, <1>7, <1>8, <1>11, <1>13, <1>14 DEF StoreIInv, QueueExact

\* cleanup_retention keeps it: it forgets completed and cancelled jobs only.
LEMMA CleanupKeeps ==
  ASSUME StoreIInv, NEW t \in Tenants, NEW at \in Readings, CleanupRetention(t, at)
  PROVE  StoreIInv'
<1> DEFINE gone == Pruned(t, "completed", CompletedTtl, MaxCompleted, at)
                   \cup Pruned(t, "cancelled", CancelledTtl, MaxCancelled, at)
<1>1. /\ states \in StateMap /\ tenant_queue \in Deques
      /\ Exact(states, tenant_queue)
  BY DEF StoreIInv, StoreTypeOK, QueueExact, StateMap, Deques
<1>2. gone \subseteq {j \in JobIds : states[j].status \in {"completed", "cancelled"}}
  BY DEF Pruned, Stale, Overflow, OfStatus
<1>3. /\ states' = [j \in JobIds |-> IF j \in gone THEN Absent ELSE states[j]]
      /\ UNCHANGED <<tenant_queue, enqueued, now, claims, withdrawn>>
  BY DEF CleanupRetention
<1> HIDE DEF gone
<1>4. \A j \in JobIds :
        \/ states'[j] = states[j]
        \/ states[j].status \in {"completed", "cancelled"} /\ states'[j].status = "absent"
  BY <1>2, <1>3 DEF Absent
<1>5. states' \in StateMap
  BY <1>1, <1>3 DEF StateMap, JobState, Statuses, Absent
<1>6. Exact(states', tenant_queue)
  <2>1. /\ \A k \in JobIds : states'[k].status = "queued" => states[k].status = "queued"
        /\ \A k \in JobIds : states[k].status \in {"queued", "cancelled", "absent"} =>
                             states'[k].status \in {"queued", "cancelled", "absent"}
    BY <1>4
  <2> QED BY <1>1, <2>1, ExactUnderStatusChange
<1>7. StoreTypeOK'
  BY <1>3, <1>5 DEF StoreIInv, StoreTypeOK, StateMap
<1>8. \A c \in claims : c.job \in JobIds
  BY DEF StoreIInv, StoreTypeOK, Claims
<1>9. Fresh' /\ LeasedHasClaim' /\ LiveClaimHeld' /\ LeaseMutex'
  BY <1>3, <1>4, <1>8 DEF StoreIInv, Fresh, LeasedHasClaim, LiveClaimHeld, LeaseMutex
<1> QED BY <1>3, <1>6, <1>7, <1>9 DEF StoreIInv, QueueExact

\* The passing of time keeps it: leases only run out.
LEMMA TickKeeps == StoreIInv /\ Tick => StoreIInv'
<1> SUFFICES ASSUME StoreIInv, Tick PROVE StoreIInv'
  OBVIOUS
<1>1. now \in Nat /\ now' = now + 1 /\ now' \in Nat \ {0}
  BY DEF StoreIInv, StoreTypeOK, Tick
<1>2. StoreTypeOK' /\ QueueExact' /\ Fresh' /\ LeasedHasClaim'
  BY <1>1 DEF Tick, StoreIInv, StoreTypeOK, QueueExact, Exact, EntriesDistinct,
     EntriesClaimable, QueuedHasEntry, Fresh, LeasedHasClaim
<1>3. \A c \in claims : c.until > now' => c.until > now
  BY <1>1 DEF StoreIInv, StoreTypeOK, Claims
<1>4. LiveClaimHeld' /\ LeaseMutex'
  BY <1>3 DEF Tick, StoreIInv, LiveClaimHeld, LeaseMutex
<1> QED BY <1>2, <1>4 DEF StoreIInv

\* Every step of the store keeps the inductive invariant.
LEMMA StoreStep == StoreIInv /\ [StoreNext]_storeVars => StoreIInv'
<1> SUFFICES ASSUME StoreIInv, [StoreNext]_storeVars PROVE StoreIInv'
  OBVIOUS
<1>2. CASE UNCHANGED storeVars
  BY <1>2 DEF storeVars, StoreIInv, StoreTypeOK, QueueExact, Exact, EntriesDistinct,
     EntriesClaimable, QueuedHasEntry, Fresh, LeasedHasClaim, LiveClaimHeld, LeaseMutex
<1>3. CASE Enqueue
  BY <1>3, EnqueueKeeps
<1>4. CASE \E t \in Tenants, at \in Readings : ClaimNext(t, at)
  BY <1>4, ClaimNextKeeps
<1>5. CASE \E k \in JobIds, token \in Tokens : CompleteClaim(k, token)
  BY <1>5, CompleteClaimKeeps
<1>6. CASE \E k \in JobIds, token \in Tokens : GetLeasedJob(k, token)
  BY <1>6, GetLeasedJobKeeps
<1>7. CASE \E limit \in {0, DlqLimit} : RequeueExpiredLeases(limit)
  BY <1>7, ScanKeeps, StoreAssumption DEF RequeueExpiredLeases
<1>8. CASE \E c \in Calls : CancelPendingCall(c)
  BY <1>8, CancelKeeps
<1>9. CASE \E j \in JobIds : ReplayDeadLetterJob(j)
  BY <1>9, ReplayKeeps
<1>10. CASE \E t \in Tenants, at \in Readings : CleanupRetention(t, at)
  BY <1>10, CleanupKeeps
<1>11. CASE Tick
  BY <1>11, TickKeeps
<1> QED BY <1>2, <1>3, <1>4, <1>5, <1>6, <1>7, <1>8, <1>9, <1>10, <1>11 DEF StoreNext

\* The operations of the store other than complete_claim.
QuietNext ==
  \/ Enqueue
  \/ \E t \in Tenants, at \in Readings : ClaimNext(t, at)
  \/ \E j \in JobIds, token \in Tokens : GetLeasedJob(j, token)
  \/ \E limit \in {0, DlqLimit} : RequeueExpiredLeases(limit)
  \/ \E c \in Calls : CancelPendingCall(c)
  \/ \E j \in JobIds : ReplayDeadLetterJob(j)
  \/ \E t \in Tenants, at \in Readings : CleanupRetention(t, at)
  \/ Tick

\* What each operation other than complete_claim may do to the status of each job.
LEMMA QuietSteps ==
  ASSUME StoreIInv, [QuietNext]_storeVars, NEW j \in JobIds
  PROVE  \/ states'[j].status = states[j].status
         \/ states[j].status = "absent" /\ states'[j].status = "queued" /\ j > enqueued
         \/ states[j].status = "queued" /\ states'[j].status \in {"leased", "cancelled"}
         \/ states[j].status = "leased" /\ states'[j].status \in {"queued", "dead_lettered"}
         \/ states[j].status \in {"completed", "cancelled"} /\ states'[j].status = "absent"
         \/ states[j].status = "dead_lettered" /\ states'[j].status = "queued"
<1>1. /\ states \in StateMap /\ now \in Nat /\ enqueued \in Nat /\ j \in Nat
  BY JobIdsFinite DEF StoreIInv, StoreTypeOK, StateMap
<1>2. ASSUME NEW at \in Nat, NEW limit \in Nat
      PROVE  \/ StatesAfterRequeue(states, at, limit)[j] = states[j]
             \/ /\ states[j].status = "leased"
                /\ StatesAfterRequeue(states, at, limit)[j].status \in {"queued", "dead_lettered"}
  BY <1>1, ScanMoves
<1>a. ASSUME NEW limit \in Nat, RequeueScan(now, limit)
      PROVE  \/ states'[j].status = states[j].status
             \/ states[j].status = "leased" /\ states'[j].status \in {"queued", "dead_lettered"}
  BY <1>1, <1>2, <1>a DEF RequeueScan
<1>3. CASE UNCHANGED storeVars \/ Tick
  BY <1>3 DEF storeVars, Tick
<1>4. CASE Enqueue
  <2>1. enqueued + 1 \in JobIds /\ states[enqueued + 1].status = "absent"
    BY <1>1, <1>4, StoreAssumption DEF Enqueue, JobIds, StoreIInv, Fresh, StoreTypeOK
  <2> QED BY <1>1, <1>4, <2>1 DEF Enqueue, StateMap, Absent
<1>5. CASE \E t \in Tenants, at \in Readings : ClaimNext(t, at)
  <2>1. PICK t \in Tenants, at \in Readings : ClaimNext(t, at)
    BY <1>5
  <2> DEFINE st == StatesAfterRequeue(states, at, 0)
             q == QueueAfterRequeue(states, tenant_queue, at, 0)
  <2>2. at \in Nat /\ st \in StateMap
    BY <1>1, ScanEffect DEF Readings
  <2>3. \/ st[j] = states[j]
        \/ states[j].status = "leased" /\ st[j].status \in {"queued", "dead_lettered"}
    BY <1>2, <2>2
  <2>4. \/ states' = st
        \/ \E k : st[k].status = "queued" /\ \E w : w.status = "leased"
                                              /\ states' = [st EXCEPT ![k] = w]
    <3>1. CASE \E i \in 1..Len(q[t]) :
                 /\ st[q[t][i]].status = "queued"
                 /\ states' = [st EXCEPT ![q[t][i]] =
                                 [@ EXCEPT !.status = "leased",
                                           !.lease_token = st[q[t][i]].claim_attempt + 1,
                                           !.lease_expires = at + LeaseTtl,
                                           !.claim_attempt = st[q[t][i]].claim_attempt + 1]]
      <4>1. PICK i \in 1..Len(q[t]) :
                 /\ st[q[t][i]].status = "queued"
                 /\ states' = [st EXCEPT ![q[t][i]] =
                                 [@ EXCEPT !.status = "leased",
                                           !.lease_token = st[q[t][i]].claim_attempt + 1,
                                           !.lease_expires = at + LeaseTtl,
                                           !.claim_attempt = st[q[t][i]].claim_attempt + 1]]
        BY <3>1
      <4>2. QueueAfterRequeue(states, tenant_queue, at, 0) \in Deques
        BY <1>1, <2>2, ExactUnderScan DEF StoreIInv, StoreTypeOK, QueueExact, Deques
      <4> HIDE DEF st, q
      <4> DEFINE k == q[t][i]
                 w == [st[k] EXCEPT !.status = "leased",
                                    !.lease_token = st[k].claim_attempt + 1,
                                    !.lease_expires = at + LeaseTtl,
                                    !.claim_attempt = st[k].claim_attempt + 1]
      <4>3. k \in JobIds
        BY <4>2, ElementOfSeq DEF Deques, q
      <4>4. st[k] \in JobState
        BY <2>2, <4>3 DEF StateMap
      <4>5. w.status = "leased"
        BY <4>4 DEF JobState
      <4>6. states' = [st EXCEPT ![k] = w] /\ st[k].status = "queued"
        BY <4>1
      <4> HIDE DEF k, w
      <4> QED BY <4>5, <4>6
    <3>2. CASE states' = st
      BY <3>2
    <3> QED BY <2>1, <3>1, <3>2 DEF ClaimNext
  <2> HIDE DEF st
  <2> QED BY <2>2, <2>3, <2>4 DEF StateMap
<1>7. CASE \E k \in JobIds, token \in Tokens : GetLeasedJob(k, token)
  BY <1>7, <1>a DEF GetLeasedJob
<1>8. CASE \E limit \in {0, DlqLimit} : RequeueExpiredLeases(limit)
  BY <1>8, <1>a, StoreAssumption DEF RequeueExpiredLeases
<1>9. CASE \E c \in Calls : CancelPendingCall(c)
  <2>1. PICK c \in Calls : CancelPendingCall(c)
    BY <1>9
  <2> DEFINE st == [k \in JobIds |->
                    IF CallOf[k] = c /\ states[k].status = "queued"
                      THEN [states[k] EXCEPT !.status = "cancelled", !.at = now]
                    ELSE IF CallOf[k] = c /\ states[k].status = "leased"
                      THEN [states[k] EXCEPT !.lease_expires = 0]
                    ELSE states[k]]
  <2>2. states' = StatesAfterRequeue(st, now, 0)
    BY <2>1 DEF CancelPendingCall
  <2>3. st \in StateMap
    BY <1>1 DEF StateMap, JobState, Statuses
  <2>4. \/ st[j].status = states[j].status
        \/ states[j].status = "queued" /\ st[j].status = "cancelled"
    <3>1. states[j] \in JobState
      BY <1>1 DEF StateMap
    <3>2. /\ [states[j] EXCEPT !.status = "cancelled", !.at = now].status = "cancelled"
          /\ [states[j] EXCEPT !.lease_expires = 0].status = states[j].status
      BY <3>1 DEF JobState
    <3> QED BY <3>2
  <2> HIDE DEF st
  <2>5. \/ StatesAfterRequeue(st, now, 0)[j] = st[j]
        \/ /\ st[j].status = "leased"
           /\ StatesAfterRequeue(st, now, 0)[j].status \in {"queued", "dead_lettered"}
    BY <1>1, <2>3, ScanMoves
  <2> QED BY <2>2, <2>4, <2>5
<1>10. CASE \E k \in JobIds : ReplayDeadLetterJob(k)
  <2>1. PICK k \in JobIds : ReplayDeadLetterJob(k)
    BY <1>10
  <2>2. states[k] \in JobState /\ states[k].status = "dead_lettered"
    BY <1>1, <2>1 DEF StateMap, ReplayDeadLetterJob
  <2> DEFINE x == Unleased(states[k], "queued")
             n == states[k].replay_count + 1
  <2>3. x \in JobState /\ x.status = "queued"
    BY <2>2 DEF JobState, Statuses, Unleased
  <2>4. states' = [states EXCEPT ![k] = [x EXCEPT !.at = 0, !.replay_count = n]]
    BY <2>1 DEF ReplayDeadLetterJob
  <2> HIDE DEF x, n
  <2>5. [x EXCEPT !.at = 0, !.replay_count = n].status = "queued"
    BY <2>3 DEF JobState
  <2> QED BY <1>1, <2>2, <2>4, <2>5 DEF StateMap
<1>11. CASE \E t \in Tenants, at \in Readings : CleanupRetention(t, at)
  BY <1>11 DEF CleanupRetention, Pruned, Stale, Overflow, OfStatus, Absent
<1> QED BY <1>3, <1>4, <1>5, <1>7, <1>8, <1>9, <1>10, <1>11 DEF QuietNext

\* What each step may do to the status of each job.
LEMMA StatusSteps ==
  ASSUME StoreIInv, [StoreNext]_storeVars, NEW j \in JobIds
  PROVE  \/ states'[j].status = states[j].status
         \/ states[j].status = "absent" /\ states'[j].status = "queued" /\ j > enqueued
         \/ states[j].status = "queued" /\ states'[j].status \in {"leased", "cancelled"}
         \/ states[j].status = "leased" /\ states'[j].status \in {"queued", "dead_lettered"}
         \/ /\ states[j].status = "leased" /\ states'[j].status = "completed"
            /\ states[j].lease_expires > now
         \/ states[j].status \in {"completed", "cancelled"} /\ states'[j].status = "absent"
         \/ states[j].status = "dead_lettered" /\ states'[j].status = "queued"
<1>1. /\ states \in StateMap /\ now \in Nat
  BY DEF StoreIInv, StoreTypeOK, StateMap
<1>2. CASE [QuietNext]_storeVars
  BY <1>2, QuietSteps
<1>3. CASE \E k \in JobIds, token \in Tokens : CompleteClaim(k, token)
  <2>1. PICK k \in JobIds, token \in Tokens : CompleteClaim(k, token)
    BY <1>3
  <2>2. CASE RequeueScan(now, 0)
    BY <1>1, <2>2, ScanMoves DEF RequeueScan
  <2>3. CASE UNCHANGED states
    BY <2>3
  <2>4. CASE /\ LeaseActive(k, token)
             /\ states' = [states EXCEPT ![k] = [@ EXCEPT !.status = "completed", !.at = now]]
    BY <1>1, <2>4 DEF LeaseActive, StateMap, JobState
  <2> QED BY <2>1, <2>2, <2>3, <2>4 DEF CompleteClaim
<1> QED BY <1>2, <1>3 DEF StoreNext, QuietNext

(***************************************************************************)
(* Theorems.                                                               *)
(***************************************************************************)

\* The inductive invariant holds in every reachable state of the store.
THEOREM StoreInvariant == StoreSpec => []StoreIInv
BY StoreInitIInv, StoreStep, PTL DEF StoreSpec

\* The store's dictionaries keep their types under every sequence of calls.
THEOREM StoreTypeCorrect == StoreSpec => []StoreTypeOK
<1>1. StoreIInv => StoreTypeOK
  BY DEF StoreIInv
<1> QED BY <1>1, StoreInvariant, PTL

\* No queued job is lost from, or duplicated in, the deques: claims, expiries,
\* cancellations, dead-letter replays and pruning keep status and deque in agreement.
THEOREM StoreQueueExact == StoreSpec => []QueueExact
<1>1. StoreIInv => QueueExact
  BY DEF StoreIInv
<1> QED BY <1>1, StoreInvariant, PTL

\* Two workers never both hold an unexpired lease on a job whose call was not cancelled.
THEOREM StoreLeaseMutex == StoreSpec => []LeaseMutex
<1>1. StoreIInv => LeaseMutex
  BY DEF StoreIInv
<1> QED BY <1>1, StoreInvariant, PTL

\* A job is completed only under its latest claim, while the worker that holds the
\* claim still believes it unexpired.
THEOREM StoreCompletedByHolder == StoreSpec => CompletedByHolder
<1>1. StoreIInv /\ [StoreNext]_storeVars =>
        [\A j \in JobIds :
           states[j].status # "completed" /\ states'[j].status = "completed" =>
             \E c \in claims : /\ c.job = j
                               /\ c.token = states[j].claim_attempt
                               /\ c.until > now]_storeVars
  <2> SUFFICES ASSUME StoreIInv, [StoreNext]_storeVars, NEW j \in JobIds,
                      states[j].status # "completed", states'[j].status = "completed"
               PROVE  \E c \in claims : c.job = j /\ c.token = states[j].claim_attempt /\ c.until > now
    OBVIOUS
  <2>1. states[j].status = "leased" /\ states[j].lease_expires > now
    BY StatusSteps
  <2>2. [job |-> j, token |-> states[j].claim_attempt, until |-> states[j].lease_expires] \in claims
    BY <2>1 DEF StoreIInv, LeasedHasClaim
  <2> QED BY <2>1, <2>2
<1> QED BY <1>1, StoreInvariant, PTL DEF StoreSpec, CompletedByHolder

\* Jobs move through their life cycle only along its edges, and never come back once
\* retention has forgotten them.
THEOREM StoreLifecycle == StoreSpec => LifecycleOrder
<1>1. StoreIInv /\ [StoreNext]_storeVars =>
        [\A j \in JobIds : /\ states'[j].status \in Successors(states[j].status)
                           /\ j <= enqueued /\ states[j].status = "absent" =>
                                states'[j].status = "absent"]_storeVars
  <2> SUFFICES ASSUME StoreIInv, [StoreNext]_storeVars, NEW j \in JobIds
               PROVE  /\ states'[j].status \in Successors(states[j].status)
                      /\ j <= enqueued /\ states[j].status = "absent" =>
                           states'[j].status = "absent"
    OBVIOUS
  <2>1. states[j].status \in Statuses
    BY DEF StoreIInv, StoreTypeOK, JobState
  <2>2. j \in Nat /\ enqueued \in Nat
    BY JobIdsFinite DEF StoreIInv, StoreTypeOK
  <2> QED BY <2>1, <2>2, StatusSteps DEF Successors, Statuses
<1> QED BY <1>1, StoreInvariant, PTL DEF StoreSpec, LifecycleOrder
=============================================================================
