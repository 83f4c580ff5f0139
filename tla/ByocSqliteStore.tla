--------------------------- MODULE ByocSqliteStore ---------------------------
(***************************************************************************)
(* SQLiteByocJobQueueStore: the job queue in a database file.  Several     *)
(* store instances (one per tenant context and per API process) open the   *)
(* same file.  A method holds the lock of its own instance only; towards   *)
(* the other instances each statement, or each transaction from its first  *)
(* write to its commit, is a step of its own.  An instance may crash       *)
(* between two steps and restart with the file as it is.                   *)
(*                                                                         *)
(* Rows have the fields of ByocJobStore's states, and that module's scan,  *)
(* retention and properties are used for them; there is no deque here, and *)
(* tenant_queue stays empty.  The k-th claim of all is given token k.      *)
(***************************************************************************)
EXTENDS ByocJobStore

CONSTANTS
  Instances,     \* store instances
  MaxCrashes     \* bound: crashes

VARIABLES
  op,            \* the method each instance is in, between two of its steps
  issued,        \* number of claims made; at most MaxClaims
  crashes

sqliteVars == <<states, enqueued, now, claims, withdrawn, op, issued, crashes>>

Idle == [pc |-> "idle", tenant |-> "", job |-> 0, token |-> 0, at |-> 0, attempt |-> 0]

SqliteInit ==
  /\ StoreInit
  /\ op = [p \in Instances |-> Idle]
  /\ issued = 0
  /\ crashes = 0

Begin(p, rec) == op[p] = Idle /\ op' = [op EXCEPT ![p] = rec]
End(p) == op' = [op EXCEPT ![p] = Idle]

\* A single-step method of an instance whose lock is free.
Free(p) == op[p] = Idle /\ UNCHANGED op

\* enqueue: INSERT OR IGNORE of a fresh id.
SqliteEnqueue(p) ==
  /\ Free(p)
  /\ enqueued < MaxJobs
  /\ states' = [states EXCEPT ![enqueued + 1] = [Absent EXCEPT !.status = "queued"]]
  /\ enqueued' = enqueued + 1
  /\ UNCHANGED <<tenant_queue, now, claims, withdrawn, issued, crashes>>

\* Mutation: the transaction that requeues does not look at the expiry.
ScanAll(at, limit) ==
  states' = [j \in JobIds |-> IF states[j].status = "leased"
                                THEN Unleased(states[j], "queued") ELSE states[j]]

\* _requeue_expired_leases_unlocked: both UPDATEs in one transaction.
Scan(at, limit) == states' = StatesAfterRequeue(states, at, limit)

\* requeue_expired_leases
SqliteRequeue(p, limit) ==
  /\ Free(p)
  /\ Scan(now, limit)
  /\ UNCHANGED <<tenant_queue, enqueued, now, claims, withdrawn, issued, crashes>>

-----------------------------------------------------------------------------
(* claim_next: scan, SELECT, UPDATE.                                       *)

ClaimScan(p, t, at) ==
  /\ Begin(p, [Idle EXCEPT !.pc = "claim_select", !.tenant = t, !.at = at])
  /\ Scan(at, 0)
  /\ UNCHANGED <<tenant_queue, enqueued, now, claims, withdrawn, issued, crashes>>

\* The oldest queued row of the tenant, ORDER BY rowid LIMIT 1.
ClaimSelect(p) ==
  LET queued == OfStatus(states, op[p].tenant, "queued")
  IN  /\ op[p].pc = "claim_select"
      /\ \/ queued = {} /\ End(p)
         \/ \E j \in queued :
              /\ \A k \in queued : j <= k
              /\ op' = [op EXCEPT ![p].pc = "claim_update", ![p].job = j,
                                  ![p].attempt = states[j].claim_attempt + 1]
      /\ UNCHANGED <<states, tenant_queue, enqueued, now, claims, withdrawn, issued, crashes>>

\* The row is updated by its id alone; a row that is gone stays gone, and the claim is
\* handed out all the same.
ClaimUpdate(p) ==
  LET j == op[p].job
      until == op[p].at + LeaseTtl
  IN  /\ op[p].pc = "claim_update"
      /\ issued < MaxClaims
      /\ states' = IF states[j].status = "absent" THEN states
                   ELSE [states EXCEPT ![j] =
                          [@ EXCEPT !.status = "leased", !.lease_token = issued + 1,
                                    !.lease_expires = until, !.claim_attempt = op[p].attempt]]
      /\ claims' = claims \cup {[job |-> j, token |-> issued + 1, until |-> until]}
      /\ issued' = issued + 1
      /\ End(p)
      /\ UNCHANGED <<tenant_queue, enqueued, now, withdrawn, crashes>>

-----------------------------------------------------------------------------
(* complete_claim and get_leased_job: SELECT, then UPDATE or scan.         *)

\* Mutation: the token of the row is not compared with the worker's.
CompletesAnyToken(j, token) == states[j].status = "leased" /\ states[j].lease_expires > now

\* The row as selected allows the completion.
Completes(j, token) == LeaseActive(j, token)

CompleteSelect(p, j, token) ==
  /\ Begin(p, IF LeaseLapsed(j) THEN [Idle EXCEPT !.pc = "scan", !.at = now]
              ELSE IF Completes(j, token)
                THEN [Idle EXCEPT !.pc = "complete_update", !.job = j, !.token = token, !.at = now]
              ELSE Idle)
  /\ UNCHANGED <<states, tenant_queue, enqueued, now, claims, withdrawn, issued, crashes>>

CompleteUpdate(p) ==
  LET j == op[p].job
  IN  /\ op[p].pc = "complete_update"
      /\ states' = IF states[j].status = "absent" THEN states
                   ELSE [states EXCEPT ![j] = [@ EXCEPT !.status = "completed", !.at = op[p].at]]
      /\ End(p)
      /\ UNCHANGED <<tenant_queue, enqueued, now, claims, withdrawn, issued, crashes>>

\* get_leased_job only reads, unless it finds the lease expired.
GetLeasedSelect(p, j) ==
  /\ LeaseLapsed(j)
  /\ Begin(p, [Idle EXCEPT !.pc = "scan", !.at = now])
  /\ UNCHANGED <<states, tenant_queue, enqueued, now, claims, withdrawn, issued, crashes>>

\* The scan that ends complete_claim, get_leased_job and cancel_pending_call.
ScanStep(p) ==
  /\ op[p].pc = "scan"
  /\ Scan(op[p].at, 0)
  /\ End(p)
  /\ UNCHANGED <<tenant_queue, enqueued, now, claims, withdrawn, issued, crashes>>

-----------------------------------------------------------------------------
(* The remaining methods.                                                  *)

\* cancel_pending_call: both UPDATEs are committed before the scan.
CancelUpdate(p, c) ==
  /\ Begin(p, [Idle EXCEPT !.pc = "scan", !.at = now])
  /\ states' = [j \in JobIds |->
                  IF CallOf[j] = c /\ states[j].status = "queued"
                    THEN [states[j] EXCEPT !.status = "cancelled", !.at = now]
                  ELSE IF CallOf[j] = c /\ states[j].status = "leased"
                    THEN [states[j] EXCEPT !.lease_expires = 0]
                  ELSE states[j]]
  /\ withdrawn' = withdrawn \cup {c}
  /\ UNCHANGED <<tenant_queue, enqueued, now, claims, issued, crashes>>

\* replay_dead_letter_job: SELECT, then an UPDATE by id.
ReplaySelect(p, j) ==
  /\ states[j].status = "dead_lettered"
  /\ Begin(p, [Idle EXCEPT !.pc = "replay_update", !.job = j])
  /\ UNCHANGED <<states, tenant_queue, enqueued, now, claims, withdrawn, issued, crashes>>

ReplayUpdate(p) ==
  LET j == op[p].job
  IN  /\ op[p].pc = "replay_update"
      /\ states' = IF states[j].status = "absent" THEN states
                   ELSE [states EXCEPT ![j] = [Unleased(states[j], "queued") EXCEPT
                                                 !.at = 0,
                                                 !.replay_count = states[j].replay_count + 1]]
      /\ End(p)
      /\ UNCHANGED <<tenant_queue, enqueued, now, claims, withdrawn, issued, crashes>>

\* cleanup_retention: one transaction.
SqliteCleanup(p, t, at) ==
  /\ Free(p)
  /\ CleanupRetention(t, at)
  /\ UNCHANGED <<issued, crashes>>

SqliteTick == Tick /\ UNCHANGED <<op, issued, crashes>>

\* The process of an instance dies and is restarted.
Crash(p) ==
  /\ op[p] # Idle
  /\ crashes < MaxCrashes
  /\ End(p)
  /\ crashes' = crashes + 1
  /\ UNCHANGED <<states, tenant_queue, enqueued, now, claims, withdrawn, issued>>

InstanceStep(p) ==
  \/ SqliteEnqueue(p)
  \/ \E limit \in {0, DlqLimit} : SqliteRequeue(p, limit)
  \/ \E t \in Tenants, at \in Readings : ClaimScan(p, t, at) \/ SqliteCleanup(p, t, at)
  \/ ClaimSelect(p) \/ ClaimUpdate(p)
  \/ \E c \in claims : CompleteSelect(p, c.job, c.token) \/ GetLeasedSelect(p, c.job)
  \/ CompleteUpdate(p) \/ ScanStep(p)
  \/ \E c \in Calls : CancelUpdate(p, c)
  \/ \E j \in JobIds : states[j].replay_count < MaxReplays /\ ReplaySelect(p, j)
  \/ ReplayUpdate(p)
  \/ Crash(p)

SqliteNext == SqliteTick \/ \E p \in Instances : InstanceStep(p)

SqliteSpec == SqliteInit /\ [][SqliteNext]_sqliteVars

-----------------------------------------------------------------------------
(* Properties.  LeaseMutex is that of ByocJobStore.                      *)

\* When complete_claim marks the row, the row is still leased under the token that was
\* compared: nobody has requeued, replayed or reclaimed the job since the SELECT.
CompletesOwnLease ==
  [][\A p \in Instances :
       op[p].pc = "complete_update" /\ op'[p] = Idle /\ crashes' = crashes =>
         /\ states[op[p].job].status = "leased"
         /\ states[op[p].job].lease_token = op[p].token]_sqliteVars

\* Leases of the durable queue hold across crashes and restarts between any two statements: two
\* workers never hold unexpired leases on one job, and a completion finds the lease it selected.
DurableLeasesHold == []LeaseMutex /\ CompletesOwnLease
=============================================================================
