----------------------------- MODULE ByocDurable -----------------------------
(* The SQLite result store (tools/byoc/sqlite_store.py, SQLiteByocResultStore) under the          *)
(* submission path of tools/byoc/connector_runtime.py, over one database file that several        *)
(* processes share and that outlives their crashes. A connection of its own is opened for every   *)
(* method: a SELECT is a step by itself, the writes of a method are one transaction, opened by    *)
(* the first of them and lost unless it is committed. The job rows are those of ByocSqliteStore,  *)
(* reduced to what a submission reads and writes of them.                                         *)
EXTENDS Naturals, FiniteSets

CONSTANTS Nodes,             \* server processes over the file
          DurableJobs,       \* jobs; each is enqueued once, by a call that waits on some node
          ResultKeys,        \* idempotency keys that results carry
          BlankKey,          \* a missing key
          Submitters,        \* requests under way with a result: one each at a time
          DurableStrategies,        \* conflict strategies the store may be configured with
          ResultTtl, KeyTtl, MaxResultRecords,   \* retention settings
          MaxLeases, MaxSubmissions, MaxNodeRestarts, MaxDurableTime  \* model bounds

ASSUME DurableAssumption ==
  /\ BlankKey \notin ResultKeys
  /\ ResultTtl \in Nat \ {0} /\ KeyTtl \in Nat \ {0} /\ MaxResultRecords \in Nat

VARIABLES strategy,     \* the configured conflict strategy
          jobRow,       \* byoc_jobs: status and the lease's number
          payloadRow,   \* byoc_result_payloads, by job
          keyRow,       \* byoc_result_idempotency, by key
          conflictRows, \* byoc_result_conflicts: how many conflicts were counted
          writing,      \* the request whose transaction is open, or none
          waitingOn,    \* the node where a job's caller waits, or how the call ended
          submitting,   \* the requests
          submitted, nodeRestarts,    \* bounded counters
          durableSeconds,             \* the clock
          settled       \* <<key, job>> of results consumed, replaced, pruned, or refused keyless

durableVars == <<strategy, jobRow, payloadRow, keyRow, conflictRows, writing, waitingOn,
                 submitting, submitted, nodeRestarts, durableSeconds, settled>>

NoStoredRow == [at |-> 0]
QuietRequest == [step |-> "idle"]

DurableInit ==
  /\ strategy \in DurableStrategies
  /\ jobRow = [j \in DurableJobs |-> [status |-> "none", lease |-> 0]]
  /\ payloadRow = [j \in DurableJobs |-> NoStoredRow]
  /\ keyRow = [k \in ResultKeys |-> NoStoredRow]
  /\ conflictRows = 0
  /\ writing = QuietRequest
  /\ waitingOn = [j \in DurableJobs |-> "none"]
  /\ submitting = [s \in Submitters |-> QuietRequest]
  /\ submitted = 0 /\ nodeRestarts = 0 /\ durableSeconds = 1
  /\ settled = {}

resultTables == <<payloadRow, keyRow, conflictRows, settled>>
durableCounters == <<strategy, nodeRestarts, durableSeconds>>

-----------------------------------------------------------------------------
\* execute() enqueues the job and polls for its result on the node that runs the call.
DurableEnqueue(j, n) ==
  /\ jobRow[j].status = "none" /\ writing = QuietRequest
  /\ jobRow' = [jobRow EXCEPT ![j].status = "queued"]
  /\ waitingOn' = [waitingOn EXCEPT ![j] = n]
  /\ UNCHANGED <<resultTables, durableCounters, writing, submitting, submitted>>

LeaseJob(j) ==
  /\ jobRow[j].status = "queued" /\ jobRow[j].lease < MaxLeases /\ writing = QuietRequest
  /\ jobRow' = [jobRow EXCEPT ![j] = [status |-> "leased", lease |-> @.lease + 1]]
  /\ UNCHANGED <<resultTables, durableCounters, writing, waitingOn, submitting, submitted>>

LeaseRunsOut(j) ==
  /\ jobRow[j].status = "leased" /\ writing = QuietRequest
  /\ jobRow' = [jobRow EXCEPT ![j].status = "queued"]
  /\ UNCHANGED <<resultTables, durableCounters, writing, waitingOn, submitting, submitted>>

StoredResult(j) == <<payloadRow[j].key, j>>

Unanswered == {j \in DurableJobs : payloadRow[j] = NoStoredRow}

\* The caller's poll: the payload is read and its row deleted.
DurableConsume(j) ==
  /\ waitingOn[j] \in Nodes /\ payloadRow[j] # NoStoredRow /\ writing = QuietRequest
  /\ payloadRow' = [payloadRow EXCEPT ![j] = NoStoredRow]
  /\ settled' = settled \cup {StoredResult(j)}
  /\ waitingOn' = [waitingOn EXCEPT ![j] = "answered"]
  /\ UNCHANGED <<durableCounters, jobRow, keyRow, conflictRows, writing, submitting, submitted>>

CallerTimesOut(j) ==
  /\ waitingOn[j] \in Nodes
  /\ waitingOn' = [waitingOn EXCEPT ![j] = "timed_out"]
  /\ UNCHANGED <<resultTables, durableCounters, jobRow, writing, submitting, submitted>>

-----------------------------------------------------------------------------
Continue(s, step) == submitting' = [submitting EXCEPT ![s].step = step]
ReplyTo(s) == submitting' = [submitting EXCEPT ![s] = QuietRequest]

\* A worker sends a result under a lease it was given, with the key it was given or another.
DurableSubmit(s, n, j, lease, key, success) ==
  /\ submitting[s] = QuietRequest /\ submitted < MaxSubmissions
  /\ lease \in 1..jobRow[j].lease
  /\ submitted' = submitted + 1
  /\ submitting' = [submitting EXCEPT ![s] =
       [step |-> "lookup", on |-> n, job |-> j, lease |-> lease, key |-> key, good |-> success]]
  /\ UNCHANGED <<resultTables, durableCounters, jobRow, writing, waitingOn>>

HeldBy(r) == jobRow[r.job].status = "leased" /\ jobRow[r.job].lease = r.lease

HasIdempotencyKey(k) == k # BlankKey /\ keyRow[k] # NoStoredRow

\* A key that is known already is a duplicate; a lease that is not held is refused.
DurableLookup(s) ==
  /\ submitting[s].step = "lookup"
  /\ IF HasIdempotencyKey(submitting[s].key) \/ ~HeldBy(submitting[s])
     THEN ReplyTo(s) ELSE Continue(s, "complete")
  /\ UNCHANGED <<resultTables, durableCounters, jobRow, writing, waitingOn, submitted>>

\* complete_claim reads the row in one statement ...
DurableCompleteSelect(s) ==
  /\ submitting[s].step = "complete"
  /\ IF HeldBy(submitting[s]) THEN Continue(s, "completing") ELSE ReplyTo(s)
  /\ UNCHANGED <<resultTables, durableCounters, jobRow, writing, waitingOn, submitted>>

\* ... and updates it by its id alone in another.
DurableCompleteUpdate(s) ==
  /\ submitting[s].step = "completing" /\ writing = QuietRequest
  /\ jobRow' = [jobRow EXCEPT ![submitting[s].job].status = "completed"]
  /\ Continue(s, "ingest")
  /\ UNCHANGED <<resultTables, durableCounters, writing, waitingOn, submitted>>

\* Whether the incoming result replaces a stored one that has another key.
ResolveResultConflict(existing, incoming) ==
  \/ strategy = "last_write_wins"
  \/ strategy = "prefer_success" /\ incoming.good /\ ~existing.good

(* ingest reads the payload stored for the job. A result without a key is refused; so is one that *)
(* conflicts with the stored one and does not replace it, and its conflict is not counted: the    *)
(* transaction that counted it is never committed.                                                *)
IngestSelect(s) ==
  LET r == submitting[s]
      stored == payloadRow[r.job]
      conflict == stored # NoStoredRow /\ stored.key # r.key
  IN /\ r.step = "ingest"
     /\ IF r.key = BlankKey \/ (conflict /\ ~ResolveResultConflict(stored, r)) THEN ReplyTo(s)
        ELSE submitting' = [submitting EXCEPT ![s].step = IF conflict THEN "replace" ELSE "insert"]
     /\ settled' = settled \cup (IF r.key = BlankKey THEN {<<BlankKey, r.job>>} ELSE {})
     /\ UNCHANGED <<payloadRow, keyRow, conflictRows, durableCounters, jobRow, writing, waitingOn,
                    submitted>>

\* Mutation: the key is committed before the payload is written.
IngestKeyCommits(s) ==
  LET r == submitting[s]
  IN /\ r.step \in {"insert", "replace"} /\ writing = QuietRequest
     /\ IF keyRow[r.key] # NoStoredRow THEN ReplyTo(s) /\ UNCHANGED <<writing, keyRow>>
        ELSE /\ writing' = [step |-> "open", by |-> s, conflict |-> r.step = "replace"]
             /\ keyRow' = [keyRow EXCEPT ![r.key] = [at |-> durableSeconds, job |-> r.job]]
             /\ Continue(s, "commit")
     /\ UNCHANGED <<payloadRow, conflictRows, settled, durableCounters, jobRow, waitingOn,
                    submitted>>

(* The transaction opens with the first write; a key that another request committed meanwhile is  *)
(* a duplicate, and takes the counted conflict with it.                                           *)
IngestKey(s) ==
  LET r == submitting[s]
  IN /\ r.step \in {"insert", "replace"} /\ writing = QuietRequest
     /\ IF keyRow[r.key] # NoStoredRow THEN ReplyTo(s) /\ UNCHANGED writing
        ELSE /\ writing' = [step |-> "open", by |-> s, conflict |-> r.step = "replace"]
             /\ Continue(s, "commit")
     /\ UNCHANGED <<resultTables, durableCounters, jobRow, waitingOn, submitted>>

\* A replaced result is counted; the count is part of the transaction.
RecordConflict(replaced) == IF replaced THEN conflictRows + 1 ELSE conflictRows

\* The payload is written over whatever is stored by now, and everything is committed at once.
IngestCommit(s) ==
  LET r == submitting[s]
  IN /\ r.step = "commit" /\ writing.by = s
     /\ payloadRow' = [payloadRow EXCEPT ![r.job] =
          [at |-> durableSeconds, key |-> r.key, good |-> r.good]]
     /\ keyRow' = [keyRow EXCEPT ![r.key] = [at |-> durableSeconds, job |-> r.job]]
     /\ conflictRows' = RecordConflict(writing.conflict)
     /\ settled' = (settled \cup {StoredResult(j) : j \in {r.job} \ Unanswered})
                     \ {<<r.key, r.job>>}
     /\ writing' = QuietRequest
     /\ ReplyTo(s)
     /\ UNCHANGED <<durableCounters, jobRow, waitingOn, submitted>>

-----------------------------------------------------------------------------
\* Payload rows by age, the older first (rows of one second by their rowid; here, any order).
Overflowing(rows, kept) ==
  {gone \in SUBSET rows :
     /\ Cardinality(gone) = (IF Cardinality(rows) > kept THEN Cardinality(rows) - kept ELSE 0)
     /\ \A g \in gone, k \in rows \ gone : payloadRow[g].at <= payloadRow[k].at}

DurableCleanup ==
  LET stored == DurableJobs \ Unanswered
      old == {j \in stored : payloadRow[j].at + ResultTtl <= durableSeconds}
      forgotten == {k \in ResultKeys : keyRow[k] # NoStoredRow /\ keyRow[k].at + KeyTtl <= durableSeconds}
  IN /\ writing = QuietRequest
     /\ \E over \in Overflowing(stored \ old, MaxResultRecords) :
          /\ old \cup over \cup forgotten # {}
          /\ payloadRow' = [j \in DurableJobs |->
               IF j \in old \cup over THEN NoStoredRow ELSE payloadRow[j]]
          /\ settled' = settled \cup {StoredResult(j) : j \in old \cup over}
     /\ keyRow' = [k \in ResultKeys |-> IF k \in forgotten THEN NoStoredRow ELSE keyRow[k]]
     /\ UNCHANGED <<durableCounters, jobRow, conflictRows, writing, waitingOn, submitting,
                    submitted>>

\* A process dies and starts again: its requests and callers are gone, its transaction rolled back.
CrashNode(n) ==
  LET mine == {s \in Submitters : submitting[s] # QuietRequest /\ submitting[s].on = n}
  IN /\ nodeRestarts < MaxNodeRestarts
     /\ nodeRestarts' = nodeRestarts + 1
     /\ submitting' = [s \in Submitters |-> IF s \in mine THEN QuietRequest ELSE submitting[s]]
     /\ waitingOn' = [j \in DurableJobs |-> IF waitingOn[j] = n THEN "gone" ELSE waitingOn[j]]
     /\ writing' = IF writing # QuietRequest /\ writing.by \in mine THEN QuietRequest ELSE writing
     /\ UNCHANGED <<strategy, jobRow, resultTables, submitted, durableSeconds>>

SecondPasses ==
  /\ durableSeconds < MaxDurableTime
  /\ durableSeconds' = durableSeconds + 1
  /\ UNCHANGED <<strategy, jobRow, resultTables, writing, waitingOn, submitting, submitted,
                 nodeRestarts>>

DurableNext ==
  \/ \E j \in DurableJobs :
       \/ \E n \in Nodes : DurableEnqueue(j, n)
       \/ LeaseJob(j) \/ LeaseRunsOut(j) \/ DurableConsume(j) \/ CallerTimesOut(j)
       \/ \E s \in Submitters, n \in Nodes, lease \in 1..MaxLeases,
             key \in ResultKeys \cup {BlankKey}, good \in BOOLEAN :
            DurableSubmit(s, n, j, lease, key, good)
  \/ \E s \in Submitters :
       DurableLookup(s) \/ DurableCompleteSelect(s) \/ DurableCompleteUpdate(s)
         \/ IngestSelect(s) \/ IngestKey(s) \/ IngestCommit(s)
  \/ DurableCleanup
  \/ \E n \in Nodes : CrashNode(n)
  \/ SecondPasses

DurableSpec == DurableInit /\ [][DurableNext]_durableVars

-----------------------------------------------------------------------------
(* A result that comes again is answered as a duplicate, and dropped, on the strength of the row  *)
(* of its key (sqlite_store.py:655): so a committed key stands for a result that was stored: it   *)
(* is in the table, or it was consumed, replaced or pruned. No crash between two statements, and  *)
(* no race of two processes, leaves a key without the result it vouches for.                      *)
KeyedHasResult ==
  \A k \in ResultKeys :
    keyRow[k] # NoStoredRow =>
      \/ <<k, keyRow[k].job>> \in settled
      \/ payloadRow[keyRow[k].job] # NoStoredRow /\ payloadRow[keyRow[k].job].key = k

(* A completed job has a result: once no request is still working on it, its result is stored or  *)
(* was settled, or the worker was told that it lacks a key. A crash after the job row is          *)
(* completed (connector_runtime.py:437) and before the result is ingested (:445) leaves a job     *)
(* that no worker can submit again and no caller hears of.                                        *)
CompletedHasResult ==
  \A j \in DurableJobs :
    jobRow[j].status = "completed" =>
      \/ payloadRow[j] # NoStoredRow
      \/ \E k \in ResultKeys \cup {BlankKey} : <<k, j>> \in settled
      \/ \E s \in Submitters : submitting[s] # QuietRequest /\ submitting[s].job = j
=============================================================================
