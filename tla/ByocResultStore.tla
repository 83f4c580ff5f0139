--------------------------- MODULE ByocResultStore ---------------------------
(***************************************************************************)
(* The in-memory result store of the bring-your-own-compute connector:     *)
(* results are ingested under an idempotency key, kept per job, and        *)
(* consumed once.  Every method runs under the store's lock.               *)
(***************************************************************************)
EXTENDS Naturals

CONSTANTS
  ResultJobs,   \* job ids
  Keys,         \* idempotency keys other than the blank one
  NoKey,        \* the key of a result whose idempotency_key is blank after strip()
  NoResult      \* no payload stored for a job

ASSUME ResultAssumption == NoKey \notin Keys

Strategies == {"first_write_wins", "last_write_wins", "prefer_success"}

\* What the store tells apart in a result envelope: its key and whether it succeeded.
Results == [key : Keys, success : BOOLEAN]
Submitted == [key : Keys \cup {NoKey}, success : BOOLEAN]

ASSUME NoResultAssumption == NoResult \notin Results

VARIABLES
  conflict_strategy,   \* _conflict_strategy, fixed when the store is built
  seen_keys,           \* _seen_idempotency_keys
  results,             \* _results_by_job_id
  consumed             \* history: the results handed out by consume, per job

resultVars == <<conflict_strategy, seen_keys, results, consumed>>

ResultInit ==
  /\ conflict_strategy \in Strategies
  /\ seen_keys = {}
  /\ results = [j \in ResultJobs |-> NoResult]
  /\ consumed = [j \in ResultJobs |-> {}]

\* resolve_result_conflict
ReplacesExisting(existing, incoming) ==
  \/ conflict_strategy = "last_write_wins"
  \/ conflict_strategy = "prefer_success" /\ incoming.success /\ ~existing.success

\* Mutation: the key is only looked up among the results still stored.
OutcomeByStoredKeys(j, r) ==
  IF r.key = NoKey THEN "IDEMPOTENCY_KEY_REQUIRED"
  ELSE IF \E k \in ResultJobs : results[k] # NoResult /\ results[k].key = r.key
    THEN "IDEMPOTENT_DUPLICATE"
  ELSE "INGESTED"

\* The reason code ingest answers with.
IngestOutcome(j, r) ==
  IF r.key = NoKey THEN "IDEMPOTENCY_KEY_REQUIRED"
  ELSE IF r.key \in seen_keys THEN "IDEMPOTENT_DUPLICATE"
  ELSE IF results[j] = NoResult THEN "INGESTED"
  ELSE IF results[j].key = r.key THEN "INGESTED"
  ELSE IF ReplacesExisting(results[j], r) THEN "BYOC_RESULT_CONFLICT_REPLACED"
  ELSE "BYOC_RESULT_CONFLICT_REJECTED"

\* The outcomes after which the payload is in the store.
Stores(outcome) == outcome \in {"INGESTED", "BYOC_RESULT_CONFLICT_REPLACED"}

\* Mutation: the key is marked as seen before the conflict is resolved.
IngestMarksFirst(j, r) ==
  /\ seen_keys' = IF r.key = NoKey THEN seen_keys ELSE seen_keys \cup {r.key}
  /\ results' = IF Stores(IngestOutcome(j, r)) THEN [results EXCEPT ![j] = r] ELSE results
  /\ UNCHANGED <<conflict_strategy, consumed>>

\* ingest
Ingest(j, r) ==
  /\ IF Stores(IngestOutcome(j, r))
       THEN /\ seen_keys' = seen_keys \cup {r.key}
            /\ results' = [results EXCEPT ![j] = r]
       ELSE UNCHANGED <<seen_keys, results>>
  /\ UNCHANGED <<conflict_strategy, consumed>>

\* consume: pop, or nothing when there is no payload for the job.
Consume(j) ==
  /\ results[j] # NoResult
  /\ consumed' = [consumed EXCEPT ![j] = @ \cup {results[j]}]
  /\ results' = [results EXCEPT ![j] = NoResult]
  /\ UNCHANGED <<conflict_strategy, seen_keys>>

ResultNext ==
  \/ \E j \in ResultJobs, r \in Submitted : Ingest(j, r)
  \/ \E j \in ResultJobs : Consume(j)

ResultSpec == ResultInit /\ [][ResultNext]_resultVars

-----------------------------------------------------------------------------
(* Properties.                                                             *)

\* The jobs at which a result with key k is stored or was handed out.
Holders(k) ==
  {j \in ResultJobs : \/ results[j] # NoResult /\ results[j].key = k
                      \/ \E r \in consumed[j] : r.key = k}

\* At-most-once ingestion: however often results are resubmitted, for whichever jobs
\* and with whatever payloads, one key is stored or handed out for one job only, and
\* never again once it has been handed out.
OncePerKey ==
  \A k \in Keys :
    /\ \A j, l \in Holders(k) : j = l
    /\ \A j \in Holders(k) :
         /\ results[j] # NoResult => \A r \in consumed[j] : r.key # results[j].key
         /\ \A r, s \in consumed[j] : r.key = s.key => r = s

\* An accepted result is not lost silently: its key was handed out, is still stored,
\* or gave way to a later result of the same job as the strategy allows.
AcceptedKept ==
  conflict_strategy = "first_write_wins" => \A k \in seen_keys : Holders(k) # {}

\* Together, what ingest and consume promise: a result is handed out at most once, and one that was
\* accepted is not lost.
ResultsSettled == OncePerKey /\ AcceptedKept
=============================================================================
