---------------------------- MODULE DurableProofs ----------------------------
(***************************************************************************)
(* Proofs about the SQLite files that processes share and that outlive     *)
(* them, for any number of processes, jobs, runs, keys, tables and         *)
(* crashes: the run registry, the result store and the record stores.      *)
(***************************************************************************)
EXTENDS RunRegistrySqlite, ByocDurable, RecordStores, FiniteSetTheorems, TLAPS

(***************************************************************************)
(* The run registry over one process.  That a call belongs to a run which  *)
(* is there needs that the run an operation has read is still there when   *)
(* it writes; the bound needs that a cancellation writes back the status   *)
(* it read.  Neither holds of two processes, whose operations interleave.  *)
(***************************************************************************)

RunStatuses == Final \cup {"none", "running", "cancel_requested"}
RunRows == [status : RunStatuses, started : Nat, cancel : BOOLEAN]

RegistryTypeOK ==
  /\ rows \in [RegistryRuns -> RunRows]
  /\ starts \in Nat
  /\ callRows \in SUBSET (RegistryRuns \X RecordedCalls)

\* The runs on record are finitely many: each was started.
KnownFinite == IsFiniteSet({r \in RegistryRuns : Known(r)})

Operations ==
  {Idle}
  \cup [kind : {"record"}, run : RegistryRuns, call : RecordedCalls]
  \cup [kind : {"mark"}, run : RegistryRuns, status : Final]
  \cup [kind : {"cancel"}, run : RegistryRuns, status : Final \cup {"cancel_requested"}]

\* What an operation has read is what its write will find.
ReadIsCurrent ==
  /\ op \in [RegistryProcesses -> Operations]
  /\ \A p \in RegistryProcesses : op[p] # Idle =>
       /\ Known(op[p].run)
       /\ op[p].kind = "cancel" =>
            op[p].status = IF rows[op[p].run].status \in Final THEN rows[op[p].run].status
                           ELSE "cancel_requested"

RegistryIInv == RegistryTypeOK /\ KnownFinite /\ ReadIsCurrent /\ RegistryTablesAgree

\* An operation that is idle and one that is not are told apart by their kinds.
LEMMA OperationKinds ==
  \A o \in Operations :
    /\ o = Idle <=> o.kind = "none"
    /\ o.kind = "record" => o.run \in RegistryRuns /\ o.call \in RecordedCalls
    /\ o.kind = "mark" => o.run \in RegistryRuns /\ o.status \in Final
    /\ o.kind = "cancel" => o.run \in RegistryRuns /\ o.status \in Final \cup {"cancel_requested"}
BY DEF Operations, Idle

\* The finished runs are among the runs on record.
LEMMA TerminalFinite ==
  ASSUME RegistryTypeOK, KnownFinite
  PROVE  IsFiniteSet(Terminal) /\ Cardinality(Terminal) \in Nat
<1>1. Terminal \in SUBSET {r \in RegistryRuns : Known(r)}
  BY DEF Terminal, Known, Final
<1> QED BY <1>1, FS_Subset, FS_CardinalityType DEF KnownFinite

\* The empty file satisfies the inductive invariant.
LEMMA RegistryInitIInv == RegistryInit => RegistryIInv
<1> SUFFICES ASSUME RegistryInit PROVE RegistryIInv
  OBVIOUS
<1>1. RegistryTypeOK /\ \A r \in RegistryRuns : rows[r].status = "none"
  BY DEF RegistryInit, RegistryTypeOK, RunRows, RunStatuses, NoRunRow
<1>2. {r \in RegistryRuns : Known(r)} = {} /\ Terminal = {}
  BY <1>1 DEF Known, Terminal, Final
<1>3. KnownFinite /\ Cardinality(Terminal) = 0
  BY <1>2, FS_EmptySet DEF KnownFinite
<1>4. ReadIsCurrent
  BY DEF RegistryInit, ReadIsCurrent, Operations
<1> QED BY <1>1, <1>3, <1>4, RegistryAssumption DEF RegistryIInv, RegistryTablesAgree, RegistryInit

\* start_run takes a finished run off the list of finished ones.
LEMMA StartRunKeeps ==
  ASSUME \A p, q \in RegistryProcesses : p = q, RegistryIInv,
         NEW p \in RegistryProcesses, NEW r \in RegistryRuns, StartRun(p, r)
  PROVE  RegistryIInv'
<1>1. /\ RegistryTypeOK /\ KnownFinite /\ ReadIsCurrent /\ RegistryTablesAgree
      /\ op[p] = Idle /\ UNCHANGED <<callRows, op>> /\ starts' = starts + 1 /\ starts \in Nat
  BY DEF RegistryIInv, StartRun, RegistryTypeOK
<1>2. PICK row \in RunRows : row.status = "running" /\ rows' = [rows EXCEPT ![r] = row]
  <2> DEFINE w == [NoRunRow EXCEPT !.status = "running", !.started = starts + 1]
  <2>1. w \in RunRows /\ w.status = "running"
    <3>1. NoRunRow \in RunRows
      BY DEF NoRunRow, RunRows, RunStatuses
    <3>2. \A row \in RunRows, n \in Nat :
            LET started == [row EXCEPT !.status = "running", !.started = n]
            IN  started \in RunRows /\ started.status = "running"
      BY DEF RunRows, RunStatuses
    <3>3. starts + 1 \in Nat
      BY <1>1
    <3> QED BY <3>1, <3>2, <3>3
  <2>2. rows' = [rows EXCEPT ![r] = w]
    BY DEF StartRun
  <2> HIDE DEF w
  <2> QED BY <2>1, <2>2
<1>3. rows'[r] = row /\ \A s \in RegistryRuns : s # r => rows'[s] = rows[s]
  BY <1>1, <1>2 DEF RegistryTypeOK
<1>4. RegistryTypeOK'
  BY <1>1, <1>2 DEF RegistryTypeOK
<1>5. KnownFinite'
  <2>1. {s \in RegistryRuns : Known(s)}' = {s \in RegistryRuns : Known(s)} \cup {r}
    BY <1>2, <1>3 DEF Known
  <2> QED BY <1>1, <2>1, FS_AddElement DEF KnownFinite
<1>6. ReadIsCurrent'
  BY <1>1 DEF ReadIsCurrent
<1>7. RegistryTablesAgree'
  <2>1. Terminal' \in SUBSET Terminal
    BY <1>2, <1>3 DEF Terminal, Final
  <2>2. IsFiniteSet(Terminal) /\ Cardinality(Terminal) \in Nat
    BY <1>1, TerminalFinite
  <2>3. Cardinality(Terminal') <= Cardinality(Terminal) /\ Cardinality(Terminal') \in Nat
    BY <2>1, <2>2, FS_Subset, FS_CardinalityType
  <2>4. \A c \in callRows : Known(c[1])'
    BY <1>1, <1>2, <1>3 DEF RegistryTablesAgree, Known, RegistryTypeOK
  <2> QED BY <1>1, <2>2, <2>3, <2>4, RegistryAssumption DEF RegistryTablesAgree
<1> QED BY <1>4, <1>5, <1>6, <1>7 DEF RegistryIInv

\* Reading a row, dying, and recording a call of a run that is there leave the runs alone.
LEMMA RowsUntouched ==
  ASSUME RegistryIInv, UNCHANGED <<rows, starts>>, ReadIsCurrent',
         callRows' \in SUBSET (RegistryRuns \X RecordedCalls),
         \A c \in callRows' : c \in callRows \/ Known(c[1])
  PROVE  RegistryIInv'
<1>1. (\A r : Known(r)' = Known(r)) /\ Terminal' = Terminal
  BY DEF Known, Terminal
<1> QED BY <1>1 DEF RegistryIInv, RegistryTypeOK, KnownFinite, RegistryTablesAgree

\* An operation begins with a read of its run, which no other process changes before it
\* writes.
LEMMA BeginKeeps ==
  ASSUME \A p, q \in RegistryProcesses : p = q, RegistryIInv,
         NEW p \in RegistryProcesses, NEW todo \in Operations \ {Idle}, Begin(p, todo),
         todo.kind = "cancel" =>
           todo.status = IF rows[todo.run].status \in Final THEN rows[todo.run].status
                         ELSE "cancel_requested"
  PROVE  RegistryIInv'
<1>1. /\ RegistryTypeOK /\ ReadIsCurrent /\ UNCHANGED <<rows, callRows, starts>>
      /\ Known(todo.run) /\ op' = [op EXCEPT ![p] = todo]
  BY DEF RegistryIInv, Begin
<1>2. op' \in [RegistryProcesses -> Operations] /\ \A q \in RegistryProcesses : op'[q] = todo
  BY <1>1 DEF ReadIsCurrent
<1>3. Known(todo.run)' = Known(todo.run)
  BY <1>1 DEF Known
<1>4. ReadIsCurrent'
  BY <1>1, <1>2, <1>3 DEF ReadIsCurrent, Known
<1> QED BY <1>1, <1>4, RowsUntouched DEF RegistryTypeOK

\* The process writes what it read, or dies: either way it is idle again.
LEMMA EndsIdle ==
  ASSUME \A p, q \in RegistryProcesses : p = q, ReadIsCurrent,
         NEW p \in RegistryProcesses, op' = [op EXCEPT ![p] = Idle]
  PROVE  ReadIsCurrent'
<1>1. op' \in [RegistryProcesses -> Operations] /\ \A q \in RegistryProcesses : op'[q] = Idle
  BY DEF ReadIsCurrent, Operations
<1> QED BY <1>1 DEF ReadIsCurrent

\* request_cancel leaves a finished run finished and an active one active.
LEMMA CancelWrites ==
  ASSUME \A p, q \in RegistryProcesses : p = q, RegistryIInv,
         NEW p \in RegistryProcesses, Cancel(p)
  PROVE  RegistryIInv'
<1>1. PICK r, status : r = op[p].run /\ status = op[p].status
  OBVIOUS
<1>2. /\ RegistryTypeOK /\ KnownFinite /\ ReadIsCurrent /\ RegistryTablesAgree
      /\ op' = [op EXCEPT ![p] = Idle] /\ UNCHANGED <<callRows, starts>>
      /\ op[p].kind = "cancel" /\ op[p] \in Operations
  BY DEF RegistryIInv, Cancel, ReadIsCurrent
<1>3. /\ r \in RegistryRuns /\ Known(r) /\ status \in RunStatuses \ {"none"}
      /\ status = IF rows[r].status \in Final THEN rows[r].status ELSE "cancel_requested"
  BY <1>1, <1>2, OperationKinds DEF ReadIsCurrent, RunStatuses, Final
<1>4. ReadIsCurrent'
  BY <1>2, EndsIdle
<1> DEFINE row == [rows[r] EXCEPT !.status = status, !.cancel = TRUE]
<1>5. row \in RunRows /\ row.status = status
  BY <1>2, <1>3 DEF RegistryTypeOK, RunRows
<1>6. rows' = [rows EXCEPT ![r] = row]
  <2>1. rows' = [rows EXCEPT ![r].status = status, ![r].cancel = TRUE]
    BY <1>1, <1>3 DEF Cancel
  <2>2. rows \in [RegistryRuns -> RunRows]
    BY <1>2 DEF RegistryTypeOK
  <2> HIDE DEF RunRows
  <2> QED BY <1>3, <2>1, <2>2
<1> HIDE DEF row
<1>7. rows'[r].status = status /\ \A s \in RegistryRuns : s # r => rows'[s] = rows[s]
  BY <1>2, <1>3, <1>5, <1>6 DEF RegistryTypeOK
<1>8. RegistryTypeOK'
  BY <1>2, <1>5, <1>6 DEF RegistryTypeOK
<1>9. \A s \in RegistryRuns : /\ Known(s)' = Known(s)
                              /\ rows'[s].status \in Final <=> rows[s].status \in Final
  <2>1. status # "none" /\ (status \in Final <=> rows[r].status \in Final)
    BY <1>3 DEF Final
  <2> QED BY <1>3, <1>7, <2>1 DEF Known
<1>10. KnownFinite'
  BY <1>2, <1>9 DEF KnownFinite
<1>11. Terminal' = Terminal
  BY <1>9 DEF Terminal
<1>12. \A c \in callRows : c[1] \in RegistryRuns
  BY <1>2 DEF RegistryTypeOK
<1> QED BY <1>2, <1>4, <1>8, <1>9, <1>10, <1>11, <1>12 DEF RegistryIInv, RegistryTablesAgree

\* Pruning takes as many finished runs as there are too many.
LEMMA PruningLeaves ==
  ASSUME NEW table, NEW ended, NEW gone \in Prunings(table, ended)
  PROVE  LET final == {r \in RegistryRuns : table[r].status \in Final}
         IN  /\ gone \in SUBSET final
             /\ Cardinality(gone) = IF MaxKept = 0 \/ Cardinality(final) <= MaxKept THEN 0
                                    ELSE Cardinality(final) - MaxKept
BY DEF Prunings

\* mark_terminal keeps no more finished runs than configured, and no call of a pruned one.
LEMMA MarkWrites ==
  ASSUME \A p, q \in RegistryProcesses : p = q, RegistryIInv,
         NEW p \in RegistryProcesses, Mark(p)
  PROVE  RegistryIInv'
<1>1. PICK r, status : r = op[p].run /\ status = op[p].status
  OBVIOUS
<1>2. /\ RegistryTypeOK /\ KnownFinite /\ ReadIsCurrent /\ RegistryTablesAgree
      /\ op' = [op EXCEPT ![p] = Idle] /\ UNCHANGED starts
      /\ op[p].kind = "mark" /\ op[p] \in Operations
  BY DEF RegistryIInv, Mark, ReadIsCurrent
<1>3. r \in RegistryRuns /\ Known(r) /\ status \in Final
  BY <1>1, <1>2, OperationKinds DEF ReadIsCurrent
<1> DEFINE row == [rows[r] EXCEPT !.status = status]
           marked == [rows EXCEPT ![r] = row]
           final == {s \in RegistryRuns : marked[s].status \in Final}
<1>4. row \in RunRows /\ row.status = status
  BY <1>2, <1>3 DEF RegistryTypeOK, RunRows, RunStatuses
<1>5. PICK ended, gone : /\ gone \in Prunings(marked, ended)
                         /\ rows' = Without(marked, callRows, gone).table
                         /\ callRows' = Without(marked, callRows, gone).calls
  BY <1>1, <1>3 DEF Mark
<1> HIDE DEF row
<1>6. /\ marked \in [RegistryRuns -> RunRows] /\ marked[r].status = status
      /\ \A s \in RegistryRuns : s # r => marked[s] = rows[s]
  BY <1>2, <1>3, <1>4 DEF RegistryTypeOK
<1>7. /\ rows' = [s \in RegistryRuns |-> IF s \in gone THEN NoRunRow ELSE marked[s]]
      /\ callRows' = {c \in callRows : c[1] \notin gone}
  BY <1>5 DEF Without
<1>8. /\ gone \in SUBSET final
      /\ Cardinality(gone) = IF MaxKept = 0 \/ Cardinality(final) <= MaxKept THEN 0
                             ELSE Cardinality(final) - MaxKept
  BY <1>5, PruningLeaves
<1> HIDE DEF marked
<1>9. ReadIsCurrent'
  BY <1>2, EndsIdle
<1>10. NoRunRow \in RunRows /\ NoRunRow.status = "none" /\ "none" \notin Final
  BY DEF NoRunRow, RunRows, RunStatuses, Final
<1>11. RegistryTypeOK'
  BY <1>2, <1>6, <1>7, <1>10 DEF RegistryTypeOK
<1>12. /\ \A s \in RegistryRuns : marked[s].status # "none" <=> Known(s)
       /\ \A s \in RegistryRuns : Known(s)' <=> Known(s) /\ s \notin gone
  <2>1. \A s \in RegistryRuns : marked[s].status # "none" <=> Known(s)
    BY <1>3, <1>6, <1>10 DEF Known
  <2>2. \A s \in RegistryRuns : rows'[s] = IF s \in gone THEN NoRunRow ELSE marked[s]
    BY <1>7
  <2> QED BY <1>10, <2>1, <2>2 DEF Known
<1>13. final \in SUBSET {s \in RegistryRuns : Known(s)}
  BY <1>10, <1>12
<1>14. IsFiniteSet(final) /\ Cardinality(final) \in Nat /\ IsFiniteSet(gone) /\ Cardinality(gone) \in Nat
  BY <1>2, <1>8, <1>13, FS_Subset, FS_CardinalityType DEF KnownFinite
<1>15. KnownFinite'
  <2>1. {s \in RegistryRuns : Known(s)}' \in SUBSET {s \in RegistryRuns : Known(s)}
    BY <1>12
  <2> QED BY <1>2, <2>1, FS_Subset DEF KnownFinite
<1>16. Terminal' = final \ gone
  <2>1. \A s \in RegistryRuns : rows'[s] = IF s \in gone THEN NoRunRow ELSE marked[s]
    BY <1>7
  <2> QED BY <1>10, <2>1 DEF Terminal
<1>17. Cardinality(final \ gone) = Cardinality(final) - Cardinality(gone)
  <2>1. final \cap gone = gone
    BY <1>8
  <2> HIDE DEF final
  <2> QED BY <1>14, <2>1, FS_Difference
<1>18. MaxKept > 0 => Cardinality(Terminal') <= MaxKept
  <2> HIDE DEF final
  <2> QED BY <1>8, <1>14, <1>16, <1>17, RegistryAssumption
<1>19. \A c \in callRows' : Known(c[1])'
  BY <1>2, <1>7, <1>12 DEF RegistryTablesAgree, RegistryTypeOK
<1> QED BY <1>9, <1>11, <1>15, <1>18, <1>19 DEF RegistryIInv, RegistryTablesAgree

\* Every step of the process keeps the inductive invariant.
LEMMA RegistryStep ==
  ASSUME \A p, q \in RegistryProcesses : p = q, RegistryIInv, [RegistryNext]_registryVars
  PROVE  RegistryIInv'
<1>1. RegistryTypeOK /\ ReadIsCurrent
  BY DEF RegistryIInv
<1>2. CASE UNCHANGED registryVars
  <2>1. ReadIsCurrent'
    BY <1>1, <1>2 DEF registryVars, ReadIsCurrent, Known
  <2> QED BY <1>1, <1>2, <2>1, RowsUntouched DEF registryVars, RegistryTypeOK
<1>3. ASSUME NEW p \in RegistryProcesses, NEW r \in RegistryRuns, NEW c \in RecordedCalls,
             BeginRecord(p, r, c)
      PROVE  RegistryIInv'
  <2> DEFINE todo == [kind |-> "record", run |-> r, call |-> c]
  <2>1. todo \in Operations \ {Idle} /\ todo.kind # "cancel"
    BY DEF Operations, Idle
  <2> QED BY <1>3, <2>1, BeginKeeps DEF BeginRecord
<1>4. ASSUME NEW p \in RegistryProcesses, NEW r \in RegistryRuns, NEW s \in Final,
             BeginMark(p, r, s)
      PROVE  RegistryIInv'
  <2> DEFINE todo == [kind |-> "mark", run |-> r, status |-> s]
  <2>1. todo \in Operations \ {Idle} /\ todo.kind # "cancel"
    BY DEF Operations, Idle
  <2> QED BY <1>4, <2>1, BeginKeeps DEF BeginMark
<1>5. ASSUME NEW p \in RegistryProcesses, NEW r \in RegistryRuns, BeginCancel(p, r)
      PROVE  RegistryIInv'
  <2> DEFINE s == IF rows[r].status \in Final THEN rows[r].status ELSE "cancel_requested"
             todo == [kind |-> "cancel", run |-> r, status |-> s]
  <2>1. s \in Final \cup {"cancel_requested"}
    OBVIOUS
  <2>2. todo \in Operations \ {Idle} /\ todo.run = r /\ todo.status = s
    BY <2>1 DEF Operations, Idle
  <2>3. Begin(p, todo)
    BY <1>5 DEF BeginCancel
  <2> HIDE DEF todo
  <2> QED BY <2>2, <2>3, BeginKeeps
<1>6. ASSUME NEW p \in RegistryProcesses, Record(p) PROVE RegistryIInv'
  <2>1. /\ op[p] # Idle /\ op[p].run \in RegistryRuns /\ op[p].call \in RecordedCalls
        /\ Known(op[p].run)
    BY <1>1, <1>6, OperationKinds DEF Record, ReadIsCurrent
  <2>2. ReadIsCurrent'
    BY <1>1, <1>6, EndsIdle DEF Record
  <2> QED BY <1>1, <1>6, <2>1, <2>2, RowsUntouched DEF Record, RegistryTypeOK
<1>7. ASSUME NEW p \in RegistryProcesses, Crash(p) PROVE RegistryIInv'
  <2>1. ReadIsCurrent'
    BY <1>1, <1>7, EndsIdle DEF Crash
  <2> QED BY <1>1, <1>7, <2>1, RowsUntouched DEF Crash, RegistryTypeOK
<1> QED BY <1>2, <1>3, <1>4, <1>5, <1>6, <1>7, StartRunKeeps, CancelWrites, MarkWrites
        DEF RegistryNext

\* With one process on the file, crashes included, every recorded call belongs to a run on
\* record and no more finished runs are kept than configured.
THEOREM RegistryAgrees ==
  ASSUME \A p, q \in RegistryProcesses : p = q
  PROVE  RegistrySpec => []RegistryTablesAgree
<1>1. RegistryIInv => RegistryTablesAgree
  BY DEF RegistryIInv
<1>2. RegistryIInv /\ [RegistryNext]_registryVars => RegistryIInv'
  BY RegistryStep
<1> QED BY <1>1, <1>2, RegistryInitIInv, PTL DEF RegistrySpec

(***************************************************************************)
(* The result store under crashes and races.  The invariant is nearly      *)
(* inductive as it stands; it needs that a request that has come to the    *)
(* writes of ingest carries a key, and the shape of the rows.              *)
(***************************************************************************)

PayloadRows == [at : Nat \ {0}, key : ResultKeys, good : BOOLEAN]
KeyRows == [at : Nat \ {0}, job : DurableJobs]
Submissions ==
  [step : {"lookup", "complete", "completing", "ingest", "insert", "replace", "commit"},
   on : Nodes, job : DurableJobs, lease : Nat, key : ResultKeys \cup {BlankKey}, good : BOOLEAN]

TablesTyped ==
  /\ payloadRow \in [DurableJobs -> {NoStoredRow} \cup PayloadRows]
  /\ keyRow \in [ResultKeys -> {NoStoredRow} \cup KeyRows]
  /\ durableSeconds \in Nat \ {0}

\* ingest refuses a result without a key before it writes anything.
WritersHaveKeys ==
  /\ submitting \in [Submitters -> {QuietRequest} \cup Submissions]
  /\ \A s \in Submitters :
       submitting[s].step \in {"insert", "replace", "commit"} => submitting[s].key \in ResultKeys

DurableIInv == TablesTyped /\ WritersHaveKeys /\ KeyedHasResult

\* No row is not a row.
LEMMA RowsAreStored ==
  NoStoredRow \notin PayloadRows /\ NoStoredRow \notin KeyRows
BY DEF NoStoredRow, PayloadRows, KeyRows

\* A request that goes on keeps its job and its key.
LEMMA SubmissionSteps ==
  ASSUME NEW r \in Submissions,
         NEW step \in {"complete", "completing", "ingest", "insert", "replace", "commit"}
  PROVE  /\ [r EXCEPT !.step = step] \in Submissions
         /\ [r EXCEPT !.step = step].step = step /\ [r EXCEPT !.step = step].key = r.key
BY DEF Submissions

\* A step of a request, to the next statement or to its reply.
LEMMA RequestKeeps ==
  ASSUME WritersHaveKeys, NEW s \in Submitters,
         NEW step \in {"complete", "completing", "ingest", "insert", "replace", "commit"},
         submitting[s] # QuietRequest,
         step \in {"insert", "replace", "commit"} => submitting[s].key \in ResultKeys,
         Continue(s, step) \/ ReplyTo(s)
  PROVE  WritersHaveKeys'
<1>1. PICK r \in Submissions : submitting[s] = r
  BY DEF WritersHaveKeys
<1>2. CASE Continue(s, step)
  <2>1. PICK next \in Submissions : next = [r EXCEPT !.step = step]
    BY SubmissionSteps
  <2>2. next.step = step /\ next.key = r.key
    BY <2>1, SubmissionSteps
  <2>3. submitting' = [submitting EXCEPT ![s] = next]
    BY <1>1, <1>2, <2>1 DEF Continue
  <2> QED BY <1>1, <2>2, <2>3 DEF WritersHaveKeys
<1>3. CASE ReplyTo(s)
  BY <1>3 DEF ReplyTo, WritersHaveKeys, QuietRequest
<1> QED BY <1>2, <1>3

\* What settles more results and leaves the tables alone.
LEMMA TablesUntouched ==
  ASSUME TablesTyped, KeyedHasResult, UNCHANGED <<payloadRow, keyRow>>,
         settled \in SUBSET settled', durableSeconds' \in Nat \ {0}
  PROVE  TablesTyped' /\ KeyedHasResult'
BY DEF TablesTyped, KeyedHasResult

\* Deleting payloads that are settled, and keys, keeps the keys that stay vouched for.
LEMMA DeletingKeeps ==
  ASSUME TablesTyped, KeyedHasResult, UNCHANGED durableSeconds,
         NEW gone \in SUBSET DurableJobs, NEW forgotten \in SUBSET ResultKeys,
         payloadRow' = [j \in DurableJobs |-> IF j \in gone THEN NoStoredRow ELSE payloadRow[j]],
         keyRow' = [k \in ResultKeys |-> IF k \in forgotten THEN NoStoredRow ELSE keyRow[k]],
         settled' = settled \cup {StoredResult(j) : j \in gone}
  PROVE  TablesTyped' /\ KeyedHasResult'
<1>1. TablesTyped'
  BY DEF TablesTyped
<1>2. ASSUME NEW k \in ResultKeys, keyRow'[k] # NoStoredRow
      PROVE  \/ <<k, keyRow'[k].job>> \in settled'
             \/ payloadRow'[keyRow'[k].job] # NoStoredRow /\ payloadRow'[keyRow'[k].job].key = k
  <2>1. PICK j \in DurableJobs : keyRow'[k] = keyRow[k] /\ keyRow[k].job = j
    BY <1>2 DEF TablesTyped, KeyRows
  <2>2. <<k, j>> \in settled \/ (payloadRow[j] # NoStoredRow /\ payloadRow[j].key = k)
    BY <1>2, <2>1 DEF KeyedHasResult
  <2>3. j \in gone => <<payloadRow[j].key, j>> \in settled'
    BY DEF StoredResult
  <2> QED BY <2>1, <2>2, <2>3
<1> QED BY <1>1, <1>2 DEF KeyedHasResult

\* The commit stores the result its key vouches for.  The result it overwrites is settled, and
\* with it every other key that stood for the job.
LEMMA CommitKeeps ==
  ASSUME DurableIInv, NEW s \in Submitters, IngestCommit(s)
  PROVE  DurableIInv'
<1>1. TablesTyped /\ WritersHaveKeys /\ KeyedHasResult
  BY DEF DurableIInv
<1>2. PICK r \in Submissions : submitting[s] = r /\ r.step = "commit"
  BY <1>1 DEF IngestCommit, WritersHaveKeys, QuietRequest
<1>3. r.key \in ResultKeys /\ r.job \in DurableJobs /\ r.good \in BOOLEAN
  BY <1>1, <1>2 DEF WritersHaveKeys, Submissions
<1>4. PICK key \in ResultKeys, job \in DurableJobs : key = r.key /\ job = r.job
  BY <1>3
<1>5. PICK payload \in PayloadRows :
        payload.key = key /\ payload = [at |-> durableSeconds, key |-> key, good |-> r.good]
  BY <1>1, <1>3 DEF TablesTyped, PayloadRows
<1>6. PICK row \in KeyRows : row.job = job /\ row = [at |-> durableSeconds, job |-> job]
  BY <1>1 DEF TablesTyped, KeyRows
<1>7. /\ payloadRow' = [payloadRow EXCEPT ![job] = payload]
      /\ keyRow' = [keyRow EXCEPT ![key] = row]
      /\ settled' = (settled \cup {StoredResult(j) : j \in {job} \ Unanswered}) \ {<<key, job>>}
      /\ ReplyTo(s) /\ durableSeconds' = durableSeconds
  BY <1>2, <1>4, <1>5, <1>6 DEF IngestCommit, durableCounters
<1>8. WritersHaveKeys'
  BY <1>1, <1>2, <1>7, RequestKeeps DEF QuietRequest
<1>9. TablesTyped'
  BY <1>1, <1>7 DEF TablesTyped
<1>10. ASSUME NEW k \in ResultKeys, keyRow'[k] # NoStoredRow
       PROVE  \/ <<k, keyRow'[k].job>> \in settled'
              \/ payloadRow'[keyRow'[k].job] # NoStoredRow /\ payloadRow'[keyRow'[k].job].key = k
  <2>1. payloadRow'[job] = payload /\ \A j \in DurableJobs : j # job => payloadRow'[j] = payloadRow[j]
    BY <1>1, <1>7 DEF TablesTyped
  <2>2. CASE k = key
    <3>1. keyRow'[k] = row
      BY <1>1, <1>7, <2>2 DEF TablesTyped
    <3> QED BY <1>5, <1>6, <2>1, <2>2, <3>1, RowsAreStored
  <2>3. CASE k # key
    <3>1. PICK j \in DurableJobs : keyRow'[k] = keyRow[k] /\ keyRow[k].job = j
      BY <1>1, <1>7, <1>10, <2>3 DEF TablesTyped, KeyRows
    <3>2. <<k, j>> \in settled \/ (payloadRow[j] # NoStoredRow /\ payloadRow[j].key = k)
      BY <1>1, <1>10, <3>1 DEF KeyedHasResult
    <3>3. <<k, j>> # <<key, job>>
      BY <2>3
    <3>4. ASSUME j = job, payloadRow[j] # NoStoredRow, payloadRow[j].key = k
          PROVE  <<k, j>> \in settled'
      <4>1. job \in {job} \ Unanswered
        BY <3>4 DEF Unanswered
      <4>2. StoredResult(job) = <<k, j>>
        BY <3>4 DEF StoredResult
      <4> QED BY <1>7, <3>3, <4>1, <4>2
    <3> QED BY <1>7, <2>1, <3>1, <3>2, <3>3, <3>4
  <2> QED BY <2>2, <2>3
<1> QED BY <1>8, <1>9, <1>10 DEF DurableIInv, KeyedHasResult

\* Every step of the result store keeps the inductive invariant.
LEMMA DurableStep == DurableIInv /\ [DurableNext]_durableVars => DurableIInv'
<1> SUFFICES ASSUME DurableIInv, [DurableNext]_durableVars PROVE DurableIInv'
  OBVIOUS
<1>1. TablesTyped /\ WritersHaveKeys /\ KeyedHasResult /\ durableSeconds \in Nat \ {0}
  BY DEF DurableIInv, TablesTyped
<1>2. ASSUME UNCHANGED <<payloadRow, keyRow, settled, durableSeconds>>, WritersHaveKeys'
      PROVE  DurableIInv'
  BY <1>1, <1>2, TablesUntouched DEF DurableIInv
<1>3. ASSUME UNCHANGED submitting PROVE WritersHaveKeys'
  BY <1>1, <1>3 DEF WritersHaveKeys
<1>4. CASE UNCHANGED durableVars
  BY <1>2, <1>3, <1>4 DEF durableVars
<1>5. ASSUME NEW j \in DurableJobs,
             (\E n \in Nodes : DurableEnqueue(j, n)) \/ LeaseJob(j) \/ LeaseRunsOut(j)
               \/ CallerTimesOut(j)
      PROVE  DurableIInv'
  BY <1>2, <1>3, <1>5 DEF DurableEnqueue, LeaseJob, LeaseRunsOut, CallerTimesOut, resultTables,
     durableCounters
<1>6. ASSUME NEW j \in DurableJobs, DurableConsume(j) PROVE DurableIInv'
  <2>1. payloadRow' = [i \in DurableJobs |-> IF i \in {j} THEN NoStoredRow ELSE payloadRow[i]]
    BY <1>1, <1>6 DEF DurableConsume, TablesTyped
  <2>2. keyRow' = [k \in ResultKeys |-> IF k \in {} THEN NoStoredRow ELSE keyRow[k]]
    BY <1>1, <1>6 DEF DurableConsume, TablesTyped
  <2>3. settled' = settled \cup {StoredResult(i) : i \in {j}}
    BY <1>6 DEF DurableConsume
  <2>4. TablesTyped' /\ KeyedHasResult'
    <3>1. {j} \in SUBSET DurableJobs /\ {} \in SUBSET ResultKeys /\ UNCHANGED durableSeconds
      BY <1>6 DEF DurableConsume, durableCounters
    <3> QED BY <1>1, <2>1, <2>2, <2>3, <3>1, DeletingKeeps
  <2> QED BY <1>3, <1>6, <2>4 DEF DurableIInv, DurableConsume
<1>7. ASSUME NEW s \in Submitters, NEW n \in Nodes, NEW j \in DurableJobs,
             NEW lease \in 1..MaxLeases, NEW key \in ResultKeys \cup {BlankKey},
             NEW good \in BOOLEAN, DurableSubmit(s, n, j, lease, key, good)
      PROVE  DurableIInv'
  <2> DEFINE r == [step |-> "lookup", on |-> n, job |-> j, lease |-> lease, key |-> key,
                   good |-> good]
  <2>1. r \in Submissions /\ r.step = "lookup"
    <3>1. lease \in Nat
      BY <1>7
    <3> QED BY <3>1 DEF Submissions
  <2>2. submitting' = [submitting EXCEPT ![s] = r]
    BY <1>7 DEF DurableSubmit
  <2> HIDE DEF r
  <2>3. WritersHaveKeys'
    BY <1>1, <2>1, <2>2 DEF WritersHaveKeys
  <2> QED BY <1>2, <1>7, <2>3 DEF DurableSubmit, resultTables, durableCounters
<1>8. ASSUME NEW s \in Submitters,
             DurableLookup(s) \/ DurableCompleteSelect(s) \/ DurableCompleteUpdate(s)
      PROVE  DurableIInv'
  <2>1. WritersHaveKeys'
    BY <1>1, <1>8, RequestKeeps DEF DurableLookup, DurableCompleteSelect, DurableCompleteUpdate,
       QuietRequest
  <2> QED BY <1>2, <1>8, <2>1 DEF DurableLookup, DurableCompleteSelect, DurableCompleteUpdate,
      resultTables, durableCounters
<1>9. ASSUME NEW s \in Submitters, IngestSelect(s) PROVE DurableIInv'
  <2>1. submitting[s] # QuietRequest /\ submitting[s].key \in ResultKeys \cup {BlankKey}
    BY <1>1, <1>9 DEF IngestSelect, WritersHaveKeys, QuietRequest, Submissions
  <2>2. \/ ReplyTo(s)
        \/ submitting[s].key # BlankKey /\ (Continue(s, "replace") \/ Continue(s, "insert"))
    BY <1>9 DEF IngestSelect, Continue
  <2>3. WritersHaveKeys'
    <3>1. CASE ReplyTo(s)
      BY <1>1, <2>1, <3>1, RequestKeeps
    <3>2. CASE submitting[s].key # BlankKey /\ Continue(s, "replace")
      BY <1>1, <2>1, <3>2, RequestKeeps
    <3>3. CASE submitting[s].key # BlankKey /\ Continue(s, "insert")
      BY <1>1, <2>1, <3>3, RequestKeeps
    <3> QED BY <2>2, <3>1, <3>2, <3>3
  <2>4. UNCHANGED <<payloadRow, keyRow, durableSeconds>> /\ settled \in SUBSET settled'
    BY <1>9 DEF IngestSelect, durableCounters
  <2> QED BY <1>1, <2>3, <2>4, TablesUntouched DEF DurableIInv
<1>10. ASSUME NEW s \in Submitters, IngestKey(s) PROVE DurableIInv'
  <2>1. WritersHaveKeys'
    <3>1. submitting[s] # QuietRequest /\ submitting[s].key \in ResultKeys
      BY <1>1, <1>10 DEF IngestKey, WritersHaveKeys, QuietRequest
    <3>2. ReplyTo(s) \/ Continue(s, "commit")
      BY <1>10 DEF IngestKey
    <3> QED BY <1>1, <3>1, <3>2, RequestKeeps
  <2> QED BY <1>2, <1>10, <2>1 DEF IngestKey, resultTables, durableCounters
<1>11. CASE DurableCleanup
  <2> DEFINE stored == DurableJobs \ Unanswered
             old == {j \in stored : payloadRow[j].at + ResultTtl <= durableSeconds}
             forgotten == {k \in ResultKeys : keyRow[k] # NoStoredRow
                                                /\ keyRow[k].at + KeyTtl <= durableSeconds}
  <2>1. PICK over \in Overflowing(stored \ old, MaxResultRecords) :
          /\ payloadRow' = [j \in DurableJobs |->
               IF j \in old \cup over THEN NoStoredRow ELSE payloadRow[j]]
          /\ settled' = settled \cup {StoredResult(j) : j \in old \cup over}
    BY <1>11 DEF DurableCleanup
  <2>2. /\ keyRow' = [k \in ResultKeys |-> IF k \in forgotten THEN NoStoredRow ELSE keyRow[k]]
        /\ UNCHANGED <<submitting, durableSeconds>>
    BY <1>11 DEF DurableCleanup, durableCounters
  <2>3. old \cup over \in SUBSET DurableJobs /\ forgotten \in SUBSET ResultKeys
    BY DEF Overflowing
  <2> HIDE DEF stored, old, forgotten
  <2>4. TablesTyped' /\ KeyedHasResult'
    BY <1>1, <2>1, <2>2, <2>3, DeletingKeeps
  <2> QED BY <1>3, <2>2, <2>4 DEF DurableIInv
<1>12. ASSUME NEW n \in Nodes, CrashNode(n) PROVE DurableIInv'
  <2>1. WritersHaveKeys'
    BY <1>1, <1>12 DEF CrashNode, WritersHaveKeys, QuietRequest
  <2> QED BY <1>2, <1>12, <2>1 DEF CrashNode, resultTables
<1>13. CASE SecondPasses
  <2>1. UNCHANGED <<payloadRow, keyRow, settled, submitting>> /\ durableSeconds' \in Nat \ {0}
    BY <1>1, <1>13 DEF SecondPasses, resultTables
  <2> QED BY <1>1, <1>3, <2>1, TablesUntouched DEF DurableIInv
<1> QED BY <1>4, <1>5, <1>6, <1>7, <1>8, <1>9, <1>10, <1>11, <1>12, <1>13, CommitKeeps
        DEF DurableNext

\* Whichever processes crash between two statements, and however their submissions interleave, a
\* committed idempotency key stands for a result that is stored, or was consumed, replaced or
\* pruned: a duplicate answered on its strength loses nothing.
THEOREM ResultsBehindKeys == DurableSpec => []KeyedHasResult
<1>1. DurableInit => DurableIInv
  BY DEF DurableInit, DurableIInv, TablesTyped, WritersHaveKeys, KeyedHasResult, QuietRequest
<1>2. DurableIInv => KeyedHasResult
  BY DEF DurableIInv
<1> QED BY <1>1, <1>2, DurableStep, PTL DEF DurableSpec

(***************************************************************************)
(* The record stores.  That a process opening its stores alone never fails *)
(* needs that a migration it has found missing stays missing until it      *)
(* records it, whatever earlier processes left half done; that a lookup    *)
(* agrees with the driver needs that what its first SELECT found is still  *)
(* so at its second, unless a change of the table fell between them.       *)
(***************************************************************************)

WorkerStates ==
  [at : {"down", "failed", "register", "list", "create", "record", "commit", "serving"},
   store : Nat, alone : BOOLEAN]

\* A process has come to some store, and every store before it is open.
OpenedInOrder ==
  /\ worker \in [Workers -> WorkerStates]
  /\ tables \subseteq Tables /\ migrated \subseteq tables
  /\ \A w \in Workers :
       /\ Opening(w) =>
            /\ worker[w].store \in 1..Len(OpenOrder)
            /\ \A i \in 1..(worker[w].store - 1) : OpenOrder[i] \in migrated
       /\ worker[w].at \in {"record", "commit"} => Store(w) \in tables
       /\ worker[w].at = "serving" => Tables \subseteq migrated

\* No other process opens its stores beside one that is alone, so nobody records the migration
\* it is about to record.
AloneIsAlone ==
  \A w \in Workers : worker[w].alone =>
    /\ Opening(w) => \A u \in Workers \ {w} : ~Opening(u)
    /\ worker[w].at \in {"create", "record"} => Store(w) \notin migrated
    /\ worker[w].at # "failed"

\* The driver holds the sessions and checkpoints the tables hold.
DriverAgrees ==
  /\ table_rows \in [Tables -> [Keys -> Contents \cup {NoRecord}]]
  /\ driver \in [TenantTables -> [Keys -> Contents \cup {NoRecord}]]
  /\ \A t \in TenantTables : driver[t] = table_rows[t]

OpenLookups ==
  [stage : {"collision"}, table : TenantTables, key : Keys, overlapped : BOOLEAN,
   answer : {NoAnswer}, driver : {NoAnswer, IsolationError}]

\* Some tenant has a row of this id.
IdTaken(stored, key) == \E tenant \in RecordTenants : stored[<<tenant, key[2]>>] # NoRecord

\* A lookup between its two SELECTs that no change fell into: the tenant still has no such row,
\* and the driver's answer is still what the table says.
LookupCurrent(v) ==
  /\ lookup[v] \in OpenLookups
  /\ ~lookup[v].overlapped =>
       /\ table_rows[lookup[v].table][lookup[v].key] = NoRecord
       /\ lookup[v].driver = IF IdTaken(table_rows[lookup[v].table], lookup[v].key)
                             THEN IsolationError ELSE NoAnswer

LookupsCurrent ==
  /\ lookup = [v \in Workers |-> lookup[v]]
  /\ \A v \in Workers : lookup[v].stage = "collision" => LookupCurrent(v)

StartupIInv == OpenedInOrder /\ AloneIsAlone
LookupIInv == DriverAgrees /\ LookupsCurrent /\ AnswersAgree
RecordsIInv == StartupIInv /\ LookupIInv

\* Where one process moves on in its startup, and the file only gains tables and migrations.
LEMMA OneMoves ==
  ASSUME StartupIInv, NEW w \in Workers, NEW next \in WorkerStates,
         worker' = [worker EXCEPT ![w] = next],
         tables \subseteq tables', tables' \subseteq Tables,
         migrated \subseteq migrated', migrated' \subseteq tables',
         next.alone => worker[w].alone /\ next.at # "failed",
         next.at \in {"register", "list", "create", "record", "commit"} =>
           /\ Opening(w) /\ next.store \in 1..Len(OpenOrder)
           /\ \A i \in 1..(next.store - 1) : OpenOrder[i] \in migrated',
         next.at \in {"record", "commit"} => OpenOrder[next.store] \in tables',
         next.at = "serving" => Tables \subseteq migrated',
         next.alone /\ next.at \in {"create", "record"} => OpenOrder[next.store] \notin migrated',
         migrated' = migrated \/ Opening(w)
  PROVE  StartupIInv'
<1>1. worker \in [Workers -> WorkerStates] /\ OpenedInOrder /\ AloneIsAlone
  BY DEF StartupIInv, OpenedInOrder
<1>2. worker'[w] = next /\ \A u \in Workers : u # w => worker'[u] = worker[u]
  BY <1>1
<1>3. worker' \in [Workers -> WorkerStates]
  BY <1>1
<1>4. OpenedInOrder'
  <2>1. ASSUME NEW u \in Workers, u # w
        PROVE  /\ Opening(u)' = Opening(u) /\ Store(u)' = Store(u)
               /\ worker'[u] = worker[u]
    BY <1>2, <2>1 DEF Opening, Store
  <2>2. Opening(w)' = (next.at \in {"register", "list", "create", "record", "commit"})
        /\ Store(w)' = OpenOrder[next.store]
    BY <1>2 DEF Opening, Store
  <2>3. ASSUME NEW u \in Workers
        PROVE  /\ Opening(u)' =>
                    /\ worker'[u].store \in 1..Len(OpenOrder)
                    /\ \A i \in 1..(worker'[u].store - 1) : OpenOrder[i] \in migrated'
               /\ worker'[u].at \in {"record", "commit"} => Store(u)' \in tables'
               /\ worker'[u].at = "serving" => Tables \subseteq migrated'
    <3>1. CASE u = w
      BY <1>2, <2>2, <3>1
    <3>2. CASE u # w
      BY <1>1, <2>1, <3>2 DEF OpenedInOrder
    <3> QED BY <3>1, <3>2
  <2> QED BY <1>3, <2>3 DEF OpenedInOrder
<1>5. AloneIsAlone'
  <2>1. ASSUME NEW u \in Workers, worker'[u].alone, u = w
        PROVE  /\ Opening(u)' => \A v \in Workers \ {u} : ~Opening(v)'
               /\ worker'[u].at \in {"create", "record"} => Store(u)' \notin migrated'
               /\ worker'[u].at # "failed"
    BY <1>1, <1>2, <2>1 DEF AloneIsAlone, Opening, Store
  <2>2. ASSUME NEW u \in Workers, worker'[u].alone, u # w
        PROVE  /\ Opening(u)' => \A v \in Workers \ {u} : ~Opening(v)'
               /\ worker'[u].at \in {"create", "record"} => Store(u)' \notin migrated'
               /\ worker'[u].at # "failed"
    <3>1. Opening(u)' => Opening(u) /\ ~Opening(w) /\ ~Opening(w)'
      BY <1>1, <1>2, <2>2 DEF AloneIsAlone, Opening
    <3>2. Opening(u)' => migrated' = migrated
      BY <3>1
    <3> QED BY <1>1, <1>2, <2>2, <3>1, <3>2 DEF AloneIsAlone, Opening, Store
  <2> QED BY <2>1, <2>2 DEF AloneIsAlone
<1> QED BY <1>4, <1>5 DEF StartupIInv

\* Going to a step changes nothing else of a process.
LEMMA WorkerGoes ==
  ASSUME NEW now \in WorkerStates,
         NEW step \in {"failed", "list", "create", "record", "commit", "serving"}
  PROVE  /\ [now EXCEPT !.at = step] \in WorkerStates
         /\ [now EXCEPT !.at = step].at = step
         /\ [now EXCEPT !.at = step].store = now.store
         /\ [now EXCEPT !.at = step].alone = now.alone
BY DEF WorkerStates

\* A process whose store is open goes to the next one, or serves.
LEMMA NextStoreKeeps ==
  ASSUME StartupIInv, NEW w \in Workers, NextStore(w), Opening(w),
         UNCHANGED tables, migrated' = migrated \cup {Store(w)}, Store(w) \in tables
  PROVE  StartupIInv'
<1>1. PICK now \in WorkerStates : worker[w] = now
  BY DEF StartupIInv, OpenedInOrder
<1>2. /\ now.store \in 1..Len(OpenOrder) /\ Store(w) = OpenOrder[now.store]
      /\ \A i \in 1..(now.store - 1) : OpenOrder[i] \in migrated
      /\ tables \subseteq Tables /\ migrated \subseteq tables
  BY <1>1 DEF StartupIInv, OpenedInOrder, Store
<1>3. \A i \in 1..now.store : OpenOrder[i] \in migrated'
  <2>1. \A i \in 1..now.store : i = now.store \/ i \in 1..(now.store - 1)
    BY <1>2
  <2> QED BY <1>2, <2>1
<1>4. Len(OpenOrder) \in Nat
  BY RecordStoresAssumption
<1>5. CASE now.store = Len(OpenOrder)
  <2>1. PICK next \in WorkerStates : /\ next = [now EXCEPT !.at = "serving"]
                                     /\ next.at = "serving" /\ next.alone = now.alone
    BY WorkerGoes
  <2>2. worker' = [worker EXCEPT ![w] = next]
    BY <1>1, <1>5, <2>1 DEF NextStore
  <2>3. Tables \subseteq migrated'
    BY <1>3, <1>5 DEF Tables
  <2> QED BY <1>1, <1>2, <2>1, <2>2, <2>3, OneMoves
<1>6. CASE now.store # Len(OpenOrder)
  <2>1. PICK next \in WorkerStates :
          /\ next = [at |-> "register", store |-> now.store + 1, alone |-> now.alone]
          /\ next.at = "register" /\ next.store = now.store + 1 /\ next.alone = now.alone
    <3>1. now.store + 1 \in Nat /\ now.alone \in BOOLEAN
      BY <1>2 DEF WorkerStates
    <3>2. [at |-> "register", store |-> now.store + 1, alone |-> now.alone] \in WorkerStates
      BY <3>1 DEF WorkerStates
    <3> QED BY <3>2
  <2>2. worker' = [worker EXCEPT ![w] = next]
    BY <1>1, <1>6, <2>1 DEF NextStore
  <2>3. next.store \in 1..Len(OpenOrder) /\ \A i \in 1..(next.store - 1) : OpenOrder[i] \in migrated'
    BY <1>2, <1>3, <1>4, <1>6, <2>1
  <2> QED BY <1>1, <1>2, <2>1, <2>2, <2>3, OneMoves
<1> QED BY <1>5, <1>6

\* A process goes to the next statement of its migration.
LEMMA GoesKeeps ==
  ASSUME StartupIInv, NEW w \in Workers, Opening(w),
         NEW step \in {"failed", "list", "create", "record", "commit"}, GoTo(w, step),
         tables \subseteq tables', tables' \subseteq Tables, UNCHANGED migrated,
         step \in {"record", "commit"} => Store(w) \in tables',
         worker[w].alone /\ step \in {"create", "record"} => Store(w) \notin migrated,
         step = "failed" => ~worker[w].alone
  PROVE  StartupIInv'
<1>1. PICK now \in WorkerStates : worker[w] = now
  BY DEF StartupIInv, OpenedInOrder
<1>2. /\ now.store \in 1..Len(OpenOrder) /\ Store(w) = OpenOrder[now.store]
      /\ \A i \in 1..(now.store - 1) : OpenOrder[i] \in migrated
      /\ migrated \subseteq tables
  BY <1>1 DEF StartupIInv, OpenedInOrder, Store
<1>3. PICK next \in WorkerStates :
        /\ next = [now EXCEPT !.at = step]
        /\ next.at = step /\ next.store = now.store /\ next.alone = now.alone
  <2>1. step \in {"failed", "list", "create", "record", "commit", "serving"}
    OBVIOUS
  <2>2. /\ [now EXCEPT !.at = step] \in WorkerStates
        /\ [now EXCEPT !.at = step].at = step
        /\ [now EXCEPT !.at = step].store = now.store
        /\ [now EXCEPT !.at = step].alone = now.alone
    BY <2>1, WorkerGoes
  <2> QED BY <2>2
<1>4. worker' = [worker EXCEPT ![w] = next]
  BY <1>1, <1>3 DEF GoTo
<1>5. migrated' \subseteq tables' /\ migrated \subseteq migrated'
  BY <1>2
<1>6. next.alone => worker[w].alone /\ next.at # "failed"
  BY <1>1, <1>3
<1>7. /\ next.at \in {"record", "commit"} => OpenOrder[next.store] \in tables'
      /\ next.alone /\ next.at \in {"create", "record"} => OpenOrder[next.store] \notin migrated'
      /\ \A i \in 1..(next.store - 1) : OpenOrder[i] \in migrated'
  BY <1>1, <1>2, <1>3
<1> QED BY <1>2, <1>3, <1>4, <1>5, <1>6, <1>7, OneMoves

\* A process that starts ends the solitude of the others.
LEMMA StartWorkerKeeps ==
  ASSUME StartupIInv, NEW w \in Workers, StartWorker(w)
  PROVE  StartupIInv'
<1>1. worker \in [Workers -> WorkerStates] /\ UNCHANGED <<tables, migrated>>
  BY DEF StartupIInv, OpenedInOrder, StartWorker, schemaVars
<1> DEFINE solitary == \A u \in Workers \ {w} : ~Opening(u)
           new == [at |-> "register", store |-> 1, alone |-> solitary]
<1>2. /\ worker' = [v \in Workers |-> IF v = w THEN new ELSE [worker[v] EXCEPT !.alone = FALSE]]
      /\ new.at = "register" /\ new.store = 1 /\ new.alone = solitary
  BY DEF StartWorker
<1>3. new \in WorkerStates
  BY DEF WorkerStates
<1> HIDE DEF new
<1>4. ASSUME NEW v \in Workers, v # w
      PROVE  /\ worker'[v] \in WorkerStates /\ worker'[v].at = worker[v].at
             /\ worker'[v].store = worker[v].store /\ worker'[v].alone = FALSE
  <2>1. worker'[v] = [worker[v] EXCEPT !.alone = FALSE] /\ worker[v] \in WorkerStates
    BY <1>1, <1>2, <1>4
  <2>2. \A s \in WorkerStates : /\ [s EXCEPT !.alone = FALSE] \in WorkerStates
                                /\ [s EXCEPT !.alone = FALSE].at = s.at
                                /\ [s EXCEPT !.alone = FALSE].store = s.store
                                /\ [s EXCEPT !.alone = FALSE].alone = FALSE
    BY DEF WorkerStates
  <2> QED BY <2>1, <2>2
<1>5. worker'[w] = new
  BY <1>2
<1>6. worker' \in [Workers -> WorkerStates]
  BY <1>2, <1>3, <1>4
<1>7. \A v \in Workers : v # w => Opening(v)' = Opening(v) /\ Store(v)' = Store(v)
  BY <1>4 DEF Opening, Store
<1>8. Len(OpenOrder) \in Nat /\ 1 \in 1..Len(OpenOrder)
  BY RecordStoresAssumption
<1>9. OpenedInOrder'
  <2>1. ASSUME NEW u \in Workers
        PROVE  /\ Opening(u)' =>
                    /\ worker'[u].store \in 1..Len(OpenOrder)
                    /\ \A i \in 1..(worker'[u].store - 1) : OpenOrder[i] \in migrated'
               /\ worker'[u].at \in {"record", "commit"} => Store(u)' \in tables'
               /\ worker'[u].at = "serving" => Tables \subseteq migrated'
    <3>1. CASE u = w
      BY <1>2, <1>5, <1>8, <3>1
    <3>2. CASE u # w
      BY <1>1, <1>4, <1>7, <3>2 DEF StartupIInv, OpenedInOrder
    <3> QED BY <3>1, <3>2
  <2> QED BY <1>1, <1>6, <2>1 DEF StartupIInv, OpenedInOrder
<1>10. AloneIsAlone'
  BY <1>2, <1>4, <1>5, <1>7 DEF AloneIsAlone
<1> QED BY <1>9, <1>10 DEF StartupIInv

\* Every step of a process's startup, its death, and everything else keep the first half of the
\* inductive invariant.
LEMMA StartupStep ==
  ASSUME StartupIInv, [RecordsNext]_recordVars
  PROVE  StartupIInv'
<1>1. /\ worker \in [Workers -> WorkerStates]
      /\ tables \subseteq Tables /\ migrated \subseteq tables
  BY DEF StartupIInv, OpenedInOrder
<1>2. ASSUME UNCHANGED <<worker, tables, migrated>> PROVE StartupIInv'
  BY <1>2 DEF StartupIInv, OpenedInOrder, AloneIsAlone, Opening, Store
<1>3. ASSUME NEW w \in Workers, Opening(w) PROVE Store(w) \in Tables
  BY <1>3 DEF StartupIInv, OpenedInOrder, Store, Tables
<1>4. ASSUME NEW w \in Workers, CreateRegistry(w) PROVE StartupIInv'
  <2>1. Opening(w) /\ GoTo(w, "list") /\ UNCHANGED <<tables, migrated>>
    BY <1>4 DEF CreateRegistry, Opening
  <2> QED BY <1>1, <2>1, GoesKeeps
<1>5. ASSUME NEW w \in Workers, ListMigrations(w) PROVE StartupIInv'
  <2>1. Opening(w) /\ UNCHANGED <<tables, migrated>>
    BY <1>5 DEF ListMigrations, Opening, schemaVars
  <2>2. CASE Store(w) \in migrated
    BY <1>1, <1>5, <2>1, <2>2, NextStoreKeeps DEF ListMigrations
  <2>3. CASE Store(w) \notin migrated
    BY <1>1, <1>5, <2>1, <2>3, GoesKeeps DEF ListMigrations
  <2> QED BY <2>2, <2>3
<1>6. ASSUME NEW w \in Workers, CreateTable(w) PROVE StartupIInv'
  <2>1. /\ Opening(w) /\ GoTo(w, "record") /\ UNCHANGED migrated
        /\ tables' = tables \cup {Store(w)}
    BY <1>6 DEF CreateTable, Opening
  <2>2. worker[w].alone => Store(w) \notin migrated
    BY <1>6 DEF CreateTable, StartupIInv, AloneIsAlone
  <2>3. tables' \subseteq Tables
    BY <1>1, <1>3, <2>1
  <2> QED BY <2>1, <2>2, <2>3, GoesKeeps
<1>7. ASSUME NEW w \in Workers, RecordMigration(w) PROVE StartupIInv'
  <2>1. Opening(w) /\ UNCHANGED <<tables, migrated>> /\ Store(w) \in tables
    BY <1>7 DEF RecordMigration, Opening, schemaVars, StartupIInv, OpenedInOrder
  <2>2. worker[w].alone => Store(w) \notin migrated
    BY <1>7 DEF RecordMigration, StartupIInv, AloneIsAlone
  <2>3. (GoTo(w, "failed") /\ Store(w) \in migrated) \/ GoTo(w, "commit")
    BY <1>7 DEF RecordMigration
  <2> QED BY <1>1, <2>1, <2>2, <2>3, GoesKeeps
<1>8. ASSUME NEW w \in Workers, CommitMigration(w) PROVE StartupIInv'
  <2>1. Opening(w) /\ Store(w) \in tables
    BY <1>8 DEF CommitMigration, Opening, StartupIInv, OpenedInOrder
  <2> QED BY <1>8, <2>1, NextStoreKeeps DEF CommitMigration
<1>9. ASSUME NEW w \in Workers, KillWorker(w) PROVE StartupIInv'
  <2>1. PICK next \in WorkerStates : next = Down /\ next.at = "down" /\ ~next.alone
    <3>1. Down \in WorkerStates /\ Down.at = "down" /\ ~Down.alone
      BY DEF Down, WorkerStates
    <3> QED BY <3>1
  <2>2. worker' = [worker EXCEPT ![w] = next] /\ UNCHANGED <<tables, migrated>>
    BY <1>9, <2>1 DEF KillWorker, schemaVars
  <2> QED BY <1>1, <2>1, <2>2, OneMoves
<1>10. ASSUME NEW w \in Workers, NEW table \in Tables, NEW key \in Keys,
              \/ \E content \in Contents : SaveRecord(w, table, key, content)
              \/ DeleteRecord(w, table, key)
              \/ LookUp(w, table, key)
       PROVE  StartupIInv'
  BY <1>2, <1>10 DEF SaveRecord, DeleteRecord, LookUp, schemaVars
<1>11. ASSUME NEW w \in Workers,
              (\E tenant \in RecordTenants : ListCheckpoints(w, tenant)) \/ CheckCollision(w)
       PROVE  StartupIInv'
  BY <1>2, <1>11 DEF ListCheckpoints, CheckCollision, schemaVars
<1>12. CASE UNCHANGED recordVars
  BY <1>2, <1>12 DEF recordVars
<1> QED BY <1>4, <1>5, <1>6, <1>7, <1>8, <1>9, <1>10, <1>11, <1>12, StartWorkerKeeps
        DEF RecordsNext

\* What leaves the rows and the lookups alone.
LEMMA LookupsUntouched ==
  ASSUME LookupIInv, UNCHANGED <<table_rows, driver, lookup>>
  PROVE  LookupIInv'
BY DEF LookupIInv, DriverAgrees, LookupsCurrent, LookupCurrent, AnswersAgree

\* A lookup that ends, or begins, in one process.
LEMMA OneLooks ==
  ASSUME LookupIInv, UNCHANGED <<table_rows, driver>>, NEW w \in Workers, NEW next,
         lookup' = [lookup EXCEPT ![w] = next],
         next.stage = "collision" =>
           /\ next \in OpenLookups
           /\ ~next.overlapped =>
                /\ table_rows[next.table][next.key] = NoRecord
                /\ next.driver = IF IdTaken(table_rows[next.table], next.key)
                                 THEN IsolationError ELSE NoAnswer,
         next.stage = "answered" /\ ~next.overlapped => next.answer = next.driver
  PROVE  LookupIInv'
<1>1. lookup = [v \in Workers |-> lookup[v]] /\ DriverAgrees /\ LookupsCurrent /\ AnswersAgree
  BY DEF LookupIInv, LookupsCurrent
<1>2. /\ lookup' = [v \in Workers |-> lookup'[v]] /\ lookup'[w] = next
      /\ \A v \in Workers : v # w => lookup'[v] = lookup[v]
  BY <1>1
<1>3. DriverAgrees'
  BY <1>1 DEF DriverAgrees
<1>4. ASSUME NEW v \in Workers, lookup'[v].stage = "collision" PROVE LookupCurrent(v)'
  <2>1. CASE v = w
    BY <1>2, <1>4, <2>1 DEF LookupCurrent
  <2>2. CASE v # w
    BY <1>1, <1>2, <1>4, <2>2 DEF LookupsCurrent, LookupCurrent
  <2> QED BY <2>1, <2>2
<1>5. AnswersAgree'
  BY <1>1, <1>2 DEF AnswersAgree
<1> QED BY <1>2, <1>3, <1>4, <1>5 DEF LookupIInv, LookupsCurrent

\* A saved record marks the lookups of its table that it falls into.
LEMMA SaveKeeps ==
  ASSUME LookupIInv, NEW w \in Workers, NEW table \in Tables, NEW key \in Keys,
         NEW content \in Contents, SaveRecord(w, table, key, content)
  PROVE  LookupIInv'
<1>1. /\ DriverAgrees /\ LookupsCurrent /\ AnswersAgree
      /\ table_rows \in [Tables -> [Keys -> Contents \cup {NoRecord}]]
      /\ driver \in [TenantTables -> [Keys -> Contents \cup {NoRecord}]]
  BY DEF LookupIInv, DriverAgrees
<1>2. /\ table_rows' = [table_rows EXCEPT ![table][key] = content]
      /\ driver' = IF table \in TenantTables THEN [driver EXCEPT ![table][key] = content] ELSE driver
      /\ lookup' = [v \in Workers |->
           IF lookup[v].stage = "collision" /\ lookup[v].table = table
           THEN [lookup[v] EXCEPT !.overlapped = TRUE] ELSE lookup[v]]
  BY DEF SaveRecord, Overlap
<1>3. DriverAgrees'
  <2>1. table_rows' \in [Tables -> [Keys -> Contents \cup {NoRecord}]]
    BY <1>1, <1>2
  <2>2. driver' \in [TenantTables -> [Keys -> Contents \cup {NoRecord}]]
    BY <1>1, <1>2
  <2>3. ASSUME NEW t \in TenantTables PROVE driver'[t] = table_rows'[t]
    <3>1. driver[t] = table_rows[t] /\ t \in Tables
      BY <1>1, RecordStoresAssumption DEF DriverAgrees
    <3>2. CASE t = table
      <4>1. driver'[t] = [driver[t] EXCEPT ![key] = content]
        BY <1>1, <1>2, <3>2
      <4>2. table_rows'[t] = [table_rows[t] EXCEPT ![key] = content]
        BY <1>1, <1>2, <3>2
      <4> QED BY <3>1, <4>1, <4>2
    <3>3. CASE t # table
      BY <1>1, <1>2, <3>1, <3>3
    <3> QED BY <3>2, <3>3
  <2> QED BY <2>1, <2>2, <2>3 DEF DriverAgrees
<1>4. \A t \in Tables : t # table => table_rows'[t] = table_rows[t]
  BY <1>1, <1>2
<1>5. ASSUME NEW v \in Workers, lookup[v].stage = "collision", lookup[v].table = table
      PROVE  lookup'[v] \in OpenLookups /\ lookup'[v].overlapped /\ lookup'[v].stage = "collision"
  <2>1. PICK open \in OpenLookups : lookup[v] = open
    BY <1>1, <1>5 DEF LookupsCurrent, LookupCurrent
  <2>2. lookup'[v] = [open EXCEPT !.overlapped = TRUE]
    BY <1>2, <1>5, <2>1
  <2> QED BY <2>2 DEF OpenLookups
<1>6. ASSUME NEW v \in Workers, ~(lookup[v].stage = "collision" /\ lookup[v].table = table)
      PROVE  lookup'[v] = lookup[v]
  BY <1>2, <1>6
<1>7. ASSUME NEW v \in Workers, lookup'[v].stage = "collision" PROVE LookupCurrent(v)'
  <2>1. CASE lookup[v].stage = "collision" /\ lookup[v].table = table
    BY <1>5, <2>1 DEF LookupCurrent
  <2>2. CASE ~(lookup[v].stage = "collision" /\ lookup[v].table = table)
    <3>1. lookup'[v] = lookup[v] /\ LookupCurrent(v) /\ lookup[v].table # table
      BY <1>1, <1>6, <1>7, <2>2 DEF LookupsCurrent
    <3>2. lookup[v].table \in Tables
      BY <3>1, RecordStoresAssumption DEF LookupCurrent, OpenLookups
    <3>3. table_rows'[lookup[v].table] = table_rows[lookup[v].table]
      BY <1>4, <3>1, <3>2
    <3> QED BY <3>1, <3>3 DEF LookupCurrent
  <2> QED BY <2>1, <2>2
<1>8. AnswersAgree'
  BY <1>1, <1>5, <1>6 DEF AnswersAgree
<1>9. lookup' = [v \in Workers |-> lookup'[v]]
  BY <1>2
<1> QED BY <1>3, <1>7, <1>8, <1>9 DEF LookupIInv, LookupsCurrent

\* delete_tool and its like change a table no lookup is in.
LEMMA DeleteKeeps ==
  ASSUME LookupIInv, NEW w \in Workers, NEW table \in Tables, NEW key \in Keys,
         DeleteRecord(w, table, key)
  PROVE  LookupIInv'
<1>1. /\ DriverAgrees /\ LookupsCurrent /\ AnswersAgree
      /\ table_rows \in [Tables -> [Keys -> Contents \cup {NoRecord}]]
  BY DEF LookupIInv, DriverAgrees
<1>2. /\ table_rows' = [table_rows EXCEPT ![table][key] = NoRecord]
      /\ table \notin TenantTables /\ UNCHANGED <<driver, lookup>>
  BY DEF DeleteRecord
<1>3. table_rows' \in [Tables -> [Keys -> Contents \cup {NoRecord}]]
  BY <1>1, <1>2
<1>4. \A t \in TenantTables : table_rows'[t] = table_rows[t]
  BY <1>1, <1>2, RecordStoresAssumption
<1>5. DriverAgrees'
  BY <1>1, <1>2, <1>3, <1>4 DEF DriverAgrees
<1>6. ASSUME NEW v \in Workers, lookup'[v].stage = "collision" PROVE LookupCurrent(v)'
  <2>1. LookupCurrent(v) /\ lookup'[v] = lookup[v] /\ lookup[v].table \in TenantTables
    BY <1>1, <1>2, <1>6 DEF LookupsCurrent, LookupCurrent, OpenLookups
  <2>2. table_rows'[lookup[v].table] = table_rows[lookup[v].table]
    BY <1>4, <2>1
  <2> QED BY <2>1, <2>2 DEF LookupCurrent
<1> QED BY <1>1, <1>2, <1>5, <1>6 DEF LookupIInv, LookupsCurrent, AnswersAgree

\* get_session and get_checkpoint: the first SELECT, and what the driver answers at that moment.
LEMMA LookUpKeeps ==
  ASSUME LookupIInv, NEW w \in Workers, NEW table \in Tables, NEW key \in Keys,
         LookUp(w, table, key)
  PROVE  LookupIInv'
<1>1. table \in TenantTables /\ driver[table] = table_rows[table] /\ UNCHANGED <<table_rows, driver>>
  BY DEF LookUp, LookupIInv, DriverAgrees
<1>2. PICK stored : stored = table_rows[table] /\ stored = driver[table]
  BY <1>1
<1>3. CASE stored[key] # NoRecord
  <2>1. PICK answer : answer = OwnRecord(stored, key)
    OBVIOUS
  <2>2. DriverGet(table, key) = answer
    BY <1>2, <1>3, <2>1 DEF DriverGet
  <2>3. PICK next : /\ next.stage = "answered" /\ next.answer = next.driver
                    /\ next = [stage |-> "answered", table |-> table, key |-> key,
                               overlapped |-> FALSE, answer |-> answer, driver |-> answer]
    OBVIOUS
  <2>4. lookup' = [lookup EXCEPT ![w] = next]
    BY <1>2, <1>3, <2>1, <2>2, <2>3 DEF LookUp
  <2> QED BY <1>1, <2>3, <2>4, OneLooks
<1>4. CASE stored[key] = NoRecord
  <2>1. PICK answer \in {NoAnswer, IsolationError} :
          answer = IF IdTaken(stored, key) THEN IsolationError ELSE NoAnswer
    OBVIOUS
  <2>2. DriverGet(table, key) = answer
    BY <1>2, <1>4, <2>1 DEF DriverGet, IdTaken
  <2>3. PICK next \in OpenLookups :
          /\ next.stage = "collision" /\ next.table = table /\ next.key = key
          /\ next.driver = answer
          /\ next = [stage |-> "collision", table |-> table, key |-> key,
                     overlapped |-> FALSE, answer |-> NoAnswer, driver |-> answer]
    BY <1>1 DEF OpenLookups
  <2>4. lookup' = [lookup EXCEPT ![w] = next]
    BY <1>2, <1>4, <2>1, <2>2, <2>3 DEF LookUp
  <2>5. /\ table_rows[next.table][next.key] = NoRecord
        /\ next.driver = IF IdTaken(table_rows[next.table], next.key)
                         THEN IsolationError ELSE NoAnswer
    BY <1>2, <1>4, <2>1, <2>3
  <2> QED BY <1>1, <2>3, <2>4, <2>5, OneLooks
<1> QED BY <1>3, <1>4

\* The second SELECT finds a row of the id in another tenant, or none: the caller's own row is
\* still absent, unless a change fell between the two.
LEMMA CollisionKeeps ==
  ASSUME LookupIInv, NEW w \in Workers, CheckCollision(w)
  PROVE  LookupIInv'
<1>1. LookupCurrent(w) /\ lookup[w].stage = "collision" /\ UNCHANGED <<table_rows, driver>>
  BY DEF LookupIInv, LookupsCurrent, CheckCollision
<1>2. PICK open \in OpenLookups : lookup[w] = open
  BY <1>1 DEF LookupCurrent
<1>3. PICK answer \in Collision(w) :
        lookup' = [lookup EXCEPT ![w].stage = "answered", ![w].answer = answer]
  BY DEF CheckCollision
<1>4. PICK next : /\ next = [[open EXCEPT !.stage = "answered"] EXCEPT !.answer = answer]
                  /\ next.stage = "answered" /\ next.answer = answer
                  /\ next.overlapped = open.overlapped /\ next.driver = open.driver
  <2> DEFINE Ended == [stage : {"answered"}, table : TenantTables, key : Keys,
                       overlapped : BOOLEAN, answer : {NoAnswer},
                       driver : {NoAnswer, IsolationError}]
  <2>1. /\ [open EXCEPT !.stage = "answered"] \in Ended
        /\ [open EXCEPT !.stage = "answered"].overlapped = open.overlapped
        /\ [open EXCEPT !.stage = "answered"].driver = open.driver
    BY DEF OpenLookups
  <2>2. PICK ended \in Ended :
          /\ ended = [open EXCEPT !.stage = "answered"]
          /\ ended.overlapped = open.overlapped /\ ended.driver = open.driver
    BY <2>1
  <2>3. /\ [ended EXCEPT !.answer = answer].stage = "answered"
        /\ [ended EXCEPT !.answer = answer].answer = answer
        /\ [ended EXCEPT !.answer = answer].overlapped = ended.overlapped
        /\ [ended EXCEPT !.answer = answer].driver = ended.driver
    OBVIOUS
  <2> QED BY <2>2, <2>3
<1>5. lookup' = [lookup EXCEPT ![w] = next]
  <2>1. lookup = [v \in Workers |-> lookup[v]]
    BY DEF LookupIInv, LookupsCurrent
  <2> QED BY <1>2, <1>3, <1>4, <2>1
<1>6. ASSUME ~open.overlapped PROVE answer = open.driver
  <2>1. /\ table_rows[open.table][open.key] = NoRecord
        /\ open.driver = IF IdTaken(table_rows[open.table], open.key)
                         THEN IsolationError ELSE NoAnswer
    BY <1>1, <1>2, <1>6 DEF LookupCurrent
  <2>2. PICK stored, tenant, id : /\ stored = table_rows[open.table] /\ open.key = <<tenant, id>>
                                  /\ tenant \in RecordTenants
    BY DEF OpenLookups, Keys
  <2> DEFINE holders == {t \in RecordTenants : stored[<<t, id>>] # NoRecord}
  <2>3. answer \in IF holders = {} THEN {NoAnswer}
                   ELSE {IF t = tenant THEN NoAnswer ELSE IsolationError : t \in holders}
    BY <1>2, <1>3, <2>2 DEF Collision
  <2>4. tenant \notin holders /\ (IdTaken(stored, open.key) <=> holders # {})
    BY <2>1, <2>2 DEF IdTaken
  <2> QED BY <2>1, <2>2, <2>3, <2>4
<1> QED BY <1>1, <1>4, <1>5, <1>6, OneLooks

\* Every step keeps the second half of the inductive invariant.
LEMMA LookupStep ==
  ASSUME LookupIInv, [RecordsNext]_recordVars
  PROVE  LookupIInv'
<1>1. ASSUME NEW w \in Workers,
             \/ StartWorker(w) \/ CreateRegistry(w) \/ ListMigrations(w) \/ CreateTable(w)
             \/ RecordMigration(w) \/ CommitMigration(w)
      PROVE  LookupIInv'
  BY <1>1, LookupsUntouched DEF StartWorker, CreateRegistry, ListMigrations, CreateTable,
     RecordMigration, CommitMigration, dataVars
<1>2. ASSUME NEW w \in Workers, KillWorker(w) PROVE LookupIInv'
  <2>1. PICK next : next = NoLookup /\ next.stage = "idle"
    <3>1. NoLookup.stage = "idle"
      BY DEF NoLookup
    <3> QED BY <3>1
  <2>2. lookup' = [lookup EXCEPT ![w] = next] /\ UNCHANGED <<table_rows, driver>>
    BY <1>2, <2>1 DEF KillWorker
  <2> QED BY <2>1, <2>2, OneLooks
<1>3. ASSUME NEW w \in Workers, NEW tenant \in RecordTenants, ListCheckpoints(w, tenant)
      PROVE  LookupIInv'
  <2>1. PICK answer : /\ answer = Found(ListRecords(table_rows["checkpoints"], tenant))
                      /\ answer = Found(ListRecords(driver["checkpoints"], tenant))
    BY <1>3 DEF ListCheckpoints, LookupIInv, DriverAgrees
  <2>2. PICK next : /\ next.stage = "answered" /\ next.answer = next.driver
                    /\ next = [stage |-> "answered", table |-> "checkpoints",
                               key |-> <<tenant, NoRecord>>, overlapped |-> FALSE,
                               answer |-> answer, driver |-> answer]
    OBVIOUS
  <2>3. lookup' = [lookup EXCEPT ![w] = next] /\ UNCHANGED <<table_rows, driver>>
    BY <1>3, <2>1, <2>2 DEF ListCheckpoints
  <2> QED BY <2>2, <2>3, OneLooks
<1>4. CASE UNCHANGED recordVars
  BY <1>4, LookupsUntouched DEF recordVars
<1> QED BY <1>1, <1>2, <1>3, <1>4, SaveKeeps, DeleteKeeps, LookUpKeeps, CollisionKeeps
        DEF RecordsNext

\* For any number of processes, tables, tenants and crashes: a process that opens the stores alone
\* starts, a process that serves has every table on record, and a lookup no change falls into
\* answers what the Postgres-style driver answers.
THEOREM RecordsAreSound == RecordsSpec => []RecordsSound
<1>1. RecordsInit => RecordsIInv
  <2> SUFFICES ASSUME RecordsInit PROVE RecordsIInv
    OBVIOUS
  <2>1. Down \in WorkerStates /\ Down.at = "down" /\ ~Down.alone
    BY DEF Down, WorkerStates
  <2>2. worker = [w \in Workers |-> Down] /\ tables = {} /\ migrated = {}
    BY DEF RecordsInit
  <2>3. StartupIInv
    BY <2>1, <2>2 DEF StartupIInv, OpenedInOrder, AloneIsAlone, Opening
  <2>4. DriverAgrees
    BY RecordStoresAssumption DEF RecordsInit, DriverAgrees, EmptyTable
  <2>5. LookupsCurrent /\ AnswersAgree
    BY DEF RecordsInit, LookupsCurrent, AnswersAgree, NoLookup
  <2> QED BY <2>3, <2>4, <2>5 DEF RecordsIInv, LookupIInv
<1>2. RecordsIInv /\ [RecordsNext]_recordVars => RecordsIInv'
  BY StartupStep, LookupStep DEF RecordsIInv
<1>3. RecordsIInv => RecordsSound
  BY DEF RecordsIInv, StartupIInv, OpenedInOrder, AloneIsAlone, LookupIInv, RecordsSound,
     LoneStartSucceeds
<1> QED BY <1>1, <1>2, <1>3, PTL DEF RecordsSpec
=============================================================================
