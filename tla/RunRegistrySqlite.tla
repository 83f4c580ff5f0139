-------------------------- MODULE RunRegistrySqlite --------------------------
(***************************************************************************)
(* SQLiteRunControlRegistry: the runs of one tenant in a SQLite file that  *)
(* several processes share, and that outlives them.  Each operation takes  *)
(* its process's lock.  Inside, a SELECT comes before the first write and  *)
(* is not in its transaction (the sqlite3 module opens one at the first    *)
(* INSERT, UPDATE or DELETE), so another process may write in between.     *)
(***************************************************************************)
EXTENDS Naturals, FiniteSets, SequencesExt

CONSTANTS
  RegistryProcesses,       \* processes that have the file open
  RegistryRuns,    \* run ids; a client may use one again
  RecordedCalls,   \* ids of tool calls
  MaxKept,         \* max_terminal_records_per_tenant; 0 keeps all
  MaxStarts        \* bound: calls of start_run

ASSUME RegistryAssumption == MaxKept \in Nat /\ MaxStarts \in Nat \ {0}

VARIABLES
  rows,            \* run_control: run id -> row
  finishing,       \* the runs that were marked terminal, the last one last (finished_at_utc)
  callRows,        \* run_control_tool_calls: pairs <<run id, call id>>
  op,              \* per process: the operation that has read and will write
  starts           \* calls of start_run so far

registryVars == <<rows, finishing, callRows, op, starts>>

Final == {"completed", "errored", "cancelled"}
NoRunRow == [status |-> "none", started |-> 0, cancel |-> FALSE]
Idle == [kind |-> "none"]

RegistryInit ==
  /\ rows = [r \in RegistryRuns |-> NoRunRow]
  /\ finishing = <<>>
  /\ callRows = {}
  /\ op = [p \in RegistryProcesses |-> Idle]
  /\ starts = 0

Known(r) == rows[r].status # "none"
Terminal == {r \in RegistryRuns : rows[r].status \in Final}

-----------------------------------------------------------------------------
\* start_run replaces the row of a run id that is used again; the rows of its calls stay.
StartRun(p, r) ==
  /\ op[p] = Idle
  /\ starts < MaxStarts
  /\ starts' = starts + 1
  /\ rows' = [rows EXCEPT ![r] = [NoRunRow EXCEPT !.status = "running", !.started = starts + 1]]
  /\ UNCHANGED <<finishing, callRows, op>>

\* The SELECT of record_tool_call, mark_terminal and request_cancel.  A run that is not there
\* ends the operation.
Begin(p, todo) ==
  /\ op[p] = Idle
  /\ Known(todo.run)
  /\ op' = [op EXCEPT ![p] = todo]
  /\ UNCHANGED <<rows, finishing, callRows, starts>>

BeginRecord(p, r, c) == Begin(p, [kind |-> "record", run |-> r, call |-> c])

BeginMark(p, r, status) == Begin(p, [kind |-> "mark", run |-> r, status |-> status])

\* request_cancel decides on the new status from what it read.
BeginCancel(p, r) ==
  Begin(p, [kind |-> "cancel", run |-> r,
            status |-> IF rows[r].status \in Final THEN rows[r].status ELSE "cancel_requested"])

Record(p) ==
  /\ op[p].kind = "record"
  /\ callRows' = callRows \cup {<<op[p].run, op[p].call>>}
  /\ op' = [op EXCEPT ![p] = Idle]
  /\ UNCHANGED <<rows, finishing, starts>>

Cancel(p) ==
  /\ op[p].kind = "cancel"
  /\ rows' = IF Known(op[p].run)
             THEN [rows EXCEPT ![op[p].run].status = op[p].status, ![op[p].run].cancel = TRUE]
             ELSE rows
  /\ op' = [op EXCEPT ![p] = Idle]
  /\ UNCHANGED <<finishing, callRows, starts>>

\* Mutation: pruning deletes the rows of the runs and leaves those of their calls.
WithoutRunsOnly(table, calls, gone) ==
  [table |-> [r \in RegistryRuns |-> IF r \in gone THEN NoRunRow ELSE table[r]], calls |-> calls]

Without(table, calls, gone) ==
  [table |-> [r \in RegistryRuns |-> IF r \in gone THEN NoRunRow ELSE table[r]],
   calls |-> {c \in calls : c[1] \notin gone}]

\* _prune_sqlite_terminals: the oldest go.  datetime() drops fractions of seconds, so runs that
\* finished in the same second go in the order in which they started.
Prunings(table, ended) ==
  LET final == {r \in RegistryRuns : table[r].status \in Final}
      overflow == IF MaxKept = 0 \/ Cardinality(final) <= MaxKept THEN 0
                  ELSE Cardinality(final) - MaxKept
      Older(r, s) == \/ SelectInSeq(ended, LAMBDA x : x = r) < SelectInSeq(ended, LAMBDA x : x = s)
                     \/ table[r].started < table[s].started
  IN {gone \in SUBSET final : /\ Cardinality(gone) = overflow
                              /\ \A r \in gone, s \in final \ gone : Older(r, s)}

\* The UPDATE of mark_terminal opens the transaction in which the pruning runs.
Mark(p) ==
  LET r == op[p].run
      marked == IF Known(r) THEN [rows EXCEPT ![r].status = op[p].status] ELSE rows
      ended == IF Known(r) THEN Append(Remove(finishing, r), r) ELSE finishing
  IN /\ op[p].kind = "mark"
     /\ \E gone \in Prunings(marked, ended) :
          /\ rows' = Without(marked, callRows, gone).table
          /\ callRows' = Without(marked, callRows, gone).calls
     /\ finishing' = ended
     /\ op' = [op EXCEPT ![p] = Idle]
     /\ UNCHANGED starts

\* The process dies.  What it had not written is lost; the file stays, and nothing looks at the
\* runs that it left active when it starts again.
Crash(p) ==
  /\ op[p] # Idle
  /\ op' = [op EXCEPT ![p] = Idle]
  /\ UNCHANGED <<rows, finishing, callRows, starts>>

RegistryNext ==
  \E p \in RegistryProcesses :
    \/ \E r \in RegistryRuns :
         \/ StartRun(p, r)
         \/ BeginCancel(p, r)
         \/ \E c \in RecordedCalls : BeginRecord(p, r, c)
         \/ \E s \in Final : BeginMark(p, r, s)
    \/ Record(p) \/ Cancel(p) \/ Mark(p) \/ Crash(p)

RegistrySpec == RegistryInit /\ [][RegistryNext]_registryVars

-----------------------------------------------------------------------------
\* A run that has finished is not active again unless a client starts it anew: an active run
\* counts against the tenant's cap, and nothing would finish this one (request_cancel).
FinishedStaysFinished ==
  [][\A r \in RegistryRuns :
       rows[r].status \in Final /\ rows'[r].status \notin Final \cup {"none"} => starts' > starts
    ]_registryVars

\* The tables agree: a call belongs to a run that is there, and no more finished runs are kept
\* than configured (record_tool_call, _prune_sqlite_terminals).
RegistryTablesAgree ==
  /\ \A c \in callRows : Known(c[1])
  /\ MaxKept > 0 => Cardinality(Terminal) <= MaxKept
=============================================================================
