---------------------------- MODULE RecordStores ----------------------------
(***************************************************************************)
(* The record stores of persistence/adapters/sqlite.py (sessions, checkpoints, tools, agents,
   providers, tool versions) over one database file shared by several server processes, with the
   recorded migrations every store applies when it is opened, and the Postgres-style driver of
   persistence/adapters/postgres.py, which promises the same answers.

   A process opens the stores one after the other (bootstrap).  Opening one applies its migration:
   CREATE TABLE IF NOT EXISTS schema_migrations, a SELECT of the migrations on record, the
   migration's own CREATE TABLE, and an INSERT of its id, committed last.  Python's sqlite3 runs the
   CREATEs outside any transaction (each is durable at once) and begins one at the INSERT, which
   takes the file's write lock until the commit.  A process may die between any two of these.

   A lookup of a session or checkpoint is two SELECTs: the tenant's own row, and, when there is
   none, any row of that id, whose tenant must then be the caller's.  Records are the values the
   stores keep; columns, JSON and the identity of a session, which SQLite does not store, are left
   out, and so are the timeouts of SQLite's locks.                                               *)
(***************************************************************************)
EXTENDS Naturals, Sequences, FiniteSets

CONSTANTS
  Workers,        \* server processes sharing the database file
  OpenOrder,      \* the stores bootstrap opens, in its order: a sequence of table names
  TenantTables,   \* the stores whose lookups check the tenant: sessions and checkpoints
  RecordTenants,  \* tenants, or the one empty tenant of a table without that column
  RecordIds,      \* ids within a tenant
  Contents,       \* what a row holds besides its key
  NoRecord,       \* "no such row"
  NoWriter,       \* nobody holds the write lock
  MaxWrites,      \* bound on the changes of rows
  MaxStartups     \* bound on the starts of processes

Tables == {OpenOrder[i] : i \in 1..Len(OpenOrder)}
Keys == RecordTenants \X RecordIds
NoLookup == [stage |-> "idle"]

ASSUME RecordStoresAssumption ==
  /\ MaxWrites \in Nat /\ MaxStartups \in Nat
  /\ OpenOrder \in Seq(Tables) /\ OpenOrder # <<>>
  /\ TenantTables \subseteq Tables
  /\ NoRecord \notin Contents /\ NoWriter \notin Workers

VARIABLES
  registered,  \* does the file have the schema_migrations table
  tables,      \* the record tables the file has
  migrated,    \* the committed rows of schema_migrations
  writer,      \* the process inside a write transaction
  worker,      \* per process: how far it has come in opening its stores
  table_rows,  \* the committed rows of every table
  driver,      \* the Postgres-style driver given the same sessions and checkpoints
  lookup,      \* per process: the lookup it is in, and its answer
  writes, startups

recordVars ==
  <<registered, tables, migrated, writer, worker, table_rows, driver, lookup, writes, startups>>
schemaVars == <<registered, tables, migrated>>
dataVars == <<table_rows, driver, lookup, writes>>

RecordsTypeOK ==
  /\ registered \in BOOLEAN
  /\ tables \subseteq Tables /\ migrated \subseteq Tables
  /\ writer \in Workers \cup {NoWriter}
  /\ \A w \in Workers : worker[w].at \in
       {"down", "failed", "register", "list", "create", "record", "commit", "serving"}
  /\ table_rows \in [Tables -> [Keys -> Contents \cup {NoRecord}]]
  /\ driver \in [TenantTables -> [Keys -> Contents \cup {NoRecord}]]

Down == [at |-> "down", store |-> 0, alone |-> FALSE]

EmptyTable == [key \in Keys |-> NoRecord]

RecordsInit ==
  /\ registered = FALSE /\ tables = {} /\ migrated = {} /\ writer = NoWriter
  /\ worker = [w \in Workers |-> Down]
  /\ table_rows = [t \in Tables |-> EmptyTable]
  /\ driver = [t \in TenantTables |-> EmptyTable]
  /\ lookup = [w \in Workers |-> NoLookup]
  /\ writes = 0 /\ startups = 0

(***************************************************************************)
(* Opening the stores: bootstrap and apply_sqlite_migrations                                     *)
(***************************************************************************)
Opening(w) == worker[w].at \in {"register", "list", "create", "record", "commit"}
Store(w) == OpenOrder[worker[w].store]
GoTo(w, step) == worker' = [worker EXCEPT ![w].at = step]

\* The connection that writes waits until no other connection is in a write transaction.
MayWrite(w) == writer \in {NoWriter, w}

\* bootstrap, with `alone` recording that no other process is opening its stores meanwhile.
StartWorker(w) ==
  /\ startups < MaxStartups
  /\ worker[w].at \in {"down", "failed"}
  /\ startups' = startups + 1
  /\ worker' = [v \in Workers |->
       IF v = w
       THEN [at |-> "register", store |-> 1,
             alone |-> \A u \in Workers \ {w} : ~Opening(u)]
       ELSE [worker[v] EXCEPT !.alone = FALSE]]
  /\ UNCHANGED <<schemaVars, writer, dataVars>>

CreateRegistry(w) ==
  /\ worker[w].at = "register"
  /\ registered \/ MayWrite(w)
  /\ registered' = TRUE
  /\ GoTo(w, "list")
  /\ UNCHANGED <<tables, migrated, writer, dataVars, startups>>

\* The next store's migration, or, with the last one open, the process serves.
NextStore(w) ==
  worker' = [worker EXCEPT ![w] =
    IF @.store = Len(OpenOrder) THEN [@ EXCEPT !.at = "serving"]
    ELSE [at |-> "register", store |-> @.store + 1, alone |-> @.alone]]

ListMigrations(w) ==
  /\ worker[w].at = "list"
  /\ IF Store(w) \in migrated
     THEN NextStore(w)
     ELSE GoTo(w, "create")
  /\ UNCHANGED <<schemaVars, writer, dataVars, startups>>

\* Mutation: CREATE TABLE without IF NOT EXISTS, which a half-applied migration makes fail.
CreateTableOnce(w) ==
  /\ worker[w].at = "create"
  /\ Store(w) \in tables \/ MayWrite(w)
  /\ tables' = tables \cup {Store(w)}
  /\ GoTo(w, IF Store(w) \in tables THEN "failed" ELSE "record")
  /\ UNCHANGED <<registered, migrated, writer, dataVars, startups>>

CreateTable(w) ==
  /\ worker[w].at = "create"
  /\ Store(w) \in tables \/ MayWrite(w)
  /\ tables' = tables \cup {Store(w)}
  /\ GoTo(w, "record")
  /\ UNCHANGED <<registered, migrated, writer, dataVars, startups>>

\* The INSERT of the migration's id: a second one violates the primary key, and the error ends
\* the process's startup.
RecordMigration(w) ==
  /\ worker[w].at = "record"
  /\ MayWrite(w)
  /\ IF Store(w) \in migrated
     THEN GoTo(w, "failed") /\ UNCHANGED writer
     ELSE GoTo(w, "commit") /\ writer' = w
  /\ UNCHANGED <<schemaVars, dataVars, startups>>

CommitMigration(w) ==
  /\ worker[w].at = "commit"
  /\ migrated' = migrated \cup {Store(w)}
  /\ writer' = NoWriter
  /\ NextStore(w)
  /\ UNCHANGED <<registered, tables, dataVars, startups>>

\* The process dies; an open transaction is rolled back.
KillWorker(w) ==
  /\ worker[w].at \notin {"down", "failed"}
  /\ worker' = [worker EXCEPT ![w] = Down]
  /\ writer' = IF writer = w THEN NoWriter ELSE writer
  /\ lookup' = [lookup EXCEPT ![w] = NoLookup]
  /\ UNCHANGED <<schemaVars, table_rows, driver, writes, startups>>

(***************************************************************************)
(* Rows                                                                                          *)
(***************************************************************************)
Write(w) ==
  /\ worker[w].at = "serving"
  /\ writes < MaxWrites
  /\ MayWrite(w)
  /\ writes' = writes + 1

\* Other processes' lookups that a change of this table falls into.
Overlap(table) ==
  [v \in Workers |->
    IF lookup[v].stage = "collision" /\ lookup[v].table = table
    THEN [lookup[v] EXCEPT !.overlapped = TRUE] ELSE lookup[v]]

\* save_session, save_checkpoint, save_tool, save_agent, save_provider, save_tool_version: one
\* upsert, committed at once; the driver keeps a copy of the sessions and checkpoints it is given.
SaveRecord(w, table, key, content) ==
  /\ Write(w)
  /\ table_rows' = [table_rows EXCEPT ![table][key] = content]
  /\ driver' = IF table \in TenantTables THEN [driver EXCEPT ![table][key] = content] ELSE driver
  /\ lookup' = Overlap(table)
  /\ UNCHANGED <<schemaVars, writer, worker, startups>>

\* delete_tool, delete_agent, delete_provider, delete_tool_version; nothing deletes the others.
DeleteRecord(w, table, key) ==
  /\ Write(w)
  /\ table \notin TenantTables
  /\ table_rows' = [table_rows EXCEPT ![table][key] = NoRecord]
  /\ UNCHANGED <<schemaVars, writer, worker, driver, lookup, startups>>

\* The records of one tenant in a table: what list_checkpoints answers, by id.
ListRecords(stored, tenant) ==
  [id \in {i \in RecordIds : stored[<<tenant, i>>] # NoRecord} |-> stored[<<tenant, id>>]]

\* An answer: the records found, nothing, or PersistenceIsolationError.
Found(records) == [kind |-> "found", records |-> records]
NoAnswer == [kind |-> "none", records |-> <<>>]
IsolationError == [kind |-> "isolation", records |-> <<>>]
OwnRecord(stored, key) == Found([id \in {key[2]} |-> stored[key]])

\* get_session and get_checkpoint of the driver, over its dict.
DriverGet(table, key) ==
  LET stored == driver[table]
  IN IF stored[key] # NoRecord THEN OwnRecord(stored, key)
     ELSE IF \E tenant \in RecordTenants : stored[<<tenant, key[2]>>] # NoRecord
          THEN IsolationError ELSE NoAnswer

\* get_session, get_checkpoint: the tenant's own row.
LookUp(w, table, key) ==
  /\ worker[w].at = "serving"
  /\ table \in TenantTables
  /\ lookup[w].stage # "collision"
  /\ lookup' = [lookup EXCEPT ![w] =
       IF table_rows[table][key] # NoRecord
       THEN [stage |-> "answered", table |-> table, key |-> key, overlapped |-> FALSE,
             answer |-> OwnRecord(table_rows[table], key), driver |-> DriverGet(table, key)]
       ELSE [stage |-> "collision", table |-> table, key |-> key, overlapped |-> FALSE,
             answer |-> NoAnswer, driver |-> DriverGet(table, key)]]
  /\ UNCHANGED <<schemaVars, writer, worker, table_rows, driver, writes, startups>>

ListCheckpoints(w, tenant) ==
  /\ worker[w].at = "serving"
  /\ "checkpoints" \in TenantTables
  /\ lookup[w].stage # "collision"
  /\ lookup' = [lookup EXCEPT ![w] =
       [stage |-> "answered", table |-> "checkpoints", key |-> <<tenant, NoRecord>>,
        overlapped |-> FALSE,
        answer |-> Found(ListRecords(table_rows["checkpoints"], tenant)),
        driver |-> Found(ListRecords(driver["checkpoints"], tenant))]]
  /\ UNCHANGED <<schemaVars, writer, worker, table_rows, driver, writes, startups>>

\* Mutation: the second query is left out, and another tenant's id reads as free.
CollisionUnchecked(w) == {NoAnswer}

\* SELECT tenant_id ... LIMIT 1 without an order: any tenant that has the id may be the row, and
\* _assert_tenant_match raises unless it is the caller.
Collision(w) ==
  LET key == lookup[w].key
      holders == {t \in RecordTenants : table_rows[lookup[w].table][<<t, key[2]>>] # NoRecord}
  IN IF holders = {} THEN {NoAnswer}
     ELSE {IF t = key[1] THEN NoAnswer ELSE IsolationError : t \in holders}

CheckCollision(w) ==
  /\ lookup[w].stage = "collision"
  /\ \E answer \in Collision(w) :
       lookup' = [lookup EXCEPT ![w].stage = "answered", ![w].answer = answer]
  /\ UNCHANGED <<schemaVars, writer, worker, table_rows, driver, writes, startups>>

RecordsNext ==
  \E w \in Workers :
    \/ StartWorker(w) \/ CreateRegistry(w) \/ ListMigrations(w) \/ CreateTable(w)
    \/ RecordMigration(w) \/ CommitMigration(w) \/ KillWorker(w)
    \/ \E table \in Tables, key \in Keys :
         \/ \E content \in Contents : SaveRecord(w, table, key, content)
         \/ DeleteRecord(w, table, key)
         \/ LookUp(w, table, key)
    \/ \E tenant \in RecordTenants : ListCheckpoints(w, tenant)
    \/ CheckCollision(w)

RecordsSpec == RecordsInit /\ [][RecordsNext]_recordVars

(***************************************************************************)
(* Properties                                                                                    *)
(***************************************************************************)
\* A process that opens its stores while no other does never fails to start, wherever earlier
\* processes died in the middle of a migration; and a process that serves has every table, with
\* its migration on record.
LoneStartSucceeds ==
  \A w \in Workers :
    /\ worker[w].at = "failed" => ~worker[w].alone
    /\ worker[w].at = "serving" => Tables \subseteq tables \cap migrated

\* A lookup that no change of its table falls into answers what the Postgres-style driver answers:
\* the tenant's own record, a refusal when only another tenant has the id, or nothing.
AnswersAgree ==
  \A w \in Workers :
    lookup[w].stage = "answered" /\ ~lookup[w].overlapped => lookup[w].answer = lookup[w].driver

\* "multiple processes can share the same file safely" (SQLiteToolStore): no process fails to open
\* its stores.
SharedStartSucceeds == \A w \in Workers : worker[w].at # "failed"

\* Together: the stores open again after any crash, and answer what the abstract driver would.
RecordsSound == LoneStartSucceeds /\ AnswersAgree
=============================================================================
