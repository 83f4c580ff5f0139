--------------------------- MODULE MCToolBackends ---------------------------
(* What executes tools, and which: the durable queue of the tenants' own      *)
(* workers, the hosted sandbox, the versions of a tool, and the SQLite stores *)
(* of the records.  They share no state, so every behaviour follows one.      *)
(* Queue: two jobs of one tenant and of different calls.  Sandbox: a call, a  *)
(* retry under its call_id, and a call of another tenant, with room for one   *)
(* worker.  Versions: two of them, of which one upload waits for its audit.   *)
(* Records: a store that checks the tenant and one that does not.             *)
EXTENDS ByocSqliteStore, SandboxRuntime, ToolVersions, RecordStores, TLC

CONSTANTS i1, i2, i3, v1, v2

VARIABLE focus

backendVars == <<focus, sqliteVars, tenant_queue, sandboxVars, versionVars, recordVars>>

MCTenantOf == [j \in 1..MaxJobs |-> "acme"]
MCCallOf == [j \in 1..MaxJobs |-> IF j = 1 THEN "c1" ELSE "c2"]
MCInvocations == {i1, i2, i3}
MCInvocationTenant == [i \in MCInvocations |-> IF i = i3 THEN "t2" ELSE "t1"]
MCCallId == [i \in MCInvocations |-> IF i = i3 THEN "c2" ELSE "c1"]
MCOpenOrder == <<"checkpoints", "tools">>

BackendsInit ==
  /\ focus \in {"queue", "sandbox", "versions", "records"}
  /\ SqliteInit
  /\ SandboxInit
  /\ VersionsInit
  /\ RecordsInit
  /\ focus # "sandbox" => isolation = "thread"

BackendsNext ==
  \/ focus = "queue" /\ SqliteNext /\ UNCHANGED <<focus, sandboxVars, versionVars, recordVars>>
  \/ focus = "sandbox" /\ SandboxNext
     /\ UNCHANGED <<focus, sqliteVars, tenant_queue, versionVars, recordVars>>
  \/ focus = "versions" /\ VersionsNext
     /\ UNCHANGED <<focus, sqliteVars, tenant_queue, sandboxVars, recordVars>>
  \/ focus = "records" /\ RecordsNext
     /\ UNCHANGED <<focus, sqliteVars, tenant_queue, sandboxVars, versionVars>>

BackendsSpec == BackendsInit /\ [][BackendsNext]_backendVars

BackendsSymmetry == Permutations({i1, i2}) \cup Permutations({v1, v2})
=============================================================================
