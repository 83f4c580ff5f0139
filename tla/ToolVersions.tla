---------------------------- MODULE ToolVersions ----------------------------
(***************************************************************************)
(* One tool of one tenant: its packaged versions, its plain registration,  *)
(* and what the tenant's tool registry serves.  The routes of tools.py     *)
(* keep four things in step, one store call at a time: the bundle files    *)
(* on disk, the rows of SQLiteToolVersionStore, the row of SQLiteToolStore *)
(* and the registry of the tenant's context.                               *)
(*                                                                         *)
(* The methods of these stores never suspend, so a route runs on the event *)
(* loop without another request in between, with two exceptions: its       *)
(* context was resolved earlier, and an upload waits for the audit store   *)
(* (a thread) after its row is saved and before it is activated.  The      *)
(* process may die between any two steps.  A restart loads the registry    *)
(* from the stores; a context that was evicted comes back with an empty    *)
(* one.                                                                    *)
(***************************************************************************)
EXTENDS Naturals, FiniteSets

CONSTANTS
  Versions,
  Bundles,          \* handler sources that uploads bring along
  ValidBundles,     \* those that pass validation
  MaxAuditing       \* bound: uploads that wait for the audit store

\* The names that stand for no bundle are none.
ASSUME VersionsAssumption ==
  /\ ValidBundles \subseteq Bundles /\ MaxAuditing \in Nat
  /\ Bundles \cap {"none", "torn", "plain", "ref", "bad_ref"} = {}

\* An upload without a bundle names a handler_ref; BadRef does not resolve, or the manifest
\* that names it is not valid.
Ref == "ref"
BadRef == "bad_ref"
Sources == Bundles \cup {Ref, BadRef}
Usable == ValidBundles \cup {Ref}
NoRow == [source |-> "none", active |-> FALSE]
Nothing == [version |-> "none", code |-> "none"]
Plain == [version |-> "plain", code |-> "plain"]
Idling == [pc |-> "idle", ctx |-> "cached", v |-> "none", b |-> "none", activate |-> FALSE]

VARIABLES
  rows,          \* tool_versions, per version
  files,         \* tool.yaml and handler.py of each version; "torn" between the two writes
  tool_row,      \* whether the tools table has a row of that name
  registry,      \* the tool of that name in ctx.tool_registry of the cached context
  evicted,       \* the context was evicted since the process started
  route,         \* the route that is running
  auditing,      \* uploads that wait for the audit store and will then be activated
  failed_sync,   \* the last sync of the registry raised, and its request was answered 500
  deleted        \* unregister_tool was the last change of what is registered

versionVars == <<rows, files, tool_row, registry, evicted, route, auditing, failed_sync,
                deleted>>

VersionsInit ==
  /\ rows = [v \in Versions |-> NoRow]
  /\ files = [v \in Versions |-> "none"]
  /\ tool_row = FALSE
  /\ registry = Nothing
  /\ evicted = FALSE
  /\ route = Idling
  /\ auditing = {}
  /\ failed_sync = FALSE
  /\ deleted = FALSE

Continue(pc) == route' = [route EXCEPT !.pc = pc]
Respond == route' = Idling

\* A write to the registry of a context that was evicted meanwhile is seen by nobody.
Serve(c, descriptor) == registry' = IF c = "cached" THEN descriptor ELSE registry

-----------------------------------------------------------------------------
(* The stores.                                                             *)

Row(v) == rows[v] # NoRow
ActiveVersions == {v \in Versions : rows[v].active}

\* save_tool_version inserts the row or replaces it, the active flag included.
SaveRow(v, source) == rows' = [rows EXCEPT ![v] = [source |-> source, active |-> FALSE]]
DeleteRow(v) == rows' = [rows EXCEPT ![v] = NoRow]

\* set_active_tool_version: both UPDATEs in one transaction.
SetActive(v) ==
  rows' = [u \in Versions |-> IF Row(u) THEN [rows[u] EXCEPT !.active = (u = v)] ELSE NoRow]

ClearActive == rows' = [u \in Versions |-> [rows[u] EXCEPT !.active = FALSE]]

\* Mutation: the files are loaded without comparing them with the recorded hash.
IntactUnverified(v) == TRUE

\* verify_artifact_bundle_integrity: the files still have the hash that was recorded.
Intact(v) == files[v] = rows[v].source

\* descriptor_from_tool_version can build a descriptor ...
Loads(v) == rows[v].source \in Usable /\ (rows[v].source # Ref => Intact(v))

\* ... whose handler is what the file holds, or what the handler_ref names.
DescriptorOf(v) == [version |-> v, code |-> IF rows[v].source = Ref THEN Ref ELSE files[v]]

-----------------------------------------------------------------------------
(* Registration without versions.                                          *)

\* register_tool answers 409 when the name is taken, and 422 for a handler_ref that does not
\* resolve; neither changes anything.  What an evicted context still has is not tracked.
RegisterTool(c) ==
  /\ c = "cached" => registry = Nothing
  /\ Serve(c, Plain)
  /\ deleted' = FALSE
  /\ route' = [Idling EXCEPT !.pc = "save_tool", !.ctx = c]
  /\ UNCHANGED <<rows, files, tool_row>>

SaveTool ==
  /\ route.pc = "save_tool"
  /\ tool_row' = TRUE
  /\ Respond
  /\ UNCHANGED <<rows, files, registry, evicted, deleted, auditing, failed_sync>>

\* unregister_tool
UnregisterTool(c) ==
  /\ c = "cached" => registry # Nothing
  /\ Serve(c, Nothing)
  /\ route' = [Idling EXCEPT !.pc = "delete_tool", !.ctx = c]
  /\ UNCHANGED <<rows, files, tool_row, deleted>>

DeleteTool ==
  /\ route.pc = "delete_tool"
  /\ tool_row' = FALSE
  /\ deleted' = (route.ctx = "cached")
  /\ Respond
  /\ UNCHANGED <<rows, files, registry, evicted, auditing, failed_sync>>

-----------------------------------------------------------------------------
(* upload_tool_package.  The upload rate limit is RateLimiter's.           *)

\* persist_bundle writes the manifest, then the handler, over those of an earlier upload of
\* this version.
Upload(c, v, b, activate) ==
  LET next(pc) == [pc |-> pc, ctx |-> c, v |-> v, b |-> b, activate |-> activate]
  IN /\ \/ b \notin Bundles /\ route' = next("save_version") /\ UNCHANGED files
        \/ b \in Bundles /\ route' = next("write_handler") /\ files' = [files EXCEPT ![v] = "torn"]
     /\ UNCHANGED <<rows, tool_row, registry, deleted>>

WriteHandler ==
  /\ route.pc = "write_handler"
  /\ files' = [files EXCEPT ![route.v] = route.b]
  /\ Continue("save_version")
  /\ UNCHANGED <<rows, tool_row, registry, evicted, deleted, auditing, failed_sync>>

\* The row is saved as inactive, whatever it was before; with activate, a valid upload goes on
\* once the audit store has its event.  (An invalid one is answered, one that does not
\* resolve is answered 422.)
SaveVersion ==
  /\ route.pc = "save_version"
  /\ SaveRow(route.v, route.b)
  /\ auditing' = IF route.activate /\ route.b \in Usable
                   THEN auditing \cup {[ctx |-> route.ctx, v |-> route.v, b |-> route.b]}
                 ELSE auditing
  /\ Respond
  /\ UNCHANGED <<files, tool_row, registry, evicted, deleted, failed_sync>>

\* The audit event is written and the upload goes on with the record it made itself: its
\* descriptor is built, which compares the files as they are now with the hash of this
\* upload, and its version is activated, whatever has become of its row.  A descriptor that
\* cannot be built is answered 422; a failing audit store ends the request as well.
AuditReturns ==
  /\ route = Idling
  /\ \E u \in auditing :
       /\ auditing' = auditing \ {u}
       /\ \/ /\ u.b # Ref => files[u.v] = u.b
             /\ route' = [Idling EXCEPT !.pc = "set_active", !.ctx = u.ctx, !.v = u.v]
          \/ UNCHANGED route
  /\ UNCHANGED <<rows, files, tool_row, registry, evicted, failed_sync, deleted>>

-----------------------------------------------------------------------------
(* The governance of versions; every route ends with the sync.             *)

ActivateVersion ==
  /\ route.pc = "set_active"
  /\ SetActive(route.v)
  /\ Continue("sync")
  /\ UNCHANGED <<files, tool_row, registry, evicted, deleted, auditing, failed_sync>>

\* rollback_tool_version
Rollback(c, v) ==
  /\ Row(v) /\ Loads(v)
  /\ route' = [Idling EXCEPT !.pc = "set_active", !.ctx = c, !.v = v]
  /\ UNCHANGED <<rows, files, tool_row, registry, deleted>>

\* deactivate_tool_version answers 404 or 409 unless this version is the active one.
Deactivate(c, v) ==
  /\ v \in ActiveVersions
  /\ ClearActive
  /\ route' = [Idling EXCEPT !.pc = "sync", !.ctx = c, !.v = v]
  /\ UNCHANGED <<files, tool_row, registry, deleted>>

\* revoke_tool_package_version; an active version needs force, and is cleared first.
Revoke(c, v) ==
  /\ Row(v)
  /\ IF rows[v].active THEN ClearActive ELSE UNCHANGED rows
  /\ route' = [Idling EXCEPT !.pc = "delete_version", !.ctx = c, !.v = v]
  /\ UNCHANGED <<files, tool_row, registry, deleted>>

\* Mutation: the registry is left alone when the version was not the active one.
DeleteVersionUnsynced ==
  /\ route.pc = "delete_version"
  /\ DeleteRow(route.v)
  /\ Respond
  /\ UNCHANGED <<files, tool_row, registry, evicted, deleted, auditing, failed_sync>>

DeleteVersion ==
  /\ route.pc = "delete_version"
  /\ DeleteRow(route.v)
  /\ Continue("sync")
  /\ UNCHANGED <<files, tool_row, registry, evicted, deleted, auditing, failed_sync>>

\* _sync_active_tool_descriptor: the registry serves the active version, or nothing; an
\* active version that does not load raises and leaves the registry as it is.
Sync ==
  LET c == route.ctx
  IN /\ route.pc = "sync"
     /\ \/ /\ ActiveVersions = {}
           /\ Serve(c, Nothing)
           /\ failed_sync' = FALSE
           /\ UNCHANGED deleted
        \/ \E v \in ActiveVersions :
             /\ failed_sync' = ~Loads(v)
             /\ IF Loads(v) THEN /\ Serve(c, DescriptorOf(v))
                                 /\ deleted' = FALSE
                ELSE UNCHANGED <<registry, deleted>>
     /\ Respond
     /\ UNCHANGED <<rows, files, tool_row, evicted, auditing>>

-----------------------------------------------------------------------------
(* Contexts and the process.                                               *)

\* The event loop runs the route of a request.  get_tenant_context was evaluated before the
\* dependencies that run in the thread pool, and has found the context that is cached now or
\* one that was evicted since.
BeginRoute ==
  /\ route = Idling
  /\ \E c \in {"cached"} \cup (IF evicted THEN {"evicted"} ELSE {}) :
       \/ RegisterTool(c)
       \/ UnregisterTool(c)
       \/ \E v \in Versions, b \in Sources, activate \in BOOLEAN :
            /\ activate => Cardinality(auditing) < MaxAuditing
            /\ Upload(c, v, b, activate)
       \/ \E v \in Versions : Rollback(c, v) \/ Deactivate(c, v) \/ Revoke(c, v)
  /\ UNCHANGED <<evicted, auditing, failed_sync>>

\* get_or_create of another tenant over the cap destroys this tenant's context, and the next
\* get_or_create builds an empty one.  Bound: one eviction per process.
EvictContext ==
  /\ route = Idling /\ ~evicted
  /\ evicted' = TRUE
  /\ registry' = Nothing
  /\ auditing' = {[u EXCEPT !.ctx = "evicted"] : u \in auditing}
  /\ UNCHANGED <<rows, files, tool_row, route, failed_sync, deleted>>

\* hydrate_tenant_registries: the plain tool first, then the active version over it, unless
\* it does not load.
Hydrated ==
  IF \E v \in ActiveVersions : Loads(v)
    THEN DescriptorOf(CHOOSE v \in ActiveVersions : Loads(v))
  ELSE IF tool_row THEN Plain ELSE Nothing

\* The process ends, at any point, and starts again.
RestartProcess ==
  /\ registry' = Hydrated
  /\ evicted' = FALSE
  /\ auditing' = {}
  /\ failed_sync' = FALSE
  /\ Respond
  /\ UNCHANGED <<rows, files, tool_row, deleted>>

VersionsNext ==
  \/ BeginRoute \/ EvictContext \/ RestartProcess
  \/ SaveTool \/ DeleteTool \/ WriteHandler \/ SaveVersion \/ AuditReturns
  \/ ActivateVersion \/ DeleteVersion \/ Sync

VersionsSpec == VersionsInit /\ [][VersionsNext]_versionVars

-----------------------------------------------------------------------------
(* Properties.                                                             *)

\* Type invariant.
VersionsTypeOK ==
  /\ rows \in [Versions -> [source : Sources \cup {"none"}, active : BOOLEAN]]
  /\ files \in [Versions -> Bundles \cup {"none", "torn"}]
  /\ registry \in {Nothing, Plain} \cup [version : Versions, code : Sources]
  /\ auditing \subseteq [ctx : {"cached", "evicted"}, v : Versions, b : Usable]
  /\ {tool_row, evicted, failed_sync, deleted} \subseteq BOOLEAN

\* No code that failed validation, and no half-written bundle, is ever served, although an
\* upload overwrites the files of the active version before its row is saved: neither by the
\* routes nor after a restart from a process that died in the middle of an upload.
OnlyValidServed == registry \notin {Nothing, Plain} => registry.code \in Usable

\* Between two routes, whatever a tenant is served is in a store: a revoked version is not
\* served any more, and a plain tool that is served will be there after a restart.  That
\* holds until the context is evicted, or a sync is answered 500.
ServedIsBacked ==
  route = Idling /\ ~evicted /\ ~failed_sync =>
    /\ registry = Plain => tool_row
    /\ registry \notin {Nothing, Plain} => Row(registry.version)

\* "Deleted tool is not hydrated on restart."
DeletedStaysDeleted == deleted => registry = Nothing

\* Together: what a tenant is served is valid and stored.
ServedIsSound == OnlyValidServed /\ ServedIsBacked
=============================================================================
