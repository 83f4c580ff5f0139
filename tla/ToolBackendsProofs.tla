------------------------- MODULE ToolBackendsProofs -------------------------
(***************************************************************************)
(* Proofs about what executes tools, and which: the versions of a tool,    *)
(* the sandbox, and the durable queue as long as one store is open.        *)
(***************************************************************************)
EXTENDS ToolVersions, SandboxRuntime, ByocSqliteStore, ByocJobStoreProofs, FiniteSetTheorems, TLAPS

-----------------------------------------------------------------------------
(* The versions of a tool.                                                 *)

RoutePlaces ==
  {"idle", "save_tool", "delete_tool", "write_handler", "save_version", "set_active",
   "delete_version", "sync"}

RouteRecords ==
  [pc : RoutePlaces, ctx : {"cached", "evicted"}, v : Versions \cup {"none"},
   b : Sources \cup {"none"}, activate : BOOLEAN]

\* A row is there with a source, or is NoRow.
RowsTyped ==
  /\ rows \in [Versions -> [source : Sources \cup {"none"}, active : BOOLEAN]]
  /\ \A v \in Versions : rows[v] = NoRow \/ rows[v].source \in Sources

RouteTyped ==
  /\ route \in RouteRecords
  /\ route.pc \in {"write_handler", "save_version"} => route.v \in Versions /\ route.b \in Sources
  /\ auditing \subseteq [ctx : {"cached", "evicted"}, v : Versions, b : Usable]

\* Unless it was evicted, there is one context, the cached one.
ContextsKnown ==
  ~evicted => route.ctx = "cached" /\ \A u \in auditing : u.ctx = "cached"

RegistryTyped == registry \in {Nothing, Plain} \cup [version : Versions, code : Usable]

\* While a route runs, what is served is stored, or the route is about to store or to replace it.
BackedByNow ==
  /\ registry = Plain => tool_row = TRUE \/ route.pc = "save_tool"
  /\ registry \notin {Nothing, Plain} => Row(registry.version) \/ route.pc = "sync"
  /\ route.pc = "delete_tool" => registry = Nothing

VersionsIInv ==
  /\ RowsTyped /\ RouteTyped /\ ContextsKnown /\ RegistryTyped
  /\ ~evicted /\ ~failed_sync => BackedByNow

\* The marks that stand for no source are none, and a served version is told from a plain tool.
LEMMA SourcesDiffer ==
  /\ "none" \notin Sources /\ Usable \subseteq Sources
  /\ \A v \in Versions, code \in Usable : [version |-> v, code |-> code] \notin {Nothing, Plain}
<1>1. "none" \notin Sources /\ "plain" \notin Sources /\ Usable \subseteq Sources
  BY VersionsAssumption DEF Sources, Usable, Ref, BadRef
<1>2. ASSUME NEW v \in Versions, NEW code \in Usable
      PROVE  [version |-> v, code |-> code] \notin {Nothing, Plain}
  <2>1. code # "none" /\ code # "plain"
    BY <1>1
  <2>2. [version |-> v, code |-> code].code = code /\ Nothing.code = "none" /\ Plain.code = "plain"
    BY DEF Nothing, Plain
  <2> QED
    BY <2>1, <2>2
<1> QED
  BY <1>1, <1>2

\* An active version has a row.
LEMMA ActiveHasRow == \A v \in ActiveVersions : v \in Versions /\ Row(v)
BY DEF ActiveVersions, Row, NoRow

\* What the stores let be loaded is served with usable code.
LEMMA LoadedIsUsable ==
  ASSUME RowsTyped, NEW v \in ActiveVersions, Loads(v)
  PROVE  /\ DescriptorOf(v) \in [version : Versions, code : Usable]
         /\ DescriptorOf(v).version = v /\ Row(v)
         /\ DescriptorOf(v) \notin {Nothing, Plain}
<1>1. PICK code \in Usable : DescriptorOf(v) = [version |-> v, code |-> code]
  BY DEF Loads, DescriptorOf, Intact, Usable
<1>2. v \in Versions /\ Row(v)
  BY ActiveHasRow
<1> QED
  BY <1>1, <1>2, SourcesDiffer

NoRowGoes == RowsTyped' /\ \A u \in Versions : Row(u) => Row(u)'

\* Flags of rows may change, and rows may be saved: no row goes.
LEMMA RowsKept ==
  ASSUME RowsTyped
  PROVE  /\ \A v \in Versions, source \in Sources : SaveRow(v, source) => NoRowGoes
         /\ \A v : SetActive(v) => NoRowGoes
         /\ ClearActive => NoRowGoes
<1> DEFINE Row1 == [source : Sources \cup {"none"}, active : BOOLEAN]
<1>1. ASSUME NEW r \in Row1, NEW b \in BOOLEAN, r.source \in Sources
      PROVE  /\ [r EXCEPT !.active = b] \in Row1
             /\ [r EXCEPT !.active = b].source \in Sources
             /\ [r EXCEPT !.active = b] # NoRow
  <2>1. [r EXCEPT !.active = b] \in Row1 /\ [r EXCEPT !.active = b].source = r.source
    OBVIOUS
  <2>2. NoRow.source = "none"
    BY DEF NoRow
  <2> QED
    BY <1>1, <2>1, <2>2, SourcesDiffer
<1>2. NoRow \in Row1 /\ [NoRow EXCEPT !.active = FALSE] = NoRow
  <2>1. PICK r \in Row1 : r = NoRow
    BY DEF NoRow
  <2>2. PICK s \in Row1 : s = [r EXCEPT !.active = FALSE]
    OBVIOUS
  <2>3. s.source = r.source /\ s.active = FALSE
    BY <2>2
  <2>4. r.source = "none"
    BY <2>1 DEF NoRow
  <2>5. s = [source |-> s.source, active |-> s.active]
    OBVIOUS
  <2>6. s = NoRow
    BY <2>3, <2>4, <2>5 DEF NoRow
  <2> QED
    BY <2>1, <2>2, <2>6
<1>3. \A u \in Versions : rows[u] \in Row1 /\ (rows[u] = NoRow \/ rows[u].source \in Sources)
  BY DEF RowsTyped
<1>4. ASSUME NEW v \in Versions, NEW source \in Sources, SaveRow(v, source)
      PROVE  NoRowGoes
  <2>1. PICK new \in Row1 : new = [source |-> source, active |-> FALSE]
    OBVIOUS
  <2>2. new.source = source /\ new # NoRow
    BY <2>1, SourcesDiffer DEF NoRow
  <2>3. rows' = [rows EXCEPT ![v] = new]
    BY <1>4, <2>1 DEF SaveRow
  <2> QED
    BY <2>2, <2>3, <1>3 DEF NoRowGoes, RowsTyped, Row
<1>5. ASSUME NEW v, SetActive(v)
      PROVE  NoRowGoes
  <2>1. ASSUME NEW u \in Versions
        PROVE  /\ rows'[u] \in Row1 /\ (rows'[u] = NoRow \/ rows'[u].source \in Sources)
               /\ rows[u] # NoRow => rows'[u] # NoRow
    <3>1. PICK b \in BOOLEAN : b = (u = v)
      OBVIOUS
    <3>2. rows'[u] = IF Row(u) THEN [rows[u] EXCEPT !.active = b] ELSE NoRow
      BY <1>5, <3>1 DEF SetActive
    <3> QED
      BY <1>1, <1>2, <1>3, <3>2 DEF Row
  <2>2. rows' = [u \in Versions |-> rows'[u]]
    BY <1>5 DEF SetActive
  <2>3. rows' \in [Versions -> Row1]
    BY <2>1, <2>2
  <2> QED
    BY <2>1, <2>3 DEF NoRowGoes, RowsTyped, Row
<1>6. ASSUME ClearActive
      PROVE  NoRowGoes
  <2>1. ASSUME NEW u \in Versions
        PROVE  /\ rows'[u] \in Row1 /\ (rows'[u] = NoRow \/ rows'[u].source \in Sources)
               /\ rows[u] # NoRow => rows'[u] # NoRow
    <3>1. rows'[u] = [rows[u] EXCEPT !.active = FALSE]
      BY <1>6 DEF ClearActive
    <3> QED
      BY <1>1, <1>2, <1>3, <3>1
  <2>2. rows' = [u \in Versions |-> rows'[u]]
    BY <1>6 DEF ClearActive
  <2>3. rows' \in [Versions -> Row1]
    BY <2>1, <2>2
  <2> QED
    BY <2>1, <2>3 DEF NoRowGoes, RowsTyped, Row
<1> QED
  BY <1>4, <1>5, <1>6

\* No route runs.
LEMMA IdlingTyped == Idling \in RouteRecords /\ Idling.pc = "idle" /\ Idling.ctx = "cached"
BY DEF Idling, RouteRecords, RoutePlaces

\* A route starts for a version.
LEMMA RouteStarts ==
  ASSUME NEW pc \in RoutePlaces, NEW c \in {"cached", "evicted"}, NEW v \in Versions,
         route' = [Idling EXCEPT !.pc = pc, !.ctx = c, !.v = v]
  PROVE  route' \in RouteRecords /\ route'.pc = pc /\ route'.ctx = c
BY IdlingTyped DEF RouteRecords

\* What a write to the registry does.
LEMMA ServeKeeps ==
  ASSUME VersionsIInv, NEW c, NEW d,
         d \in {Nothing, Plain} \cup [version : Versions, code : Usable], Serve(c, d)
  PROVE  RegistryTyped' /\ (c = "cached" => registry' = d)
BY DEF VersionsIInv, RegistryTyped, Serve

\* Registering and unregistering a plain tool.
LEMMA PlainToolStarts ==
  ASSUME VersionsIInv, NEW c \in {"cached", "evicted"}, ~evicted => c = "cached",
         NEW pc \in {"save_tool", "delete_tool"}, NEW d \in {Nothing, Plain},
         d = IF pc = "save_tool" THEN Plain ELSE Nothing, Serve(c, d),
         route' = [Idling EXCEPT !.pc = pc, !.ctx = c],
         UNCHANGED <<rows, evicted, auditing, failed_sync>>
  PROVE  VersionsIInv'
<1>1. Nothing # Plain
  BY DEF Nothing, Plain
<1>2. route' \in RouteRecords /\ route'.pc = pc /\ route'.ctx = c
  BY IdlingTyped DEF RoutePlaces, RouteRecords
<1>3. RegistryTyped' /\ (c = "cached" => registry' = d)
  BY ServeKeeps
<1>4. RowsTyped' /\ RouteTyped' /\ ContextsKnown'
  <2>1. RowsTyped'
    BY DEF VersionsIInv, RowsTyped
  <2>2. RouteTyped'
    BY <1>2 DEF VersionsIInv, RouteTyped
  <2>3. ContextsKnown'
    BY <1>2 DEF VersionsIInv, ContextsKnown
  <2> QED
    BY <2>1, <2>2, <2>3
<1>5. ASSUME ~evicted'
      PROVE  BackedByNow'
  BY <1>1, <1>2, <1>3, <1>5 DEF BackedByNow
<1> QED
  BY <1>3, <1>4, <1>5 DEF VersionsIInv

\* register_tool and unregister_tool of a tool without versions, as whole steps.
LEMMA PlainToolKeeps ==
  ASSUME VersionsIInv, NEW c \in {"cached", "evicted"}, ~evicted => c = "cached",
         RegisterTool(c) \/ UnregisterTool(c), UNCHANGED <<evicted, auditing, failed_sync>>
  PROVE  VersionsIInv'
<1>1. CASE RegisterTool(c)
  BY <1>1, PlainToolStarts DEF RegisterTool
<1>2. CASE UnregisterTool(c)
  BY <1>2, PlainToolStarts DEF UnregisterTool
<1> QED
  BY <1>1, <1>2

\* Nothing that is served changes, nor what backs it: the route goes on to another place.
LEMMA RouteGoesOn ==
  ASSUME VersionsIInv, RowsTyped', RouteTyped', ContextsKnown',
         UNCHANGED <<registry, tool_row>>, \A u \in Versions : Row(u) => Row(u)',
         ~evicted' /\ ~failed_sync' => ~evicted /\ ~failed_sync,
         route.pc \notin {"save_tool", "sync"}, route'.pc # "delete_tool"
  PROVE  VersionsIInv'
<1>1. RegistryTyped'
  BY DEF VersionsIInv, RegistryTyped
<1>2. ASSUME ~evicted', ~failed_sync'
      PROVE  BackedByNow'
  <2>1. BackedByNow /\ RegistryTyped
    BY <1>2 DEF VersionsIInv
  <2>2. registry \notin {Nothing, Plain} => registry.version \in Versions
    BY <2>1 DEF RegistryTyped
  <2>3. registry \notin {Nothing, Plain} => Row(registry.version)
    BY <2>1 DEF BackedByNow
  <2>4. registry' \notin {Nothing, Plain} => rows'[registry'.version] # NoRow
    BY <2>2, <2>3 DEF Row
  <2>5. registry' = Plain => tool_row' = TRUE
    BY <2>1 DEF BackedByNow
  <2> QED
    BY <2>4, <2>5 DEF BackedByNow, Row
<1> QED
  BY <1>1, <1>2 DEF VersionsIInv

\* save_tool ends register_tool.
LEMMA SaveToolKeeps == VersionsIInv /\ SaveTool => VersionsIInv'
<1> SUFFICES ASSUME VersionsIInv, SaveTool
             PROVE  VersionsIInv'
  OBVIOUS
<1>1. route' = Idling /\ tool_row' = TRUE
      /\ UNCHANGED <<rows, registry, evicted, auditing, failed_sync>> /\ route.pc = "save_tool"
  BY DEF SaveTool, Respond
<1>2. RowsTyped' /\ RegistryTyped'
  BY <1>1 DEF VersionsIInv, RowsTyped, RegistryTyped
<1>3. RouteTyped' /\ ContextsKnown'
  BY <1>1, IdlingTyped DEF VersionsIInv, RouteTyped, ContextsKnown
<1>4. ~evicted /\ ~failed_sync => BackedByNow'
  BY <1>1, IdlingTyped DEF VersionsIInv, BackedByNow, Row
<1> QED
  BY <1>1, <1>2, <1>3, <1>4 DEF VersionsIInv

\* delete_tool ends unregister_tool.
LEMMA DeleteToolKeeps == VersionsIInv /\ DeleteTool => VersionsIInv'
<1> SUFFICES ASSUME VersionsIInv, DeleteTool
             PROVE  VersionsIInv'
  OBVIOUS
<1>1. route' = Idling /\ UNCHANGED <<rows, registry, evicted, auditing, failed_sync>>
      /\ route.pc = "delete_tool"
  BY DEF DeleteTool, Respond
<1>2. RowsTyped' /\ RegistryTyped'
  BY <1>1 DEF VersionsIInv, RowsTyped, RegistryTyped
<1>3. RouteTyped' /\ ContextsKnown'
  BY <1>1, IdlingTyped DEF VersionsIInv, RouteTyped, ContextsKnown
<1>4. Nothing # Plain
  BY DEF Nothing, Plain
<1>5. ~evicted /\ ~failed_sync => BackedByNow'
  BY <1>1, <1>4, IdlingTyped DEF VersionsIInv, BackedByNow, Row
<1> QED
  BY <1>1, <1>2, <1>3, <1>5 DEF VersionsIInv

\* An upload starts.
LEMMA UploadKeeps ==
  ASSUME VersionsIInv, NEW c \in {"cached", "evicted"}, ~evicted => c = "cached", route = Idling,
         NEW v \in Versions, NEW b \in Sources, NEW activate \in BOOLEAN,
         Upload(c, v, b, activate), UNCHANGED <<evicted, auditing, failed_sync>>
  PROVE  VersionsIInv'
<1>1. PICK pc \in {"save_version", "write_handler"} :
        route' = [pc |-> pc, ctx |-> c, v |-> v, b |-> b, activate |-> activate]
  BY DEF Upload
<1>2. UNCHANGED <<rows, tool_row, registry>>
  BY DEF Upload
<1>3. route' \in RouteRecords /\ route'.pc = pc /\ route'.ctx = c /\ route'.v = v /\ route'.b = b
  BY <1>1 DEF RouteRecords, RoutePlaces
<1>4. RowsTyped' /\ \A u \in Versions : Row(u) => Row(u)'
  BY <1>2 DEF VersionsIInv, RowsTyped, Row
<1>5. RouteTyped' /\ ContextsKnown'
  BY <1>3 DEF VersionsIInv, RouteTyped, ContextsKnown
<1> QED
  BY <1>2, <1>3, <1>4, <1>5, IdlingTyped, RouteGoesOn

\* The handler of the upload is written.
LEMMA WriteHandlerKeeps == VersionsIInv /\ WriteHandler => VersionsIInv'
<1> SUFFICES ASSUME VersionsIInv, WriteHandler
             PROVE  VersionsIInv'
  OBVIOUS
<1>1. /\ route.pc = "write_handler" /\ route' = [route EXCEPT !.pc = "save_version"]
      /\ UNCHANGED <<rows, tool_row, registry, evicted, auditing, failed_sync>>
  BY DEF WriteHandler, Continue
<1>2. /\ route' \in RouteRecords /\ route'.pc = "save_version" /\ route'.ctx = route.ctx
      /\ route'.v = route.v /\ route'.b = route.b
  BY <1>1 DEF VersionsIInv, RouteTyped, RouteRecords, RoutePlaces
<1>3. RowsTyped' /\ \A u \in Versions : Row(u) => Row(u)'
  BY <1>1 DEF VersionsIInv, RowsTyped, Row
<1>4. RouteTyped' /\ ContextsKnown'
  BY <1>1, <1>2 DEF VersionsIInv, RouteTyped, ContextsKnown
<1> QED
  BY <1>1, <1>2, <1>3, <1>4, RouteGoesOn

\* The row of the upload is saved, and the upload waits for the audit store or is answered.
LEMMA SaveVersionKeeps == VersionsIInv /\ SaveVersion => VersionsIInv'
<1> SUFFICES ASSUME VersionsIInv, SaveVersion
             PROVE  VersionsIInv'
  OBVIOUS
<1>1. /\ route.pc = "save_version" /\ route' = Idling /\ SaveRow(route.v, route.b)
      /\ UNCHANGED <<tool_row, registry, evicted, failed_sync>>
  BY DEF SaveVersion, Respond
<1>2. route.v \in Versions /\ route.b \in Sources
  BY <1>1 DEF VersionsIInv, RouteTyped
<1>3. RowsTyped' /\ \A u \in Versions : Row(u) => Row(u)'
  BY <1>1, <1>2, RowsKept DEF VersionsIInv, NoRowGoes
<1>4. ASSUME NEW u \in auditing'
      PROVE  /\ u \in [ctx : {"cached", "evicted"}, v : Versions, b : Usable]
             /\ ~evicted => u.ctx = "cached"
  <2>1. CASE u \in auditing
    BY <2>1 DEF VersionsIInv, RouteTyped, ContextsKnown
  <2>2. CASE u \notin auditing
    <3>1. u = [ctx |-> route.ctx, v |-> route.v, b |-> route.b] /\ route.b \in Usable
      BY <1>4, <2>2 DEF SaveVersion
    <3>2. route.ctx \in {"cached", "evicted"}
      BY DEF VersionsIInv, RouteTyped, RouteRecords
    <3> QED
      BY <1>2, <3>1, <3>2 DEF VersionsIInv, ContextsKnown
  <2> QED
    BY <2>1, <2>2
<1>5. RouteTyped' /\ ContextsKnown'
  BY <1>1, <1>4, IdlingTyped DEF RouteTyped, ContextsKnown
<1> QED
  BY <1>1, <1>3, <1>5, IdlingTyped, RouteGoesOn

\* An upload comes back from the audit store.
LEMMA AuditReturnsKeeps == VersionsIInv /\ AuditReturns => VersionsIInv'
<1> SUFFICES ASSUME VersionsIInv, AuditReturns
             PROVE  VersionsIInv'
  OBVIOUS
<1>1. route = Idling /\ UNCHANGED <<rows, tool_row, registry, evicted, failed_sync>>
  BY DEF AuditReturns
<1>2. PICK u \in auditing :
        /\ auditing' = auditing \ {u}
        /\ \/ route' = [Idling EXCEPT !.pc = "set_active", !.ctx = u.ctx, !.v = u.v]
           \/ route' = route
  BY DEF AuditReturns
<1>3. u.ctx \in {"cached", "evicted"} /\ u.v \in Versions /\ (~evicted => u.ctx = "cached")
  BY DEF VersionsIInv, RouteTyped, ContextsKnown
<1>4. /\ route' \in RouteRecords /\ route'.pc \in {"idle", "set_active"}
      /\ ~evicted => route'.ctx = "cached"
  <2>1. CASE route' = route
    BY <1>1, <2>1, IdlingTyped
  <2>2. CASE route' = [Idling EXCEPT !.pc = "set_active", !.ctx = u.ctx, !.v = u.v]
    <3>1. PICK pc \in RoutePlaces : pc = "set_active"
      BY DEF RoutePlaces
    <3> QED
      BY <1>3, <2>2, <3>1, RouteStarts
  <2> QED
    BY <1>2, <2>1, <2>2
<1>5. RowsTyped' /\ \A w \in Versions : Row(w) => Row(w)'
  BY <1>1 DEF VersionsIInv, RowsTyped, Row
<1>6. RouteTyped' /\ ContextsKnown'
  BY <1>1, <1>2, <1>4 DEF VersionsIInv, RouteTyped, ContextsKnown
<1> QED
  BY <1>1, <1>4, <1>5, <1>6, IdlingTyped, RouteGoesOn

\* set_active_tool_version is followed by the sync.
LEMMA ActivateVersionKeeps == VersionsIInv /\ ActivateVersion => VersionsIInv'
<1> SUFFICES ASSUME VersionsIInv, ActivateVersion
             PROVE  VersionsIInv'
  OBVIOUS
<1>1. /\ route.pc = "set_active" /\ route' = [route EXCEPT !.pc = "sync"] /\ SetActive(route.v)
      /\ UNCHANGED <<tool_row, registry, evicted, auditing, failed_sync>>
  BY DEF ActivateVersion, Continue
<1>2. route' \in RouteRecords /\ route'.pc = "sync" /\ route'.ctx = route.ctx
  BY <1>1 DEF VersionsIInv, RouteTyped, RouteRecords, RoutePlaces
<1>3. RowsTyped' /\ \A u \in Versions : Row(u) => Row(u)'
  BY <1>1, RowsKept DEF VersionsIInv, NoRowGoes
<1>4. RouteTyped' /\ ContextsKnown'
  BY <1>1, <1>2 DEF VersionsIInv, RouteTyped, ContextsKnown
<1> QED
  BY <1>1, <1>2, <1>3, <1>4, RouteGoesOn

\* Rollback, deactivation and revocation start.
LEMMA GovernanceKeeps ==
  ASSUME VersionsIInv, NEW c \in {"cached", "evicted"}, ~evicted => c = "cached", route = Idling,
         NEW v \in Versions, Rollback(c, v) \/ Deactivate(c, v) \/ Revoke(c, v),
         UNCHANGED <<evicted, auditing, failed_sync>>
  PROVE  VersionsIInv'
<1>1. UNCHANGED <<tool_row, registry>>
  BY DEF Rollback, Deactivate, Revoke
<1>2. PICK pc \in {"set_active", "sync", "delete_version"} :
        route' = [Idling EXCEPT !.pc = pc, !.ctx = c, !.v = v]
  BY DEF Rollback, Deactivate, Revoke
<1>3. rows' = rows \/ ClearActive
  BY DEF Rollback, Deactivate, Revoke
<1>4. pc \in RoutePlaces
  BY DEF RoutePlaces
<1>5. route' \in RouteRecords /\ route'.pc = pc /\ route'.ctx = c
  BY <1>2, <1>4, RouteStarts
<1>6. RowsTyped' /\ \A u \in Versions : Row(u) => Row(u)'
  <2>1. CASE rows' = rows
    BY <2>1 DEF VersionsIInv, RowsTyped, Row
  <2>2. CASE ClearActive
    BY <2>2, RowsKept DEF VersionsIInv, NoRowGoes
  <2> QED
    BY <1>3, <2>1, <2>2
<1>7. RouteTyped' /\ ContextsKnown'
  BY <1>5 DEF VersionsIInv, RouteTyped, ContextsKnown
<1> QED
  BY <1>1, <1>5, <1>6, <1>7, IdlingTyped, RouteGoesOn

\* The row of a revoked version goes, and the sync is next.
LEMMA DeleteVersionKeeps == VersionsIInv /\ DeleteVersion => VersionsIInv'
<1> SUFFICES ASSUME VersionsIInv, DeleteVersion
             PROVE  VersionsIInv'
  OBVIOUS
<1>1. /\ route.pc = "delete_version" /\ route' = [route EXCEPT !.pc = "sync"]
      /\ rows' = [rows EXCEPT ![route.v] = NoRow]
      /\ UNCHANGED <<tool_row, registry, evicted, auditing, failed_sync>>
  BY DEF DeleteVersion, Continue, DeleteRow
<1>2. route' \in RouteRecords /\ route'.pc = "sync" /\ route'.ctx = route.ctx
  BY <1>1 DEF VersionsIInv, RouteTyped, RouteRecords, RoutePlaces
<1>3. RowsTyped'
  <2>1. PICK gone \in [source : Sources \cup {"none"}, active : BOOLEAN] : gone = NoRow
    BY DEF NoRow
  <2>2. rows' = [rows EXCEPT ![route.v] = gone]
    BY <1>1, <2>1
  <2> QED
    BY <2>1, <2>2 DEF VersionsIInv, RowsTyped
<1>4. RouteTyped' /\ ContextsKnown' /\ RegistryTyped'
  BY <1>1, <1>2 DEF VersionsIInv, RouteTyped, ContextsKnown, RegistryTyped
<1>5. ~evicted /\ ~failed_sync => BackedByNow'
  BY <1>1, <1>2 DEF VersionsIInv, BackedByNow
<1> QED
  BY <1>1, <1>3, <1>4, <1>5 DEF VersionsIInv

\* The sync serves the active version, or nothing, or fails.
LEMMA SyncKeeps == VersionsIInv /\ Sync => VersionsIInv'
<1> SUFFICES ASSUME VersionsIInv, Sync
             PROVE  VersionsIInv'
  OBVIOUS
<1>1. route' = Idling /\ UNCHANGED <<rows, tool_row, evicted, auditing>>
  BY DEF Sync, Respond
<1>2. RowsTyped'
  BY <1>1 DEF VersionsIInv, RowsTyped
<1>3. RouteTyped' /\ ContextsKnown'
  BY <1>1, IdlingTyped DEF VersionsIInv, RouteTyped, ContextsKnown
<1>4. ~evicted => route.ctx = "cached"
  BY DEF VersionsIInv, ContextsKnown
<1>5. Nothing # Plain
  BY DEF Nothing, Plain
<1>6. RegistryTyped' /\ (~evicted /\ ~failed_sync' => BackedByNow')
  <2>1. CASE Serve(route.ctx, Nothing)
    <3>1. RegistryTyped' /\ (~evicted => registry' = Nothing)
      BY <1>4, <2>1, ServeKeeps
    <3> QED
      BY <1>1, <1>5, <3>1, IdlingTyped DEF BackedByNow
  <2>2. ASSUME NEW v \in ActiveVersions, Loads(v), Serve(route.ctx, DescriptorOf(v))
        PROVE  RegistryTyped' /\ (~evicted /\ ~failed_sync' => BackedByNow')
    <3>1. /\ DescriptorOf(v) \in [version : Versions, code : Usable]
          /\ DescriptorOf(v).version = v /\ Row(v) /\ DescriptorOf(v) \notin {Nothing, Plain}
      BY <2>2, LoadedIsUsable DEF VersionsIInv
    <3>2. PICK d \in [version : Versions, code : Usable] : d = DescriptorOf(v)
      BY <3>1
    <3>3. RegistryTyped' /\ (~evicted => registry' = d)
      BY <1>4, <2>2, <3>2, ServeKeeps
    <3>4. rows'[v] # NoRow
      BY <1>1, <3>1 DEF Row
    <3> QED
      BY <1>1, <3>1, <3>2, <3>3, <3>4, IdlingTyped DEF BackedByNow, Row
  <2>3. CASE registry' = registry /\ failed_sync' = TRUE
    BY <2>3 DEF VersionsIInv, RegistryTyped
  <2>4. \/ Serve(route.ctx, Nothing)
        \/ registry' = registry /\ failed_sync' = TRUE
        \/ \E v \in ActiveVersions : Loads(v) /\ Serve(route.ctx, DescriptorOf(v))
    BY DEF Sync
  <2> QED
    BY <2>1, <2>2, <2>3, <2>4
<1> QED
  BY <1>1, <1>2, <1>3, <1>6 DEF VersionsIInv

\* The context is evicted.
LEMMA EvictContextKeeps == VersionsIInv /\ EvictContext => VersionsIInv'
<1> SUFFICES ASSUME VersionsIInv, EvictContext
             PROVE  VersionsIInv'
  OBVIOUS
<1>1. /\ UNCHANGED <<rows, route>> /\ evicted' = TRUE /\ registry' = Nothing
      /\ auditing' = {[u EXCEPT !.ctx = "evicted"] : u \in auditing}
  BY DEF EvictContext
<1>2. ASSUME NEW u \in auditing
      PROVE  [u EXCEPT !.ctx = "evicted"] \in [ctx : {"cached", "evicted"}, v : Versions, b : Usable]
  BY DEF VersionsIInv, RouteTyped
<1>3. RowsTyped' /\ RouteTyped' /\ ContextsKnown' /\ RegistryTyped'
  BY <1>1, <1>2 DEF VersionsIInv, RowsTyped, RouteTyped, ContextsKnown, RegistryTyped
<1> QED
  BY <1>1, <1>3 DEF VersionsIInv

\* A restart serves what the stores have.
LEMMA RestartProcessKeeps == VersionsIInv /\ RestartProcess => VersionsIInv'
<1> SUFFICES ASSUME VersionsIInv, RestartProcess
             PROVE  VersionsIInv'
  OBVIOUS
<1>1. route' = Idling /\ auditing' = {} /\ UNCHANGED <<rows, tool_row>> /\ registry' = Hydrated
  BY DEF RestartProcess, Respond
<1>2. RowsTyped' /\ RouteTyped' /\ ContextsKnown'
  BY <1>1, IdlingTyped DEF VersionsIInv, RowsTyped, RouteTyped, ContextsKnown
<1>3. Nothing # Plain
  BY DEF Nothing, Plain
<1>4. RegistryTyped' /\ BackedByNow'
  <2>1. CASE \E v \in ActiveVersions : Loads(v)
    <3>1. PICK v \in ActiveVersions : Loads(v) /\ Hydrated = DescriptorOf(v)
      BY <2>1 DEF Hydrated
    <3>2. /\ DescriptorOf(v) \in [version : Versions, code : Usable]
          /\ DescriptorOf(v).version = v /\ Row(v) /\ DescriptorOf(v) \notin {Nothing, Plain}
      BY <3>1, LoadedIsUsable DEF VersionsIInv
    <3>3. PICK d \in [version : Versions, code : Usable] : d = DescriptorOf(v)
      BY <3>2
    <3>4. rows'[v] # NoRow
      BY <1>1, <3>2 DEF Row
    <3> QED
      BY <1>1, <3>1, <3>2, <3>3, <3>4, IdlingTyped DEF BackedByNow, RegistryTyped, Row
  <2>2. CASE ~ \E v \in ActiveVersions : Loads(v)
    <3>1. registry' = IF tool_row THEN Plain ELSE Nothing
      BY <1>1, <2>2 DEF Hydrated
    <3> QED
      BY <1>1, <1>3, <3>1, IdlingTyped DEF BackedByNow, RegistryTyped
  <2> QED
    BY <2>1, <2>2
<1> QED
  BY <1>2, <1>4 DEF VersionsIInv

\* ServedIsSound, for any versions and bundles: whatever uploads, activations and revocations
\* overlap, and wherever the process dies, what a tenant is served is valid and stored.
THEOREM ServedVersionsAreSound == VersionsSpec => []ServedIsSound
<1>1. VersionsInit => VersionsIInv
  <2> SUFFICES ASSUME VersionsInit
               PROVE  VersionsIInv
    OBVIOUS
  <2>1. rows = [v \in Versions |-> NoRow] /\ registry = Nothing /\ route = Idling /\ auditing = {}
    BY DEF VersionsInit
  <2>2. PICK gone \in [source : Sources \cup {"none"}, active : BOOLEAN] : gone = NoRow
    BY DEF NoRow
  <2>3. RowsTyped
    BY <2>1, <2>2 DEF RowsTyped
  <2>4. RouteTyped /\ ContextsKnown
    BY <2>1, IdlingTyped DEF RouteTyped, ContextsKnown
  <2>5. Nothing # Plain
    BY DEF Nothing, Plain
  <2>6. RegistryTyped /\ BackedByNow
    BY <2>1, <2>5, IdlingTyped DEF RegistryTyped, BackedByNow
  <2> QED
    BY <2>3, <2>4, <2>6 DEF VersionsIInv
<1>2. VersionsIInv /\ [VersionsNext]_versionVars => VersionsIInv'
  <2> SUFFICES ASSUME VersionsIInv, [VersionsNext]_versionVars
               PROVE  VersionsIInv'
    OBVIOUS
  <2>1. CASE BeginRoute
    <3>1. PICK c \in {"cached"} \cup (IF evicted THEN {"evicted"} ELSE {}) :
            \/ RegisterTool(c) \/ UnregisterTool(c)
            \/ \E v \in Versions, b \in Sources, activate \in BOOLEAN : Upload(c, v, b, activate)
            \/ \E v \in Versions : Rollback(c, v) \/ Deactivate(c, v) \/ Revoke(c, v)
      BY <2>1 DEF BeginRoute
    <3>2. /\ c \in {"cached", "evicted"} /\ (~evicted => c = "cached")
          /\ route = Idling /\ UNCHANGED <<evicted, auditing, failed_sync>>
      BY <2>1 DEF BeginRoute
    <3> QED
      BY <3>1, <3>2, PlainToolKeeps, UploadKeeps, GovernanceKeeps
  <2>2. CASE UNCHANGED versionVars
    <3>1. RowsTyped' /\ RouteTyped' /\ ContextsKnown' /\ RegistryTyped'
      BY <2>2 DEF VersionsIInv, RowsTyped, RouteTyped, ContextsKnown, RegistryTyped, versionVars
    <3>2. BackedByNow' = BackedByNow /\ evicted' = evicted /\ failed_sync' = failed_sync
      BY <2>2 DEF BackedByNow, Row, versionVars
    <3> QED
      BY <3>1, <3>2 DEF VersionsIInv
  <2> QED
    BY <2>1, <2>2, SaveToolKeeps, DeleteToolKeeps, WriteHandlerKeeps, SaveVersionKeeps,
       AuditReturnsKeeps, ActivateVersionKeeps, DeleteVersionKeeps, SyncKeeps, EvictContextKeeps,
       RestartProcessKeeps DEF VersionsNext
<1>3. VersionsIInv => ServedIsSound
  <2> SUFFICES ASSUME VersionsIInv
               PROVE  ServedIsSound
    OBVIOUS
  <2>1. OnlyValidServed
    BY DEF VersionsIInv, RegistryTyped, OnlyValidServed
  <2>2. ServedIsBacked
    BY IdlingTyped DEF VersionsIInv, BackedByNow, ServedIsBacked
  <2> QED
    BY <2>1, <2>2 DEF ServedIsSound
<1> QED
  BY <1>1, <1>2, <1>3, PTL DEF VersionsSpec

-----------------------------------------------------------------------------
(* The sandbox.                                                            *)

InvRecords ==
  [at : {"new", "dispatch", "acquired", "waiting", "timing_out", "returned"},
   executor : Nat,
   result : {"none", "success", "blocked", "error", "timeout", "cancelled"}]

HandlerStates ==
  {"none", "queued", "running", "value", "value_unread", "raised", "raised_timeout", "cancelled",
   "killed"}

\* A call that stands as r, with its future or child as h: no future before it is submitted, no
\* result before it returns, and what a returned call may leave behind.
CallStands(r, h) ==
  /\ r.at \in {"new", "dispatch", "acquired"} => h = "none"
  /\ r.at # "returned" => r.result = "none"
  /\ r.at = "timing_out" => isolation = "thread"
  /\ h = "value_unread" => isolation = "process"
  /\ r.at = "returned" => h \notin {"queued", "value_unread"}
  /\ r.at = "returned" /\ h = "running" => r.result = "timeout" /\ isolation = "thread"

CallsStand ==
  /\ inv \in [Invocations -> InvRecords] /\ handler \in [Invocations -> HandlerStates]
  /\ \A i \in Invocations : CallStands(inv[i], handler[i])

CancelledCalls == {i \in Invocations : inv[i].result = "cancelled"}

\* The tokens add up; the sets that are counted are finite.
TokensAddUp ==
  /\ IsFiniteSet(CancelledCalls) /\ IsFiniteSet(pending_cancellations)
  /\ cancel_requested \in Nat /\ cancel_cleared \in Nat
  /\ Cardinality(CancelledCalls) + Cardinality(pending_cancellations) + cancel_cleared
       = cancel_requested

SandboxIInv ==
  /\ created \in Nat /\ workers \in [PoolTenants -> Nat]
  /\ CallsStand /\ TokensAddUp

\* A step that moves one call only, and leaves the tokens alone.
LEMMA OneCallMoves ==
  ASSUME SandboxIInv, NEW i \in Invocations, NEW r \in InvRecords, NEW h \in HandlerStates,
         CallStands(r, h), inv' = [inv EXCEPT ![i] = r], handler' = [handler EXCEPT ![i] = h],
         r.result # "cancelled", inv[i].result # "cancelled",
         UNCHANGED <<isolation, tokenVars>>,
         created' \in Nat, workers' \in [PoolTenants -> Nat]
  PROVE  SandboxIInv'
<1>1. CallsStand'
  BY DEF SandboxIInv, CallsStand, CallStands
<1>2. CancelledCalls' = CancelledCalls
  BY DEF SandboxIInv, CallsStand, CancelledCalls
<1>3. TokensAddUp'
  BY <1>2 DEF SandboxIInv, TokensAddUp, tokenVars
<1> QED
  BY <1>1, <1>3 DEF SandboxIInv

\* Futures that nobody has taken yet are cancelled, and perhaps a call has its worker.
LEMMA FuturesAreCancelled ==
  ASSUME SandboxIInv, NEW es, handler' = FuturesAfterShutdown(es),
         \/ inv' = inv
         \/ \E i \in Invocations, e \in Nat :
              /\ inv[i].at = "dispatch"
              /\ inv' = [inv EXCEPT ![i].at = "acquired", ![i].executor = e],
         UNCHANGED <<isolation, tokenVars>>, created' \in Nat, workers' \in [PoolTenants -> Nat]
  PROVE  SandboxIInv'
<1>1. ASSUME NEW i \in Invocations
      PROVE  /\ \/ handler'[i] = "cancelled" /\ handler[i] = "queued"
                \/ handler'[i] = handler[i]
             /\ handler'[i] \in HandlerStates
  BY DEF FuturesAfterShutdown, SandboxIInv, CallsStand, HandlerStates
<1>2. handler' = [i \in Invocations |-> handler'[i]]
  BY DEF FuturesAfterShutdown
<1>3. handler' \in [Invocations -> HandlerStates]
  BY <1>1, <1>2
<1> DEFINE Moved(i) == /\ inv'[i].result = inv[i].result
                       /\ \/ inv'[i].at = inv[i].at
                          \/ inv[i].at = "dispatch" /\ inv'[i].at = "acquired"
<1>4. inv' \in [Invocations -> InvRecords] /\ \A i \in Invocations : Moved(i)
  <2>1. CASE inv' = inv
    BY <2>1 DEF SandboxIInv, CallsStand
  <2>2. ASSUME NEW i \in Invocations, NEW e \in Nat, inv[i].at = "dispatch",
               inv' = [inv EXCEPT ![i].at = "acquired", ![i].executor = e]
        PROVE  inv' \in [Invocations -> InvRecords] /\ \A j \in Invocations : Moved(j)
    <3>1. PICK old \in InvRecords : old = inv[i]
      BY DEF SandboxIInv, CallsStand
    <3>2. PICK new \in InvRecords : new = [old EXCEPT !.at = "acquired", !.executor = e]
      BY DEF InvRecords
    <3>3. new.at = "acquired" /\ new.result = old.result
      BY <3>2 DEF InvRecords
    <3>4. inv' = [inv EXCEPT ![i] = new]
      BY <2>2, <3>1, <3>2 DEF SandboxIInv, CallsStand
    <3> QED
      BY <2>2, <3>1, <3>3, <3>4 DEF SandboxIInv, CallsStand
  <2> QED
    BY <2>1, <2>2
<1>5. CallsStand'
  <2>1. ASSUME NEW i \in Invocations
        PROVE  CallStands(inv[i], handler[i])'
    BY <1>1, <1>4 DEF SandboxIInv, CallsStand, CallStands
  <2> QED
    BY <1>3, <1>4, <2>1 DEF CallsStand
<1>6. CancelledCalls' = CancelledCalls
  BY <1>4 DEF CancelledCalls
<1>7. TokensAddUp'
  BY <1>6 DEF SandboxIInv, TokensAddUp, tokenVars
<1> QED
  BY <1>5, <1>7 DEF SandboxIInv

\* The records of a call that goes to another place, or returns.
LEMMA CallMoves ==
  ASSUME SandboxIInv, NEW i \in Invocations
  PROVE  /\ \A place \in {"dispatch", "waiting", "timing_out"} : At(i, place) =>
              \E r \in InvRecords : /\ inv' = [inv EXCEPT ![i] = r] /\ r.at = place
                                    /\ r.result = inv[i].result
         /\ \A result \in {"success", "blocked", "error", "timeout", "cancelled"} :
              Return(i, result) =>
                \E r \in InvRecords : /\ inv' = [inv EXCEPT ![i] = r] /\ r.at = "returned"
                                      /\ r.result = result
<1>1. PICK old \in InvRecords : old = inv[i]
  BY DEF SandboxIInv, CallsStand
<1>2. ASSUME NEW place \in {"dispatch", "waiting", "timing_out"}, At(i, place)
      PROVE  \E r \in InvRecords : /\ inv' = [inv EXCEPT ![i] = r] /\ r.at = place
                                   /\ r.result = inv[i].result
  <2>1. PICK r \in InvRecords : r = [old EXCEPT !.at = place]
    BY DEF InvRecords
  <2>2. r.at = place /\ r.result = old.result
    BY <2>1 DEF InvRecords
  <2>3. inv' = [inv EXCEPT ![i] = r]
    BY <1>1, <1>2, <2>1 DEF At
  <2> QED
    BY <1>1, <2>2, <2>3
<1>3. ASSUME NEW result \in {"success", "blocked", "error", "timeout", "cancelled"},
             Return(i, result)
      PROVE  \E r \in InvRecords : /\ inv' = [inv EXCEPT ![i] = r] /\ r.at = "returned"
                                   /\ r.result = result
  <2>1. PICK r \in InvRecords : r = [old EXCEPT !.at = "returned", !.result = result]
    BY DEF InvRecords
  <2>2. r.at = "returned" /\ r.result = result
    BY <2>1 DEF InvRecords
  <2>3. inv' = [inv EXCEPT ![i] = r]
    BY <1>1, <1>3, <2>1 DEF Return
  <2> QED
    BY <2>2, <2>3
<1> QED
  BY <1>2, <1>3

\* Where execute stands and what its future may be, before a step of it.
LEMMA CallStandsNow ==
  ASSUME SandboxIInv, NEW i \in Invocations
  PROVE  /\ CallStands(inv[i], handler[i]) /\ inv[i] \in InvRecords /\ handler[i] \in HandlerStates
         /\ created \in Nat /\ workers \in [PoolTenants -> Nat]
         /\ handler = [handler EXCEPT ![i] = handler[i]] /\ inv = [inv EXCEPT ![i] = inv[i]]
BY DEF SandboxIInv, CallsStand

\* A token is consumed by the call that it cancels.
LEMMA TokenCancels ==
  ASSUME SandboxIInv, NEW i \in Invocations, inv[i].at = "new",
         CallId[i] \in pending_cancellations,
         pending_cancellations' = pending_cancellations \ {CallId[i]},
         Return(i, "cancelled"),
         UNCHANGED <<isolation, poolVars, handler, cancel_requested, cancel_cleared>>
  PROVE  SandboxIInv'
<1>1. PICK r \in InvRecords : inv' = [inv EXCEPT ![i] = r] /\ r.at = "returned"
                              /\ r.result = "cancelled"
  BY CallMoves
<1>2. inv[i].result = "none" /\ handler[i] = "none"
  BY CallStandsNow DEF CallStands
<1>3. CallsStand'
  <2>1. inv' \in [Invocations -> InvRecords] /\ handler' \in [Invocations -> HandlerStates]
    BY <1>1 DEF SandboxIInv, CallsStand
  <2>2. ASSUME NEW j \in Invocations
        PROVE  CallStands(inv[j], handler[j])'
    BY <1>1, <1>2 DEF SandboxIInv, CallsStand, CallStands
  <2> QED
    BY <2>1, <2>2 DEF CallsStand
<1>4. CancelledCalls' = CancelledCalls \cup {i} /\ i \notin CancelledCalls
  BY <1>1, <1>2 DEF CancelledCalls, SandboxIInv, CallsStand
<1>5. IsFiniteSet(CancelledCalls) /\ IsFiniteSet(pending_cancellations)
  BY DEF SandboxIInv, TokensAddUp
<1>6. /\ IsFiniteSet(CancelledCalls')
      /\ Cardinality(CancelledCalls') = Cardinality(CancelledCalls) + 1
  BY <1>4, <1>5, FS_AddElement
<1>7. /\ IsFiniteSet(pending_cancellations')
      /\ Cardinality(pending_cancellations') = Cardinality(pending_cancellations) - 1
  BY <1>5, FS_RemoveElement
<1>8. Cardinality(CancelledCalls) \in Nat /\ Cardinality(pending_cancellations) \in Nat
  BY <1>5, FS_CardinalityType
<1>9. TokensAddUp'
  BY <1>6, <1>7, <1>8 DEF SandboxIInv, TokensAddUp
<1> QED
  BY <1>3, <1>9 DEF SandboxIInv, poolVars

\* The start of execute.
LEMMA StartExecuteKeeps ==
  ASSUME SandboxIInv, NEW i \in Invocations, StartExecute(i)
  PROVE  SandboxIInv'
<1>1. CASE CallId[i] \in pending_cancellations
  BY <1>1, TokenCancels DEF StartExecute, ConsumedToken
<1>2. CASE CallId[i] \notin pending_cancellations
  <2>1. At(i, "dispatch") \/ Return(i, "blocked")
    BY <1>2 DEF StartExecute, BlockedForResources
  <2>2. PICK r \in InvRecords : /\ inv' = [inv EXCEPT ![i] = r]
                                /\ \/ r.at = "dispatch" /\ r.result = inv[i].result
                                   \/ r.at = "returned" /\ r.result = "blocked"
    BY <2>1, CallMoves
  <2>3. inv[i].at = "new" /\ UNCHANGED <<isolation, poolVars, handler, tokenVars>>
    BY <1>2 DEF StartExecute, tokenVars
  <2>4. handler[i] = "none" /\ inv[i].result = "none"
    BY <2>3, CallStandsNow DEF CallStands
  <2>5. CallStands(r, handler[i])
    BY <2>2, <2>4 DEF CallStands
  <2> QED
    BY <2>2, <2>3, <2>4, <2>5, CallStandsNow, OneCallMoves DEF poolVars
<1> QED
  BY <1>1, <1>2

\* The work is submitted, or the executor is shut already.
LEMMA SubmitKeeps ==
  ASSUME SandboxIInv, NEW i \in Invocations, Submit(i)
  PROVE  SandboxIInv'
<1>1. inv[i].at = "acquired" /\ UNCHANGED <<isolation, tokenVars, created, workers>>
  BY DEF Submit
<1>2. handler[i] = "none" /\ inv[i].result = "none"
  BY <1>1, CallStandsNow DEF CallStands
<1>3. CASE Return(i, "error") /\ handler' = handler
  <2>1. PICK r \in InvRecords : inv' = [inv EXCEPT ![i] = r] /\ r.at = "returned"
                                /\ r.result = "error"
    BY <1>3, CallMoves
  <2>2. CallStands(r, handler[i])
    BY <1>2, <2>1 DEF CallStands
  <2> QED
    BY <1>1, <1>2, <1>3, <2>1, <2>2, CallStandsNow, OneCallMoves
<1>4. CASE At(i, "waiting") /\ handler' = [handler EXCEPT ![i] = "queued"]
  <2>1. PICK r \in InvRecords : inv' = [inv EXCEPT ![i] = r] /\ r.at = "waiting"
                                /\ r.result = inv[i].result
    BY <1>4, CallMoves
  <2>2. PICK h \in HandlerStates : h = "queued"
    BY DEF HandlerStates
  <2>3. CallStands(r, h)
    BY <1>2, <2>1, <2>2 DEF CallStands
  <2> QED
    BY <1>1, <1>2, <1>4, <2>1, <2>2, <2>3, CallStandsNow, OneCallMoves
<1> QED
  BY <1>3, <1>4 DEF Submit

\* The handler's state changes, and no call moves.
LEMMA HandlerMoves ==
  ASSUME SandboxIInv, NEW i \in Invocations, NEW h \in HandlerStates,
         handler' = [handler EXCEPT ![i] = h], inv' = inv,
         UNCHANGED <<isolation, tokenVars, created, workers>>,
         \/ handler[i] = "queued" /\ h = "running"
         \/ handler[i] = "running" /\ h \in {"value", "raised", "raised_timeout"}
         \/ handler[i] = "running" /\ h = "value_unread" /\ isolation = "process"
  PROVE  SandboxIInv'
<1>1. CallStands(inv[i], h)
  BY CallStandsNow DEF CallStands
<1>2. CallsStand'
  <2>1. inv' \in [Invocations -> InvRecords] /\ handler' \in [Invocations -> HandlerStates]
    BY DEF SandboxIInv, CallsStand
  <2>2. ASSUME NEW j \in Invocations
        PROVE  CallStands(inv[j], handler[j])'
    BY <1>1 DEF SandboxIInv, CallsStand, CallStands
  <2> QED
    BY <2>1, <2>2 DEF CallsStand
<1>3. TokensAddUp'
  BY DEF SandboxIInv, TokensAddUp, CancelledCalls, tokenVars
<1> QED
  BY <1>2, <1>3 DEF SandboxIInv

\* Nothing moves that a call or the tokens are told by.
LEMMA SandboxUntouched ==
  ASSUME SandboxIInv, UNCHANGED <<isolation, inv, handler, tokenVars, created, workers>>
  PROVE  SandboxIInv'
<1>1. CallsStand'
  BY DEF SandboxIInv, CallsStand, CallStands
<1>2. TokensAddUp'
  BY DEF SandboxIInv, TokensAddUp, CancelledCalls, tokenVars
<1> QED
  BY <1>1, <1>2 DEF SandboxIInv

\* A thread takes the next work item.
LEMMA TakeWorkKeeps ==
  ASSUME SandboxIInv, NEW e \in Executors, TakeWork(e)
  PROVE  SandboxIInv'
<1>1. PICK i : i = Head(work_queue[e])
  OBVIOUS
<1>2. /\ handler' = IF handler[i] = "queued" THEN [handler EXCEPT ![i] = "running"] ELSE handler
      /\ UNCHANGED <<isolation, inv, tokenVars, created, workers>>
  BY <1>1 DEF TakeWork
<1>3. CASE handler' = handler
  BY <1>2, <1>3, SandboxUntouched
<1>4. CASE handler' # handler
  <2>1. i \in Invocations /\ handler[i] = "queued" /\ handler' = [handler EXCEPT ![i] = "running"]
    BY <1>2, <1>4 DEF SandboxIInv, CallsStand
  <2>2. PICK h \in HandlerStates : h = "running"
    BY DEF HandlerStates
  <2> QED
    BY <1>2, <2>1, <2>2, HandlerMoves
<1> QED
  BY <1>3, <1>4

\* The handler ends, or its child blocks on the pipe.
LEMMA HandlerEndsKeeps ==
  ASSUME SandboxIInv, NEW i \in Invocations, HandlerEnds(i) \/ ChildBlocks(i)
  PROVE  SandboxIInv'
<1>1. PICK h \in {"value", "raised", "raised_timeout", "value_unread"} :
        /\ handler' = [handler EXCEPT ![i] = h] /\ handler[i] = "running"
        /\ h = "value_unread" => isolation = "process"
        /\ UNCHANGED <<isolation, inv, tokenVars, created, workers>>
  BY DEF HandlerEnds, ChildBlocks, poolVars
<1>2. h \in HandlerStates
  BY DEF HandlerStates
<1> QED
  BY <1>1, <1>2, HandlerMoves

\* The handler's outcome is returned.
LEMMA CollectResultKeeps ==
  ASSUME SandboxIInv, NEW i \in Invocations, CollectResult(i)
  PROVE  SandboxIInv'
<1>1. inv[i].at = "waiting" /\ UNCHANGED <<isolation, handler, tokenVars, created, workers>>
  BY DEF CollectResult, poolVars
<1>2. inv[i].result = "none"
  BY <1>1, CallStandsNow DEF CallStands
<1>3. /\ handler[i] \in {"value", "raised", "cancelled", "raised_timeout"}
      /\ \E result \in {"success", "blocked", "error", "timeout"} : Return(i, result)
  BY DEF CollectResult, BlockedForResources
<1>4. PICK r \in InvRecords : /\ inv' = [inv EXCEPT ![i] = r] /\ r.at = "returned"
                              /\ r.result # "cancelled"
  BY <1>3, CallMoves
<1>5. CallStands(r, handler[i])
  BY <1>3, <1>4 DEF CallStands
<1> QED
  BY <1>1, <1>2, <1>4, <1>5, CallStandsNow, OneCallMoves

\* A wait on a future times out, and the future is cancelled.
LEMMA TimeoutKeeps ==
  ASSUME SandboxIInv, NEW i \in Invocations, ResultTimesOut(i) \/ CancelFuture(i)
  PROVE  SandboxIInv'
<1>1. CASE ResultTimesOut(i)
  <2>1. /\ inv[i].at = "waiting" /\ isolation = "thread"
        /\ UNCHANGED <<isolation, handler, tokenVars, created, workers>> /\ At(i, "timing_out")
    BY <1>1 DEF ResultTimesOut, poolVars
  <2>2. inv[i].result = "none"
    BY <2>1, CallStandsNow DEF CallStands
  <2>3. PICK r \in InvRecords : inv' = [inv EXCEPT ![i] = r] /\ r.at = "timing_out"
                                /\ r.result = inv[i].result
    BY <2>1, CallMoves
  <2>4. CallStands(r, handler[i])
    BY <2>1, <2>2, <2>3, CallStandsNow DEF CallStands
  <2> QED
    BY <2>1, <2>2, <2>3, <2>4, CallStandsNow, OneCallMoves
<1>2. CASE CancelFuture(i)
  <2>1. /\ inv[i].at = "timing_out" /\ Return(i, "timeout")
        /\ UNCHANGED <<isolation, tokenVars, created, workers>>
    BY <1>2 DEF CancelFuture, poolVars
  <2>2. inv[i].result = "none" /\ isolation = "thread" /\ handler[i] # "value_unread"
    BY <2>1, CallStandsNow DEF CallStands
  <2>3. PICK h \in HandlerStates : h = IF handler[i] = "queued" THEN "cancelled" ELSE handler[i]
    BY CallStandsNow DEF HandlerStates
  <2>4. handler' = [handler EXCEPT ![i] = h]
    BY <1>2, <2>3, CallStandsNow DEF CancelFuture, CancelledFuture
  <2>5. PICK r \in InvRecords : inv' = [inv EXCEPT ![i] = r] /\ r.at = "returned"
                                /\ r.result = "timeout"
    BY <2>1, CallMoves
  <2>6. CallStands(r, h)
    BY <2>2, <2>3, <2>5 DEF CallStands
  <2> QED
    BY <2>1, <2>2, <2>4, <2>5, <2>6, CallStandsNow, OneCallMoves
<1> QED
  BY <1>1, <1>2

\* A child is started, or killed.
LEMMA ChildKeeps ==
  ASSUME SandboxIInv, NEW i \in Invocations, StartChild(i) \/ ChildTimesOut(i)
  PROVE  SandboxIInv'
<1>1. CASE StartChild(i)
  <2>1. /\ inv[i].at = "dispatch" /\ At(i, "waiting") /\ handler' = [handler EXCEPT ![i] = "running"]
        /\ UNCHANGED <<isolation, tokenVars, created, workers>>
    BY <1>1 DEF StartChild, poolVars
  <2>2. inv[i].result = "none"
    BY <2>1, CallStandsNow DEF CallStands
  <2>3. PICK h \in HandlerStates : h = "running"
    BY DEF HandlerStates
  <2>4. PICK r \in InvRecords : inv' = [inv EXCEPT ![i] = r] /\ r.at = "waiting"
                                /\ r.result = inv[i].result
    BY <2>1, CallMoves
  <2>5. CallStands(r, h)
    BY <2>2, <2>3, <2>4 DEF CallStands
  <2> QED
    BY <2>1, <2>2, <2>3, <2>4, <2>5, CallStandsNow, OneCallMoves
<1>2. CASE ChildTimesOut(i)
  <2>1. /\ inv[i].at = "waiting" /\ Return(i, "timeout") /\ handler' = [handler EXCEPT ![i] = "killed"]
        /\ UNCHANGED <<isolation, tokenVars, created, workers>>
    BY <1>2 DEF ChildTimesOut, Terminated, poolVars
  <2>2. inv[i].result = "none"
    BY <2>1, CallStandsNow DEF CallStands
  <2>3. PICK h \in HandlerStates : h = "killed"
    BY DEF HandlerStates
  <2>4. PICK r \in InvRecords : inv' = [inv EXCEPT ![i] = r] /\ r.at = "returned"
                                /\ r.result = "timeout"
    BY <2>1, CallMoves
  <2>5. CallStands(r, h)
    BY <2>3, <2>4 DEF CallStands
  <2> QED
    BY <2>1, <2>2, <2>3, <2>4, <2>5, CallStandsNow, OneCallMoves
<1> QED
  BY <1>1, <1>2

\* A call takes its tenant's worker, or a new one for which another tenant's may have to go.
LEMMA AcquireWorkerKeeps ==
  ASSUME SandboxIInv, NEW i \in Invocations, NEW at, AcquireWorker(i, at)
  PROVE  SandboxIInv'
<1>1. inv[i].at = "dispatch" /\ UNCHANGED <<isolation, tokenVars>>
      /\ InvocationTenant[i] \in PoolTenants
  BY DEF AcquireWorker, PoolTenants
<1>2. CASE workers[InvocationTenant[i]] # 0
  <2>1. PICK e \in Nat : e = workers[InvocationTenant[i]]
    BY <1>1 DEF SandboxIInv
  <2>2. /\ inv' = [inv EXCEPT ![i].at = "acquired", ![i].executor = e]
        /\ UNCHANGED <<workers, created, handler>>
    BY <1>2, <2>1 DEF AcquireWorker
  <2>3. handler' = FuturesAfterShutdown({})
    BY <2>2 DEF FuturesAfterShutdown, SandboxIInv, CallsStand
  <2> QED
    BY <1>1, <2>2, <2>3, FuturesAreCancelled DEF SandboxIInv
<1>3. CASE workers[InvocationTenant[i]] = 0
  <2>1. PICK victims \in Victims :
          /\ RemoveWorkers(victims)
          /\ workers' = [u \in PoolTenants |-> IF u = InvocationTenant[i] THEN created + 1
                                               ELSE IF u \in victims THEN 0 ELSE workers[u]]
    BY <1>3 DEF AcquireWorker
  <2>2. /\ created' = created + 1
        /\ inv' = [inv EXCEPT ![i].at = "acquired", ![i].executor = created + 1]
    BY <1>3 DEF AcquireWorker
  <2>3. PICK es : handler' = FuturesAfterShutdown(es)
    BY <2>1 DEF RemoveWorkers
  <2>4. created + 1 \in Nat /\ workers' \in [PoolTenants -> Nat]
    BY <2>1 DEF SandboxIInv
  <2> QED
    BY <1>1, <2>2, <2>3, <2>4, FuturesAreCancelled
<1> QED
  BY <1>2, <1>3

\* Workers are evicted.
LEMMA EvictKeeps ==
  ASSUME SandboxIInv, NEW ts, Evict(ts)
  PROVE  SandboxIInv'
<1>1. PICK es : handler' = FuturesAfterShutdown(es)
  BY DEF Evict, RemoveWorkers
<1>2. workers' \in [PoolTenants -> Nat] /\ created' \in Nat
  BY DEF Evict, SandboxIInv
<1> QED
  BY <1>1, <1>2, FuturesAreCancelled DEF Evict

\* Tokens are requested and withdrawn.
LEMMA TokensKeep ==
  ASSUME SandboxIInv, NEW c, RequestToken(c) \/ ClearToken(c)
  PROVE  SandboxIInv'
<1>1. UNCHANGED <<isolation, inv, handler, created, workers>>
  BY DEF RequestToken, ClearToken, poolVars
<1>2. CallsStand' /\ CancelledCalls' = CancelledCalls
  BY <1>1 DEF SandboxIInv, CallsStand, CallStands, CancelledCalls
<1>3. IsFiniteSet(CancelledCalls) /\ IsFiniteSet(pending_cancellations)
  BY DEF SandboxIInv, TokensAddUp
<1>4. Cardinality(CancelledCalls) \in Nat /\ Cardinality(pending_cancellations) \in Nat
  BY <1>3, FS_CardinalityType
<1>5. TokensAddUp'
  <2>1. CASE RequestToken(c)
    <3>1. /\ c \notin pending_cancellations
          /\ pending_cancellations' = pending_cancellations \cup {c}
          /\ cancel_requested' = cancel_requested + 1 /\ cancel_cleared' = cancel_cleared
      BY <2>1 DEF RequestToken
    <3>2. /\ IsFiniteSet(pending_cancellations')
          /\ Cardinality(pending_cancellations') = Cardinality(pending_cancellations) + 1
      BY <1>3, <3>1, FS_AddElement
    <3> QED
      BY <1>2, <1>3, <1>4, <3>1, <3>2 DEF SandboxIInv, TokensAddUp
  <2>2. CASE ClearToken(c)
    <3>1. /\ c \in pending_cancellations
          /\ pending_cancellations' = pending_cancellations \ {c}
          /\ cancel_requested' = cancel_requested /\ cancel_cleared' = cancel_cleared + 1
      BY <2>2 DEF ClearToken
    <3>2. /\ IsFiniteSet(pending_cancellations')
          /\ Cardinality(pending_cancellations') = Cardinality(pending_cancellations) - 1
      BY <1>3, <3>1, FS_RemoveElement
    <3> QED
      BY <1>2, <1>3, <1>4, <3>1, <3>2 DEF SandboxIInv, TokensAddUp
  <2> QED
    BY <2>1, <2>2
<1> QED
  BY <1>1, <1>2, <1>5 DEF SandboxIInv

\* SandboxAnswersHold, for any calls, tenants and limits of the pool: whatever evictions, time-outs
\* and cancellations race with a call, nothing runs behind an answer that says otherwise, and a
\* token cancels one call.
THEOREM SandboxAnswersAreKept == SandboxSpec => []SandboxAnswersHold
<1>1. SandboxInit => SandboxIInv
  <2> SUFFICES ASSUME SandboxInit
               PROVE  SandboxIInv
    OBVIOUS
  <2>1. PICK r \in InvRecords : r = [at |-> "new", executor |-> 0, result |-> "none"]
    BY DEF InvRecords
  <2>2. inv = [i \in Invocations |-> r] /\ r.at = "new" /\ r.result = "none"
    BY <2>1 DEF SandboxInit
  <2>3. handler = [i \in Invocations |-> "none"]
    BY DEF SandboxInit
  <2>4. CallsStand
    BY <2>2, <2>3 DEF CallsStand, CallStands, HandlerStates
  <2>5. CancelledCalls = {} /\ pending_cancellations = {}
    BY <2>2 DEF CancelledCalls, SandboxInit
  <2>6. TokensAddUp
    <3>1. cancel_requested = 0 /\ cancel_cleared = 0
      BY DEF SandboxInit
    <3> QED
      BY <2>5, <3>1, FS_EmptySet DEF TokensAddUp
  <2> QED
    BY <2>4, <2>6 DEF SandboxIInv, SandboxInit
<1>2. SandboxIInv /\ [SandboxNext]_sandboxVars => SandboxIInv'
  <2> SUFFICES ASSUME SandboxIInv, [SandboxNext]_sandboxVars
               PROVE  SandboxIInv'
    OBVIOUS
  <2>1. ASSUME NEW i \in Invocations, ExecuteStep(i)
        PROVE  SandboxIInv'
    BY <2>1, StartExecuteKeeps, SubmitKeeps, HandlerEndsKeeps, CollectResultKeeps, TimeoutKeeps,
       ChildKeeps, AcquireWorkerKeeps DEF ExecuteStep
  <2>2. ASSUME NEW t, EvictTenant(t) \/ EvictIdle(t) \/ ClosePool
        PROVE  SandboxIInv'
    BY <2>2, EvictKeeps DEF EvictTenant, EvictIdle, ClosePool
  <2>3. CASE PoolTick \/ (\E at : ScanIdle(at)) \/ UNCHANGED sandboxVars
    BY <2>3, SandboxUntouched DEF PoolTick, ScanIdle, sandboxVars, poolVars
  <2> QED
    BY <2>1, <2>2, <2>3, TokensKeep, TakeWorkKeeps DEF SandboxNext
<1>3. SandboxIInv => SandboxAnswersHold
  <2> SUFFICES ASSUME SandboxIInv
               PROVE  SandboxAnswersHold
    OBVIOUS
  <2>1. NoHiddenWork
    BY DEF SandboxIInv, CallsStand, CallStands, NoHiddenWork
  <2>2. TokensOneShot
    BY DEF SandboxIInv, TokensAddUp, CancelledCalls, TokensOneShot
  <2> QED
    BY <2>1, <2>2 DEF SandboxAnswersHold
<1> QED
  BY <1>1, <1>2, <1>3, PTL DEF SandboxSpec

-----------------------------------------------------------------------------
(* The durable queue, while one store instance has the file open.          *)

OpRecords ==
  [pc : {"idle", "claim_select", "claim_update", "complete_update", "scan", "replay_update"},
   tenant : Tenants \cup {""}, job : Nat, token : Nat, at : Nat, attempt : Nat]

SqliteTyped ==
  /\ states \in StateMap /\ enqueued \in Nat /\ now \in Nat /\ issued \in Nat
  /\ claims \in SUBSET [job : JobIds, token : Nat, until : Nat]
  /\ op \in [Instances -> OpRecords]

\* The method r under way: what its SELECT has found is still so at its UPDATE.
SelectHolds(r) ==
  /\ r.at <= now
  /\ r.pc = "claim_update" => r.job \in JobIds /\ states[r.job].status = "queued"
  /\ r.pc = "replay_update" => r.job \in JobIds /\ states[r.job].status = "dead_lettered"
  /\ r.pc = "complete_update" => /\ r.job \in JobIds /\ states[r.job].status = "leased"
                                 /\ states[r.job].lease_token = r.token

\* A worker whose lease has not run out: the row has it, or the job is over, or its call was
\* withdrawn.
ClaimHolds(c) ==
  /\ c.job <= enqueued
  /\ c.until > now => \/ CallOf[c.job] \in withdrawn
                      \/ states[c.job].status \in {"completed", "absent"}
                      \/ states[c.job].status = "leased" /\ states[c.job].lease_expires = c.until

\* Rows are those of jobs that were enqueued.
RowsEnqueued == \A j \in JobIds : states[j].status # "absent" => j <= enqueued

ClaimsHold == RowsEnqueued /\ LeaseMutex /\ \A c \in claims : ClaimHolds(c)

SqliteIInv == SqliteTyped /\ ClaimsHold /\ \A p \in Instances : SelectHolds(op[p])

OneInstance == \A p, q \in Instances : p = q

\* What a step may do to row j without a worker's lease being lost.
RowMoves(j) ==
  /\ states'[j].status # "absent" => states[j].status # "absent" \/ j <= enqueued'
  /\ \/ states'[j].status = states[j].status /\ states'[j].lease_expires = states[j].lease_expires
     \/ states'[j].status \in {"completed", "absent"}
     \/ states[j].status \in {"queued", "cancelled", "dead_lettered"}
     \/ states[j].status = "leased" /\ states[j].lease_expires <= now
     \/ CallOf[j] \in withdrawn'
     \/ j > enqueued

\* Claims hold through every such step.
LEMMA ClaimsStillHold ==
  ASSUME SqliteIInv, UNCHANGED <<now, claims>>, enqueued' \in Nat, enqueued <= enqueued',
         withdrawn \subseteq withdrawn', \A j \in JobIds : RowMoves(j)
  PROVE  ClaimsHold'
<1>1. LeaseMutex'
  BY DEF SqliteIInv, ClaimsHold, LeaseMutex
<1>2. ASSUME NEW c \in claims
      PROVE  ClaimHolds(c)'
  <2>1. c.job \in JobIds /\ c.until \in Nat /\ now \in Nat /\ enqueued \in Nat
    BY DEF SqliteIInv, SqliteTyped
  <2>2. ClaimHolds(c) /\ RowMoves(c.job) /\ c.job \in Nat
    BY <2>1, JobIdsFinite DEF SqliteIInv, ClaimsHold
  <2> QED
    BY <2>1, <2>2 DEF ClaimHolds, RowMoves
<1>3. ASSUME NEW j \in JobIds, states'[j].status # "absent"
      PROVE  j <= enqueued'
  <2>1. j \in Nat /\ enqueued \in Nat
    BY JobIdsFinite DEF SqliteIInv, SqliteTyped
  <2>2. j <= enqueued \/ j <= enqueued'
    BY <1>3 DEF RowMoves, SqliteIInv, ClaimsHold, RowsEnqueued
  <2> QED
    BY <2>1, <2>2
<1> QED
  BY <1>1, <1>2, <1>3 DEF ClaimsHold, RowsEnqueued

\* A method of the only instance goes on, with what it has selected.
LEMMA MethodGoesOn ==
  ASSUME SqliteIInv, OneInstance, NEW p \in Instances, NEW r \in OpRecords,
         op' = [op EXCEPT ![p] = r], SelectHolds(r)', ClaimsHold',
         states' \in StateMap, enqueued' \in Nat, now' \in Nat, issued' \in Nat,
         claims' \in SUBSET [job : JobIds, token : Nat, until : Nat]
  PROVE  SqliteIInv'
<1>1. SqliteTyped'
  BY DEF SqliteIInv, SqliteTyped
<1>2. ASSUME NEW q \in Instances
      PROVE  SelectHolds(op[q])'
  <2>1. q = p /\ op'[q] = r
    BY DEF OneInstance, SqliteIInv, SqliteTyped
  <2> QED
    BY <2>1
<1> QED
  BY <1>1, <1>2 DEF SqliteIInv

\* No method is under way.
LEMMA IdleHolds ==
  ASSUME SqliteIInv, now' = now
  PROVE  Idle \in OpRecords /\ SelectHolds(Idle)'
<1>1. Idle \in OpRecords /\ Idle.pc = "idle" /\ Idle.at = 0
  BY DEF Idle, OpRecords
<1> QED
  BY <1>1 DEF SelectHolds, SqliteIInv, SqliteTyped

\* A step of the only instance that claims nothing.
LEMMA StepHolds ==
  ASSUME SqliteIInv, OneInstance, NEW p \in Instances, NEW r \in OpRecords,
         op' = [op EXCEPT ![p] = r], SelectHolds(r)', UNCHANGED <<now, claims, issued>>,
         states' \in StateMap, enqueued' \in Nat, enqueued <= enqueued',
         withdrawn \subseteq withdrawn', \A j \in JobIds : RowMoves(j)
  PROVE  SqliteIInv'
<1>1. ClaimsHold'
  BY ClaimsStillHold
<1> QED
  BY <1>1, MethodGoesOn DEF SqliteIInv, SqliteTyped

\* A method that is over, or has not begun, leaves the instance idle.
LEMMA EndHolds ==
  ASSUME SqliteIInv, OneInstance, NEW p \in Instances, End(p) \/ Free(p),
         UNCHANGED <<now, claims, issued>>,
         states' \in StateMap, enqueued' \in Nat, enqueued <= enqueued',
         withdrawn \subseteq withdrawn', \A j \in JobIds : RowMoves(j)
  PROVE  SqliteIInv'
<1>1. op' = [op EXCEPT ![p] = Idle]
  BY DEF End, Free, SqliteIInv, SqliteTyped
<1> QED
  BY <1>1, IdleHolds, StepHolds

\* The rows stay as they are.
LEMMA SameRows ==
  ASSUME SqliteIInv, UNCHANGED <<states, enqueued, withdrawn>>
  PROVE  /\ states' \in StateMap /\ enqueued' \in Nat /\ enqueued <= enqueued'
         /\ withdrawn \subseteq withdrawn' /\ \A j \in JobIds : RowMoves(j)
BY DEF SqliteIInv, SqliteTyped, RowMoves

\* The scan of expired leases.
LEMMA ScanHolds ==
  ASSUME SqliteIInv, NEW at \in Nat, at <= now, NEW limit \in Nat, Scan(at, limit)
  PROVE  states' \in StateMap /\ \A j \in JobIds : RowMoves(j)
<1>1. states \in StateMap /\ now \in Nat
  BY DEF SqliteIInv, SqliteTyped
<1>2. PICK after : after = StatesAfterRequeue(states, at, limit) /\ states' = after
  BY DEF Scan
<1>3. /\ after \in StateMap
      /\ \A j \in JobIds :
           \/ after[j] = states[j]
           \/ states[j].status = "leased" /\ states[j].lease_expires <= at
  BY <1>1, <1>2, ScanEffect
<1>4. ASSUME NEW j \in JobIds
      PROVE  RowMoves(j)
  <2>1. \/ states'[j] = states[j]
        \/ states[j].status = "leased" /\ states[j].lease_expires <= at
    BY <1>2, <1>3
  <2>2. states[j].lease_expires \in Nat
    BY <1>1 DEF StateMap, JobState
  <2> QED
    BY <1>1, <2>1, <2>2 DEF RowMoves
<1> QED
  BY <1>2, <1>3, <1>4

\* The instance that is in no method.
LEMMA IdleTyped == Idle \in OpRecords /\ Idle.pc = "idle" /\ Idle.at = 0
BY DEF Idle, OpRecords

\* enqueue adds a row that no claim is about.
LEMMA SqliteEnqueueHolds ==
  ASSUME SqliteIInv, OneInstance, NEW p \in Instances, SqliteEnqueue(p)
  PROVE  SqliteIInv'
<1>1. PICK row \in JobState : row = [Absent EXCEPT !.status = "queued"]
  BY DEF JobState, Absent, Statuses
<1>2. states' = [states EXCEPT ![enqueued + 1] = row] /\ enqueued' = enqueued + 1
      /\ UNCHANGED <<now, claims, issued, withdrawn>> /\ Free(p)
  BY <1>1 DEF SqliteEnqueue
<1>3. enqueued \in Nat /\ states \in StateMap
  BY DEF SqliteIInv, SqliteTyped
<1>4. states' \in StateMap
  BY <1>2, <1>3 DEF StateMap
<1>5. ASSUME NEW j \in JobIds
      PROVE  RowMoves(j)
  <2>1. j \in Nat
    BY JobIdsFinite
  <2>2. CASE j = enqueued + 1
    BY <1>2, <1>3, <2>1, <2>2 DEF RowMoves
  <2>3. CASE j # enqueued + 1
    BY <1>2, <1>3, <2>3 DEF RowMoves, StateMap
  <2> QED
    BY <2>2, <2>3
<1>6. enqueued' \in Nat /\ enqueued <= enqueued'
  BY <1>2, <1>3
<1> QED
  BY <1>2, <1>4, <1>5, <1>6, EndHolds

\* requeue_expired_leases, and the scans that begin claim_next and end other methods.
LEMMA ScansHold ==
  ASSUME SqliteIInv, OneInstance, NEW p \in Instances,
         \/ \E limit \in {0, DlqLimit} : SqliteRequeue(p, limit)
         \/ \E t \in Tenants, at \in Readings : ClaimScan(p, t, at)
         \/ ScanStep(p)
  PROVE  SqliteIInv'
<1>1. now \in Nat /\ enqueued \in Nat /\ DlqLimit \in Nat /\ 0 \in Nat /\ now <= now
  BY StoreAssumption DEF SqliteIInv, SqliteTyped
<1>2. ASSUME NEW limit \in {0, DlqLimit}, SqliteRequeue(p, limit)
      PROVE  SqliteIInv'
  <2>1. /\ Scan(now, limit) /\ UNCHANGED <<now, claims, issued, enqueued, withdrawn>> /\ Free(p)
        /\ limit \in Nat
    BY <1>1, <1>2 DEF SqliteRequeue
  <2>2. states' \in StateMap /\ \A j \in JobIds : RowMoves(j)
    BY <1>1, <2>1, ScanHolds
  <2> QED
    BY <1>1, <2>1, <2>2, EndHolds
<1>3. ASSUME NEW t \in Tenants, NEW at \in Readings, ClaimScan(p, t, at)
      PROVE  SqliteIInv'
  <2>1. at \in Nat /\ at <= now
    BY <1>1 DEF Readings
  <2>2. /\ Scan(at, 0) /\ UNCHANGED <<now, claims, issued, enqueued, withdrawn>>
        /\ op' = [op EXCEPT ![p] = [Idle EXCEPT !.pc = "claim_select", !.tenant = t, !.at = at]]
    BY <1>3 DEF ClaimScan, Begin
  <2>3. states' \in StateMap /\ \A j \in JobIds : RowMoves(j)
    BY <1>1, <2>1, <2>2, ScanHolds
  <2>4. PICK r : r = [Idle EXCEPT !.pc = "claim_select", !.tenant = t, !.at = at]
    OBVIOUS
  <2>5. r \in OpRecords /\ r.pc = "claim_select" /\ r.at = at
    BY <2>1, <2>4, IdleTyped DEF OpRecords
  <2>6. SelectHolds(r)'
    BY <2>1, <2>2, <2>5 DEF SelectHolds
  <2>7. op' = [op EXCEPT ![p] = r]
    BY <2>2, <2>4
  <2>8. enqueued' \in Nat /\ enqueued <= enqueued' /\ withdrawn \subseteq withdrawn'
    BY <1>1, <2>2
  <2> QED
    BY <2>2, <2>3, <2>5, <2>6, <2>7, <2>8, StepHolds
<1>4. CASE ScanStep(p)
  <2>1. PICK at : at = op[p].at
    OBVIOUS
  <2>2. at \in Nat /\ at <= now
    BY <2>1 DEF SqliteIInv, SqliteTyped, OpRecords, SelectHolds
  <2>3. Scan(at, 0) /\ UNCHANGED <<now, claims, issued, enqueued, withdrawn>> /\ End(p)
    BY <1>4, <2>1 DEF ScanStep
  <2>4. states' \in StateMap /\ \A j \in JobIds : RowMoves(j)
    BY <1>1, <2>2, <2>3, ScanHolds
  <2> QED
    BY <1>1, <2>3, <2>4, EndHolds
<1> QED
  BY <1>2, <1>3, <1>4

\* claim_next has selected the oldest queued row, or found none.
LEMMA ClaimSelectHolds ==
  ASSUME SqliteIInv, OneInstance, NEW p \in Instances, ClaimSelect(p)
  PROVE  SqliteIInv'
<1>1. UNCHANGED <<states, enqueued, now, claims, withdrawn, issued>>
  BY DEF ClaimSelect
<1>2. CASE End(p)
  BY <1>1, <1>2, SameRows, EndHolds
<1>3. CASE ~End(p)
  <2>1. PICK j \in OfStatus(states, op[p].tenant, "queued") :
          op' = [op EXCEPT ![p].pc = "claim_update", ![p].job = j,
                           ![p].attempt = states[j].claim_attempt + 1]
    BY <1>3 DEF ClaimSelect
  <2>2. j \in JobIds /\ j \in Nat /\ states[j].status = "queued" /\ states[j].claim_attempt \in Nat
    BY JobIdsFinite DEF OfStatus, SqliteIInv, SqliteTyped, StateMap, JobState
  <2>3. PICK old \in OpRecords : old = op[p] /\ SelectHolds(old)
    BY DEF SqliteIInv, SqliteTyped
  <2>4. PICK n \in Nat : n = states[j].claim_attempt + 1
    BY <2>2
  <2>5. PICK r \in OpRecords : r = [old EXCEPT !.pc = "claim_update", !.job = j, !.attempt = n]
    BY <2>2 DEF OpRecords
  <2>6. r.pc = "claim_update" /\ r.job = j /\ r.at = old.at
    BY <2>5 DEF OpRecords
  <2>7. op' = [op EXCEPT ![p] = r]
    BY <2>1, <2>3, <2>4, <2>5 DEF SqliteIInv, SqliteTyped
  <2>8. SelectHolds(r)'
    BY <1>1, <2>2, <2>3, <2>6 DEF SelectHolds
  <2> QED
    BY <1>1, <2>7, <2>8, SameRows, StepHolds
<1> QED
  BY <1>2, <1>3

\* claim_next leases the row that it selected, which no worker holds any more.
LEMMA ClaimUpdateHolds ==
  ASSUME SqliteIInv, OneInstance, NEW p \in Instances, ClaimUpdate(p)
  PROVE  SqliteIInv'
<1>1. PICK old \in OpRecords : old = op[p] /\ SelectHolds(old) /\ old.pc = "claim_update"
  BY DEF SqliteIInv, SqliteTyped, ClaimUpdate
<1>2. PICK j \in JobIds : j = old.job /\ states[j].status = "queued"
  BY <1>1 DEF SelectHolds
<1>3. /\ old.at \in Nat /\ old.attempt \in Nat /\ issued \in Nat /\ now \in Nat
      /\ enqueued \in Nat /\ LeaseTtl \in Nat /\ j \in Nat
  BY StoreAssumption, JobIdsFinite DEF OpRecords, SqliteIInv, SqliteTyped
<1>4. PICK until, token, attempt :
        until = old.at + LeaseTtl /\ token = issued + 1 /\ attempt = old.attempt
  OBVIOUS
<1>5. until \in Nat /\ token \in Nat /\ attempt \in Nat
  BY <1>3, <1>4
<1>6. PICK new : new = [job |-> j, token |-> token, until |-> until]
  OBVIOUS
<1>7. /\ new \in [job : JobIds, token : Nat, until : Nat]
      /\ new.job = j /\ new.until = until
  BY <1>5, <1>6
<1>8. /\ claims' = claims \cup {new} /\ issued' = token /\ End(p)
      /\ UNCHANGED <<enqueued, now, withdrawn>>
  BY <1>1, <1>2, <1>4, <1>6 DEF ClaimUpdate
<1>9. PICK s \in JobState : s = states[j]
  BY DEF SqliteIInv, SqliteTyped, StateMap
<1>10. PICK row : row = [s EXCEPT !.status = "leased", !.lease_token = token,
                                  !.lease_expires = until, !.claim_attempt = attempt]
  OBVIOUS
<1>11. row \in JobState /\ row.status = "leased" /\ row.lease_expires = until
  BY <1>5, <1>10 DEF JobState, Statuses
<1>12. states' = [states EXCEPT ![j] = row]
  BY <1>1, <1>2, <1>4, <1>9, <1>10 DEF ClaimUpdate
<1>13. states \in StateMap /\ states' \in StateMap /\ states'[j] = row
       /\ \A k \in JobIds : k # j => states'[k] = states[k]
  BY <1>11, <1>12 DEF SqliteIInv, SqliteTyped, StateMap
<1>14. \A c \in claims : c.job = j /\ c.until > now => CallOf[j] \in withdrawn
  BY <1>2 DEF SqliteIInv, ClaimsHold, ClaimHolds
<1>15. LeaseMutex'
  BY <1>7, <1>8, <1>14 DEF LeaseMutex, SqliteIInv, ClaimsHold
<1>16. RowsEnqueued' /\ j <= enqueued
  BY <1>2, <1>8, <1>13 DEF RowsEnqueued, SqliteIInv, ClaimsHold
<1>17. ASSUME NEW c \in claims'
       PROVE  ClaimHolds(c)'
  <2>1. CASE c = new
    BY <1>7, <1>8, <1>11, <1>13, <1>16, <2>1 DEF ClaimHolds
  <2>2. CASE c \in claims
    <3>1. c.job \in JobIds /\ ClaimHolds(c)
      BY <2>2 DEF SqliteIInv, SqliteTyped, ClaimsHold
    <3> QED
      BY <1>8, <1>13, <1>14, <2>2, <3>1 DEF ClaimHolds
  <2> QED
    BY <1>8, <2>1, <2>2
<1>18. ClaimsHold'
  BY <1>15, <1>16, <1>17 DEF ClaimsHold
<1>19. claims' \in SUBSET [job : JobIds, token : Nat, until : Nat]
  BY <1>7, <1>8 DEF SqliteIInv, SqliteTyped
<1>20. op' = [op EXCEPT ![p] = Idle]
  BY <1>8 DEF End
<1>21. now' = now /\ now' \in Nat /\ enqueued' \in Nat /\ issued' \in Nat
  BY <1>3, <1>5, <1>8
<1> QED
  BY <1>13, <1>18, <1>19, <1>20, <1>21, IdleHolds, MethodGoesOn

\* complete_claim and get_leased_job have read the row.
LEMMA LeaseSelectsHold ==
  ASSUME SqliteIInv, OneInstance, NEW p \in Instances, NEW c \in claims,
         CompleteSelect(p, c.job, c.token) \/ GetLeasedSelect(p, c.job)
  PROVE  SqliteIInv'
<1>1. UNCHANGED <<states, enqueued, now, claims, withdrawn, issued>>
  BY DEF CompleteSelect, GetLeasedSelect
<1>2. PICK j \in JobIds, token \in Nat : j = c.job /\ token = c.token
  BY DEF SqliteIInv, SqliteTyped
<1>3. now \in Nat /\ j \in Nat /\ now <= now
  BY JobIdsFinite DEF SqliteIInv, SqliteTyped
<1>4. CASE op' = [op EXCEPT ![p] = [Idle EXCEPT !.pc = "scan", !.at = now]]
  <2>1. PICK r : r = [Idle EXCEPT !.pc = "scan", !.at = now]
    OBVIOUS
  <2>2. r \in OpRecords /\ r.pc = "scan" /\ r.at = now
    BY <1>3, <2>1, IdleTyped DEF OpRecords
  <2>3. SelectHolds(r)'
    BY <1>1, <1>3, <2>2 DEF SelectHolds
  <2>4. op' = [op EXCEPT ![p] = r]
    BY <1>4, <2>1
  <2> QED
    BY <1>1, <2>2, <2>3, <2>4, SameRows, StepHolds
<1>5. CASE /\ Completes(j, token)
           /\ op' = [op EXCEPT ![p] = [Idle EXCEPT !.pc = "complete_update", !.job = j,
                                                   !.token = token, !.at = now]]
  <2>1. PICK r : r = [Idle EXCEPT !.pc = "complete_update", !.job = j, !.token = token, !.at = now]
    OBVIOUS
  <2>2. /\ r \in OpRecords /\ r.pc = "complete_update" /\ r.at = now
        /\ r.job = j /\ r.token = token
    BY <1>3, <2>1, IdleTyped DEF OpRecords
  <2>3. states[j].status = "leased" /\ states[j].lease_token = token
    BY <1>5 DEF Completes, LeaseActive
  <2>4. SelectHolds(r)'
    BY <1>1, <1>3, <2>2, <2>3 DEF SelectHolds
  <2>5. op' = [op EXCEPT ![p] = r]
    BY <1>5, <2>1
  <2> QED
    BY <1>1, <2>2, <2>4, <2>5, SameRows, StepHolds
<1>6. CASE End(p)
  BY <1>1, <1>6, SameRows, EndHolds
<1> QED
  BY <1>2, <1>4, <1>5, <1>6 DEF CompleteSelect, GetLeasedSelect, Begin, End

\* complete_claim marks the row that it selected.
LEMMA CompleteUpdateHolds ==
  ASSUME SqliteIInv, OneInstance, NEW p \in Instances, CompleteUpdate(p)
  PROVE  SqliteIInv'
<1>1. PICK old \in OpRecords : old = op[p] /\ SelectHolds(old) /\ old.pc = "complete_update"
  BY DEF SqliteIInv, SqliteTyped, CompleteUpdate
<1>2. PICK j \in JobIds : j = old.job /\ states[j].status = "leased"
  BY <1>1 DEF SelectHolds
<1>3. PICK s \in JobState : s = states[j]
  BY DEF SqliteIInv, SqliteTyped, StateMap
<1>4. PICK at \in Nat : at = old.at
  BY DEF OpRecords
<1>5. PICK row : row = [s EXCEPT !.status = "completed", !.at = at]
  OBVIOUS
<1>6. row \in JobState /\ row.status = "completed"
  BY <1>4, <1>5 DEF JobState, Statuses
<1>7. /\ states' = [states EXCEPT ![j] = row] /\ End(p)
      /\ UNCHANGED <<enqueued, now, claims, withdrawn, issued>>
  BY <1>1, <1>2, <1>3, <1>4, <1>5 DEF CompleteUpdate
<1>8. states \in StateMap /\ enqueued \in Nat
  BY DEF SqliteIInv, SqliteTyped
<1>9. states' \in StateMap /\ \A k \in JobIds : RowMoves(k)
  BY <1>2, <1>6, <1>7, <1>8 DEF StateMap, RowMoves
<1>10. enqueued' \in Nat /\ enqueued <= enqueued' /\ withdrawn \subseteq withdrawn'
  BY <1>7, <1>8
<1> QED
  BY <1>7, <1>9, <1>10, EndHolds

\* cancel_pending_call takes the call's leases away from workers that are told nothing.
LEMMA CancelUpdateHolds ==
  ASSUME SqliteIInv, OneInstance, NEW p \in Instances, NEW c \in Calls, CancelUpdate(p, c)
  PROVE  SqliteIInv'
<1>1. states \in StateMap /\ enqueued \in Nat /\ now \in Nat /\ now <= now
  BY DEF SqliteIInv, SqliteTyped
<1>2. /\ withdrawn' = withdrawn \cup {c} /\ UNCHANGED <<enqueued, now, claims, issued>>
      /\ op' = [op EXCEPT ![p] = [Idle EXCEPT !.pc = "scan", !.at = now]]
  BY DEF CancelUpdate, Begin
<1>3. \A j \in JobIds : [states[j] EXCEPT !.status = "cancelled", !.at = now] \in JobState
                     /\ [states[j] EXCEPT !.lease_expires = 0] \in JobState
  BY <1>1 DEF StateMap, JobState, Statuses
<1>4. states' \in StateMap
  BY <1>1, <1>3 DEF CancelUpdate, StateMap
<1>5. ASSUME NEW j \in JobIds
      PROVE  RowMoves(j)
  <2>1. PICK s \in JobState : s = states[j]
    BY <1>1 DEF StateMap
  <2>2. CASE CallOf[j] = c /\ s.status \in {"queued", "leased"}
    <3>1. CallOf[j] \in withdrawn'
      BY <1>2, <2>2
    <3> QED
      BY <2>1, <2>2, <3>1 DEF RowMoves
  <2>3. CASE ~(CallOf[j] = c /\ s.status \in {"queued", "leased"})
    <3>1. states'[j] = states[j]
      BY <2>1, <2>3 DEF CancelUpdate
    <3> QED
      BY <3>1 DEF RowMoves
  <2> QED
    BY <2>2, <2>3
<1>6. PICK r : r = [Idle EXCEPT !.pc = "scan", !.at = now]
  OBVIOUS
<1>7. r \in OpRecords /\ r.pc = "scan" /\ r.at = now
  BY <1>1, <1>6, IdleTyped DEF OpRecords
<1>8. SelectHolds(r)'
  BY <1>1, <1>2, <1>7 DEF SelectHolds
<1>9. op' = [op EXCEPT ![p] = r]
  BY <1>2, <1>6
<1>10. enqueued' \in Nat /\ enqueued <= enqueued' /\ withdrawn \subseteq withdrawn'
  BY <1>1, <1>2
<1> QED
  BY <1>2, <1>4, <1>5, <1>7, <1>8, <1>9, <1>10, StepHolds

\* replay_dead_letter_job has found the row among the dead letters.
LEMMA ReplaySelectHolds ==
  ASSUME SqliteIInv, OneInstance, NEW p \in Instances, NEW j \in JobIds, ReplaySelect(p, j)
  PROVE  SqliteIInv'
<1>1. /\ UNCHANGED <<states, enqueued, now, claims, withdrawn, issued>>
      /\ states[j].status = "dead_lettered"
      /\ op' = [op EXCEPT ![p] = [Idle EXCEPT !.pc = "replay_update", !.job = j]]
  BY DEF ReplaySelect, Begin
<1>2. PICK r : r = [Idle EXCEPT !.pc = "replay_update", !.job = j]
  OBVIOUS
<1>3. r \in OpRecords /\ r.pc = "replay_update" /\ r.at = 0 /\ r.job = j
  BY <1>2, IdleTyped, JobIdsFinite DEF OpRecords
<1>4. SelectHolds(r)'
  BY <1>1, <1>3 DEF SelectHolds, SqliteIInv, SqliteTyped
<1>5. op' = [op EXCEPT ![p] = r]
  BY <1>1, <1>2
<1> QED
  BY <1>1, <1>3, <1>4, <1>5, SameRows, StepHolds

\* replay_dead_letter_job queues the row again; no worker has held it since it was dead-lettered.
LEMMA ReplayUpdateHolds ==
  ASSUME SqliteIInv, OneInstance, NEW p \in Instances, ReplayUpdate(p)
  PROVE  SqliteIInv'
<1>1. PICK old \in OpRecords : old = op[p] /\ SelectHolds(old) /\ old.pc = "replay_update"
  BY DEF SqliteIInv, SqliteTyped, ReplayUpdate
<1>2. PICK j \in JobIds : j = old.job /\ states[j].status = "dead_lettered"
  BY <1>1 DEF SelectHolds
<1>3. PICK s \in JobState : s = states[j]
  BY DEF SqliteIInv, SqliteTyped, StateMap
<1>4. PICK mid : mid = Unleased(s, "queued")
  OBVIOUS
<1>5. mid \in JobState
  BY <1>4 DEF JobState, Statuses, Unleased
<1>6. PICK n : n = s.replay_count + 1
  OBVIOUS
<1>7. n \in Nat
  BY <1>6 DEF JobState
<1>8. PICK row : row = [mid EXCEPT !.at = 0, !.replay_count = n]
  OBVIOUS
<1>9. row \in JobState
  BY <1>5, <1>7, <1>8 DEF JobState
<1>10. states' = [states EXCEPT ![j] = [mid EXCEPT !.at = 0, !.replay_count = n]]
  BY <1>1, <1>2, <1>3, <1>4, <1>6 DEF ReplayUpdate
<1>11. /\ states' = [states EXCEPT ![j] = row] /\ End(p)
       /\ UNCHANGED <<enqueued, now, claims, withdrawn, issued>>
  BY <1>8, <1>10 DEF ReplayUpdate
<1>12. states \in StateMap /\ enqueued \in Nat
  BY DEF SqliteIInv, SqliteTyped
<1>13. states' \in StateMap /\ \A k \in JobIds : RowMoves(k)
  BY <1>2, <1>9, <1>11, <1>12 DEF StateMap, RowMoves
<1>14. enqueued' \in Nat /\ enqueued <= enqueued' /\ withdrawn \subseteq withdrawn'
  BY <1>11, <1>12
<1> QED
  BY <1>11, <1>13, <1>14, EndHolds

\* cleanup_retention drops rows; a dropped row is leased to nobody again.
LEMMA SqliteCleanupHolds ==
  ASSUME SqliteIInv, OneInstance, NEW p \in Instances,
         NEW t \in Tenants, NEW at \in Readings, SqliteCleanup(p, t, at)
  PROVE  SqliteIInv'
<1>1. states \in StateMap /\ enqueued \in Nat
  BY DEF SqliteIInv, SqliteTyped
<1>2. UNCHANGED <<enqueued, now, claims, withdrawn, issued>> /\ Free(p)
  BY DEF SqliteCleanup, CleanupRetention
<1>3. PICK gone : states' = [j \in JobIds |-> IF j \in gone THEN Absent ELSE states[j]]
  BY DEF SqliteCleanup, CleanupRetention
<1>4. Absent \in JobState /\ Absent.status = "absent"
  BY DEF Absent, JobState, Statuses
<1>5. states' \in StateMap /\ \A j \in JobIds : RowMoves(j)
  BY <1>1, <1>3, <1>4 DEF StateMap, RowMoves
<1>6. enqueued' \in Nat /\ enqueued <= enqueued' /\ withdrawn \subseteq withdrawn'
  BY <1>1, <1>2
<1> QED
  BY <1>2, <1>5, <1>6, EndHolds

\* A crash forgets the method under way; the rows are as its last statement left them.
LEMMA CrashHolds ==
  ASSUME SqliteIInv, OneInstance, NEW p \in Instances, Crash(p)
  PROVE  SqliteIInv'
<1>1. UNCHANGED <<states, enqueued, now, claims, withdrawn, issued>> /\ End(p)
  BY DEF Crash
<1> QED
  BY <1>1, SameRows, EndHolds

\* Time only takes leases away.
LEMMA SqliteTickHolds ==
  ASSUME SqliteIInv, SqliteTick
  PROVE  SqliteIInv'
<1>1. now' = now + 1 /\ UNCHANGED <<states, enqueued, claims, withdrawn, op, issued>>
  BY DEF SqliteTick, Tick
<1>2. SqliteTyped' /\ RowsEnqueued'
  BY <1>1 DEF SqliteIInv, SqliteTyped, ClaimsHold, RowsEnqueued
<1>3. now \in Nat /\ now' \in Nat /\ now' > now
  BY <1>1 DEF SqliteIInv, SqliteTyped
<1>4. ASSUME NEW c \in claims
      PROVE  ClaimHolds(c)'
  <2>1. c.until \in Nat /\ ClaimHolds(c)
    BY DEF SqliteIInv, SqliteTyped, ClaimsHold
  <2> QED
    BY <1>1, <1>3, <2>1 DEF ClaimHolds
<1>5. LeaseMutex'
  <2>1. \A c \in claims : c.until \in Nat /\ (c.until > now' => c.until > now)
    BY <1>3 DEF SqliteIInv, SqliteTyped
  <2> QED
    BY <1>1, <2>1 DEF SqliteIInv, ClaimsHold, LeaseMutex
<1>6. ASSUME NEW p \in Instances
      PROVE  SelectHolds(op[p])'
  <2>1. PICK old \in OpRecords : old = op[p] /\ SelectHolds(old)
    BY DEF SqliteIInv, SqliteTyped
  <2>2. old.at \in Nat /\ op'[p] = old
    BY <1>1, <2>1 DEF OpRecords
  <2>3. SelectHolds(old)'
    BY <1>1, <1>3, <2>1, <2>2 DEF SelectHolds
  <2> QED
    BY <2>2, <2>3
<1> QED
  BY <1>1, <1>2, <1>4, <1>5, <1>6 DEF SqliteIInv, ClaimsHold

\* While one store instance has the file open, two workers never hold unexpired leases on one job
\* and complete_claim's UPDATE finds the row leased under the token its SELECT compared, whatever
\* crashes in between: the argument that the methods' lock is enough for one instance.
THEOREM DurableLeasesAreHeld ==
  ASSUME OneInstance
  PROVE  SqliteSpec => DurableLeasesHold
<1>1. SqliteInit => SqliteIInv
  <2> SUFFICES ASSUME SqliteInit
               PROVE  SqliteIInv
    OBVIOUS
  <2>1. /\ states = [j \in JobIds |-> Absent] /\ enqueued = 0 /\ now = 1 /\ claims = {}
        /\ withdrawn = {} /\ issued = 0 /\ op = [p \in Instances |-> Idle]
    BY DEF SqliteInit, StoreInit
  <2>2. Absent \in JobState /\ Absent.status = "absent"
    BY DEF Absent, JobState, Statuses
  <2>3. SqliteTyped
    BY <2>1, <2>2, IdleTyped DEF SqliteTyped, StateMap
  <2>4. ClaimsHold
    BY <2>1, <2>2 DEF ClaimsHold, RowsEnqueued, LeaseMutex
  <2>5. \A p \in Instances : SelectHolds(op[p])
    BY <2>1, IdleTyped DEF SelectHolds
  <2> QED
    BY <2>3, <2>4, <2>5 DEF SqliteIInv
<1>2. SqliteIInv /\ [SqliteNext]_sqliteVars => SqliteIInv'
  <2> SUFFICES ASSUME SqliteIInv, [SqliteNext]_sqliteVars
               PROVE  SqliteIInv'
    OBVIOUS
  <2>1. CASE UNCHANGED sqliteVars
    BY <2>1 DEF sqliteVars, SqliteIInv, SqliteTyped, ClaimsHold, RowsEnqueued, LeaseMutex,
                ClaimHolds, SelectHolds
  <2>2. CASE SqliteTick
    BY <2>2, SqliteTickHolds
  <2>3. ASSUME NEW p \in Instances, InstanceStep(p)
        PROVE  SqliteIInv'
    BY <2>3, OneInstance, SqliteEnqueueHolds, ScansHold, ClaimSelectHolds, ClaimUpdateHolds,
       LeaseSelectsHold, CompleteUpdateHolds, CancelUpdateHolds, ReplaySelectHolds,
       ReplayUpdateHolds, SqliteCleanupHolds, CrashHolds DEF InstanceStep
  <2> QED
    BY <2>1, <2>2, <2>3 DEF SqliteNext
<1>3. SqliteIInv => LeaseMutex
  BY DEF SqliteIInv, ClaimsHold
<1>4. SqliteIInv => [\A p \in Instances :
                       op[p].pc = "complete_update" /\ op'[p] = Idle /\ crashes' = crashes =>
                         /\ states[op[p].job].status = "leased"
                         /\ states[op[p].job].lease_token = op[p].token]_sqliteVars
  BY DEF SqliteIInv, SelectHolds
<1> QED
  BY <1>1, <1>2, <1>3, <1>4, PTL DEF SqliteSpec, DurableLeasesHold, CompletesOwnLease
=============================================================================
