--------------------------- MODULE WorkflowGraphs ---------------------------
(* WorkflowLoader, the schema it applies, and TaskGraph.                                          *)
(*                                                                                                *)
(* A workflow is a file, JSON or YAML, that may be edited at any time.  The loader reads it,      *)
(* checks it field by field and keeps it under its id and version.  A TaskGraph is built from     *)
(* nodes, those of a loaded workflow or a caller's own, and refuses duplicates, unknown           *)
(* dependencies and cycles; the search for cycles is the code's, call by call.  Nothing in the    *)
(* repository turns a workflow into task nodes: that step keeps ids and dependencies and is the   *)
(* caller's.                                                                                      *)
(*                                                                                                *)
(* A text is a record of its stripped value and whether it has blanks around it: two texts may    *)
(* differ and name the same node.                                                                 *)
EXTENDS SequencesExt, Naturals

CONSTANTS
  Paths,           \* the workflow files
  WorkflowFiles,   \* what a file may hold
  CallerGraphs,    \* sequences of task nodes a caller builds without a workflow
  Odd,             \* a value of the wrong type
  YamlInstalled,   \* whether PyYAML can be imported
  MaxFileWrites    \* bound: edits of the files

\* Texts, task nodes, and what a parsed document holds where the schema expects nodes: any
\* part may have the wrong type.
Texts == [name : STRING, padded : BOOLEAN]
TaskNodes == [id : STRING, depends : Seq(STRING)]
IsRawNode(raw) ==
  raw # Odd => /\ raw.id \in Texts \cup {Odd}
               /\ raw.depends \in Seq(Texts \cup {Odd}) \cup {Odd}
IsRawNodes(raws) ==
  raws # Odd => /\ Len(raws) \in Nat /\ DOMAIN raws = 1..Len(raws)
                /\ \A i \in DOMAIN raws : IsRawNode(raws[i])

ASSUME WorkflowsAssumption ==
  /\ CallerGraphs \subseteq Seq(TaskNodes)
  /\ \A file \in WorkflowFiles : /\ file.document \in {"object", "list", "malformed"}
                                 /\ file.document = "object" => IsRawNodes(file.payload.nodes)

VARIABLES
  disk,            \* what each file holds; Missing for none
  workflows,       \* _registry: the handle under each key
  loadAnswer,      \* the code of the last load, "loaded" when it succeeded
  graph,           \* the TaskGraph under construction, and its verdict
  fileWrites

workflowVars == <<disk, workflows, loadAnswer, graph, fileWrites>>

\* Texts.
Plainly(name) == [name |-> name, padded |-> FALSE]
Padded(name) == [name |-> name, padded |-> TRUE]
EmptyName == ""
Blank == Padded(EmptyName)
Stripped(text) == text.name
IsName(value) == value # Odd /\ Stripped(value) # EmptyName

Missing == [suffix |-> "none"]
NoHandle == [source |-> "none"]
NoGraph == [at |-> "none"]

\* What a check raises.
Passed == "passed"
Check(holds, code) == IF holds THEN Passed ELSE code

\* The first failure among the checks, in the order of the raises of one function.
FirstFailure(checks) ==
  LET failed == {i \in DOMAIN checks : checks[i] # Passed}
  IN  IF failed = {} THEN Passed ELSE checks[CHOOSE i \in failed : \A k \in failed : i <= k]

-----------------------------------------------------------------------------
(* The schema *)

\* WorkflowNode.from_dict: what is wrong with a raw node.
NodeError(raw) ==
  IF raw = Odd THEN "NODE_TYPE_INVALID"
  ELSE FirstFailure(<<
         Check(IsName(raw.id), "NODE_ID_INVALID"),
         Check(IsName(raw.role), "NODE_AGENT_ROLE_INVALID"),
         Check(raw.depends # Odd /\ \A i \in DOMAIN raw.depends : IsName(raw.depends[i]),
               "NODE_DEPENDENCIES_INVALID"),
         Check(raw.timeout # Odd /\ raw.timeout > 0, "NODE_TIMEOUT_INVALID"),
         Check(raw.retries # Odd /\ raw.retries >= 0, "NODE_RETRY_LIMIT_INVALID"),
         Check(raw.metadata # Odd, "NODE_METADATA_INVALID") >>)

\* ... and the node it returns: id and dependencies without their blanks.
NodeOf(raw) ==
  [id |-> Stripped(raw.id),
   depends |-> [i \in DOMAIN raw.depends |-> Stripped(raw.depends[i])]]

Ids(nodes) == {nodes[i].id : i \in DOMAIN nodes}
Depends(node) == ToSet(node.depends)
HasDuplicate(nodes) == \E i, k \in DOMAIN nodes : i < k /\ nodes[i].id = nodes[k].id

\* The first node that validate refuses: itself among its dependencies, or an unknown one.
NodeFault(nodes, i) ==
  IF nodes[i].id \in Depends(nodes[i]) THEN "NODE_SELF_DEPENDENCY"
  ELSE IF Depends(nodes[i]) \subseteq Ids(nodes) THEN Passed
  ELSE "NODE_UNKNOWN_DEPENDENCY"

\* WorkflowDefinition.validate.
Validated(schema, nodes) ==
  IF Stripped(schema) # "1.0" THEN "SCHEMA_VERSION_UNSUPPORTED"
  ELSE IF HasDuplicate(nodes) THEN "NODE_DUPLICATE_ID"
  ELSE FirstFailure([i \in DOMAIN nodes |-> NodeFault(nodes, i)])

\* The checks of WorkflowDefinition.from_dict before it builds the nodes.
HeaderError(payload) ==
  FirstFailure(<<
    Check(IsName(payload.schema), "SCHEMA_VERSION_INVALID"),
    Check(IsName(payload.id), "ID_INVALID"),
    Check(IsName(payload.version), "VERSION_INVALID"),
    Check(payload.nodes # Odd /\ payload.nodes # <<>>, "NODES_INVALID"),
    Check(payload.metadata # Odd, "METADATA_INVALID") >>)

NodesOf(payload) == [i \in DOMAIN payload.nodes |-> NodeOf(payload.nodes[i])]

\* Mutation: validate sees the nodes before their blanks are stripped.
RawNodesError(payload) ==
  LET raw == [i \in DOMAIN payload.nodes |->
               [id |-> payload.nodes[i].id, depends |-> payload.nodes[i].depends]]
  IN  IF HasDuplicate(raw) THEN "NODE_DUPLICATE_ID"
      ELSE FirstFailure([i \in DOMAIN raw |-> NodeFault(raw, i)])
DefinitionErrorUnstripped(payload) ==
  IF HeaderError(payload) # Passed THEN HeaderError(payload)
  ELSE LET errors == [i \in DOMAIN payload.nodes |-> NodeError(payload.nodes[i])]
       IN  IF FirstFailure(errors) # Passed THEN FirstFailure(errors)
           ELSE IF Stripped(payload.schema) # "1.0" THEN "SCHEMA_VERSION_UNSUPPORTED"
           ELSE RawNodesError(payload)

\* WorkflowDefinition.from_dict: the header, every node, then validate.
DefinitionError(payload) ==
  IF HeaderError(payload) # Passed THEN HeaderError(payload)
  ELSE LET errors == [i \in DOMAIN payload.nodes |-> NodeError(payload.nodes[i])]
       IN  IF FirstFailure(errors) # Passed THEN FirstFailure(errors)
           ELSE Validated(payload.schema, NodesOf(payload))

-----------------------------------------------------------------------------
(* The loader *)

\* _load_json: a document that does not parse, or is not an object.
JsonError(document) ==
  FirstFailure(<< Check(document # "malformed", "JSON_INVALID"),
                  Check(document # "list", "PAYLOAD_TYPE_INVALID") >>)

\* _load_yaml asks for PyYAML first.
YamlError(document) ==
  FirstFailure(<< Check(YamlInstalled, "YAML_DEPENDENCY_MISSING"),
                  Check(document # "malformed", "YAML_INVALID"),
                  Check(document # "list", "PAYLOAD_TYPE_INVALID") >>)

\* _read_payload, by the file's suffix.
ReadError(file) ==
  CASE file.suffix = ".json" -> JsonError(file.document)
    [] file.suffix \in {".yaml", ".yml"} -> YamlError(file.document)
    [] OTHER -> "EXTENSION_UNSUPPORTED"

\* What stops a load of the file before the registry is asked.
SourceError(file) ==
  IF file = Missing THEN "SOURCE_NOT_FOUND"
  ELSE IF ReadError(file) # Passed THEN ReadError(file)
  ELSE DefinitionError(file.payload)

\* WorkflowHandle, under the stripped id and version.
HandleKey(payload) == <<Stripped(payload.id), Stripped(payload.version)>>
Handle(path, payload) == [source |-> path, nodes |-> NodesOf(payload)]
WorkflowKeys == {HandleKey(c.payload) :
           c \in {d \in WorkflowFiles : d.document = "object" /\ HeaderError(d.payload) = Passed}}

WorkflowInit ==
  /\ disk = [p \in Paths |-> Missing]
  /\ workflows = [k \in WorkflowKeys |-> NoHandle]
  /\ loadAnswer = "none"
  /\ graph = NoGraph
  /\ fileWrites = 0

\* A file is written, or removed.  A TaskGraph is built in one call without an await and reads no
\* file, so files and registry are left alone meanwhile.
WriteFile(path, content) ==
  /\ graph = NoGraph
  /\ fileWrites < MaxFileWrites
  /\ disk' = [disk EXCEPT ![path] = content]
  /\ fileWrites' = fileWrites + 1
  /\ UNCHANGED <<workflows, loadAnswer, graph>>

\* load_workflow; reload_workflow is the same with replace.
LoadWorkflow(path, replace) ==
  LET file == disk[path]
      key == HandleKey(file.payload)
  IN  /\ graph = NoGraph
      /\ \/ /\ SourceError(file) # Passed
            /\ loadAnswer' = SourceError(file)
            /\ UNCHANGED workflows
         \/ /\ SourceError(file) = Passed
            /\ workflows[key] # NoHandle /\ ~replace
            /\ loadAnswer' = "ALREADY_REGISTERED"
            /\ UNCHANGED workflows
         \/ /\ SourceError(file) = Passed
            /\ workflows[key] = NoHandle \/ replace
            /\ workflows' = [workflows EXCEPT ![key] = Handle(path, file.payload)]
            /\ loadAnswer' = "loaded"
      /\ UNCHANGED <<disk, graph, fileWrites>>

-----------------------------------------------------------------------------
(* TaskGraph *)

\* _validate_dependencies.
UnknownDependency(nodes) == \E i \in DOMAIN nodes : ~ Depends(nodes[i]) \subseteq Ids(nodes)

\* TaskGraph.__init__: duplicates, unknown dependencies, then the search over every node.
Construct(nodes, origin) ==
  LET verdict == IF HasDuplicate(nodes) THEN "duplicate"
                 ELSE IF UnknownDependency(nodes) THEN "unknown"
                 ELSE "searching"
  IN  [at |-> verdict, origin |-> origin, nodes |-> nodes, visited |-> {}, active |-> {},
       pending |-> << [i \in DOMAIN nodes |-> nodes[i].id] >>, path |-> <<>>]

BuildLoaded(key) ==
  /\ graph = NoGraph
  /\ workflows[key] # NoHandle
  /\ graph' = Construct(workflows[key].nodes, "workflow")
  /\ UNCHANGED <<disk, workflows, loadAnswer, fileWrites>>

\* A caller's own nodes.  That no file has been written yet keeps the two kinds of input apart.
BuildGraph(nodes) ==
  /\ graph = NoGraph
  /\ fileWrites = 0
  /\ graph' = Construct(nodes, "caller")
  /\ UNCHANGED <<disk, workflows, loadAnswer, fileWrites>>

DependsOf(nodes, id) == (CHOOSE node \in ToSet(nodes) : node.id = id).depends

\* dfs: pending holds, outermost first, what each call on the stack still has to visit; the
\* first is the loop over all nodes.  path holds the nodes of the calls.
Called == Head(Last(graph.pending))
Advanced == [graph.pending EXCEPT ![Len(graph.pending)] = Tail(Last(graph.pending))]

\* Mutation: the test for a node seen before comes first, and counts the nodes of the path.
DfsCallSeenFirst ==
  /\ graph.at = "searching"
  /\ Last(graph.pending) # <<>>
  /\ graph' = IF Called \in graph.visited \cup graph.active
              THEN [graph EXCEPT !.pending = Advanced]
              ELSE [graph EXCEPT !.pending = Append(Advanced, DependsOf(graph.nodes, Called)),
                                 !.path = Append(@, Called),
                                 !.active = @ \cup {Called}]
  /\ UNCHANGED <<disk, workflows, loadAnswer, fileWrites>>

DfsCall ==
  /\ graph.at = "searching"
  /\ Last(graph.pending) # <<>>
  /\ graph' = IF Called \in graph.active THEN [graph EXCEPT !.at = "cycle"]
              ELSE IF Called \in graph.visited THEN [graph EXCEPT !.pending = Advanced]
              ELSE [graph EXCEPT !.pending = Append(Advanced, DependsOf(graph.nodes, Called)),
                                 !.path = Append(@, Called),
                                 !.active = @ \cup {Called}]
  /\ UNCHANGED <<disk, workflows, loadAnswer, fileWrites>>

DfsReturn ==
  /\ graph.at = "searching"
  /\ Last(graph.pending) = <<>>
  /\ graph' = IF graph.path = <<>> THEN [graph EXCEPT !.at = "accepted"]
              ELSE [graph EXCEPT !.pending = Front(@),
                                 !.path = Front(@),
                                 !.active = @ \ {Last(graph.path)},
                                 !.visited = @ \cup {Last(graph.path)}]
  /\ UNCHANGED <<disk, workflows, loadAnswer, fileWrites>>

\* The caller drops the graph, or handles the error.
Discard ==
  /\ graph # NoGraph
  /\ graph.at # "searching"
  /\ graph' = NoGraph
  /\ UNCHANGED <<disk, workflows, loadAnswer, fileWrites>>

\* ready_nodes, with nothing running or failed.
ReadyNodes(nodes, completed) ==
  {i \in DOMAIN nodes : nodes[i].id \notin completed /\ Depends(nodes[i]) \subseteq completed}

WorkflowNext ==
  \/ \E p \in Paths, c \in WorkflowFiles \cup {Missing} : WriteFile(p, c)
  \/ \E p \in Paths, replace \in BOOLEAN : LoadWorkflow(p, replace)
  \/ \E k \in WorkflowKeys : BuildLoaded(k)
  \/ \E nodes \in CallerGraphs : BuildGraph(nodes)
  \/ DfsCall
  \/ DfsReturn
  \/ Discard

WorkflowSpec == WorkflowInit /\ [][WorkflowNext]_workflowVars

-----------------------------------------------------------------------------
WorkflowTypeOK ==
  /\ DOMAIN disk = Paths /\ \A p \in Paths : disk[p] \in WorkflowFiles \cup {Missing}
  /\ DOMAIN workflows = WorkflowKeys
  /\ graph.at \in {"none", "duplicate", "unknown", "searching", "cycle", "accepted"}
  /\ fileWrites \in 0..MaxFileWrites

(* The verdict of _validate_acyclic is the one the scheduler needs.  From an accepted graph,      *)
(* whatever has completed, ready_nodes finds a node unless all have (TaskScheduler.execute would  *)
(* otherwise stop with nodes left); and a graph is refused as cyclic only if some of its nodes    *)
(* wait for each other.                                                                           *)
AcceptedNeverStalls ==
  /\ graph.at = "accepted" =>
       \A completed \in SUBSET Ids(graph.nodes) :
         completed # Ids(graph.nodes) => ReadyNodes(graph.nodes, completed) # {}
  /\ graph.at = "cycle" =>
       \E stuck \in SUBSET Ids(graph.nodes) \ {{}} :
         \A i \in DOMAIN graph.nodes :
           graph.nodes[i].id \in stuck => Depends(graph.nodes[i]) \cap stuck # {}

(* What the schema lets through, TaskGraph takes, cycles excepted: a loaded workflow is never     *)
(* refused for a duplicate id or an unknown dependency, though the schema looks at the ids after  *)
(* they were read from text with blanks around them and TaskGraph at the ids it is given.         *)
LoadedOnlyCycles ==
  graph # NoGraph /\ graph.origin = "workflow" => graph.at \notin {"duplicate", "unknown"}

\* Together: what the loader and TaskGraph accept the scheduler can finish.
GraphsSound == AcceptedNeverStalls /\ LoadedOnlyCycles
=============================================================================
