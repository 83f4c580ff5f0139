----------------------------- MODULE MCRequests -----------------------------
(* The components that serve an admitted request, start-up, and the scripts beside the server.    *)
(* They share no state in the models and never wait for each other, so the reachable states of    *)
(* each are the same whatever the others do; every behaviour follows one of them, which focus     *)
(* names.                                                                                         *)
EXTENDS AgentRouting, ToolExecution, McpCalls, AuditTrail, PlatformStartup, SessionRuntimes,
        ByocBudget, ReleaseSignoff, BranchCleanup, WorkflowGraphs, PullRequestArtifacts

VARIABLE focus

requestsVars ==
  <<focus, routingVars, executionVars, mcpVars, auditVars, startupVars, signoffVars,
    cleanupVars, workflowVars, artifactVars, sessionVars, budgetVars>>

-----------------------------------------------------------------------------
(* AgentRouting: four registrations of three agents, one of them twice with another role; a       *)
(* plugin of two versions.                                                                        *)

MCAgents ==
  {[id |-> 1, spec |-> AgentSpec("r1", {})], [id |-> 2, spec |-> AgentSpec("r2", {"c"})],
   [id |-> 2, spec |-> AgentSpec("r3", {})], [id |-> 3, spec |-> AgentSpec("r2", {})]}
MCRoutes ==
  {[source |-> "r1", target |-> "r2", required |-> {"c"}],
   [source |-> "r1", target |-> "r3", required |-> {}]}
MCPolicies ==
  {[source |-> "r1", target |-> "r2", roles |-> {"r2", "r3"},
    priorities |-> [r \in {"r3"} |-> 1]]}
MCPlugins ==
  [v1 |-> << [kind |-> "agent", id |-> 3, spec |-> AgentSpec("r3", {})],
             [kind |-> "route", source |-> "r1", target |-> "r3", required |-> {}] >>,
   v2 |-> << [kind |-> "agent", id |-> 3, spec |-> AgentSpec("r3", {"c"})],
             [kind |-> "route", source |-> "r1", target |-> "r2", required |-> {"c"}],
             [kind |-> "policy", source |-> "r1", target |-> "r3", roles |-> {"r2"},
              priorities |-> [r \in {"r2"} |-> 1]] >>]

(* ToolExecution: calls of every tier, and one call per way of being refused.                     *)

MCCall(tool, tier, changes_state, caller, wants) ==
  [tool |-> tool, tier |-> tier, writes |-> changes_state, roles |-> caller, wants |-> wants,
   subject |-> TRUE, foreign |-> FALSE, scoped |-> FALSE, args |-> TRUE, valid |-> TRUE]
MCCalls ==
  {MCCall("tool:read", "low", FALSE, {"reader"}, "native"),
   MCCall("tool:write", "high", TRUE, {"operator"}, "native"),
   MCCall("tool:write", "critical", TRUE, {"admin"}, "deterministic"),
   MCCall("tool:write", "medium", TRUE, {"reader"}, "deterministic")}
  \cup {[MCCall("tool:read", "low", FALSE, {"reader"}, "deterministic") EXCEPT ![k] = ~@] :
          k \in {"foreign", "scoped", "args", "valid"}}
MCDescriptors ==
  {[attempts |-> 1, writes_allowed |-> TRUE], [attempts |-> 2, writes_allowed |-> FALSE]}
MCGate == [deny |-> {}, deny_tiers |-> {"critical"}, review |-> {}, review_tiers |-> {},
           review_writes |-> {FALSE}]
MCOverlays == {[deny |-> {"tool:write"}], [review_writes |-> {TRUE}], [review_tiers |-> {"low"}]}
MCPermissions == [reader |-> {"tool:execute"}, admin |-> {"*"},
                  operator |-> {"tool:execute", "tool:execute:high_impact"}]

(* AuditTrail: no secret, the legacy one, versioned ones with and without the active version.     *)

MCSigning(legacy, versioned, active) ==
  [legacy |-> legacy, versioned |-> versioned, active |-> active]
MCSettings ==
  {MCSigning("s1", [v \in {} |-> ""], "v1"), MCSigning("", [v \in {} |-> ""], "v1"),
   MCSigning("", [v \in {"v2"} |-> "s2"], "v3"), MCSigning("s1", [v \in {"v1", "v3"} |-> "s3"], "v3"),
   MCSigning("", [v \in {"v2", "v3"} |-> IF v = "v2" THEN "s2" ELSE "s3"], "v3")}

(* ByocBudget: a limit of one charge, and partitions above and below it.                          *)

MCCallKinds == {[provider |-> "p", tool |-> "a"], [provider |-> "q", tool |-> "b"]}
MCPartitionLimits == (<<"tool", "a">> :> 2) @@ (<<"provider", "p">> :> 0)
MCCosts == [success |-> 1, error |-> 1, timeout |-> 1, cancelled |-> 0]
MCSetting(enforce, windowed, scope, fair, nonblocking) ==
  [enforce |-> enforce, windowed |-> windowed, scope |-> scope, fair |-> fair,
   nonblocking |-> nonblocking]
MCBudgetSettings ==
  {MCSetting(TRUE, FALSE, "tenant", TRUE, FALSE), MCSetting(TRUE, TRUE, "per_tool", FALSE, FALSE),
   MCSetting(FALSE, FALSE, "per_provider", FALSE, TRUE)}
MCThresholds == [attempts |-> 1, utilization |-> 80, rate |-> 50, rejections |-> 1, share |-> 60]

(* PlatformStartup: every variable at every kind of value, one or two at a time, in two           *)
(* environments.                                                                                  *)

MCEnvironment ==
  [name |-> "production", secrets |-> [s \in Secrets |-> "real"],
   jwt |-> "long", jwks |-> "unset", control |-> "sqlite", cached |-> "many", number |-> "unset",
   crossTenantAdmin |-> FALSE, adapter |-> "OpenAIAlias", apiType |-> "openai_compatible",
   baseUrl |-> "url", model |-> "model"]
MCVariants(env) ==
  {env, [env EXCEPT !.baseUrl = "blank"], [env EXCEPT !.model = "unset"],
   [env EXCEPT !.control = "other", !.cached = "negative"]}
  \cup {[env EXCEPT !.secrets[s] = v] : s \in Secrets, v \in {"unset", "blank", "dev", "padded_dev"}}
  \cup {[env EXCEPT !.jwt = j, !.jwks = k] : j \in {"unset", "short"}, k \in {"unset", "blank", "url"}}
  \cup {[env EXCEPT !.adapter = a] : a \in {"unset", "blank", "Echo", "Unknown"}}
  \cup {[env EXCEPT !.apiType = a] : a \in {"unset", "blank", "openai_native", "bad"}}
  \cup {[env EXCEPT !.baseUrl = "unset", !.apiType = a] : a \in {"unset", "custom"}}
  \cup {[env EXCEPT !.number = n] : n \in {"bad", "blank"}}
MCEnvironments ==
  MCVariants(MCEnvironment) \cup MCVariants([MCEnvironment EXCEPT !.name = "Development"])

(* ReleaseSignoff: a gate whose output looks like a field of the report, and artifacts good, bad  *)
(* and absent.                                                                                    *)

MCLinks == <<"l1">>
MCOutputs == {<<>>, <<Field("Result", "PASS")>>}
MCMetrics ==
  {[file |-> "misshapen"], [file |-> "read", cost |-> "low", rejection |-> "low"],
   [file |-> "read", cost |-> "high", rejection |-> "low"]}
MCSnapshots == {[file |-> "absent"], [file |-> "read", before |-> TRUE, after |-> FALSE]}
MCUi == {[file |-> "broken"], [file |-> "read", status |-> "FAIL"]}

(* WorkflowGraphs: two nodes whose ids may be the same up to blanks, with a dependency each; one  *)
(* file per error; and as caller's graphs every graph of three nodes up to the order of           *)
(* dependencies, and a duplicate, an unknown dependency and none.                                 *)

MCRaw(id, deps) == [id |-> id, role |-> Plainly("r"), depends |-> deps, timeout |-> 30,
                    retries |-> 0, metadata |-> "object"]
MCPayload(nodes) == [schema |-> Plainly("1.0"), id |-> Plainly("w"), version |-> Padded("1"),
                     nodes |-> nodes, metadata |-> "object"]
MCFile(suffix, payload) == [suffix |-> suffix, document |-> "object", payload |-> payload]
MCDeps == {<<>>} \cup {<<t>> : t \in {Plainly("a"), Padded("a"), Plainly("b"), Blank}}
MCPairs ==
  {<<MCRaw(x, d), MCRaw(y, e)>> :
     x \in {Plainly("a"), Padded("a")}, y \in {Padded("a"), Plainly("b")}, d \in MCDeps, e \in MCDeps}
MCGood == MCRaw(Plainly("a"), <<>>)
MCBad ==
  {Odd, [MCGood EXCEPT !.id = Odd], [MCGood EXCEPT !.role = Blank], [MCGood EXCEPT !.depends = Odd],
   [MCGood EXCEPT !.timeout = 0], [MCGood EXCEPT !.retries = Odd], [MCGood EXCEPT !.metadata = Odd]}
MCBase == MCPayload(<<MCGood>>)
MCHeaders ==
  {MCBase, [MCBase EXCEPT !.version = Plainly("2")], [MCBase EXCEPT !.schema = Plainly("2.0")],
   [MCBase EXCEPT !.schema = Odd], [MCBase EXCEPT !.id = Blank], [MCBase EXCEPT !.version = Odd],
   [MCBase EXCEPT !.nodes = <<>>], [MCBase EXCEPT !.metadata = Odd]}
MCWorkflowFiles ==
  {MCFile(".json", MCPayload(nodes)) : nodes \in MCPairs \cup {<<MCGood, b>> : b \in MCBad}}
  \cup {MCFile(".yaml", p) : p \in MCHeaders}
  \cup {[suffix |-> s, document |-> d, payload |-> MCBase] :
          s \in {".json", ".yaml", ".txt"}, d \in {"malformed", "list"}}
MCTask(id, deps) == [id |-> id, depends |-> deps]
MCDependsOn ==
  {<<>>, <<"a">>, <<"b">>, <<"c">>, <<"a", "b">>, <<"b", "c">>, <<"c", "a">>, <<"c", "b", "a">>}
MCCallerGraphs ==
  {<<MCTask("a", x), MCTask("b", y), MCTask("c", z)>> :
     x \in MCDependsOn, y \in MCDependsOn, z \in MCDependsOn}
  \cup {<<MCTask("a", <<"z">>), MCTask("b", <<>>)>>, <<MCTask("a", <<>>), MCTask("a", <<>>)>>, <<>>}

(* PullRequestArtifacts: a test plan and index in order, an empty plan, an index without markers. *)

MCPlanningFiles ==
  {[plan |-> "text", index |-> "marked"], [plan |-> "empty", index |-> "marked"],
   [plan |-> "text", index |-> "text"]}

-----------------------------------------------------------------------------
\* The settings of a component that is not in focus are fixed.
Fixed(S) == CHOOSE x \in S : TRUE

RequestsInit ==
  /\ focus \in {"routing", "execution", "mcp", "audit", "startup", "signoff", "cleanup",
                "workflow", "artifacts", "sessions", "budget"}
  /\ RoutingInit /\ McpInit /\ SignoffInit /\ CleanupInit /\ WorkflowInit
  /\ ArtifactsInit /\ SessionsInit
  /\ ExecutionInit
  /\ focus # "execution" => /\ intents = [c \in CallIds |-> Fixed(CallInputs)]
                            /\ hosted = "none"
                            /\ tools = [t \in Tools |-> Fixed(Descriptors)]
  /\ AuditInit /\ (focus # "audit" => signing = Fixed(SigningSettings))
  /\ StartupInit /\ (focus # "startup" => environment = Fixed(Environments))
  /\ BudgetInit /\ (focus # "budget" => budget = Fixed(BudgetSettings))

Still(component, unchanged) == IF focus = component THEN TRUE ELSE unchanged

OthersStill ==
  /\ UNCHANGED focus
  /\ Still("routing", UNCHANGED routingVars) /\ Still("execution", UNCHANGED executionVars)
  /\ Still("mcp", UNCHANGED mcpVars) /\ Still("audit", UNCHANGED auditVars)
  /\ Still("startup", UNCHANGED startupVars)
  /\ Still("signoff", UNCHANGED signoffVars) /\ Still("cleanup", UNCHANGED cleanupVars)
  /\ Still("workflow", UNCHANGED workflowVars) /\ Still("artifacts", UNCHANGED artifactVars)
  /\ Still("sessions", UNCHANGED sessionVars) /\ Still("budget", UNCHANGED budgetVars)

RequestsNext ==
  \/ focus = "routing" /\ RoutingNext /\ OthersStill
  \/ focus = "execution" /\ ExecutionNext /\ OthersStill
  \/ focus = "mcp" /\ McpNext /\ OthersStill
  \/ focus = "audit" /\ AuditNext /\ OthersStill
  \/ focus = "startup" /\ StartupNext /\ OthersStill
  \/ focus = "signoff" /\ SignoffNext /\ OthersStill
  \/ focus = "cleanup" /\ CleanupNext /\ OthersStill
  \/ focus = "workflow" /\ WorkflowNext /\ OthersStill
  \/ focus = "artifacts" /\ ArtifactsNext /\ OthersStill
  \/ focus = "sessions" /\ SessionsNext /\ OthersStill
  \/ focus = "budget" /\ BudgetNext /\ OthersStill

RequestsSpec == RequestsInit /\ [][RequestsNext]_requestsVars
=============================================================================
