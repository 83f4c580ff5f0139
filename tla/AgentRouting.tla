---------------------------- MODULE AgentRouting ----------------------------
(***************************************************************************)
(* The agents of one tenant: AgentRegistry (agents, the roles they hold,   *)
(* handoff routes between roles and the fallbacks of a route), the rows of *)
(* the agents table, plugins that bring agents and routes along, and the   *)
(* handoff that the orchestrator resolves when a turn asks for one.        *)
(*                                                                         *)
(* Every method is synchronous.  Roles are bound to agents, never kept     *)
(* apart from them, so _roles is derived.  Routes, policies and plugins    *)
(* live in the registry only: they are gone after a restart, or when the   *)
(* tenant's context is evicted.                                            *)
(***************************************************************************)
EXTENDS Integers, Sequences, FiniteSets

CONSTANTS
  Agents,          \* agent ids, 1..n in the order of their names
  Roles,
  Capabilities,
  AgentInputs,     \* the registrations that requests bring: [id, spec]
  RouteInputs,     \* the routes that requests add
  PolicyInputs,    \* the fallback policies that requests set
  Plugins,         \* the versions of one plugin: its agents, routes and policies in order
  Unbound          \* no agent

Pairs == Roles \X Roles
Specs == [role : Roles, caps : SUBSET Capabilities]
NoSpec == [role |-> Unbound, caps |-> {}]
AgentSpec(role, caps) == [role |-> role, caps |-> caps]

\* HandoffRoute and HandoffFallbackPolicy.
IsRoute(r) == {r.source, r.target} \subseteq Roles /\ r.required \subseteq Capabilities
IsPolicy(q) ==
  /\ {q.source, q.target} \subseteq Roles
  /\ DOMAIN q.priorities \subseteq Roles
  /\ \A r \in DOMAIN q.priorities : q.priorities[r] \in Int

\* An agent, a route or a policy of a plugin.
IsItem(i) ==
  \/ i.kind = "agent" /\ i.id \in Agents /\ i.spec \in Specs
  \/ i.kind = "route" /\ IsRoute(i)
  \/ i.kind = "policy" /\ IsPolicy(i)

ASSUME RoutingAssumption ==
  /\ Agents \subseteq Nat /\ IsFiniteSet(Agents)
  /\ Unbound \notin Roles \cup DOMAIN Plugins
  /\ \A i \in AgentInputs : i.id \in Agents /\ i.spec \in Specs
  /\ \A r \in RouteInputs : IsRoute(r)
  /\ \A q \in PolicyInputs : IsPolicy(q)
  /\ \A v \in DOMAIN Plugins :
       Len(Plugins[v]) \in Nat /\ \A k \in 1..Len(Plugins[v]) : IsItem(Plugins[v][k])

VARIABLES
  reg,             \* AgentRegistry: _agents, _routes, _fallback_roles, _fallback_role_priorities
  stored,          \* the agents table
  plugin,          \* the loaded version of the plugin, and the agents it registered
  lost             \* the tenant's context was evicted since the process started

routingVars == <<reg, stored, plugin, lost>>

\* No routes, no policies, no priorities.
Nothing == [x \in {} |-> {}]

EmptyRegistry ==
  [agents |-> [a \in Agents |-> NoSpec],
   routes |-> Nothing,         \* by source and target: the capabilities that are required
   fallback |-> Nothing,       \* ... and the fallback roles
   priorities |-> Nothing]     \* ... and their priorities

NoAgentRows == [a \in Agents |-> NoSpec]

NotLoaded == [version |-> Unbound, ids |-> {}]

RoutingInit ==
  /\ reg = EmptyRegistry
  /\ stored = NoAgentRows
  /\ plugin = NotLoaded
  /\ lost = FALSE

-----------------------------------------------------------------------------
(* AgentRegistry: every operation yields the registry it leaves, and       *)
(* whether it returned or raised.                                          *)

Registered(g, a) == g.agents[a] # NoSpec
HeldRoles(g) == {g.agents[a].role : a \in {b \in Agents : Registered(g, b)}}
AgentForRole(g, r) == CHOOSE a \in Agents : g.agents[a].role = r

Succeeds(g) == [reg |-> g, end |-> "returned"]
Raises(g) == [reg |-> g, end |-> "raised"]

\* register
Register(g, a, spec) ==
  IF Registered(g, a) \/ spec.role \in HeldRoles(g) THEN Raises(g)
  ELSE Succeeds([g EXCEPT !.agents = [@ EXCEPT ![a] = spec]])

Including(f, x, v) == [y \in DOMAIN f \cup {x} |-> IF y = x THEN v ELSE f[y]]
Without(f, S) == [x \in DOMAIN f \ S |-> f[x]]

\* Mutation: only the routes that start at the role are removed.
UnregisterOutgoing(g, a) ==
  [g EXCEPT !.agents[a] = NoSpec, !.routes = Without(@, {g.agents[a].role} \X Roles)]

\* unregister, of one agent after the other: the routes of their roles go, and so do the
\* policies of their own; in the policies of others the roles are struck out, but a policy
\* for handing over to one of them stays.  The order makes no difference.
UnregisterAll(g, S) ==
  LET roles == {g.agents[a].role : a \in {b \in Agents : b \in S /\ Registered(g, b)}}
      own == roles \X Roles
  IN [agents |-> [a \in Agents |-> IF a \in S THEN NoSpec ELSE g.agents[a]],
      routes |-> Without(g.routes, own \cup (Roles \X roles)),
      fallback |-> [p \in DOMAIN g.fallback \ own |-> g.fallback[p] \ roles],
      priorities |-> [p \in DOMAIN g.priorities \ own |-> Without(g.priorities[p], roles)]]

Unregister(g, a) == UnregisterAll(g, {a})

\* add_handoff_route
AddHandoffRoute(g, r) ==
  IF /\ {r.source, r.target} \subseteq HeldRoles(g)
     /\ r.required \subseteq g.agents[AgentForRole(g, r.target)].caps
    THEN Succeeds([g EXCEPT !.routes = Including(@, <<r.source, r.target>>, r.required)])
  ELSE Raises(g)

\* set_handoff_fallback_policy: the fallback roles are stored, known or not, before the
\* priorities are looked at; a priority for an unknown role raises after that.
SetFallbackPolicy(g, q) ==
  LET pair == <<q.source, q.target>>
      stripped == [g EXCEPT !.fallback = Including(@, pair, q.roles \ {q.target})]
  IN IF ~({q.source, q.target} \subseteq HeldRoles(g)) THEN Raises(g)
     ELSE IF ~(DOMAIN q.priorities \subseteq HeldRoles(g)) THEN Raises(stripped)
     ELSE Succeeds([stripped EXCEPT !.priorities = Including(@, pair, q.priorities)])

-----------------------------------------------------------------------------
(* Handoffs.                                                               *)

\* can_handoff, and the capability that the turn asks for.
Eligible(g, a, b, cap) ==
  LET pair == <<g.agents[a].role, g.agents[b].role>>
  IN pair \in DOMAIN g.routes /\ g.routes[pair] \cup cap \subseteq g.agents[b].caps

\* _fallback_roles.get
FallbackRoles(g, a, r) ==
  LET pair == <<g.agents[a].role, r>>
  IN IF pair \in DOMAIN g.fallback THEN g.fallback[pair] ELSE {}

\* Mutation: a fallback is taken without asking whether there is a route to it.
FallbacksUnchecked(g, a, r, cap) ==
  {b \in Agents : Registered(g, b)
                  /\ g.agents[b].role \in FallbackRoles(g, a, r)}

\* The agents of the fallback roles that could take over.
Fallbacks(g, a, r, cap) ==
  {b \in Agents : /\ Registered(g, b)
                  /\ g.agents[b].role \in FallbackRoles(g, a, r)
                  /\ Eligible(g, a, b, cap)}

\* ... of which the one with the highest priority is taken, the first by name among equals.
Priority(g, a, r, b) ==
  LET pair == <<g.agents[a].role, r>>
  IN IF pair \in DOMAIN g.priorities /\ g.agents[b].role \in DOMAIN g.priorities[pair]
       THEN g.priorities[pair][g.agents[b].role]
     ELSE 0

Best(g, a, r, S) ==
  CHOOSE b \in S : \A c \in S : \/ Priority(g, a, r, c) < Priority(g, a, r, b)
                                \/ Priority(g, a, r, c) = Priority(g, a, r, b) /\ b <= c

\* resolve_handoff_target, with a target role or (Unbound) without.
Resolve(g, a, r, cap) ==
  LET targets == {b \in Agents : Registered(g, b) /\ Eligible(g, a, b, cap)}
      others == Fallbacks(g, a, r, cap)
  IN IF r = Unbound
       THEN IF targets = {} THEN Unbound ELSE CHOOSE b \in targets : \A c \in targets : b <= c
     ELSE IF r \in HeldRoles(g) /\ AgentForRole(g, r) \in targets THEN AgentForRole(g, r)
     ELSE IF others # {} THEN Best(g, a, r, others)
     ELSE Unbound

\* _apply_agent_handoff: what a turn of agent a gets that asks for a handoff, unless it is
\* an error (an unknown agent, or nobody to hand over to).
Handoffs ==
  {h \in [from : Agents, role : Roles \cup {Unbound}, cap : SUBSET Capabilities] :
     Registered(reg, h.from) /\ Resolve(reg, h.from, h.role, h.cap) # Unbound}

-----------------------------------------------------------------------------
(* The routes of agents.py.                                                *)

\* save_agent inserts or replaces.
SaveAgent(a, spec) == stored' = [stored EXCEPT ![a] = spec]
DeleteAgent(a) == stored' = [stored EXCEPT ![a] = NoSpec]

RegisterAgent(a, spec) ==
  /\ Register(reg, a, spec).end = "returned"
  /\ reg' = Register(reg, a, spec).reg
  /\ SaveAgent(a, spec)
  /\ UNCHANGED <<plugin, lost>>

UnregisterAgent(a) ==
  /\ Registered(reg, a)
  /\ reg' = Unregister(reg, a)
  /\ DeleteAgent(a)
  /\ UNCHANGED <<plugin, lost>>

\* A request whose context was evicted before its route ran: the registry it changes is seen
\* by nobody, the row is.
StaleRequest(a, spec) ==
  /\ lost
  /\ SaveAgent(a, spec) \/ DeleteAgent(a)
  /\ UNCHANGED <<reg, plugin, lost>>

\* A policy that is answered 422 may have changed the registry all the same.
ChangeRouting ==
  /\ \/ \E r \in RouteInputs : reg' = AddHandoffRoute(reg, r).reg
     \/ \E q \in PolicyInputs : reg' = SetFallbackPolicy(reg, q).reg
  /\ UNCHANGED <<stored, plugin, lost>>

-----------------------------------------------------------------------------
(* Plugins.                                                                *)

\* What comes of one agent, route or policy, unless an earlier one has raised.
Step(s, item) ==
  IF s.end = "raised" THEN s
  ELSE LET done == CASE item.kind = "agent" -> Register(s.reg, item.id, item.spec)
                     [] item.kind = "route" -> AddHandoffRoute(s.reg, item)
                     [] item.kind = "policy" -> SetFallbackPolicy(s.reg, item)
       IN [reg |-> done.reg, end |-> done.end,
           ids |-> IF done.end = "returned" /\ item.kind = "agent" THEN s.ids \cup {item.id}
                   ELSE s.ids]

\* The state after every number of items.
Progress(g, items) ==
  LET after[k \in 0..Len(items)] ==
        IF k = 0 THEN [reg |-> g, end |-> "returned", ids |-> {}]
        ELSE Step(after[k - 1], items[k])
  IN after

\* load_plugin: what was registered is taken back when anything raises.  Routes and policies
\* between agents that were there before are not.
Load(g, items) ==
  LET last == Progress(g, items)[Len(items)]
  IN IF last.end = "returned" THEN last
     ELSE [reg |-> UnregisterAll(last.reg, last.ids), end |-> "raised", ids |-> {}]

Loaded(v, l) == [version |-> v, ids |-> l.ids]

LoadPlugin(v) ==
  /\ plugin = NotLoaded
  /\ LET l == Load(reg, Plugins[v])
     IN reg' = l.reg /\ plugin' = IF l.end = "returned" THEN Loaded(v, l) ELSE NotLoaded
  /\ UNCHANGED <<stored, lost>>

\* unload_plugin, refused while tasks that are not idempotent run.
UnloadPlugin ==
  /\ plugin # NotLoaded
  /\ reg' = UnregisterAll(reg, plugin.ids)
  /\ plugin' = NotLoaded
  /\ UNCHANGED <<stored, lost>>

\* reload_plugin: unload, load, and the previous version again when that raises (which may
\* raise itself).
ReloadPlugin(v) ==
  /\ plugin # NotLoaded
  /\ LET without == UnregisterAll(reg, plugin.ids)
         new == Load(without, Plugins[v])
         old == Load(new.reg, Plugins[plugin.version])
     IN IF new.end = "returned" THEN reg' = new.reg /\ plugin' = Loaded(v, new)
        ELSE /\ reg' = old.reg
             /\ plugin' = IF old.end = "returned" THEN Loaded(plugin.version, old) ELSE NotLoaded
  /\ UNCHANGED <<stored, lost>>

-----------------------------------------------------------------------------
(* Contexts and the process.                                               *)

\* The context is evicted: the next one starts with an empty registry.
LoseContext ==
  /\ reg' = EmptyRegistry
  /\ plugin' = NotLoaded
  /\ lost' = TRUE
  /\ UNCHANGED stored

\* list_agents
ListAgents == {a \in Agents : stored[a] # NoSpec}

\* hydrate_tenant_registries: the stored agents are registered in the order of their ids; one
\* whose role is taken, by the first with that role, is passed over.
Hydrate ==
  /\ reg' = [EmptyRegistry EXCEPT !.agents =
               [a \in Agents |-> IF \A b \in ListAgents : b < a => stored[b].role # stored[a].role
                                   THEN stored[a]
                                 ELSE NoSpec]]
  /\ plugin' = NotLoaded
  /\ lost' = FALSE
  /\ UNCHANGED stored

RoutingNext ==
  \/ \E i \in AgentInputs : RegisterAgent(i.id, i.spec) \/ StaleRequest(i.id, i.spec)
  \/ \E a \in Agents : UnregisterAgent(a)
  \/ ChangeRouting
  \/ \E v \in DOMAIN Plugins : LoadPlugin(v) \/ ReloadPlugin(v)
  \/ UnloadPlugin
  \/ LoseContext
  \/ Hydrate

RoutingSpec == RoutingInit /\ [][RoutingNext]_routingVars

-----------------------------------------------------------------------------
(* Properties.                                                             *)

\* Type invariant.
RoutingTypeOK ==
  /\ reg.agents \in [Agents -> Specs \cup {NoSpec}]
  /\ DOMAIN reg.routes \cup DOMAIN reg.fallback \cup DOMAIN reg.priorities \subseteq Pairs
  /\ stored \in [Agents -> Specs \cup {NoSpec}]
  /\ plugin = NotLoaded \/ plugin.version \in DOMAIN Plugins

\* Nothing in the registry points at what is gone, after any sequence of registrations,
\* removals, plugin loads that fail half-way, reloads and restarts: a role has one agent, a
\* route joins roles that are held and its target has what it requires (also when the role
\* passed to another agent), a policy belongs to a role that is held, and so do priorities.
RoutingClean ==
  /\ \A a, b \in Agents : Registered(reg, a) /\ reg.agents[a].role = reg.agents[b].role => a = b
  /\ \A p \in DOMAIN reg.routes :
       /\ {p[1], p[2]} \subseteq HeldRoles(reg)
       /\ reg.routes[p] \subseteq reg.agents[AgentForRole(reg, p[2])].caps
  /\ \A p \in DOMAIN reg.fallback : p[1] \in HeldRoles(reg)
  /\ \A p \in DOMAIN reg.priorities : {p[1]} \cup DOMAIN reg.priorities[p] \subseteq HeldRoles(reg)

\* A turn is handed over along a route only, to a registered agent that has what the
\* turn and the route require, whether it is the target, a fallback or the first that fits;
\* and a fallback never takes the place of a target that could have been used.
HandoffAllowed ==
  \A h \in Handoffs :
    LET b == Resolve(reg, h.from, h.role, h.cap)
        pair == <<reg.agents[h.from].role, reg.agents[b].role>>
    IN /\ Registered(reg, b) /\ pair \in DOMAIN reg.routes
       /\ reg.routes[pair] \cup h.cap \subseteq reg.agents[b].caps
       /\ \A c \in Agents : Registered(reg, c) /\ reg.agents[c].role = h.role
                           /\ Eligible(reg, h.from, c, h.cap) => b = c

\* Together: the registry is consistent, and so is every handoff it resolves.
RoutingSound == RoutingClean /\ HandoffAllowed
=============================================================================
