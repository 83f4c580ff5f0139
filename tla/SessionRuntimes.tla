-------------------------- MODULE SessionRuntimes --------------------------
(***************************************************************************)
(* Sessions: the caches of TenantRuntimeFactory (tenant contexts and the   *)
(* runtimes of sessions), the rows of the session store, and the providers *)
(* that sessions are bound to.                                             *)
(*                                                                         *)
(* A route runs on the event loop and is interrupted where it awaits the   *)
(* session store, whose methods run in a thread, or the health check of an *)
(* adapter.  The provider and agent stores never suspend.  A statement in  *)
(* a thread reads or writes at one moment, and its route goes on at a      *)
(* later one.  The clock is left out: the sessions that have been idle too *)
(* long are some of those used least recently, and how many is a choice.   *)
(***************************************************************************)
EXTENDS Naturals, Sequences, FiniteSets

CONSTANTS
  SessionTenants,
  Providers,
  Configured,      \* the providers that the settings name; they have no row
  MaxSessions,     \* bound: sessions created
  MaxCached,       \* session_runtime_max_cached_sessions
  MaxContexts      \* tenant_runtime_max_cached_contexts

ASSUME SessionsAssumption ==
  /\ Configured \subseteq Providers /\ "none" \notin Providers
  /\ {MaxSessions, MaxCached, MaxContexts} \subseteq Nat \ {0}

Sids == 1..MaxSessions
NotCreated == [tenant |-> "none", provider |-> "none"]
NoRemoval == [pc |-> "none", drain |-> FALSE, found |-> FALSE]

VARIABLES
  contexts,        \* _contexts, the one touched least recently first
  with_agent,      \* the tenants whose cached context has the agent registered
  agent_rows,      \* the tenants whose agent is in the agents table
  lru,             \* the sessions with a cached runtime, the least recently used first
  session,         \* what each session was created with
  row,             \* sessions.state, per session
  saving,          \* sessions whose create_session waits for save_session
  providers,       \* ProviderRegistry._providers
  provider_rows,   \* the providers table
  checking,        \* providers whose register_provider waits for the health check
  removal          \* per provider, the unregister_provider under way

sessionVars == <<contexts, with_agent, agent_rows, lru, session, row, saving, providers,
                 provider_rows, checking, removal>>

Entries(seq) == {seq[i] : i \in 1..Len(seq)}
Cached == Entries(lru)
CachedContexts == Entries(contexts)

SessionsInit ==
  /\ contexts = <<>>
  /\ with_agent = {}
  /\ agent_rows = {}
  /\ lru = <<>>
  /\ session = [s \in Sids |-> NotCreated]
  /\ row = [s \in Sids |-> "none"]
  /\ saving = {}
  /\ providers = Configured
  /\ provider_rows = {}
  /\ checking = {}
  /\ removal = [p \in Providers |-> NoRemoval]

-----------------------------------------------------------------------------
(* The caches.                                                             *)

\* The entries of seq that are in S, in their order: the k-th is the one that k of them
\* come up to.
Places(seq, S) == {i \in 1..Len(seq) : seq[i] \in S}
Rank(places, i) == Cardinality({j \in places : j <= i})
Kept(seq, S) ==
  [k \in 1..Cardinality(Places(seq, S)) |->
     seq[CHOOSE i \in Places(seq, S) : Rank(Places(seq, S), i) = k]]

Touched(seq, x) == Append(Kept(seq, Entries(seq) \ {x}), x)

\* _evict_idle_sessions_only, when the first k have been idle for longer than the ttl.
EvictIdle(k) == SubSeq(lru, k + 1, Len(lru))

\* _evict_lru_until_under_cap
EvictLru(sessions) ==
  IF Len(sessions) < MaxCached THEN sessions
  ELSE SubSeq(sessions, Len(sessions) - MaxCached + 2, Len(sessions))

\* _evict_tenant_contexts_over_capacity picks the contexts touched least recently ...
Victims(t) ==
  IF t \in CachedContexts THEN {}
  ELSE {contexts[i] : i \in {j \in 1..Len(contexts) : j <= Len(contexts) + 1 - MaxContexts}}

\* Mutation: the runtimes of the victims' sessions stay in the cache.
DestroyContextOnly(sessions, victims) == sessions

\* ... and destroys each, with the runtimes of its sessions.
Destroy(sessions, victims) ==
  Kept(sessions, {s \in Sids : session[s].tenant \notin victims})

\* A context is built with empty registries.  (Its tool executor, connector or sandbox are
\* the other modules'.)
BuildContext(t) == IF t \in CachedContexts THEN with_agent ELSE with_agent \ {t}

\* get_or_create, which every request of a tenant starts with.
GetOrCreate(t) ==
  /\ contexts' = Touched(Kept(contexts, CachedContexts \ Victims(t)), t)
  /\ with_agent' = BuildContext(t) \ Victims(t)

TenantRequest(t) ==
  /\ GetOrCreate(t)
  /\ \E k \in 0..Len(lru) : lru' = Destroy(EvictIdle(k), Victims(t))
  /\ UNCHANGED <<agent_rows, session, row, saving, providers, provider_rows, checking, removal>>

\* get_session_runtime: a turn looks up its session (404 when it is not cached).
UseSession(s) ==
  /\ \E k \in 0..Len(lru) :
       LET kept == EvictIdle(k)
       IN lru' = IF s \in Entries(kept) THEN Touched(kept, s) ELSE kept
  /\ UNCHANGED <<contexts, with_agent, agent_rows, session, row, saving, providers,
                 provider_rows, checking, removal>>

-----------------------------------------------------------------------------
(* create_session                                                          *)

\* The adapter is made from the class of the provider's record, else from that of the
\* registered adapter: it takes a registered provider, and no more.
Resolvable(p) == p \in providers

\* The assembler finds the agent in the registry of the context, and an adapter.
Assembles(t, p) == t \in with_agent' /\ Resolvable(p)

\* create_session_runtime makes room first, also for a session that is then refused.
MakeRoom(t, k) == EvictLru(Destroy(EvictIdle(k), Victims(t)))

\* The session gets its identity and its runtime, and create_session waits for the store.
NewSession(s, t, p, kept) ==
  /\ session[s] = NotCreated /\ \A r \in 1..(s - 1) : session[r] # NotCreated
  /\ session' = [session EXCEPT ![s] = [tenant |-> t, provider |-> p]]
  /\ lru' = Append(kept, s)
  /\ saving' = saving \cup {s}

\* 404 when the agent or the provider is not registered.
CreateSession(t, p) ==
  /\ GetOrCreate(t)
  /\ \E k \in 0..Len(lru) :
       \/ Assembles(t, p) /\ \E s \in Sids : NewSession(s, t, p, MakeRoom(t, k))
       \/ /\ ~Assembles(t, p)
          /\ lru' = MakeRoom(t, k)
          /\ UNCHANGED <<session, saving>>
  /\ UNCHANGED <<agent_rows, row, providers, provider_rows, checking, removal>>

\* The INSERT of save_session, in its thread; or it raises, and the request is answered 500.
SaveSession(s) ==
  /\ s \in saving
  /\ saving' = saving \ {s}
  /\ \/ row' = [row EXCEPT ![s] = "active"]
     \/ UNCHANGED row
  /\ UNCHANGED <<contexts, with_agent, agent_rows, lru, session, providers, provider_rows,
                 checking, removal>>

-----------------------------------------------------------------------------
(* Providers.                                                              *)

\* The registry and the table are changed one after the other, without an await in between
\* that suspends.
RegisterProvider(p) == providers' = providers \cup {p}
SaveProvider(p) == provider_rows' = provider_rows \cup {p}
UnregisterProvider(p) == providers' = providers \ {p}
DeleteProvider(p) == provider_rows' = provider_rows \ {p}

\* register_provider, up to the health check of the adapter (409 when it is registered).
BeginRegister(p) ==
  /\ p \notin providers
  /\ checking' = checking \cup {p}
  /\ UNCHANGED <<contexts, with_agent, agent_rows, lru, session, row, saving, providers,
                 provider_rows, removal>>

\* A healthy adapter is registered, and its row saved, without another look at the registry.
HealthAnswers(p) ==
  /\ p \in checking
  /\ checking' = checking \ {p}
  /\ \/ RegisterProvider(p) /\ SaveProvider(p)
     \/ UNCHANGED <<providers, provider_rows>>
  /\ UNCHANGED <<contexts, with_agent, agent_rows, lru, session, row, saving, removal>>

ActiveOf(p) == {s \in Sids : row[s] = "active" /\ session[s].provider = p}

Removing(p, pc) == removal[p].pc = pc
GoOn(p, pc) == removal' = [removal EXCEPT ![p].pc = pc]

\* unregister_provider; drain stands for force_drain where the settings and the role allow it.
BeginUnregister(p, drain) ==
  /\ Removing(p, "none")
  /\ removal' = [removal EXCEPT ![p] = [pc |-> "count", drain |-> drain, found |-> FALSE]]
  /\ UNCHANGED <<contexts, with_agent, agent_rows, lru, session, row, saving, providers,
                 provider_rows, checking>>

\* count_active_sessions_by_provider, in its thread.
CountActive(p, from, to) ==
  /\ Removing(p, from)
  /\ removal' = [removal EXCEPT ![p].pc = to, ![p].found = ActiveOf(p) # {}]
  /\ UNCHANGED <<contexts, with_agent, agent_rows, lru, session, row, saving, providers,
                 provider_rows, checking>>

\* The provider goes from the registry and from the table, whichever has it.
DropProvider(p) ==
  /\ Removing(p, "counted") \/ Removing(p, "recounted")
  /\ ~removal[p].found
  /\ UnregisterProvider(p)
  /\ DeleteProvider(p)
  /\ removal' = [removal EXCEPT ![p] = NoRemoval]
  /\ UNCHANGED <<contexts, with_agent, agent_rows, lru, session, row, saving, checking>>

\* 409, or on to the drain.
FoundActive(p) ==
  /\ removal[p].found
  /\ \/ Removing(p, "counted") /\ removal[p].drain /\ GoOn(p, "drain")
     \/ /\ Removing(p, "recounted") \/ (Removing(p, "counted") /\ ~removal[p].drain)
        /\ removal' = [removal EXCEPT ![p] = NoRemoval]
  /\ UNCHANGED <<contexts, with_agent, agent_rows, lru, session, row, saving, providers,
                 provider_rows, checking>>

\* deactivate_sessions_by_provider, in its thread.
DeactivateSessions(p) ==
  /\ Removing(p, "drain")
  /\ row' = [s \in Sids |-> IF s \in ActiveOf(p) THEN "cancelled" ELSE row[s]]
  /\ GoOn(p, "drained")
  /\ UNCHANGED <<contexts, with_agent, agent_rows, lru, session, saving, providers,
                 provider_rows, checking>>

\* Mutation: only the runtimes of sessions that are still active are evicted.
EvictActiveSessionsForProvider(p) ==
  /\ Removing(p, "drained")
  /\ lru' = Kept(lru, Sids \ ActiveOf(p))
  /\ GoOn(p, "recount")
  /\ UNCHANGED <<contexts, with_agent, agent_rows, session, row, saving, providers,
                 provider_rows, checking>>

\* The route goes on: evict_sessions_for_provider.
EvictSessionsForProvider(p) ==
  /\ Removing(p, "drained")
  /\ lru' = Kept(lru, {s \in Sids : session[s].provider # p})
  /\ GoOn(p, "recount")
  /\ UNCHANGED <<contexts, with_agent, agent_rows, session, row, saving, providers,
                 provider_rows, checking>>

-----------------------------------------------------------------------------
(* Agents, as far as sessions need them, and the process.                  *)

\* register_agent and unregister_agent of the tenant's agent change the row, and the registry
\* of the context that the request resolved, which may have been evicted since.
ChangeAgent(t) ==
  /\ \/ agent_rows' = agent_rows \cup {t} /\ with_agent' = with_agent \cup ({t} \cap CachedContexts)
     \/ agent_rows' = agent_rows \ {t} /\ with_agent' = with_agent \ {t}
     \/ agent_rows' \in {agent_rows \cup {t}, agent_rows \ {t}} /\ UNCHANGED with_agent
  /\ UNCHANGED <<contexts, lru, session, row, saving, providers, provider_rows, checking, removal>>

\* Hydration registers the providers of the settings, and those of the table whose adapter
\* class can be loaded.
HydrateProviders == \E loaded \in SUBSET provider_rows : providers' = Configured \cup loaded

\* The process ends and starts again: hydration builds the contexts of the tenants that have
\* rows in some store, of which the cap keeps the last ones.
RestartServer ==
  /\ \E n \in 0..MaxContexts :
       /\ contexts' \in [1..n -> SessionTenants]
       /\ \A i, j \in 1..n : i # j => contexts'[i] # contexts'[j]
       /\ n < MaxContexts => agent_rows \subseteq {contexts'[i] : i \in 1..n}
       /\ with_agent' = agent_rows \cap {contexts'[i] : i \in 1..n}
  /\ HydrateProviders
  /\ lru' = <<>>
  /\ saving' = {}
  /\ checking' = {}
  /\ removal' = [p \in Providers |-> NoRemoval]
  /\ UNCHANGED <<agent_rows, session, row, provider_rows>>

SessionsNext ==
  \/ \E t \in SessionTenants : TenantRequest(t) \/ ChangeAgent(t)
  \/ \E t \in SessionTenants, p \in Providers : CreateSession(t, p)
  \/ \E s \in Sids : UseSession(s) \/ SaveSession(s)
  \/ \E p \in Providers :
       \/ BeginRegister(p) \/ HealthAnswers(p)
       \/ \E drain \in BOOLEAN : BeginUnregister(p, drain)
       \/ CountActive(p, "count", "counted") \/ CountActive(p, "recount", "recounted")
       \/ FoundActive(p) \/ DropProvider(p) \/ DeactivateSessions(p) \/ EvictSessionsForProvider(p)
  \/ RestartServer

SessionsSpec == SessionsInit /\ [][SessionsNext]_sessionVars

-----------------------------------------------------------------------------
(* Properties.                                                             *)

\* Type invariant.
SessionsTypeOK ==
  /\ Cached \subseteq Sids /\ Cardinality(Cached) = Len(lru) /\ Len(lru) <= MaxCached
  /\ Cardinality(CachedContexts) = Len(contexts) /\ Len(contexts) <= MaxContexts
  /\ with_agent \subseteq CachedContexts
  /\ row \in [Sids -> {"none", "active", "cancelled"}]
  /\ \A s \in Sids : session[s] = NotCreated => row[s] = "none" /\ s \notin saving \cup Cached
  /\ provider_rows \cup checking \subseteq Providers

\* No runtime outlives the context it was wired to: a turn never runs on the tool registry
\* and the policy of a context that destroy() has thrown away, whichever of the evictions
\* (idle, least recently used, tenants over capacity) came in between.
CachedHasContext == \A s \in Cached : session[s].tenant \in CachedContexts

\* A drain leaves no runtime behind: once unregister_provider has gone on from
\* deactivate_sessions_by_provider, no session that it cancelled can take another turn,
\* even one whose row was saved while the drain was under way.
DrainedIsEvicted ==
  \A s \in Sids : row[s] = "cancelled" /\ s \in Cached => Removing(session[s].provider, "drained")

\* "Unregister a provider. Returns 409 if active sessions use this provider."  (A provider
\* of the settings is back after a restart.)
ActiveHasProvider ==
  \A s \in Sids : row[s] = "active" => session[s].provider \in Configured \cup provider_rows

\* Together: a cached runtime belongs to a context that is there and a session that may go on.
RuntimesAreLive == CachedHasContext /\ DrainedIsEvicted
=============================================================================
