--------------------------- MODULE PlatformStartup ---------------------------
(***************************************************************************)
(* Starting one server process: create_app reads the environment into settings, refuses unsafe ones,
   builds the default provider, and bootstraps the stores and the module facades; while it serves,
   the host may replace attributes of app.state, and every request re-synchronises the facades with
   app.state before it uses them.

   Environment variables are abstracted to the classes the code tells apart: unset, blank, a
   development default (also with blanks around it), a real value.  The process may stop and be
   started again under another environment.  Routers, CORS, OpenAPI and the OTLP exporters keep no
   state the properties speak of and are left out.                                              *)
(***************************************************************************)
EXTENDS Naturals, FiniteSets

CONSTANTS
  Environments,   \* the environments the process may be started under
  SessionStores,  \* session stores a host may put on app.state, besides the one bootstrap opens
  MaxReplacements,\* bound on the attributes a host replaces
  MaxLaunches     \* bound on the starts of the process

ASSUME StartupAssumption == MaxReplacements \in Nat /\ MaxLaunches \in Nat

DevelopmentEnvironments == {"development", "test"}
Secrets == {"worker", "artifact", "audit"}
Unset == "unset"

ASSUME EnvironmentAssumption ==
  \A env \in Environments, s \in Secrets :
    env.secrets[s] \in {Unset, "blank", "dev", "padded_dev", "real"}

VARIABLES
  environment,  \* the variables of the process
  launch,       \* how far create_app has come: its step, the settings and the provider it built
  appState,     \* app.state: settings, session store, provider registry, tenant factory, modules
  facades,      \* the module container the requests use
  factories,    \* per tenant factory: the session store it and its context builder hold
  replacements, launches

startupVars == <<environment, launch, appState, facades, factories, replacements, launches>>
served == <<appState, facades, factories, replacements>>

NoApp == "none"

(***************************************************************************)
(* Settings: _default_settings and its helpers                                                   *)
(***************************************************************************)
\* os.environ.get(name, default): a blank value is not a missing one.
Env(value, default) == IF value = Unset THEN default ELSE value

\* str(value).strip(): blanks alone become empty, blanks around a value go.
Strip(value) == CASE value \in {"blank", "", Unset} -> ""
                  [] value = "padded_dev" -> "dev"
                  [] OTHER -> value

\* str(environment).strip().lower()
NormalizedName(name) == IF name \in {"Development", "development"} THEN "development" ELSE name
DevMode(settings) == NormalizedName(settings.environment) \in DevelopmentEnvironments

\* EXO_CONTROL_STATE_BACKEND: anything but sqlite is memory.
ControlStateBackend(value) == IF Strip(value) = "sqlite" THEN "sqlite" ELSE "memory"

\* _env_int_non_negative: unset, blank and unreadable give the default 0, negative is clamped to 0.
NonNegative(value) == IF value = "many" THEN "many" ELSE "zero"

\* The other integers go through int() unguarded: an unreadable one ends create_app.
ReadableNumbers(env) == env.number \notin {"bad", "blank"}

DefaultSettings(env) ==
  [environment |-> Env(env.name, "development"),
   secrets |-> [s \in Secrets |-> Env(env.secrets[s], "dev")],
   jwt |-> Env(env.jwt, ""), jwks |-> Env(env.jwks, ""),
   control |-> ControlStateBackend(env.control),
   cachedSessions |-> NonNegative(env.cached),
   crossTenantAdmin |-> env.crossTenantAdmin]

\* Mutation: the values are compared as they stand, so a padded or blank one passes.
ValidSecretsUnstripped(settings) ==
  DevMode(settings) \/ \A s \in Secrets : settings.secrets[s] \notin {"", "dev"}

\* validate_non_dev_secrets: outside development every signing secret is present and not the
\* development one, and a JWT secret used without JWKS has its 32 characters.
ValidSecrets(settings) ==
  \/ DevMode(settings)
  \/ /\ \A s \in Secrets : Strip(settings.secrets[s]) \notin {"", "dev"}
     /\ ~(Strip(settings.jwt) = "short" /\ Strip(settings.jwks) = "")

(***************************************************************************)
(* The default provider: build_default_provider_registry and load_adapter                        *)
(***************************************************************************)
\* canonicalize_adapter_class_ref: the aliases of an adapter name its one class.
Canonical(ref) == IF ref = "OpenAIAlias" THEN "OpenAI" ELSE ref

\* _load_adapter_class: the reference must name an importable RuntimeAdapter class.
Loads(ref) == ref \in {"OpenAI", "Echo"}

\* A variable of the provider: its value, or, in development only, a default.
Chosen(settings, value, default) ==
  IF Strip(value) # "" THEN Strip(value) ELSE IF DevMode(settings) THEN default ELSE ""

ProviderRecord(settings, env) ==
  LET api == Chosen(settings, env.apiType, "openai_native")
  IN [adapter |-> Canonical(Chosen(settings, env.adapter, "OpenAI")),
      apiType |-> api,
      baseUrl |-> IF Strip(env.baseUrl) # "" THEN Strip(env.baseUrl)
                  ELSE IF DevMode(settings) /\ api = "openai_native" THEN "openai.com" ELSE "",
      model |-> Chosen(settings, env.model, "gpt-4o-mini")]

\* Every missing part raises, and so does an unknown API type or an adapter that does not load.
Buildable(provider) ==
  /\ provider.apiType \in {"openai_native", "openai_compatible", "custom"}
  /\ provider.baseUrl # "" /\ provider.model # ""
  /\ Loads(provider.adapter)

(***************************************************************************)
(* The facades: build_app_modules, _sync_modules_from_state, _build_compat_modules_from_state    *)
(***************************************************************************)
Facades(settings, registry, store, factory) ==
  [settings |-> settings, crossTenantAdmin |-> settings.crossTenantAdmin,
   artifactSecret |-> settings.secrets["artifact"], auditSecret |-> settings.secrets["audit"],
   registry |-> registry, serviceRegistry |-> registry,
   store |-> store, serviceStore |-> store, factory |-> factory, serviceFactory |-> factory]

\* Mutation: only the factory itself is given the store, its context builder keeps the old one.
RewireFactoryOnly(held, store) == [held EXCEPT !.own = store]

\* The synchronisation also re-points the tenant factory and its context builder.
Rewire(held, store) == [own |-> store, builder |-> store]

\* The identity facade takes the roles, the tool and audit facades their secrets, from the current
\* settings; with no container on app.state a new one is built from its other attributes.
SyncModules ==
  /\ facades' = Facades(appState.settings, appState.registry, appState.store, appState.factory)
  /\ factories' = [factories EXCEPT ![appState.factory] = Rewire(@, appState.store)]

(***************************************************************************)
(* create_app                                                                                    *)
(***************************************************************************)
Stopped == [at |-> "down", settings |-> NoApp, provider |-> NoApp]

StartupInit ==
  /\ environment \in Environments
  /\ launch = Stopped
  /\ appState = NoApp /\ facades = NoApp
  /\ factories = [f \in {"built", "given"} |-> [own |-> "none", builder |-> "none"]]
  /\ replacements = 0 /\ launches = 0

\* The process exits with an exception; the operator may change the environment and try again.
RefuseStart == launch' = [launch EXCEPT !.at = "refused"]

ChangeEnvironment ==
  /\ launch.at \in {"down", "refused"}
  /\ environment' \in Environments
  /\ launch' = Stopped
  /\ UNCHANGED <<served, launches>>

LoadSettings ==
  /\ launch.at = "down" /\ launches < MaxLaunches
  /\ launches' = launches + 1
  /\ IF ReadableNumbers(environment)
     THEN launch' = [launch EXCEPT !.at = "settings", !.settings = DefaultSettings(environment)]
     ELSE RefuseStart
  /\ UNCHANGED <<environment, served>>

CheckSettings ==
  /\ launch.at = "settings"
  /\ IF ValidSecrets(launch.settings)
     THEN launch' = [launch EXCEPT !.at = "registry"]
     ELSE RefuseStart
  /\ UNCHANGED <<environment, served, launches>>

BuildRegistry ==
  /\ launch.at = "registry"
  /\ LET provider == ProviderRecord(launch.settings, environment)
     IN IF Buildable(provider)
        THEN launch' = [launch EXCEPT !.at = "bootstrap", !.provider = provider]
        ELSE RefuseStart
  /\ UNCHANGED <<environment, served, launches>>

\* bootstrap checks the secrets again, opens the stores, and fills app.state and the container.
Bootstrap ==
  /\ launch.at = "bootstrap"
  /\ ValidSecrets(launch.settings)
  /\ launch' = [launch EXCEPT !.at = "serving"]
  /\ appState' = [settings |-> launch.settings, registry |-> "default", store |-> "sqlite",
                  factory |-> "built", modules |-> TRUE]
  /\ factories' = [factories EXCEPT !["built"] = [own |-> "sqlite", builder |-> "sqlite"]]
  /\ facades' = Facades(launch.settings, "default", "sqlite", "built")
  /\ UNCHANGED <<environment, replacements, launches>>

StopServer ==
  /\ launch.at = "serving"
  /\ launch' = Stopped
  /\ appState' = NoApp /\ facades' = NoApp
  /\ UNCHANGED <<environment, factories, replacements, launches>>

\* The host (an embedding program or a test) assigns an attribute of app.state.
ReplaceState ==
  /\ launch.at = "serving" /\ replacements < MaxReplacements
  /\ replacements' = replacements + 1
  /\ \/ \E store \in SessionStores : appState' = [appState EXCEPT !.store = store]
     \/ appState' = [appState EXCEPT !.registry = "given"]
     \/ appState' = [appState EXCEPT !.factory = "given"]
     \/ appState' = [appState EXCEPT !.settings.crossTenantAdmin = ~@]
     \/ appState' = [appState EXCEPT !.modules = FALSE]
  /\ UNCHANGED <<environment, launch, facades, factories, launches>>

\* app_modules_from_requestlike: every request synchronises before it reads a facade.
Request ==
  /\ launch.at = "serving"
  /\ SyncModules
  /\ UNCHANGED <<environment, launch, appState, replacements, launches>>

StartupNext ==
  \/ ChangeEnvironment \/ LoadSettings \/ CheckSettings \/ BuildRegistry \/ Bootstrap
  \/ StopServer \/ ReplaceState \/ Request

StartupSpec == StartupInit /\ [][StartupNext]_startupVars

(***************************************************************************)
(* Properties                                                                                    *)
(***************************************************************************)
StartupTypeOK ==
  /\ environment \in Environments
  /\ launch.at \in {"down", "settings", "registry", "bootstrap", "serving", "refused"}
  /\ replacements \in 0..MaxReplacements /\ launches \in 0..MaxLaunches

\* Outside development a process serves only with signing secrets of its own, a JWT secret that is
\* long enough or a JWKS endpoint, and a provider whose adapter, API type, URL and model were all
\* given to it, however the variables were written (validate_non_dev_secrets and
\* build_default_provider_registry).
ServesConfigured ==
  launch.at = "serving" /\ environment.name \notin {Unset, "development", "Development", "test"} =>
    /\ \A s \in Secrets : environment.secrets[s] = "real"
    /\ environment.jwt # "short" \/ environment.jwks \notin {Unset, "blank"}
    /\ \A value \in {environment.adapter, environment.apiType, environment.baseUrl,
                     environment.model} : value \notin {Unset, "blank"}

\* Whatever the host replaces on app.state, the facades of a request work on one session store (the
\* one the tenant factory and its context builder use), one provider registry, and the secrets and
\* roles of one settings object (_sync_modules_from_state).
FacadesAgree ==
  launch.at = "serving" =>
    /\ facades.store = facades.serviceStore /\ facades.factory = facades.serviceFactory
    /\ factories[facades.factory] = [own |-> facades.store, builder |-> facades.store]
    /\ facades.registry = facades.serviceRegistry
    /\ facades.artifactSecret = facades.settings.secrets["artifact"]
    /\ facades.auditSecret = facades.settings.secrets["audit"]
    /\ facades.crossTenantAdmin = facades.settings.crossTenantAdmin

\* Together: a process that serves is configured, and its parts work on the same objects.
StartupSound == ServesConfigured /\ FacadesAgree
=============================================================================
