------------------------------ MODULE MCStores ------------------------------
(* The state that requests share, one lock or one transaction at a time: the two in-memory stores *)
(* of the connector, the durable result store under its submissions, the durable admission slots, *)
(* the rate limiter, the replay guard, the durable run registry, the API keys and credentials,    *)
(* and the tenant's stored policy with its gates.  In the models they share no state and never    *)
(* wait for each other, so the reachable states of each are the same whatever the others do;      *)
(* every behaviour follows one of them, which focus names.                                        *)
(*                                                                                                *)
(* Two jobs of one tenant, of different calls: both can be in the deque, in either order, and one *)
(* scan can requeue both.  Three keys: a job can meet a conflicting key twice, and a key can turn *)
(* up at both jobs.                                                                               *)
EXTENDS ByocJobStore, ByocResultStore, SqliteFairAdmission, RateLimiter, ReplayGuard,
        RunRegistrySqlite, ByocDurable, IdentityAccess, TenantPolicy, TLC

VARIABLE focus

storesVars == <<focus, storeVars, resultVars, slotVars, rateVars, guardVars, registryVars,
                durableVars, accessVars, policyVars>>

MCTenantOf == <<"acme", "acme">>
MCCallOf == <<"c1", "c2">>

(* TenantPolicy: overlays of every kind, an unknown plugin among them.                            *)

MCBodies ==
  {[deny |-> {"t"}],
   [profile |-> "default", mode |-> "monitor", threshold |-> 50, signals |-> {"jailbreak", "ok"}],
   [profile |-> "strict", max_chars |-> 3, rules |-> <<Rule("a", "deny", {"ok"})>>],
   [profile |-> "strict", max_chars |-> 5],
   [mode |-> "enforce", threshold |-> 0, phrases |-> {"jailbreak", "x"}],
   [plugin |-> "signed_v1"],
   [plugin |-> "signed_v2", mode |-> "shadow", signals |-> {"ok"}],
   [plugin |-> "unknown"]}
MCExtras == {NoOverlay, [deny |-> {"t"}], [plugin |-> "signed_v1"]}
MCTexts == {[size |-> 3, says |-> {"ok", "api key"}],
            [size |-> 2, says |-> {"bypass policy", "disable moderation"}]}

(* IdentityAccess: a role list with a blank entry, a token without tenant and one without subject. *)

MCRoleLists == {<< <<"super_admin">>, <<>> >>, << <<"dev", "ops">> >>}
MCJwts ==
  {[id |-> "j1", subject |-> TRUE, tenant |-> "", roles |-> << <<"platform_admin">> >>],
   [id |-> "j2", subject |-> FALSE, tenant |-> "t1", roles |-> << <<"super_admin">> >>]}
MCAssertions ==
  {[kind |-> "payload", subject |-> TRUE, tenant |-> "t1", roles |-> << <<"super_admin">> >>,
    state |-> "unknown"]}
MCDeployments ==
  {[environment |-> "test", jwt |-> FALSE, crossTenant |-> TRUE],
   [environment |-> "production", jwt |-> TRUE, crossTenant |-> FALSE]}

\* The settings of a component that is not in focus are fixed.
Fixed(S) == CHOOSE x \in S : TRUE

StoresInit ==
  /\ focus \in {"jobs", "results", "slots", "rate", "replay", "registry", "durable", "access",
                "policy"}
  /\ StoreInit
  /\ ResultInit /\ (focus # "results" => conflict_strategy = "first_write_wins")
  /\ SlotInit
  /\ RateInit /\ (focus # "rate" => backend = "memory")
  /\ GuardInit
  /\ RegistryInit
  /\ DurableInit /\ (focus # "durable" => strategy = "first_write_wins")
  /\ AccessInit /\ (focus # "access" => deployment = Fixed(Deployments))
  /\ PolicyInit

Still(component, unchanged) == IF focus = component THEN TRUE ELSE unchanged

OthersStill ==
  /\ UNCHANGED focus
  /\ Still("jobs", UNCHANGED storeVars) /\ Still("results", UNCHANGED resultVars)
  /\ Still("slots", UNCHANGED slotVars) /\ Still("rate", UNCHANGED rateVars)
  /\ Still("replay", UNCHANGED guardVars) /\ Still("registry", UNCHANGED registryVars)
  /\ Still("durable", UNCHANGED durableVars) /\ Still("access", UNCHANGED accessVars)
  /\ Still("policy", UNCHANGED policyVars)

StoresNext ==
  \/ focus = "jobs" /\ StoreNext /\ OthersStill
  \/ focus = "results" /\ ResultNext /\ OthersStill
  \/ focus = "slots" /\ SlotNext /\ OthersStill
  \/ focus = "rate" /\ RateNext /\ OthersStill
  \/ focus = "replay" /\ GuardNext /\ OthersStill
  \/ focus = "registry" /\ RegistryNext /\ OthersStill
  \/ focus = "durable" /\ DurableNext /\ OthersStill
  \/ focus = "access" /\ AccessNext /\ OthersStill
  \/ focus = "policy" /\ PolicyNext /\ OthersStill

StoresSpec == StoresInit /\ [][StoresNext]_storesVars

StoresSymmetry ==
  Permutations(Nodes) \cup Permutations(Submitters) \cup Permutations(DurableJobs)
=============================================================================
