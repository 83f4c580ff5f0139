---------------------------- MODULE TenantPolicy ----------------------------
(***************************************************************************)
(* A tenant's policy overlay and the turns that it governs.  PUT policy    *)
(* and POST template/apply read the stored overlay, resolve the new one,   *)
(* wait for the audit trail to take the entitlement decision and then      *)
(* store it; a turn reads the overlay, waits twice for the audit trail and *)
(* starts its run if the entitlement and every ingress gate let it.  With  *)
(* the SQLite audit store each of those waits lets other requests in.      *)
(*                                                                         *)
(* An overlay is a function whose domain is the keys it sets.  Lengths are *)
(* in thousands of characters, scores and thresholds in percent, a text is *)
(* its length and the phrases that occur in it.  The checks of types and   *)
(* lengths of single values are one flag, the key "malformed".             *)
(***************************************************************************)
EXTENDS Naturals, Sequences, SequencesExt

CONSTANTS
  PolicyRequests, PolicyTurns,  \* identifiers of requests
  Bodies,          \* overlays that PUT policy is given
  Extras,          \* what an apply request adds to a template
  Texts,           \* inputs of turns: [size, says]
  CallerTiers      \* the tiers of the callers

ASSUME PolicyAssumption ==
  /\ \A o \in Bodies : DOMAIN o \subseteq STRING
  /\ \A t \in Texts : t.size \in Nat
  /\ CallerTiers \subseteq {"foundation", "pro", "enterprise"}

VARIABLES
  policy,          \* TenantPolicyOverlayStore: the tenant's overlay
  setter,          \* history: the tier of the caller who stored it, or "none"
  edits,           \* per request that changes the policy: where it is and what it holds
  governed         \* per turn: where it is, what it read and what was decided

policyVars == <<policy, setter, edits, governed>>

NoOverlay == [k \in {} |-> 0]
Get(o, key, default) == IF key \in DOMAIN o THEN o[key] ELSE default

\* dict(under) and then .update(over).
Updated(under, over) ==
  [k \in DOMAIN under \cup DOMAIN over |-> IF k \in DOMAIN over THEN over[k] ELSE under[k]]

-----------------------------------------------------------------------------
(* resolve_ingress_profile_settings.                                       *)

\* _INGRESS_PROFILE_BASELINES.  "jailbreak" stands for the four phrases that all of them have.
ProfileBaselines ==
  [baseline |-> [max_chars |-> 8, phrases |-> {"jailbreak"}],
   strict   |-> [max_chars |-> 4, phrases |-> {"jailbreak", "prompt leak"}],
   hardened |-> [max_chars |-> 2, phrases |-> {"jailbreak", "disable moderation"}]]

DefaultSignals == {"jailbreak", "disable moderation", "reveal secrets", "bypass safety"}

ProfileName(o) ==
  LET raw == Get(o, "profile", "baseline") IN IF raw = "default" THEN "baseline" ELSE raw

ClassifierMode(o) ==
  LET raw == Get(o, "mode", "off")
  IN CASE raw \in {"disabled", "none"} -> "off" [] raw = "monitor" -> "shadow" [] OTHER -> raw

Baseline(o) == ProfileBaselines[ProfileName(o)]

\* A tenant may tighten its profile and never relax it.
MaxChars(o) == Get(o, "max_chars", Baseline(o).max_chars)
MaxCharsAccepted(o) == MaxChars(o) \in 1..Baseline(o).max_chars

Phrases(o) == Get(o, "phrases", Baseline(o).phrases)
PhrasesAccepted(o) == Baseline(o).phrases \subseteq Phrases(o)

ClassifierAccepted(o) ==
  /\ ClassifierMode(o) \in {"off", "shadow", "enforce"}
  /\ Get(o, "threshold", 65) \in 0..100
  /\ Get(o, "signals", DefaultSignals) # {}

RulesAccepted(rules) ==
  /\ Len(rules) <= 20
  /\ IsInjective([i \in DOMAIN rules |-> rules[i].id])
  /\ \A i \in DOMAIN rules : rules[i].action \in {"deny", "escalate"} /\ rules[i].patterns # {}

Rule(id, action, patterns) == [id |-> id, action |-> action, patterns |-> patterns]

\* _SIGNED_INGRESS_PLUGINS, each signed by _build_signed_plugin over its rules.
SignedPlugins ==
  LET Signed(rules) == [core |-> 1, signer |-> "exo-security", sandbox |-> "declarative_rules_only",
                        rules |-> rules, digest |-> rules]
  IN [signed_v1 |-> Signed(<<Rule("credentials", "deny", {"private key", "seed phrase", "api key"}),
                             Rule("bypass", "escalate", {"bypass safety"})>>),
      signed_v2 |-> Signed(<<Rule("secrets", "deny", {"export secrets", "dump credentials"}),
                             Rule("exfiltration", "escalate", {"extract data"})>>)]

\* _validate_plugin_compatibility, _signer, _sandbox_policy and _signature.  The digest of an
\* untampered plugin covers its rules.
PluginTrusted(p) ==
  /\ p.core = 1
  /\ p.signer = "exo-security"
  /\ p.sandbox = "declarative_rules_only"
  /\ p.digest = p.rules

PluginAccepted(ref) ==
  ref # "" => ref \in DOMAIN SignedPlugins /\ PluginTrusted(SignedPlugins[ref])

Resolves(o) ==
  /\ "malformed" \notin DOMAIN o
  /\ ProfileName(o) \in DOMAIN ProfileBaselines
  /\ MaxCharsAccepted(o)
  /\ PhrasesAccepted(o)
  /\ ClassifierAccepted(o)
  /\ PluginAccepted(Get(o, "plugin", ""))
  /\ RulesAccepted(Get(o, "rules", <<>>))

\* IngressProfileResolution.to_overlay_patch: every ingress key is set.
OverlayPatch(o) ==
  [profile |-> ProfileName(o), max_chars |-> MaxChars(o), phrases |-> Phrases(o),
   mode |-> ClassifierMode(o), threshold |-> Get(o, "threshold", 65),
   signals |-> Get(o, "signals", DefaultSignals),
   plugin |-> Get(o, "plugin", ""), rules |-> Get(o, "rules", <<>>),
   timeout |-> Get(o, "timeout", 2000)]

Normalized(o) == Updated(o, OverlayPatch(o))

\* _POLICY_TEMPLATES
PolicyTemplates ==
  {[deny |-> {}, profile |-> "strict",
    rules |-> <<Rule("protocol", "escalate", {"bypass policy"})>>,
    mode |-> "shadow", threshold |-> 35,
    signals |-> {"ignore protocol", "bypass policy", "skip guardrails", "disable moderation"}],
   [deny |-> {"delete_records"}, profile |-> "hardened",
    rules |-> <<Rule("secrets", "deny", {"export secrets", "dump credentials"}),
                Rule("exfiltration", "escalate", {"extract data"})>>,
    mode |-> "enforce", threshold |-> 28,
    signals |-> {"export secrets", "dump credentials", "extract data", "bypass controls"}]}

\* Mutation: the bound on the input's length is not among the keys that a template governs.
LockedKeysButLength == {"profile", "phrases", "rules", "mode", "threshold", "signals", "plugin"}

\* _LOCKED_TEMPLATE_KEYS
LockedKeys == {"profile", "max_chars", "phrases", "rules", "mode", "threshold", "signals", "plugin"}

\* compile_policy_template_overlay before it is resolved: the template over what is kept of the
\* stored overlay, the request's own keys over both.
Compiled(template, kept, extra) ==
  LET unlocked == [k \in DOMAIN kept \ LockedKeys |-> kept[k]]
  IN Updated(Updated(Updated([deny |-> {}], unlocked), template), extra)

-----------------------------------------------------------------------------
(* Entitlements.                                                           *)

TierRank == [foundation |-> 0, pro |-> 1, enterprise |-> 2]

FeatureTier ==
  [baseline |-> "foundation", profile |-> "pro", custom_rules |-> "pro", classifier |-> "pro",
   signed_plugins |-> "enterprise", templates |-> "pro"]

Entitled(tier, feature) == TierRank[tier] >= TierRank[FeatureTier[feature]]

\* required_feature_for_governance_overlay looks at the keys as they are: an alias of a mode is
\* no mode, and a bound equal to the baseline's is one.
RequiredFeature(o) ==
  IF Get(o, "plugin", "") # "" THEN "signed_plugins"
  ELSE IF Get(o, "mode", "") \in {"shadow", "enforce"} THEN "classifier"
  ELSE IF Get(o, "rules", <<>>) # <<>> THEN "custom_rules"
  ELSE IF \/ Get(o, "profile", "baseline") \notin {"baseline", "default"}
          \/ Get(o, "max_chars", 0) > 0
          \/ Get(o, "phrases", {}) # {} THEN "profile"
  ELSE "baseline"

-----------------------------------------------------------------------------
(* The gates.                                                              *)

NoReport == [classifier |-> "none", plugin |-> "none"]
Pass == [action |-> "none", gate |-> "none", report |-> NoReport]
Decision(action, gate) == [action |-> action, gate |-> gate, report |-> NoReport]

EmptyInput(o, text) == IF text.size = 0 THEN Decision("deny", "empty") ELSE Pass

TooLong(o, text) == IF text.size > MaxChars(o) THEN Decision("deny", "too_long") ELSE Pass

\* IngressClassifierHeuristicGate: high risk is recorded in shadow mode and escalated in enforce
\* mode.
Classifier(o, text) ==
  LET signals == Get(o, "signals", DefaultSignals)
      matched == signals \cap text.says
      risky == /\ matched # {}
               /\ 100 * Cardinality(matched) >= Get(o, "threshold", 65) * Cardinality(signals)
      Reporting(action, seen) ==
        [Decision(action, "classifier") EXCEPT !.report.classifier = seen]
  IN CASE ClassifierMode(o) = "off" -> Pass
       [] risky /\ ClassifierMode(o) = "enforce" -> Reporting("escalate", "high")
       [] risky /\ ClassifierMode(o) = "shadow" -> Reporting("allow", "shadow")
       [] OTHER -> Reporting("allow", "low")

PromptInjection(o, text) ==
  IF Phrases(o) \cap text.says # {} THEN Decision("escalate", "injection") ELSE Pass

\* The first rule that matches decides.
FirstMatch(rules, text) ==
  LET matching == {i \in DOMAIN rules : rules[i].patterns \cap text.says # {}}
  IN IF matching = {} THEN 0 ELSE Min(matching)

CustomRules(o, text) ==
  LET rules == Get(o, "rules", <<>>)
      i == FirstMatch(rules, text)
  IN IF i = 0 THEN Pass ELSE Decision(rules[i].action, "rules")

PluginRules(o, text) ==
  LET rules == SignedPlugins[Get(o, "plugin", "")].rules
      i == FirstMatch(rules, text)
      Reporting(action, seen) == [Decision(action, "plugin") EXCEPT !.report.plugin = seen]
  IN IF Get(o, "plugin", "") = "" THEN Pass
     ELSE IF i = 0 THEN Reporting("allow", "unmatched")
     ELSE Reporting(rules[i].action, "matched")

\* build_ingress_gate_chain_from_overlay
GateChain(o, text) ==
  <<EmptyInput(o, text), TooLong(o, text), Classifier(o, text), PromptInjection(o, text),
    CustomRules(o, text), PluginRules(o, text)>>

\* _merge_allow_telemetry and _apply_allow_telemetry: what a gate reported stays unless a later
\* one reports on the same.
MergedReport(old, new) ==
  [f \in DOMAIN old |-> IF new[f] # "none" THEN new[f] ELSE old[f]]

\* Mutation: the decision of a gate that reports without blocking ends the loop.
AfterGateFinal(sofar, decision) ==
  IF sofar.gate # "chain" \/ decision.action = "none" THEN sofar ELSE decision

\* One round of the loop of IngressGateChain.evaluate.
AfterGate(sofar, decision) ==
  IF sofar.action # "allow" \/ decision.action = "none" THEN sofar
  ELSE [IF decision.action = "allow" THEN sofar ELSE decision
          EXCEPT !.report = MergedReport(sofar.report, decision.report)]

\* IngressGateChain.evaluate: the loop over the six gates of the chain.
IngressDecision(o, text) ==
  LET gate == GateChain(o, text)
      early == AfterGate(AfterGate(AfterGate(Decision("allow", "chain"), gate[1]), gate[2]), gate[3])
  IN AfterGate(AfterGate(AfterGate(early, gate[4]), gate[5]), gate[6])

-----------------------------------------------------------------------------
(* Requests that change the policy.                                        *)

NoEdit == [at |-> "idle", old |-> NoOverlay, new |-> NoOverlay, needs |-> {}, tier |-> "none"]

NoTurn ==
  [at |-> "idle", overlay |-> NoOverlay, text |-> [size |-> 0, says |-> {}], tier |-> "none",
   decision |-> Pass]

PolicyInit ==
  /\ policy = NoOverlay
  /\ setter = "none"
  /\ edits = [r \in PolicyRequests |-> NoEdit]
  /\ governed = [q \in PolicyTurns |-> NoTurn]

\* What a request holds while the audit trail takes its decision, or the 422 that ended it.
Edit(r, raw, needs, tier) ==
  edits' = [edits EXCEPT ![r] =
              IF Resolves(raw)
              THEN [at |-> "audit", old |-> policy, new |-> Normalized(raw), needs |-> needs,
                    tier |-> tier]
              ELSE [NoEdit EXCEPT !.at = "invalid"]]

\* set_policy asks for the feature of the overlay as the caller wrote it.
SetPolicy(r, body, tier) ==
  /\ edits[r].at = "idle"
  /\ Edit(r, body, {RequiredFeature(body)}, tier)
  /\ UNCHANGED <<policy, setter, governed>>

\* apply_policy_template: extra keys that are locked are refused before anything is resolved.
\* Its two decisions are emitted one after the other and nothing is read in between.
ApplyTemplate(r, template, merge, extra, tier) ==
  LET raw == Compiled(template, IF merge THEN policy ELSE NoOverlay, extra)
  IN /\ edits[r].at = "idle"
     /\ IF DOMAIN extra \cap LockedKeys # {}
        THEN edits' = [edits EXCEPT ![r].at = "invalid"]
        ELSE Edit(r, raw, {"templates", RequiredFeature(Normalized(raw))}, tier)
     /\ UNCHANGED <<policy, setter, governed>>

Running == {q \in PolicyTurns : governed[q].at = "running"}

\* classify_signed_plugin_lifecycle_transition
PluginChange(old, new) ==
  IF old = new THEN "none"
  ELSE IF old = "" THEN "load"
  ELSE IF new = "" THEN "unload"
  ELSE "reload"

\* The rest of either handler: 403, 409, or the new overlay.  The change of plugin is classified
\* against the overlay that was read before the wait.
StoreEdit(r) ==
  LET e == edits[r]
      change == PluginChange(Get(e.old, "plugin", ""), Get(e.new, "plugin", ""))
      ends == IF \E f \in e.needs : ~Entitled(e.tier, f) THEN "forbidden"
              ELSE IF change \in {"unload", "reload"} /\ Running # {} THEN "conflict"
              ELSE "stored"
  IN /\ e.at = "audit"
     /\ edits' = [edits EXCEPT ![r] = [NoEdit EXCEPT !.at = ends]]
     /\ policy' = IF ends = "stored" THEN e.new ELSE policy
     /\ setter' = IF ends = "stored" THEN e.tier ELSE setter
     /\ UNCHANGED governed

-----------------------------------------------------------------------------
(* Turns.                                                                  *)

ReadPolicy(q, text, tier) ==
  /\ governed[q].at = "idle"
  /\ governed' = [governed EXCEPT ![q] = [NoTurn EXCEPT !.at = "entitlement", !.overlay = policy,
                                                        !.text = text, !.tier = tier]]
  /\ UNCHANGED <<policy, setter, edits>>

\* The entitlement's decision is in the trail: 403, a configuration that does not resolve, or the
\* chain of the overlay that was read.  evaluate_with_budget cannot time out: no gate waits.
EvaluateTurn(q) ==
  LET t == governed[q]
      decision == IF Resolves(t.overlay) THEN IngressDecision(t.overlay, t.text)
                  ELSE Decision("deny", "profile_config")
  IN /\ t.at = "entitlement"
     /\ governed' = [governed EXCEPT ![q] =
                       IF Entitled(t.tier, RequiredFeature(t.overlay))
                       THEN [t EXCEPT !.at = "evaluated", !.decision = decision]
                       ELSE [t EXCEPT !.at = "forbidden"]]
     /\ UNCHANGED <<policy, setter, edits>>

\* The decision is in the trail.  The rate limiter or the cap on active runs may still refuse.
AdmitTurn(q) ==
  /\ governed[q].at = "evaluated"
  /\ \E to \in IF governed[q].decision.action = "allow" THEN {"running", "limited"} ELSE {"refused"} :
        governed' = [governed EXCEPT ![q].at = to]
  /\ UNCHANGED <<policy, setter, edits>>

FinishTurn(q) ==
  /\ governed[q].at = "running"
  /\ governed' = [governed EXCEPT ![q].at = "ended"]
  /\ UNCHANGED <<policy, setter, edits>>

PolicyNext ==
  \/ \E r \in PolicyRequests, tier \in CallerTiers :
        \/ \E body \in Bodies : SetPolicy(r, body, tier)
        \/ \E t \in PolicyTemplates, merge \in BOOLEAN, x \in Extras : ApplyTemplate(r, t, merge, x, tier)
  \/ \E r \in PolicyRequests : StoreEdit(r)
  \/ \E q \in PolicyTurns, text \in Texts, tier \in CallerTiers : ReadPolicy(q, text, tier)
  \/ \E q \in PolicyTurns : EvaluateTurn(q) \/ AdmitTurn(q) \/ FinishTurn(q)

PolicySpec == PolicyInit /\ [][PolicyNext]_policyVars

-----------------------------------------------------------------------------
(* Properties.                                                             *)

\* A policy that was accepted stays usable: it resolves, it is its own normal form, and each
\* template can be applied over it, merged or not (set_policy, compile_policy_template_overlay).
PolicyStaysUsable ==
  policy # NoOverlay =>
    /\ Resolves(policy)
    /\ Normalized(policy) = policy
    /\ \A t \in PolicyTemplates : Resolves(Compiled(t, policy, NoOverlay))

\* A turn that runs passed every gate of the policy that it read, and the gates that report are
\* all in its record, whatever came after them (IngressGateChain.evaluate).
AdmittedIsClean ==
  \A q \in Running :
    LET t == governed[q]
    IN /\ \A i \in 1..6 : GateChain(t.overlay, t.text)[i].action \notin {"deny", "escalate"}
       /\ t.decision.report = [classifier |-> Classifier(t.overlay, t.text).report.classifier,
                               plugin |-> PluginRules(t.overlay, t.text).report.plugin]

\* A plugin that is in force while turns run is neither unloaded nor replaced
\* (classify_signed_plugin_lifecycle_transition).
PluginKeptDuringRuns ==
  [][Running # {} /\ Get(policy, "plugin", "") # ""
       => Get(policy', "plugin", "") = Get(policy, "plugin", "")]_policyVars

\* Who may store a policy may take turns under it: what set_policy stores asks for no higher tier
\* than what it was given (required_feature_for_governance_overlay).
SetterMayTakeTurns == setter # "none" => Entitled(setter, RequiredFeature(policy))

\* Together: a stored policy can be applied, and the turns it let through are those it allows.
PolicySound == PolicyStaysUsable /\ AdmittedIsClean
=============================================================================
