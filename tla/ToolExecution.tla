---------------------------- MODULE ToolExecution ----------------------------
(***************************************************************************)
(* What happens to the tool calls of one turn: Orchestrator.run_turn takes *)
(* the intents that the model's runtime streams, asks the policy, picks    *)
(* the mode, has DeterministicToolExecutor run the call and hands the      *)
(* result back.  The coroutine gives way at every event that it yields;    *)
(* meanwhile the tenant's policy overlay is replaced, tools come and go,   *)
(* or the turn is dropped.  The executor itself is synchronous.            *)
(*                                                                         *)
(* A call: [tool, tier, writes, roles, subject, foreign, scoped, args,     *)
(* valid, wants], where foreign says that the identity is of another       *)
(* tenant than the request, scoped that the call carries a plugin scope,   *)
(* args that the required arguments are there and valid that the envelope  *)
(* passes _validate_call.                                                  *)
(***************************************************************************)
EXTENDS Naturals, Sequences

CONSTANTS
  CallInputs,      \* the tool calls that the runtime may ask for
  MaxIntents,      \* bound: tool calls of the turn
  Tools,
  Descriptors,     \* what a tool is registered with: [attempts, writes_allowed]
  GateConfig,      \* RiskGateConfig: [deny, deny_tiers, review, review_tiers, review_writes]
  Overlays,        \* the overlays that are put: the keys that one sets, and their values
  RolePermissions, \* AccessControlConfig.role_permissions
  AuditOnly,       \* AccessControlConfig.audit_only_mode
  ForceDeterministic, \* what the capability map says of the provider
  MaxChanges       \* bound: overlays put and tools registered or unregistered during the turn

ASSUME ExecutionAssumption ==
  /\ {AuditOnly, ForceDeterministic} \subseteq BOOLEAN
  /\ MaxChanges \in Nat /\ MaxIntents \in Nat
  /\ \A d \in Descriptors : d.attempts \in Nat \ {0}
  /\ \A call \in CallInputs : call.tool \in Tools

HighImpact == {"high", "critical"}
NoTool == [attempts |-> 0, writes_allowed |-> FALSE]
CallIds == 1..MaxIntents

VARIABLES
  intents,         \* the tool calls that the runtime streams, in order
  hosted,          \* the backend: "none", "hosted", or "managed" (hosted, with progress of its own)
  overlay,         \* the tenant's policy overlay
  tools,           \* ToolRegistry: tool -> descriptor
  changes,         \* overlays put and tools changed so far
  at,              \* the intent being handled
  place,           \* where run_turn is
  result,          \* the result that execute returned for the intent at hand
  progress,        \* per call, the states of its progress events
  attempts,        \* per call, how often its handler (or the backend) ran
  answers,         \* per call, the results submitted to the runtime
  native           \* calls left to the provider

executionVars ==
  <<intents, hosted, overlay, tools, changes, at, place, result, progress, attempts, answers, native>>

NoResult == [status |-> "none", code |-> "none"]

ExecutionInit ==
  /\ intents \in [CallIds -> CallInputs]
  /\ hosted \in {"none", "hosted", "managed"}
  /\ overlay = [k \in {} |-> {}]
  /\ tools \in [Tools -> Descriptors]
  /\ changes = 0
  /\ at = 1
  /\ place = "intent"
  /\ result = NoResult
  /\ progress = [c \in CallIds |-> <<>>]
  /\ attempts = [c \in CallIds |-> 0]
  /\ answers = [c \in CallIds |-> <<>>]
  /\ native = {}

-----------------------------------------------------------------------------
(* The policy.                                                             *)

Writes(call) == call.writes \/ call.tier \in HighImpact

\* aggregate_permissions
Permissions(call) == UNION {RolePermissions[r] : r \in call.roles}

\* AccessPolicyEngine.evaluate, before _finalize.
Access(call) ==
  LET granted == Permissions(call)
  IN IF ~call.subject THEN "deny"
     ELSE IF call.foreign /\ granted \cap {"*", "tenant:cross_scope"} = {} THEN "deny"
     ELSE IF "*" \in granted THEN "allow"
     ELSE IF Writes(call) /\ "tool:execute:high_impact" \notin granted THEN "escalate"
     ELSE IF call.tool \in granted THEN "allow"
     ELSE IF call.scoped /\ "plugin:execute" \notin granted THEN "deny"
     ELSE IF "tool:execute" \notin granted THEN "deny"
     ELSE "allow"

\* _effective_config: a key that the overlay sets replaces the configured value, and may so
\* allow what the configuration denies.
Effective(key) == IF key \in DOMAIN overlay THEN overlay[key] ELSE GateConfig[key]

\* RiskGatePolicy.evaluate: the action, and whether deterministic mode is enforced.
Evaluate(call) ==
  LET access == IF AuditOnly THEN "allow" ELSE Access(call)
      Decide(action, enforced) == [action |-> action, enforced |-> enforced]
  IN IF access # "allow" THEN Decide(access, TRUE)
     ELSE IF \/ call.tool \in Effective("deny")
             \/ call.tier \in Effective("deny_tiers") THEN Decide("deny", FALSE)
     ELSE IF \/ call.tool \in Effective("review")
             \/ call.tier \in Effective("review_tiers")
             \/ call.writes /\ TRUE \in Effective("review_writes") THEN Decide("escalate", TRUE)
     ELSE Decide("allow", Writes(call))

Allowed(call) == Evaluate(call).action = "allow"

\* select_execution_mode, for a call that is allowed.
Deterministic(call) ==
  \/ Evaluate(call).enforced
  \/ Writes(call)
  \/ ForceDeterministic
  \/ call.wants = "deterministic"

-----------------------------------------------------------------------------
(* DeterministicToolExecutor.execute.                                      *)

Result(status, code) == [status |-> status, code |-> code]

\* The decorated handler: missing arguments and writes that the tool does not allow raise
\* inside the retries, so the handler itself is not reached; otherwise it is tried until it
\* returns.  Every outcome is [ran, result].
HandlerOutcomes(call, tool) ==
  IF ~call.args \/ (call.writes /\ ~tool.writes_allowed)
    THEN {[ran |-> 0, result |-> Result("error", "TOOL_EXECUTION_ERROR")]}
  ELSE {[ran |-> n, result |-> Result("success", "none")] : n \in 1..tool.attempts}
       \cup {[ran |-> tool.attempts, result |-> Result("error", code)] :
               code \in {"TOOL_EXECUTION_ERROR", "TOOL_NOT_FOUND"}}

\* A hosted backend answers with any status; after_tool_call turns a success without payload
\* into an error.  What it raises is an error too.
HostedOutcomes ==
  {[ran |-> 1, result |-> r] :
     r \in {Result("success", "none"), Result("error", "POLICY_POSTCHECK_FAILED"),
            Result("error", "TOOL_EXECUTION_ERROR"), Result("timeout", "TOOL_TIMEOUT"),
            Result("cancelled", "TOOL_CANCELLED")}}

\* Mutation: the decision that the orchestrator took is good enough.
ExecutedUnasked(call) ==
  IF ~call.valid THEN {[ran |-> 0, result |-> Result("error", "TOOL_CALL_VALIDATION_ERROR")]}
  ELSE IF tools[call.tool] = NoTool THEN {[ran |-> 0, result |-> Result("error", "TOOL_NOT_FOUND")]}
  ELSE IF hosted # "none" THEN HostedOutcomes
  ELSE HandlerOutcomes(call, tools[call.tool])

Executed(call) ==
  IF ~call.valid THEN {[ran |-> 0, result |-> Result("error", "TOOL_CALL_VALIDATION_ERROR")]}
  ELSE IF ~Allowed(call) THEN {[ran |-> 0, result |-> Result("blocked", "POLICY")]}
  ELSE IF tools[call.tool] = NoTool THEN {[ran |-> 0, result |-> Result("error", "TOOL_NOT_FOUND")]}
  ELSE IF hosted # "none" THEN HostedOutcomes
  ELSE HandlerOutcomes(call, tools[call.tool])

-----------------------------------------------------------------------------
(* Orchestrator.run_turn.  A place is where the coroutine waits: "intent"  *)
(* for the stream, the others at an event that was yielded.                *)

Call == intents[at]

\* _terminal_tool_state
TerminalState(status) ==
  CASE status = "success" -> "completed"
    [] status = "timeout" -> "timed_out"
    [] status = "cancelled" -> "cancelled"
    [] OTHER -> "failed"

Terminal == {"completed", "timed_out", "cancelled", "failed"}

Yield(state, next) ==
  /\ progress' = [progress EXCEPT ![at] = Append(@, state)]
  /\ place' = next

\* execute, and the progress event after it: the terminal one, or what the backend recorded.
Execute ==
  /\ \E o \in Executed(Call) :
       /\ result' = o.result
       /\ attempts' = [attempts EXCEPT ![at] = @ + o.ran]
       /\ \/ Yield(TerminalState(o.result.status), "submit")
          \/ hosted = "managed" /\ o.ran > 0 /\ Yield("recorded", "submit")
  /\ UNCHANGED <<answers, native, at>>

Unchanged == UNCHANGED <<intents, hosted, overlay, tools, changes>>

\* The stream brings an intent.
TakeIntent ==
  /\ place = "intent" /\ at \in CallIds
  /\ IF hosted = "managed" THEN place' = "decide" /\ UNCHANGED progress
     ELSE Yield("queued", "decide")
  /\ UNCHANGED <<at, result, attempts, answers, native>> /\ Unchanged

\* before_tool_call says no: the executor is asked for the blocked result (or for that of a
\* malformed call).  A backend with progress of its own yields none.
Block ==
  /\ place = "decide" /\ ~Allowed(Call)
  /\ IF hosted = "managed"
       THEN /\ \E o \in Executed(Call) : result' = o.result
            /\ place' = "submit"
            /\ UNCHANGED <<progress, attempts, answers, native, at>>
     ELSE Execute
  /\ Unchanged

\* Deterministic mode: the coroutine yields "running" before it executes, unless the backend
\* reports its progress.
StartRunning ==
  /\ place = "decide" /\ Allowed(Call) /\ Deterministic(Call) /\ hosted # "managed"
  /\ Yield("running", "running")
  /\ UNCHANGED <<at, result, attempts, answers, native>> /\ Unchanged

RunCall ==
  /\ \/ place = "running"
     \/ place = "decide" /\ Allowed(Call) /\ Deterministic(Call) /\ hosted = "managed"
  /\ Execute
  /\ Unchanged

\* Provider-native: the intent is passed on.
LeaveToProvider ==
  /\ place = "decide" /\ Allowed(Call) /\ ~Deterministic(Call)
  /\ native' = native \cup {at}
  /\ at' = at + 1 /\ place' = "intent"
  /\ UNCHANGED <<result, progress, attempts, answers>> /\ Unchanged

\* Mutation: no "continue" after a blocked call, which falls through to its execution.
SubmitAndFallThrough ==
  /\ place = "submit"
  /\ answers' = [answers EXCEPT ![at] = Append(@, result)]
  /\ result' = NoResult
  /\ IF result.status = "blocked" /\ Len(answers[at]) = 0
       THEN place' = "running" /\ UNCHANGED at
     ELSE place' = "intent" /\ at' = at + 1
  /\ UNCHANGED <<progress, attempts, native>> /\ Unchanged

\* submit_tool_results; what the runtime sends back is passed on, intents included, which
\* nobody executes.
Submit ==
  /\ place = "submit"
  /\ answers' = [answers EXCEPT ![at] = Append(@, result)]
  /\ result' = NoResult
  /\ at' = at + 1 /\ place' = "intent"
  /\ UNCHANGED <<progress, attempts, native>> /\ Unchanged

\* The generator is closed at an event.
DropTurn ==
  /\ place # "dropped" /\ ~(hosted = "managed" /\ place = "decide")
  /\ place' = "dropped"
  /\ UNCHANGED <<at, result, progress, attempts, answers, native>> /\ Unchanged

\* set_overlay, register and unregister, while run_turn waits.
PutOverlay ==
  /\ \E o \in Overlays : overlay' = o
  /\ UNCHANGED tools

ChangeTool ==
  /\ \E t \in Tools, d \in Descriptors \cup {NoTool} : tools' = [tools EXCEPT ![t] = d]
  /\ UNCHANGED overlay

Reconfigure ==
  /\ changes < MaxChanges
  /\ ~(hosted = "managed" /\ place = "decide")
  /\ PutOverlay \/ ChangeTool
  /\ changes' = changes + 1
  /\ UNCHANGED <<intents, hosted, at, place, result, progress, attempts, answers, native>>

ExecutionNext ==
  \/ TakeIntent \/ Block \/ StartRunning \/ RunCall \/ LeaveToProvider \/ Submit
  \/ DropTurn \/ Reconfigure

ExecutionSpec == ExecutionInit /\ [][ExecutionNext]_executionVars

-----------------------------------------------------------------------------
(* Properties.                                                             *)

\* Type invariant.
ExecutionTypeOK ==
  /\ tools \in [Tools -> Descriptors \cup {NoTool}]
  /\ at \in 1..(MaxIntents + 1)
  /\ place \in {"intent", "decide", "running", "submit", "dropped"}

\* A handler runs only for a call that the policy allows at that very moment, also when the
\* overlay was replaced after the orchestrator had asked (while the client took the "running"
\* event); a call that the policy refuses never reaches the handler or the provider.
NoUnapprovedRun ==
  [][\A c \in CallIds :
       attempts'[c] # attempts[c] \/ c \in native' \ native =>
         Allowed(intents[c])]_executionVars

\* Every intent that run_turn is done with was either left to the provider or answered once;
\* a provider never gets one that writes or is of high impact; the answer says what the
\* handler did and what the progress events said: a success ran, a blocked call did not, at most
\* one terminal event was sent, the last, and it fits the answer.
AnsweredOnce ==
  \A c \in CallIds :
    /\ c < at => (c \in native) = (answers[c] = <<>>) /\ Len(answers[c]) <= 1
    /\ c \in native => ~Writes(intents[c]) /\ attempts[c] = 0
    /\ \A i \in 1..Len(progress[c]) : progress[c][i] \in Terminal =>
         i = Len(progress[c])
    /\ answers[c] # <<>> =>
         /\ answers[c][1].status = "success" => attempts[c] > 0
         /\ answers[c][1].status = "blocked" => attempts[c] = 0
         /\ progress[c] # <<>> =>
              progress[c][Len(progress[c])] \in {"recorded", TerminalState(answers[c][1].status)}
=============================================================================
