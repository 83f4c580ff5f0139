------------------------------ MODULE McpCalls ------------------------------
(***************************************************************************)
(* McpToolAdapter.execute: calls of one tool of one MCP server, with the   *)
(* server's registry record and health, the circuit breaker of the pair,   *)
(* dead letters and compensation hooks.  Calls run concurrently and give   *)
(* way at the health check and at every attempt.                           *)
(*                                                                         *)
(* The breaker never half-opens: once open, only a call that was let in    *)
(* before can close it.  A server that was found unavailable stays so:     *)
(* get_server refuses before any other health check is made.               *)
(***************************************************************************)
EXTENDS Naturals, Sequences

CONSTANTS
  McpCallIds,
  WritingCalls,    \* the calls that change state
  RiskyCalls,      \* the calls of a high or critical risk tier
  DeniedCalls,     \* the calls that the policy does not allow
  FailureThreshold,
  MaxRetries,      \* max_retries of the server
  MaxServerChanges \* bound: registrations of the server, and health reports about it

ASSUME McpAssumption ==
  /\ WritingCalls \cup RiskyCalls \cup DeniedCalls \subseteq McpCallIds
  /\ FailureThreshold \in Nat \ {0} /\ MaxRetries \in Nat /\ MaxServerChanges \in Nat

Tiers == {"trusted", "restricted", "sandboxed"}
HealthStates == {"healthy", "degraded", "unavailable"}
Failures == {"MCP_TIMEOUT", "MCP_VALIDATION_ERROR", "MCP_EXECUTION_ERROR"}

VARIABLES
  server,          \* McpRegistry: the record, and its health
  circuit,         \* CircuitState of the server and the tool
  mcp_call,        \* what each execute is doing
  dlq,             \* the dead letters
  compensated,     \* the hooks run
  server_changes

mcpVars == <<server, circuit, mcp_call, dlq, compensated, server_changes>>

Idle == [pc |-> "none", tier |-> "none", attempt |-> 0, outcome |-> "none"]
NoServer == [tier |-> "none", enabled |-> FALSE, health |-> "healthy"]

McpInit ==
  /\ server = NoServer
  /\ circuit = [failures |-> 0, open |-> FALSE]
  /\ mcp_call = [c \in McpCallIds |-> Idle]
  /\ dlq = <<>> /\ compensated = <<>>
  /\ server_changes = 0

-----------------------------------------------------------------------------
(* The registry and the breaker.                                           *)

\* register_server replaces the record and keeps the health it finds.
RegisterServer ==
  /\ server_changes < MaxServerChanges
  /\ \E t \in Tiers, e \in BOOLEAN : server' = [server EXCEPT !.tier = t, !.enabled = e]
  /\ server_changes' = server_changes + 1
  /\ UNCHANGED <<circuit, mcp_call, dlq, compensated>>

\* set_server_health, from outside.
ReportHealth ==
  /\ server_changes < MaxServerChanges
  /\ server.tier # "none"
  /\ \E h \in HealthStates : server' = [server EXCEPT !.health = h]
  /\ server_changes' = server_changes + 1
  /\ UNCHANGED <<circuit, mcp_call, dlq, compensated>>

\* get_server returns, instead of raising KeyError or ValueError.
Available == server.tier # "none" /\ server.enabled /\ server.health # "unavailable"

RecordSuccess == circuit' = [failures |-> 0, open |-> FALSE]

RecordFailure ==
  circuit' = [failures |-> circuit.failures + 1,
              open |-> circuit.open \/ circuit.failures + 1 >= FailureThreshold]

-----------------------------------------------------------------------------
(* execute.                                                                *)

End(c, outcome) == mcp_call' = [mcp_call EXCEPT ![c].pc = "ended", ![c].outcome = outcome]

\* A failure is recorded, dead-lettered and compensated, and the call ends.  A hook that
\* raises is logged.
Fail(c, reason) ==
  /\ RecordFailure
  /\ dlq' = Append(dlq, [call |-> c, reason |-> reason])
  /\ compensated' = Append(compensated, [call |-> c, reason |-> reason])
  /\ End(c, reason)

\* _enforce_trust_tier
Trusted(tier, c) ==
  /\ tier = "restricted" => c \notin WritingCalls
  /\ tier = "sandboxed" => c \notin WritingCalls \cup RiskyCalls

\* From the policy to the health check.
BeginCall(c) ==
  /\ mcp_call[c].pc = "none"
  /\ \/ /\ c \in DeniedCalls
        /\ End(c, "blocked")
        /\ UNCHANGED <<circuit, dlq, compensated>>
     \/ /\ c \notin DeniedCalls /\ circuit.open
        /\ End(c, "MCP_CIRCUIT_OPEN")
        /\ UNCHANGED <<circuit, dlq, compensated>>
     \/ /\ c \notin DeniedCalls /\ ~circuit.open /\ ~Available
        /\ Fail(c, "MCP_VALIDATION_ERROR")
     \/ /\ c \notin DeniedCalls /\ ~circuit.open /\ Available
        /\ mcp_call' = [mcp_call EXCEPT ![c].pc = "health", ![c].tier = server.tier]
        /\ UNCHANGED <<circuit, dlq, compensated>>
  /\ UNCHANGED <<server, server_changes>>

\* The health check answers; what it says is kept for all calls.  A check that fails or takes
\* too long ends the call and leaves the health as it was.  The tier that is enforced is that
\* of the record read before.
HealthAnswered(c) ==
  /\ mcp_call[c].pc = "health"
  /\ \/ \E h \in HealthStates :
          /\ server' = [server EXCEPT !.health = h]
          /\ IF h = "unavailable" \/ ~Trusted(mcp_call[c].tier, c)
               THEN Fail(c, "MCP_VALIDATION_ERROR")
             ELSE /\ mcp_call' = [mcp_call EXCEPT ![c].pc = "calling", ![c].attempt = 1]
                  /\ UNCHANGED <<circuit, dlq, compensated>>
     \/ Fail(c, "MCP_EXECUTION_ERROR") /\ UNCHANGED server
  /\ UNCHANGED server_changes

CallReturns(c) ==
  /\ mcp_call[c].pc = "calling"
  /\ RecordSuccess
  /\ End(c, "success")
  /\ UNCHANGED <<server, dlq, compensated, server_changes>>

\* Mutation: every attempt that times out is dead-lettered.
CallTimesOutEach(c) ==
  /\ mcp_call[c].pc = "calling"
  /\ IF mcp_call[c].attempt <= MaxRetries
       THEN /\ RecordFailure
            /\ mcp_call' = [mcp_call EXCEPT ![c].attempt = @ + 1]
            /\ dlq' = Append(dlq, [call |-> c, reason |-> "MCP_TIMEOUT"])
            /\ UNCHANGED compensated
     ELSE Fail(c, "MCP_TIMEOUT")
  /\ UNCHANGED <<server, server_changes>>

\* An attempt takes too long: the failure counts, and the call is tried again, also when the
\* circuit is open by now, until the retries are used up.
CallTimesOut(c) ==
  /\ mcp_call[c].pc = "calling"
  /\ IF mcp_call[c].attempt <= MaxRetries
       THEN /\ RecordFailure
            /\ mcp_call' = [mcp_call EXCEPT ![c].attempt = @ + 1]
            /\ UNCHANGED <<dlq, compensated>>
     ELSE Fail(c, "MCP_TIMEOUT")
  /\ UNCHANGED <<server, server_changes>>

\* The client raises: an unknown tool (KeyError), or anything else.
CallRaises(c) ==
  /\ mcp_call[c].pc = "calling"
  /\ Fail(c, "MCP_VALIDATION_ERROR") \/ Fail(c, "MCP_EXECUTION_ERROR")
  /\ UNCHANGED <<server, server_changes>>

McpNext ==
  \/ RegisterServer \/ ReportHealth
  \/ \E c \in McpCallIds :
       BeginCall(c) \/ HealthAnswered(c) \/ CallReturns(c) \/ CallTimesOut(c) \/ CallRaises(c)

McpSpec == McpInit /\ [][McpNext]_mcpVars

-----------------------------------------------------------------------------
(* Properties.                                                             *)

\* Type invariant.
McpTypeOK ==
  /\ circuit.failures \in Nat /\ circuit.open \in BOOLEAN
  /\ \A c \in McpCallIds : mcp_call[c].pc \in {"none", "health", "calling", "ended"}
  /\ server.health \in HealthStates

Letters(c, letters) == {i \in 1..Len(letters) : letters[i].call = c}

\* What a dead letter stands for, whatever the other calls of the server do meanwhile: a call
\* that ended in a failure has one, and one compensation, both with the reason that its caller
\* was given; a call that is retried, succeeded, was blocked or met an open circuit has none;
\* no call is tried more often than the server's retries allow; and an open circuit has
\* seen at least the threshold of failures since the last success.
DeadLetterExact ==
  /\ \A c \in McpCallIds, letters \in {dlq, compensated} :
       IF mcp_call[c].outcome \in Failures
         THEN \E i \in 1..Len(letters) :
                Letters(c, letters) = {i} /\ letters[i].reason = mcp_call[c].outcome
       ELSE Letters(c, letters) = {}
  /\ \A c \in McpCallIds : mcp_call[c].attempt <= MaxRetries + 1
  /\ circuit.open = (circuit.failures >= FailureThreshold)
=============================================================================
