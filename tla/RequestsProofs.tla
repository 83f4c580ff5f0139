--------------------------- MODULE RequestsProofs ---------------------------
(***************************************************************************)
(* Proofs about what serves an admitted request and about the scripts      *)
(* beside the server: MCP calls, the tool calls of a turn, the start of a  *)
(* process, the audit evidence, the artifacts of pull requests, the        *)
(* removal of branches, the connector's budget, the runtimes of sessions,  *)
(* the graphs of workflows, the handoffs between agents and the report of  *)
(* a release signoff.  Each part has the same shape: an inductive          *)
(* invariant, the actions that keep it, and the theorem.                   *)
(***************************************************************************)
EXTENDS McpCalls, PullRequestArtifacts, ToolExecution, BranchCleanup, AuditTrail, PlatformStartup,
        ByocBudget, SessionRuntimes, WorkflowGraphs, AgentRouting, ReleaseSignoff, FiniteSetTheorems,
        SequenceTheorems, TLAPS

-----------------------------------------------------------------------------
(* MCP calls.                                                              *)

McpOutcomes == Failures \cup {"none", "blocked", "MCP_CIRCUIT_OPEN", "success"}
McpRecords ==
  [pc : {"none", "health", "calling", "ended"}, tier : Tiers \cup {"none"},
   attempt : 0..(MaxRetries + 1), outcome : McpOutcomes]

DeadLetters == [call : McpCallIds, reason : Failures]

McpTyped ==
  /\ server \in [tier : Tiers \cup {"none"}, enabled : BOOLEAN, health : HealthStates]
  /\ circuit \in [failures : Nat, open : BOOLEAN]
  /\ mcp_call \in [McpCallIds -> McpRecords]
  /\ dlq \in Seq(DeadLetters) /\ compensated \in Seq(DeadLetters)

\* Until a call has ended it has no outcome.
OutcomeAtEnd == \A c \in McpCallIds : mcp_call[c].pc # "ended" => mcp_call[c].outcome = "none"

\* One call and one list of letters, as in DeadLetterExact.
LettersFit(c, letters, outcome) ==
  IF outcome \in Failures
    THEN \E i \in 1..Len(letters) : Letters(c, letters) = {i} /\ letters[i].reason = outcome
  ELSE Letters(c, letters) = {}

LettersKept ==
  \A c \in McpCallIds : /\ LettersFit(c, dlq, mcp_call[c].outcome)
                        /\ LettersFit(c, compensated, mcp_call[c].outcome)

BreakerCounts == circuit.open <=> circuit.failures >= FailureThreshold

McpIInv == McpTyped /\ OutcomeAtEnd /\ LettersKept /\ BreakerCounts

\* A letter of a call that had none is its only one.
LEMMA FirstLetter ==
  ASSUME NEW letters \in Seq(DeadLetters), NEW c \in McpCallIds, NEW reason \in Failures,
         Letters(c, letters) = {}
  PROVE  LettersFit(c, Append(letters, [call |-> c, reason |-> reason]), reason)
<1> DEFINE letter == [call |-> c, reason |-> reason]
<1> DEFINE more == Append(letters, letter)
<1>1. letter \in DeadLetters /\ letter.call = c /\ letter.reason = reason
  BY DEF DeadLetters
<1>2. /\ Len(letters) \in Nat /\ Len(more) = Len(letters) + 1
      /\ more[Len(letters) + 1] = letter
      /\ \A i \in 1..Len(letters) : more[i] = letters[i]
  BY <1>1
<1>3. Letters(c, more) = {Len(letters) + 1}
  BY <1>1, <1>2 DEF Letters
<1>4. more[Len(letters) + 1].reason = reason
  BY <1>1, <1>2
<1> QED
  BY <1>2, <1>3, <1>4 DEF LettersFit

\* A letter of another call changes nothing.
LEMMA OtherLetter ==
  ASSUME NEW letters \in Seq(DeadLetters), NEW c \in McpCallIds, NEW d \in McpCallIds,
         c # d, NEW reason \in Failures, NEW outcome, LettersFit(c, letters, outcome)
  PROVE  LettersFit(c, Append(letters, [call |-> d, reason |-> reason]), outcome)
<1> DEFINE letter == [call |-> d, reason |-> reason]
<1> DEFINE more == Append(letters, letter)
<1>1. letter \in DeadLetters /\ letter.call = d
  BY DEF DeadLetters
<1>2. /\ Len(letters) \in Nat /\ Len(more) = Len(letters) + 1
      /\ more[Len(letters) + 1] = letter
      /\ \A i \in 1..Len(letters) : more[i] = letters[i]
  BY <1>1
<1>3. Letters(c, more) = Letters(c, letters)
  BY <1>1, <1>2 DEF Letters
<1>4. CASE outcome \in Failures
  <2>1. PICK i \in 1..Len(letters) : Letters(c, letters) = {i} /\ letters[i].reason = outcome
    BY <1>4 DEF LettersFit
  <2>2. i \in 1..Len(more) /\ more[i] = letters[i]
    BY <1>2, <2>1
  <2> QED
    BY <1>3, <1>4, <2>1, <2>2 DEF LettersFit
<1>5. CASE outcome \notin Failures
  BY <1>3, <1>5 DEF LettersFit
<1> QED
  BY <1>4, <1>5

\* End changes the call's state and outcome, and no other call.
LEMMA EndsCall ==
  ASSUME McpTyped, NEW c \in McpCallIds, NEW o \in McpOutcomes, End(c, o)
  PROVE  /\ mcp_call' \in [McpCallIds -> McpRecords]
         /\ mcp_call'[c].pc = "ended" /\ mcp_call'[c].outcome = o
         /\ \A d \in McpCallIds : d # c => mcp_call'[d] = mcp_call[d]
<1>1. PICK old \in McpRecords : old = mcp_call[c]
  BY DEF McpTyped
<1>2. PICK next \in McpRecords : next = [old EXCEPT !.pc = "ended", !.outcome = o]
  BY <1>1 DEF McpRecords
<1>3. next.pc = "ended" /\ next.outcome = o
  BY <1>1, <1>2 DEF McpRecords
<1>4. mcp_call' = [mcp_call EXCEPT ![c] = next]
  BY <1>1, <1>2 DEF End, McpTyped
<1> QED
  BY <1>3, <1>4 DEF McpTyped

\* A call that ends without a failure leaves no letter.
LEMMA EndsWithoutLetter ==
  ASSUME McpIInv, NEW c \in McpCallIds, NEW o \in McpOutcomes, o \notin Failures,
         mcp_call[c].pc # "ended", End(c, o), UNCHANGED <<dlq, compensated>>
  PROVE  OutcomeAtEnd' /\ LettersKept' /\ mcp_call' \in [McpCallIds -> McpRecords]
<1>1. /\ mcp_call' \in [McpCallIds -> McpRecords]
      /\ mcp_call'[c].pc = "ended" /\ mcp_call'[c].outcome = o
      /\ \A d \in McpCallIds : d # c => mcp_call'[d] = mcp_call[d]
  BY EndsCall DEF McpIInv
<1>2. OutcomeAtEnd'
  BY <1>1 DEF McpIInv, OutcomeAtEnd
<1>3. Letters(c, dlq) = {} /\ Letters(c, compensated) = {}
  BY DEF McpIInv, OutcomeAtEnd, LettersKept, LettersFit, Failures
<1>4. ASSUME NEW d \in McpCallIds
      PROVE  /\ LettersFit(d, dlq', mcp_call'[d].outcome)
             /\ LettersFit(d, compensated', mcp_call'[d].outcome)
  <2>1. CASE d = c
    BY <1>1, <1>3, <2>1 DEF LettersFit
  <2>2. CASE d # c
    BY <1>1, <2>2 DEF McpIInv, LettersKept
  <2> QED
    BY <2>1, <2>2
<1>5. LettersKept'
  BY <1>4 DEF LettersKept
<1> QED
  BY <1>1, <1>2, <1>5

\* A failure counts in the breaker.
LEMMA FailureCounts ==
  ASSUME McpIInv, RecordFailure
  PROVE  circuit' \in [failures : Nat, open : BOOLEAN] /\ BreakerCounts'
<1>1. PICK n \in Nat, open \in BOOLEAN : circuit = [failures |-> n, open |-> open]
  BY DEF McpIInv, McpTyped
<1>2. circuit' = [failures |-> n + 1, open |-> open \/ n + 1 >= FailureThreshold]
  BY <1>1 DEF RecordFailure
<1>3. open <=> n >= FailureThreshold
  BY <1>1 DEF McpIInv, BreakerCounts
<1>4. (open \/ n + 1 >= FailureThreshold) <=> n + 1 >= FailureThreshold
  BY <1>3, McpAssumption
<1>5. PICK now \in BOOLEAN : now = (open \/ n + 1 >= FailureThreshold)
  OBVIOUS
<1>6. circuit' = [failures |-> n + 1, open |-> now]
  BY <1>2, <1>5
<1>7. circuit'.failures = n + 1 /\ circuit'.open = now /\ n + 1 \in Nat
  BY <1>6
<1> QED
  BY <1>4, <1>5, <1>6, <1>7 DEF BreakerCounts

\* A call that fails gets one letter and one compensation, with the reason it ends with.
LEMMA FailKeeps ==
  ASSUME McpIInv, NEW c \in McpCallIds, NEW reason \in Failures,
         mcp_call[c].pc # "ended", Fail(c, reason),
         server' \in [tier : Tiers \cup {"none"}, enabled : BOOLEAN, health : HealthStates]
  PROVE  McpIInv'
<1>1. /\ mcp_call' \in [McpCallIds -> McpRecords]
      /\ mcp_call'[c].pc = "ended" /\ mcp_call'[c].outcome = reason
      /\ \A d \in McpCallIds : d # c => mcp_call'[d] = mcp_call[d]
  <2>1. End(c, reason)
    BY DEF Fail
  <2>2. reason \in McpOutcomes
    BY DEF McpOutcomes
  <2> QED
    BY <2>1, <2>2, EndsCall DEF McpIInv
<1>2. OutcomeAtEnd'
  BY <1>1 DEF McpIInv, OutcomeAtEnd
<1>3. Letters(c, dlq) = {} /\ Letters(c, compensated) = {}
  BY DEF McpIInv, OutcomeAtEnd, LettersKept, LettersFit, Failures
<1>4. dlq \in Seq(DeadLetters) /\ compensated \in Seq(DeadLetters)
  BY DEF McpIInv, McpTyped
<1>5. /\ dlq' = Append(dlq, [call |-> c, reason |-> reason])
      /\ compensated' = Append(compensated, [call |-> c, reason |-> reason])
  BY DEF Fail
<1>6. dlq' \in Seq(DeadLetters) /\ compensated' \in Seq(DeadLetters)
  <2>1. [call |-> c, reason |-> reason] \in DeadLetters
    BY DEF DeadLetters
  <2> QED
    BY <1>4, <1>5, <2>1
<1>7. ASSUME NEW d \in McpCallIds
      PROVE  /\ LettersFit(d, dlq', mcp_call'[d].outcome)
             /\ LettersFit(d, compensated', mcp_call'[d].outcome)
  <2>1. CASE d = c
    BY <1>1, <1>3, <1>4, <1>5, <2>1, FirstLetter
  <2>2. CASE d # c
    <3>1. /\ LettersFit(d, dlq, mcp_call[d].outcome)
          /\ LettersFit(d, compensated, mcp_call[d].outcome)
      BY DEF McpIInv, LettersKept
    <3>2. LettersFit(d, dlq', mcp_call[d].outcome)
      BY <1>4, <1>5, <2>2, <3>1, OtherLetter
    <3>3. LettersFit(d, compensated', mcp_call[d].outcome)
      BY <1>4, <1>5, <2>2, <3>1, OtherLetter
    <3> QED
      BY <1>1, <2>2, <3>2, <3>3
  <2> QED
    BY <2>1, <2>2
<1>8. LettersKept'
  BY <1>7 DEF LettersKept
<1>9. circuit' \in [failures : Nat, open : BOOLEAN] /\ BreakerCounts'
  BY FailureCounts DEF Fail
<1>10. McpTyped'
  BY <1>1, <1>6, <1>9 DEF McpTyped
<1> QED
  BY <1>2, <1>8, <1>9, <1>10 DEF McpIInv

\* A call that goes on has no outcome yet, and no letter.
LEMMA GoesOn ==
  ASSUME McpIInv, NEW c \in McpCallIds, mcp_call[c].pc # "ended",
         NEW next \in McpRecords, next.outcome = "none", next.pc # "ended",
         mcp_call' = [mcp_call EXCEPT ![c] = next], UNCHANGED <<dlq, compensated>>
  PROVE  /\ mcp_call' \in [McpCallIds -> McpRecords]
         /\ OutcomeAtEnd' /\ LettersKept'
<1>1. /\ mcp_call' \in [McpCallIds -> McpRecords]
      /\ mcp_call'[c] = next
      /\ \A d \in McpCallIds : d # c => mcp_call'[d] = mcp_call[d]
  BY DEF McpIInv, McpTyped
<1>2. mcp_call[c].outcome = "none"
  BY DEF McpIInv, OutcomeAtEnd
<1>3. OutcomeAtEnd'
  BY <1>1 DEF McpIInv, OutcomeAtEnd
<1>4. \A d \in McpCallIds : mcp_call'[d].outcome = mcp_call[d].outcome
  BY <1>1, <1>2
<1>5. LettersKept'
  BY <1>4 DEF McpIInv, LettersKept
<1> QED
  BY <1>1, <1>3, <1>5

\* A call that begins is refused, fails on the registry, or goes to the health check.
LEMMA BeginCallKeeps ==
  ASSUME McpIInv, NEW c \in McpCallIds, BeginCall(c)
  PROVE  McpIInv'
<1>1. mcp_call[c].pc = "none" /\ UNCHANGED server
  BY DEF BeginCall
<1>2. server' \in [tier : Tiers \cup {"none"}, enabled : BOOLEAN, health : HealthStates]
  BY <1>1 DEF McpIInv, McpTyped
<1>3. CASE End(c, "blocked") /\ UNCHANGED <<circuit, dlq, compensated>>
  <2>1. OutcomeAtEnd' /\ LettersKept' /\ mcp_call' \in [McpCallIds -> McpRecords]
    <3>1. "blocked" \in McpOutcomes /\ "blocked" \notin Failures
      BY DEF McpOutcomes, Failures
    <3> QED
      BY <1>1, <1>3, <3>1, EndsWithoutLetter
  <2> QED
    BY <1>2, <1>3, <2>1 DEF McpIInv, McpTyped, BreakerCounts
<1>4. CASE End(c, "MCP_CIRCUIT_OPEN") /\ UNCHANGED <<circuit, dlq, compensated>>
  <2>1. OutcomeAtEnd' /\ LettersKept' /\ mcp_call' \in [McpCallIds -> McpRecords]
    <3>1. "MCP_CIRCUIT_OPEN" \in McpOutcomes /\ "MCP_CIRCUIT_OPEN" \notin Failures
      BY DEF McpOutcomes, Failures
    <3> QED
      BY <1>1, <1>4, <3>1, EndsWithoutLetter
  <2> QED
    BY <1>2, <1>4, <2>1 DEF McpIInv, McpTyped, BreakerCounts
<1>5. CASE Fail(c, "MCP_VALIDATION_ERROR")
  BY <1>1, <1>2, <1>5, FailKeeps DEF Failures
<1>6. CASE /\ mcp_call' = [mcp_call EXCEPT ![c].pc = "health", ![c].tier = server.tier]
           /\ UNCHANGED <<circuit, dlq, compensated>>
  <2>1. PICK old \in McpRecords : old = mcp_call[c]
    BY DEF McpIInv, McpTyped
  <2>2. PICK tier \in Tiers \cup {"none"} : tier = server.tier
    BY DEF McpIInv, McpTyped
  <2>3. PICK next \in McpRecords : next = [old EXCEPT !.pc = "health", !.tier = tier]
    BY <2>1, <2>2 DEF McpRecords
  <2>4. next.pc = "health" /\ next.outcome = old.outcome
    BY <2>1, <2>3 DEF McpRecords
  <2>5. old.outcome = "none"
    BY <1>1, <2>1 DEF McpIInv, OutcomeAtEnd
  <2>6. mcp_call' = [mcp_call EXCEPT ![c] = next]
    BY <1>6, <2>1, <2>2, <2>3 DEF McpIInv, McpTyped
  <2>7. /\ mcp_call' \in [McpCallIds -> McpRecords]
        /\ OutcomeAtEnd' /\ LettersKept'
    BY <1>1, <1>6, <2>4, <2>5, <2>6, GoesOn
  <2> QED
    BY <1>2, <1>6, <2>7 DEF McpIInv, McpTyped, BreakerCounts
<1> QED
  BY <1>3, <1>4, <1>5, <1>6 DEF BeginCall

\* An attempt more, of a call that has one left.
LEMMA TriesAgain ==
  ASSUME McpIInv, NEW c \in McpCallIds, mcp_call[c].pc # "ended",
         NEW n \in 1..(MaxRetries + 1),
         mcp_call' = [mcp_call EXCEPT ![c].pc = "calling", ![c].attempt = n],
         UNCHANGED <<dlq, compensated>>
  PROVE  /\ mcp_call' \in [McpCallIds -> McpRecords]
         /\ OutcomeAtEnd' /\ LettersKept'
<1>1. PICK old \in McpRecords : old = mcp_call[c]
  BY DEF McpIInv, McpTyped
<1>2. n \in 0..(MaxRetries + 1)
  BY McpAssumption
<1>3. PICK next \in McpRecords : next = [old EXCEPT !.pc = "calling", !.attempt = n]
  BY <1>1, <1>2 DEF McpRecords
<1>4. next.pc = "calling" /\ next.outcome = old.outcome
  BY <1>1, <1>3 DEF McpRecords
<1>5. old.outcome = "none"
  BY <1>1 DEF McpIInv, OutcomeAtEnd
<1>6. mcp_call' = [mcp_call EXCEPT ![c] = next]
  BY <1>1, <1>3 DEF McpIInv, McpTyped
<1> QED
  BY <1>4, <1>5, <1>6, GoesOn

\* The health check lets the call go on to its first attempt, or fails it.
LEMMA HealthAnsweredKeeps ==
  ASSUME McpIInv, NEW c \in McpCallIds, HealthAnswered(c)
  PROVE  McpIInv'
<1> DEFINE Servers == [tier : Tiers \cup {"none"}, enabled : BOOLEAN, health : HealthStates]
<1>1. mcp_call[c].pc # "ended" /\ server \in Servers
  BY DEF HealthAnswered, McpIInv, McpTyped
<1>2. ASSUME NEW h \in HealthStates, server' = [server EXCEPT !.health = h]
      PROVE  server' \in Servers
  BY <1>1, <1>2
<1>3. CASE /\ Fail(c, "MCP_VALIDATION_ERROR")
           /\ \E h \in HealthStates : server' = [server EXCEPT !.health = h]
  <2>1. server' \in Servers
    BY <1>2, <1>3
  <2>2. "MCP_VALIDATION_ERROR" \in Failures
    BY DEF Failures
  <2> QED
    BY <1>1, <1>3, <2>1, <2>2, FailKeeps
<1>4. CASE Fail(c, "MCP_EXECUTION_ERROR") /\ UNCHANGED server
  <2>1. "MCP_EXECUTION_ERROR" \in Failures
    BY DEF Failures
  <2> QED
    BY <1>1, <1>4, <2>1, FailKeeps
<1>5. CASE /\ \E h \in HealthStates : server' = [server EXCEPT !.health = h]
           /\ mcp_call' = [mcp_call EXCEPT ![c].pc = "calling", ![c].attempt = 1]
           /\ UNCHANGED <<circuit, dlq, compensated>>
  <2>1. server' \in Servers
    BY <1>2, <1>5
  <2>2. 1 \in 1..(MaxRetries + 1)
    BY McpAssumption
  <2>3. /\ mcp_call' \in [McpCallIds -> McpRecords]
        /\ OutcomeAtEnd' /\ LettersKept'
    BY <1>1, <1>5, <2>2, TriesAgain
  <2> QED
    BY <1>5, <2>1, <2>3 DEF McpIInv, McpTyped, BreakerCounts
<1> QED
  BY <1>3, <1>4, <1>5 DEF HealthAnswered

\* A success closes the breaker and leaves no letter.
LEMMA CallReturnsKeeps ==
  ASSUME McpIInv, NEW c \in McpCallIds, CallReturns(c)
  PROVE  McpIInv'
<1>1. /\ mcp_call[c].pc # "ended" /\ End(c, "success")
      /\ UNCHANGED <<server, dlq, compensated>>
      /\ circuit' = [failures |-> 0, open |-> FALSE]
  BY DEF CallReturns, RecordSuccess
<1>2. "success" \in McpOutcomes /\ "success" \notin Failures
  BY DEF McpOutcomes, Failures
<1>3. OutcomeAtEnd' /\ LettersKept' /\ mcp_call' \in [McpCallIds -> McpRecords]
  BY <1>1, <1>2, EndsWithoutLetter
<1>4. BreakerCounts' /\ circuit' \in [failures : Nat, open : BOOLEAN]
  BY <1>1, McpAssumption DEF BreakerCounts
<1> QED
  BY <1>1, <1>3, <1>4 DEF McpIInv, McpTyped

\* A timeout counts in the breaker; only the last one leaves a letter.
LEMMA CallTimesOutKeeps ==
  ASSUME McpIInv, NEW c \in McpCallIds, CallTimesOut(c)
  PROVE  McpIInv'
<1>1. mcp_call[c].pc = "calling" /\ UNCHANGED server
  BY DEF CallTimesOut
<1>2. CASE Fail(c, "MCP_TIMEOUT")
  <2>1. /\ "MCP_TIMEOUT" \in Failures
        /\ server' \in [tier : Tiers \cup {"none"}, enabled : BOOLEAN, health : HealthStates]
    BY <1>1 DEF Failures, McpIInv, McpTyped
  <2> QED
    BY <1>1, <1>2, <2>1, FailKeeps
<1>3. CASE /\ mcp_call[c].attempt <= MaxRetries
           /\ RecordFailure
           /\ mcp_call' = [mcp_call EXCEPT ![c].attempt = @ + 1]
           /\ UNCHANGED <<dlq, compensated>>
  <2>1. PICK old \in McpRecords : old = mcp_call[c]
    BY DEF McpIInv, McpTyped
  <2>2. PICK n \in 0..(MaxRetries + 1) : n = old.attempt
    BY <2>1 DEF McpRecords
  <2>3. n + 1 \in 0..(MaxRetries + 1)
    BY <1>3, <2>1, <2>2, McpAssumption
  <2>4. PICK next \in McpRecords : next = [old EXCEPT !.attempt = n + 1]
    BY <2>1, <2>3 DEF McpRecords
  <2>5. next.pc = old.pc /\ next.outcome = old.outcome
    BY <2>1, <2>4 DEF McpRecords
  <2>6. old.outcome = "none"
    BY <1>1, <2>1 DEF McpIInv, OutcomeAtEnd
  <2>7. mcp_call' = [mcp_call EXCEPT ![c] = next]
    BY <1>3, <2>1, <2>2, <2>4 DEF McpIInv, McpTyped
  <2>8. /\ mcp_call' \in [McpCallIds -> McpRecords]
        /\ OutcomeAtEnd' /\ LettersKept'
    BY <1>1, <1>3, <2>1, <2>5, <2>6, <2>7, GoesOn
  <2>9. circuit' \in [failures : Nat, open : BOOLEAN] /\ BreakerCounts'
    BY <1>3, FailureCounts
  <2> QED
    BY <1>1, <1>3, <2>8, <2>9 DEF McpIInv, McpTyped
<1> QED
  BY <1>2, <1>3 DEF CallTimesOut

\* What the client raises fails the call.
LEMMA CallRaisesKeeps ==
  ASSUME McpIInv, NEW c \in McpCallIds, CallRaises(c)
  PROVE  McpIInv'
<1>1. /\ mcp_call[c].pc # "ended"
      /\ server' \in [tier : Tiers \cup {"none"}, enabled : BOOLEAN, health : HealthStates]
      /\ \E reason \in Failures : Fail(c, reason)
  BY DEF CallRaises, Failures, McpIInv, McpTyped
<1> QED
  BY <1>1, FailKeeps

\* Registrations and health reports are about the server alone.
LEMMA ServerChangesKeep ==
  ASSUME McpIInv, RegisterServer \/ ReportHealth
  PROVE  McpIInv'
<1>1. server \in [tier : Tiers \cup {"none"}, enabled : BOOLEAN, health : HealthStates]
  BY DEF McpIInv, McpTyped
<1>2. server' \in [tier : Tiers \cup {"none"}, enabled : BOOLEAN, health : HealthStates]
  BY <1>1 DEF RegisterServer, ReportHealth
<1>3. UNCHANGED <<circuit, mcp_call, dlq, compensated>>
  BY DEF RegisterServer, ReportHealth
<1> QED
  BY <1>2, <1>3 DEF McpIInv, McpTyped, OutcomeAtEnd, LettersKept, BreakerCounts

(* Whatever calls of the server run at the same time (McpToolAdapter.execute, its breaker,    *)
(* dead letters and compensation hooks), a call that failed has exactly one dead letter and   *)
(* one compensation, with the reason its caller was given, no other call has any, no call is  *)
(* tried more often than the retries allow, and the breaker is open exactly from the          *)
(* threshold of failures on.  For any set of calls, threshold and retries.                    *)
THEOREM DeadLettersAreExact == McpSpec => []DeadLetterExact
<1>1. McpInit => McpIInv
  <2> SUFFICES ASSUME McpInit PROVE McpIInv
    OBVIOUS
  <2>1. Idle \in McpRecords /\ Idle.pc = "none" /\ Idle.outcome = "none"
    BY McpAssumption DEF Idle, McpRecords, McpOutcomes
  <2>2. \A c \in McpCallIds : mcp_call[c] = Idle
    BY DEF McpInit
  <2>3. McpTyped
    BY <2>1 DEF McpInit, McpTyped, NoServer, HealthStates
  <2>4. OutcomeAtEnd
    BY <2>1, <2>2 DEF OutcomeAtEnd
  <2>5. LettersKept
    <3>1. \A c \in McpCallIds : Letters(c, dlq) = {} /\ Letters(c, compensated) = {}
      <4>1. dlq = <<>> /\ compensated = <<>> /\ Len(<<>>) = 0 /\ 1..0 = {}
        BY DEF McpInit
      <4> QED
        BY <4>1 DEF Letters
    <3>2. "none" \notin Failures
      BY DEF Failures
    <3> QED
      BY <2>1, <2>2, <3>1, <3>2 DEF LettersKept, LettersFit
  <2>6. BreakerCounts
    BY McpAssumption DEF McpInit, BreakerCounts
  <2> QED
    BY <2>3, <2>4, <2>5, <2>6 DEF McpIInv
<1>2. McpIInv /\ [McpNext]_mcpVars => McpIInv'
  <2>1. CASE McpIInv /\ McpNext
    BY <2>1, BeginCallKeeps, HealthAnsweredKeeps, CallReturnsKeeps, CallTimesOutKeeps,
       CallRaisesKeeps, ServerChangesKeep DEF McpNext
  <2>2. CASE McpIInv /\ UNCHANGED mcpVars
    BY <2>2 DEF McpIInv, McpTyped, OutcomeAtEnd, LettersKept, BreakerCounts, mcpVars
  <2> QED
    BY <2>1, <2>2
<1>3. McpIInv => DeadLetterExact
  <2> SUFFICES ASSUME McpIInv PROVE DeadLetterExact
    OBVIOUS
  <2>1. \A c \in McpCallIds : mcp_call[c].attempt <= MaxRetries + 1
    BY McpAssumption DEF McpIInv, McpTyped, McpRecords
  <2>2. circuit.open = (circuit.failures >= FailureThreshold)
    <3>1. circuit.open \in BOOLEAN
      BY DEF McpIInv, McpTyped
    <3> QED
      BY <3>1 DEF McpIInv, BreakerCounts
  <2> QED
    BY <2>1, <2>2 DEF DeadLetterExact, McpIInv, LettersKept, LettersFit
<1> QED
  BY <1>1, <1>2, <1>3, PTL DEF McpSpec

-----------------------------------------------------------------------------
(* Pull-request artifacts.                                                 *)

\* The artifacts on disk are of pull requests that were reviewed and prepared.
ArtifactsRemembered ==
  /\ review # NoArtifact => review.pr \in reviewed
  /\ prep # NoArtifact => prep.pr \in prepared

ArtifactsIInv == ArtifactsRemembered /\ MergedWasReviewed

(* review.md, prep.md and merge.md are shared by all pull requests and written by scripts that *)
(* overlap; merge.py still records a merge only of a pull request that was reviewed and        *)
(* prepared itself (_artifact_matches_pr).  For any number of people and pull requests.        *)
THEOREM MergesWereReviewed == ArtifactsSpec => []MergedWasReviewed
<1>1. ArtifactsInit => ArtifactsIInv
  BY DEF ArtifactsInit, ArtifactsIInv, ArtifactsRemembered, MergedWasReviewed
<1>2. ArtifactsIInv /\ [ArtifactsNext]_artifactVars => ArtifactsIInv'
  <2> SUFFICES ASSUME ArtifactsIInv, [ArtifactsNext]_artifactVars PROVE ArtifactsIInv'
    OBVIOUS
  <2> USE DEF ArtifactsIInv, ArtifactsRemembered, MergedWasReviewed
  <2>1. ASSUME NEW pr \in PullRequests, NEW flag \in BOOLEAN, Review(pr, flag)
        PROVE  ArtifactsIInv'
    BY <2>1 DEF Review
  <2>2. ASSUME NEW pr \in PullRequests, NEW flag \in BOOLEAN, Merge(pr, flag)
        PROVE  ArtifactsIInv'
    BY <2>2 DEF Merge, Prerequisites, ArtifactMatchesPr
  <2>3. ASSUME NEW o \in Operators, WritePrep(o)
        PROVE  ArtifactsIInv'
    BY <2>3 DEF WritePrep
  <2>4. ASSUME UNCHANGED <<review, prep, merge, reviewed, prepared>>
        PROVE  ArtifactsIInv'
    BY <2>4
  <2> QED
    BY <2>1, <2>2, <2>3, <2>4 DEF ArtifactsNext, artifactVars, StartPrepare, RunPrepareGate,
       EditPlanning, EditAlignment
<1> QED
  BY <1>1, <1>2, PTL DEF ArtifactsSpec, ArtifactsIInv

-----------------------------------------------------------------------------
(* The tool calls of a turn.                                               *)

Statuses == {"none", "success", "error", "blocked", "timeout", "cancelled"}
ResultCodes ==
  {"none", "TOOL_CALL_VALIDATION_ERROR", "POLICY", "TOOL_NOT_FOUND", "TOOL_EXECUTION_ERROR",
   "POLICY_POSTCHECK_FAILED", "TOOL_TIMEOUT", "TOOL_CANCELLED"}
ToolResults == [status : Statuses, code : ResultCodes]
ProgressStates == Terminal \cup {"queued", "running", "recorded"}

ExecutionTyped ==
  /\ intents \in [CallIds -> CallInputs]
  /\ tools \in [Tools -> Descriptors \cup {NoTool}]
  /\ at \in 1..(MaxIntents + 1)
  /\ place \in {"intent", "decide", "running", "submit", "dropped"}
  /\ place \in {"decide", "running", "submit"} => at \in CallIds
  /\ result \in ToolResults
  /\ progress \in [CallIds -> Seq(ProgressStates)]
  /\ attempts \in [CallIds -> Nat]
  /\ answers \in [CallIds -> Seq(ToolResults)]
  /\ native \in SUBSET CallIds

\* At most one terminal event, the last.
TerminalLast(events_sent) ==
  \A i \in 1..Len(events_sent) : events_sent[i] \in Terminal => i = Len(events_sent)
NoTerminal(events_sent) == \A i \in 1..Len(events_sent) : events_sent[i] \notin Terminal

\* A result says what the handler did and what the last event said.
ResultFits(r, ran, events_sent) ==
  /\ r.status = "success" => ran > 0
  /\ r.status = "blocked" => ran = 0
  /\ events_sent # <<>> => events_sent[Len(events_sent)] \in {"recorded", TerminalState(r.status)}

\* A call that run_turn has not come to, the one it is at, and one that it is done with.
Untouched(c) ==
  progress[c] = <<>> /\ attempts[c] = 0 /\ answers[c] = <<>> /\ c \notin native

UnderWay(c) ==
  /\ answers[c] = <<>> /\ c \notin native
  /\ place = "intent" => progress[c] = <<>> /\ attempts[c] = 0
  /\ place \in {"decide", "running"} => NoTerminal(progress[c]) /\ attempts[c] = 0
  /\ place = "decide" /\ hosted = "managed" => progress[c] = <<>>
  /\ place = "submit" => ResultFits(result, attempts[c], progress[c])

DoneWith(c) ==
  /\ c \in native <=> answers[c] = <<>>
  /\ Len(answers[c]) <= 1
  /\ answers[c] # <<>> => ResultFits(answers[c][1], attempts[c], progress[c])

CallSound(c) ==
  /\ TerminalLast(progress[c])
  /\ c \in native => ~Writes(intents[c]) /\ attempts[c] = 0
  /\ at < c => Untouched(c)
  /\ c = at => UnderWay(c)
  /\ c < at => DoneWith(c)

ExecutionIInv == ExecutionTyped /\ \A c \in CallIds : CallSound(c)

\* What execute may answer: a success ran, a blocked call did not, and a call that the policy
\* refuses now does neither run nor succeed.
LEMMA ExecutedOutcomes ==
  ASSUME ExecutionTyped, NEW call \in CallInputs, NEW o \in Executed(call)
  PROVE  /\ o.ran \in Nat /\ o.result \in ToolResults
         /\ o.result.status = "success" => o.ran > 0
         /\ o.result.status = "blocked" => o.ran = 0
         /\ ~Allowed(call) => o.ran = 0 /\ o.result.status # "success"
<1>1. ASSUME NEW status \in Statuses, NEW code \in ResultCodes
      PROVE  /\ Result(status, code) \in ToolResults
             /\ Result(status, code).status = status
  BY DEF Result, ToolResults
<1>2. CASE o \in {[ran |-> 0, result |-> Result("error", "TOOL_CALL_VALIDATION_ERROR")],
                  [ran |-> 0, result |-> Result("blocked", "POLICY")],
                  [ran |-> 0, result |-> Result("error", "TOOL_NOT_FOUND")]}
  <2>1. o.ran = 0 /\ o.result \in {Result("error", "TOOL_CALL_VALIDATION_ERROR"),
          Result("blocked", "POLICY"), Result("error", "TOOL_NOT_FOUND")}
    BY <1>2
  <2> QED
    BY <1>1, <2>1 DEF Statuses, ResultCodes
<1>3. CASE o \in HostedOutcomes /\ Allowed(call)
  <2>1. o.ran = 1 /\ o.result \in {Result("success", "none"),
          Result("error", "POLICY_POSTCHECK_FAILED"), Result("error", "TOOL_EXECUTION_ERROR"),
          Result("timeout", "TOOL_TIMEOUT"), Result("cancelled", "TOOL_CANCELLED")}
    BY <1>3 DEF HostedOutcomes
  <2> QED
    BY <1>1, <1>3, <2>1 DEF Statuses, ResultCodes
<1>4. CASE /\ o \in HandlerOutcomes(call, tools[call.tool]) /\ Allowed(call)
           /\ tools[call.tool] # NoTool
  <2>1. PICK tool \in Descriptors : tool = tools[call.tool]
    BY <1>4, ExecutionAssumption DEF ExecutionTyped
  <2>2. PICK most \in Nat \ {0} : most = tool.attempts
    BY <2>1, ExecutionAssumption
  <2>3. \/ o = [ran |-> 0, result |-> Result("error", "TOOL_EXECUTION_ERROR")]
        \/ \E n \in 1..most : o = [ran |-> n, result |-> Result("success", "none")]
        \/ o = [ran |-> most, result |-> Result("error", "TOOL_EXECUTION_ERROR")]
        \/ o = [ran |-> most, result |-> Result("error", "TOOL_NOT_FOUND")]
    BY <1>4, <2>1, <2>2 DEF HandlerOutcomes
  <2>4. \/ o.ran = 0 /\ o.result = Result("error", "TOOL_EXECUTION_ERROR")
        \/ o.ran \in 1..most /\ o.result = Result("success", "none")
        \/ o.ran = most /\ o.result = Result("error", "TOOL_EXECUTION_ERROR")
        \/ o.ran = most /\ o.result = Result("error", "TOOL_NOT_FOUND")
    BY <2>3
  <2>5. o.ran \in Nat /\ (o.result = Result("success", "none") => o.ran > 0)
    <3>1. "success" # "error" /\ Result("success", "none").status = "success"
          /\ Result("error", "TOOL_EXECUTION_ERROR").status = "error"
          /\ Result("error", "TOOL_NOT_FOUND").status = "error"
      BY DEF Result
    <3> QED
      BY <2>4, <3>1
  <2> QED
    BY <1>1, <1>4, <2>4, <2>5 DEF Statuses, ResultCodes
<1> QED
  BY <1>2, <1>3, <1>4 DEF Executed

\* A step that stays at the call keeps the invariant when that call is sound after it.
LEMMA StaysAtCall ==
  ASSUME ExecutionIInv, ExecutionTyped', at' = at, UNCHANGED <<intents, answers, native>>,
         \A c \in CallIds : c # at => progress'[c] = progress[c] /\ attempts'[c] = attempts[c],
         at \in CallIds => TerminalLast(progress'[at]) /\ UnderWay(at)'
  PROVE  ExecutionIInv'
<1>1. ASSUME NEW c \in CallIds
      PROVE  CallSound(c)'
  <2>1. CallSound(c)
    BY DEF ExecutionIInv
  <2>2. at \in Nat /\ c \in Nat
    BY ExecutionAssumption DEF ExecutionIInv, ExecutionTyped, CallIds
  <2>3. CASE c = at
    <3>1. TerminalLast(progress'[c]) /\ UnderWay(c)'
      BY <2>3
    <3>2. c \notin native'
      BY <3>1 DEF UnderWay
    <3> QED
      BY <2>2, <2>3, <3>1, <3>2 DEF CallSound
  <2>4. CASE c # at
    BY <2>1, <2>2, <2>4 DEF CallSound, Untouched, DoneWith
  <2> QED
    BY <2>3, <2>4
<1> QED
  BY <1>1 DEF ExecutionIInv

\* A step to the next call keeps it when the call that it leaves is done with.
LEMMA MovesOn ==
  ASSUME ExecutionIInv, ExecutionTyped', NEW b \in CallIds, b = at, at' = at + 1,
         place' = "intent", UNCHANGED <<intents, progress, attempts>>,
         \A c \in CallIds : c # b => answers'[c] = answers[c] /\ (c \in native' <=> c \in native),
         b \in native' => ~Writes(intents[b]) /\ attempts[b] = 0,
         DoneWith(b)'
  PROVE  ExecutionIInv'
<1>1. ASSUME NEW c \in CallIds
      PROVE  CallSound(c)'
  <2>1. CallSound(c)
    BY DEF ExecutionIInv
  <2>2. at \in Nat /\ c \in Nat
    BY ExecutionAssumption DEF ExecutionIInv, ExecutionTyped, CallIds
  <2>3. CASE c = b
    <3>1. TerminalLast(progress[c])
      BY <2>1 DEF CallSound
    <3> QED
      BY <2>2, <2>3, <3>1 DEF CallSound
  <2>4. CASE c < at
    BY <2>1, <2>2, <2>4 DEF CallSound, DoneWith
  <2>5. CASE at < c
    <3>1. Untouched(c)
      BY <2>1, <2>5 DEF CallSound
    <3>2. Untouched(c)'
      BY <2>2, <2>5, <3>1 DEF Untouched
    <3>3. UnderWay(c)'
      BY <3>2 DEF Untouched, UnderWay
    <3>4. TerminalLast(progress'[c])
      BY <2>1 DEF CallSound
    <3>5. c \notin native' /\ ~(c < at')
      BY <2>2, <2>5, <3>2 DEF Untouched
    <3> QED
      BY <3>2, <3>3, <3>4, <3>5 DEF CallSound
  <2> QED
    BY <2>2, <2>3, <2>4, <2>5
<1> QED
  BY <1>1 DEF ExecutionIInv

\* One event more, after events none of which was terminal.
LEMMA OneEventMore ==
  ASSUME NEW sent \in Seq(ProgressStates), NEW state \in ProgressStates, NoTerminal(sent)
  PROVE  LET more == Append(sent, state)
         IN  /\ more \in Seq(ProgressStates) /\ TerminalLast(more)
             /\ more # <<>> /\ more[Len(more)] = state
             /\ state \notin Terminal => NoTerminal(more)
<1> DEFINE more == Append(sent, state)
<1>1. /\ more \in Seq(ProgressStates) /\ Len(sent) \in Nat /\ Len(more) = Len(sent) + 1
      /\ more[Len(sent) + 1] = state
      /\ \A i \in 1..Len(sent) : more[i] = sent[i]
  OBVIOUS
<1>2. more # <<>>
  BY <1>1
<1>3. TerminalLast(more)
  BY <1>1 DEF TerminalLast, NoTerminal
<1>4. state \notin Terminal => NoTerminal(more)
  BY <1>1 DEF NoTerminal
<1> QED
  BY <1>1, <1>2, <1>3, <1>4

\* What an event changes, for the call at hand and for the others.
LEMMA YieldsEvent ==
  ASSUME ExecutionIInv, at \in CallIds, NEW state \in ProgressStates, NEW next,
         Yield(state, next), NoTerminal(progress[at])
  PROVE  /\ progress' \in [CallIds -> Seq(ProgressStates)] /\ place' = next
         /\ \A c \in CallIds : c # at => progress'[c] = progress[c]
         /\ TerminalLast(progress'[at]) /\ progress'[at] # <<>>
         /\ progress'[at][Len(progress'[at])] = state
         /\ state \notin Terminal => NoTerminal(progress'[at])
<1>1. progress \in [CallIds -> Seq(ProgressStates)] /\ progress[at] \in Seq(ProgressStates)
  BY DEF ExecutionIInv, ExecutionTyped
<1>2. progress' = [progress EXCEPT ![at] = Append(progress[at], state)] /\ place' = next
  BY DEF Yield
<1>3. Append(progress[at], state) \in Seq(ProgressStates)
  BY <1>1
<1>4. /\ progress' \in [CallIds -> Seq(ProgressStates)]
      /\ progress'[at] = Append(progress[at], state)
      /\ \A c \in CallIds : c # at => progress'[c] = progress[c]
  BY <1>1, <1>2, <1>3
<1> QED
  BY <1>1, <1>2, <1>4, OneEventMore

\* A call without events has no terminal one.
LEMMA EmptyHasNoTerminal ==
  ASSUME NEW sent, sent = <<>>
  PROVE  NoTerminal(sent) /\ TerminalLast(sent) /\ sent \in Seq(ProgressStates)
<1>1. Len(sent) = 0 /\ 1..0 = {}
  OBVIOUS
<1> QED
  BY <1>1 DEF NoTerminal, TerminalLast

\* What the invariant says of the call at hand.
LEMMA AtHand ==
  ASSUME ExecutionIInv, at \in CallIds
  PROVE  UnderWay(at) /\ TerminalLast(progress[at]) /\ intents[at] \in CallInputs
         /\ progress[at] \in Seq(ProgressStates)
BY DEF ExecutionIInv, CallSound, ExecutionTyped

\* The stream brings an intent: at most "queued" is sent.
LEMMA TakeIntentKeeps ==
  ASSUME ExecutionIInv, TakeIntent
  PROVE  ExecutionIInv'
<1>1. /\ place = "intent" /\ at \in CallIds
      /\ UNCHANGED <<at, result, attempts, answers, native, intents, hosted, overlay, tools>>
  BY DEF TakeIntent, Unchanged
<1>2. /\ progress[at] = <<>> /\ attempts[at] = 0 /\ answers[at] = <<>> /\ at \notin native
  BY <1>1, AtHand DEF UnderWay
<1>3. NoTerminal(progress[at]) /\ TerminalLast(progress[at])
  BY <1>2, EmptyHasNoTerminal
<1>4. CASE hosted = "managed"
  <2>1. place' = "decide" /\ UNCHANGED progress
    BY <1>4 DEF TakeIntent
  <2>2. ExecutionTyped'
    BY <1>1, <2>1 DEF ExecutionIInv, ExecutionTyped
  <2>3. UnderWay(at)'
    BY <1>1, <1>2, <1>3, <2>1 DEF UnderWay
  <2> QED
    BY <1>1, <1>3, <2>1, <2>2, <2>3, StaysAtCall
<1>5. CASE hosted # "managed"
  <2>1. Yield("queued", "decide")
    BY <1>5 DEF TakeIntent
  <2>2. "queued" \in ProgressStates /\ "queued" \notin Terminal
    BY DEF ProgressStates, Terminal
  <2>3. /\ progress' \in [CallIds -> Seq(ProgressStates)] /\ place' = "decide"
        /\ \A c \in CallIds : c # at => progress'[c] = progress[c]
        /\ TerminalLast(progress'[at]) /\ NoTerminal(progress'[at])
    BY <1>1, <1>3, <2>1, <2>2, YieldsEvent
  <2>4. ExecutionTyped'
    BY <1>1, <2>3 DEF ExecutionIInv, ExecutionTyped
  <2>5. UnderWay(at)'
    BY <1>1, <1>2, <1>5, <2>3 DEF UnderWay
  <2> QED
    BY <1>1, <2>3, <2>4, <2>5, StaysAtCall
<1> QED
  BY <1>4, <1>5

\* execute, asked while the call has no terminal event and no attempt.
LEMMA ExecuteKeeps ==
  ASSUME ExecutionIInv, place \in {"decide", "running"}, Execute, Unchanged
  PROVE  ExecutionIInv'
<1>1. at \in CallIds /\ UNCHANGED <<at, answers, native, intents, hosted, overlay, tools>>
  BY DEF Execute, Unchanged, ExecutionIInv, ExecutionTyped
<1>2. /\ NoTerminal(progress[at]) /\ attempts[at] = 0 /\ answers[at] = <<>> /\ at \notin native
      /\ intents[at] \in CallInputs
  BY <1>1, AtHand DEF UnderWay
<1>3. PICK o \in Executed(intents[at]) :
        /\ result' = o.result
        /\ attempts' = [attempts EXCEPT ![at] = @ + o.ran]
        /\ \/ Yield(TerminalState(o.result.status), "submit")
           \/ hosted = "managed" /\ o.ran > 0 /\ Yield("recorded", "submit")
  BY DEF Execute, Call
<1>4. /\ o.ran \in Nat /\ o.result \in ToolResults
      /\ o.result.status = "success" => o.ran > 0
      /\ o.result.status = "blocked" => o.ran = 0
  BY <1>2, <1>3, ExecutedOutcomes DEF ExecutionIInv
<1>5. /\ attempts' \in [CallIds -> Nat] /\ attempts'[at] = o.ran
      /\ \A c \in CallIds : c # at => attempts'[c] = attempts[c]
  <2>1. attempts \in [CallIds -> Nat] /\ 0 + o.ran = o.ran
    BY <1>4 DEF ExecutionIInv, ExecutionTyped
  <2> QED
    BY <1>1, <1>2, <1>3, <1>4, <2>1
<1>6. PICK state \in ProgressStates : /\ Yield(state, "submit")
                                      /\ state \in {"recorded", TerminalState(o.result.status)}
  <2>1. TerminalState(o.result.status) \in ProgressStates
    BY DEF TerminalState, ProgressStates, Terminal
  <2>2. "recorded" \in ProgressStates
    BY DEF ProgressStates
  <2> QED
    BY <1>3, <2>1, <2>2
<1>7. /\ progress' \in [CallIds -> Seq(ProgressStates)] /\ place' = "submit"
      /\ \A c \in CallIds : c # at => progress'[c] = progress[c]
      /\ TerminalLast(progress'[at])
      /\ progress'[at][Len(progress'[at])] = state
  BY <1>1, <1>2, <1>6, YieldsEvent
<1>8. ExecutionTyped'
  BY <1>1, <1>3, <1>4, <1>5, <1>7 DEF ExecutionIInv, ExecutionTyped
<1>9. ResultFits(result', attempts'[at], progress'[at])
  BY <1>3, <1>4, <1>5, <1>6, <1>7 DEF ResultFits
<1>10. UnderWay(at)'
  BY <1>1, <1>2, <1>7, <1>9 DEF UnderWay
<1> QED
  BY <1>1, <1>5, <1>7, <1>8, <1>10, StaysAtCall

\* A refused call gets a result that is no success, and was not run.
LEMMA BlockKeeps ==
  ASSUME ExecutionIInv, Block
  PROVE  ExecutionIInv'
<1>1. place = "decide" /\ ~Allowed(intents[at]) /\ Unchanged
  BY DEF Block, Call
<1>2. CASE hosted = "managed"
  <2>1. PICK o \in Executed(intents[at]) : result' = o.result
    BY <1>2 DEF Block, Call
  <2>2. /\ place' = "submit"
        /\ UNCHANGED <<progress, attempts, answers, native, at, intents, hosted, overlay, tools>>
    BY <1>2 DEF Block, Unchanged
  <2>3. at \in CallIds
    BY <1>1 DEF ExecutionIInv, ExecutionTyped
  <2>4. /\ progress[at] = <<>> /\ attempts[at] = 0 /\ answers[at] = <<>> /\ at \notin native
        /\ intents[at] \in CallInputs /\ TerminalLast(progress[at])
    BY <1>1, <1>2, <2>3, AtHand DEF UnderWay
  <2>5. o.result \in ToolResults /\ o.result.status # "success"
    BY <1>1, <2>1, <2>4, ExecutedOutcomes DEF ExecutionIInv
  <2>6. ExecutionTyped'
    BY <2>1, <2>2, <2>3, <2>5 DEF ExecutionIInv, ExecutionTyped
  <2>7. ResultFits(result', attempts'[at], progress'[at])
    BY <2>1, <2>2, <2>4, <2>5 DEF ResultFits
  <2>8. UnderWay(at)'
    BY <2>2, <2>4, <2>7 DEF UnderWay
  <2> QED
    BY <2>2, <2>4, <2>6, <2>8, StaysAtCall
<1>3. CASE hosted # "managed"
  BY <1>1, <1>3, ExecuteKeeps DEF Block
<1> QED
  BY <1>2, <1>3

\* "running" is sent before the call is executed.
LEMMA StartRunningKeeps ==
  ASSUME ExecutionIInv, StartRunning
  PROVE  ExecutionIInv'
<1>1. /\ place = "decide" /\ Yield("running", "running")
      /\ UNCHANGED <<at, result, attempts, answers, native, intents, hosted, overlay, tools>>
  BY DEF StartRunning, Unchanged
<1>2. at \in CallIds
  BY <1>1 DEF ExecutionIInv, ExecutionTyped
<1>3. NoTerminal(progress[at]) /\ attempts[at] = 0 /\ answers[at] = <<>> /\ at \notin native
  BY <1>1, <1>2, AtHand DEF UnderWay
<1>4. "running" \in ProgressStates /\ "running" \notin Terminal
  BY DEF ProgressStates, Terminal
<1>5. /\ progress' \in [CallIds -> Seq(ProgressStates)] /\ place' = "running"
      /\ \A c \in CallIds : c # at => progress'[c] = progress[c]
      /\ TerminalLast(progress'[at]) /\ NoTerminal(progress'[at])
  BY <1>1, <1>2, <1>3, <1>4, YieldsEvent
<1>6. ExecutionTyped'
  BY <1>1, <1>2, <1>5 DEF ExecutionIInv, ExecutionTyped
<1>7. UnderWay(at)'
  BY <1>1, <1>3, <1>5 DEF UnderWay
<1> QED
  BY <1>1, <1>5, <1>6, <1>7, StaysAtCall

\* A call left to the provider is done with, without an answer; it does not write.
LEMMA LeaveToProviderKeeps ==
  ASSUME ExecutionIInv, LeaveToProvider
  PROVE  ExecutionIInv'
<1>1. /\ place = "decide" /\ ~Writes(intents[at])
      /\ native' = native \cup {at} /\ at' = at + 1 /\ place' = "intent"
      /\ UNCHANGED <<result, progress, attempts, answers, intents, hosted, overlay, tools>>
  BY DEF LeaveToProvider, Deterministic, Call, Unchanged
<1>2. PICK b \in CallIds : b = at
  BY <1>1 DEF ExecutionIInv, ExecutionTyped
<1>3. attempts[b] = 0 /\ answers[b] = <<>>
  BY <1>1, <1>2, AtHand DEF UnderWay
<1>4. at + 1 \in 1..(MaxIntents + 1)
  BY <1>2, ExecutionAssumption DEF CallIds
<1>5. ExecutionTyped'
  BY <1>1, <1>2, <1>4 DEF ExecutionIInv, ExecutionTyped
<1>6. DoneWith(b)'
  <2>1. b \in native' /\ answers'[b] = <<>> /\ Len(<<>>) = 0
    BY <1>1, <1>2, <1>3
  <2> QED
    BY <2>1 DEF DoneWith
<1>7. \A c \in CallIds : c # b => answers'[c] = answers[c] /\ (c \in native' <=> c \in native)
  BY <1>1, <1>2
<1> QED
  BY <1>1, <1>2, <1>3, <1>5, <1>6, <1>7, MovesOn

\* The result at hand becomes the one answer of the call.
LEMMA SubmitKeeps ==
  ASSUME ExecutionIInv, Submit
  PROVE  ExecutionIInv'
<1>1. /\ place = "submit" /\ at' = at + 1 /\ place' = "intent" /\ result' = NoResult
      /\ answers' = [answers EXCEPT ![at] = Append(@, result)]
      /\ UNCHANGED <<progress, attempts, native, intents, hosted, overlay, tools>>
  BY DEF Submit, Unchanged
<1>2. PICK b \in CallIds : b = at
  BY <1>1 DEF ExecutionIInv, ExecutionTyped
<1>3. /\ answers[b] = <<>> /\ b \notin native
      /\ ResultFits(result, attempts[b], progress[b])
  BY <1>1, <1>2, AtHand DEF UnderWay
<1>4. at + 1 \in 1..(MaxIntents + 1)
  BY <1>2, ExecutionAssumption DEF CallIds
<1>5. result \in ToolResults /\ answers \in [CallIds -> Seq(ToolResults)]
  BY DEF ExecutionIInv, ExecutionTyped
<1>6. PICK one \in Seq(ToolResults) : one = Append(<<>>, result)
  <2>1. PICK none \in Seq(ToolResults) : none = <<>>
    BY <1>3, <1>5
  <2>2. Append(none, result) \in Seq(ToolResults)
    BY <1>5
  <2> QED
    BY <2>1, <2>2
<1>7. one # <<>> /\ Len(one) = 1 /\ one[1] = result
  BY <1>5, <1>6
<1>8. /\ answers' \in [CallIds -> Seq(ToolResults)] /\ answers'[b] = one
      /\ \A c \in CallIds : c # b => answers'[c] = answers[c]
  BY <1>1, <1>2, <1>3, <1>5, <1>6
<1>9. NoResult \in ToolResults
  BY DEF NoResult, ToolResults, Statuses, ResultCodes
<1>10. ExecutionTyped'
  BY <1>1, <1>4, <1>8, <1>9 DEF ExecutionIInv, ExecutionTyped
<1>11. DoneWith(b)'
  BY <1>1, <1>3, <1>7, <1>8 DEF DoneWith
<1> QED
  BY <1>1, <1>2, <1>3, <1>8, <1>10, <1>11, MovesOn

\* A turn that is dropped leaves the call at hand unanswered.
LEMMA DropTurnKeeps ==
  ASSUME ExecutionIInv, DropTurn
  PROVE  ExecutionIInv'
<1>1. /\ place' = "dropped"
      /\ UNCHANGED <<at, result, progress, attempts, answers, native, intents, hosted, overlay,
                     tools>>
  BY DEF DropTurn, Unchanged
<1>2. ExecutionTyped'
  BY <1>1 DEF ExecutionIInv, ExecutionTyped
<1>3. ASSUME at \in CallIds
      PROVE  TerminalLast(progress'[at]) /\ UnderWay(at)'
  <2>1. UnderWay(at) /\ TerminalLast(progress[at])
    BY <1>3, AtHand
  <2> QED
    BY <1>1, <2>1 DEF UnderWay
<1> QED
  BY <1>1, <1>2, <1>3, StaysAtCall

\* What is reconfigured meanwhile changes nothing that was sent or answered.
LEMMA ReconfigureKeeps ==
  ASSUME ExecutionIInv, Reconfigure
  PROVE  ExecutionIInv'
<1>1. UNCHANGED <<intents, hosted, at, place, result, progress, attempts, answers, native>>
  BY DEF Reconfigure
<1>2. tools' \in [Tools -> Descriptors \cup {NoTool}]
  BY DEF Reconfigure, PutOverlay, ChangeTool, ExecutionIInv, ExecutionTyped
<1>3. ExecutionTyped'
  BY <1>1, <1>2 DEF ExecutionIInv, ExecutionTyped
<1>4. ASSUME at \in CallIds
      PROVE  TerminalLast(progress'[at]) /\ UnderWay(at)'
  <2>1. UnderWay(at) /\ TerminalLast(progress[at])
    BY <1>4, AtHand
  <2> QED
    BY <1>1, <2>1 DEF UnderWay
<1> QED
  BY <1>1, <1>3, <1>4, StaysAtCall

\* Every step of the turn keeps the invariant.
LEMMA ExecutionInductive ==
  ASSUME ExecutionIInv, [ExecutionNext]_executionVars
  PROVE  ExecutionIInv'
<1>1. CASE RunCall
  <2>1. place \in {"decide", "running"} /\ Execute /\ Unchanged
    BY <1>1 DEF RunCall
  <2> QED
    BY <2>1, ExecuteKeeps
<1>2. CASE UNCHANGED executionVars
  BY <1>2 DEF executionVars, ExecutionIInv, ExecutionTyped, CallSound, Untouched, UnderWay, DoneWith
<1> QED
  BY <1>1, <1>2, TakeIntentKeeps, BlockKeeps, StartRunningKeeps, LeaveToProviderKeeps, SubmitKeeps,
     DropTurnKeeps, ReconfigureKeeps DEF ExecutionNext

\* A turn starts with no call touched.
LEMMA ExecutionStarts ==
  ASSUME ExecutionInit
  PROVE  ExecutionIInv
<1>1. \A c \in CallIds : Untouched(c) /\ c \in Nat /\ c >= 1
  BY ExecutionAssumption DEF ExecutionInit, Untouched, CallIds
<1>2. ExecutionTyped
  <2>1. NoResult \in ToolResults
    BY DEF NoResult, ToolResults, Statuses, ResultCodes
  <2>2. at \in 1..(MaxIntents + 1)
    BY ExecutionAssumption DEF ExecutionInit
  <2>3. tools \in [Tools -> Descriptors \cup {NoTool}]
    BY DEF ExecutionInit
  <2> QED
    BY <2>1, <2>2, <2>3 DEF ExecutionInit, ExecutionTyped
<1>3. ASSUME NEW c \in CallIds
      PROVE  CallSound(c)
  <2>1. Untouched(c) /\ at = 1 /\ place = "intent" /\ ~(c < 1)
    BY <1>1 DEF ExecutionInit
  <2>2. TerminalLast(progress[c])
    BY <2>1, EmptyHasNoTerminal DEF Untouched
  <2> QED
    BY <2>1, <2>2 DEF CallSound, Untouched, UnderWay
<1> QED
  BY <1>2, <1>3 DEF ExecutionIInv

(* Every tool call that Orchestrator.run_turn is done with was left to the provider or          *)
(* answered, once; a provider never gets a call that writes; and the answer agrees with what    *)
(* the handler did and with the one terminal event.  For any calls, policy, tools and overlays, *)
(* whatever is reconfigured and wherever the turn is dropped.                                   *)
THEOREM CallsAreAnsweredOnce == ExecutionSpec => []AnsweredOnce
<1>1. ExecutionInit => ExecutionIInv
  BY ExecutionStarts
<1>2. ExecutionIInv /\ [ExecutionNext]_executionVars => ExecutionIInv'
  BY ExecutionInductive
<1>3. ExecutionIInv => AnsweredOnce
  <2> SUFFICES ASSUME ExecutionIInv, NEW c \in CallIds
               PROVE  AnsweredOnce!(c)
    BY DEF AnsweredOnce
  <2>1. CallSound(c) /\ at \in Nat /\ c \in Nat
    BY ExecutionAssumption DEF ExecutionIInv, ExecutionTyped, CallIds
  <2>2. answers[c] # <<>> => c < at
    BY <2>1 DEF CallSound, Untouched, UnderWay
  <2>3. c < at => (c \in native) = (answers[c] = <<>>) /\ Len(answers[c]) <= 1
    BY <2>1 DEF CallSound, DoneWith
  <2>4. answers[c] # <<>> => ResultFits(answers[c][1], attempts[c], progress[c])
    BY <2>1, <2>2 DEF CallSound, DoneWith
  <2> QED
    BY <2>1, <2>3, <2>4 DEF CallSound, TerminalLast, ResultFits
<1> QED
  BY <1>1, <1>2, <1>3, PTL DEF ExecutionSpec

(* A handler runs, and a provider is given a call, only when the policy allows the call at that *)
(* very moment, also when the overlay was replaced after the orchestrator had asked.            *)
THEOREM RunsAreApproved == ExecutionSpec => NoUnapprovedRun
<1> DEFINE Approved == \A c \in CallIds :
      attempts'[c] # attempts[c] \/ c \in native' \ native => Allowed(intents[c])
<1>1. ExecutionInit => ExecutionIInv
  BY ExecutionStarts
<1>2. ExecutionIInv /\ [ExecutionNext]_executionVars => ExecutionIInv'
  BY ExecutionInductive
<1>3. ExecutionIInv /\ [ExecutionNext]_executionVars => [Approved]_executionVars
  <2> SUFFICES ASSUME ExecutionIInv, ExecutionNext
               PROVE  Approved
    OBVIOUS
  <2>1. ASSUME place \in {"decide", "running"}, Execute
        PROVE  Approved
    <3>1. at \in CallIds /\ intents[at] \in CallInputs /\ attempts \in [CallIds -> Nat]
      BY <2>1 DEF ExecutionIInv, ExecutionTyped
    <3>2. PICK o \in Executed(intents[at]) : attempts' = [attempts EXCEPT ![at] = @ + o.ran]
      BY <2>1 DEF Execute, Call
    <3>3. o.ran \in Nat /\ (~Allowed(intents[at]) => o.ran = 0)
      BY <3>1, <3>2, ExecutedOutcomes DEF ExecutionIInv
    <3>4. \A c \in CallIds : c # at => attempts'[c] = attempts[c]
      BY <3>1, <3>2
    <3>5. attempts'[at] # attempts[at] => Allowed(intents[at])
      BY <3>1, <3>2, <3>3
    <3>6. native' = native
      BY <2>1 DEF Execute
    <3> QED
      BY <3>4, <3>5, <3>6
  <2>2. ASSUME UNCHANGED <<attempts, native>>
        PROVE  Approved
    BY <2>2
  <2>3. ASSUME LeaveToProvider
        PROVE  Approved
    BY <2>3 DEF LeaveToProvider, Call
  <2> QED
    BY <2>1, <2>2, <2>3 DEF ExecutionNext, TakeIntent, Block, StartRunning, RunCall, Submit,
       DropTurn, Reconfigure
<1> QED
  BY <1>1, <1>2, <1>3, PTL DEF ExecutionSpec, NoUnapprovedRun

-----------------------------------------------------------------------------
(* Audit evidence.                                                         *)

\* An exported bundle: the payload that was signed, its chain, and, when it was signed at all,
\* the version and the secret of the keyring of that time.
ExportSound(x) ==
  /\ x.bundle = [payload |-> x.bundle.payload,
                 signature |-> Sign(x.bundle.payload, x.bundle.signature.secret)]
  /\ ChainValid(x.bundle)
  /\ \A v \in DOMAIN x.ring : x.ring[v] # ""
  /\ x.bundle.signature.secret # "" =>
       /\ x.bundle.payload.version \in DOMAIN x.ring
       /\ x.ring[x.bundle.payload.version] = x.bundle.signature.secret

\* What verify asks of a bundle, under any keyring.
VerifiesUnder(t, bundle, ring) ==
  /\ bundle.payload.tenant = t
  /\ \E v \in IF bundle.payload.version \in DOMAIN ring THEN {bundle.payload.version}
              ELSE DOMAIN ring : bundle.signature = Sign(bundle.payload, ring[v])
  /\ ChainValid(bundle)

VerdictSound ==
  verdict # NoVerdict =>
    /\ verdict.verified <=> VerifiesUnder(verdict.tenant, verdict.bundle, verdict.ring)
    /\ verdict.verified => verdict.bundle \in Bundles

AuditIInv ==
  /\ signing \in SigningSettings
  /\ \A x \in exported : ExportSound(x)
  /\ \A f \in DOMAIN files : files[f] \in Bundles
  /\ VerdictSound

\* A keyring has no blank secret, and every version of it is one of the three.
LEMMA KeyringSecrets ==
  ASSUME AuditIInv
  PROVE  /\ \A v \in DOMAIN Keyring : Keyring[v] # "" /\ v \in {"v1", "v2", "v3"}
<1>1. signing \in SigningSettings /\ DOMAIN signing.versioned \subseteq {"v1", "v2", "v3"}
  BY SigningAssumption DEF AuditIInv
<1> DEFINE versioned == {v \in DOMAIN signing.versioned : signing.versioned[v] # ""}
<1> DEFINE legacy == IF signing.legacy = "" THEN {} ELSE {"v1"}
<1>2. Keyring = [v \in versioned \cup legacy |->
                   IF v \in versioned THEN signing.versioned[v] ELSE signing.legacy]
  BY DEF Keyring
<1> SUFFICES ASSUME NEW v \in versioned \cup legacy
             PROVE  Keyring[v] # "" /\ v \in {"v1", "v2", "v3"}
  BY <1>2
<1> QED
  BY <1>1, <1>2

\* The version that signs is in the keyring, unless the keyring is empty.
LEMMA VersionUsedIsThere ==
  ASSUME AuditIInv, DOMAIN Keyring # {}
  PROVE  VersionUsed \in DOMAIN Keyring
<1> DEFINE First(i) == /\ VersionOrder[i] \in DOMAIN Keyring
                       /\ \A j \in 1..(i - 1) : VersionOrder[j] \notin DOMAIN Keyring
<1>1. /\ Len(VersionOrder) = 3 /\ VersionOrder[1] = "v1"
      /\ VersionOrder[2] = "v2" /\ VersionOrder[3] = "v3"
  BY DEF VersionOrder
<1>2. \E i \in 1..3 : First(i)
  <2>1. PICK v \in DOMAIN Keyring : v \in {"v1", "v2", "v3"}
    BY KeyringSecrets
  <2>2. CASE "v1" \in DOMAIN Keyring
    <3>1. First(1)
      BY <1>1, <2>2
    <3> QED
      BY <3>1
  <2>3. CASE "v1" \notin DOMAIN Keyring /\ "v2" \in DOMAIN Keyring
    <3>1. First(2)
      <4>1. 1..(2 - 1) = {1}
        OBVIOUS
      <4> QED
        BY <1>1, <2>3, <4>1
    <3> QED
      BY <3>1
  <2>4. CASE "v1" \notin DOMAIN Keyring /\ "v2" \notin DOMAIN Keyring
    <3>1. First(3)
      <4>1. 1..(3 - 1) = {1, 2}
        OBVIOUS
      <4> QED
        BY <1>1, <2>1, <2>4, <4>1
    <3> QED
      BY <3>1
  <2> QED
    BY <2>2, <2>3, <2>4
<1>3. FirstVersion \in DOMAIN Keyring
  <2>1. FirstVersion = VersionOrder[CHOOSE i \in 1..3 : First(i)]
    BY <1>1 DEF FirstVersion
  <2> HIDE DEF First
  <2>2. First(CHOOSE i \in 1..3 : First(i))
    BY <1>2
  <2> QED
    BY <2>1, <2>2 DEF First
<1> QED
  BY <1>3 DEF VersionUsed

\* A bundle built now, with the keyring of now, is sound.
LEMMA BuiltIsSound ==
  ASSUME AuditIInv, NEW t, NEW limit
  PROVE  ExportSound([bundle |-> BuildBundle(t, limit), ring |-> Keyring])
<1> DEFINE records == ListEvents(t, AtMost(AtLeast(limit, 1), AtLeast(MaxExport, 1)))
<1> DEFINE payload == [tenant |-> t, records |-> records, valid |-> TRUE, last |-> records,
                       version |-> SigningSecret.version, at |-> second]
<1>1. PICK p : p = payload
  OBVIOUS
<1>2. p.valid = TRUE /\ p.last = p.records /\ p.version = SigningSecret.version
  BY <1>1
<1>3. PICK secret : secret = SigningSecret.secret
  OBVIOUS
<1>4. BuildBundle(t, limit) = [payload |-> p, signature |-> [secret |-> secret, payload |-> p]]
  BY <1>1, <1>3 DEF BuildBundle, Sign
<1>5. PICK x : x = [bundle |-> BuildBundle(t, limit), ring |-> Keyring]
  OBVIOUS
<1>6. /\ x.bundle = [payload |-> p, signature |-> [secret |-> secret, payload |-> p]]
      /\ x.ring = Keyring
  BY <1>4, <1>5
<1>7. x.bundle.payload = p /\ x.bundle.signature = [secret |-> secret, payload |-> p]
      /\ x.bundle.signature.secret = secret
  BY <1>6
<1>8. ChainValid(x.bundle)
  BY <1>2, <1>7 DEF ChainValid
<1>9. \A v \in DOMAIN x.ring : x.ring[v] # ""
  BY <1>6, KeyringSecrets
<1>10. ASSUME secret # ""
       PROVE  p.version \in DOMAIN x.ring /\ x.ring[p.version] = secret
  <2>1. DOMAIN Keyring # {}
    BY <1>3, <1>10 DEF SigningSecret
  <2>2. SigningSecret = [version |-> VersionUsed, secret |-> Keyring[VersionUsed]]
    BY <2>1 DEF SigningSecret
  <2>3. p.version = VersionUsed /\ secret = Keyring[VersionUsed]
    BY <1>2, <1>3, <2>2
  <2> QED
    BY <1>6, <2>1, <2>3, VersionUsedIsThere
<1> QED
  BY <1>5, <1>6, <1>7, <1>8, <1>9, <1>10 DEF ExportSound, Sign

\* A new bundle is added; the verdict and the files are about bundles as before.
LEMMA ExportedKeeps ==
  ASSUME AuditIInv, NEW t, NEW limit,
         exported' = exported \cup {[bundle |-> BuildBundle(t, limit), ring |-> Keyring]},
         UNCHANGED <<signing, verdict>>,
         \A f \in DOMAIN files' : \/ f \in DOMAIN files /\ files'[f] = files[f]
                                  \/ files'[f] = BuildBundle(t, limit)
  PROVE  AuditIInv'
<1>1. PICK x : x = [bundle |-> BuildBundle(t, limit), ring |-> Keyring]
  OBVIOUS
<1>2. exported' = exported \cup {x} /\ x.bundle = BuildBundle(t, limit) /\ ExportSound(x)
  BY <1>1, BuiltIsSound
<1>3. Bundles \subseteq Bundles' /\ BuildBundle(t, limit) \in Bundles'
  BY <1>2 DEF Bundles
<1>4. \A y \in exported' : ExportSound(y)
  BY <1>2 DEF AuditIInv
<1>5. \A f \in DOMAIN files' : files'[f] \in Bundles'
  BY <1>3 DEF AuditIInv
<1>6. VerdictSound'
  BY <1>3 DEF AuditIInv, VerdictSound
<1>7. \A y \in exported' : ExportSound(y)'
  BY <1>4 DEF ExportSound, ChainValid, Sign
<1> QED
  BY <1>5, <1>6, <1>7 DEF AuditIInv

\* The signature holds the payload that was signed: a bundle whose payload was changed is told
\* from the one exported.
LEMMA ChangedIsRefused ==
  ASSUME AuditIInv, NEW b \in Presentable, b.signature.payload = b.payload
  PROVE  b \in Bundles
<1>1. ASSUME NEW c \in Bundles
      PROVE  \E p, secret : c = [payload |-> p, signature |-> [secret |-> secret, payload |-> p]]
  <2>1. PICK x \in exported : c = x.bundle
    BY <1>1 DEF Bundles
  <2> QED
    BY <2>1 DEF AuditIInv, ExportSound, Sign
<1>2. ASSUME NEW c \in Bundles, NEW changed, b = [c EXCEPT !.payload = changed]
      PROVE  b \in Bundles
  <2>1. PICK p, secret : c = [payload |-> p, signature |-> [secret |-> secret, payload |-> p]]
    BY <1>1
  <2>2. b.payload = changed /\ b.signature.payload = p
    BY <1>2, <2>1
  <2>3. b = c
    BY <1>2, <2>1, <2>2
  <2> QED
    BY <2>3
<1>3. \/ b \in Bundles
      \/ \E c \in Bundles : b = Shortened(c)
      \/ \E c \in Bundles, v \in ToSet(VersionOrder) : b = [c EXCEPT !.payload.version = v]
  BY DEF Presentable
<1>4. ASSUME NEW c \in Bundles, b = Shortened(c)
      PROVE  \E changed : b = [c EXCEPT !.payload = changed]
  <2>1. PICK p, signature : c = [payload |-> p, signature |-> signature]
    BY <1>1
  <2>2. PICK changed : changed = [p EXCEPT !.records = Front(@), !.last = Front(@)]
    OBVIOUS
  <2>3. b = [c EXCEPT !.payload = changed]
    BY <1>4, <2>1, <2>2 DEF Shortened
  <2> QED
    BY <2>3
<1>5. ASSUME NEW c \in Bundles, NEW v, b = [c EXCEPT !.payload.version = v]
      PROVE  \E changed : b = [c EXCEPT !.payload = changed]
  BY <1>5
<1> QED
  BY <1>2, <1>3, <1>4, <1>5

\* verify answers by the keyring of now, and verifies nothing that was not exported.
LEMMA AnswerIsSound ==
  ASSUME AuditIInv, NEW t, NEW b \in Presentable, NEW v, v = Answer(t, b)
  PROVE  /\ v.verified <=> VerifiesUnder(v.tenant, v.bundle, v.ring)
         /\ v.verified => v.bundle \in Bundles
<1>1. PICK yes \in BOOLEAN : yes <=> /\ b.payload.tenant = t
                                     /\ SignatureValid(b)
                                     /\ ChainValid(b)
  OBVIOUS
<1>2. v = [tenant |-> t, bundle |-> b, ring |-> Keyring, verified |-> yes]
  BY <1>1 DEF Answer
<1>3. v.tenant = t /\ v.bundle = b /\ v.ring = Keyring /\ v.verified = yes
  BY <1>2
<1>4. yes <=> VerifiesUnder(t, b, Keyring)
  BY <1>1 DEF VerifiesUnder, SignatureValid
<1>5. ASSUME yes
      PROVE  b \in Bundles
  <2>1. SignatureValid(b)
    BY <1>1, <1>5
  <2>2. PICK s : b.signature = [secret |-> s, payload |-> b.payload]
    BY <2>1 DEF SignatureValid, Sign
  <2>3. b.signature.payload = b.payload
    BY <2>2
  <2> QED
    BY <2>3, ChangedIsRefused
<1> QED
  BY <1>3, <1>4, <1>5

\* A verdict is about the bundle handed in and the keyring of now.
LEMMA VerifyKeeps ==
  ASSUME AuditIInv, NEW h \in Handlers, NEW b \in Presentable, Verify(h, b)
  PROVE  AuditIInv'
<1>1. PICK v : v = Answer(handler[h].tenant, b)
  OBVIOUS
<1>2. verdict' = v /\ UNCHANGED <<signing, exported, files>>
  BY <1>1 DEF Verify
<1>3. /\ v.verified <=> VerifiesUnder(v.tenant, v.bundle, v.ring)
      /\ v.verified => v.bundle \in Bundles
  BY <1>1, AnswerIsSound
<1>4. Bundles' = Bundles
  BY <1>2 DEF Bundles
<1>5. VerdictSound'
  BY <1>2, <1>3, <1>4 DEF VerdictSound
<1> QED
  BY <1>2, <1>4, <1>5 DEF AuditIInv

\* A step that exports and verifies nothing.
LEMMA EvidenceUntouched ==
  ASSUME AuditIInv, UNCHANGED <<exported, files, verdict>>, signing' \in SigningSettings
  PROVE  AuditIInv'
<1>1. Bundles' = Bundles
  BY DEF Bundles
<1>2. VerdictSound'
  BY <1>1 DEF AuditIInv, VerdictSound
<1> QED
  BY <1>1, <1>2 DEF AuditIInv

\* Every step of the audit trail keeps the invariant.
LEMMA AuditInductive ==
  ASSUME AuditIInv, [AuditNext]_auditVars
  PROVE  AuditIInv'
<1>1. ASSUME NEW t \in AuditTenants, NEW n \in Limits, Export(t, n)
      PROVE  AuditIInv'
  BY <1>1, ExportedKeeps DEF Export
<1>2. ASSUME NEW h \in Handlers, NEW n \in Limits, ExportFile(h, n)
      PROVE  AuditIInv'
  <2>1. PICK t, name :
          /\ exported' = exported \cup {[bundle |-> BuildBundle(t, n), ring |-> Keyring]}
          /\ files' = [f \in DOMAIN files \cup {name} |->
                         IF f = name THEN BuildBundle(t, n) ELSE files[f]]
          /\ UNCHANGED <<signing, verdict>>
    BY <1>2 DEF ExportFile
  <2>2. \A f \in DOMAIN files' : \/ f \in DOMAIN files /\ files'[f] = files[f]
                                 \/ files'[f] = BuildBundle(t, n)
    BY <2>1
  <2> QED
    BY <2>1, <2>2, ExportedKeeps
<1>3. ASSUME NEW h \in Handlers, NEW name, VerifyFile(h, name)
      PROVE  AuditIInv'
  <2>1. CASE name \in DOMAIN files
    <3>1. files[name] \in Presentable /\ Verify(h, files[name])
      BY <1>3, <2>1 DEF AuditIInv, Presentable, VerifyFile
    <3> QED
      BY <3>1, VerifyKeeps
  <2>2. CASE name \notin DOMAIN files
    BY <1>3, <2>2, EvidenceUntouched DEF VerifyFile, AuditIInv
  <2> QED
    BY <2>1, <2>2
<1>4. ASSUME UNCHANGED <<exported, files, verdict, signing>>
      PROVE  AuditIInv'
  BY <1>4, EvidenceUntouched DEF AuditIInv
<1>5. ASSUME NEW s \in SigningSettings, Restart(s)
      PROVE  AuditIInv'
  BY <1>5, EvidenceUntouched DEF Restart
<1>6. ASSUME NEW t \in AuditTenants, Emit(t)
      PROVE  UNCHANGED <<exported, files, verdict, signing>>
  BY <1>6 DEF Emit
<1>7. ASSUME NEW c \in Cleaners, NEW t \in AuditTenants, NEW n \in CapRequests, CountEvents(c, t, n)
      PROVE  UNCHANGED <<exported, files, verdict, signing>>
  BY <1>7 DEF CountEvents
<1>8. ASSUME NEW c \in Cleaners, PruneEvents(c)
      PROVE  UNCHANGED <<exported, files, verdict, signing>>
  BY <1>8 DEF PruneEvents
<1>9. ASSUME NEW h \in Handlers, NEW t \in AuditTenants, NEW k \in {"export", "verify"},
             NEW e \in BOOLEAN, Gate(h, t, k, e)
      PROVE  UNCHANGED <<exported, files, verdict, signing>>
  BY <1>9 DEF Gate
<1>10. ASSUME Tick \/ UNCHANGED auditVars
       PROVE  UNCHANGED <<exported, files, verdict, signing>>
  BY <1>10 DEF Tick, auditVars
<1> QED
  BY <1>1, <1>2, <1>3, <1>4, <1>5, <1>6, <1>7, <1>8, <1>9, <1>10, VerifyKeeps DEF AuditNext

(* verify_audit_bundle accepts only bundles that the service exported, for the tenant asked     *)
(* for, whatever the keyring has become; and a rotation of the signing secrets keeps old        *)
(* bundles valid: one is verified by every deployment that still holds the secret it was signed *)
(* with, if no version the two keyrings share was given another secret.  For any tenants,       *)
(* requests that overlap, and settings over the three versions of the model.                    *)
THEOREM EvidenceIsVerified == AuditSpec => []EvidenceVerifies
<1>1. AuditInit => AuditIInv
  BY DEF AuditInit, AuditIInv, VerdictSound
<1>2. AuditIInv /\ [AuditNext]_auditVars => AuditIInv'
  BY AuditInductive
<1>3. AuditIInv => EvidenceVerifies
  <2> SUFFICES ASSUME AuditIInv
               PROVE  VerifiedIsExported /\ RotationKeepsEvidence
    BY DEF EvidenceVerifies
  <2>1. VerifiedIsExported
    <3>1. NoVerdict.verified = FALSE
      BY DEF NoVerdict
    <3> QED
      BY <3>1 DEF AuditIInv, VerdictSound, VerifiedIsExported, VerifiesUnder
  <2>2. ASSUME verdict # NoVerdict, NEW x \in exported, verdict.bundle = x.bundle,
               verdict.tenant = x.bundle.payload.tenant,
               NEW w \in DOMAIN x.ring \cap DOMAIN verdict.ring,
               x.ring[w] = x.bundle.signature.secret,
               \A v \in DOMAIN x.ring \cap DOMAIN verdict.ring : x.ring[v] = verdict.ring[v]
        PROVE  verdict.verified
    <3>1. PICK p : p = x.bundle.payload
      OBVIOUS
    <3>2. PICK secret : secret = x.bundle.signature.secret
      OBVIOUS
    <3>3. ExportSound(x)
      BY DEF AuditIInv
    <3>4. x.bundle.signature = Sign(p, secret) /\ ChainValid(x.bundle)
      <4>1. PICK signature : signature = Sign(p, secret)
        OBVIOUS
      <4>2. x.bundle = [payload |-> p, signature |-> signature] /\ ChainValid(x.bundle)
        BY <3>1, <3>2, <3>3, <4>1 DEF ExportSound
      <4>3. x.bundle.signature = signature
        BY <4>2
      <4> QED
        BY <4>1, <4>2, <4>3
    <3>5. secret # ""
      BY <2>2, <3>2, <3>3 DEF ExportSound
    <3>6. p.version \in DOMAIN x.ring /\ x.ring[p.version] = secret
      BY <3>1, <3>2, <3>3, <3>5 DEF ExportSound
    <3>7. \E v \in IF p.version \in DOMAIN verdict.ring THEN {p.version} ELSE DOMAIN verdict.ring :
            x.bundle.signature = Sign(p, verdict.ring[v])
      <4>1. CASE p.version \in DOMAIN verdict.ring
        BY <2>2, <3>4, <3>6, <4>1
      <4>2. CASE p.version \notin DOMAIN verdict.ring
        BY <2>2, <3>2, <3>4, <4>2
      <4> QED
        BY <4>1, <4>2
    <3>8. VerifiesUnder(verdict.tenant, verdict.bundle, verdict.ring)
      BY <2>2, <3>1, <3>4, <3>7 DEF VerifiesUnder
    <3> QED
      BY <2>2, <3>8 DEF AuditIInv, VerdictSound
  <2>3. RotationKeepsEvidence
    BY <2>2 DEF RotationKeepsEvidence
  <2> QED
    BY <2>1, <2>3
<1> QED
  BY <1>1, <1>2, <1>3, PTL DEF AuditSpec

-----------------------------------------------------------------------------
(* The removal of branches.                                                *)

\* What the clone knows of origin, and origin itself, hold commits that were pushed.
KnownToOrigin ==
  /\ \A b \in DOMAIN tracking : tracking[b] \subseteq pushed
  /\ \A b \in DOMAIN originBranches : originBranches[b] \subseteq pushed
  /\ localMain \subseteq pushed /\ originMain \subseteq pushed

\* A commit that was made was pushed, or is on a branch of the clone.
Safe(n) == n \in pushed \/ \E b \in DOMAIN localBranches : n \in localBranches[b]

CleanupIInv ==
  /\ commits \in Nat
  /\ KnownToOrigin
  /\ \A n \in 1..commits : Safe(n)

\* Branches go from the clone only when all their commits were pushed.
LEMMA DeletionKeeps ==
  ASSUME CleanupIInv, NEW gone \in SUBSET DOMAIN localBranches,
         \A b \in gone : localBranches[b] \subseteq pushed,
         localBranches' = Restrict(localBranches, DOMAIN localBranches \ gone),
         UNCHANGED <<tracking, originBranches, localMain, originMain, commits, pushed>>
  PROVE  CleanupIInv'
<1>1. /\ DOMAIN localBranches' = DOMAIN localBranches \ gone
      /\ \A b \in DOMAIN localBranches \ gone : localBranches'[b] = localBranches[b]
  BY DEF Restrict
<1>2. ASSUME NEW n \in 1..commits
      PROVE  Safe(n)'
  <2>1. Safe(n)
    BY DEF CleanupIInv
  <2>2. ASSUME NEW b \in DOMAIN localBranches, n \in localBranches[b]
        PROVE  Safe(n)'
    BY <1>1, <2>2 DEF Safe
  <2> QED
    BY <2>1, <2>2 DEF Safe
<1> QED
  BY <1>2 DEF CleanupIInv, KnownToOrigin

\* git branch -d lets a branch go only when it is contained in what origin had.
LEMMA MergedWasPushed ==
  ASSUME CleanupIInv, NEW b \in DOMAIN localBranches, Merged(b)
  PROVE  localBranches[b] \subseteq pushed
BY DEF Merged, CleanupIInv, KnownToOrigin

\* A commit is on the branch that it was made on, which loses nothing.
LEMMA CommitKeeps ==
  ASSUME CleanupIInv, NEW b \in Branches, Commit(b)
  PROVE  CleanupIInv'
<1>1. /\ commits' = commits + 1 /\ commits \in Nat
      /\ localBranches' = With(localBranches, b, CheckedOut(b) \union {commits + 1})
      /\ UNCHANGED <<tracking, originBranches, localMain, originMain, pushed>>
  BY DEF Commit, CleanupIInv, origin
<1>2. /\ DOMAIN localBranches' = DOMAIN localBranches \cup {b}
      /\ localBranches'[b] = CheckedOut(b) \cup {commits + 1}
      /\ \A c \in DOMAIN localBranches : c # b => localBranches'[c] = localBranches[c]
  BY <1>1 DEF With
<1>3. ASSUME NEW n \in 1..commits'
      PROVE  Safe(n)'
  <2>1. CASE n = commits + 1
    BY <1>2, <2>1 DEF Safe
  <2>2. CASE n # commits + 1
    <3>1. n \in 1..commits
      BY <1>1, <2>2
    <3>2. Safe(n)
      BY <3>1 DEF CleanupIInv
    <3>3. ASSUME NEW c \in DOMAIN localBranches, n \in localBranches[c]
          PROVE  Safe(n)'
      <4>1. n \in localBranches'[c] /\ c \in DOMAIN localBranches'
        BY <1>2, <3>3 DEF CheckedOut
      <4> QED
        BY <4>1 DEF Safe
    <3> QED
      BY <1>1, <3>2, <3>3 DEF Safe
  <2> QED
    BY <2>1, <2>2
<1> QED
  BY <1>1, <1>3 DEF CleanupIInv, KnownToOrigin

\* What a push puts on origin was pushed.
LEMMA PublishKeeps ==
  ASSUME CleanupIInv, NEW b \in Branches, Publish(b)
  PROVE  CleanupIInv'
<1>1. /\ originBranches' = With(originBranches, b, localBranches[b])
      /\ tracking' = With(tracking, b, localBranches[b])
      /\ pushed' = pushed \cup localBranches[b]
      /\ UNCHANGED <<localBranches, localMain, originMain, commits>>
  BY DEF Publish, counts
<1>2. \A n \in 1..commits : Safe(n)'
  BY <1>1 DEF CleanupIInv, Safe
<1>3. KnownToOrigin'
  BY <1>1 DEF CleanupIInv, KnownToOrigin, With
<1> QED
  BY <1>1, <1>2, <1>3 DEF CleanupIInv

\* A colleague's commit is on origin from the start.
LEMMA ColleaguePushKeeps ==
  ASSUME CleanupIInv, NEW b \in Branches, ColleaguePush(b)
  PROVE  CleanupIInv'
<1>1. /\ commits' = commits + 1 /\ commits \in Nat /\ b \in DOMAIN originBranches
      /\ originBranches' = [originBranches EXCEPT ![b] = @ \cup {commits + 1}]
      /\ pushed' = pushed \cup {commits + 1}
      /\ UNCHANGED <<localBranches, tracking, localMain, originMain>>
  BY DEF ColleaguePush, CleanupIInv, clone
<1>2. \A n \in 1..commits' : Safe(n)'
  BY <1>1 DEF CleanupIInv, Safe
<1>3. KnownToOrigin'
  BY <1>1 DEF CleanupIInv, KnownToOrigin
<1> QED
  BY <1>1, <1>2, <1>3 DEF CleanupIInv

\* A step that takes nothing from the clone's branches and pushes nothing.
LEMMA KnowledgeKeeps ==
  ASSUME CleanupIInv, UNCHANGED <<localBranches, commits, pushed>>, KnownToOrigin'
  PROVE  CleanupIInv'
BY DEF CleanupIInv, Safe

\* finalize.py deletes the merged branch only when git lets it go.
LEMMA DeleteLocalKeeps ==
  ASSUME CleanupIInv, DeleteLocal
  PROVE  CleanupIInv'
<1> DEFINE b == finalize.branch
<1> DEFINE deletes == b \in DOMAIN localBranches /\ ~finalize.dry /\ Merged(b)
<1>1. UNCHANGED <<tracking, originBranches, localMain, originMain, commits, pushed>>
  BY DEF DeleteLocal, origin, counts
<1>2. CASE deletes
  <2>1. localBranches' = Restrict(localBranches, DOMAIN localBranches \ {b})
    BY <1>2 DEF DeleteLocal, BranchesWithout
  <2>2. localBranches[b] \subseteq pushed
    BY <1>2, MergedWasPushed
  <2>3. {b} \in SUBSET DOMAIN localBranches /\ \A c \in {b} : localBranches[c] \subseteq pushed
    BY <1>2, <2>2
  <2> QED
    BY <1>1, <2>1, <2>3, DeletionKeeps
<1>3. CASE ~deletes
  <2>1. UNCHANGED localBranches
    BY <1>3 DEF DeleteLocal
  <2>2. KnownToOrigin'
    BY <1>1 DEF CleanupIInv, KnownToOrigin
  <2> QED
    BY <1>1, <2>1, <2>2, KnowledgeKeeps
<1> QED
  BY <1>2, <1>3

\* Nor do the other branches that it lists go otherwise.
LEMMA DeleteMergedLocalKeeps ==
  ASSUME CleanupIInv, DeleteMergedLocal
  PROVE  CleanupIInv'
<1>1. UNCHANGED <<tracking, originBranches, localMain, originMain, commits, pushed>>
  BY DEF DeleteMergedLocal, origin, counts
<1>2. PICK gone \in SUBSET DOMAIN localBranches :
        /\ \A b \in gone : Merged(b)
        /\ localBranches' = Restrict(localBranches, DOMAIN localBranches \ gone)
  BY DEF DeleteMergedLocal
<1>3. \A b \in gone : localBranches[b] \subseteq pushed
  BY <1>2, MergedWasPushed
<1> QED
  BY <1>1, <1>2, <1>3, DeletionKeeps

(* finalize.py and the developer's git commands never lose work that is only in this clone:     *)
(* whatever step failed, and whatever was merged, squashed or removed on origin meanwhile, a    *)
(* commit that was never on origin is still on a branch of the clone.  For any number of        *)
(* branches, commits and calls.                                                                 *)
THEOREM UnpublishedIsKept == CleanupSpec => []UnpublishedKept
<1>1. CleanupInit => CleanupIInv
  BY DEF CleanupInit, CleanupIInv, KnownToOrigin, Safe
<1>2. CleanupIInv /\ [CleanupNext]_cleanupVars => CleanupIInv'
  <2> SUFFICES ASSUME CleanupIInv, [CleanupNext]_cleanupVars
               PROVE  CleanupIInv'
    OBVIOUS
  <2>1. ASSUME NEW b \in Branches, NEW squash \in BOOLEAN, MergePullRequest(b, squash)
        PROVE  CleanupIInv'
    <3>1. KnownToOrigin'
      BY <2>1 DEF MergePullRequest, CleanupIInv, KnownToOrigin, clone
    <3> QED
      BY <2>1, <3>1, KnowledgeKeeps DEF MergePullRequest, clone, counts
  <2>2. ASSUME NEW b \in Branches, RemoveOnOrigin(b)
        PROVE  CleanupIInv'
    <3>1. KnownToOrigin'
      BY <2>2 DEF RemoveOnOrigin, CleanupIInv, KnownToOrigin, clone, BranchesWithout, Restrict
    <3> QED
      BY <2>2, <3>1, KnowledgeKeeps DEF RemoveOnOrigin, clone, counts
  <2>3. ASSUME NEW reachable \in BOOLEAN, NEW accepted \in BOOLEAN,
               DeleteRemote(reachable, accepted)
        PROVE  CleanupIInv'
    <3>1. /\ originBranches' \in {originBranches, BranchesWithout(originBranches, finalize.branch)}
          /\ tracking' \in {tracking, BranchesWithout(tracking, finalize.branch)}
          /\ UNCHANGED <<localBranches, localMain, originMain, pushed, commits>>
      BY <2>3 DEF DeleteRemote, counts
    <3>2. KnownToOrigin'
      BY <3>1 DEF CleanupIInv, KnownToOrigin, BranchesWithout, Restrict
    <3> QED
      BY <3>1, <3>2, KnowledgeKeeps
  <2>4. ASSUME PullMain \/ FetchPrune
        PROVE  CleanupIInv'
    <3>1. /\ localMain' \in {localMain, originMain} /\ tracking' \in {tracking, originBranches}
          /\ UNCHANGED <<localBranches, originBranches, originMain, pushed, commits>>
      BY <2>4 DEF PullMain, FetchPrune, origin, counts
    <3>2. KnownToOrigin'
      BY <3>1 DEF CleanupIInv, KnownToOrigin
    <3> QED
      BY <3>1, <3>2, KnowledgeKeeps
  <2>5. ASSUME UNCHANGED <<localBranches, tracking, localMain, originBranches, originMain, pushed,
                           commits>>
        PROVE  CleanupIInv'
    <3>1. KnownToOrigin'
      BY <2>5 DEF CleanupIInv, KnownToOrigin
    <3> QED
      BY <2>5, <3>1, KnowledgeKeeps
  <2>6. ASSUME \/ \E b \in Branches, extra, dry \in BOOLEAN : Start(b, extra, dry)
               \/ \E step \in {"checkout", "pull", "fetch"} : StepFails(step)
               \/ CheckoutMain
               \/ \E reachable \in BOOLEAN : VerifyAbsent(reachable)
               \/ UNCHANGED cleanupVars
        PROVE  UNCHANGED <<localBranches, tracking, localMain, originBranches, originMain, pushed,
                           commits>>
    BY <2>6 DEF Start, StepFails, CheckoutMain, VerifyAbsent, cleanupVars, clone, origin, counts
  <2> QED
    BY <2>1, <2>2, <2>3, <2>4, <2>5, <2>6, CommitKeeps, PublishKeeps, ColleaguePushKeeps,
       DeleteLocalKeeps, DeleteMergedLocalKeeps DEF CleanupNext
<1>3. CleanupIInv => UnpublishedKept
  BY DEF CleanupIInv, Safe, UnpublishedKept, Range
<1> QED
  BY <1>1, <1>2, <1>3, PTL DEF CleanupSpec

-----------------------------------------------------------------------------
(* The start of a process.                                                 *)

LaunchSteps == {"down", "settings", "registry", "bootstrap", "serving", "refused"}

LaunchIs(step, settings, provider) ==
  launch = [at |-> step, settings |-> settings, provider |-> provider]

\* What create_app has checked so far is about the environment that the process has now.
CheckedSoFar ==
  /\ launch.at \in {"settings", "registry", "bootstrap", "serving"} =>
       launch.settings = DefaultSettings(environment)
  /\ launch.at \in {"registry", "bootstrap", "serving"} => ValidSecrets(launch.settings)
  /\ launch.at \in {"bootstrap", "serving"} => Buildable(ProviderRecord(launch.settings, environment))

\* While it serves, app.state has its attributes, its factory being one of the two.
StateIs(settings, registry, store, factory, modules) ==
  /\ appState = [settings |-> settings, registry |-> registry, store |-> store,
                 factory |-> factory, modules |-> modules]
  /\ factory \in {"built", "given"}

FactoryStores == {"built", "given"}

StartupIInv ==
  /\ environment \in Environments
  /\ \E step \in LaunchSteps : \E settings, provider : LaunchIs(step, settings, provider)
  /\ CheckedSoFar
  /\ \E held : factories = [f \in FactoryStores |-> held[f]]
  /\ launch.at = "serving" =>
       /\ \E settings, registry, store, factory, modules :
            StateIs(settings, registry, store, factory, modules)
       /\ FacadesAgree

\* The facades that a request or bootstrap builds are of one set of objects.
LEMMA FacadesBuilt ==
  ASSUME NEW settings, NEW registry, NEW store, NEW factory,
         facades' = Facades(settings, registry, store, factory),
         factories'[factory] = [own |-> store, builder |-> store]
  PROVE  FacadesAgree'
<1>1. /\ facades'.settings = settings /\ facades'.crossTenantAdmin = settings.crossTenantAdmin
      /\ facades'.artifactSecret = settings.secrets["artifact"]
      /\ facades'.auditSecret = settings.secrets["audit"]
      /\ facades'.registry = registry /\ facades'.serviceRegistry = registry
      /\ facades'.store = store /\ facades'.serviceStore = store
      /\ facades'.factory = factory /\ facades'.serviceFactory = factory
  BY DEF Facades
<1> QED
  BY <1>1 DEF FacadesAgree

\* A step of create_app, which leaves what is served alone.
LEMMA LaunchStep ==
  ASSUME StartupIInv, NEW step \in LaunchSteps, step # "serving", NEW settings, NEW provider,
         launch' = [at |-> step, settings |-> settings, provider |-> provider],
         environment' \in Environments, UNCHANGED factories,
         step \in {"settings", "registry", "bootstrap"} =>
           settings = DefaultSettings(environment'),
         step \in {"registry", "bootstrap"} => ValidSecrets(settings),
         step = "bootstrap" => Buildable(ProviderRecord(settings, environment'))
  PROVE  StartupIInv'
<1>1. launch'.at = step /\ launch'.settings = settings
  OBVIOUS
<1>2. \E s \in LaunchSteps : \E t, p : LaunchIs(s, t, p)'
  BY DEF LaunchIs
<1>3. CheckedSoFar'
  BY <1>1 DEF CheckedSoFar
<1> QED
  BY <1>1, <1>2, <1>3 DEF StartupIInv

\* Settings, secrets and provider are checked against one environment.
LEMMA CreateAppKeeps ==
  ASSUME StartupIInv, LoadSettings \/ CheckSettings \/ BuildRegistry \/ ChangeEnvironment
  PROVE  StartupIInv'
<1>1. PICK step, settings, provider : step \in LaunchSteps /\ LaunchIs(step, settings, provider)
  BY DEF StartupIInv
<1>2. launch.at = step /\ launch.settings = settings
  BY <1>1 DEF LaunchIs
<1>3. UNCHANGED factories
  BY DEF LoadSettings, CheckSettings, BuildRegistry, ChangeEnvironment, served
<1>4. environment \in Environments
  BY DEF StartupIInv
<1>5. CASE RefuseStart /\ UNCHANGED environment
  <2>1. launch' = [at |-> "refused", settings |-> settings, provider |-> provider]
    BY <1>1, <1>5 DEF RefuseStart, LaunchIs
  <2> QED
    BY <1>3, <1>4, <1>5, <2>1, LaunchStep DEF LaunchSteps
<1>6. CASE ChangeEnvironment
  <2>1. environment' \in Environments
        /\ launch' = [at |-> "down", settings |-> NoApp, provider |-> NoApp]
    BY <1>6 DEF ChangeEnvironment, Stopped
  <2> QED
    BY <1>3, <2>1, LaunchStep DEF LaunchSteps
<1>7. CASE LoadSettings /\ ~RefuseStart
  <2>1. PICK default : default = DefaultSettings(environment)
    OBVIOUS
  <2>2. /\ launch' = [launch EXCEPT !.at = "settings", !.settings = default]
        /\ UNCHANGED environment
    BY <1>7, <2>1 DEF LoadSettings
  <2>3. launch' = [at |-> "settings", settings |-> default, provider |-> provider]
    BY <1>1, <2>2 DEF LaunchIs
  <2>4. default = DefaultSettings(environment')
    BY <2>1, <2>2
  <2> QED
    BY <1>3, <1>4, <2>2, <2>3, <2>4, LaunchStep DEF LaunchSteps
<1>8. CASE CheckSettings /\ ~RefuseStart
  <2>1. /\ step = "settings" /\ ValidSecrets(settings) /\ UNCHANGED environment
        /\ launch' = [launch EXCEPT !.at = "registry"]
    BY <1>2, <1>8 DEF CheckSettings
  <2>2. launch' = [at |-> "registry", settings |-> settings, provider |-> provider]
    BY <1>1, <2>1 DEF LaunchIs
  <2>3. settings = DefaultSettings(environment')
    BY <1>2, <2>1 DEF StartupIInv, CheckedSoFar
  <2> QED
    BY <1>3, <1>4, <2>1, <2>2, <2>3, LaunchStep DEF LaunchSteps
<1>9. CASE BuildRegistry /\ ~RefuseStart
  <2>1. PICK record : record = ProviderRecord(settings, environment)
    OBVIOUS
  <2>2. /\ step = "registry" /\ Buildable(record) /\ UNCHANGED environment
        /\ launch' = [launch EXCEPT !.at = "bootstrap", !.provider = record]
    BY <1>2, <1>9, <2>1 DEF BuildRegistry
  <2>3. launch' = [at |-> "bootstrap", settings |-> settings, provider |-> record]
    BY <1>1, <2>2 DEF LaunchIs
  <2>4. settings = DefaultSettings(environment') /\ ValidSecrets(settings)
    BY <1>2, <2>2 DEF StartupIInv, CheckedSoFar
  <2>5. Buildable(ProviderRecord(settings, environment'))
    BY <2>1, <2>2
  <2> QED
    BY <1>3, <1>4, <2>2, <2>3, <2>4, <2>5, LaunchStep DEF LaunchSteps
<1> QED
  BY <1>5, <1>6, <1>7, <1>8, <1>9 DEF LoadSettings, CheckSettings, BuildRegistry

\* bootstrap fills app.state and the facades with the same objects.
LEMMA BootstrapKeeps ==
  ASSUME StartupIInv, Bootstrap
  PROVE  StartupIInv'
<1>1. PICK step, settings, provider : step \in LaunchSteps /\ LaunchIs(step, settings, provider)
  BY DEF StartupIInv
<1>2. launch.at = step /\ launch.settings = settings /\ step = "bootstrap"
  BY <1>1 DEF LaunchIs, Bootstrap
<1>3. launch' = [at |-> "serving", settings |-> settings, provider |-> provider]
      /\ UNCHANGED environment
  BY <1>1 DEF Bootstrap, LaunchIs
<1>4. launch'.at = "serving" /\ launch'.settings = settings
  BY <1>3
<1>5. CheckedSoFar'
  BY <1>2, <1>3, <1>4 DEF StartupIInv, CheckedSoFar
<1>6. LaunchIs("serving", settings, provider)' /\ "serving" \in LaunchSteps
  BY <1>3 DEF LaunchIs, LaunchSteps
<1>7. PICK held : factories = [f \in FactoryStores |-> held[f]]
  BY DEF StartupIInv
<1>8. PICK pair : pair = [own |-> "sqlite", builder |-> "sqlite"]
  OBVIOUS
<1>9. factories' = [factories EXCEPT !["built"] = pair]
  BY <1>8 DEF Bootstrap
<1>10. /\ factories'["built"] = pair
       /\ factories' = [f \in FactoryStores |-> IF f = "built" THEN pair ELSE held[f]]
  BY <1>7, <1>9 DEF FactoryStores
<1>11. \E now : factories' = [f \in FactoryStores |-> now[f]]
  <2>1. PICK now : now = [f \in FactoryStores |-> IF f = "built" THEN pair ELSE held[f]]
    OBVIOUS
  <2>2. factories' = [f \in FactoryStores |-> now[f]]
    BY <1>10, <2>1
  <2> QED
    BY <2>2
<1>12. facades' = Facades(settings, "default", "sqlite", "built")
  BY <1>2 DEF Bootstrap
<1>13. FacadesAgree'
  BY <1>8, <1>10, <1>12, FacadesBuilt
<1>14. StateIs(settings, "default", "sqlite", "built", TRUE)'
  BY <1>2 DEF Bootstrap, StateIs
<1> QED
  BY <1>3, <1>5, <1>6, <1>11, <1>13, <1>14 DEF StartupIInv

\* A process that stops has checked nothing.
LEMMA StopServerKeeps ==
  ASSUME StartupIInv, StopServer
  PROVE  StartupIInv'
<1>1. /\ launch' = [at |-> "down", settings |-> NoApp, provider |-> NoApp]
      /\ UNCHANGED <<environment, factories>> /\ environment \in Environments
  BY DEF StopServer, Stopped, StartupIInv
<1> QED
  BY <1>1, LaunchStep DEF LaunchSteps

\* The host changes app.state, not the facades.
LEMMA ReplaceStateKeeps ==
  ASSUME StartupIInv, ReplaceState
  PROVE  StartupIInv'
<1>1. launch.at = "serving" /\ UNCHANGED <<environment, launch, facades, factories>>
  BY DEF ReplaceState
<1>2. PICK settings, registry, store, factory, modules :
        StateIs(settings, registry, store, factory, modules)
  BY <1>1 DEF StartupIInv
<1>3. \E a, b, c, d, e : StateIs(a, b, c, d, e)'
  <2>1. ASSUME NEW s \in SessionStores, appState' = [appState EXCEPT !.store = s]
        PROVE  StateIs(settings, registry, s, factory, modules)'
    BY <1>2, <2>1 DEF StateIs
  <2>2. ASSUME appState' = [appState EXCEPT !.registry = "given"]
        PROVE  StateIs(settings, "given", store, factory, modules)'
    BY <1>2, <2>2 DEF StateIs
  <2>3. ASSUME appState' = [appState EXCEPT !.factory = "given"]
        PROVE  StateIs(settings, registry, store, "given", modules)'
    BY <1>2, <2>3 DEF StateIs
  <2>4. ASSUME appState' = [appState EXCEPT !.settings.crossTenantAdmin = ~@]
        PROVE  \E changed : StateIs(changed, registry, store, factory, modules)'
    <3>1. PICK changed : changed = [settings EXCEPT !.crossTenantAdmin = ~@]
      OBVIOUS
    <3>2. StateIs(changed, registry, store, factory, modules)'
      BY <1>2, <2>4, <3>1 DEF StateIs
    <3> QED
      BY <3>2
  <2>5. ASSUME appState' = [appState EXCEPT !.modules = FALSE]
        PROVE  StateIs(settings, registry, store, factory, FALSE)'
    BY <1>2, <2>5 DEF StateIs
  <2> QED
    BY <2>1, <2>2, <2>3, <2>4, <2>5 DEF ReplaceState
<1>4. FacadesAgree'
  BY <1>1 DEF StartupIInv, FacadesAgree
<1>5. CheckedSoFar' /\ \E s \in LaunchSteps : \E t, p : LaunchIs(s, t, p)'
  BY <1>1 DEF StartupIInv, CheckedSoFar, LaunchIs
<1> QED
  BY <1>1, <1>3, <1>4, <1>5 DEF StartupIInv

\* A request builds the facades anew from app.state.
LEMMA RequestKeeps ==
  ASSUME StartupIInv, Request
  PROVE  StartupIInv'
<1>1. launch.at = "serving" /\ UNCHANGED <<environment, launch, appState>>
  BY DEF Request
<1>2. PICK settings, registry, store, factory, modules :
        StateIs(settings, registry, store, factory, modules)
  BY <1>1 DEF StartupIInv
<1>3. /\ appState.settings = settings /\ appState.registry = registry
      /\ appState.store = store /\ appState.factory = factory
      /\ factory \in FactoryStores
  BY <1>2 DEF StateIs, FactoryStores
<1>4. PICK held : factories = [f \in FactoryStores |-> held[f]]
  BY DEF StartupIInv
<1>5. PICK pair : pair = [own |-> store, builder |-> store]
  OBVIOUS
<1>6. /\ facades' = Facades(settings, registry, store, factory)
      /\ factories' = [factories EXCEPT ![factory] = pair]
  BY <1>3, <1>5 DEF Request, SyncModules, Rewire
<1>7. PICK now : now = [f \in FactoryStores |-> IF f = factory THEN pair ELSE held[f]]
  OBVIOUS
<1>8. factories' = [f \in FactoryStores |-> now[f]] /\ factories'[factory] = pair
  BY <1>3, <1>4, <1>6, <1>7
<1>9. FacadesAgree'
  BY <1>5, <1>6, <1>8, FacadesBuilt
<1>10. StateIs(settings, registry, store, factory, modules)'
  BY <1>1, <1>2 DEF StateIs
<1>11. CheckedSoFar' /\ \E s \in LaunchSteps : \E t, p : LaunchIs(s, t, p)'
  BY <1>1 DEF StartupIInv, CheckedSoFar, LaunchIs
<1> QED
  BY <1>1, <1>8, <1>9, <1>10, <1>11 DEF StartupIInv

\* Outside development a checked secret was given and is a real one, however it was written.
LEMMA CheckedSecretIsReal ==
  ASSUME NEW value \in {Unset, "blank", "dev", "padded_dev", "real"},
         Strip(Env(value, "dev")) \notin {"", "dev"}
  PROVE  value = "real"
BY DEF Strip, Env, Unset

\* Outside development a variable that is unset or blank chooses nothing.
LEMMA NothingChosen ==
  ASSUME NEW settings, ~DevMode(settings), NEW value \in {Unset, "blank"}, NEW default
  PROVE  Strip(value) = "" /\ Chosen(settings, value, default) = ""
BY DEF Strip, Chosen, Unset

\* What was checked means that everything was given and real.
LEMMA ServingIsConfigured ==
  ASSUME StartupIInv
  PROVE  ServesConfigured
<1> SUFFICES ASSUME launch.at = "serving",
                    environment.name \notin {Unset, "development", "Development", "test"}
             PROVE  /\ \A s \in Secrets : environment.secrets[s] = "real"
                    /\ environment.jwt # "short" \/ environment.jwks \notin {Unset, "blank"}
                    /\ \A value \in {environment.adapter, environment.apiType, environment.baseUrl,
                                     environment.model} : value \notin {Unset, "blank"}
  BY DEF ServesConfigured
<1>1. PICK settings : settings = DefaultSettings(environment)
  OBVIOUS
<1>2. ValidSecrets(settings) /\ Buildable(ProviderRecord(settings, environment))
  BY <1>1 DEF StartupIInv, CheckedSoFar
<1>3. settings.environment = environment.name
  BY <1>1 DEF DefaultSettings, Env
<1>4. ~DevMode(settings)
  BY <1>3 DEF DevMode, NormalizedName, DevelopmentEnvironments
<1>5. ASSUME NEW s \in Secrets
      PROVE  environment.secrets[s] = "real"
  <2>1. settings.secrets[s] = Env(environment.secrets[s], "dev")
    BY <1>1 DEF DefaultSettings
  <2>2. Strip(settings.secrets[s]) \notin {"", "dev"}
    BY <1>2, <1>4 DEF ValidSecrets
  <2>3. environment.secrets[s] \in {Unset, "blank", "dev", "padded_dev", "real"}
    BY EnvironmentAssumption DEF StartupIInv
  <2> QED
    BY <2>1, <2>2, <2>3, CheckedSecretIsReal
<1>6. ASSUME environment.jwt = "short", environment.jwks \in {Unset, "blank"}
      PROVE  FALSE
  <2>1. settings.jwt = Env(environment.jwt, "") /\ settings.jwks = Env(environment.jwks, "")
    BY <1>1 DEF DefaultSettings
  <2>2. Strip(settings.jwt) = "short" /\ Strip(settings.jwks) = ""
    BY <1>6, <2>1 DEF Strip, Env, Unset
  <2> QED
    BY <1>2, <1>4, <2>2 DEF ValidSecrets
<1>7. PICK record : record = ProviderRecord(settings, environment)
  OBVIOUS
<1>8. /\ record.apiType = Chosen(settings, environment.apiType, "openai_native")
      /\ record.model = Chosen(settings, environment.model, "gpt-4o-mini")
      /\ record.adapter = Canonical(Chosen(settings, environment.adapter, "OpenAI"))
      /\ record.baseUrl = IF Strip(environment.baseUrl) # "" THEN Strip(environment.baseUrl) ELSE ""
  BY <1>4, <1>7 DEF ProviderRecord
<1>9. /\ record.apiType # "" /\ record.model # "" /\ record.baseUrl # "" /\ Loads(record.adapter)
  BY <1>2, <1>7 DEF Buildable
<1>10. environment.apiType \notin {Unset, "blank"} /\ environment.model \notin {Unset, "blank"}
       /\ environment.baseUrl \notin {Unset, "blank"}
  BY <1>4, <1>8, <1>9, NothingChosen
<1>11. environment.adapter \notin {Unset, "blank"}
  <2>1. ~Loads(Canonical(""))
    BY DEF Loads, Canonical
  <2> QED
    BY <1>4, <1>8, <1>9, <2>1, NothingChosen
<1> QED
  BY <1>5, <1>6, <1>10, <1>11

(* A process that serves outside development has signing secrets of its own, a JWT secret that  *)
(* is long enough or a JWKS endpoint, and a provider all of whose parts were given, however the *)
(* variables were written (validate_non_dev_secrets, build_default_provider_registry); and      *)
(* whatever the host replaces on app.state, the facades of a request work on one session store, *)
(* one provider registry and one settings object (_sync_modules_from_state).  For any set of    *)
(* environments and stores, and any number of replacements and restarts.                        *)
THEOREM ServersAreSound == StartupSpec => []StartupSound
<1>1. StartupInit => StartupIInv
  <2> SUFFICES ASSUME StartupInit
               PROVE  StartupIInv
    OBVIOUS
  <2>1. LaunchIs("down", NoApp, NoApp) /\ "down" \in LaunchSteps /\ launch.at = "down"
    BY DEF StartupInit, Stopped, LaunchIs, LaunchSteps
  <2>2. PICK none : none = [own |-> "none", builder |-> "none"]
    OBVIOUS
  <2>3. PICK held : held = [f \in FactoryStores |-> none]
    OBVIOUS
  <2>4. factories = [f \in FactoryStores |-> held[f]]
    BY <2>2, <2>3 DEF StartupInit, FactoryStores
  <2> QED
    BY <2>1, <2>4 DEF StartupInit, StartupIInv, CheckedSoFar
<1>2. StartupIInv /\ [StartupNext]_startupVars => StartupIInv'
  <2>1. ASSUME StartupIInv, UNCHANGED startupVars
        PROVE  StartupIInv'
    <3>1. UNCHANGED <<environment, launch, appState, facades, factories>>
      BY <2>1 DEF startupVars
    <3>2. CheckedSoFar' /\ (FacadesAgree <=> FacadesAgree')
      BY <2>1, <3>1 DEF StartupIInv, CheckedSoFar, FacadesAgree
    <3>3. \A a, b, c, d, e : /\ LaunchIs(a, b, c) <=> LaunchIs(a, b, c)'
                             /\ StateIs(a, b, c, d, e) <=> StateIs(a, b, c, d, e)'
      BY <3>1 DEF LaunchIs, StateIs
    <3> QED
      BY <2>1, <3>1, <3>2, <3>3 DEF StartupIInv
  <2> QED
    BY <2>1, CreateAppKeeps, BootstrapKeeps, StopServerKeeps, ReplaceStateKeeps, RequestKeeps
    DEF StartupNext
<1>3. StartupIInv => StartupSound
  BY ServingIsConfigured DEF StartupSound, StartupIInv, FacadesAgree
<1> QED
  BY <1>1, <1>2, <1>3, PTL DEF StartupSpec

-----------------------------------------------------------------------------
(* The connector's budget.                                                 *)

Windows == [start : Nat, cost : Nat]
Accounts == [total : Nat, window : Windows]
Contexts == 1..MaxConnectors

\* What a connector has recorded of its partitions.
Entry(e) == "parts" \in DOMAIN e /\ e.parts \in [Partitions -> Accounts]

Threads ==
  {Free} \cup [state : {"admitting"}, key : Partitions, at : Contexts]
         \cup [state : {"waiting"}, key : Partitions, at : Contexts, job : Nat]

QueuedJobs ==
  [at : Contexts, state : {"queued", "leased", "completed", "cancelled", "dead"}, lease : Nat,
   result : DOMAIN Costs \cup {"none"}]

LedgerTyped == DOMAIN ledger = Contexts /\ \A g \in Contexts : Entry(ledger[g])

ExecutingTyped ==
  /\ executing \in [BudgetThreads -> Threads]
  /\ \A t \in BudgetThreads : executing[t].state = "waiting" => executing[t].job \in DOMAIN jobs

AskingTyped ==
  /\ DOMAIN asking = BudgetOperators
  /\ \A o \in BudgetOperators : /\ asking[o] # Free => asking[o].at \in Contexts
                                /\ asking[o].state = "submit" => asking[o].job \in DOMAIN jobs

BudgetTyped ==
  /\ connectors \in Contexts /\ clock \in Nat /\ jobs \in Seq(QueuedJobs)
  /\ LedgerTyped /\ ExecutingTyped /\ AskingTyped

Spent(g, k) ==
  IF budget.windowed THEN ledger[g].parts[k].window.cost ELSE ledger[g].parts[k].total

\* The calls that were let through and have not been charged.
InFlightCalls(g, k) ==
  {t \in BudgetThreads :
     executing[t].state # "free" /\ executing[t].at = g /\ executing[t].key = k}

\* Whatever the calls under way will cost, the bound holds.
RoomLeft ==
  budget.enforce =>
    \A g \in Contexts, k \in Partitions :
      PartitionLimit(k) > 0 =>
        Spent(g, k) + Cardinality(InFlightCalls(g, k)) * DearestCost
          < PartitionLimit(k) + Cardinality(BudgetThreads) * DearestCost

BudgetIInv == BudgetTyped /\ RoomLeft

\* No charge is above the dearest.
LEMMA DearestIsMost ==
  /\ DearestCost \in Nat
  /\ \A s \in DOMAIN Costs : Costs[s] \in Nat /\ Costs[s] <= DearestCost
<1> DEFINE All == {Costs[s] : s \in DOMAIN Costs}
<1>1. PICK a, b, c, d \in Nat : /\ a = Costs["success"] /\ b = Costs["error"]
                                /\ c = Costs["timeout"] /\ d = Costs["cancelled"]
  BY BudgetAssumption
<1>2. /\ a \in All /\ b \in All /\ c \in All /\ d \in All
      /\ \A s \in DOMAIN Costs : Costs[s] \in {a, b, c, d}
  BY <1>1, BudgetAssumption
<1>3. \E m \in {a, b, c, d} : m >= a /\ m >= b /\ m >= c /\ m >= d
  BY <1>1
<1>4. \E m \in All : \A s \in DOMAIN Costs : Costs[s] <= m
  BY <1>1, <1>2, <1>3
<1>5. DearestCost \in All /\ \A s \in DOMAIN Costs : Costs[s] <= DearestCost
  BY <1>4 DEF DearestCost
<1> QED
  BY <1>5, BudgetAssumption

\* The calls under way are threads.
LEMMA InFlightCounted ==
  ASSUME NEW g, NEW k
  PROVE  /\ IsFiniteSet(InFlightCalls(g, k)) /\ Cardinality(InFlightCalls(g, k)) \in Nat
         /\ Cardinality(BudgetThreads) \in Nat
         /\ Cardinality(InFlightCalls(g, k)) <= Cardinality(BudgetThreads)
BY BudgetAssumption, FS_Subset, FS_CardinalityType DEF InFlightCalls

\* Limits are numbers.
LEMMA LimitsAreNumbers == \A k : PartitionLimit(k) \in Nat
BY BudgetAssumption DEF PartitionLimit

\* A window as of now has no more in it than it had.
LEMMA WindowShrinks ==
  ASSUME NEW w \in Windows, clock \in Nat
  PROVE  WindowNow(w) \in Windows /\ WindowNow(w).cost <= w.cost
BY DEF WindowNow, Windows

\* A charge adds to it.
LEMMA WindowCharged ==
  ASSUME NEW w \in Windows, NEW n \in Nat, clock \in Nat
  PROVE  Charged(w, n) \in Windows /\ Charged(w, n).cost <= w.cost + n
<1>1. PICK v \in Windows : v = WindowNow(w) /\ v.cost <= w.cost
  BY WindowShrinks
<1>2. PICK x : x = [v EXCEPT !.cost = @ + n]
  OBVIOUS
<1>3. x \in Windows /\ x.cost = v.cost + n
  BY <1>2 DEF Windows
<1>4. v.cost \in Nat /\ w.cost \in Nat
  BY DEF Windows
<1>5. Charged(w, n) = x
  BY <1>1, <1>2 DEF Charged
<1> QED
  BY <1>1, <1>3, <1>4, <1>5

\* Who is free and who is not.
LEMMA ThreadKinds ==
  /\ Free \in Threads /\ Free.state = "free"
  /\ \A x \in Threads : /\ x.state \in {"free", "admitting", "waiting"}
                        /\ x.state = "free" => x = Free
                        /\ x.state # "free" => x.at \in Contexts /\ x.key \in Partitions
BY DEF Threads, Free

\* Fewer calls under way cost no more.
LEMMA FewerCostLess == \A m, n, d \in Nat : m <= n => m * d <= n * d
<1> SUFFICES ASSUME NEW m \in Nat, NEW n \in Nat, NEW d \in Nat, m <= n
             PROVE  m * d <= n * d
  OBVIOUS
<1>1. PICK e \in Nat : n = m + e
  <2>1. n - m \in Nat /\ n = m + (n - m)
    OBVIOUS
  <2> QED
    BY <2>1
<1>2. n * d = m * d + e * d /\ e * d \in Nat /\ m * d \in Nat
  BY <1>1
<1> QED
  BY <1>2

\* A charge of at most d takes the place of a call under way.
LEMMA ChargeFits ==
  \A s, u, c, d, b \in Nat : u <= s + d /\ s + (c + 1) * d < b => u + c * d < b
<1> SUFFICES ASSUME NEW s \in Nat, NEW u \in Nat, NEW c \in Nat, NEW d \in Nat, NEW b \in Nat,
                    u <= s + d, s + (c + 1) * d < b
             PROVE  u + c * d < b
  OBVIOUS
<1>1. (c + 1) * d = c * d + d /\ c * d \in Nat
  OBVIOUS
<1> QED
  BY <1>1

\* Spending is a number.
LEMMA SpentIsNumber ==
  ASSUME LedgerTyped
  PROVE  \A g \in Contexts, k \in Partitions : Spent(g, k) \in Nat
BY DEF LedgerTyped, Entry, Accounts, Windows, Spent

\* Threads and accounts are left alone.
LEMMA BudgetUntouched ==
  ASSUME BudgetIInv, UNCHANGED <<budget, executing>>, connectors' \in Contexts, clock' \in Nat,
         DOMAIN ledger' = Contexts,
         \A g \in Contexts : "parts" \in DOMAIN ledger'[g] /\ ledger'[g].parts = ledger[g].parts,
         jobs' \in Seq(QueuedJobs), DOMAIN jobs \subseteq DOMAIN jobs', AskingTyped'
  PROVE  BudgetIInv'
<1>1. LedgerTyped'
  BY DEF BudgetIInv, BudgetTyped, LedgerTyped, Entry
<1>2. ExecutingTyped'
  BY DEF BudgetIInv, BudgetTyped, ExecutingTyped
<1>3. RoomLeft'
  BY DEF BudgetIInv, RoomLeft, Spent, InFlightCalls, PartitionLimit
<1> QED
  BY <1>1, <1>2, <1>3 DEF BudgetIInv, BudgetTyped

\* A thread of execute() goes on.
LEMMA ThreadGoesOn ==
  ASSUME BudgetIInv, NEW t \in BudgetThreads, NEW new \in Threads,
         executing' = [executing EXCEPT ![t] = new],
         UNCHANGED <<budget, connectors, clock, asking>>,
         jobs' \in Seq(QueuedJobs), DOMAIN jobs \subseteq DOMAIN jobs',
         new.state = "waiting" => new.job \in DOMAIN jobs', LedgerTyped', RoomLeft'
  PROVE  BudgetIInv'
<1>1. ExecutingTyped'
  BY DEF BudgetIInv, BudgetTyped, ExecutingTyped
<1>2. AskingTyped'
  BY DEF BudgetIInv, BudgetTyped, AskingTyped
<1> QED
  BY <1>1, <1>2 DEF BudgetIInv, BudgetTyped

\* A call that ends is no longer counted, in its partition only.
LEMMA CallEnds ==
  ASSUME BudgetIInv, NEW t \in BudgetThreads, executing[t].state # "free",
         executing' = [executing EXCEPT ![t] = Free], NEW g, NEW k
  PROVE  /\ g = executing[t].at /\ k = executing[t].key =>
              Cardinality(InFlightCalls(g, k)) = Cardinality(InFlightCalls(g, k)') + 1
         /\ ~(g = executing[t].at /\ k = executing[t].key) =>
              InFlightCalls(g, k)' = InFlightCalls(g, k)
<1>1. executing \in [BudgetThreads -> Threads]
  BY DEF BudgetIInv, BudgetTyped, ExecutingTyped
<1>2. InFlightCalls(g, k)' = InFlightCalls(g, k) \ {t}
  BY <1>1, ThreadKinds DEF InFlightCalls
<1>3. t \in InFlightCalls(g, k) <=> g = executing[t].at /\ k = executing[t].key
  BY DEF InFlightCalls
<1>4. IsFiniteSet(InFlightCalls(g, k)) /\ Cardinality(InFlightCalls(g, k)) \in Nat
  BY InFlightCounted
<1>5. CASE t \in InFlightCalls(g, k)
  <2>1. Cardinality(InFlightCalls(g, k) \ {t}) = Cardinality(InFlightCalls(g, k)) - 1
    BY <1>4, <1>5, FS_RemoveElement
  <2> QED
    BY <1>2, <1>3, <1>4, <1>5, <2>1
<1>6. CASE t \notin InFlightCalls(g, k)
  BY <1>2, <1>3, <1>6
<1> QED
  BY <1>5, <1>6

\* A call that ends with a charge of at most the dearest leaves as much room as before.
LEMMA EndLeavesRoom ==
  ASSUME BudgetIInv, NEW t \in BudgetThreads, executing[t].state # "free",
         executing' = [executing EXCEPT ![t] = Free], UNCHANGED budget, LedgerTyped',
         \A g \in Contexts, k \in Partitions :
           /\ Spent(g, k)' <= Spent(g, k) + DearestCost
           /\ ~(g = executing[t].at /\ k = executing[t].key) => Spent(g, k)' <= Spent(g, k)
  PROVE  RoomLeft'
<1> SUFFICES ASSUME budget.enforce, NEW g \in Contexts, NEW k \in Partitions,
                    PartitionLimit(k) > 0
             PROVE  Spent(g, k)' + Cardinality(InFlightCalls(g, k)') * DearestCost
                      < PartitionLimit(k) + Cardinality(BudgetThreads) * DearestCost
  BY DEF RoomLeft, PartitionLimit
<1>1. Spent(g, k) + Cardinality(InFlightCalls(g, k)) * DearestCost
        < PartitionLimit(k) + Cardinality(BudgetThreads) * DearestCost
  BY DEF BudgetIInv, RoomLeft
<1>2. Spent(g, k) \in Nat /\ Spent(g, k)' \in Nat
  BY SpentIsNumber DEF BudgetIInv, BudgetTyped, LedgerTyped, Spent, Entry, Accounts, Windows
<1>3. PICK s, u, c, d, n, l : /\ s = Spent(g, k) /\ u = Spent(g, k)' /\ d = DearestCost
                              /\ c = Cardinality(InFlightCalls(g, k)')
                              /\ n = Cardinality(BudgetThreads) /\ l = PartitionLimit(k)
  OBVIOUS
<1>4. s \in Nat /\ u \in Nat /\ d \in Nat /\ n \in Nat /\ l \in Nat
  BY <1>2, <1>3, DearestIsMost, InFlightCounted, LimitsAreNumbers
<1>5. Cardinality(InFlightCalls(g, k)') \in Nat
  <2>1. InFlightCalls(g, k)' \in SUBSET BudgetThreads
    BY DEF InFlightCalls
  <2> QED
    BY <2>1, BudgetAssumption, FS_Subset, FS_CardinalityType
<1>6. l + n * d \in Nat
  BY <1>4
<1>7. CASE g = executing[t].at /\ k = executing[t].key
  <2>1. Cardinality(InFlightCalls(g, k)) = c + 1
    BY <1>3, <1>7, CallEnds
  <2>2. u <= s + d /\ s + (c + 1) * d < l + n * d
    BY <1>1, <1>3, <2>1
  <2> QED
    BY <1>3, <1>4, <1>5, <1>6, <2>2, ChargeFits
<1>8. CASE ~(g = executing[t].at /\ k = executing[t].key)
  <2>1. Cardinality(InFlightCalls(g, k)) = c /\ u <= s
    BY <1>3, <1>8, CallEnds
  <2>2. s + c * d < l + n * d /\ c * d \in Nat
    BY <1>1, <1>3, <1>4, <1>5, <2>1
  <2> QED
    BY <1>3, <1>4, <1>6, <2>1, <2>2
<1> QED
  BY <1>7, <1>8

\* A call is given up before it is charged.
LEMMA UnchargedEnd ==
  ASSUME BudgetIInv, NEW t \in BudgetThreads, executing[t].state # "free",
         executing' = [executing EXCEPT ![t] = Free],
         UNCHANGED <<budget, connectors, clock, asking>>,
         jobs' \in Seq(QueuedJobs), DOMAIN jobs \subseteq DOMAIN jobs', DOMAIN ledger' = Contexts,
         \A g \in Contexts : "parts" \in DOMAIN ledger'[g] /\ ledger'[g].parts = ledger[g].parts
  PROVE  BudgetIInv'
<1>1. LedgerTyped'
  BY DEF BudgetIInv, BudgetTyped, LedgerTyped, Entry
<1>2. \A g \in Contexts, k \in Partitions : Spent(g, k)' = Spent(g, k) /\ Spent(g, k) \in Nat
  BY SpentIsNumber DEF BudgetIInv, BudgetTyped, Spent
<1>3. \A g \in Contexts, k \in Partitions :
        /\ Spent(g, k)' <= Spent(g, k) + DearestCost
        /\ ~(g = executing[t].at /\ k = executing[t].key) => Spent(g, k)' <= Spent(g, k)
  BY <1>2, DearestIsMost
<1>4. RoomLeft'
  BY <1>1, <1>3, EndLeavesRoom
<1> QED
  BY <1>1, <1>4, ThreadKinds, ThreadGoesOn

\* No slot in time: the refusal is recorded and nothing is charged.
LEMMA SlotTimeoutKeeps ==
  ASSUME BudgetIInv, NEW t \in BudgetThreads, SlotTimeout(t)
  PROVE  BudgetIInv'
<1>1. executing[t].state # "free" /\ executing[t] \in Threads
  BY DEF SlotTimeout, BudgetIInv, BudgetTyped, ExecutingTyped
<1>2. PICK g \in Contexts : g = executing[t].at
  BY <1>1, ThreadKinds
<1>3. PICK e : e = ledger[g]
  OBVIOUS
<1>4. Entry(e) /\ DOMAIN ledger = Contexts
  BY <1>3 DEF BudgetIInv, BudgetTyped, LedgerTyped
<1>5. PICK x : x = [Rejected(e, <<"slot", "timeout">>) EXCEPT !.slotTimeouts = @ + 1]
  OBVIOUS
<1>6. "parts" \in DOMAIN x /\ x.parts = e.parts
  BY <1>4, <1>5 DEF Rejected, Entry
<1>7. ledger' = [ledger EXCEPT ![g] = x]
  BY <1>2, <1>3, <1>5 DEF SlotTimeout
<1>8. /\ DOMAIN ledger' = Contexts
      /\ \A h \in Contexts : "parts" \in DOMAIN ledger'[h] /\ ledger'[h].parts = ledger[h].parts
  BY <1>3, <1>4, <1>6, <1>7 DEF BudgetIInv, BudgetTyped, LedgerTyped, Entry
<1>9. /\ UNCHANGED <<budget, connectors, clock, asking, jobs>>
      /\ executing' = [executing EXCEPT ![t] = Free]
  BY DEF SlotTimeout
<1>10. jobs' \in Seq(QueuedJobs) /\ DOMAIN jobs \subseteq DOMAIN jobs'
  BY <1>9 DEF BudgetIInv, BudgetTyped
<1> QED
  BY <1>1, <1>8, <1>9, <1>10, UnchargedEnd

\* The job is queued, and the call waits for it or is over.
LEMMA QueueJobKeeps ==
  ASSUME BudgetIInv, NEW t \in BudgetThreads, QueueJob(t)
  PROVE  BudgetIInv'
<1>1. PICK old \in Threads : old = executing[t]
  BY DEF BudgetIInv, BudgetTyped, ExecutingTyped
<1>2. old.state = "admitting" /\ old.at \in Contexts /\ old.key \in Partitions
  BY <1>1, ThreadKinds DEF QueueJob
<1>3. PICK job : job = [at |-> old.at, state |-> "queued", lease |-> 0, result |-> "none"]
  OBVIOUS
<1>4. job \in QueuedJobs
  BY <1>2, <1>3 DEF QueuedJobs
<1>5. jobs \in Seq(QueuedJobs) /\ Len(jobs) \in Nat
  BY DEF BudgetIInv, BudgetTyped
<1>6. jobs' = Append(jobs, job)
  BY <1>1, <1>3 DEF QueueJob
<1>7. /\ jobs' \in Seq(QueuedJobs) /\ DOMAIN jobs \subseteq DOMAIN jobs'
      /\ Len(jobs) + 1 \in DOMAIN jobs'
  BY <1>4, <1>5, <1>6, AppendProperties
<1>8. UNCHANGED <<budget, connectors, clock, asking, ledger>>
  BY DEF QueueJob
<1>9. /\ DOMAIN ledger' = Contexts /\ LedgerTyped'
      /\ \A g \in Contexts : "parts" \in DOMAIN ledger'[g] /\ ledger'[g].parts = ledger[g].parts
  BY <1>8 DEF BudgetIInv, BudgetTyped, LedgerTyped, Entry
<1>10. CASE budget.nonblocking
  <2>1. executing' = [executing EXCEPT ![t] = Free]
    BY <1>10 DEF QueueJob
  <2> QED
    BY <1>1, <1>2, <1>7, <1>8, <1>9, <2>1, UnchargedEnd
<1>11. CASE ~budget.nonblocking
  <2>1. PICK new : new = [state |-> "waiting", key |-> old.key, at |-> old.at,
                          job |-> Len(jobs) + 1]
    OBVIOUS
  <2>2. new \in Threads /\ new.job = Len(jobs) + 1 /\ new.state = "waiting"
        /\ new.at = old.at /\ new.key = old.key
    BY <1>2, <1>5, <2>1 DEF Threads
  <2>3. executing' = [executing EXCEPT ![t] = new]
    BY <1>1, <1>11, <2>1 DEF QueueJob
  <2>4. \A g, k : InFlightCalls(g, k)' = InFlightCalls(g, k)
    BY <1>1, <1>2, <2>2, <2>3 DEF InFlightCalls, BudgetIInv, BudgetTyped, ExecutingTyped
  <2>5. RoomLeft'
    BY <1>8, <2>4 DEF BudgetIInv, RoomLeft, Spent, PartitionLimit
  <2> QED
    BY <1>7, <1>8, <1>9, <2>2, <2>3, <2>5, ThreadGoesOn
<1> QED
  BY <1>10, <1>11

\* A returned call is charged to its partition, with at most the dearest cost.
LEMMA ReturnKeeps ==
  ASSUME BudgetIInv, NEW t \in BudgetThreads, NEW status \in DOMAIN Costs,
         executing[t].state = "waiting", Return(t, status),
         jobs' \in Seq(QueuedJobs), DOMAIN jobs \subseteq DOMAIN jobs'
  PROVE  BudgetIInv'
<1>1. executing[t].state # "free" /\ executing[t] \in Threads
  BY DEF BudgetIInv, BudgetTyped, ExecutingTyped
<1>2. PICK g \in Contexts, k \in Partitions : g = executing[t].at /\ k = executing[t].key
  BY <1>1, ThreadKinds
<1>3. PICK n \in Nat : n = CostForStatus(status) /\ n <= DearestCost
  BY DearestIsMost DEF CostForStatus
<1>4. PICK e : e = ledger[g]
  OBVIOUS
<1>5. Entry(e) /\ DOMAIN ledger = Contexts
  BY <1>4 DEF BudgetIInv, BudgetTyped, LedgerTyped
<1>6. PICK acc \in Accounts : acc = e.parts[k]
  BY <1>5 DEF Entry
<1>7. PICK w \in Windows, total \in Nat : w = acc.window /\ total = acc.total
  BY DEF Accounts
<1>8. PICK w2 \in Windows : /\ w2 = IF budget.windowed THEN Charged(w, n) ELSE w
                            /\ w2.cost <= w.cost + n
  <2>1. clock \in Nat
    BY DEF BudgetIInv, BudgetTyped
  <2>2. Charged(w, n) \in Windows /\ Charged(w, n).cost <= w.cost + n
    BY <2>1, WindowCharged
  <2>3. w.cost <= w.cost + n
    BY DEF Windows
  <2> QED
    BY <2>2, <2>3
<1>9. PICK total2 \in Nat : total2 = total + n
  OBVIOUS
<1>10. PICK acc2 : acc2 = [acc EXCEPT !.total = total2, !.window = w2]
  OBVIOUS
<1>11. acc2 \in Accounts /\ acc2.total = total2 /\ acc2.window = w2
  BY <1>10 DEF Accounts
<1>12. PICK x : x = RecordTenantCost(e, k, n)
  OBVIOUS
<1>13. "parts" \in DOMAIN x /\ x.parts = [e.parts EXCEPT ![k] = acc2]
  <2>1. PICK y : y = [e EXCEPT !.total = @ + n, !.parts[k].total = @ + n]
    OBVIOUS
  <2>2. "parts" \in DOMAIN y /\ y.parts = [e.parts EXCEPT ![k] = [acc EXCEPT !.total = total2]]
    BY <1>5, <1>6, <1>7, <1>9, <2>1 DEF Entry
  <2>3. y.parts[k] = [acc EXCEPT !.total = total2] /\ y.parts[k].window = w
    BY <1>5, <1>6, <1>7, <2>2 DEF Entry, Accounts
  <2>4. PICK v : v = IF budget.windowed THEN Charged(y.window, n) ELSE y.window
    OBVIOUS
  <2>5. PICK z : z = [y EXCEPT !.window = v]
    OBVIOUS
  <2>6. "parts" \in DOMAIN z /\ z.parts = y.parts
    BY <2>2, <2>5
  <2>7. x = [z EXCEPT !.parts[k].window = w2]
    <3>1. PICK u : u = IF budget.windowed THEN Charged(z.parts[k].window, n)
                       ELSE z.parts[k].window
      OBVIOUS
    <3>2. x = [z EXCEPT !.parts[k].window = u]
      BY <1>12, <2>1, <2>4, <2>5, <3>1 DEF RecordTenantCost
    <3>3. u = w2
      BY <1>8, <2>3, <2>6, <3>1
    <3> QED
      BY <3>2, <3>3
  <2> QED
    BY <1>5, <1>10, <2>2, <2>3, <2>6, <2>7 DEF Entry, Accounts
<1>14. ledger' = [ledger EXCEPT ![g] = x]
  BY <1>2, <1>3, <1>4, <1>12 DEF Return
<1>15. LedgerTyped'
  BY <1>5, <1>11, <1>13, <1>14 DEF BudgetIInv, BudgetTyped, LedgerTyped, Entry
<1>16. /\ UNCHANGED <<budget, connectors, clock, asking>>
       /\ executing' = [executing EXCEPT ![t] = Free]
  BY DEF Return
<1>17. ASSUME NEW h \in Contexts, NEW q \in Partitions
       PROVE  /\ Spent(h, q)' <= Spent(h, q) + DearestCost
              /\ ~(h = executing[t].at /\ q = executing[t].key) => Spent(h, q)' <= Spent(h, q)
  <2>1. Spent(h, q) \in Nat /\ DearestCost \in Nat
    BY SpentIsNumber, DearestIsMost DEF BudgetIInv, BudgetTyped
  <2>2. CASE h = g /\ q = k
    <3>1. Spent(h, q) = IF budget.windowed THEN w.cost ELSE total
      BY <1>4, <1>6, <1>7, <2>2 DEF Spent
    <3>2. ledger'[h].parts[q] = acc2
      BY <1>5, <1>13, <1>14, <2>2 DEF Entry
    <3>3. Spent(h, q)' = IF budget.windowed THEN w2.cost ELSE total2
      BY <1>11, <1>16, <3>2 DEF Spent
    <3>4. w.cost \in Nat /\ w2.cost \in Nat
      BY DEF Windows
    <3>5. Spent(h, q)' <= Spent(h, q) + n
      BY <1>8, <1>9, <3>1, <3>3, <3>4
    <3>6. Spent(h, q)' \in Nat
      BY <3>3, <3>4
    <3> QED
      BY <1>2, <1>3, <2>1, <2>2, <3>5, <3>6
  <2>3. CASE ~(h = g /\ q = k)
    <3>1. ledger'[h].parts[q] = ledger[h].parts[q]
      BY <1>4, <1>5, <1>13, <1>14, <2>3 DEF Entry
    <3>2. Spent(h, q)' = Spent(h, q)
      BY <1>16, <3>1 DEF Spent
    <3> QED
      BY <2>1, <3>2
  <2> QED
    BY <2>2, <2>3
<1>18. RoomLeft'
  BY <1>1, <1>15, <1>16, <1>17, EndLeavesRoom
<1> QED
  BY <1>15, <1>16, <1>18, ThreadKinds, ThreadGoesOn

\* One job of the list changes and stays a job.
LEMMA JobChanges ==
  ASSUME BudgetIInv, NEW j \in DOMAIN jobs, NEW new \in QueuedJobs
  PROVE  /\ [jobs EXCEPT ![j] = new] \in Seq(QueuedJobs)
         /\ DOMAIN [jobs EXCEPT ![j] = new] = DOMAIN jobs
<1>1. jobs \in Seq(QueuedJobs) /\ j \in 1..Len(jobs)
  BY DEF BudgetIInv, BudgetTyped
<1> QED
  BY <1>1, ExceptSeq

\* The call of a thread that waits returns with the result, or at the deadline.
LEMMA ResultsKeep ==
  ASSUME BudgetIInv, NEW t \in BudgetThreads, MapResult(t) \/ TimeoutResult(t)
  PROVE  BudgetIInv'
<1>1. executing[t].state = "waiting"
  BY DEF MapResult, TimeoutResult
<1>2. PICK j \in DOMAIN jobs : j = executing[t].job
  BY <1>1 DEF BudgetIInv, BudgetTyped, ExecutingTyped
<1>3. PICK old \in QueuedJobs : old = jobs[j]
  BY DEF BudgetIInv, BudgetTyped
<1>4. CASE MapResult(t)
  <2>1. PICK status \in DOMAIN Costs : status = old.result
    BY <1>2, <1>3, <1>4 DEF MapResult, QueuedJobs
  <2>2. Return(t, status)
    BY <1>2, <1>3, <1>4, <2>1 DEF MapResult
  <2>3. PICK new : new = [old EXCEPT !.result = "none"]
    OBVIOUS
  <2>4. new \in QueuedJobs
    BY <2>3 DEF QueuedJobs
  <2>5. jobs' = [jobs EXCEPT ![j] = new]
    BY <1>2, <1>3, <1>4, <2>3 DEF MapResult
  <2>6. jobs' \in Seq(QueuedJobs) /\ DOMAIN jobs \subseteq DOMAIN jobs'
    BY <2>4, <2>5, JobChanges
  <2> QED
    BY <1>1, <2>2, <2>6, ReturnKeeps
<1>5. CASE TimeoutResult(t)
  <2>1. "timeout" \in DOMAIN Costs /\ Return(t, "timeout")
    BY <1>5, BudgetAssumption DEF TimeoutResult
  <2>2. jobs' \in Seq(QueuedJobs) /\ DOMAIN jobs \subseteq DOMAIN jobs'
    BY <1>5 DEF TimeoutResult, BudgetIInv, BudgetTyped
  <2> QED
    BY <1>1, <2>1, <2>2, ReturnKeeps
<1> QED
  BY <1>4, <1>5

\* Looking at the budget adds nothing to it, and lets a call through only below the limit.
LEMMA CheckBudgetKeeps ==
  ASSUME BudgetIInv, NEW t \in BudgetThreads, NEW call \in CallKinds, CheckBudget(t, call)
  PROVE  BudgetIInv'
<1>1. PICK key \in Partitions : key = PartitionOf(call)
  BY DEF PartitionOf, Partitions
<1>2. PICK g \in Contexts : g = connectors
  BY DEF BudgetIInv, BudgetTyped
<1>3. PICK e : e = ledger[g]
  OBVIOUS
<1>4. Entry(e) /\ DOMAIN ledger = Contexts
  BY <1>3 DEF BudgetIInv, BudgetTyped, LedgerTyped
<1>5. PICK acc \in Accounts : acc = e.parts[key]
  BY <1>4 DEF Entry
<1>6. PICK w \in Windows, total \in Nat : w = acc.window /\ total = acc.total
  BY DEF Accounts
<1>7. clock \in Nat
  BY DEF BudgetIInv, BudgetTyped
<1>8. PICK v \in Windows : v = WindowNow(w) /\ v.cost <= w.cost
  BY <1>7, WindowShrinks
<1> DEFINE looks == budget.enforce /\ budget.windowed /\ PartitionLimit(key) > 0
           over == budget.enforce /\ CostLimitExceeded(g, key)
<1>9. PICK acc2 : acc2 = IF looks THEN [acc EXCEPT !.window = v] ELSE acc
  OBVIOUS
<1>10. /\ acc2 \in Accounts /\ acc2.total = total
       /\ acc2.window = IF looks THEN v ELSE w
  BY <1>6, <1>9 DEF Accounts
<1>11. PICK looked : looked = IF looks THEN [e EXCEPT !.parts[key].window = WindowNow(@)] ELSE e
  OBVIOUS
<1>12. "parts" \in DOMAIN looked /\ looked.parts = [e.parts EXCEPT ![key] = acc2]
  <2>1. CASE looks
    <3>1. looked = [e EXCEPT !.parts[key].window = v]
      BY <1>5, <1>6, <1>8, <1>11, <2>1
    <3> QED
      BY <1>4, <1>5, <1>9, <2>1, <3>1 DEF Entry
  <2>2. CASE ~looks
    BY <1>4, <1>5, <1>9, <1>11, <2>2 DEF Entry
  <2> QED
    BY <2>1, <2>2
<1>13. PICK x : x = IF over THEN Rejected(looked, CostReason(key)) ELSE looked
  OBVIOUS
<1>14. "parts" \in DOMAIN x /\ x.parts = [e.parts EXCEPT ![key] = acc2]
  BY <1>12, <1>13 DEF Rejected
<1>15. ledger' = [ledger EXCEPT ![g] = x]
  BY <1>1, <1>2, <1>3, <1>11, <1>13 DEF CheckBudget
<1>16. LedgerTyped'
  BY <1>4, <1>10, <1>14, <1>15 DEF BudgetIInv, BudgetTyped, LedgerTyped, Entry
<1>17. UNCHANGED <<budget, connectors, jobs, asking, clock>> /\ executing[t] = Free
  BY DEF CheckBudget
<1>18. PICK new : new = IF over THEN Free ELSE [state |-> "admitting", key |-> key, at |-> g]
  OBVIOUS
<1>19. /\ new \in Threads /\ new.state # "waiting"
       /\ over => new = Free
       /\ ~over => new.key = key /\ new.at = g
  BY <1>18, ThreadKinds DEF Threads
<1>20. executing' = [executing EXCEPT ![t] = new]
  BY <1>1, <1>2, <1>18 DEF CheckBudget
<1>21. executing \in [BudgetThreads -> Threads]
  BY DEF BudgetIInv, BudgetTyped, ExecutingTyped
<1>22. RoomLeft'
  <2> SUFFICES ASSUME budget.enforce, NEW h \in Contexts, NEW q \in Partitions,
                      PartitionLimit(q) > 0
               PROVE  Spent(h, q)' + Cardinality(InFlightCalls(h, q)') * DearestCost
                        < PartitionLimit(q) + Cardinality(BudgetThreads) * DearestCost
    BY <1>17 DEF RoomLeft, PartitionLimit
  <2>1. Spent(h, q) + Cardinality(InFlightCalls(h, q)) * DearestCost
          < PartitionLimit(q) + Cardinality(BudgetThreads) * DearestCost
    BY DEF BudgetIInv, RoomLeft
  <2>2. /\ Cardinality(InFlightCalls(h, q)') \in Nat /\ Cardinality(BudgetThreads) \in Nat
        /\ Cardinality(InFlightCalls(h, q)') <= Cardinality(BudgetThreads)
    <3>1. InFlightCalls(h, q)' \in SUBSET BudgetThreads
      BY DEF InFlightCalls
    <3> QED
      BY <3>1, BudgetAssumption, FS_Subset, FS_CardinalityType
  <2>3. PICK s, u, c, d, n, l : /\ s = Spent(h, q) /\ u = Spent(h, q)' /\ d = DearestCost
                                /\ c = Cardinality(InFlightCalls(h, q)')
                                /\ n = Cardinality(BudgetThreads) /\ l = PartitionLimit(q)
    OBVIOUS
  <2>4. Spent(h, q) \in Nat /\ Spent(h, q)' \in Nat
    BY <1>16, SpentIsNumber DEF BudgetIInv, BudgetTyped, LedgerTyped, Spent, Entry, Accounts,
                                Windows
  <2>5. s \in Nat /\ u \in Nat /\ c \in Nat /\ d \in Nat /\ n \in Nat /\ l \in Nat /\ c <= n
    BY <2>2, <2>3, <2>4, DearestIsMost, LimitsAreNumbers
  <2>6. c * d <= n * d /\ c * d \in Nat /\ n * d \in Nat
    BY <2>5, FewerCostLess
  <2>7. w.cost \in Nat /\ v.cost \in Nat
    BY DEF Windows
  <2>8. CASE h = g /\ q = key
    <3>1. s = IF budget.windowed THEN w.cost ELSE total
      BY <1>3, <1>5, <1>6, <2>3, <2>8 DEF Spent
    <3>2. ledger'[h].parts[q] = acc2
      BY <1>4, <1>14, <1>15, <2>8 DEF Entry
    <3>3. u = IF budget.windowed THEN v.cost ELSE total
      BY <1>10, <1>17, <2>3, <2>8, <3>2 DEF Spent
    <3>4. CASE over
      <4>1. executing' = executing
        BY <1>17, <1>19, <1>20, <1>21, <3>4
      <4>2. Cardinality(InFlightCalls(h, q)) = c
        BY <2>3, <4>1 DEF InFlightCalls
      <4> QED
        BY <1>8, <2>1, <2>3, <2>5, <2>6, <2>7, <3>1, <3>3, <4>2
    <3>5. CASE ~over
      <4>1. Consumed(g, key) = u
        BY <1>3, <1>5, <1>6, <1>8, <3>3 DEF Consumed, PartitionWindow
      <4>2. u < l
        BY <2>3, <2>5, <2>8, <3>5, <4>1 DEF CostLimitExceeded
      <4> QED
        BY <2>3, <2>5, <2>6, <4>2
    <3> QED
      BY <3>4, <3>5
  <2>9. CASE ~(h = g /\ q = key)
    <3>1. ledger'[h].parts[q] = ledger[h].parts[q]
      BY <1>3, <1>4, <1>14, <1>15, <2>9 DEF Entry
    <3>2. u = s
      BY <1>17, <2>3, <3>1 DEF Spent
    <3>3. InFlightCalls(h, q)' = InFlightCalls(h, q)
      BY <1>17, <1>19, <1>20, <1>21, <2>9, ThreadKinds DEF InFlightCalls
    <3> QED
      BY <2>1, <2>3, <3>2, <3>3
  <2> QED
    BY <2>8, <2>9
<1>23. jobs' \in Seq(QueuedJobs) /\ DOMAIN jobs \subseteq DOMAIN jobs'
  BY <1>17 DEF BudgetIInv, BudgetTyped
<1> QED
  BY <1>16, <1>17, <1>19, <1>20, <1>22, <1>23, ThreadGoesOn

\* A set of numbers that is not empty has a least one.
LEMMA LeastNumber ==
  ASSUME NEW S \in SUBSET Nat, S # {}
  PROVE  \E m \in S : \A n \in S : m <= n
<1>1. PICK R : R = OpToRel(<, Nat)
  OBVIOUS
<1>2. \A x, y \in Nat : x < y => <<x, y>> \in R
  BY <1>1 DEF OpToRel
<1>3. IsWellFoundedOn(R, Nat)
  BY <1>1, NatLessThanWellFounded
<1>4. PICK m \in S : \A n \in S : ~ (<<n, m>> \in R)
  BY <1>3, WFMin, Zenon
<1>5. m \in Nat /\ \A n \in S : n \in Nat /\ ~ (n < m)
  BY <1>2, <1>4
<1>6. \A n \in S : m <= n
  BY <1>5
<1> QED
  BY <1>4, <1>6

\* An operator's request is answered: no account is changed.
LEMMA AnswerKeeps ==
  ASSUME BudgetIInv, NEW o \in BudgetOperators, asking' = [asking EXCEPT ![o] = Free],
         UNCHANGED <<budget, connectors, executing, clock>>,
         jobs' \in Seq(QueuedJobs), DOMAIN jobs \subseteq DOMAIN jobs',
         \/ ledger' = ledger
         \/ \E g \in Contexts : \E x :
              /\ ledger' = [ledger EXCEPT ![g] = x]
              /\ "parts" \in DOMAIN x /\ x.parts = ledger[g].parts
  PROVE  BudgetIInv'
<1>1. /\ DOMAIN ledger' = Contexts
      /\ \A h \in Contexts : "parts" \in DOMAIN ledger'[h] /\ ledger'[h].parts = ledger[h].parts
  BY DEF BudgetIInv, BudgetTyped, LedgerTyped, Entry
<1>2. AskingTyped'
  BY ThreadKinds DEF BudgetIInv, BudgetTyped, AskingTyped
<1>3. connectors' \in Contexts /\ clock' \in Nat
  BY DEF BudgetIInv, BudgetTyped
<1> QED
  BY <1>1, <1>2, <1>3, BudgetUntouched

\* A request that is under way has resolved a context.
LEMMA AskedOfContext ==
  ASSUME BudgetIInv, NEW o \in BudgetOperators, asking[o].state # "free"
  PROVE  /\ asking[o].at \in Contexts /\ Entry(ledger[asking[o].at]) /\ DOMAIN ledger = Contexts
         /\ jobs \in Seq(QueuedJobs)
BY ThreadKinds DEF BudgetIInv, BudgetTyped, AskingTyped, LedgerTyped

\* Reading the figures renews the tenant's window and no partition's.
LEMMA ReadFiguresKeeps ==
  ASSUME BudgetIInv, NEW o \in BudgetOperators, ReadFigures(o)
  PROVE  BudgetIInv'
<1>1. PICK g : g = asking[o].at
  OBVIOUS
<1>2. g \in Contexts /\ Entry(ledger[g]) /\ jobs \in Seq(QueuedJobs)
  BY <1>1, AskedOfContext DEF ReadFigures
<1>3. /\ ledger' = ControlStatsForTenant(g) /\ jobs' = jobs
      /\ asking' = [asking EXCEPT ![o] = Free] /\ UNCHANGED <<budget, connectors, executing, clock>>
  BY <1>1 DEF ReadFigures, BudgetAnswer
<1>4. PICK e, v : e = ledger[g] /\ v = WindowNow(e.window)
  OBVIOUS
<1>5. PICK x : x = [e EXCEPT !.window = v]
  OBVIOUS
<1>6. "parts" \in DOMAIN x /\ x.parts = ledger[g].parts
  BY <1>2, <1>4, <1>5 DEF Entry
<1>7. ledger' = [ledger EXCEPT ![g] = x]
  BY <1>3, <1>4, <1>5 DEF ControlStatsForTenant
<1>8. jobs' \in Seq(QueuedJobs) /\ DOMAIN jobs \subseteq DOMAIN jobs'
  BY <1>2, <1>3
<1> QED
  BY <1>2, <1>3, <1>6, <1>7, <1>8, AnswerKeeps

\* A worker claims the oldest queued job, or an operator cancels one.
LEMMA ClaimAndCancelKeep ==
  ASSUME BudgetIInv, NEW o \in BudgetOperators, ClaimNextJob(o) \/ RequestCancellation(o)
  PROVE  BudgetIInv'
<1>1. /\ ledger' = ledger /\ asking' = [asking EXCEPT ![o] = Free]
      /\ UNCHANGED <<budget, connectors, executing, clock>>
  BY DEF ClaimNextJob, RequestCancellation, BudgetAnswer
<1>2. jobs \in Seq(QueuedJobs)
  BY DEF BudgetIInv, BudgetTyped
<1>3. jobs' \in Seq(QueuedJobs) /\ DOMAIN jobs \subseteq DOMAIN jobs'
  <2>1. CASE jobs' = jobs
    BY <1>2, <2>1
  <2>2. ASSUME NEW j \in DOMAIN jobs,
               jobs' = [jobs EXCEPT ![j].state = "leased", ![j].lease = @ + 1]
        PROVE  jobs' \in Seq(QueuedJobs) /\ DOMAIN jobs \subseteq DOMAIN jobs'
    <3>1. PICK old \in QueuedJobs : old = jobs[j]
      BY <1>2
    <3>2. PICK n \in Nat : n = old.lease + 1
      BY DEF QueuedJobs
    <3>3. PICK new : new = [old EXCEPT !.state = "leased", !.lease = n]
      OBVIOUS
    <3>4. new \in QueuedJobs
      BY <3>3 DEF QueuedJobs
    <3>5. jobs' = [jobs EXCEPT ![j] = new]
      BY <1>2, <2>2, <3>1, <3>2, <3>3 DEF QueuedJobs
    <3> QED
      BY <3>4, <3>5, JobChanges
  <2>3. ASSUME NEW j \in DOMAIN jobs, jobs' = [jobs EXCEPT ![j].state = "cancelled"]
        PROVE  jobs' \in Seq(QueuedJobs) /\ DOMAIN jobs \subseteq DOMAIN jobs'
    <3>1. PICK old \in QueuedJobs : old = jobs[j]
      BY <1>2
    <3>2. PICK new : new = [old EXCEPT !.state = "cancelled"]
      OBVIOUS
    <3>3. new \in QueuedJobs
      BY <3>2 DEF QueuedJobs
    <3>4. jobs' = [jobs EXCEPT ![j] = new]
      BY <2>3, <3>1, <3>2
    <3> QED
      BY <3>3, <3>4, JobChanges
  <2>4. CASE ClaimNextJob(o)
    <3>1. PICK ready : ready = QueuedAt(asking[o].at) /\ ready \subseteq DOMAIN jobs
      BY DEF QueuedAt
    <3>2. CASE ready = {}
      BY <2>1, <2>4, <3>1, <3>2 DEF ClaimNextJob, BudgetAnswer
    <3>3. CASE ready # {}
      <4>1. PICK first : first = CHOOSE j \in ready : \A k \in ready : j <= k
        OBVIOUS
      <4>2. \E j \in ready : \A k \in ready : j <= k
        <5>1. ready \in SUBSET Nat /\ ready # {}
          BY <1>2, <3>1, <3>3
        <5> QED
          BY <5>1, LeastNumber
      <4>3. first \in DOMAIN jobs
        BY <3>1, <4>1, <4>2
      <4>4. jobs' = [jobs EXCEPT ![first].state = "leased", ![first].lease = @ + 1]
        BY <2>4, <3>1, <3>3, <4>1 DEF ClaimNextJob, BudgetAnswer
      <4> QED
        BY <2>2, <4>3, <4>4
    <3> QED
      BY <3>2, <3>3
  <2>5. CASE RequestCancellation(o)
    BY <2>1, <2>3, <2>5 DEF RequestCancellation, BudgetAnswer, QueuedAt
  <2> QED
    BY <2>4, <2>5
<1> QED
  BY <1>1, <1>3, AnswerKeeps

\* A submission is counted and may complete its job; the budget is not charged for it.
LEMMA IngestKeeps ==
  ASSUME BudgetIInv, NEW o \in BudgetOperators, NEW status \in DOMAIN Costs,
         NEW wrong \in {"none", "tenant", "artifact"}, IngestResultAfterAuth(o, status, wrong)
  PROVE  BudgetIInv'
<1>1. PICK g, j : g = asking[o].at /\ j = asking[o].job
  OBVIOUS
<1>2. /\ g \in Contexts /\ Entry(ledger[g]) /\ jobs \in Seq(QueuedJobs) /\ j \in DOMAIN jobs
  BY <1>1, AskedOfContext DEF IngestResultAfterAuth, BudgetIInv, BudgetTyped, AskingTyped
<1>3. PICK e : e = ledger[g]
  OBVIOUS
<1>4. PICK tried : tried = [e EXCEPT !.attempts = @ + 1]
  OBVIOUS
<1>5. "parts" \in DOMAIN tried /\ tried.parts = e.parts
  BY <1>2, <1>3, <1>4 DEF Entry
<1>6. \A r : "parts" \in DOMAIN Rejected(tried, r) /\ Rejected(tried, r).parts = e.parts
  BY <1>5 DEF Rejected
<1>7. PICK x : /\ ledger' = [ledger EXCEPT ![g] = x]
               /\ x = tried \/ \E r : x = Rejected(tried, r)
  BY <1>1, <1>3, <1>4 DEF IngestResultAfterAuth, BudgetAnswer
<1>8. "parts" \in DOMAIN x /\ x.parts = ledger[g].parts
  BY <1>3, <1>5, <1>6, <1>7
<1>9. /\ asking' = [asking EXCEPT ![o] = Free]
      /\ UNCHANGED <<budget, connectors, executing, clock>>
      /\ \/ jobs' = jobs
         \/ jobs' = [jobs EXCEPT ![j].state = "completed", ![j].result = status]
  BY <1>1 DEF IngestResultAfterAuth, BudgetAnswer
<1>10. jobs' \in Seq(QueuedJobs) /\ DOMAIN jobs \subseteq DOMAIN jobs'
  <2>1. CASE jobs' = jobs
    BY <1>2, <2>1
  <2>2. CASE jobs' = [jobs EXCEPT ![j].state = "completed", ![j].result = status]
    <3>1. PICK old \in QueuedJobs : old = jobs[j]
      BY <1>2
    <3>2. PICK new : new = [old EXCEPT !.state = "completed", !.result = status]
      OBVIOUS
    <3>3. new \in QueuedJobs
      BY <3>2 DEF QueuedJobs
    <3>4. jobs' = [jobs EXCEPT ![j] = new]
      BY <1>2, <2>2, <3>1, <3>2
    <3> QED
      BY <1>2, <3>3, <3>4, JobChanges
  <2> QED
    BY <1>9, <2>1, <2>2
<1> QED
  BY <1>2, <1>7, <1>8, <1>9, <1>10, AnswerKeeps

\* Dead letters are queued again and the replays counted.
LEMMA ReplayKeeps ==
  ASSUME BudgetIInv, NEW o \in BudgetOperators, ReplayDeadLetterJobs(o)
  PROVE  BudgetIInv'
<1>1. PICK g : g = asking[o].at
  OBVIOUS
<1>2. g \in Contexts /\ Entry(ledger[g]) /\ jobs \in Seq(QueuedJobs)
  BY <1>1, AskedOfContext DEF ReplayDeadLetterJobs
<1>3. PICK e : e = ledger[g]
  OBVIOUS
<1>4. PICK r : ledger' = [ledger EXCEPT ![g].replays = r]
  BY <1>1 DEF ReplayDeadLetterJobs, BudgetAnswer
<1>5. PICK x : x = [e EXCEPT !.replays = r]
  OBVIOUS
<1>6. "parts" \in DOMAIN x /\ x.parts = ledger[g].parts
  BY <1>2, <1>3, <1>5 DEF Entry
<1>7. ledger' = [ledger EXCEPT ![g] = x]
  BY <1>3, <1>4, <1>5
<1>8. /\ asking' = [asking EXCEPT ![o] = Free]
      /\ UNCHANGED <<budget, connectors, executing, clock>>
  BY DEF ReplayDeadLetterJobs, BudgetAnswer
<1>9. PICK back : jobs' = [j \in DOMAIN jobs |->
                             IF j \in back THEN [jobs[j] EXCEPT !.state = "queued", !.lease = 0]
                             ELSE jobs[j]]
  BY <1>1 DEF ReplayDeadLetterJobs, BudgetAnswer
<1>10. ASSUME NEW j \in DOMAIN jobs
       PROVE  jobs'[j] \in QueuedJobs
  <2>1. PICK old \in QueuedJobs : old = jobs[j]
    BY <1>2
  <2>2. PICK new : new = [old EXCEPT !.state = "queued", !.lease = 0]
    OBVIOUS
  <2>3. new \in QueuedJobs
    BY <2>2 DEF QueuedJobs
  <2>4. jobs'[j] \in {old, new}
    BY <1>9, <2>1, <2>2
  <2> QED
    BY <2>3, <2>4
<1>11. jobs' \in [1..Len(jobs) -> QueuedJobs] /\ Len(jobs) \in Nat
  <2>1. jobs' = [j \in DOMAIN jobs |-> jobs'[j]]
    BY <1>9
  <2>2. DOMAIN jobs = 1..Len(jobs) /\ Len(jobs) \in Nat
    BY <1>2
  <2> QED
    BY <1>10, <2>1, <2>2
<1>12. jobs' \in Seq(QueuedJobs) /\ DOMAIN jobs \subseteq DOMAIN jobs'
  BY <1>2, <1>11
<1> QED
  BY <1>2, <1>6, <1>7, <1>8, <1>12, AnswerKeeps

\* What is left alone where neither a thread nor an account moves.
LEMMA OthersKeep ==
  ASSUME BudgetIInv, UNCHANGED <<budget, ledger, executing>>,
         \/ \E j \in DOMAIN jobs : RequeueExpiredLease(j)
         \/ \E o \in BudgetOperators :
              \/ \E r \in PlainRoutes : EnforceFeatureEntitlement(o, r, 0, 0)
              \/ \E r \in JobRoutes, j \in DOMAIN jobs :
                   EnforceFeatureEntitlement(o, r, j, jobs[j].lease)
              \/ NotEntitled(o)
         \/ EvictConnector \/ PassSecond
  PROVE  BudgetIInv'
<1>1. /\ DOMAIN ledger' = Contexts
      /\ \A g \in Contexts : "parts" \in DOMAIN ledger'[g] /\ ledger'[g].parts = ledger[g].parts
  BY DEF BudgetIInv, BudgetTyped, LedgerTyped, Entry
<1>2. connectors \in Contexts /\ clock \in Nat /\ jobs \in Seq(QueuedJobs) /\ AskingTyped
  BY DEF BudgetIInv, BudgetTyped
<1>3. ASSUME NEW j \in DOMAIN jobs, RequeueExpiredLease(j)
      PROVE  BudgetIInv'
  <2>1. PICK old \in QueuedJobs : old = jobs[j]
    BY <1>2
  <2>2. PICK to \in {"dead", "queued"} : jobs' = [jobs EXCEPT ![j].state = to]
    BY <1>3 DEF RequeueExpiredLease
  <2>3. PICK new : new = [old EXCEPT !.state = to]
    OBVIOUS
  <2>4. new \in QueuedJobs
    BY <2>3 DEF QueuedJobs
  <2>5. jobs' = [jobs EXCEPT ![j] = new]
    BY <2>1, <2>2, <2>3
  <2>6. jobs' \in Seq(QueuedJobs) /\ DOMAIN jobs' = DOMAIN jobs
    BY <2>4, <2>5, JobChanges
  <2>7. AskingTyped' /\ UNCHANGED <<connectors, clock>>
    BY <1>2, <1>3, <2>6 DEF AskingTyped, RequeueExpiredLease
  <2> QED
    BY <1>1, <1>2, <2>6, <2>7, BudgetUntouched
<1>4. ASSUME NEW o \in BudgetOperators,
             NEW r \in PlainRoutes \cup JobRoutes, NEW j, NEW lease,
             r \in JobRoutes => j \in DOMAIN jobs, EnforceFeatureEntitlement(o, r, j, lease)
      PROVE  BudgetIInv'
  <2>1. PICK new : new = [state |-> r, at |-> connectors, job |-> j, lease |-> lease]
    OBVIOUS
  <2>2. new.state = r /\ new.at = connectors /\ new.job = j
    BY <2>1
  <2>3. asking' = [asking EXCEPT ![o] = new] /\ UNCHANGED <<connectors, clock, jobs>>
    BY <1>4, <2>1 DEF EnforceFeatureEntitlement
  <2>4. AskingTyped'
    BY <1>2, <1>4, <2>2, <2>3 DEF AskingTyped, PlainRoutes, JobRoutes
  <2> QED
    BY <1>1, <1>2, <2>3, <2>4, BudgetUntouched
<1>5. ASSUME NEW o \in BudgetOperators, NotEntitled(o)
      PROVE  BudgetIInv'
  <2>1. asking' = [asking EXCEPT ![o] = Free] /\ UNCHANGED <<connectors, clock, jobs>>
    BY <1>5 DEF NotEntitled
  <2> QED
    BY <1>2, <2>1, AnswerKeeps
<1>6. CASE EvictConnector
  <2>1. connectors' \in Contexts /\ UNCHANGED <<clock, jobs, asking>>
    BY <1>2, <1>6, BudgetAssumption DEF EvictConnector, Contexts
  <2>2. AskingTyped'
    BY <1>2, <2>1 DEF AskingTyped
  <2> QED
    BY <1>1, <1>2, <2>1, <2>2, BudgetUntouched
<1>7. CASE PassSecond
  <2>1. clock' \in Nat /\ UNCHANGED <<connectors, jobs, asking>>
    BY <1>2, <1>7 DEF PassSecond
  <2>2. AskingTyped'
    BY <1>2, <2>1 DEF AskingTyped
  <2> QED
    BY <1>1, <1>2, <2>1, <2>2, BudgetUntouched
<1>8. ASSUME NEW o \in BudgetOperators,
             \/ \E r \in PlainRoutes : EnforceFeatureEntitlement(o, r, 0, 0)
             \/ \E r \in JobRoutes, j \in DOMAIN jobs :
                  EnforceFeatureEntitlement(o, r, j, jobs[j].lease)
      PROVE  BudgetIInv'
  <2>1. \A r \in PlainRoutes : r \notin JobRoutes
    BY DEF PlainRoutes, JobRoutes
  <2>2. CASE \E r \in PlainRoutes : EnforceFeatureEntitlement(o, r, 0, 0)
    BY <1>4, <2>1, <2>2
  <2>3. CASE \E r \in JobRoutes, j \in DOMAIN jobs :
               EnforceFeatureEntitlement(o, r, j, jobs[j].lease)
    <3>1. PICK r \in JobRoutes, j \in DOMAIN jobs :
                 EnforceFeatureEntitlement(o, r, j, jobs[j].lease)
      BY <2>3
    <3>2. PICK lease : lease = jobs[j].lease
      OBVIOUS
    <3> QED
      BY <1>4, <3>1, <3>2
  <2> QED
    BY <1>8, <2>2, <2>3
<1> QED
  BY <1>3, <1>5, <1>6, <1>7, <1>8

\* However many threads execute tools, however the windows turn over, and whatever operators and
\* workers ask in between, a partition whose limit is enforced is overspent by no more than the
\* dearest charge of every thread: the calls that passed the check before one of them was charged.
THEOREM OverspendIsBounded == BudgetSpec => []OverspendBounded
<1>1. BudgetInit => BudgetIInv
  <2> SUFFICES ASSUME BudgetInit
               PROVE  BudgetIInv
    OBVIOUS
  <2>1. connectors \in Contexts /\ clock \in Nat /\ jobs \in Seq(QueuedJobs)
    BY BudgetAssumption DEF BudgetInit, Contexts
  <2>2. PICK acc : acc = [total |-> 0, window |-> NoWindow]
    OBVIOUS
  <2>3. acc \in Accounts /\ acc.total = 0 /\ acc.window.cost = 0
    BY <2>2 DEF Accounts, Windows, NoWindow
  <2>4. "parts" \in DOMAIN NewLedger /\ NewLedger.parts = [k \in Partitions |-> acc]
    BY <2>2 DEF NewLedger
  <2>5. LedgerTyped
    BY <2>3, <2>4 DEF BudgetInit, LedgerTyped, Entry, Contexts
  <2>6. ExecutingTyped /\ AskingTyped
    BY ThreadKinds DEF BudgetInit, ExecutingTyped, AskingTyped
  <2>7. RoomLeft
    <3> SUFFICES ASSUME NEW g \in Contexts, NEW k \in Partitions, PartitionLimit(k) > 0
                 PROVE  Spent(g, k) + Cardinality(InFlightCalls(g, k)) * DearestCost
                          < PartitionLimit(k) + Cardinality(BudgetThreads) * DearestCost
      BY DEF RoomLeft
    <3>1. Spent(g, k) = 0
      BY <2>3, <2>4 DEF BudgetInit, Spent, Contexts
    <3>2. PICK c, n, d, l : /\ c = Cardinality(InFlightCalls(g, k)) /\ d = DearestCost
                            /\ n = Cardinality(BudgetThreads) /\ l = PartitionLimit(k)
      OBVIOUS
    <3>3. c \in Nat /\ n \in Nat /\ d \in Nat /\ l \in Nat /\ c <= n /\ l > 0
      BY <3>2, DearestIsMost, InFlightCounted, LimitsAreNumbers
    <3>4. c * d <= n * d /\ c * d \in Nat /\ n * d \in Nat
      BY <3>3, FewerCostLess
    <3> QED
      BY <3>1, <3>2, <3>3, <3>4
  <2> QED
    BY <2>1, <2>5, <2>6, <2>7 DEF BudgetIInv, BudgetTyped
<1>2. BudgetIInv /\ [BudgetNext]_budgetVars => BudgetIInv'
  <2> SUFFICES ASSUME BudgetIInv, [BudgetNext]_budgetVars
               PROVE  BudgetIInv'
    OBVIOUS
  <2>1. CASE UNCHANGED budgetVars
    <3>1. UNCHANGED <<budget, connectors, ledger, jobs, executing, asking, clock>>
      BY <2>1 DEF budgetVars
    <3>2. /\ connectors' \in Contexts /\ clock' \in Nat /\ jobs' \in Seq(QueuedJobs)
          /\ DOMAIN jobs \subseteq DOMAIN jobs' /\ DOMAIN ledger' = Contexts
          /\ \A g \in Contexts : "parts" \in DOMAIN ledger'[g] /\ ledger'[g].parts = ledger[g].parts
      BY <3>1 DEF BudgetIInv, BudgetTyped, LedgerTyped, Entry
    <3>3. AskingTyped'
      BY <3>1 DEF BudgetIInv, BudgetTyped, AskingTyped
    <3> QED
      BY <3>1, <3>2, <3>3, BudgetUntouched
  <2>2. ASSUME NEW t \in BudgetThreads,
               \/ \E call \in CallKinds : CheckBudget(t, call)
               \/ SlotTimeout(t) \/ QueueJob(t) \/ MapResult(t) \/ TimeoutResult(t)
        PROVE  BudgetIInv'
    BY <2>2, CheckBudgetKeeps, SlotTimeoutKeeps, QueueJobKeeps, ResultsKeep
  <2>3. ASSUME NEW o \in BudgetOperators,
               \/ ReadFigures(o) \/ ClaimNextJob(o)
               \/ \E status \in DOMAIN Costs, wrong \in {"none", "tenant", "artifact"} :
                    IngestResultAfterAuth(o, status, wrong)
               \/ RequestCancellation(o) \/ ReplayDeadLetterJobs(o)
        PROVE  BudgetIInv'
    BY <2>3, ReadFiguresKeeps, ClaimAndCancelKeep, IngestKeeps, ReplayKeeps
  <2>4. CASE \/ \E j \in DOMAIN jobs : RequeueExpiredLease(j)
             \/ \E o \in BudgetOperators :
                  \/ \E r \in PlainRoutes : EnforceFeatureEntitlement(o, r, 0, 0)
                  \/ \E r \in JobRoutes, j \in DOMAIN jobs :
                       EnforceFeatureEntitlement(o, r, j, jobs[j].lease)
                  \/ NotEntitled(o)
             \/ EvictConnector \/ PassSecond
    <3>1. UNCHANGED <<budget, ledger, executing>>
      BY <2>4 DEF RequeueExpiredLease, EnforceFeatureEntitlement, NotEntitled, EvictConnector,
                  PassSecond
    <3> QED
      BY <2>4, <3>1, OthersKeep
  <2> QED
    BY <2>1, <2>2, <2>3, <2>4 DEF BudgetNext
<1>3. BudgetIInv => OverspendBounded
  <2> SUFFICES ASSUME BudgetIInv, budget.enforce, NEW g \in 1..connectors, NEW k \in Partitions,
                      PartitionLimit(k) > 0
               PROVE  Spent(g, k)
                        <= PartitionLimit(k) - 1 + Cardinality(BudgetThreads) * DearestCost
    BY DEF OverspendBounded, Spent
  <2>1. g \in Contexts
    BY BudgetAssumption DEF BudgetIInv, BudgetTyped, Contexts
  <2>2. Spent(g, k) + Cardinality(InFlightCalls(g, k)) * DearestCost
          < PartitionLimit(k) + Cardinality(BudgetThreads) * DearestCost
    BY <2>1 DEF BudgetIInv, RoomLeft
  <2>3. PICK s, c, n, d, l : /\ c = Cardinality(InFlightCalls(g, k)) /\ d = DearestCost
                             /\ n = Cardinality(BudgetThreads) /\ l = PartitionLimit(k)
                             /\ s = Spent(g, k)
    OBVIOUS
  <2>4. s \in Nat /\ c \in Nat /\ n \in Nat /\ d \in Nat /\ l \in Nat
    BY <2>1, <2>3, DearestIsMost, InFlightCounted, LimitsAreNumbers, SpentIsNumber
       DEF BudgetIInv, BudgetTyped
  <2>5. c * d \in Nat /\ n * d \in Nat
    BY <2>4
  <2> QED
    BY <2>2, <2>3, <2>4, <2>5
<1> QED
  BY <1>1, <1>2, <1>3, PTL DEF BudgetSpec

-----------------------------------------------------------------------------
(* Sessions: a cached runtime has its context and may go on.               *)

Distinct(seq) == \A i, j \in 1..Len(seq) : seq[i] = seq[j] => i = j

\* The rank numbers a finite set of positions from 1 up, each number once.
LEMMA RankNumbers ==
  ASSUME NEW n \in Nat, NEW positions \in SUBSET (1..n)
  PROVE  /\ Cardinality(positions) \in 0..n
         /\ \A i \in positions : Rank(positions, i) \in 1..Cardinality(positions)
         /\ \A i, j \in positions : Rank(positions, i) = Rank(positions, j) => i = j
         /\ \A k \in 1..Cardinality(positions) : \E i \in positions : Rank(positions, i) = k
<1>1. IsFiniteSet(1..n) /\ Cardinality(1..n) = n
  BY FS_Interval
<1>2. IsFiniteSet(positions) /\ Cardinality(positions) \in Nat /\ Cardinality(positions) <= n
  BY <1>1, FS_Subset, FS_CardinalityType
<1>3. PICK c \in Nat : c = Cardinality(positions)
  BY <1>2
<1>4. \A i \in positions : Rank(positions, i) \in 1..c
  <2>1. TAKE i \in positions
  <2>2. PICK S : S = {j \in positions : j <= i}
    OBVIOUS
  <2>3. i \in S /\ S \in SUBSET positions
    BY <2>2
  <2>4. IsFiniteSet(S) /\ Cardinality(S) \in Nat /\ Cardinality(S) <= c
    BY <1>2, <1>3, <2>3, FS_Subset, FS_CardinalityType
  <2>5. Cardinality(S) # 0
    BY <2>3, <2>4, FS_EmptySet
  <2> QED BY <2>2, <2>4, <2>5 DEF Rank
<1>5. ASSUME NEW i \in positions, NEW j \in positions, i < j
      PROVE  Rank(positions, i) < Rank(positions, j)
  <2>1. PICK S, T : S = {k \in positions : k <= i} /\ T = {k \in positions : k <= j}
    OBVIOUS
  <2>a. \A k \in positions : k \in Nat
    OBVIOUS
  <2>b. \A k \in positions : k <= i => k <= j
    BY <1>5, <2>a
  <2>c. j <= j /\ ~(j <= i)
    BY <1>5, <2>a
  <2>d. S \in SUBSET T
    BY <2>1, <2>b
  <2>e. j \in T /\ j \notin S
    BY <2>1, <2>c
  <2>2. S \in SUBSET T /\ j \in T /\ j \notin S /\ T \in SUBSET positions
    BY <2>1, <2>d, <2>e
  <2>3. IsFiniteSet(T) /\ Cardinality(T) \in Nat
    BY <1>2, <2>2, FS_Subset, FS_CardinalityType
  <2>4. Cardinality(S) <= Cardinality(T) /\ Cardinality(S) # Cardinality(T) /\ Cardinality(S) \in Nat
    BY <2>2, <2>3, FS_Subset, FS_CardinalityType
  <2> QED BY <2>1, <2>3, <2>4 DEF Rank
<1>6. \A i, j \in positions : Rank(positions, i) = Rank(positions, j) => i = j
  <2>1. SUFFICES ASSUME NEW i \in positions, NEW j \in positions, Rank(positions, i) = Rank(positions, j), i # j
                 PROVE  FALSE
    OBVIOUS
  <2>2. i < j \/ j < i
    BY <2>1
  <2> QED BY <1>4, <1>5, <2>1, <2>2
<1>7. PICK f : f = [i \in positions |-> Rank(positions, i)]
  OBVIOUS
<1>8. f \in Injection(positions, 1..c)
  BY <1>4, <1>6, <1>7 DEF Injection, IsInjective
<1>9. IsFiniteSet(1..c) /\ Cardinality(1..c) = c
  BY FS_Interval
<1>10. f \in Surjection(positions, 1..c)
  BY <1>3, <1>8, <1>9, FS_Injection
<1>11. \A k \in 1..c : \E i \in positions : f[i] = k
  BY <1>10 DEF Surjection
<1> QED BY <1>2, <1>3, <1>4, <1>6, <1>7, <1>11

\* What the filter of a sequence keeps.
LEMMA KeptIs ==
  ASSUME NEW A, NEW seq \in Seq(A), NEW S
  PROVE  /\ Kept(seq, S) \in Seq(A)
         /\ Entries(Kept(seq, S)) = Entries(seq) \cap S
         /\ Len(Kept(seq, S)) = Cardinality(Places(seq, S))
         /\ Len(Kept(seq, S)) <= Len(seq)
         /\ Distinct(seq) => Distinct(Kept(seq, S))
<1>1. PICK positions, n : positions = Places(seq, S) /\ n = Len(seq)
  OBVIOUS
<1>2. n \in Nat /\ positions \in SUBSET (1..n) /\ \A i \in 1..n : seq[i] \in A
  BY <1>1 DEF Places
<1>3. PICK c : c = Cardinality(positions)
  OBVIOUS
<1>4. /\ c \in 0..n
      /\ \A i \in positions : Rank(positions, i) \in 1..c
      /\ \A i, j \in positions : Rank(positions, i) = Rank(positions, j) => i = j
      /\ \A k \in 1..c : \E i \in positions : Rank(positions, i) = k
  BY <1>2, <1>3, RankNumbers
<1>5. PICK g : g = [k \in 1..c |-> CHOOSE i \in positions : Rank(positions, i) = k]
  OBVIOUS
<1>6. \A k \in 1..c : g[k] \in positions /\ Rank(positions, g[k]) = k
  BY <1>4, <1>5
<1>7. \A i \in positions : g[Rank(positions, i)] = i
  BY <1>4, <1>6
<1>8. PICK kept : kept = Kept(seq, S)
  OBVIOUS
<1>9. kept = [k \in 1..c |-> seq[g[k]]]
  BY <1>1, <1>3, <1>5, <1>8 DEF Kept
<1>10. \A k \in 1..c : kept[k] = seq[g[k]] /\ g[k] \in 1..n /\ seq[g[k]] \in A
  BY <1>2, <1>6, <1>9
<1>11. kept \in [1..c -> A]
  BY <1>9, <1>10
<1>12. kept \in Seq(A) /\ Len(kept) = c
  BY <1>4, <1>11
<1>13. Entries(kept) = Entries(seq) \cap S
  <2>1. ASSUME NEW x \in Entries(kept)
        PROVE  x \in Entries(seq) \cap S
    <3>1. PICK k \in 1..c : x = kept[k]
      BY <1>12, <2>1 DEF Entries
    <3>2. x = seq[g[k]] /\ g[k] \in positions
      BY <1>6, <1>10, <3>1
    <3> QED BY <1>1, <3>2 DEF Entries, Places
  <2>2. ASSUME NEW x \in Entries(seq) \cap S
        PROVE  x \in Entries(kept)
    <3>1. PICK i \in 1..n : x = seq[i]
      BY <1>1, <2>2 DEF Entries
    <3>2. i \in positions
      BY <1>1, <2>2, <3>1 DEF Places
    <3>3. PICK k \in 1..c : g[k] = i
      BY <1>4, <1>7, <3>2
    <3> QED BY <1>10, <1>12, <3>1, <3>3 DEF Entries
  <2> QED BY <2>1, <2>2
<1>14. ASSUME Distinct(seq)
       PROVE  Distinct(kept)
  <2>1. SUFFICES ASSUME NEW k \in 1..c, NEW m \in 1..c, kept[k] = kept[m]
                 PROVE  k = m
    BY <1>12 DEF Distinct
  <2>2. g[k] = g[m]
    BY <1>1, <1>10, <1>14, <2>1 DEF Distinct
  <2> QED BY <1>6, <2>1, <2>2
<1> QED BY <1>1, <1>3, <1>4, <1>8, <1>12, <1>13, <1>14

\* An entry that is touched moves to the end, and a new one is added there.
LEMMA TouchedIs ==
  ASSUME NEW A, NEW seq \in Seq(A), NEW x \in A
  PROVE  /\ Touched(seq, x) \in Seq(A)
         /\ Entries(Touched(seq, x)) = Entries(seq) \cup {x}
         /\ Len(Touched(seq, x)) <= Len(seq) + 1
         /\ Distinct(seq) => /\ Distinct(Touched(seq, x))
                             /\ x \in Entries(seq) => Len(Touched(seq, x)) = Len(seq)
<1>1. PICK kept : kept = Kept(seq, Entries(seq) \ {x})
  OBVIOUS
<1>2. /\ kept \in Seq(A)
      /\ Entries(kept) = Entries(seq) \ {x}
      /\ Len(kept) = Cardinality(Places(seq, Entries(seq) \ {x}))
      /\ Len(kept) <= Len(seq)
      /\ Distinct(seq) => Distinct(kept)
  BY <1>1, KeptIs
<1>3. PICK new : new = Touched(seq, x)
  OBVIOUS
<1>4. new = Append(kept, x)
  BY <1>1, <1>3 DEF Touched
<1>5. new \in Seq(A) /\ Len(new) = Len(kept) + 1 /\ new[Len(kept) + 1] = x
  BY <1>2, <1>4
<1>6. \A i \in 1..Len(kept) : new[i] = kept[i]
  BY <1>2, <1>4
<1>7. Entries(new) = Entries(kept) \cup {x}
  <2>1. Len(kept) \in Nat
    BY <1>2
  <2> QED BY <1>5, <1>6, <2>1 DEF Entries
<1>8. ASSUME Distinct(seq)
      PROVE  /\ Distinct(new)
             /\ x \in Entries(seq) => Len(new) = Len(seq)
  <2>1. Distinct(kept) /\ \A i \in 1..Len(kept) : kept[i] # x
    BY <1>2, <1>8 DEF Entries
  <2>2. Distinct(new)
    <3>1. Len(kept) \in Nat
      BY <1>2
    <3>2. \A i \in 1..Len(new) : i \in 1..Len(kept) \/ i = Len(kept) + 1
      BY <1>5, <3>1
    <3> QED BY <1>5, <1>6, <2>1, <3>1, <3>2 DEF Distinct
  <2>3. ASSUME x \in Entries(seq)
        PROVE  Len(new) = Len(seq)
    <3>0. PICK n \in Nat : n = Len(seq)
      OBVIOUS
    <3>1. PICK m \in 1..n : n = Len(seq) /\ x = seq[m]
      BY <2>3, <3>0 DEF Entries
    <3>2. Places(seq, Entries(seq) \ {x}) = (1..n) \ {m}
      BY <1>8, <3>1 DEF Places, Entries, Distinct
    <3>3. IsFiniteSet(1..n) /\ Cardinality(1..n) = n
      BY FS_Interval
    <3>4. Cardinality((1..n) \ {m}) = n - 1
      BY <3>1, <3>3, FS_RemoveElement
    <3>5. Len(kept) = n - 1
      BY <1>2, <3>2, <3>4, Zenon
    <3> QED BY <1>5, <3>1, <3>5
  <2> QED BY <2>2, <2>3
<1> QED BY <1>2, <1>3, <1>5, <1>7, <1>8

\* What is left of a sequence when its front is dropped.
LEMMA BackIs ==
  ASSUME NEW A, NEW seq \in Seq(A), NEW k \in 0..Len(seq)
  PROVE  /\ SubSeq(seq, k + 1, Len(seq)) \in Seq(A)
         /\ Entries(SubSeq(seq, k + 1, Len(seq))) \subseteq Entries(seq)
         /\ Len(SubSeq(seq, k + 1, Len(seq))) = Len(seq) - k
         /\ Distinct(seq) => Distinct(SubSeq(seq, k + 1, Len(seq)))
<1>1. PICK n \in Nat : n = Len(seq)
  OBVIOUS
<1>2. \A i \in (k + 1)..n : seq[i] \in A
  BY <1>1
<1>3. PICK back : back = SubSeq(seq, k + 1, n)
  OBVIOUS
<1>4. k + 1 \in Int /\ n \in Int
  BY <1>1
<1>5. /\ back \in Seq(A)
      /\ Len(back) = IF k + 1 <= n THEN n - (k + 1) + 1 ELSE 0
      /\ \A i \in 1..(n - (k + 1) + 1) : back[i] = seq[k + 1 + i - 1]
  BY <1>2, <1>3, <1>4, SubSeqProperties
<1>6. Len(back) = n - k
  BY <1>1, <1>5
<1>7. \A i \in 1..(n - k) : back[i] = seq[k + i] /\ k + i \in 1..n
  BY <1>1, <1>5
<1>8. Entries(back) \subseteq Entries(seq)
  BY <1>1, <1>6, <1>7 DEF Entries
<1>9. Distinct(seq) => Distinct(back)
  BY <1>1, <1>6, <1>7 DEF Distinct
<1> QED BY <1>1, <1>3, <1>5, <1>6, <1>8, <1>9


SessionStates == {"none", "active", "cancelled"}
RemovalSteps == {"none", "count", "counted", "drain", "drained", "recount", "recounted"}
Removals == [pc : RemovalSteps, drain : BOOLEAN, found : BOOLEAN]
Identities == [tenant : SessionTenants, provider : Providers] \cup {NotCreated}

SessionCaches ==
  /\ lru \in Seq(Sids) /\ Distinct(lru) /\ Len(lru) <= MaxCached
  /\ contexts \in Seq(SessionTenants) /\ Distinct(contexts) /\ Len(contexts) <= MaxContexts
  /\ with_agent \subseteq CachedContexts

SessionTables ==
  /\ session \in [Sids -> Identities] /\ row \in [Sids -> SessionStates]
  /\ saving \subseteq Sids
  /\ \A s \in Sids : session[s] = NotCreated => row[s] = "none" /\ s \notin saving \cup Cached
  /\ provider_rows \cup checking \subseteq Providers
  /\ removal \in [Providers -> Removals]

SessionsInv == SessionCaches /\ SessionTables /\ RuntimesAreLive

\* What the proofs use of the bounds of the caches.
LEMMA SessionBounds ==
  /\ MaxSessions \in Nat \ {0} /\ MaxCached \in Nat \ {0} /\ MaxContexts \in Nat \ {0}
  /\ "none" \notin Providers
BY SessionsAssumption DEF SessionsAssumption

\* The invariant holds at the start.
LEMMA SessionsInitKeeps == SessionsInit => SessionsInv
<1>1. SUFFICES ASSUME SessionsInit
               PROVE  SessionsInv
  OBVIOUS
<1>2. Cached = {} /\ CachedContexts = {}
  BY <1>1 DEF SessionsInit, Cached, CachedContexts, Entries
<1>3. SessionCaches
  BY <1>1, <1>2, SessionBounds DEF SessionsInit, SessionCaches, Distinct
<1>4. NoRemoval \in Removals
  BY DEF NoRemoval, Removals, RemovalSteps
<1>5. SessionTables
  BY <1>1, <1>2, <1>4 DEF SessionsInit, SessionTables, Identities, SessionStates
<1> QED BY <1>2, <1>3, <1>5 DEF SessionsInv, RuntimesAreLive, CachedHasContext, DrainedIsEvicted

\* get_or_create: the context that is asked for is there, with those that were not victims.
LEMMA GetOrCreateKeeps ==
  ASSUME NEW t \in SessionTenants, SessionCaches, GetOrCreate(t)
  PROVE  /\ contexts' \in Seq(SessionTenants) /\ Distinct(contexts') /\ Len(contexts') <= MaxContexts
         /\ CachedContexts' = (CachedContexts \ Victims(t)) \cup {t}
         /\ with_agent' \subseteq CachedContexts'
<1>1. PICK kept : kept = Kept(contexts, CachedContexts \ Victims(t))
  OBVIOUS
<1>2. contexts \in Seq(SessionTenants) /\ Distinct(contexts) /\ Len(contexts) <= MaxContexts
  BY DEF SessionCaches
<1>3. /\ kept \in Seq(SessionTenants)
      /\ Entries(kept) = CachedContexts \ Victims(t)
      /\ Len(kept) = Cardinality(Places(contexts, CachedContexts \ Victims(t)))
      /\ Len(kept) <= Len(contexts)
      /\ Distinct(kept)
  BY <1>1, <1>2, KeptIs DEF CachedContexts
<1>4. contexts' = Touched(kept, t)
  BY <1>1 DEF GetOrCreate
<1>5. /\ contexts' \in Seq(SessionTenants)
      /\ Entries(contexts') = Entries(kept) \cup {t}
      /\ Len(contexts') <= Len(kept) + 1
      /\ Distinct(contexts')
      /\ t \in Entries(kept) => Len(contexts') = Len(kept)
  BY <1>3, <1>4, TouchedIs
<1>6. Len(contexts') <= MaxContexts
  <2>1. CASE t \in CachedContexts
    <3>1. t \in Entries(kept)
      BY <1>3, <2>1 DEF Victims
    <3> QED BY <1>2, <1>3, <1>5, <3>1, SessionBounds
  <2>2. CASE t \notin CachedContexts
    <3>1. PICK n \in Nat, m \in Nat : n = Len(contexts) /\ m = MaxContexts
      BY <1>2, SessionBounds
    <3>2. n <= m /\ m # 0
      BY <1>2, <3>1, SessionBounds
    <3>3. PICK positions : positions = Places(contexts, CachedContexts \ Victims(t))
      OBVIOUS
    <3>4. CASE n < m
      BY <1>3, <1>5, <3>1, <3>4
    <3>5. CASE n = m
      <4>1. \A i \in 1..n : i <= n + 1 - m => contexts[i] \in Victims(t)
        BY <2>2, <3>1 DEF Victims
      <4>2. positions \subseteq 2..n
        BY <3>1, <3>2, <3>3, <3>5, <4>1 DEF Places
      <4>3. Cardinality(2..n) = n - 1 /\ IsFiniteSet(2..n)
        BY <3>2, <3>5, FS_Interval
      <4>4. Cardinality(positions) <= n - 1
        BY <4>2, <4>3, FS_Subset
      <4>5. Len(kept) <= n - 1
        BY <1>3, <3>3, <4>4, Zenon
      <4> QED BY <1>3, <1>5, <3>1, <3>5, <4>5
    <3> QED BY <3>2, <3>4, <3>5
  <2> QED BY <2>1, <2>2
<1>7. with_agent' \subseteq CachedContexts \ Victims(t)
  BY DEF GetOrCreate, BuildContext, SessionCaches
<1> QED BY <1>3, <1>5, <1>6, <1>7 DEF CachedContexts

\* A cache that shrinks: sessions that were cached, each once.
Shrunk(seq) ==
  /\ seq \in Seq(Sids) /\ Distinct(seq) /\ Len(seq) <= Len(lru) /\ Entries(seq) \subseteq Cached

\* Dropping the idle runtimes only removes entries.
LEMMA EvictIdleShrinks ==
  ASSUME SessionCaches, NEW k \in 0..Len(lru)
  PROVE  Shrunk(EvictIdle(k))
<1>1. lru \in Seq(Sids) /\ Distinct(lru) /\ Len(lru) \in Nat
  BY DEF SessionCaches
<1>2. PICK seq : seq = EvictIdle(k)
  OBVIOUS
<1>3. seq \in Seq(Sids) /\ Entries(seq) \subseteq Entries(lru) /\ Len(seq) = Len(lru) - k /\ Distinct(seq)
  BY <1>1, <1>2, BackIs DEF EvictIdle
<1>4. Len(seq) <= Len(lru)
  BY <1>1, <1>3
<1> QED BY <1>2, <1>3, <1>4 DEF Shrunk, Cached

\* Keeping the entries of a set only removes entries, and leaves none outside the set.
LEMMA KeptShrinks ==
  ASSUME SessionCaches, NEW seq, Shrunk(seq), NEW S
  PROVE  Shrunk(Kept(seq, S)) /\ Entries(Kept(seq, S)) \subseteq S
<1>1. seq \in Seq(Sids) /\ Distinct(seq) /\ Len(seq) <= Len(lru) /\ Entries(seq) \subseteq Cached
  BY DEF Shrunk
<1>2. PICK kept : kept = Kept(seq, S)
  OBVIOUS
<1>3. kept \in Seq(Sids) /\ Entries(kept) = Entries(seq) \cap S /\ Len(kept) <= Len(seq) /\ Distinct(kept)
  BY <1>1, <1>2, KeptIs
<1>4. Len(kept) <= Len(lru)
  BY <1>1, <1>3 DEF SessionCaches
<1> QED BY <1>1, <1>2, <1>3, <1>4 DEF Shrunk

\* destroy leaves no session of a victim.
LEMMA DestroyShrinks ==
  ASSUME SessionCaches, NEW seq, Shrunk(seq), NEW victims
  PROVE  /\ Shrunk(Destroy(seq, victims))
         /\ \A s \in Entries(Destroy(seq, victims)) : session[s].tenant \notin victims
<1>1. PICK S : S = {s \in Sids : session[s].tenant \notin victims}
  OBVIOUS
<1>2. Destroy(seq, victims) = Kept(seq, S)
  BY <1>1 DEF Destroy
<1>3. Shrunk(Kept(seq, S)) /\ Entries(Kept(seq, S)) \subseteq S
  BY KeptShrinks
<1> QED BY <1>1, <1>2, <1>3

\* There is room for one more.
LEMMA EvictLruShrinks ==
  ASSUME SessionCaches, NEW seq, Shrunk(seq)
  PROVE  /\ Shrunk(EvictLru(seq)) /\ Len(EvictLru(seq)) < MaxCached
         /\ Entries(EvictLru(seq)) \subseteq Entries(seq)
<1>1. seq \in Seq(Sids) /\ Distinct(seq) /\ Len(seq) <= Len(lru) /\ Entries(seq) \subseteq Cached
  BY DEF Shrunk
<1>2. Len(seq) \in Nat /\ Len(lru) \in Nat /\ Len(lru) <= MaxCached /\ MaxCached \in Nat \ {0}
  BY <1>1, SessionBounds DEF SessionCaches
<1>3. CASE Len(seq) < MaxCached
  BY <1>3 DEF EvictLru
<1>4. CASE ~(Len(seq) < MaxCached)
  <2>1. PICK k : k = Len(seq) - MaxCached + 1
    OBVIOUS
  <2>2. k \in 0..Len(seq) /\ Len(seq) - MaxCached + 2 = k + 1 /\ Len(seq) - k < MaxCached
    BY <1>2, <1>4, <2>1
  <2>3. PICK back : back = SubSeq(seq, k + 1, Len(seq))
    OBVIOUS
  <2>4. back \in Seq(Sids) /\ Entries(back) \subseteq Entries(seq) /\ Len(back) = Len(seq) - k /\ Distinct(back)
    BY <1>1, <2>2, <2>3, BackIs
  <2>5. EvictLru(seq) = back
    BY <1>4, <2>2, <2>3 DEF EvictLru
  <2>6. Len(back) <= Len(lru) /\ Len(back) < MaxCached
    BY <1>1, <1>2, <2>2, <2>4
  <2> QED BY <1>1, <2>4, <2>5, <2>6 DEF Shrunk
<1> QED BY <1>3, <1>4

\* Each action of the caches, by what it leaves in them.
LEMMA CachesKeep ==
  ASSUME SessionsInv, NEW t \in SessionTenants, GetOrCreate(t), UNCHANGED <<session, row, saving, provider_rows, checking, removal>>,
         NEW seq, Shrunk(seq), \A s \in Entries(seq) : session[s].tenant \notin Victims(t),
         lru' = seq
  PROVE  SessionsInv'
<1>1. SessionCaches /\ SessionTables /\ CachedHasContext /\ DrainedIsEvicted
  BY DEF SessionsInv, RuntimesAreLive
<1>2. /\ contexts' \in Seq(SessionTenants) /\ Distinct(contexts') /\ Len(contexts') <= MaxContexts
      /\ CachedContexts' = (CachedContexts \ Victims(t)) \cup {t}
      /\ with_agent' \subseteq CachedContexts'
  BY <1>1, GetOrCreateKeeps
<1>3. lru' \in Seq(Sids) /\ Distinct(lru') /\ Len(lru') <= Len(lru) /\ Cached' = Entries(seq) /\ Cached' \subseteq Cached
  BY DEF Shrunk, Cached
<1>4. Len(lru') <= MaxCached
  BY <1>1, <1>3, SessionBounds DEF SessionCaches
<1>5. SessionCaches'
  BY <1>2, <1>3, <1>4 DEF SessionCaches
<1>6. SessionTables'
  BY <1>1, <1>3 DEF SessionTables
<1>7. CachedHasContext'
  BY <1>1, <1>2, <1>3 DEF CachedHasContext
<1>8. DrainedIsEvicted'
  BY <1>1, <1>3 DEF DrainedIsEvicted, Removing
<1> QED BY <1>5, <1>6, <1>7, <1>8 DEF SessionsInv, RuntimesAreLive

\* A request that builds a context, whatever it evicts, keeps the invariant.
LEMMA TenantRequestKeeps ==
  ASSUME SessionsInv, NEW t \in SessionTenants, TenantRequest(t)
  PROVE  SessionsInv'
<1>1. SessionCaches
  BY DEF SessionsInv
<1>2. PICK k \in 0..Len(lru) : lru' = Destroy(EvictIdle(k), Victims(t))
  BY DEF TenantRequest
<1>3. PICK seq : seq = Destroy(EvictIdle(k), Victims(t))
  OBVIOUS
<1>4. Shrunk(seq) /\ \A s \in Entries(seq) : session[s].tenant \notin Victims(t)
  BY <1>1, <1>3, EvictIdleShrinks, DestroyShrinks
<1> QED BY <1>2, <1>3, <1>4, CachesKeep DEF TenantRequest

\* Making room only removes entries, leaves a free place and none of the tenants evicted.
LEMMA MakeRoomShrinks ==
  ASSUME SessionCaches, NEW t \in SessionTenants, NEW k \in 0..Len(lru)
  PROVE  /\ Shrunk(MakeRoom(t, k)) /\ Len(MakeRoom(t, k)) < MaxCached
         /\ \A s \in Entries(MakeRoom(t, k)) : session[s].tenant \notin Victims(t)
<1>1. PICK seq : seq = Destroy(EvictIdle(k), Victims(t))
  OBVIOUS
<1>2. Shrunk(seq) /\ \A s \in Entries(seq) : session[s].tenant \notin Victims(t)
  BY <1>1, EvictIdleShrinks, DestroyShrinks
<1>3. MakeRoom(t, k) = EvictLru(seq)
  BY <1>1 DEF MakeRoom
<1> QED BY <1>2, <1>3, EvictLruShrinks

\* A new session has no row yet, and the context of its tenant has just been touched.
LEMMA CreateSessionKeeps ==
  ASSUME SessionsInv, NEW t \in SessionTenants, NEW p \in Providers, CreateSession(t, p)
  PROVE  SessionsInv'
<1>1. SessionCaches /\ SessionTables /\ CachedHasContext /\ DrainedIsEvicted
  BY DEF SessionsInv, RuntimesAreLive
<1>2. GetOrCreate(t) /\ UNCHANGED <<agent_rows, row, providers, provider_rows, checking, removal>>
  BY DEF CreateSession
<1>3. PICK k \in 0..Len(lru) :
        \/ Assembles(t, p) /\ \E s \in Sids : NewSession(s, t, p, MakeRoom(t, k))
        \/ lru' = MakeRoom(t, k) /\ UNCHANGED <<session, saving>>
  BY DEF CreateSession
<1>4. PICK seq : seq = MakeRoom(t, k)
  OBVIOUS
<1>5. Shrunk(seq) /\ Len(seq) < MaxCached /\ \A s \in Entries(seq) : session[s].tenant \notin Victims(t)
  BY <1>1, <1>4, MakeRoomShrinks
<1>6. CASE lru' = MakeRoom(t, k) /\ UNCHANGED <<session, saving>>
  BY <1>2, <1>4, <1>5, <1>6, CachesKeep
<1>7. ASSUME NEW s \in Sids, NewSession(s, t, p, MakeRoom(t, k))
      PROVE  SessionsInv'
  <2>1. PICK new : new = [tenant |-> t, provider |-> p]
    OBVIOUS
  <2>2. new \in Identities /\ new.tenant = t /\ new.provider = p /\ new # NotCreated
    <3>1. NotCreated.provider = "none"
      BY DEF NotCreated
    <3> QED BY <2>1, <3>1, SessionBounds DEF Identities
  <2>3. session[s] = NotCreated /\ session' = [session EXCEPT ![s] = new]
    BY <1>7, <2>1 DEF NewSession
  <2>4. lru' = Append(seq, s) /\ saving' = saving \cup {s}
    BY <1>4, <1>7 DEF NewSession
  <2>5. session \in [Sids -> Identities] /\ row \in [Sids -> SessionStates] /\ saving \subseteq Sids
    BY <1>1 DEF SessionTables
  <2>6. /\ session' \in [Sids -> Identities] /\ session'[s] = new
        /\ \A r \in Sids \ {s} : session'[r] = session[r]
    BY <2>2, <2>3, <2>5
  <2>7. row[s] = "none" /\ s \notin Cached
    BY <1>1, <2>3 DEF SessionTables
  <2>8. seq \in Seq(Sids) /\ Distinct(seq) /\ Entries(seq) \subseteq Cached /\ Len(seq) \in Nat
    BY <1>5 DEF Shrunk
  <2>9. /\ lru' \in Seq(Sids) /\ Len(lru') = Len(seq) + 1 /\ lru'[Len(seq) + 1] = s
        /\ \A i \in 1..Len(seq) : lru'[i] = seq[i]
    BY <2>4, <2>8
  <2>10. \A i \in 1..Len(lru') : i \in 1..Len(seq) \/ i = Len(seq) + 1
    BY <2>8, <2>9
  <2>11. Cached' = Entries(seq) \cup {s}
    <3>1. Len(seq) + 1 \in 1..Len(lru') /\ \A i \in 1..Len(seq) : i \in 1..Len(lru')
      BY <2>8, <2>9
    <3> QED BY <2>9, <2>10, <3>1 DEF Cached, Entries
  <2>12. Distinct(lru')
    <3>1. \A i \in 1..Len(seq) : seq[i] # s
      BY <2>7, <2>8 DEF Entries
    <3> QED BY <2>8, <2>9, <2>10, <3>1 DEF Distinct
  <2>13. Len(lru') <= MaxCached
    BY <1>5, <2>8, <2>9, SessionBounds
  <2>14. /\ contexts' \in Seq(SessionTenants) /\ Distinct(contexts') /\ Len(contexts') <= MaxContexts
         /\ CachedContexts' = (CachedContexts \ Victims(t)) \cup {t}
         /\ with_agent' \subseteq CachedContexts'
    BY <1>1, <1>2, GetOrCreateKeeps
  <2>15. SessionCaches'
    BY <2>9, <2>12, <2>13, <2>14 DEF SessionCaches
  <2>16. SessionTables'
    <3>1. \A r \in Sids : session'[r] = NotCreated => row'[r] = "none" /\ r \notin saving' \cup Cached'
      BY <1>1, <1>2, <2>2, <2>4, <2>6, <2>8, <2>11 DEF SessionTables
    <3> QED BY <1>1, <1>2, <2>4, <2>5, <2>6, <3>1 DEF SessionTables
  <2>17. CachedHasContext'
    <3>1. SUFFICES ASSUME NEW r \in Cached'
                   PROVE  session'[r].tenant \in CachedContexts'
      BY DEF CachedHasContext
    <3>2. CASE r = s
      BY <2>2, <2>6, <2>14, <3>2
    <3>3. CASE r # s
      <4>1. r \in Entries(seq) /\ r \in Cached
        BY <2>8, <2>11, <3>1, <3>3
      <4>2. session'[r] = session[r]
        BY <2>6, <3>3, <4>1, <1>1 DEF SessionCaches, Cached, Entries
      <4> QED BY <1>1, <1>5, <2>14, <4>1, <4>2 DEF CachedHasContext
    <3> QED BY <3>2, <3>3
  <2>18. DrainedIsEvicted'
    BY <1>1, <1>2, <2>6, <2>7, <2>8, <2>11 DEF DrainedIsEvicted, Removing
  <2> QED BY <2>15, <2>16, <2>17, <2>18 DEF SessionsInv, RuntimesAreLive
<1> QED BY <1>3, <1>6, <1>7

\* The use of a session, with the runtimes it drops and adds, keeps the invariant.
LEMMA UseSessionKeeps ==
  ASSUME SessionsInv, NEW s \in Sids, UseSession(s)
  PROVE  SessionsInv'
<1>1. SessionCaches /\ SessionTables /\ CachedHasContext /\ DrainedIsEvicted
  BY DEF SessionsInv, RuntimesAreLive
<1>2. UNCHANGED <<contexts, with_agent, session, row, saving, provider_rows, checking, removal>>
  BY DEF UseSession
<1>3. PICK k \in 0..Len(lru) :
        lru' = IF s \in Entries(EvictIdle(k)) THEN Touched(EvictIdle(k), s) ELSE EvictIdle(k)
  BY DEF UseSession
<1>4. PICK kept : kept = EvictIdle(k)
  OBVIOUS
<1>5. kept \in Seq(Sids) /\ Distinct(kept) /\ Len(kept) <= Len(lru) /\ Entries(kept) \subseteq Cached
  BY <1>1, <1>4, EvictIdleShrinks DEF Shrunk
<1>6. lru' \in Seq(Sids) /\ Distinct(lru') /\ Len(lru') = Len(kept) /\ Entries(lru') = Entries(kept)
  <2>1. CASE s \in Entries(kept)
    <3>1. lru' = Touched(kept, s)
      BY <1>3, <1>4, <2>1
    <3>2. /\ Touched(kept, s) \in Seq(Sids)
          /\ Entries(Touched(kept, s)) = Entries(kept) \cup {s}
          /\ Distinct(Touched(kept, s))
          /\ Len(Touched(kept, s)) = Len(kept)
      BY <1>5, <2>1, TouchedIs
    <3> QED BY <2>1, <3>1, <3>2
  <2>2. CASE s \notin Entries(kept)
    BY <1>3, <1>4, <1>5, <2>2
  <2> QED BY <2>1, <2>2
<1>7. Cached' \subseteq Cached
  BY <1>5, <1>6 DEF Cached
<1>8. Len(lru') <= MaxCached
  BY <1>1, <1>5, <1>6, SessionBounds DEF SessionCaches
<1>9. CachedContexts' = CachedContexts
  BY <1>2 DEF CachedContexts
<1>10. SessionCaches'
  BY <1>1, <1>2, <1>6, <1>8, <1>9 DEF SessionCaches
<1>11. SessionTables'
  BY <1>1, <1>2, <1>7 DEF SessionTables
<1>12. RuntimesAreLive'
  BY <1>1, <1>2, <1>7, <1>9 DEF RuntimesAreLive, CachedHasContext, DrainedIsEvicted, Removing
<1> QED BY <1>10, <1>11, <1>12 DEF SessionsInv

\* The INSERT makes a row active; it never cancels one.
LEMMA SaveSessionKeeps ==
  ASSUME SessionsInv, NEW s \in Sids, SaveSession(s)
  PROVE  SessionsInv'
<1>1. SessionCaches /\ SessionTables /\ CachedHasContext /\ DrainedIsEvicted
  BY DEF SessionsInv, RuntimesAreLive
<1>2. /\ UNCHANGED <<contexts, with_agent, lru, session, provider_rows, checking, removal>>
      /\ s \in saving /\ saving' = saving \ {s}
  BY DEF SaveSession
<1>3. /\ row' \in [Sids -> SessionStates] /\ row'[s] \in {row[s], "active"}
      /\ \A r \in Sids \ {s} : row'[r] = row[r]
  BY <1>1 DEF SaveSession, SessionTables, SessionStates
<1>4. Cached' = Cached /\ CachedContexts' = CachedContexts
  BY <1>2 DEF Cached, CachedContexts
<1>5. SessionCaches'
  BY <1>1, <1>2, <1>4 DEF SessionCaches
<1>6. SessionTables'
  BY <1>1, <1>2, <1>3, <1>4 DEF SessionTables
<1>7. RuntimesAreLive'
  BY <1>1, <1>2, <1>3, <1>4 DEF RuntimesAreLive, CachedHasContext, DrainedIsEvicted, Removing
<1> QED BY <1>5, <1>6, <1>7 DEF SessionsInv

\* A step of a provider's registration or removal that touches no session: a removal that
\* has drained stays there until it has evicted.
LEMMA ProviderStepKeeps ==
  ASSUME SessionsInv,
         UNCHANGED <<contexts, with_agent, lru, session, row, saving>>,
         provider_rows' \cup checking' \subseteq Providers,
         removal' \in [Providers -> Removals],
         \A p \in Providers : Removing(p, "drained") => Removing(p, "drained")'
  PROVE  SessionsInv'
<1>1. SessionCaches /\ SessionTables /\ CachedHasContext /\ DrainedIsEvicted
  BY DEF SessionsInv, RuntimesAreLive
<1>2. Cached' = Cached /\ CachedContexts' = CachedContexts
  BY DEF Cached, CachedContexts
<1>3. SessionCaches'
  BY <1>1, <1>2 DEF SessionCaches
<1>4. SessionTables'
  BY <1>1, <1>2 DEF SessionTables
<1>5. CachedHasContext'
  BY <1>1, <1>2 DEF CachedHasContext
<1>6. DrainedIsEvicted'
  <2>1. SUFFICES ASSUME NEW s \in Sids, row[s] = "cancelled", s \in Cached
                 PROVE  Removing(session[s].provider, "drained")'
    BY <1>2 DEF DrainedIsEvicted
  <2>2. session[s].provider \in Providers
    <3>1. session[s] \in Identities /\ session[s] # NotCreated
      BY <1>1, <2>1 DEF SessionTables
    <3> QED BY <3>1 DEF Identities
  <2>3. Removing(session[s].provider, "drained")
    BY <1>1, <2>1 DEF DrainedIsEvicted
  <2>4. PICK p \in Providers : p = session[s].provider
    BY <2>2
  <2>5. session'[s].provider = p
    BY <2>4
  <2> QED BY <2>3, <2>4, <2>5 DEF Removing
<1> QED BY <1>3, <1>4, <1>5, <1>6 DEF SessionsInv, RuntimesAreLive

\* A removal that goes on from one step to another.
LEMMA RemovalStepKeeps ==
  ASSUME SessionsInv, NEW p \in Providers, NEW new \in Removals, removal[p].pc # "drained",
         removal' = [removal EXCEPT ![p] = new],
         provider_rows' \subseteq provider_rows,
         UNCHANGED <<contexts, with_agent, lru, session, row, saving, checking>>
  PROVE  SessionsInv'
<1>1. SessionTables
  BY DEF SessionsInv
<1>2. removal \in [Providers -> Removals] /\ provider_rows \cup checking \subseteq Providers
  BY <1>1 DEF SessionTables
<1>3. removal' \in [Providers -> Removals] /\ \A q \in Providers \ {p} : removal'[q] = removal[q]
  BY <1>2
<1>4. \A q \in Providers : Removing(q, "drained") => Removing(q, "drained")'
  BY <1>3 DEF Removing
<1>5. provider_rows' \cup checking' \subseteq Providers
  BY <1>2
<1> QED BY <1>3, <1>4, <1>5, ProviderStepKeeps

\* The steps of unregister_provider other than the drain itself.
LEMMA UnregisterKeeps ==
  ASSUME SessionsInv, NEW p \in Providers,
         \/ \E drain \in BOOLEAN : BeginUnregister(p, drain)
         \/ CountActive(p, "count", "counted") \/ CountActive(p, "recount", "recounted")
         \/ FoundActive(p) \/ DropProvider(p)
  PROVE  SessionsInv'
<1>1. PICK old \in Removals : old = removal[p]
  BY DEF SessionsInv, SessionTables
<1>2. NoRemoval \in Removals
  BY DEF NoRemoval, Removals, RemovalSteps
<1>3. removal \in [Providers -> Removals]
  BY DEF SessionsInv, SessionTables
<1>4. ASSUME NEW drain \in BOOLEAN, BeginUnregister(p, drain)
      PROVE  SessionsInv'
  <2>1. PICK new : new = [pc |-> "count", drain |-> drain, found |-> FALSE]
    OBVIOUS
  <2>2. new \in Removals
    BY <2>1 DEF Removals, RemovalSteps
  <2>3. /\ removal' = [removal EXCEPT ![p] = new] /\ removal[p].pc # "drained"
        /\ UNCHANGED <<contexts, with_agent, lru, session, row, saving, provider_rows, checking>>
    BY <1>4, <2>1 DEF BeginUnregister, Removing
  <2> QED BY <2>2, <2>3, RemovalStepKeeps
<1>5. ASSUME NEW from \in {"count", "recount"}, NEW to \in {"counted", "recounted"}, CountActive(p, from, to)
      PROVE  SessionsInv'
  <2>1. PICK found \in BOOLEAN : found = (ActiveOf(p) # {})
    OBVIOUS
  <2>2. PICK new : new = [old EXCEPT !.pc = to, !.found = found]
    OBVIOUS
  <2>3. new \in Removals
    BY <2>2 DEF Removals, RemovalSteps
  <2>4. removal' = [removal EXCEPT ![p] = new]
    BY <1>1, <1>5, <2>1, <2>2 DEF CountActive
  <2>5. /\ removal[p].pc # "drained"
        /\ UNCHANGED <<contexts, with_agent, lru, session, row, saving, provider_rows, checking>>
    BY <1>5 DEF CountActive, Removing
  <2> QED BY <2>3, <2>4, <2>5, RemovalStepKeeps
<1>6. CASE FoundActive(p)
  <2>1. /\ removal[p].pc # "drained"
        /\ UNCHANGED <<contexts, with_agent, lru, session, row, saving, provider_rows, checking>>
    BY <1>6 DEF FoundActive, Removing
  <2>2. CASE GoOn(p, "drain")
    <3>1. PICK new : new = [old EXCEPT !.pc = "drain"]
      OBVIOUS
    <3>2. new \in Removals
      BY <3>1 DEF Removals, RemovalSteps
    <3>3. removal' = [removal EXCEPT ![p] = new]
      BY <1>1, <2>2, <3>1 DEF GoOn
    <3> QED BY <2>1, <3>2, <3>3, RemovalStepKeeps
  <2>3. CASE removal' = [removal EXCEPT ![p] = NoRemoval]
    BY <1>2, <2>1, <2>3, RemovalStepKeeps
  <2> QED BY <1>6, <2>2, <2>3 DEF FoundActive
<1>7. CASE DropProvider(p)
  <2>1. /\ removal[p].pc # "drained" /\ removal' = [removal EXCEPT ![p] = NoRemoval]
        /\ provider_rows' \subseteq provider_rows
        /\ UNCHANGED <<contexts, with_agent, lru, session, row, saving, checking>>
    BY <1>7 DEF DropProvider, Removing, DeleteProvider
  <2> QED BY <1>2, <2>1, RemovalStepKeeps
<1> QED BY <1>4, <1>5, <1>6, <1>7

\* Registering a provider and its health check keep the invariant.
LEMMA RegisterKeeps ==
  ASSUME SessionsInv, NEW p \in Providers, BeginRegister(p) \/ HealthAnswers(p)
  PROVE  SessionsInv'
<1>1. /\ provider_rows \cup checking \subseteq Providers
      /\ removal \in [Providers -> Removals]
  BY DEF SessionsInv, SessionTables
<1>2. UNCHANGED <<contexts, with_agent, lru, session, row, saving, removal>>
  BY DEF BeginRegister, HealthAnswers
<1>3. provider_rows' \cup checking' \subseteq Providers
  BY <1>1 DEF BeginRegister, HealthAnswers, SaveProvider
<1>4. \A q \in Providers : Removing(q, "drained") => Removing(q, "drained")'
  BY <1>2 DEF Removing
<1> QED BY <1>1, <1>2, <1>3, <1>4, ProviderStepKeeps

\* The sessions that the drain cancels are those of the provider whose removal has drained.
LEMMA DeactivateKeeps ==
  ASSUME SessionsInv, NEW p \in Providers, DeactivateSessions(p)
  PROVE  SessionsInv'
<1>1. SessionCaches /\ SessionTables /\ CachedHasContext /\ DrainedIsEvicted
  BY DEF SessionsInv, RuntimesAreLive
<1>2. UNCHANGED <<contexts, with_agent, lru, session, saving, provider_rows, checking>>
  BY DEF DeactivateSessions
<1>3. PICK old \in Removals : old = removal[p]
  BY <1>1 DEF SessionTables
<1>4. PICK new : new = [old EXCEPT !.pc = "drained"]
  OBVIOUS
<1>5. new \in Removals /\ new.pc = "drained"
  BY <1>4 DEF Removals, RemovalSteps
<1>6. removal' = [removal EXCEPT ![p] = new]
  BY <1>3, <1>4 DEF DeactivateSessions, GoOn
<1>7. removal \in [Providers -> Removals]
  BY <1>1 DEF SessionTables
<1>8. /\ removal' \in [Providers -> Removals] /\ removal'[p] = new
      /\ \A q \in Providers \ {p} : removal'[q] = removal[q]
  BY <1>5, <1>6, <1>7
<1>9. row \in [Sids -> SessionStates] /\ session \in [Sids -> Identities]
  BY <1>1 DEF SessionTables
<1>10. row' = [s \in Sids |-> IF s \in ActiveOf(p) THEN "cancelled" ELSE row[s]]
  BY DEF DeactivateSessions
<1>11. row' \in [Sids -> SessionStates]
  BY <1>9, <1>10 DEF SessionStates
<1>12. \A s \in Sids : row'[s] = row[s] \/ (row[s] = "active" /\ session[s].provider = p)
  BY <1>10 DEF ActiveOf
<1>13. Cached' = Cached /\ CachedContexts' = CachedContexts
  BY <1>2 DEF Cached, CachedContexts
<1>14. SessionCaches'
  BY <1>1, <1>2, <1>13 DEF SessionCaches
<1>15. SessionTables'
  <2>1. \A s \in Sids : session'[s] = NotCreated => row'[s] = "none" /\ s \notin saving' \cup Cached'
    BY <1>1, <1>2, <1>12, <1>13 DEF SessionTables
  <2> QED BY <1>1, <1>2, <1>8, <1>11, <2>1 DEF SessionTables
<1>16. CachedHasContext'
  BY <1>1, <1>2, <1>13 DEF CachedHasContext
<1>17. DrainedIsEvicted'
  <2>1. SUFFICES ASSUME NEW s \in Sids, row'[s] = "cancelled", s \in Cached
                 PROVE  removal'[session[s].provider].pc = "drained"
    BY <1>2, <1>13 DEF DrainedIsEvicted, Removing
  <2>2. CASE session[s].provider = p
    BY <1>5, <1>8, <2>2
  <2>3. CASE session[s].provider # p
    <3>1. row[s] = "cancelled"
      BY <1>12, <2>1, <2>3
    <3>2. removal[session[s].provider].pc = "drained"
      BY <1>1, <2>1, <3>1 DEF DrainedIsEvicted, Removing
    <3>3. session[s] \in Identities /\ session[s] # NotCreated
      BY <1>1, <2>1 DEF SessionTables
    <3>4. session[s].provider \in Providers
      BY <3>3 DEF Identities
    <3> QED BY <1>8, <2>3, <3>2, <3>4
  <2> QED BY <2>2, <2>3
<1> QED BY <1>14, <1>15, <1>16, <1>17 DEF SessionsInv, RuntimesAreLive

\* ... and it evicts every session of the provider before it goes on.
LEMMA EvictForProviderKeeps ==
  ASSUME SessionsInv, NEW p \in Providers, EvictSessionsForProvider(p)
  PROVE  SessionsInv'
<1>1. SessionCaches /\ SessionTables /\ CachedHasContext /\ DrainedIsEvicted
  BY DEF SessionsInv, RuntimesAreLive
<1>2. UNCHANGED <<contexts, with_agent, session, row, saving, provider_rows, checking>>
  BY DEF EvictSessionsForProvider
<1>3. PICK old \in Removals : old = removal[p]
  BY <1>1 DEF SessionTables
<1>4. PICK new : new = [old EXCEPT !.pc = "recount"]
  OBVIOUS
<1>5. new \in Removals
  BY <1>4 DEF Removals, RemovalSteps
<1>6. removal' = [removal EXCEPT ![p] = new]
  BY <1>3, <1>4 DEF EvictSessionsForProvider, GoOn
<1>7. removal \in [Providers -> Removals]
  BY <1>1 DEF SessionTables
<1>8. /\ removal' \in [Providers -> Removals]
      /\ \A q \in Providers \ {p} : removal'[q] = removal[q]
  BY <1>5, <1>6, <1>7
<1>9. PICK S : S = {s \in Sids : session[s].provider # p}
  OBVIOUS
<1>10. lru' = Kept(lru, S)
  BY <1>9 DEF EvictSessionsForProvider
<1>11. /\ lru' \in Seq(Sids) /\ Distinct(lru') /\ Len(lru') <= Len(lru)
       /\ Entries(lru') = Entries(lru) \cap S
  BY <1>1, <1>10, KeptIs DEF SessionCaches
<1>12. Cached' = Cached \cap S
  BY <1>11 DEF Cached
<1>13. Len(lru') <= MaxCached
  BY <1>1, <1>11, SessionBounds DEF SessionCaches
<1>14. CachedContexts' = CachedContexts
  BY <1>2 DEF CachedContexts
<1>15. SessionCaches'
  BY <1>1, <1>2, <1>11, <1>13, <1>14 DEF SessionCaches
<1>16. SessionTables'
  BY <1>1, <1>2, <1>8, <1>12 DEF SessionTables
<1>17. CachedHasContext'
  BY <1>1, <1>2, <1>12, <1>14 DEF CachedHasContext
<1>18. DrainedIsEvicted'
  <2>1. SUFFICES ASSUME NEW s \in Sids, row[s] = "cancelled", s \in Cached', s \in Cached
                 PROVE  removal'[session[s].provider].pc = "drained"
    BY <1>2, <1>12 DEF DrainedIsEvicted, Removing
  <2>2. session[s].provider # p
    BY <1>9, <1>12, <2>1
  <2>3. removal[session[s].provider].pc = "drained"
    BY <1>1, <2>1 DEF DrainedIsEvicted, Removing
  <2>4. session[s] \in Identities /\ session[s] # NotCreated
    BY <1>1, <2>1 DEF SessionTables
  <2>5. session[s].provider \in Providers
    BY <2>4 DEF Identities
  <2> QED BY <1>8, <2>2, <2>3, <2>5
<1> QED BY <1>15, <1>16, <1>17, <1>18 DEF SessionsInv, RuntimesAreLive

\* A changed agent, which drops the runtimes of its tenant, keeps the invariant.
LEMMA ChangeAgentKeeps ==
  ASSUME SessionsInv, NEW t \in SessionTenants, ChangeAgent(t)
  PROVE  SessionsInv'
<1>1. SessionCaches /\ SessionTables /\ CachedHasContext /\ DrainedIsEvicted
  BY DEF SessionsInv, RuntimesAreLive
<1>2. UNCHANGED <<contexts, lru, session, row, saving, provider_rows, checking, removal>>
  BY DEF ChangeAgent
<1>3. Cached' = Cached /\ CachedContexts' = CachedContexts
  BY <1>2 DEF Cached, CachedContexts
<1>4. with_agent' \subseteq CachedContexts
  BY <1>1 DEF ChangeAgent, SessionCaches
<1>5. SessionCaches'
  BY <1>1, <1>2, <1>3, <1>4 DEF SessionCaches
<1>6. SessionTables'
  BY <1>1, <1>2, <1>3 DEF SessionTables
<1>7. RuntimesAreLive'
  BY <1>1, <1>2, <1>3 DEF RuntimesAreLive, CachedHasContext, DrainedIsEvicted, Removing
<1> QED BY <1>5, <1>6, <1>7 DEF SessionsInv

\* A process that starts again has no runtime of a session.
LEMMA RestartKeeps ==
  ASSUME SessionsInv, RestartServer
  PROVE  SessionsInv'
<1>1. SessionCaches /\ SessionTables
  BY DEF SessionsInv
<1>2. PICK n \in 0..MaxContexts :
        /\ contexts' \in [1..n -> SessionTenants]
        /\ \A i, j \in 1..n : i # j => contexts'[i] # contexts'[j]
        /\ with_agent' = agent_rows \cap {contexts'[i] : i \in 1..n}
  BY DEF RestartServer
<1>3. contexts' \in Seq(SessionTenants) /\ Len(contexts') = n /\ n <= MaxContexts
  BY <1>2, SessionBounds
<1>4. Distinct(contexts') /\ with_agent' \subseteq CachedContexts'
  BY <1>2, <1>3 DEF Distinct, CachedContexts, Entries
<1>5. lru' = <<>> /\ Cached' = {}
  BY DEF RestartServer, Cached, Entries
<1>6. SessionCaches'
  BY <1>3, <1>4, <1>5, SessionBounds DEF SessionCaches, Distinct
<1>7. NoRemoval \in Removals
  BY DEF NoRemoval, Removals, RemovalSteps
<1>8. SessionTables'
  BY <1>1, <1>5, <1>7 DEF SessionTables, RestartServer
<1>9. RuntimesAreLive'
  BY <1>5 DEF RuntimesAreLive, CachedHasContext, DrainedIsEvicted
<1> QED BY <1>6, <1>8, <1>9 DEF SessionsInv

\* Every step keeps the invariant.
LEMMA SessionsStepKeeps == SessionsInv /\ [SessionsNext]_sessionVars => SessionsInv'
<1>1. SUFFICES ASSUME SessionsInv, [SessionsNext]_sessionVars
               PROVE  SessionsInv'
  OBVIOUS
<1>2. CASE UNCHANGED sessionVars
  BY <1>1, <1>2 DEF sessionVars, SessionsInv, SessionCaches, SessionTables, RuntimesAreLive,
                    CachedHasContext, DrainedIsEvicted, Removing, Cached, CachedContexts
<1>3. ASSUME NEW t \in SessionTenants, TenantRequest(t) \/ ChangeAgent(t)
      PROVE  SessionsInv'
  BY <1>1, <1>3, TenantRequestKeeps, ChangeAgentKeeps
<1>4. ASSUME NEW t \in SessionTenants, NEW p \in Providers, CreateSession(t, p)
      PROVE  SessionsInv'
  BY <1>1, <1>4, CreateSessionKeeps
<1>5. ASSUME NEW s \in Sids, UseSession(s) \/ SaveSession(s)
      PROVE  SessionsInv'
  BY <1>1, <1>5, UseSessionKeeps, SaveSessionKeeps
<1>6. ASSUME NEW p \in Providers, BeginRegister(p) \/ HealthAnswers(p)
      PROVE  SessionsInv'
  BY <1>1, <1>6, RegisterKeeps
<1>7. ASSUME NEW p \in Providers,
             \/ \E drain \in BOOLEAN : BeginUnregister(p, drain)
             \/ CountActive(p, "count", "counted") \/ CountActive(p, "recount", "recounted")
             \/ FoundActive(p) \/ DropProvider(p)
      PROVE  SessionsInv'
  BY <1>1, <1>7, UnregisterKeeps
<1>8. ASSUME NEW p \in Providers, DeactivateSessions(p) \/ EvictSessionsForProvider(p)
      PROVE  SessionsInv'
  BY <1>1, <1>8, DeactivateKeeps, EvictForProviderKeeps
<1>9. CASE RestartServer
  BY <1>1, <1>9, RestartKeeps
<1> QED BY <1>1, <1>2, <1>3, <1>4, <1>5, <1>6, <1>7, <1>8, <1>9 DEF SessionsNext

\* How many entries a sequence without repetitions has.
LEMMA DistinctCount ==
  ASSUME NEW A, NEW seq \in Seq(A), Distinct(seq)
  PROVE  Cardinality(Entries(seq)) = Len(seq)
<1>1. PICK n \in Nat : n = Len(seq)
  OBVIOUS
<1>2. PICK f : f = [i \in 1..n |-> seq[i]]
  OBVIOUS
<1>3. f \in Surjection(1..n, Entries(seq)) /\ f \in Injection(1..n, Entries(seq))
  BY <1>1, <1>2 DEF Surjection, Injection, IsInjective, Entries, Distinct
<1>4. IsFiniteSet(1..n) /\ Cardinality(1..n) = n
  BY FS_Interval
<1>5. Cardinality(Entries(seq)) = n
  BY <1>3, <1>4, FS_Surjection
<1> QED BY <1>1, <1>5

\* The type invariant of sessions, with the caps of both caches: no request, turn, eviction or
\* restart leaves more runtimes or contexts in TenantRuntimeFactory than the settings allow,
\* and none twice.
THEOREM SessionsTypeInvariant == SessionsSpec => []SessionsTypeOK
<1>1. SessionsInv => SessionsTypeOK
  <2>1. SUFFICES ASSUME SessionsInv
                 PROVE  SessionsTypeOK
    OBVIOUS
  <2>2. SessionCaches /\ SessionTables
    BY <2>1 DEF SessionsInv
  <2>3. Cardinality(Cached) = Len(lru) /\ Cardinality(CachedContexts) = Len(contexts)
    BY <2>2, DistinctCount DEF SessionCaches, Cached, CachedContexts
  <2>4. Cached \subseteq Sids
    BY <2>2 DEF SessionCaches, Cached, Entries
  <2> QED BY <2>2, <2>3, <2>4 DEF SessionsTypeOK, SessionCaches, SessionTables, SessionStates
<1> QED BY <1>1, SessionsInitKeeps, SessionsStepKeeps, PTL DEF SessionsSpec

\* A cached runtime belongs to a context that is there and to a session that may go on, for
\* every number of tenants, providers and sessions, every cap and every order of requests,
\* evictions, drains and restarts (TenantRuntimeFactory, unregister_provider).
THEOREM RuntimesStayLive == SessionsSpec => []RuntimesAreLive
<1>1. SessionsInv => RuntimesAreLive
  BY DEF SessionsInv
<1> QED BY <1>1, SessionsInitKeeps, SessionsStepKeeps, PTL DEF SessionsSpec

-----------------------------------------------------------------------------
(* Workflows: what the loader and TaskGraph accept the scheduler can       *)
(* finish.  The search of _validate_acyclic, over ids and a function from  *)
(* each id to the sequence of its dependencies.                            *)

\* What the k-th call on the stack has not returned from yet.
InRest(path, pending, k, x) == x \in ToSet(pending[k]) \/ (k <= Len(path) /\ x = path[k])

Lists(A) == Seq(A)

SearchTyped(I, dep, visited, path, pending) ==
  /\ dep \in [I -> Lists(I)] /\ visited \subseteq I
  /\ path \in Seq(I) /\ pending \in Seq(Lists(I)) /\ Len(pending) = Len(path) + 1

\* The nodes of the calls differ, and none has been left yet.
PathSimple(visited, path) ==
  /\ \A i, j \in 1..Len(path) : path[i] = path[j] => i = j
  /\ \A i \in 1..Len(path) : path[i] \notin visited

\* What a call has dealt with has been visited.
RestCovered(I, dep, visited, path, pending) ==
  /\ \A x \in I : x \in visited \/ InRest(path, pending, 1, x)
  /\ \A k \in 1..Len(path) : \A x \in ToSet(dep[path[k]]) :
       x \in visited \/ InRest(path, pending, k + 1, x)

\* A call is made for dependencies of the node before it.
PathLinked(dep, path, pending) ==
  \A k \in 1..Len(path) : \A x : InRest(path, pending, k + 1, x) => x \in ToSet(dep[path[k]])

\* Among any visited nodes is one that waits for none of them.
Founded(dep, S) ==
  \A U \in SUBSET S : U # {} => \E u \in U : ToSet(dep[u]) \cap U = {}

DoneFounded(dep, visited) ==
  /\ \A x \in visited : ToSet(dep[x]) \subseteq visited
  /\ Founded(dep, visited)

SearchInv(I, dep, visited, path, pending) ==
  /\ SearchTyped(I, dep, visited, path, pending)
  /\ PathSimple(visited, path)
  /\ RestCovered(I, dep, visited, path, pending)
  /\ PathLinked(dep, path, pending)
  /\ DoneFounded(dep, visited)

\* The members of a list are its head and those of its tail.
LEMMA HeadAndTail ==
  ASSUME NEW A, NEW s \in Seq(A), s # <<>>
  PROVE  Head(s) \in A /\ Tail(s) \in Seq(A) /\ ToSet(s) = ToSet(Tail(s)) \cup {Head(s)}
<1>1. PICK n \in Nat : n = Len(s) /\ n >= 1
  OBVIOUS
<1>2. /\ Head(s) = s[1] /\ Tail(s) \in Seq(A) /\ Len(Tail(s)) = n - 1
      /\ \A i \in 1..(n - 1) : Tail(s)[i] = s[i + 1]
  BY <1>1, HeadTailProperties
<1>3. PICK r : r = Tail(s)
  OBVIOUS
<1>4. DOMAIN s = 1..n /\ DOMAIN r = 1..(n - 1) /\ \A i \in 1..n : s[i] \in A
  BY <1>1, <1>2, <1>3
<1>5. \A i \in 1..n : i = 1 \/ (i - 1 \in 1..(n - 1) /\ (i - 1) + 1 = i)
  BY <1>1
<1>6. \A i \in 1..n : s[i] = Head(s) \/ s[i] = r[i - 1]
  BY <1>2, <1>3, <1>5
<1>7. ToSet(s) \subseteq ToSet(r) \cup {Head(s)}
  BY <1>4, <1>5, <1>6 DEF ToSet
<1>8. \A i \in 1..(n - 1) : i + 1 \in 1..n /\ r[i] = s[i + 1]
  BY <1>1, <1>2, <1>3
<1>9. ToSet(r) \subseteq ToSet(s)
  BY <1>4, <1>8 DEF ToSet
<1>10. 1 \in DOMAIN s
  BY <1>1, <1>4
<1>11. Head(s) \in ToSet(s)
  BY <1>2, <1>10 DEF ToSet
<1> QED BY <1>2, <1>3, <1>4, <1>7, <1>9, <1>10, <1>11

Advances(pending, n, s, adv) ==
  /\ n = Len(pending) /\ n >= 1 /\ s = pending[n] /\ s # <<>>
  /\ adv = [pending EXCEPT ![n] = Tail(s)]

\* The call before the last one of the stack has one node less to visit.
LEMMA AdvanceIs ==
  ASSUME NEW A, NEW pending \in Seq(Lists(A)), NEW n \in Nat, NEW s, NEW adv,
         Advances(pending, n, s, adv)
  PROVE  /\ adv \in Seq(Lists(A)) /\ Len(adv) = n
         /\ \A k \in 1..n : k # n => adv[k] = pending[k]
         /\ Head(s) \in A
         /\ ToSet(pending[n]) = ToSet(adv[n]) \cup {Head(s)}
<1>1. pending \in [1..n -> Lists(A)] /\ n \in 1..n
  BY DEF Advances
<1>2. s \in Lists(A) /\ s # <<>>
  BY <1>1 DEF Advances
<1>3. PICK tail, head : tail = Tail(s) /\ head = Head(s)
  OBVIOUS
<1>4. head \in A /\ tail \in Lists(A) /\ ToSet(s) = ToSet(tail) \cup {head}
  BY <1>2, <1>3, HeadAndTail DEF Lists
<1>5. adv = [pending EXCEPT ![n] = tail]
  BY <1>3 DEF Advances
<1>6. adv \in [1..n -> Lists(A)] /\ adv[n] = tail /\ \A k \in 1..n : k # n => adv[k] = pending[k]
  BY <1>1, <1>4, <1>5
<1>7. adv \in Seq(Lists(A)) /\ Len(adv) = n
  BY <1>6
<1>8. ToSet(pending[n]) = ToSet(adv[n]) \cup {head}
  BY <1>4, <1>6 DEF Advances
<1> QED BY <1>3, <1>4, <1>6, <1>7, <1>8

\* A call on a node that has been visited returns at once.
LEMMA SkipKeeps ==
  ASSUME NEW I, NEW dep, NEW visited, NEW path, NEW pending,
         SearchInv(I, dep, visited, path, pending),
         NEW n \in Nat, NEW s, NEW adv, Head(s) \in visited,
         Advances(pending, n, s, adv)
  PROVE  SearchInv(I, dep, visited, path, adv)
<1>1. SearchTyped(I, dep, visited, path, pending) /\ PathSimple(visited, path) /\ DoneFounded(dep, visited)
  BY DEF SearchInv
<1>2. PICK l \in Nat : l = Len(path) /\ n = l + 1 /\ pending \in Seq(Lists(I))
  BY <1>1 DEF SearchTyped, Advances
<1>3. PICK x : x = Head(s)
  OBVIOUS
<1>4. /\ adv \in Seq(Lists(I)) /\ Len(adv) = n
      /\ \A k \in 1..n : k # n => adv[k] = pending[k]
      /\ ToSet(pending[n]) = ToSet(adv[n]) \cup {x}
  <2>2. /\ adv \in Seq(Lists(I)) /\ Len(adv) = n
        /\ \A k \in 1..n : k # n => adv[k] = pending[k]
        /\ ToSet(pending[n]) = ToSet(adv[n]) \cup {Head(s)}
    BY <1>2, AdvanceIs
  <2> QED BY <1>3, <2>2
<1>5. \A k \in 1..n : ToSet(pending[k]) \subseteq ToSet(adv[k]) \cup visited
  BY <1>3, <1>4
<1>6. \A k \in 1..n : ToSet(adv[k]) \subseteq ToSet(pending[k])
  BY <1>4
<1>7. \A k \in 1..n : \A y : /\ InRest(path, pending, k, y) => y \in visited \/ InRest(path, adv, k, y)
                             /\ InRest(path, adv, k, y) => InRest(path, pending, k, y)
  BY <1>5, <1>6 DEF InRest
<1>8. 1 \in 1..n /\ \A k \in 1..Len(path) : k + 1 \in 1..n
  BY <1>2
<1>9. RestCovered(I, dep, visited, path, adv)
  BY <1>7, <1>8 DEF SearchInv, RestCovered
<1>10. PathLinked(dep, path, adv)
  BY <1>7, <1>8 DEF SearchInv, PathLinked
<1>11. SearchTyped(I, dep, visited, path, adv)
  BY <1>1, <1>2, <1>4 DEF SearchTyped
<1> QED BY <1>1, <1>9, <1>10, <1>11 DEF SearchInv

Descends(adv, list, path, x, pending2, path2) ==
  pending2 = Append(adv, list) /\ path2 = Append(path, x)

\* A call on a node that is new goes down into its dependencies.
LEMMA DescendKeeps ==
  ASSUME NEW I, NEW dep, NEW visited, NEW path, NEW pending,
         SearchInv(I, dep, visited, path, pending),
         NEW n \in Nat, NEW s, NEW adv, Advances(pending, n, s, adv),
         NEW x, x = Head(s), x \notin visited, \A i \in 1..Len(path) : path[i] # x,
         NEW pending2, NEW path2, Descends(adv, dep[x], path, x, pending2, path2)
  PROVE  SearchInv(I, dep, visited, path2, pending2)
<1>1. SearchTyped(I, dep, visited, path, pending) /\ PathSimple(visited, path) /\ DoneFounded(dep, visited)
  BY DEF SearchInv
<1>2. PICK l \in Nat : l = Len(path) /\ n = l + 1 /\ pending \in Seq(Lists(I))
  BY <1>1 DEF SearchTyped, Advances
<1>3. /\ adv \in Seq(Lists(I)) /\ Len(adv) = n
      /\ \A k \in 1..n : k # n => adv[k] = pending[k]
      /\ x \in I
      /\ ToSet(pending[n]) = ToSet(adv[n]) \cup {x}
  <2>1. /\ adv \in Seq(Lists(I)) /\ Len(adv) = n
        /\ \A k \in 1..n : k # n => adv[k] = pending[k]
        /\ Head(s) \in I
        /\ ToSet(pending[n]) = ToSet(adv[n]) \cup {Head(s)}
    BY <1>2, AdvanceIs
  <2> QED BY <2>1
<1>4. dep[x] \in Lists(I) /\ path \in Seq(I)
  BY <1>1, <1>3 DEF SearchTyped
<1>5. /\ path2 \in Seq(I) /\ Len(path2) = n /\ path2[n] = x
      /\ \A i \in 1..l : path2[i] = path[i]
  BY <1>2, <1>3, <1>4 DEF Descends
<1>6. PICK list : list = dep[x]
  OBVIOUS
<1>7. pending2 = Append(adv, list) /\ list \in Lists(I)
  BY <1>4, <1>6 DEF Descends
<1>8. /\ pending2 \in Seq(Lists(I)) /\ Len(pending2) = n + 1 /\ pending2[n + 1] = list
      /\ \A k \in 1..n : pending2[k] = adv[k]
  BY <1>3, <1>7
<1>9. SearchTyped(I, dep, visited, path2, pending2)
  BY <1>1, <1>5, <1>8 DEF SearchTyped
<1>10. \A i \in 1..n : i \in 1..l \/ i = n
  BY <1>2
<1>11. PathSimple(visited, path2)
  BY <1>1, <1>2, <1>5, <1>10 DEF PathSimple
<1>12. \A k \in 1..n : \A y : InRest(path, pending, k, y) <=> InRest(path2, pending2, k, y)
  <2>1. SUFFICES ASSUME NEW k \in 1..n, NEW y
                 PROVE  InRest(path, pending, k, y) <=> InRest(path2, pending2, k, y)
    OBVIOUS
  <2>2. CASE k = n
    <3>1. ~(k <= Len(path)) /\ k <= Len(path2)
      BY <1>2, <1>5, <2>2
    <3>2. pending2[k] = adv[k] /\ path2[k] = x
      BY <1>5, <1>8, <2>2
    <3> QED BY <1>3, <2>2, <3>1, <3>2 DEF InRest
  <2>3. CASE k # n
    <3>1. k <= Len(path) /\ k <= Len(path2) /\ k \in 1..l
      BY <1>2, <1>5, <2>3
    <3>2. pending2[k] = pending[k] /\ path2[k] = path[k]
      BY <1>3, <1>5, <1>8, <2>3, <3>1
    <3> QED BY <3>1, <3>2 DEF InRest
  <2> QED BY <2>2, <2>3
<1>13. \A y : InRest(path2, pending2, n + 1, y) <=> y \in ToSet(dep[x])
  <2>1. ~(n + 1 <= Len(path2))
    BY <1>5
  <2> QED BY <1>6, <1>8, <2>1 DEF InRest
<1>14. 1 \in 1..n /\ \A k \in 1..l : k + 1 \in 1..n
  BY <1>2
<1>15. RestCovered(I, dep, visited, path2, pending2)
  <2>1. \A y \in I : y \in visited \/ InRest(path2, pending2, 1, y)
    BY <1>12, <1>14 DEF SearchInv, RestCovered
  <2>2. ASSUME NEW k \in 1..n, NEW y \in ToSet(dep[path2[k]])
        PROVE  y \in visited \/ InRest(path2, pending2, k + 1, y)
    <3>1. CASE k = n
      BY <1>5, <1>13, <2>2, <3>1
    <3>2. CASE k \in 1..l
      BY <1>2, <1>5, <1>12, <1>14, <2>2, <3>2 DEF SearchInv, RestCovered
    <3> QED BY <1>10, <3>1, <3>2
  <2> QED BY <1>5, <2>1, <2>2 DEF RestCovered
<1>16. PathLinked(dep, path2, pending2)
  <2>1. ASSUME NEW k \in 1..n, NEW y, InRest(path2, pending2, k + 1, y)
        PROVE  y \in ToSet(dep[path2[k]])
    <3>1. CASE k = n
      BY <1>5, <1>13, <2>1, <3>1
    <3>2. CASE k \in 1..l
      BY <1>2, <1>5, <1>12, <1>14, <2>1, <3>2 DEF SearchInv, PathLinked
    <3> QED BY <1>10, <3>1, <3>2
  <2> QED BY <1>5, <2>1 DEF PathLinked
<1> QED BY <1>1, <1>9, <1>11, <1>15, <1>16 DEF SearchInv

Returns(pending, n, path, v, pending2, path2) ==
  /\ n = Len(pending) /\ pending[n] = <<>> /\ path # <<>>
  /\ v = path[Len(path)] /\ pending2 = Front(pending) /\ path2 = Front(path)

\* The front of a list is the list without its last place.
LEMMA FrontIs ==
  ASSUME NEW A, NEW s \in Seq(A), NEW n \in Nat, n + 1 = Len(s)
  PROVE  Front(s) \in Seq(A) /\ Len(Front(s)) = n /\ \A i \in 1..n : Front(s)[i] = s[i]
<1>1. Front(s) = SubSeq(s, 1, n)
  BY DEF Front
<1>2. 1 \in Int /\ n \in Int /\ \A i \in 1..n : s[i] \in A
  OBVIOUS
<1>3. /\ SubSeq(s, 1, n) \in Seq(A) /\ Len(SubSeq(s, 1, n)) = IF 1 <= n THEN n - 1 + 1 ELSE 0
      /\ \A i \in 1..(n - 1 + 1) : SubSeq(s, 1, n)[i] = s[1 + i - 1]
  BY <1>2, SubSeqProperties
<1>4. PICK f : f = SubSeq(s, 1, n)
  OBVIOUS
<1>5. f \in Seq(A) /\ Len(f) = n /\ \A i \in 1..n : f[i] = s[i]
  BY <1>3, <1>4
<1> QED BY <1>1, <1>4, <1>5

\* A call returns: all its dependencies have been visited, and so has its node now.
LEMMA CycleReturnKeeps ==
  ASSUME NEW I, NEW dep, NEW visited, NEW path, NEW pending,
         SearchInv(I, dep, visited, path, pending),
         NEW n \in Nat, NEW v, NEW pending2, NEW path2,
         Returns(pending, n, path, v, pending2, path2)
  PROVE  SearchInv(I, dep, visited \cup {v}, path2, pending2)
<1>1. SearchTyped(I, dep, visited, path, pending) /\ PathSimple(visited, path) /\ DoneFounded(dep, visited)
  BY DEF SearchInv
<1>2. PICK l \in Nat : l + 1 = Len(path)
  <2>1. path \in Seq(I) /\ path # <<>>
    BY <1>1 DEF SearchTyped, Returns
  <2>2. Len(path) \in Nat /\ Len(path) # 0
    BY <2>1
  <2>3. Len(path) - 1 \in Nat /\ (Len(path) - 1) + 1 = Len(path)
    BY <2>2
  <2> QED BY <2>3
<1>3. /\ path \in Seq(I) /\ pending \in Seq(Lists(I)) /\ n = l + 2
      /\ v = path[l + 1] /\ pending[n] = <<>> /\ Len(pending) = n
  BY <1>1, <1>2 DEF SearchTyped, Returns
<1>4. path2 \in Seq(I) /\ Len(path2) = l /\ \A i \in 1..l : path2[i] = path[i]
  BY <1>2, <1>3, FrontIs DEF Returns
<1>5. l + 1 \in Nat /\ (l + 1) + 1 = Len(pending)
  BY <1>3
<1>6. /\ pending2 \in Seq(Lists(I)) /\ Len(pending2) = l + 1
      /\ \A k \in 1..(l + 1) : pending2[k] = pending[k]
  BY <1>3, <1>5, FrontIs DEF Returns
<1>7. v \in I /\ v \notin visited
  BY <1>1, <1>2, <1>3 DEF PathSimple
<1>8. SearchTyped(I, dep, visited \cup {v}, path2, pending2)
  BY <1>1, <1>4, <1>6, <1>7 DEF SearchTyped
<1>9. PathSimple(visited \cup {v}, path2)
  <2>1. l + 1 \in 1..Len(path) /\ \A i \in 1..l : i \in 1..Len(path) /\ i # l + 1
    BY <1>2
  <2> QED BY <1>1, <1>3, <1>4, <2>1 DEF PathSimple
<1>10. \A k \in 1..(l + 1) : \A y :
         /\ InRest(path, pending, k, y) => y = v \/ InRest(path2, pending2, k, y)
         /\ InRest(path2, pending2, k, y) => InRest(path, pending, k, y)
  <2>1. SUFFICES ASSUME NEW k \in 1..(l + 1), NEW y
                 PROVE  /\ InRest(path, pending, k, y) => y = v \/ InRest(path2, pending2, k, y)
                        /\ InRest(path2, pending2, k, y) => InRest(path, pending, k, y)
    OBVIOUS
  <2>2. pending2[k] = pending[k] /\ k <= Len(path)
    BY <1>2, <1>6
  <2>3. CASE k = l + 1
    <3>1. ~(k <= Len(path2))
      BY <1>4, <2>3
    <3> QED BY <1>3, <2>2, <2>3, <3>1 DEF InRest
  <2>4. CASE k \in 1..l
    <3>1. k <= Len(path2) /\ path2[k] = path[k]
      BY <1>4, <2>4
    <3> QED BY <2>2, <3>1 DEF InRest
  <2>5. k = l + 1 \/ k \in 1..l
    OBVIOUS
  <2> QED BY <2>3, <2>4, <2>5
<1>11. 1 \in 1..(l + 1) /\ \A k \in 1..l : k + 1 \in 1..(l + 1) /\ k \in 1..Len(path)
  BY <1>2
<1>12. RestCovered(I, dep, visited \cup {v}, path2, pending2)
  <2>1. \A y \in I : y \in visited \cup {v} \/ InRest(path2, pending2, 1, y)
    BY <1>10, <1>11 DEF SearchInv, RestCovered
  <2>2. \A k \in 1..l : \A y \in ToSet(dep[path2[k]]) : y \in visited \cup {v} \/ InRest(path2, pending2, k + 1, y)
    BY <1>4, <1>10, <1>11 DEF SearchInv, RestCovered
  <2> QED BY <1>4, <2>1, <2>2 DEF RestCovered
<1>13. PathLinked(dep, path2, pending2)
  <2>1. \A k \in 1..l : \A y : InRest(path2, pending2, k + 1, y) => y \in ToSet(dep[path2[k]])
    BY <1>4, <1>10, <1>11 DEF SearchInv, PathLinked
  <2> QED BY <1>4, <2>1 DEF PathLinked
<1>14. ToSet(dep[v]) \subseteq visited
  <2>1. l + 1 \in 1..Len(path) /\ (l + 1) + 1 = n /\ ~(n <= Len(path))
    BY <1>2, <1>3
  <2>2. ToSet(pending[n]) = {}
    BY <1>3 DEF ToSet
  <2>3. \A y : ~ InRest(path, pending, n, y)
    BY <2>1, <2>2 DEF InRest
  <2>4. \A y \in ToSet(dep[path[l + 1]]) : y \in visited \/ InRest(path, pending, (l + 1) + 1, y)
    BY <2>1 DEF SearchInv, RestCovered
  <2> QED BY <1>3, <2>1, <2>3, <2>4
<1>15. DoneFounded(dep, visited \cup {v})
  <2>1. \A x \in visited : ToSet(dep[x]) \subseteq visited
    BY <1>1 DEF DoneFounded
  <2>2. ASSUME NEW U \in SUBSET (visited \cup {v}), U # {}
        PROVE  \E u \in U : ToSet(dep[u]) \cap U = {}
    <3>1. CASE U \ {v} = {}
      <4>1. U = {v}
        BY <2>2, <3>1
      <4> QED BY <1>7, <1>14, <4>1
    <3>2. CASE U \ {v} # {}
      <4>1. PICK u \in U \ {v} : ToSet(dep[u]) \cap (U \ {v}) = {}
        BY <1>1, <2>2, <3>2 DEF DoneFounded, Founded
      <4>2. u \in visited /\ v \notin ToSet(dep[u])
        BY <1>7, <2>1, <2>2, <4>1
      <4> QED BY <4>1, <4>2
    <3> QED BY <3>1, <3>2
  <2> QED BY <1>14, <2>1, <2>2 DEF DoneFounded, Founded
<1> QED BY <1>8, <1>9, <1>12, <1>13, <1>15 DEF SearchInv

\* A call on a node of the path closes a cycle: the nodes from there on wait for each other.
Stuck(dep, S) == S # {} /\ \A u \in S : ToSet(dep[u]) \cap S # {}

\* A dependency that is on the path already closes a cycle.
LEMMA CycleIsThere ==
  ASSUME NEW I, NEW dep, NEW visited, NEW path, NEW pending,
         SearchInv(I, dep, visited, path, pending),
         NEW n \in Nat, NEW s, NEW adv, Advances(pending, n, s, adv),
         NEW i \in 1..Len(path), path[i] = Head(s)
  PROVE  \E S \in SUBSET I : Stuck(dep, S)
<1>1. SearchTyped(I, dep, visited, path, pending) /\ PathLinked(dep, path, pending)
  BY DEF SearchInv
<1>2. PICK l \in Nat : l = Len(path) /\ n = l + 1 /\ pending \in Seq(Lists(I)) /\ path \in Seq(I)
  BY <1>1 DEF SearchTyped, Advances
<1>3. Head(s) \in ToSet(pending[n])
  BY <1>2, AdvanceIs
<1>4. PICK S : S = {path[j] : j \in i..l}
  OBVIOUS
<1>5. S \in SUBSET I /\ path[i] \in S
  BY <1>2, <1>4
<1>6. \A u \in S : ToSet(dep[u]) \cap S # {}
  <2>1. SUFFICES ASSUME NEW j \in i..l
                 PROVE  \E w \in S : w \in ToSet(dep[path[j]])
    BY <1>4
  <2>2. j \in 1..Len(path) /\ (j = l \/ j + 1 \in i..l)
    BY <1>2
  <2>3. CASE j = l
    <3>1. InRest(path, pending, j + 1, path[i])
      BY <1>2, <1>3, <2>3 DEF InRest
    <3> QED BY <1>1, <1>5, <2>2, <3>1 DEF PathLinked
  <2>4. CASE j + 1 \in i..l
    <3>1. InRest(path, pending, j + 1, path[j + 1])
      BY <1>2, <2>4 DEF InRest
    <3>2. path[j + 1] \in S
      BY <1>4, <2>4
    <3> QED BY <1>1, <2>2, <3>1, <3>2 DEF PathLinked
  <2> QED BY <2>2, <2>3, <2>4
<1> QED BY <1>5, <1>6 DEF Stuck

\* When the loop over all nodes has ended all have been visited.
Ends(pending, path) == path = <<>> /\ pending[Len(pending)] = <<>>

\* A search that ends without a cycle has visited every node, after those it depends on.
LEMMA AllAreFounded ==
  ASSUME NEW I, NEW dep, NEW visited, NEW path, NEW pending,
         SearchInv(I, dep, visited, path, pending), Ends(pending, path)
  PROVE  Founded(dep, I)
<1>1. Len(pending) = 1 /\ Len(path) = 0 /\ visited \subseteq I
  BY DEF Ends, SearchInv, SearchTyped
<1>2. ToSet(pending[1]) = {}
  BY <1>1 DEF Ends, ToSet
<1>3. \A x : ~ InRest(path, pending, 1, x)
  BY <1>1, <1>2 DEF InRest
<1>4. I \subseteq visited
  BY <1>3 DEF SearchInv, RestCovered
<1>5. I = visited
  BY <1>1, <1>4
<1> QED BY <1>5 DEF SearchInv, DoneFounded

\* It begins with the loop over all nodes.
Begins(pending, path, visited, ids) == pending = <<ids>> /\ path = <<>> /\ visited = {}

\* The search invariant holds before the first step.
LEMMA SearchBegins ==
  ASSUME NEW I, NEW dep \in [I -> Lists(I)], NEW ids \in Lists(I), ToSet(ids) = I,
         NEW visited, NEW path, NEW pending, Begins(pending, path, visited, ids)
  PROVE  SearchInv(I, dep, visited, path, pending)
<1>1. pending \in Seq(Lists(I)) /\ Len(pending) = 1 /\ pending[1] = ids
  BY DEF Begins
<1>2. path \in Seq(I) /\ Len(path) = 0 /\ visited = {}
  BY DEF Begins
<1>3. SearchTyped(I, dep, visited, path, pending)
  BY <1>1, <1>2 DEF SearchTyped
<1>4. RestCovered(I, dep, visited, path, pending)
  BY <1>1, <1>2 DEF RestCovered, InRest
<1>5. PathSimple(visited, path) /\ PathLinked(dep, path, pending)
  BY <1>2 DEF PathSimple, PathLinked
<1>6. DoneFounded(dep, visited)
  BY <1>2 DEF DoneFounded, Founded
<1> QED BY <1>3, <1>4, <1>5, <1>6 DEF SearchInv

-----------------------------------------------------------------------------
\* Nodes whose ids differ and whose dependencies are among them.
GoodNodes(nodes) ==
  nodes \in Seq(TaskNodes) /\ ~HasDuplicate(nodes) /\ ~UnknownDependency(nodes)

\* The dependencies as the search looks them up.
DepsOf(nodes) == [x \in Ids(nodes) |-> DependsOf(nodes, x)]

\* The dependencies that the search follows are those of the nodes.
LEMMA DepsAreThose ==
  ASSUME NEW nodes, GoodNodes(nodes)
  PROVE  /\ DepsOf(nodes) \in [Ids(nodes) -> Lists(Ids(nodes))]
         /\ \A i \in DOMAIN nodes : ToSet(DepsOf(nodes)[nodes[i].id]) = Depends(nodes[i])
         /\ \A i \in DOMAIN nodes : nodes[i].id \in Ids(nodes)
         /\ \A x \in Ids(nodes) : \E i \in DOMAIN nodes : nodes[i].id = x
         /\ [i \in DOMAIN nodes |-> nodes[i].id] \in Lists(Ids(nodes))
         /\ ToSet([i \in DOMAIN nodes |-> nodes[i].id]) = Ids(nodes)
<1>1. PICK n \in Nat : n = Len(nodes) /\ DOMAIN nodes = 1..n /\ nodes \in [1..n -> TaskNodes]
  BY DEF GoodNodes
<1>2. PICK D : D = Ids(nodes)
  OBVIOUS
<1>3. /\ \A i \in 1..n : nodes[i].id \in D
      /\ \A x \in D : \E i \in 1..n : nodes[i].id = x
  BY <1>1, <1>2 DEF Ids
<1>4. \A i, k \in 1..n : nodes[i].id = nodes[k].id => i = k
  <2>1. SUFFICES ASSUME NEW i \in 1..n, NEW k \in 1..n, nodes[i].id = nodes[k].id, i # k
                 PROVE  FALSE
    OBVIOUS
  <2>2. i < k \/ k < i
    BY <2>1
  <2> QED BY <1>1, <2>1, <2>2 DEF GoodNodes, HasDuplicate
<1>5. \A i \in 1..n : DependsOf(nodes, nodes[i].id) = nodes[i].depends
  <2>1. TAKE i \in 1..n
  <2>2. \A node \in ToSet(nodes) : node.id = nodes[i].id => node = nodes[i]
    BY <1>1, <1>4 DEF ToSet
  <2>3. nodes[i] \in ToSet(nodes)
    BY <1>1 DEF ToSet
  <2>4. PICK x : x = nodes[i].id
    OBVIOUS
  <2>5. (CHOOSE node \in ToSet(nodes) : node.id = x) = nodes[i]
    BY <2>2, <2>3, <2>4
  <2>6. DependsOf(nodes, x) = nodes[i].depends
    BY <2>5 DEF DependsOf
  <2> QED BY <2>4, <2>6
<1>6. \A i \in 1..n : nodes[i].depends \in Lists(D)
  <2>1. TAKE i \in 1..n
  <2>2. PICK s : s = nodes[i].depends
    OBVIOUS
  <2>3. s \in Seq(STRING)
    BY <1>1, <2>2 DEF TaskNodes
  <2>4. \A k \in DOMAIN s : s[k] \in D
    BY <1>1, <1>2, <2>2 DEF GoodNodes, UnknownDependency, Depends, ToSet
  <2>5. PICK m \in Nat : m = Len(s) /\ DOMAIN s = 1..m
    BY <2>3
  <2>6. s = [k \in 1..m |-> s[k]]
    BY <2>3, <2>5
  <2>7. s \in [1..m -> D]
    BY <2>4, <2>5, <2>6
  <2>8. s \in Seq(D)
    BY <2>7
  <2> QED BY <2>2, <2>8 DEF Lists
<1>7. PICK dep : dep = DepsOf(nodes)
  OBVIOUS
<1>8. dep = [x \in D |-> DependsOf(nodes, x)]
  BY <1>2, <1>7 DEF DepsOf
<1>9. \A i \in 1..n : dep[nodes[i].id] = nodes[i].depends
  BY <1>3, <1>5, <1>8
<1>10. \A x \in D : dep[x] \in Lists(D)
  BY <1>3, <1>6, <1>9
<1>11. dep \in [D -> Lists(D)]
  BY <1>8, <1>10
<1>12. \A i \in 1..n : ToSet(dep[nodes[i].id]) = Depends(nodes[i])
  BY <1>9 DEF Depends
<1>13. PICK ids : ids = [i \in DOMAIN nodes |-> nodes[i].id]
  OBVIOUS
<1>14. ids \in [1..n -> D] /\ DOMAIN ids = 1..n /\ \A i \in 1..n : ids[i] = nodes[i].id
  BY <1>1, <1>3, <1>13
<1>15. ids \in Lists(D)
  <2>1. ids \in Seq(D)
    BY <1>14
  <2> QED BY <2>1 DEF Lists
<1>16. ToSet(ids) = D
  BY <1>3, <1>14 DEF ToSet
<1> QED BY <1>1, <1>2, <1>3, <1>7, <1>11, <1>12, <1>13, <1>15, <1>16

-----------------------------------------------------------------------------
\* No failure is found only where no check raises.
LEMMA NoFailure ==
  ASSUME NEW checks, NEW n \in Nat, DOMAIN checks = 1..n, FirstFailure(checks) = Passed
  PROVE  \A i \in 1..n : checks[i] = Passed
<1>1. PICK failed : failed = {i \in DOMAIN checks : checks[i] # Passed}
  OBVIOUS
<1>2. SUFFICES ASSUME failed # {}
               PROVE  FALSE
  BY <1>1
<1>3. failed \in SUBSET Nat
  <2>1. \A i \in failed : i \in 1..n
    BY <1>1
  <2>2. \A i \in 1..n : i \in Nat
    OBVIOUS
  <2> QED BY <2>1, <2>2
<1>4. \E i \in failed : \A k \in failed : i <= k
  BY <1>2, <1>3, LeastNumber
<1>5. PICK first : first = CHOOSE i \in failed : \A k \in failed : i <= k
  OBVIOUS
<1>6. first \in failed
  BY <1>4, <1>5
<1>7. FirstFailure(checks) = checks[first]
  BY <1>1, <1>2, <1>5 DEF FirstFailure
<1> QED BY <1>1, <1>6, <1>7

\* A document that is read without an error is an object.
LEMMA ReadIsObject ==
  ASSUME NEW file, ReadError(file) = Passed
  PROVE  file.document # "malformed" /\ file.document # "list"
<1>1. JsonError(file.document) = Passed \/ YamlError(file.document) = Passed
  BY DEF ReadError, Passed
<1>2. PICK d : d = file.document
  OBVIOUS
<1>3. PICK list, json, yaml, missing :
        /\ list = IF d # "list" THEN Passed ELSE "PAYLOAD_TYPE_INVALID"
        /\ json = IF d # "malformed" THEN Passed ELSE "JSON_INVALID"
        /\ yaml = IF d # "malformed" THEN Passed ELSE "YAML_INVALID"
        /\ missing = IF YamlInstalled THEN Passed ELSE "YAML_DEPENDENCY_MISSING"
  OBVIOUS
<1>4. ASSUME JsonError(d) = Passed
      PROVE  d # "malformed" /\ d # "list"
  <2>1. PICK checks : checks = <<json, list>>
    OBVIOUS
  <2>2. FirstFailure(checks) = Passed
    <3>1. JsonError(d) = FirstFailure(<<IF d # "malformed" THEN Passed ELSE "JSON_INVALID",
                                        IF d # "list" THEN Passed ELSE "PAYLOAD_TYPE_INVALID">>)
      BY DEF JsonError, Check
    <3>2. checks = <<IF d # "malformed" THEN Passed ELSE "JSON_INVALID",
                     IF d # "list" THEN Passed ELSE "PAYLOAD_TYPE_INVALID">>
      BY <1>3, <2>1
    <3> QED BY <1>4, <3>1, <3>2
  <2>3. DOMAIN checks = 1..2 /\ checks[1] = json /\ checks[2] = list
    BY <2>1
  <2>4. \A i \in 1..2 : checks[i] = Passed
    BY <2>2, <2>3, NoFailure
  <2> QED BY <1>3, <2>3, <2>4 DEF Passed
<1>5. ASSUME YamlError(d) = Passed
      PROVE  d # "malformed" /\ d # "list"
  <2>1. PICK checks : checks = <<missing, yaml, list>>
    OBVIOUS
  <2>2. FirstFailure(checks) = Passed
    BY <1>3, <1>5, <2>1 DEF YamlError, Check
  <2>3. DOMAIN checks = 1..3 /\ checks[2] = yaml /\ checks[3] = list
    BY <2>1
  <2>4. \A i \in 1..3 : checks[i] = Passed
    BY <2>2, <2>3, NoFailure
  <2> QED BY <1>3, <2>3, <2>4 DEF Passed
<1> QED BY <1>1, <1>2, <1>4, <1>5

\* What from_dict takes: a node with an id and a list of dependencies that are names.
LEMMA NodeIsNode ==
  ASSUME NEW raw, IsRawNode(raw), NodeError(raw) = Passed
  PROVE  NodeOf(raw) \in TaskNodes
<1>1. raw # Odd
  BY DEF NodeError, Passed
<1>2. PICK e1, e2, e3, e4, e5, e6 :
        /\ e1 = IF IsName(raw.id) THEN Passed ELSE "NODE_ID_INVALID"
        /\ e2 = IF IsName(raw.role) THEN Passed ELSE "NODE_AGENT_ROLE_INVALID"
        /\ e3 = IF raw.depends # Odd /\ \A i \in DOMAIN raw.depends : IsName(raw.depends[i])
                THEN Passed ELSE "NODE_DEPENDENCIES_INVALID"
        /\ e4 = IF raw.timeout # Odd /\ raw.timeout > 0 THEN Passed ELSE "NODE_TIMEOUT_INVALID"
        /\ e5 = IF raw.retries # Odd /\ raw.retries >= 0 THEN Passed ELSE "NODE_RETRY_LIMIT_INVALID"
        /\ e6 = IF raw.metadata # Odd THEN Passed ELSE "NODE_METADATA_INVALID"
  OBVIOUS
<1>3. PICK checks : checks = <<e1, e2, e3, e4, e5, e6>>
  OBVIOUS
<1>4. FirstFailure(checks) = Passed
  BY <1>1, <1>2, <1>3 DEF NodeError, Check
<1>5. DOMAIN checks = 1..6 /\ checks[1] = e1 /\ checks[3] = e3
  BY <1>3
<1>6. \A i \in 1..6 : checks[i] = Passed
  BY <1>4, <1>5, NoFailure
<1>7. e1 = Passed /\ e3 = Passed
  BY <1>5, <1>6
<1>8. IsName(raw.id) /\ raw.depends # Odd /\ \A i \in DOMAIN raw.depends : IsName(raw.depends[i])
  BY <1>2, <1>7 DEF Passed
<1>9. raw.id \in Texts
  BY <1>1, <1>8 DEF IsRawNode, IsName
<1>10. PICK deps : deps = raw.depends
  OBVIOUS
<1>11. deps \in Seq(Texts \cup {Odd}) /\ \A i \in DOMAIN deps : deps[i] # Odd
  BY <1>1, <1>8, <1>10 DEF IsRawNode, IsName
<1>12. PICK m \in Nat : DOMAIN deps = 1..m
  BY <1>11
<1>13. \A i \in 1..m : deps[i] \in Texts
  BY <1>11, <1>12
<1>14. PICK names : names = [i \in 1..m |-> Stripped(deps[i])]
  OBVIOUS
<1>15. names \in [1..m -> STRING]
  BY <1>13, <1>14 DEF Stripped, Texts
<1>16. names \in Seq(STRING)
  BY <1>15
<1>17. Stripped(raw.id) \in STRING
  BY <1>9 DEF Stripped, Texts
<1>18. NodeOf(raw) = [id |-> Stripped(raw.id), depends |-> names]
  BY <1>10, <1>12, <1>14 DEF NodeOf
<1> QED BY <1>16, <1>17, <1>18 DEF TaskNodes

\* What from_dict accepts has nodes that TaskGraph takes.
LEMMA DefinitionIsGood ==
  ASSUME NEW payload, IsRawNodes(payload.nodes), DefinitionError(payload) = Passed
  PROVE  GoodNodes(NodesOf(payload))
<1>1. PICK raws : raws = payload.nodes
  OBVIOUS
<1>2. PICK header : header = HeaderError(payload)
  OBVIOUS
<1>3. header = Passed
  BY <1>2 DEF DefinitionError
<1>4. PICK errors : errors = [i \in DOMAIN raws |-> NodeError(raws[i])]
  OBVIOUS
<1>5. FirstFailure(errors) = Passed /\ Validated(payload.schema, NodesOf(payload)) = Passed
  BY <1>1, <1>2, <1>3, <1>4 DEF DefinitionError
<1>6. raws # Odd
  <2>1. PICK e1, e2, e3, e4, e5 :
          /\ e1 = IF IsName(payload.schema) THEN Passed ELSE "SCHEMA_VERSION_INVALID"
          /\ e2 = IF IsName(payload.id) THEN Passed ELSE "ID_INVALID"
          /\ e3 = IF IsName(payload.version) THEN Passed ELSE "VERSION_INVALID"
          /\ e4 = IF payload.nodes # Odd /\ payload.nodes # <<>> THEN Passed ELSE "NODES_INVALID"
          /\ e5 = IF payload.metadata # Odd THEN Passed ELSE "METADATA_INVALID"
    OBVIOUS
  <2>2. PICK checks : checks = <<e1, e2, e3, e4, e5>>
    OBVIOUS
  <2>3. FirstFailure(checks) = Passed
    BY <1>2, <1>3, <2>1, <2>2 DEF HeaderError, Check
  <2>4. DOMAIN checks = 1..5 /\ checks[4] = e4
    BY <2>2
  <2>5. \A i \in 1..5 : checks[i] = Passed
    BY <2>3, <2>4, NoFailure
  <2>6. e4 = Passed
    BY <2>4, <2>5
  <2> QED BY <1>1, <2>1, <2>6 DEF Passed
<1>7. PICK n \in Nat : n = Len(raws) /\ DOMAIN raws = 1..n /\ \A i \in 1..n : IsRawNode(raws[i])
  BY <1>1, <1>6 DEF IsRawNodes
<1>8. DOMAIN errors = 1..n /\ \A i \in 1..n : errors[i] = NodeError(raws[i])
  BY <1>4, <1>7
<1>9. \A i \in 1..n : errors[i] = Passed
  BY <1>5, <1>8, NoFailure
<1>10. \A i \in 1..n : NodeOf(raws[i]) \in TaskNodes
  BY <1>7, <1>8, <1>9, NodeIsNode
<1>11. PICK nodes : nodes = NodesOf(payload)
  OBVIOUS
<1>12. nodes = [i \in 1..n |-> NodeOf(raws[i])]
  BY <1>1, <1>7, <1>11 DEF NodesOf
<1>13. nodes \in [1..n -> TaskNodes] /\ DOMAIN nodes = 1..n
  BY <1>10, <1>12
<1>14. nodes \in Seq(TaskNodes)
  BY <1>13
<1>15. PICK faults : faults = [i \in DOMAIN nodes |-> NodeFault(nodes, i)]
  OBVIOUS
<1>16. ~HasDuplicate(nodes) /\ FirstFailure(faults) = Passed
  BY <1>5, <1>11, <1>15 DEF Validated, Passed
<1>17. DOMAIN faults = 1..n /\ \A i \in 1..n : faults[i] = NodeFault(nodes, i)
  BY <1>13, <1>15
<1>18. \A i \in 1..n : faults[i] = Passed
  BY <1>16, <1>17, NoFailure
<1>19. \A i \in 1..n : Depends(nodes[i]) \subseteq Ids(nodes)
  BY <1>17, <1>18 DEF NodeFault, Passed
<1>20. ~UnknownDependency(nodes)
  BY <1>13, <1>19 DEF UnknownDependency
<1> QED BY <1>11, <1>14, <1>16, <1>20 DEF GoodNodes

\* What the loader gets past has been read as an object and accepted by the schema.
LEMMA SourceIsGood ==
  ASSUME NEW file \in WorkflowFiles \cup {Missing}, SourceError(file) = Passed
  PROVE  GoodNodes(NodesOf(file.payload))
<1>1. file # Missing
  BY DEF SourceError, Passed
<1>2. PICK read : read = ReadError(file)
  OBVIOUS
<1>3. read = Passed /\ DefinitionError(file.payload) = Passed
  BY <1>1, <1>2 DEF SourceError
<1>4. file.document # "malformed" /\ file.document # "list"
  BY <1>2, <1>3, ReadIsObject
<1>5. IsRawNodes(file.payload.nodes)
  BY <1>1, <1>4, WorkflowsAssumption DEF WorkflowsAssumption
<1>6. PICK payload : payload = file.payload
  OBVIOUS
<1>7. IsRawNodes(payload.nodes) /\ DefinitionError(payload) = Passed
  BY <1>3, <1>5, <1>6
<1> QED BY <1>6, <1>7, DefinitionIsGood

\* An accepted graph never leaves the scheduler without a node that is ready.
LEMMA FoundedIsReady ==
  ASSUME NEW nodes, GoodNodes(nodes), Founded(DepsOf(nodes), Ids(nodes)),
         NEW completed \in SUBSET Ids(nodes), completed # Ids(nodes)
  PROVE  ReadyNodes(nodes, completed) # {}
<1>1. PICK I, dep : I = Ids(nodes) /\ dep = DepsOf(nodes)
  OBVIOUS
<1>2. /\ \A i \in DOMAIN nodes : ToSet(dep[nodes[i].id]) = Depends(nodes[i])
      /\ \A x \in I : \E i \in DOMAIN nodes : nodes[i].id = x
      /\ \A i \in DOMAIN nodes : nodes[i].id \in I
  BY <1>1, DepsAreThose
<1>3. I \ completed # {} /\ I \ completed \in SUBSET I
  BY <1>1
<1>4. PICK u \in I \ completed : ToSet(dep[u]) \cap (I \ completed) = {}
  BY <1>1, <1>3 DEF Founded
<1>5. PICK i \in DOMAIN nodes : nodes[i].id = u
  BY <1>2, <1>4
<1>6. Depends(nodes[i]) \subseteq I
  BY <1>1 DEF GoodNodes, UnknownDependency
<1>7. Depends(nodes[i]) \subseteq completed
  BY <1>2, <1>4, <1>5, <1>6
<1>8. i \in ReadyNodes(nodes, completed)
  BY <1>4, <1>5, <1>7 DEF ReadyNodes
<1> QED BY <1>8

\* A graph that is under construction, or has its verdict.
IsGraph(g) ==
  g = [at |-> g.at, origin |-> g.origin, nodes |-> g.nodes, visited |-> g.visited,
       active |-> g.active, pending |-> g.pending, path |-> g.path]

GraphFound(g) ==
  /\ IsGraph(g)
  /\ g.at \in {"duplicate", "unknown", "searching", "cycle", "accepted"}
  /\ g.origin = "workflow" => g.at \notin {"duplicate", "unknown"}
  /\ g.at \in {"searching", "cycle", "accepted"} => GoodNodes(g.nodes)
  /\ g.at = "searching" => /\ SearchInv(Ids(g.nodes), DepsOf(g.nodes), g.visited, g.path, g.pending)
                           /\ g.active = ToSet(g.path)
  /\ g.at = "accepted" => Founded(DepsOf(g.nodes), Ids(g.nodes))
  /\ g.at = "cycle" => \E S \in SUBSET Ids(g.nodes) : Stuck(DepsOf(g.nodes), S)

WorkflowInv ==
  /\ disk = [p \in Paths |-> disk[p]] /\ \A p \in Paths : disk[p] \in WorkflowFiles \cup {Missing}
  /\ workflows = [k \in WorkflowKeys |-> workflows[k]]
  /\ \A k \in WorkflowKeys : workflows[k] # NoHandle => GoodNodes(workflows[k].nodes)
  /\ graph = NoGraph \/ GraphFound(graph)

\* What the constructor returns agrees with the graph it was given.
LEMMA ConstructIsFound ==
  ASSUME NEW nodes \in Seq(TaskNodes), NEW built, built = "workflow" => GoodNodes(nodes)
  PROVE  GraphFound(Construct(nodes, built))
<1>1. PICK reached : reached = IF HasDuplicate(nodes) THEN "duplicate"
                               ELSE IF UnknownDependency(nodes) THEN "unknown"
                               ELSE "searching"
  OBVIOUS
<1>2. PICK ids : ids = [i \in DOMAIN nodes |-> nodes[i].id]
  OBVIOUS
<1>3. PICK g : g = Construct(nodes, built)
  OBVIOUS
<1>4. g = [at |-> reached, origin |-> built, nodes |-> nodes, visited |-> {}, active |-> {},
           pending |-> << ids >>, path |-> <<>>]
  BY <1>1, <1>2, <1>3 DEF Construct
<1>5. /\ g.at = reached /\ g.origin = built /\ g.nodes = nodes
      /\ g.visited = {} /\ g.active = {} /\ g.pending = <<ids>> /\ g.path = <<>>
  BY <1>4
<1>6. IsGraph(g)
  BY <1>4, <1>5 DEF IsGraph
<1>7. ASSUME reached = "searching"
      PROVE  /\ GoodNodes(nodes)
             /\ SearchInv(Ids(nodes), DepsOf(nodes), g.visited, g.path, g.pending)
  <2>1. GoodNodes(nodes)
    BY <1>1, <1>7 DEF GoodNodes
  <2>2. PICK I, dep : I = Ids(nodes) /\ dep = DepsOf(nodes)
    OBVIOUS
  <2>3. dep \in [I -> Lists(I)] /\ ids \in Lists(I) /\ ToSet(ids) = I
    BY <1>2, <2>1, <2>2, DepsAreThose
  <2>4. PICK visited, path, pending : visited = g.visited /\ path = g.path /\ pending = g.pending
    OBVIOUS
  <2>5. Begins(pending, path, visited, ids)
    BY <1>5, <2>4 DEF Begins
  <2>6. SearchInv(I, dep, visited, path, pending)
    BY <2>3, <2>5, SearchBegins
  <2> QED BY <2>1, <2>2, <2>4, <2>6
<1>8. g.active = ToSet(g.path)
  BY <1>5 DEF ToSet
<1>9. built = "workflow" => reached = "searching"
  BY <1>1 DEF GoodNodes
<1>10. reached \in {"duplicate", "unknown", "searching"}
  BY <1>1
<1>11. GraphFound(g)
  BY <1>5, <1>6, <1>7, <1>8, <1>9, <1>10 DEF GraphFound
<1> QED BY <1>3, <1>11

\* Building a graph, from a loaded file or a caller, keeps the invariant.
LEMMA BuildKeeps ==
  ASSUME WorkflowInv,
         (\E k \in WorkflowKeys : BuildLoaded(k)) \/ (\E nodes \in CallerGraphs : BuildGraph(nodes))
  PROVE  WorkflowInv'
<1>1. UNCHANGED <<disk, workflows>>
  BY DEF BuildLoaded, BuildGraph
<1>2. GraphFound(graph')
  <2>1. ASSUME NEW k \in WorkflowKeys, BuildLoaded(k)
        PROVE  GraphFound(graph')
    <3>1. PICK nodes : nodes = workflows[k].nodes
      OBVIOUS
    <3>2. GoodNodes(nodes) /\ graph' = Construct(nodes, "workflow")
      BY <2>1, <3>1 DEF BuildLoaded, WorkflowInv
    <3>3. nodes \in Seq(TaskNodes)
      BY <3>2 DEF GoodNodes
    <3> QED BY <3>2, <3>3, ConstructIsFound
  <2>2. ASSUME NEW nodes \in CallerGraphs, BuildGraph(nodes)
        PROVE  GraphFound(graph')
    <3>1. nodes \in Seq(TaskNodes) /\ graph' = Construct(nodes, "caller")
      BY <2>2, WorkflowsAssumption DEF BuildGraph, WorkflowsAssumption
    <3> QED BY <3>1, ConstructIsFound
  <2> QED BY <2>1, <2>2
<1> QED BY <1>1, <1>2 DEF WorkflowInv

\* Writing, loading and discarding a file keep the invariant.
LEMMA FilesKeep ==
  ASSUME WorkflowInv,
         \/ \E p \in Paths, c \in WorkflowFiles \cup {Missing} : WriteFile(p, c)
         \/ \E p \in Paths, replace \in BOOLEAN : LoadWorkflow(p, replace)
         \/ Discard
  PROVE  WorkflowInv'
<1>1. ASSUME NEW p \in Paths, NEW c \in WorkflowFiles \cup {Missing}, WriteFile(p, c)
      PROVE  WorkflowInv'
  <2>1. /\ disk' = [disk EXCEPT ![p] = c] /\ UNCHANGED <<workflows, graph>>
    BY <1>1 DEF WriteFile
  <2>2. /\ disk = [q \in Paths |-> disk[q]] /\ \A q \in Paths : disk[q] \in WorkflowFiles \cup {Missing}
    BY DEF WorkflowInv
  <2>3. /\ disk' = [q \in Paths |-> disk'[q]] /\ \A q \in Paths : disk'[q] \in WorkflowFiles \cup {Missing}
    BY <2>1, <2>2
  <2> QED BY <2>1, <2>3 DEF WorkflowInv
<1>2. ASSUME NEW p \in Paths, NEW replace \in BOOLEAN, LoadWorkflow(p, replace)
      PROVE  WorkflowInv'
  <2>1. UNCHANGED <<disk, graph>>
    BY <1>2 DEF LoadWorkflow
  <2>2. PICK file : file = disk[p]
    OBVIOUS
  <2>3. PICK key : key = HandleKey(file.payload)
    OBVIOUS
  <2>4. \/ UNCHANGED workflows
        \/ SourceError(file) = Passed /\ workflows' = [workflows EXCEPT ![key] = Handle(p, file.payload)]
    BY <1>2, <2>2, <2>3 DEF LoadWorkflow
  <2>5. CASE UNCHANGED workflows
    BY <2>1, <2>5 DEF WorkflowInv
  <2>6. CASE SourceError(file) = Passed /\ workflows' = [workflows EXCEPT ![key] = Handle(p, file.payload)]
    <3>1. file \in WorkflowFiles \cup {Missing}
      BY <2>2 DEF WorkflowInv
    <3>2. PICK handle : handle = Handle(p, file.payload)
      OBVIOUS
    <3>3. GoodNodes(NodesOf(file.payload))
      BY <2>6, <3>1, SourceIsGood
    <3>4. handle.nodes = NodesOf(file.payload)
      BY <3>2 DEF Handle
    <3>5. GoodNodes(handle.nodes)
      BY <3>3, <3>4
    <3>6. workflows = [k \in WorkflowKeys |-> workflows[k]]
      BY DEF WorkflowInv
    <3>7. workflows' = [workflows EXCEPT ![key] = handle]
      BY <2>6, <3>2
    <3>8. /\ workflows' = [k \in WorkflowKeys |-> workflows'[k]]
          /\ \A k \in WorkflowKeys : workflows'[k] = handle \/ workflows'[k] = workflows[k]
      BY <3>6, <3>7
    <3>9. \A k \in WorkflowKeys : workflows'[k] # NoHandle => GoodNodes(workflows'[k].nodes)
      BY <3>5, <3>8 DEF WorkflowInv
    <3> QED BY <2>1, <3>8, <3>9 DEF WorkflowInv
  <2> QED BY <2>4, <2>5, <2>6
<1>3. CASE Discard
  BY <1>3 DEF Discard, WorkflowInv
<1> QED BY <1>1, <1>2, <1>3

\* dfs, call by call.
LEMMA CallKeeps ==
  ASSUME WorkflowInv, DfsCall
  PROVE  WorkflowInv'
<1>1. PICK g : g = graph
  OBVIOUS
<1>2. GraphFound(g) /\ g.at = "searching" /\ UNCHANGED <<disk, workflows>>
  <2>1. NoGraph.at # "searching"
    BY DEF NoGraph
  <2> QED BY <1>1, <2>1 DEF DfsCall, WorkflowInv
<1>3. PICK nodes, built, visited, active, pending, path :
        /\ nodes = g.nodes /\ built = g.origin /\ visited = g.visited /\ active = g.active
        /\ pending = g.pending /\ path = g.path
  OBVIOUS
<1>4. g = [at |-> "searching", origin |-> built, nodes |-> nodes, visited |-> visited,
           active |-> active, pending |-> pending, path |-> path]
  BY <1>2, <1>3 DEF GraphFound, IsGraph
<1>5. PICK I, dep : I = Ids(nodes) /\ dep = DepsOf(nodes)
  OBVIOUS
<1>6. GoodNodes(nodes) /\ SearchInv(I, dep, visited, path, pending) /\ active = ToSet(path)
  BY <1>2, <1>3, <1>5 DEF GraphFound
<1>7. pending \in Seq(Lists(I)) /\ path \in Seq(I) /\ Len(pending) = Len(path) + 1
  BY <1>6 DEF SearchInv, SearchTyped
<1>8. PICK n \in Nat : n = Len(pending) /\ n >= 1
  BY <1>7
<1>9. PICK s : s = pending[n]
  OBVIOUS
<1>10. s = Last(graph.pending) /\ s # <<>>
  BY <1>1, <1>3, <1>8, <1>9 DEF DfsCall, Last
<1>11. PICK x : x = Head(s)
  OBVIOUS
<1>12. Called = x
  BY <1>10, <1>11 DEF Called
<1>13. PICK adv : adv = [pending EXCEPT ![n] = Tail(s)]
  OBVIOUS
<1>14. Advanced = adv
  BY <1>1, <1>3, <1>8, <1>10, <1>13 DEF Advanced
<1>15. Advances(pending, n, s, adv)
  BY <1>8, <1>9, <1>10, <1>13 DEF Advances
<1>16. active = {path[i] : i \in 1..Len(path)}
  BY <1>6, <1>7 DEF ToSet
<1>17. GraphFound(graph')
  <2>1. CASE x \in active
    <3>1. graph' = [g EXCEPT !.at = "cycle"]
      BY <1>1, <1>3, <1>12, <2>1 DEF DfsCall
    <3>2. PICK i \in 1..Len(path) : path[i] = Head(s)
      BY <1>11, <1>16, <2>1
    <3>3. \E S \in SUBSET I : Stuck(dep, S)
      BY <1>6, <1>15, <3>2, CycleIsThere
    <3>4. PICK new : new = [at |-> "cycle", origin |-> built, nodes |-> nodes, visited |-> visited,
                            active |-> active, pending |-> pending, path |-> path]
      OBVIOUS
    <3>5. graph' = new
      BY <1>4, <3>1, <3>4
    <3>6. IsGraph(new) /\ new.at = "cycle" /\ new.nodes = nodes
      BY <3>4 DEF IsGraph
    <3> QED BY <1>5, <1>6, <3>3, <3>5, <3>6 DEF GraphFound
  <2>2. CASE x \notin active /\ x \in visited
    <3>1. graph' = [g EXCEPT !.pending = adv]
      BY <1>1, <1>3, <1>12, <1>14, <2>2 DEF DfsCall
    <3>2. SearchInv(I, dep, visited, path, adv)
      BY <1>6, <1>11, <1>15, <2>2, SkipKeeps
    <3>3. PICK new : new = [at |-> "searching", origin |-> built, nodes |-> nodes, visited |-> visited,
                            active |-> active, pending |-> adv, path |-> path]
      OBVIOUS
    <3>4. graph' = new
      BY <1>4, <3>1, <3>3
    <3>5. /\ IsGraph(new) /\ new.at = "searching" /\ new.nodes = nodes /\ new.visited = visited
          /\ new.active = active /\ new.pending = adv /\ new.path = path
      BY <3>3 DEF IsGraph
    <3> QED BY <1>5, <1>6, <3>2, <3>4, <3>5 DEF GraphFound
  <2>3. CASE x \notin active /\ x \notin visited
    <3>1. x \in I
      BY <1>7, <1>11, <1>15, AdvanceIs
    <3>2. PICK list : list = dep[x]
      OBVIOUS
    <3>3. DependsOf(graph.nodes, Called) = list
      BY <1>1, <1>3, <1>5, <1>12, <3>1, <3>2 DEF DepsOf
    <3>4. PICK pending2, path2, active2 :
            pending2 = Append(adv, list) /\ path2 = Append(path, x) /\ active2 = active \cup {x}
      OBVIOUS
    <3>5. graph' = [g EXCEPT !.pending = pending2, !.path = path2, !.active = active2]
      BY <1>1, <1>3, <1>12, <1>14, <2>3, <3>3, <3>4 DEF DfsCall
    <3>6. Descends(adv, dep[x], path, x, pending2, path2)
      BY <3>2, <3>4 DEF Descends
    <3>7. \A i \in 1..Len(path) : path[i] # x
      BY <1>16, <2>3
    <3>8. SearchInv(I, dep, visited, path2, pending2)
      BY <1>6, <1>11, <1>15, <2>3, <3>6, <3>7, DescendKeeps
    <3>9. active2 = ToSet(path2)
      <4>1. PICK l \in Nat : l = Len(path)
        BY <1>7
      <4>2. /\ DOMAIN path2 = 1..(l + 1) /\ path2[l + 1] = x
            /\ \A i \in 1..l : path2[i] = path[i]
        BY <1>7, <3>1, <3>4, <4>1
      <4>3. \A i \in 1..(l + 1) : i \in 1..l \/ i = l + 1
        BY <4>1
      <4>4. l + 1 \in 1..(l + 1) /\ \A i \in 1..l : i \in 1..(l + 1)
        BY <4>1
      <4> QED BY <1>16, <3>4, <4>1, <4>2, <4>3, <4>4 DEF ToSet
    <3>10. PICK new : new = [at |-> "searching", origin |-> built, nodes |-> nodes, visited |-> visited,
                             active |-> active2, pending |-> pending2, path |-> path2]
      OBVIOUS
    <3>11. graph' = new
      <4>1. PICK g1 : g1 = [g EXCEPT !.pending = pending2]
        OBVIOUS
      <4>a. PICK g2 : g2 = [g1 EXCEPT !.path = path2]
        OBVIOUS
      <4>2. graph' = [g2 EXCEPT !.active = active2]
        BY <3>5, <4>1, <4>a
      <4>3. g1 = [at |-> "searching", origin |-> built, nodes |-> nodes, visited |-> visited,
                  active |-> active, pending |-> pending2, path |-> path]
        BY <1>4, <4>1
      <4>4. g2 = [at |-> "searching", origin |-> built, nodes |-> nodes, visited |-> visited,
                  active |-> active, pending |-> pending2, path |-> path2]
        BY <4>a, <4>3
      <4> QED BY <3>10, <4>2, <4>4
    <3>12. /\ IsGraph(new) /\ new.at = "searching" /\ new.nodes = nodes /\ new.visited = visited
           /\ new.active = active2 /\ new.pending = pending2 /\ new.path = path2
      BY <3>10 DEF IsGraph
    <3> QED BY <1>5, <1>6, <3>8, <3>9, <3>11, <3>12 DEF GraphFound
  <2> QED BY <2>1, <2>2, <2>3
<1> QED BY <1>2, <1>17 DEF WorkflowInv

\* ... and return by return.
LEMMA ReturnKeepsGraph ==
  ASSUME WorkflowInv, DfsReturn
  PROVE  WorkflowInv'
<1>1. PICK g : g = graph
  OBVIOUS
<1>2. GraphFound(g) /\ g.at = "searching" /\ UNCHANGED <<disk, workflows>>
  <2>1. NoGraph.at # "searching"
    BY DEF NoGraph
  <2> QED BY <1>1, <2>1 DEF DfsReturn, WorkflowInv
<1>3. PICK nodes, built, visited, active, pending, path :
        /\ nodes = g.nodes /\ built = g.origin /\ visited = g.visited /\ active = g.active
        /\ pending = g.pending /\ path = g.path
  OBVIOUS
<1>4. g = [at |-> "searching", origin |-> built, nodes |-> nodes, visited |-> visited,
           active |-> active, pending |-> pending, path |-> path]
  BY <1>2, <1>3 DEF GraphFound, IsGraph
<1>5. PICK I, dep : I = Ids(nodes) /\ dep = DepsOf(nodes)
  OBVIOUS
<1>6. GoodNodes(nodes) /\ SearchInv(I, dep, visited, path, pending) /\ active = ToSet(path)
  BY <1>2, <1>3, <1>5 DEF GraphFound
<1>7. pending \in Seq(Lists(I)) /\ path \in Seq(I) /\ Len(pending) = Len(path) + 1
  BY <1>6 DEF SearchInv, SearchTyped
<1>8. PICK n \in Nat : n = Len(pending) /\ n >= 1
  BY <1>7
<1>9. pending[n] = <<>>
  BY <1>1, <1>3, <1>8 DEF DfsReturn, Last
<1>10. GraphFound(graph')
  <2>1. CASE path = <<>>
    <3>1. graph' = [g EXCEPT !.at = "accepted"]
      BY <1>1, <1>3, <2>1 DEF DfsReturn
    <3>2. Ends(pending, path)
      BY <1>8, <1>9, <2>1 DEF Ends
    <3>3. Founded(dep, I)
      BY <1>6, <3>2, AllAreFounded
    <3>4. PICK new : new = [at |-> "accepted", origin |-> built, nodes |-> nodes, visited |-> visited,
                            active |-> active, pending |-> pending, path |-> path]
      OBVIOUS
    <3>5. graph' = new
      BY <1>4, <3>1, <3>4
    <3>6. IsGraph(new) /\ new.at = "accepted" /\ new.nodes = nodes
      BY <3>4 DEF IsGraph
    <3> QED BY <1>5, <1>6, <3>3, <3>5, <3>6 DEF GraphFound
  <2>2. CASE path # <<>>
    <3>1. PICK v, pending2, path2 :
            v = path[Len(path)] /\ pending2 = Front(pending) /\ path2 = Front(path)
      OBVIOUS
    <3>2. PICK active2, visited2 : active2 = active \ {v} /\ visited2 = visited \cup {v}
      OBVIOUS
    <3>3. v = Last(graph.path)
      BY <1>1, <1>3, <3>1 DEF Last
    <3>4. graph' = [g EXCEPT !.pending = pending2, !.path = path2, !.active = active2, !.visited = visited2]
      BY <1>1, <1>3, <2>2, <3>1, <3>2, <3>3 DEF DfsReturn
    <3>5. Returns(pending, n, path, v, pending2, path2)
      BY <1>8, <1>9, <2>2, <3>1 DEF Returns
    <3>6. SearchInv(I, dep, visited2, path2, pending2)
      BY <1>6, <3>2, <3>5, CycleReturnKeeps
    <3>7. active2 = ToSet(path2)
      <4>1. PICK l \in Nat : l + 1 = Len(path)
        <5>1. Len(path) \in Nat /\ Len(path) # 0
          BY <1>7, <2>2
        <5>2. Len(path) - 1 \in Nat /\ (Len(path) - 1) + 1 = Len(path)
          BY <5>1
        <5> QED BY <5>2
      <4>2. path2 \in Seq(I) /\ Len(path2) = l /\ \A i \in 1..l : path2[i] = path[i]
        BY <1>7, <3>1, <4>1, FrontIs
      <4>3. DOMAIN path2 = 1..l /\ DOMAIN path = 1..(l + 1) /\ v = path[l + 1]
        BY <1>7, <3>1, <4>1, <4>2
      <4>4. \A i, j \in 1..(l + 1) : path[i] = path[j] => i = j
        BY <1>6, <4>1 DEF SearchInv, PathSimple
      <4>5. /\ \A i \in 1..(l + 1) : i \in 1..l \/ i = l + 1
            /\ l + 1 \in 1..(l + 1) /\ \A i \in 1..l : i \in 1..(l + 1) /\ i # l + 1
        BY <4>1
      <4>6. active = {path[i] : i \in 1..(l + 1)}
        BY <1>6, <4>3 DEF ToSet
      <4>7. ToSet(path2) = {path[i] : i \in 1..l}
        BY <4>2, <4>3 DEF ToSet
      <4> QED BY <3>2, <4>3, <4>4, <4>5, <4>6, <4>7
    <3>8. PICK new : new = [at |-> "searching", origin |-> built, nodes |-> nodes, visited |-> visited2,
                            active |-> active2, pending |-> pending2, path |-> path2]
      OBVIOUS
    <3>9. graph' = new
      <4>1. PICK g1 : g1 = [g EXCEPT !.pending = pending2]
        OBVIOUS
      <4>a. PICK g2 : g2 = [g1 EXCEPT !.path = path2]
        OBVIOUS
      <4>b. PICK g3 : g3 = [g2 EXCEPT !.active = active2]
        OBVIOUS
      <4>2. graph' = [g3 EXCEPT !.visited = visited2]
        BY <3>4, <4>1, <4>a, <4>b
      <4>3. g1 = [at |-> "searching", origin |-> built, nodes |-> nodes, visited |-> visited,
                  active |-> active, pending |-> pending2, path |-> path]
        BY <1>4, <4>1
      <4>4. g2 = [at |-> "searching", origin |-> built, nodes |-> nodes, visited |-> visited,
                  active |-> active, pending |-> pending2, path |-> path2]
        BY <4>a, <4>3
      <4>5. g3 = [at |-> "searching", origin |-> built, nodes |-> nodes, visited |-> visited,
                  active |-> active2, pending |-> pending2, path |-> path2]
        BY <4>b, <4>4
      <4> QED BY <3>8, <4>2, <4>5
    <3>10. /\ IsGraph(new) /\ new.at = "searching" /\ new.nodes = nodes /\ new.visited = visited2
           /\ new.active = active2 /\ new.pending = pending2 /\ new.path = path2
      BY <3>8 DEF IsGraph
    <3> QED BY <1>5, <1>6, <3>6, <3>7, <3>9, <3>10 DEF GraphFound
  <2> QED BY <2>1, <2>2
<1> QED BY <1>2, <1>10 DEF WorkflowInv

\* The invariant holds at the start.
LEMMA WorkflowInitKeeps == WorkflowInit => WorkflowInv
BY DEF WorkflowInit, WorkflowInv

\* Every step keeps the invariant.
LEMMA WorkflowStepKeeps == WorkflowInv /\ [WorkflowNext]_workflowVars => WorkflowInv'
<1>1. SUFFICES ASSUME WorkflowInv, [WorkflowNext]_workflowVars
               PROVE  WorkflowInv'
  OBVIOUS
<1>2. CASE UNCHANGED workflowVars
  BY <1>1, <1>2 DEF workflowVars, WorkflowInv
<1>3. CASE WorkflowNext
  BY <1>1, <1>3, FilesKeep, BuildKeeps, CallKeeps, ReturnKeepsGraph DEF WorkflowNext
<1> QED BY <1>1, <1>2, <1>3

\* What the invariant says of a verdict.
LEMMA VerdictsAreRight == WorkflowInv => GraphsSound
<1>1. SUFFICES ASSUME WorkflowInv
               PROVE  GraphsSound
  OBVIOUS
<1>2. CASE graph = NoGraph
  BY <1>2 DEF NoGraph, GraphsSound, AcceptedNeverStalls, LoadedOnlyCycles
<1>3. CASE GraphFound(graph)
  <2>1. PICK nodes : nodes = graph.nodes
    OBVIOUS
  <2>2. ASSUME graph.at = "accepted", NEW completed \in SUBSET Ids(nodes), completed # Ids(nodes)
        PROVE  ReadyNodes(nodes, completed) # {}
    <3>1. GoodNodes(nodes) /\ Founded(DepsOf(nodes), Ids(nodes))
      BY <1>3, <2>1, <2>2 DEF GraphFound
    <3> QED BY <2>2, <3>1, FoundedIsReady
  <2>3. ASSUME graph.at = "cycle"
        PROVE  \E stuck \in SUBSET Ids(nodes) \ {{}} :
                 \A i \in DOMAIN nodes : nodes[i].id \in stuck => Depends(nodes[i]) \cap stuck # {}
    <3>1. GoodNodes(nodes) /\ \E S \in SUBSET Ids(nodes) : Stuck(DepsOf(nodes), S)
      BY <1>3, <2>1, <2>3 DEF GraphFound
    <3>2. PICK S \in SUBSET Ids(nodes) : Stuck(DepsOf(nodes), S)
      BY <3>1
    <3>3. PICK dep : dep = DepsOf(nodes)
      OBVIOUS
    <3>4. \A i \in DOMAIN nodes : ToSet(dep[nodes[i].id]) = Depends(nodes[i])
      BY <3>1, <3>3, DepsAreThose
    <3>5. S # {} /\ \A u \in S : ToSet(dep[u]) \cap S # {}
      BY <3>2, <3>3 DEF Stuck
    <3>6. \A i \in DOMAIN nodes : nodes[i].id \in S => Depends(nodes[i]) \cap S # {}
      BY <3>4, <3>5
    <3> QED BY <3>2, <3>5, <3>6
  <2>4. AcceptedNeverStalls
    BY <2>1, <2>2, <2>3 DEF AcceptedNeverStalls
  <2>5. LoadedOnlyCycles
    BY <1>3 DEF GraphFound, LoadedOnlyCycles
  <2> QED BY <2>4, <2>5 DEF GraphsSound
<1> QED BY <1>1, <1>2, <1>3 DEF WorkflowInv

\* The verdicts of TaskGraph are right for every graph: one that _validate_acyclic accepts
\* always has a node ready until all have completed, one it refuses as cyclic has nodes that
\* wait for each other, and no workflow the loader accepted is refused for anything else.
THEOREM VerdictsAreSound == WorkflowSpec => []GraphsSound
BY WorkflowInitKeeps, WorkflowStepKeeps, VerdictsAreRight, PTL DEF WorkflowSpec

-----------------------------------------------------------------------------
(* Agents and handoffs.                                                    *)

\* The roles that the agents in ag hold.
Held(ag) == {ag[a].role : a \in {b \in Agents : ag[b] # NoSpec}}

\* A role has one agent, and a registered agent a role.
OneAgentEach(ag) ==
  /\ ag \in [Agents -> Specs \cup {NoSpec}]
  /\ \A a, b \in Agents : ag[a] # NoSpec /\ ag[a].role = ag[b].role => a = b

\* Routes join roles that are held, and whoever holds the target has what is required.
RoutesFit(ag, ro) ==
  /\ DOMAIN ro \subseteq Pairs
  /\ \A p \in DOMAIN ro :
       /\ p[1] \in Held(ag) /\ p[2] \in Held(ag)
       /\ \A a \in Agents : ag[a].role = p[2] => ro[p] \subseteq ag[a].caps

\* A policy belongs to a role that is held.
PoliciesFit(ag, fa) ==
  DOMAIN fa \subseteq Pairs /\ \A p \in DOMAIN fa : p[1] \in Held(ag)

\* Priorities are numbers for roles that are held.
PrioritiesFit(ag, pr) ==
  /\ DOMAIN pr \subseteq Pairs
  /\ \A p \in DOMAIN pr :
       /\ p[1] \in Held(ag) /\ DOMAIN pr[p] \subseteq Held(ag)
       /\ \A r \in DOMAIN pr[p] : pr[p][r] \in Int

IsRegistry(g, ag, ro, fa, pr) ==
  g = [agents |-> ag, routes |-> ro, fallback |-> fa, priorities |-> pr]

\* A registry in which nothing points at what is gone.
GoodRegistry(g) ==
  /\ IsRegistry(g, g.agents, g.routes, g.fallback, g.priorities)
  /\ OneAgentEach(g.agents)
  /\ RoutesFit(g.agents, g.routes)
  /\ PoliciesFit(g.agents, g.fallback)
  /\ PrioritiesFit(g.agents, g.priorities)

\* A registry is good when its parts are.
LEMMA PartsMakeGood ==
  ASSUME NEW g, NEW ag, NEW ro, NEW fa, NEW pr, IsRegistry(g, ag, ro, fa, pr),
         OneAgentEach(ag), RoutesFit(ag, ro), PoliciesFit(ag, fa), PrioritiesFit(ag, pr)
  PROVE  GoodRegistry(g)
<1>1. g.agents = ag /\ g.routes = ro /\ g.fallback = fa /\ g.priorities = pr
  BY DEF IsRegistry
<1> QED BY <1>1 DEF GoodRegistry

\* An empty registry is good.
LEMMA EmptyIsGood == GoodRegistry(EmptyRegistry)
<1>1. PICK ag : ag = [a \in Agents |-> NoSpec]
  OBVIOUS
<1>2. ag \in [Agents -> Specs \cup {NoSpec}] /\ \A a \in Agents : ag[a] = NoSpec
  BY <1>1
<1>3. OneAgentEach(ag)
  BY <1>2 DEF OneAgentEach
<1>4. PICK no : no = Nothing
  OBVIOUS
<1>5. DOMAIN no = {}
  BY <1>4 DEF Nothing
<1>6. RoutesFit(ag, no) /\ PoliciesFit(ag, no) /\ PrioritiesFit(ag, no)
  BY <1>5 DEF RoutesFit, PoliciesFit, PrioritiesFit
<1>7. IsRegistry(EmptyRegistry, ag, no, no, no)
  BY <1>1, <1>4 DEF EmptyRegistry, IsRegistry
<1> QED BY <1>3, <1>6, <1>7, PartsMakeGood

\* register adds an agent for a role that nobody holds: what was held still is.
LEMMA RegisterKeepsParts ==
  ASSUME NEW ag, NEW ro, NEW fa, NEW pr, NEW a \in Agents, NEW spec \in Specs,
         OneAgentEach(ag), RoutesFit(ag, ro), PoliciesFit(ag, fa), PrioritiesFit(ag, pr),
         ag[a] = NoSpec, spec.role \notin Held(ag),
         NEW new, new = [ag EXCEPT ![a] = spec]
  PROVE  /\ OneAgentEach(new) /\ RoutesFit(new, ro)
         /\ PoliciesFit(new, fa) /\ PrioritiesFit(new, pr)
<1>1. ag \in [Agents -> Specs \cup {NoSpec}]
  BY DEF OneAgentEach
<1>2. /\ new \in [Agents -> Specs \cup {NoSpec}]
      /\ new[a] = spec /\ \A b \in Agents : b # a => new[b] = ag[b]
  BY <1>1
<1>3. spec # NoSpec /\ spec.role \in Roles
  BY RoutingAssumption DEF Specs, NoSpec
<1>4. \A b \in Agents : ag[b] # NoSpec => ag[b].role \in Held(ag)
  BY DEF Held
<1>5. \A b \in Agents : ag[b] = NoSpec => ag[b].role = Unbound
  BY DEF NoSpec
<1>6. \A b \in Agents : ag[b].role # spec.role
  BY <1>3, <1>4, <1>5, RoutingAssumption
<1>7. Held(ag) \subseteq Held(new)
  <2>1. SUFFICES ASSUME NEW b \in Agents, ag[b] # NoSpec
                 PROVE  ag[b].role \in Held(new)
    BY DEF Held
  <2>2. b # a /\ new[b] = ag[b]
    BY <1>2, <2>1
  <2> QED BY <2>1, <2>2 DEF Held
<1>8. OneAgentEach(new)
  <2>1. SUFFICES ASSUME NEW b \in Agents, NEW c \in Agents, new[b] # NoSpec,
                        new[b].role = new[c].role
                 PROVE  b = c
    BY <1>2 DEF OneAgentEach
  <2>2. CASE b = a
    BY <1>2, <1>6, <2>1, <2>2
  <2>3. CASE b # a /\ c = a
    BY <1>2, <1>6, <2>1, <2>3
  <2>4. CASE b # a /\ c # a
    BY <1>2, <2>1, <2>4 DEF OneAgentEach
  <2> QED BY <2>2, <2>3, <2>4
<1>9. RoutesFit(new, ro)
  <2>1. SUFFICES ASSUME NEW p \in DOMAIN ro, NEW b \in Agents, new[b].role = p[2]
                 PROVE  ro[p] \subseteq new[b].caps
    BY <1>7 DEF RoutesFit
  <2>2. p[2] \in Held(ag)
    BY DEF RoutesFit
  <2>3. b # a
    BY <1>2, <2>1, <2>2
  <2> QED BY <1>2, <2>1, <2>3 DEF RoutesFit
<1>10. PoliciesFit(new, fa) /\ PrioritiesFit(new, pr)
  BY <1>7 DEF PoliciesFit, PrioritiesFit
<1> QED BY <1>8, <1>9, <1>10

\* Registering an agent keeps a registry good, whether it returns or raises.
LEMMA RegisterKeepsGood ==
  ASSUME NEW g, GoodRegistry(g), NEW a \in Agents, NEW spec \in Specs
  PROVE  /\ GoodRegistry(Register(g, a, spec).reg)
         /\ Register(g, a, spec).end \in {"returned", "raised"}
<1>1. PICK ag, ro, fa, pr :
        ag = g.agents /\ ro = g.routes /\ fa = g.fallback /\ pr = g.priorities
  OBVIOUS
<1>2. /\ g = [agents |-> ag, routes |-> ro, fallback |-> fa, priorities |-> pr]
      /\ OneAgentEach(ag) /\ RoutesFit(ag, ro) /\ PoliciesFit(ag, fa) /\ PrioritiesFit(ag, pr)
  BY <1>1 DEF GoodRegistry, IsRegistry
<1>3. Registered(g, a) = (ag[a] # NoSpec) /\ HeldRoles(g) = Held(ag)
  BY <1>1 DEF Registered, HeldRoles, Held
<1>4. CASE Registered(g, a) \/ spec.role \in HeldRoles(g)
  <2>1. Register(g, a, spec) = [reg |-> g, end |-> "raised"]
    BY <1>4 DEF Register, Raises
  <2> QED BY <2>1
<1>5. CASE ~ (Registered(g, a) \/ spec.role \in HeldRoles(g))
  <2>1. PICK new : new = [ag EXCEPT ![a] = spec]
    OBVIOUS
  <2>2. PICK h : h = [agents |-> new, routes |-> ro, fallback |-> fa, priorities |-> pr]
    OBVIOUS
  <2>3. h = [g EXCEPT !.agents = [@ EXCEPT ![a] = spec]]
    BY <1>1, <1>2, <2>1, <2>2
  <2>4. Register(g, a, spec) = [reg |-> h, end |-> "returned"]
    BY <1>5, <2>3 DEF Register, Succeeds
  <2>5. /\ OneAgentEach(new) /\ RoutesFit(new, ro)
        /\ PoliciesFit(new, fa) /\ PrioritiesFit(new, pr)
    BY <1>2, <1>3, <1>5, <2>1, RegisterKeepsParts
  <2>6. IsRegistry(h, new, ro, fa, pr)
    BY <2>2 DEF IsRegistry
  <2>7. GoodRegistry(h)
    BY <2>5, <2>6, PartsMakeGood
  <2> QED BY <2>4, <2>7
<1> QED BY <1>4, <1>5

\* unregister takes along whatever names a role that goes.
LEMMA UnregisterKeepsGood ==
  ASSUME NEW g, GoodRegistry(g), NEW S
  PROVE  GoodRegistry(UnregisterAll(g, S))
<1>1. PICK ag, ro, fa, pr :
        ag = g.agents /\ ro = g.routes /\ fa = g.fallback /\ pr = g.priorities
  OBVIOUS
<1>2. OneAgentEach(ag) /\ RoutesFit(ag, ro) /\ PoliciesFit(ag, fa) /\ PrioritiesFit(ag, pr)
  BY <1>1 DEF GoodRegistry
<1>3. ag \in [Agents -> Specs \cup {NoSpec}]
  BY <1>2 DEF OneAgentEach
<1>4. PICK roles : roles = {g.agents[a].role : a \in {b \in Agents : b \in S /\ Registered(g, b)}}
  OBVIOUS
<1>5. roles = {ag[a].role : a \in {b \in Agents : b \in S /\ ag[b] # NoSpec}}
  BY <1>1, <1>4 DEF Registered
<1>6. PICK ag2 : ag2 = [a \in Agents |-> IF a \in S THEN NoSpec ELSE ag[a]]
  OBVIOUS
<1>7. PICK ro2 : ro2 = [p \in DOMAIN ro \ ((roles \X Roles) \cup (Roles \X roles)) |-> ro[p]]
  OBVIOUS
<1>8. PICK fa2 : fa2 = [p \in DOMAIN fa \ (roles \X Roles) |-> fa[p] \ roles]
  OBVIOUS
<1>9. PICK pr2 : pr2 = [p \in DOMAIN pr \ (roles \X Roles) |-> Without(pr[p], roles)]
  OBVIOUS
<1>10. IsRegistry(UnregisterAll(g, S), ag2, ro2, fa2, pr2)
  BY <1>1, <1>4, <1>6, <1>7, <1>8, <1>9 DEF UnregisterAll, IsRegistry, Without
<1>11. /\ ag2 \in [Agents -> Specs \cup {NoSpec}]
       /\ \A a \in Agents : a \in S => ag2[a] = NoSpec
       /\ \A a \in Agents : a \notin S => ag2[a] = ag[a]
  BY <1>3, <1>6
<1>12. \A r \in Held(ag) : r \notin roles => r \in Held(ag2)
  <2>1. SUFFICES ASSUME NEW a \in Agents, ag[a] # NoSpec, ag[a].role \notin roles
                 PROVE  ag[a].role \in Held(ag2)
    BY DEF Held
  <2>2. a \notin S
    BY <1>5, <2>1
  <2> QED BY <1>11, <2>1, <2>2 DEF Held
<1>13. OneAgentEach(ag2)
  <2>1. SUFFICES ASSUME NEW b \in Agents, NEW c \in Agents, ag2[b] # NoSpec,
                        ag2[b].role = ag2[c].role
                 PROVE  b = c
    BY <1>11 DEF OneAgentEach
  <2>2. b \notin S /\ ag2[b] = ag[b]
    BY <1>11, <2>1
  <2>3. ag[b].role \in Roles /\ NoSpec.role \notin Roles
    BY <1>3, <2>1, <2>2, RoutingAssumption DEF Specs, NoSpec
  <2>4. c \notin S /\ ag2[c] = ag[c]
    BY <1>11, <2>1, <2>2, <2>3
  <2> QED BY <1>2, <2>1, <2>2, <2>4 DEF OneAgentEach
<1>14. \A p \in Pairs : p[1] \in Roles /\ p[2] \in Roles /\ p = <<p[1], p[2]>>
  BY DEF Pairs
<1>15. RoutesFit(ag2, ro2)
  <2>1. /\ DOMAIN ro2 = DOMAIN ro \ ((roles \X Roles) \cup (Roles \X roles))
        /\ \A p \in DOMAIN ro2 : ro2[p] = ro[p]
    BY <1>7
  <2>2. DOMAIN ro \subseteq Pairs
    BY <1>2 DEF RoutesFit
  <2>3. \A p \in DOMAIN ro2 : p \in DOMAIN ro /\ p[1] \notin roles /\ p[2] \notin roles
    BY <1>14, <2>1, <2>2
  <2>4. \A p \in DOMAIN ro2 : p[1] \in Held(ag2) /\ p[2] \in Held(ag2) /\ p[2] \in Roles
    BY <1>2, <1>12, <1>14, <2>2, <2>3 DEF RoutesFit
  <2>5. ASSUME NEW p \in DOMAIN ro2, NEW a \in Agents, ag2[a].role = p[2]
        PROVE  ro2[p] \subseteq ag2[a].caps
    <3>1. NoSpec.role \notin Roles
      BY RoutingAssumption DEF NoSpec
    <3>2. ag2[a] = ag[a]
      BY <1>11, <2>4, <2>5, <3>1
    <3>3. ro[p] \subseteq ag[a].caps
      BY <1>2, <2>3, <2>5, <3>2 DEF RoutesFit
    <3> QED BY <2>1, <3>2, <3>3
  <2> QED BY <2>1, <2>2, <2>4, <2>5 DEF RoutesFit
<1>16. PoliciesFit(ag2, fa2)
  <2>1. DOMAIN fa2 = DOMAIN fa \ (roles \X Roles) /\ DOMAIN fa \subseteq Pairs
    BY <1>2, <1>8 DEF PoliciesFit
  <2>2. \A p \in DOMAIN fa2 : p \in DOMAIN fa /\ p[1] \notin roles
    BY <1>14, <2>1
  <2> QED BY <1>2, <1>12, <2>1, <2>2 DEF PoliciesFit
<1>17. PrioritiesFit(ag2, pr2)
  <2>1. /\ DOMAIN pr2 = DOMAIN pr \ (roles \X Roles) /\ DOMAIN pr \subseteq Pairs
        /\ \A p \in DOMAIN pr2 : pr2[p] = Without(pr[p], roles)
    BY <1>2, <1>9 DEF PrioritiesFit
  <2>2. \A p \in DOMAIN pr2 : p \in DOMAIN pr /\ p[1] \notin roles
    BY <1>14, <2>1
  <2>3. ASSUME NEW p \in DOMAIN pr2
        PROVE  /\ p[1] \in Held(ag2) /\ DOMAIN pr2[p] \subseteq Held(ag2)
               /\ \A r \in DOMAIN pr2[p] : pr2[p][r] \in Int
    <3>1. PICK f : f = pr[p]
      OBVIOUS
    <3>2. p[1] \in Held(ag) /\ DOMAIN f \subseteq Held(ag) /\ \A r \in DOMAIN f : f[r] \in Int
      BY <1>2, <2>2, <3>1 DEF PrioritiesFit
    <3>3. pr2[p] = [x \in DOMAIN f \ roles |-> f[x]]
      BY <2>1, <3>1 DEF Without
    <3>4. /\ DOMAIN pr2[p] = DOMAIN f \ roles
          /\ \A x \in DOMAIN f \ roles : pr2[p][x] = f[x]
      BY <3>3
    <3>5. DOMAIN pr2[p] \subseteq Held(ag2)
      BY <1>12, <3>2, <3>4
    <3> QED BY <1>12, <2>2, <3>2, <3>4, <3>5
  <2> QED BY <2>1, <2>3 DEF PrioritiesFit
<1> QED BY <1>10, <1>13, <1>15, <1>16, <1>17, PartsMakeGood

\* The agent of a role that is held is the one that holds it.
LEMMA HolderOfRole ==
  ASSUME NEW g, GoodRegistry(g), NEW r \in HeldRoles(g)
  PROVE  /\ r \in Roles
         /\ AgentForRole(g, r) \in Agents /\ Registered(g, AgentForRole(g, r))
         /\ \A a \in Agents : (g.agents[a].role = r) <=> (a = AgentForRole(g, r))
<1>1. OneAgentEach(g.agents)
  BY DEF GoodRegistry
<1>2. PICK a \in Agents : Registered(g, a) /\ g.agents[a].role = r
  BY DEF HeldRoles
<1>3. PICK b : b = AgentForRole(g, r)
  OBVIOUS
<1>4. b \in Agents /\ g.agents[b].role = r
  BY <1>2, <1>3 DEF AgentForRole
<1>5. \A c \in Agents : g.agents[c].role = r => c = a
  BY <1>1, <1>2 DEF OneAgentEach, Registered
<1>6. r \in Roles
  BY <1>1, <1>2 DEF OneAgentEach, Registered, Specs
<1>7. a = b
  BY <1>4, <1>5
<1> QED BY <1>2, <1>3, <1>5, <1>6, <1>7

\* Adding a route keeps a registry good, whether it returns or raises.
LEMMA AddRouteKeepsGood ==
  ASSUME NEW g, GoodRegistry(g), NEW r, IsRoute(r)
  PROVE  /\ GoodRegistry(AddHandoffRoute(g, r).reg)
         /\ AddHandoffRoute(g, r).end \in {"returned", "raised"}
<1> DEFINE admitted == /\ {r.source, r.target} \subseteq HeldRoles(g)
                       /\ r.required \subseteq g.agents[AgentForRole(g, r.target)].caps
<1>1. CASE ~ admitted
  <2>1. AddHandoffRoute(g, r) = [reg |-> g, end |-> "raised"]
    BY <1>1 DEF AddHandoffRoute, Raises
  <2> QED BY <2>1
<1>2. CASE admitted
  <2>1. PICK ag, ro, fa, pr :
          ag = g.agents /\ ro = g.routes /\ fa = g.fallback /\ pr = g.priorities
    OBVIOUS
  <2>2. /\ g = [agents |-> ag, routes |-> ro, fallback |-> fa, priorities |-> pr]
        /\ OneAgentEach(ag) /\ RoutesFit(ag, ro) /\ PoliciesFit(ag, fa) /\ PrioritiesFit(ag, pr)
    BY <2>1 DEF GoodRegistry, IsRegistry
  <2>3. HeldRoles(g) = Held(ag)
    BY <2>1 DEF Registered, HeldRoles, Held
  <2>4. PICK from, to, needs : from = r.source /\ to = r.target /\ needs = r.required
    OBVIOUS
  <2>5. from \in Held(ag) /\ to \in Held(ag) /\ needs \subseteq g.agents[AgentForRole(g, to)].caps
    BY <1>2, <2>3, <2>4
  <2>6. \A a \in Agents : ag[a].role = to => needs \subseteq ag[a].caps
    BY <2>1, <2>3, <2>5, HolderOfRole
  <2>7. PICK pair : pair = <<from, to>>
    OBVIOUS
  <2>8. pair \in Pairs /\ pair[1] = from /\ pair[2] = to
    BY <2>4, <2>7 DEF IsRoute, Pairs
  <2>9. PICK new : new = Including(ro, pair, needs)
    OBVIOUS
  <2>10. /\ DOMAIN new = DOMAIN ro \cup {pair}
         /\ new[pair] = needs /\ \A p \in DOMAIN ro : p # pair => new[p] = ro[p]
    BY <2>9 DEF Including
  <2>11. RoutesFit(ag, new)
    BY <2>2, <2>5, <2>6, <2>8, <2>10 DEF RoutesFit
  <2>12. PICK h : h = [agents |-> ag, routes |-> new, fallback |-> fa, priorities |-> pr]
    OBVIOUS
  <2>13. h = [g EXCEPT !.routes = Including(@, <<r.source, r.target>>, r.required)]
    BY <2>1, <2>2, <2>4, <2>7, <2>9, <2>12
  <2>14. AddHandoffRoute(g, r) = [reg |-> h, end |-> "returned"]
    BY <1>2, <2>13 DEF AddHandoffRoute, Succeeds
  <2>15. IsRegistry(h, ag, new, fa, pr)
    BY <2>12 DEF IsRegistry
  <2>16. GoodRegistry(h)
    BY <2>2, <2>11, <2>15, PartsMakeGood
  <2> QED BY <2>14, <2>16
<1> QED BY <1>1, <1>2

\* Also when set_handoff_fallback_policy raises after it has stored the fallback roles.
LEMMA SetPolicyKeepsGood ==
  ASSUME NEW g, GoodRegistry(g), NEW q, IsPolicy(q)
  PROVE  /\ GoodRegistry(SetFallbackPolicy(g, q).reg)
         /\ SetFallbackPolicy(g, q).end \in {"returned", "raised"}
<1> DEFINE pair == <<q.source, q.target>>
           stripped == [g EXCEPT !.fallback = Including(@, pair, q.roles \ {q.target})]
<1>1. CASE ~ ({q.source, q.target} \subseteq HeldRoles(g))
  <2>1. SetFallbackPolicy(g, q) = [reg |-> g, end |-> "raised"]
    BY <1>1 DEF SetFallbackPolicy, Raises
  <2> QED BY <2>1
<1>2. CASE {q.source, q.target} \subseteq HeldRoles(g)
  <2>1. PICK ag, ro, fa, pr :
          ag = g.agents /\ ro = g.routes /\ fa = g.fallback /\ pr = g.priorities
    OBVIOUS
  <2>2. /\ g = [agents |-> ag, routes |-> ro, fallback |-> fa, priorities |-> pr]
        /\ OneAgentEach(ag) /\ RoutesFit(ag, ro) /\ PoliciesFit(ag, fa) /\ PrioritiesFit(ag, pr)
    BY <2>1 DEF GoodRegistry, IsRegistry
  <2>3. HeldRoles(g) = Held(ag)
    BY <2>1 DEF Registered, HeldRoles, Held
  <2>4. PICK key : key = pair
    OBVIOUS
  <2>5. key \in Pairs /\ key[1] = q.source /\ key[1] \in Held(ag)
    BY <1>2, <2>3, <2>4 DEF IsPolicy, Pairs
  <2>6. PICK fa2 : fa2 = Including(fa, key, q.roles \ {q.target})
    OBVIOUS
  <2>7. DOMAIN fa2 = DOMAIN fa \cup {key}
    BY <2>6 DEF Including
  <2>8. PoliciesFit(ag, fa2)
    BY <2>2, <2>5, <2>7 DEF PoliciesFit
  <2>9. PICK h : h = [agents |-> ag, routes |-> ro, fallback |-> fa2, priorities |-> pr]
    OBVIOUS
  <2>10. h = stripped
    BY <2>1, <2>2, <2>4, <2>6, <2>9
  <2>11. IsRegistry(h, ag, ro, fa2, pr)
    BY <2>9 DEF IsRegistry
  <2>12. GoodRegistry(h)
    BY <2>2, <2>8, <2>11, PartsMakeGood
  <2>13. CASE ~ (DOMAIN q.priorities \subseteq HeldRoles(g))
    <3>1. SetFallbackPolicy(g, q) = [reg |-> h, end |-> "raised"]
      BY <1>2, <2>10, <2>13 DEF SetFallbackPolicy, Raises
    <3> QED BY <2>12, <3>1
  <2>14. CASE DOMAIN q.priorities \subseteq HeldRoles(g)
    <3>1. PICK ranks : ranks = q.priorities
      OBVIOUS
    <3>2. DOMAIN ranks \subseteq Held(ag) /\ \A r \in DOMAIN ranks : ranks[r] \in Int
      BY <2>3, <2>14, <3>1 DEF IsPolicy
    <3>3. PICK pr2 : pr2 = Including(pr, key, ranks)
      OBVIOUS
    <3>4. /\ DOMAIN pr2 = DOMAIN pr \cup {key}
          /\ pr2[key] = ranks /\ \A p \in DOMAIN pr : p # key => pr2[p] = pr[p]
      BY <3>3 DEF Including
    <3>5. PrioritiesFit(ag, pr2)
      BY <2>2, <2>5, <3>2, <3>4 DEF PrioritiesFit
    <3>6. PICK h2 : h2 = [agents |-> ag, routes |-> ro, fallback |-> fa2, priorities |-> pr2]
      OBVIOUS
    <3>7. h2 = [h EXCEPT !.priorities = Including(@, pair, q.priorities)]
      BY <2>4, <2>9, <3>1, <3>3, <3>6
    <3>8. SetFallbackPolicy(g, q) = [reg |-> h2, end |-> "returned"]
      BY <1>2, <2>10, <2>14, <3>7 DEF SetFallbackPolicy, Succeeds
    <3>9. IsRegistry(h2, ag, ro, fa2, pr2)
      BY <3>6 DEF IsRegistry
    <3>10. GoodRegistry(h2)
      BY <2>2, <2>8, <3>5, <3>9, PartsMakeGood
    <3> QED BY <3>8, <3>10
  <2> QED BY <2>13, <2>14
<1> QED BY <1>1, <1>2

\* Where the loading of a plugin has come to.
GoodState(s) ==
  /\ s = [reg |-> s.reg, end |-> s.end, ids |-> s.ids]
  /\ GoodRegistry(s.reg)
  /\ s.end \in {"returned", "raised"}

\* One item of a plugin keeps the registry good.
LEMMA StepKeepsGood ==
  ASSUME NEW s, GoodState(s), NEW item, IsItem(item)
  PROVE  GoodState(Step(s, item))
<1>1. CASE s.end = "raised"
  BY <1>1 DEF Step
<1>2. CASE s.end # "raised"
  <2>1. PICK done : done = CASE item.kind = "agent" -> Register(s.reg, item.id, item.spec)
                             [] item.kind = "route" -> AddHandoffRoute(s.reg, item)
                             [] item.kind = "policy" -> SetFallbackPolicy(s.reg, item)
    OBVIOUS
  <2>2. GoodRegistry(s.reg)
    BY DEF GoodState
  <2>3. GoodRegistry(done.reg) /\ done.end \in {"returned", "raised"}
    <3>1. CASE item.kind = "agent"
      <4>1. item.id \in Agents /\ item.spec \in Specs
        BY <3>1 DEF IsItem
      <4>2. done = Register(s.reg, item.id, item.spec)
        BY <2>1, <3>1
      <4> QED BY <2>2, <4>1, <4>2, RegisterKeepsGood
    <3>2. CASE item.kind = "route"
      <4>1. IsRoute(item)
        BY <3>2 DEF IsItem
      <4>2. done = AddHandoffRoute(s.reg, item)
        BY <2>1, <3>2
      <4> QED BY <2>2, <4>1, <4>2, AddRouteKeepsGood
    <3>3. CASE item.kind = "policy"
      <4>1. IsPolicy(item)
        BY <3>3 DEF IsItem
      <4>2. done = SetFallbackPolicy(s.reg, item)
        BY <2>1, <3>3
      <4> QED BY <2>2, <4>1, <4>2, SetPolicyKeepsGood
    <3> QED BY <3>1, <3>2, <3>3 DEF IsItem
  <2>4. PICK now : now = IF done.end = "returned" /\ item.kind = "agent" THEN s.ids \cup {item.id}
                         ELSE s.ids
    OBVIOUS
  <2>5. Step(s, item) = [reg |-> done.reg, end |-> done.end, ids |-> now]
    BY <1>2, <2>1, <2>4 DEF Step
  <2> QED BY <2>3, <2>5 DEF GoodState
<1> QED BY <1>1, <1>2

\* What Progress is meant to be: the state after n items comes from the one before.
IsProgress(f, n, g, items) ==
  f = [k \in 0..n |-> IF k = 0 THEN [reg |-> g, end |-> "returned", ids |-> {}]
                      ELSE Step(f[k - 1], items[k])]

\* There is such a function for every number of items.
LEMMA ProgressExists ==
  ASSUME NEW g, NEW items, NEW n \in Nat
  PROVE  \E f : IsProgress(f, n, g, items)
<1> DEFINE Bad == {k \in Nat : ~ \E f : IsProgress(f, k, g, items)}
<1>1. SUFFICES ASSUME Bad # {} PROVE FALSE
  OBVIOUS
<1>2. Bad \in SUBSET Nat
  OBVIOUS
<1>3. PICK m \in Bad : \A k \in Bad : m <= k
  BY <1>1, <1>2, LeastNumber
<1>4. m \in Nat /\ ~ \E f : IsProgress(f, m, g, items)
  BY <1>3
<1> DEFINE start == [reg |-> g, end |-> "returned", ids |-> {}]
<1>5. PICK s : s = start
  OBVIOUS
<1>6. CASE m = 0
  <2>1. PICK f : f = [k \in 0..0 |-> s]
    OBVIOUS
  <2>2. IsProgress(f, 0, g, items)
    BY <1>5, <2>1 DEF IsProgress
  <2> QED BY <1>4, <1>6, <2>2
<1>7. CASE m # 0
  <2>1. m - 1 \in Nat /\ ~ (m <= m - 1)
    BY <1>4, <1>7
  <2>2. m - 1 \notin Bad
    BY <1>3, <2>1
  <2>3. PICK f : IsProgress(f, m - 1, g, items)
    BY <2>1, <2>2
  <2>4. PICK h : h = [k \in 0..m |-> IF k = m THEN Step(f[m - 1], items[m]) ELSE f[k]]
    OBVIOUS
  <2>5. \A k \in 0..m : k # m => k \in 0..(m - 1) /\ h[k] = f[k]
    BY <1>4, <2>4
  <2>6. \A k \in 0..m : k # 0 /\ k # m => k - 1 \in 0..(m - 1) /\ h[k - 1] = f[k - 1]
    BY <1>4, <2>4
  <2>7. m - 1 \in 0..m /\ h[m - 1] = f[m - 1]
    BY <1>4, <2>1, <2>4
  <2>8. h[m] = Step(h[m - 1], items[m])
    BY <1>4, <2>4, <2>7
  <2>9. \A k \in 0..(m - 1) : f[k] = IF k = 0 THEN s ELSE Step(f[k - 1], items[k])
    BY <1>5, <2>3 DEF IsProgress
  <2>10. \A k \in 0..m : h[k] = IF k = 0 THEN s ELSE Step(h[k - 1], items[k])
    BY <1>7, <2>5, <2>6, <2>8, <2>9
  <2>11. h = [k \in 0..m |-> h[k]]
    BY <2>4
  <2>12. h = [k \in 0..m |-> IF k = 0 THEN s ELSE Step(h[k - 1], items[k])]
    BY <2>10, <2>11
  <2>13. IsProgress(h, m, g, items)
    BY <1>5, <2>12 DEF IsProgress
  <2> QED BY <1>4, <2>13
<1> QED BY <1>6, <1>7

\* The function that loads a plugin item by item exists.
LEMMA ProgressIsProgress ==
  ASSUME NEW g, NEW items, Len(items) \in Nat
  PROVE  IsProgress(Progress(g, items), Len(items), g, items)
<1>1. \E f : IsProgress(f, Len(items), g, items)
  BY ProgressExists
<1> QED BY <1>1, Zenon DEF Progress, IsProgress

\* Loading a plugin keeps a registry good, the rollback of a failed load included.
LEMMA LoadKeepsGood ==
  ASSUME NEW g, GoodRegistry(g), NEW items, Len(items) \in Nat,
         \A k \in 1..Len(items) : IsItem(items[k])
  PROVE  GoodRegistry(Load(g, items).reg)
<1>1. PICK f : f = Progress(g, items)
  OBVIOUS
<1>2. PICK n \in Nat : n = Len(items)
  OBVIOUS
<1>3. PICK s : s = [reg |-> g, end |-> "returned", ids |-> {}]
  OBVIOUS
<1>4. \A k \in 0..n : f[k] = IF k = 0 THEN s ELSE Step(f[k - 1], items[k])
  <2>1. IsProgress(f, n, g, items)
    BY <1>1, <1>2, ProgressIsProgress
  <2> QED BY <1>3, <2>1 DEF IsProgress
<1>5. \A k \in 0..n : GoodState(f[k])
  <2> DEFINE Bad == {k \in Nat : k \in 0..n /\ ~ GoodState(f[k])}
  <2>1. SUFFICES ASSUME Bad # {} PROVE FALSE
    OBVIOUS
  <2>2. Bad \in SUBSET Nat
    OBVIOUS
  <2>3. PICK m \in Bad : \A k \in Bad : m <= k
    BY <2>1, <2>2, LeastNumber
  <2>4. m \in Nat /\ m \in 0..n /\ ~ GoodState(f[m])
    BY <2>3
  <2>5. GoodState(s)
    BY <1>3 DEF GoodState
  <2>6. m # 0
    BY <1>4, <2>4, <2>5
  <2>7. m - 1 \in Nat /\ m - 1 \in 0..n /\ m \in 1..n /\ ~ (m <= m - 1)
    BY <2>4, <2>6
  <2>8. GoodState(f[m - 1])
    BY <2>3, <2>7
  <2>9. f[m] = Step(f[m - 1], items[m])
    BY <1>4, <2>4, <2>6
  <2> QED BY <1>2, <2>4, <2>7, <2>8, <2>9, StepKeepsGood
<1>6. PICK last : last = f[n]
  OBVIOUS
<1>7. GoodState(last)
  BY <1>2, <1>5, <1>6
<1>8. CASE last.end = "returned"
  <2>1. Load(g, items) = last
    BY <1>1, <1>2, <1>6, <1>8 DEF Load
  <2> QED BY <1>7, <2>1 DEF GoodState
<1>9. CASE last.end # "returned"
  <2>1. PICK h : h = UnregisterAll(last.reg, last.ids)
    OBVIOUS
  <2>2. Load(g, items) = [reg |-> h, end |-> "raised", ids |-> {}]
    BY <1>1, <1>2, <1>6, <1>9, <2>1 DEF Load
  <2>3. GoodRegistry(h)
    BY <1>7, <2>1, UnregisterKeepsGood DEF GoodState
  <2> QED BY <2>2, <2>3
<1> QED BY <1>8, <1>9

\* Of finitely many agents one comes first by priority and then by name.
LEMMA BestExists ==
  ASSUME NEW S \in SUBSET Agents, S # {}, NEW pr \in [S -> Int]
  PROVE  \E b \in S : \A c \in S : pr[c] < pr[b] \/ (pr[c] = pr[b] /\ b <= c)
<1>1. IsFiniteSet(S)
  BY RoutingAssumption, FS_Subset
<1>2. PICK n \in Nat : ExistsSurjection(1..n, S)
  BY <1>1, FS_NatSurjection
<1>3. PICK f : f \in Surjection(1..n, S)
  BY <1>2 DEF ExistsSurjection
<1>4. f \in [1..n -> S] /\ \A c \in S : \E i \in 1..n : f[i] = c
  BY <1>3 DEF Surjection
<1>5. \A c \in S : c \in Nat /\ pr[c] \in Int
  BY RoutingAssumption
<1> DEFINE Behind(c, b) == pr[c] < pr[b] \/ (pr[c] = pr[b] /\ b <= c)
           Bad == {k \in Nat : k \in 1..n /\ ~ \E i \in 1..k : \A j \in 1..k : Behind(f[j], f[i])}
<1>6. \A b, c, d \in S : /\ Behind(b, b)
                         /\ Behind(b, c) \/ Behind(c, b)
                         /\ Behind(b, c) /\ Behind(c, d) => Behind(b, d)
  BY <1>5
<1> HIDE DEF Behind
<1>7. Bad = {}
  <2>1. SUFFICES ASSUME Bad # {} PROVE FALSE
    OBVIOUS
  <2>2. Bad \in SUBSET Nat
    OBVIOUS
  <2>3. PICK m \in Bad : \A k \in Bad : m <= k
    BY <2>1, <2>2, LeastNumber
  <2>4. m \in Nat /\ m \in 1..n /\ ~ \E i \in 1..m : \A j \in 1..m : Behind(f[j], f[i])
    BY <2>3
  <2>5. f[m] \in S /\ Behind(f[m], f[m])
    BY <1>4, <1>6, <2>4
  <2>6. m # 1
    <3>1. ASSUME m = 1 PROVE \A j \in 1..m : j = m
      BY <3>1
    <3> QED BY <2>4, <2>5, <3>1
  <2>7. m - 1 \in Nat /\ m - 1 \in 1..n /\ ~ (m <= m - 1)
    BY <2>4, <2>6
  <2>8. m - 1 \notin Bad
    BY <2>3, <2>7
  <2>9. PICK i \in 1..(m - 1) : \A j \in 1..(m - 1) : Behind(f[j], f[i])
    BY <2>7, <2>8
  <2>10. i \in 1..m /\ i \in 1..n /\ f[i] \in S
    BY <1>4, <2>4
  <2>11. \A j \in 1..m : j = m \/ j \in 1..(m - 1)
    BY <2>4
  <2>12. \A j \in 1..m : j \in 1..n /\ f[j] \in S
    BY <1>4, <2>4
  <2>13. CASE Behind(f[m], f[i])
    BY <2>4, <2>9, <2>10, <2>11, <2>13
  <2>14. CASE Behind(f[i], f[m])
    <3>1. \A j \in 1..m : Behind(f[j], f[m])
      BY <1>6, <2>5, <2>9, <2>10, <2>11, <2>12, <2>14
    <3>2. m \in 1..m
      BY <2>4
    <3> QED BY <2>4, <3>1, <3>2
  <2> QED BY <1>6, <2>5, <2>10, <2>13, <2>14
<1>8. n \in 1..n
  BY <1>4
<1>9. PICK i \in 1..n : \A j \in 1..n : Behind(f[j], f[i])
  BY <1>7, <1>8
<1>10. f[i] \in S /\ \A c \in S : Behind(c, f[i])
  BY <1>4, <1>9
<1> QED BY <1>10 DEF Behind

\* What resolve_handoff_target returns is a registered agent that can take over, and the
\* holder of the role that was asked for whenever that one can.
LEMMA ResolveIsAllowed ==
  ASSUME NEW g, GoodRegistry(g), NEW a \in Agents, NEW r \in Roles \cup {Unbound}, NEW cap,
         Resolve(g, a, r, cap) # Unbound,
         NEW b, b = Resolve(g, a, r, cap)
  PROVE  /\ b \in Agents /\ Registered(g, b) /\ Eligible(g, a, b, cap)
         /\ \A c \in Agents : Registered(g, c) /\ g.agents[c].role = r
                             /\ Eligible(g, a, c, cap) => b = c
<1>1. PICK targets : targets = {c \in Agents : Registered(g, c) /\ Eligible(g, a, c, cap)}
  OBVIOUS
<1>2. PICK others : others = Fallbacks(g, a, r, cap)
  OBVIOUS
<1>3. b = IF r = Unbound
            THEN IF targets = {} THEN Unbound ELSE CHOOSE x \in targets : \A c \in targets : x <= c
          ELSE IF r \in HeldRoles(g) /\ AgentForRole(g, r) \in targets THEN AgentForRole(g, r)
          ELSE IF others # {} THEN Best(g, a, r, others)
          ELSE Unbound
  BY <1>1, <1>2 DEF Resolve
<1>4. targets \in SUBSET Nat /\ targets \in SUBSET Agents
  BY <1>1, RoutingAssumption
<1>5. OneAgentEach(g.agents) /\ PrioritiesFit(g.agents, g.priorities)
  BY DEF GoodRegistry
<1>6. \A c \in Agents : Registered(g, c) => g.agents[c].role \in Roles
  BY <1>5 DEF OneAgentEach, Registered, Specs
<1>7. CASE r = Unbound
  <2>1. targets # {} /\ b = CHOOSE x \in targets : \A c \in targets : x <= c
    BY <1>3, <1>7
  <2>2. b \in targets
    BY <1>4, <2>1, LeastNumber
  <2> QED BY <1>1, <1>6, <1>7, <2>2, RoutingAssumption
<1>8. CASE r # Unbound /\ r \in HeldRoles(g) /\ AgentForRole(g, r) \in targets
  <2>1. b = AgentForRole(g, r)
    BY <1>3, <1>8
  <2>2. \A c \in Agents : g.agents[c].role = r => c = b
    BY <1>8, <2>1, HolderOfRole
  <2> QED BY <1>1, <1>8, <2>1, <2>2
<1>9. CASE r # Unbound /\ ~ (r \in HeldRoles(g) /\ AgentForRole(g, r) \in targets)
  <2>1. others # {} /\ b = Best(g, a, r, others)
    BY <1>3, <1>9
  <2>2. others \in SUBSET Agents /\ \A c \in others : Registered(g, c) /\ Eligible(g, a, c, cap)
    BY <1>2 DEF Fallbacks
  <2>3. PICK pr : pr = [c \in others |-> Priority(g, a, r, c)]
    OBVIOUS
  <2>4. \A c \in others : Priority(g, a, r, c) \in Int
    BY <1>5 DEF Priority, PrioritiesFit
  <2>5. pr \in [others -> Int]
    BY <2>3, <2>4
  <2>6. PICK d \in others : \A c \in others : pr[c] < pr[d] \/ (pr[c] = pr[d] /\ d <= c)
    BY <2>1, <2>2, <2>5, BestExists
  <2>7. \A c \in others : \/ Priority(g, a, r, c) < Priority(g, a, r, d)
                          \/ Priority(g, a, r, c) = Priority(g, a, r, d) /\ d <= c
    BY <2>3, <2>6
  <2>8. b \in others
    BY <2>1, <2>7 DEF Best
  <2>9. ASSUME NEW c \in Agents, Registered(g, c), g.agents[c].role = r, Eligible(g, a, c, cap)
        PROVE  FALSE
    <3>1. r \in HeldRoles(g)
      BY <2>9 DEF HeldRoles
    <3>2. c = AgentForRole(g, r)
      BY <2>9, <3>1, HolderOfRole
    <3> QED BY <1>1, <1>9, <2>9, <3>1, <3>2
  <2> QED BY <2>2, <2>8, <2>9
<1> QED BY <1>7, <1>8, <1>9

\* A good registry is one in which nothing points at what is gone, and every handoff that it
\* resolves is allowed.
LEMMA GoodMeansSound ==
  ASSUME GoodRegistry(reg)
  PROVE  RoutingSound
<1>1. OneAgentEach(reg.agents) /\ RoutesFit(reg.agents, reg.routes)
      /\ PoliciesFit(reg.agents, reg.fallback) /\ PrioritiesFit(reg.agents, reg.priorities)
  BY DEF GoodRegistry
<1>2. HeldRoles(reg) = Held(reg.agents)
  BY DEF Registered, HeldRoles, Held
<1>3. RoutingClean
  <2>1. \A a, b \in Agents : Registered(reg, a) /\ reg.agents[a].role = reg.agents[b].role => a = b
    BY <1>1 DEF OneAgentEach, Registered
  <2>2. ASSUME NEW p \in DOMAIN reg.routes
        PROVE  /\ {p[1], p[2]} \subseteq HeldRoles(reg)
               /\ reg.routes[p] \subseteq reg.agents[AgentForRole(reg, p[2])].caps
    <3>1. /\ p[1] \in HeldRoles(reg) /\ p[2] \in HeldRoles(reg)
          /\ \A a \in Agents : reg.agents[a].role = p[2] => reg.routes[p] \subseteq reg.agents[a].caps
      BY <1>1, <1>2 DEF RoutesFit
    <3>2. AgentForRole(reg, p[2]) \in Agents /\ reg.agents[AgentForRole(reg, p[2])].role = p[2]
      BY <3>1, HolderOfRole
    <3> QED BY <3>1, <3>2
  <2>3. \A p \in DOMAIN reg.fallback : p[1] \in HeldRoles(reg)
    BY <1>1, <1>2 DEF PoliciesFit
  <2>4. \A p \in DOMAIN reg.priorities : {p[1]} \cup DOMAIN reg.priorities[p] \subseteq HeldRoles(reg)
    BY <1>1, <1>2 DEF PrioritiesFit
  <2> QED BY <2>1, <2>2, <2>3, <2>4 DEF RoutingClean
<1>4. HandoffAllowed
  <2>1. SUFFICES ASSUME NEW h \in Handoffs, NEW b, b = Resolve(reg, h.from, h.role, h.cap),
                        NEW pair, pair = <<reg.agents[h.from].role, reg.agents[b].role>>
                 PROVE  /\ Registered(reg, b) /\ pair \in DOMAIN reg.routes
                        /\ reg.routes[pair] \cup h.cap \subseteq reg.agents[b].caps
                        /\ \A c \in Agents : Registered(reg, c) /\ reg.agents[c].role = h.role
                                            /\ Eligible(reg, h.from, c, h.cap) => b = c
    BY DEF HandoffAllowed
  <2>2. h.from \in Agents /\ h.role \in Roles \cup {Unbound} /\ b # Unbound
    BY <2>1 DEF Handoffs
  <2>3. /\ Registered(reg, b) /\ Eligible(reg, h.from, b, h.cap)
        /\ \A c \in Agents : Registered(reg, c) /\ reg.agents[c].role = h.role
                            /\ Eligible(reg, h.from, c, h.cap) => b = c
    BY <2>1, <2>2, ResolveIsAllowed
  <2>4. pair \in DOMAIN reg.routes /\ reg.routes[pair] \cup h.cap \subseteq reg.agents[b].caps
    BY <2>1, <2>3 DEF Eligible
  <2> QED BY <2>3, <2>4
<1> QED BY <1>3, <1>4 DEF RoutingSound

\* The inductive invariant.
RoutingInv ==
  /\ GoodRegistry(reg)
  /\ stored \in [Agents -> Specs \cup {NoSpec}]
  /\ plugin = NotLoaded \/ plugin.version \in DOMAIN Plugins

\* The invariant holds at the start.
LEMMA RoutingInitKeeps == RoutingInit => RoutingInv
<1>1. NoAgentRows \in [Agents -> Specs \cup {NoSpec}]
  BY DEF NoAgentRows
<1> QED BY <1>1, EmptyIsGood DEF RoutingInit, RoutingInv

\* The stored rows stay specifications of agents.
LEMMA RowsStayTyped ==
  ASSUME stored \in [Agents -> Specs \cup {NoSpec}], NEW a \in Agents, NEW spec \in Specs,
         SaveAgent(a, spec) \/ DeleteAgent(a)
  PROVE  stored' \in [Agents -> Specs \cup {NoSpec}]
  BY DEF SaveAgent, DeleteAgent

\* Loading any of the plugins keeps a registry good.
LEMMA LoadedPlugins ==
  ASSUME NEW v \in DOMAIN Plugins, NEW g, GoodRegistry(g)
  PROVE  GoodRegistry(Load(g, Plugins[v]).reg)
<1>1. Len(Plugins[v]) \in Nat /\ \A k \in 1..Len(Plugins[v]) : IsItem(Plugins[v][k])
  BY RoutingAssumption
<1>2. PICK items : items = Plugins[v]
  OBVIOUS
<1> QED BY <1>1, <1>2, LoadKeepsGood

\* Rebuilding the registry from the stored rows gives a good one.
LEMMA HydrateKeeps ==
  ASSUME RoutingInv, Hydrate
  PROVE  RoutingInv'
<1>1. stored \in [Agents -> Specs \cup {NoSpec}]
  BY DEF RoutingInv
<1>2. PICK ag : ag = [a \in Agents |-> IF \A b \in ListAgents : b < a => stored[b].role # stored[a].role
                                         THEN stored[a]
                                       ELSE NoSpec]
  OBVIOUS
<1>3. PICK no : no = Nothing
  OBVIOUS
<1>4. DOMAIN no = {}
  BY <1>3 DEF Nothing
<1>5. reg' = [EmptyRegistry EXCEPT !.agents = ag]
  BY <1>2 DEF Hydrate
<1>6. IsRegistry(reg', ag, no, no, no)
  BY <1>3, <1>5 DEF EmptyRegistry, IsRegistry
<1>7. \A a \in Agents :
        \/ ag[a] = NoSpec
        \/ ag[a] = stored[a] /\ \A b \in ListAgents : b < a => stored[b].role # stored[a].role
  BY <1>2
<1>8. ag \in [Agents -> Specs \cup {NoSpec}]
  BY <1>1, <1>2
<1>9. OneAgentEach(ag)
  <2>1. SUFFICES ASSUME NEW b \in Agents, NEW c \in Agents, ag[b] # NoSpec, ag[b].role = ag[c].role
                 PROVE  b = c
    BY <1>8 DEF OneAgentEach
  <2>2. ag[b].role \in Roles /\ NoSpec.role \notin Roles
    BY <1>8, <2>1, RoutingAssumption DEF Specs, NoSpec
  <2>3. ag[c] # NoSpec
    BY <2>1, <2>2
  <2>4. ag[b] = stored[b] /\ ag[c] = stored[c] /\ b \in ListAgents /\ c \in ListAgents
    BY <1>7, <2>1, <2>3 DEF ListAgents
  <2>5. ~ (b < c) /\ ~ (c < b)
    BY <1>7, <2>1, <2>3, <2>4
  <2>6. b \in Nat /\ c \in Nat
    BY RoutingAssumption
  <2> QED BY <2>5, <2>6
<1>10. RoutesFit(ag, no) /\ PoliciesFit(ag, no) /\ PrioritiesFit(ag, no)
  BY <1>4 DEF RoutesFit, PoliciesFit, PrioritiesFit
<1>11. GoodRegistry(reg')
  BY <1>6, <1>9, <1>10, PartsMakeGood
<1>12. stored' = stored /\ plugin' = NotLoaded
  BY DEF Hydrate
<1>13. GoodRegistry(reg)'
  BY <1>11 DEF GoodRegistry, IsRegistry, OneAgentEach, RoutesFit, PoliciesFit, PrioritiesFit, Held
<1> QED BY <1>1, <1>12, <1>13 DEF RoutingInv, NotLoaded

\* Every step keeps the invariant.
LEMMA RoutingStepKeeps ==
  ASSUME RoutingInv, [RoutingNext]_routingVars
  PROVE  RoutingInv'
<1> USE DEF NotLoaded
<1>1. /\ GoodRegistry(reg) /\ stored \in [Agents -> Specs \cup {NoSpec}]
      /\ plugin = NotLoaded \/ plugin.version \in DOMAIN Plugins
  BY DEF RoutingInv
<1>2. ASSUME NEW i \in AgentInputs, RegisterAgent(i.id, i.spec)
      PROVE  RoutingInv'
  <2>1. i.id \in Agents /\ i.spec \in Specs
    BY RoutingAssumption
  <2>2. GoodRegistry(reg')
    BY <1>1, <1>2, <2>1, RegisterKeepsGood DEF RegisterAgent
  <2>3. stored' \in [Agents -> Specs \cup {NoSpec}]
    BY <1>1, <1>2, <2>1, RowsStayTyped DEF RegisterAgent
  <2> QED BY <1>1, <1>2, <2>2, <2>3 DEF RegisterAgent, RoutingInv
<1>3. ASSUME NEW i \in AgentInputs, StaleRequest(i.id, i.spec)
      PROVE  RoutingInv'
  <2>1. i.id \in Agents /\ i.spec \in Specs
    BY RoutingAssumption
  <2>2. stored' \in [Agents -> Specs \cup {NoSpec}]
    BY <1>1, <1>3, <2>1, RowsStayTyped DEF StaleRequest
  <2>3. reg' = reg /\ plugin' = plugin
    BY <1>3 DEF StaleRequest
  <2> QED BY <1>1, <2>2, <2>3 DEF RoutingInv
<1>4. ASSUME NEW a \in Agents, UnregisterAgent(a)
      PROVE  RoutingInv'
  <2>1. GoodRegistry(reg')
    BY <1>1, <1>4, UnregisterKeepsGood DEF UnregisterAgent, Unregister
  <2>2. stored' \in [Agents -> Specs \cup {NoSpec}] /\ plugin' = plugin
    BY <1>1, <1>4 DEF UnregisterAgent, DeleteAgent
  <2> QED BY <1>1, <2>1, <2>2 DEF RoutingInv
<1>5. CASE ChangeRouting
  <2>1. GoodRegistry(reg')
    <3>1. ASSUME NEW r \in RouteInputs, reg' = AddHandoffRoute(reg, r).reg
          PROVE  GoodRegistry(reg')
      BY <1>1, <3>1, AddRouteKeepsGood, RoutingAssumption
    <3>2. ASSUME NEW q \in PolicyInputs, reg' = SetFallbackPolicy(reg, q).reg
          PROVE  GoodRegistry(reg')
      BY <1>1, <3>2, SetPolicyKeepsGood, RoutingAssumption
    <3> QED BY <1>5, <3>1, <3>2 DEF ChangeRouting
  <2>2. stored' = stored /\ plugin' = plugin
    BY <1>5 DEF ChangeRouting
  <2> QED BY <1>1, <2>1, <2>2 DEF RoutingInv
<1>6. ASSUME NEW v \in DOMAIN Plugins, LoadPlugin(v)
      PROVE  RoutingInv'
  <2>1. PICK l : l = Load(reg, Plugins[v])
    OBVIOUS
  <2>2. reg' = l.reg /\ plugin' = (IF l.end = "returned" THEN Loaded(v, l) ELSE NotLoaded)
        /\ stored' = stored
    BY <1>6, <2>1 DEF LoadPlugin
  <2>3. GoodRegistry(reg')
    BY <1>1, <2>1, <2>2, LoadedPlugins
  <2>4. plugin' = NotLoaded \/ plugin'.version \in DOMAIN Plugins
    BY <2>2 DEF Loaded
  <2> QED BY <1>1, <2>2, <2>3, <2>4 DEF RoutingInv
<1>7. ASSUME NEW v \in DOMAIN Plugins, ReloadPlugin(v)
      PROVE  RoutingInv'
  <2>1. PICK without : without = UnregisterAll(reg, plugin.ids)
    OBVIOUS
  <2>2. PICK new : new = Load(without, Plugins[v])
    OBVIOUS
  <2>3. PICK old : old = Load(new.reg, Plugins[plugin.version])
    OBVIOUS
  <2>4. /\ IF new.end = "returned" THEN reg' = new.reg /\ plugin' = Loaded(v, new)
           ELSE /\ reg' = old.reg
                /\ plugin' = IF old.end = "returned" THEN Loaded(plugin.version, old) ELSE NotLoaded
        /\ plugin.version \in DOMAIN Plugins /\ stored' = stored
    BY <1>1, <1>7, <2>1, <2>2, <2>3 DEF ReloadPlugin
  <2>5. GoodRegistry(without)
    BY <1>1, <2>1, UnregisterKeepsGood
  <2>6. GoodRegistry(new.reg)
    BY <2>2, <2>5, LoadedPlugins
  <2>7. GoodRegistry(old.reg)
    BY <2>3, <2>4, <2>6, LoadedPlugins
  <2>8. plugin' = NotLoaded \/ plugin'.version \in DOMAIN Plugins
    BY <2>4 DEF Loaded
  <2>9. GoodRegistry(reg')
    BY <2>4, <2>6, <2>7
  <2> QED BY <1>1, <2>4, <2>8, <2>9 DEF RoutingInv
<1>8. CASE UnloadPlugin
  <2>1. GoodRegistry(reg')
    BY <1>1, <1>8, UnregisterKeepsGood DEF UnloadPlugin
  <2>2. stored' = stored /\ plugin' = NotLoaded
    BY <1>8 DEF UnloadPlugin
  <2> QED BY <1>1, <2>1, <2>2 DEF RoutingInv
<1>9. CASE LoseContext
  <2>1. reg' = EmptyRegistry /\ stored' = stored /\ plugin' = NotLoaded
    BY <1>9 DEF LoseContext
  <2> QED BY <1>1, <2>1, EmptyIsGood DEF RoutingInv
<1>10. CASE Hydrate
  BY <1>10, HydrateKeeps
<1>11. CASE UNCHANGED routingVars
  <2>1. reg' = reg /\ stored' = stored /\ plugin' = plugin
    BY <1>11 DEF routingVars
  <2> QED BY <1>1, <2>1 DEF RoutingInv
<1> QED BY <1>2, <1>3, <1>4, <1>5, <1>6, <1>7, <1>8, <1>9, <1>10, <1>11 DEF RoutingNext

(* After any sequence of registrations, removals, plugin loads that fail half-way, reloads,       *)
(* evictions and restarts the registry points at nothing that is gone, and resolve_handoff_target *)
(* hands a turn over along a route only, to an agent that has what is required, and never to a    *)
(* fallback when the target can be used; for any agents, roles, routes, policies and plugins.     *)
THEOREM HandoffsAreSound == RoutingSpec => []RoutingSound
<1>1. RoutingInv => RoutingSound
  BY GoodMeansSound DEF RoutingInv
<1> QED BY <1>1, RoutingInitKeeps, RoutingStepKeeps, PTL DEF RoutingSpec

-----------------------------------------------------------------------------
(* The release signoff.                                                    *)

\* A list of lines, whatever they are.
IsList(s) == \E S : s \in Seq(S)

\* A section: a heading, and lines that are none.
IsSection(part, title) ==
  /\ IsList(part) /\ Len(part) >= 1
  /\ part[1] = Heading(title)
  /\ \A k \in 2..Len(part) : part[k].kind # "heading"

\* The kinds of the lines that a report is made of.
LEMMA LineFields ==
  /\ \A t : Heading(t) = [kind |-> "heading", name |-> t, value |-> "none"]
  /\ \A n, v : Field(n, v) = [kind |-> "field", name |-> n, value |-> v]
  /\ \A g, e : GateLine(g, e) = [kind |-> "gate", name |-> g,
                                 value |-> IF e = "0" THEN "PASS" ELSE "FAIL"]
  /\ \A p, m : LinkLine(p, m) = [kind |-> "link", name |-> p,
                                 value |-> IF p \notin m THEN "OK" ELSE "MISSING"]
  /\ Text = [kind |-> "text", name |-> "none", value |-> "none"]
  BY DEF Heading, Field, GateLine, LinkLine, Text, Line

\* Two lists are lists over one set.
LEMMA ListsJoin ==
  ASSUME NEW s, NEW t, IsList(s), IsList(t)
  PROVE  \E S : s \in Seq(S) /\ t \in Seq(S)
<1>1. PICK A : s \in Seq(A)
  BY DEF IsList
<1>2. PICK B : t \in Seq(B)
  BY DEF IsList
<1>3. PICK S : S = A \cup B
  OBVIOUS
<1>4. s \in Seq(S) /\ t \in Seq(S)
  BY <1>1, <1>2, <1>3
<1> QED BY <1>4

\* A list has a length, and its places are the numbers up to it.
LEMMA ListLength ==
  ASSUME NEW s, IsList(s)
  PROVE  Len(s) \in Nat /\ DOMAIN s = 1..Len(s)
  BY DEF IsList

\* Two parts, one after the other.
Joins(u, s, t) ==
  /\ IsList(u) /\ Len(u) = Len(s) + Len(t)
  /\ \A k \in 1..Len(s) : u[k] = s[k]
  /\ \A k \in 1..Len(t) : u[Len(s) + k] = t[k]

\* Concatenation puts one list after the other.
LEMMA ConcatJoins ==
  ASSUME NEW s, NEW t, IsList(s), IsList(t)
  PROVE  Joins(s \o t, s, t)
<1>1. PICK u : u = s \o t
  OBVIOUS
<1>2. PICK S : s \in Seq(S) /\ t \in Seq(S)
  BY ListsJoin
<1>3. u \in Seq(S) /\ Len(u) = Len(s) + Len(t)
  BY <1>1, <1>2
<1>4. \A k \in 1..Len(s) : u[k] = s[k]
  BY <1>1, <1>2
<1>5. ASSUME NEW k \in 1..Len(t) PROVE u[Len(s) + k] = t[k]
  BY <1>1, <1>2, <1>5
<1>6. IsList(u)
  BY <1>3 DEF IsList
<1> QED BY <1>1, <1>3, <1>4, <1>5, <1>6 DEF Joins

\* A place in the whole is a place in one of the parts.
LEMMA JoinedPlaces ==
  ASSUME NEW u, NEW s, NEW t, IsList(s), IsList(t), Joins(u, s, t), NEW j \in 1..Len(u)
  PROVE  \/ j \in 1..Len(s) /\ u[j] = s[j]
         \/ \E k \in 1..Len(t) : j = Len(s) + k /\ u[j] = t[k]
<1>1. Len(s) \in Nat /\ Len(t) \in Nat /\ Len(u) = Len(s) + Len(t)
  BY ListLength DEF Joins
<1>2. CASE j <= Len(s)
  BY <1>1, <1>2 DEF Joins
<1>3. CASE j > Len(s)
  <2>1. PICK k : k = j - Len(s)
    OBVIOUS
  <2>2. k \in 1..Len(t) /\ j = Len(s) + k
    BY <1>1, <1>3, <2>1
  <2> QED BY <2>2 DEF Joins
<1> QED BY <1>1, <1>2, <1>3

\* A section that is added brings one heading, its own.
LEMMA SectionAdded ==
  ASSUME NEW u, NEW s, IsList(s), NEW t, NEW title, IsSection(t, title), u = s \o t
  PROVE  /\ Joins(u, s, t)
         /\ HeadingsOf(u) = HeadingsOf(s) \cup {Len(s) + 1}
         /\ u[Len(s) + 1] = Heading(title)
<1>1. IsList(t) /\ Len(t) \in Nat /\ Len(t) >= 1 /\ Len(s) \in Nat
  BY ListLength DEF IsSection
<1>2. Joins(u, s, t)
  BY <1>1, ConcatJoins
<1>3. u[Len(s) + 1] = Heading(title)
  BY <1>1, <1>2 DEF Joins, IsSection
<1>4. IsList(u) /\ Len(u) = Len(s) + Len(t)
  BY <1>2 DEF Joins
<1>5. DOMAIN u = 1..Len(u) /\ DOMAIN s = 1..Len(s)
  BY <1>4, ListLength
<1>6. ASSUME NEW j \in HeadingsOf(u) PROVE j \in HeadingsOf(s) \cup {Len(s) + 1}
  <2>1. j \in 1..Len(u) /\ u[j].kind = "heading"
    BY <1>5, <1>6 DEF HeadingsOf
  <2>2. CASE j \in 1..Len(s) /\ u[j] = s[j]
    BY <1>5, <2>1, <2>2 DEF HeadingsOf
  <2>3. ASSUME NEW k \in 1..Len(t), j = Len(s) + k, u[j] = t[k]
        PROVE  j = Len(s) + 1
    <3>1. ~ (k \in 2..Len(t))
      BY <2>1, <2>3 DEF IsSection
    <3> QED BY <1>1, <2>3, <3>1
  <2> QED BY <1>1, <1>2, <2>1, <2>2, <2>3, JoinedPlaces
<1>7. HeadingsOf(s) \subseteq HeadingsOf(u)
  <2>1. SUFFICES ASSUME NEW j \in HeadingsOf(s) PROVE j \in HeadingsOf(u)
    OBVIOUS
  <2>2. j \in 1..Len(s) /\ s[j].kind = "heading"
    BY <1>5 DEF HeadingsOf
  <2>3. u[j] = s[j]
    BY <1>2, <2>2 DEF Joins
  <2>4. j \in 1..Len(u)
    BY <1>1, <1>4, <2>2
  <2> QED BY <1>5, <2>2, <2>3, <2>4 DEF HeadingsOf
<1>8. Len(s) + 1 \in HeadingsOf(u)
  <2>1. Len(s) + 1 \in 1..Len(u)
    BY <1>1, <1>4
  <2>2. Heading(title).kind = "heading"
    BY LineFields
  <2> QED BY <1>3, <1>5, <2>1, <2>2 DEF HeadingsOf
<1> QED BY <1>2, <1>3, <1>6, <1>7, <1>8

\* Lines without a heading, and the gate lines among lines.
NoHeads(s) == IsList(s) /\ \A k \in 1..Len(s) : s[k].kind # "heading"
GatesIn(s) == {s[k] : k \in {j \in 1..Len(s) : s[j].kind = "gate"}}

\* A line that is no heading.
Plain(a) == a.kind # "heading"

\* Sections of two, of four and of five lines.
Two(u, h, a) == u = <<h, a>> /\ Plain(a)
Four(u, h, a, b, c) == u = <<h, a, b, c>> /\ Plain(a) /\ Plain(b) /\ Plain(c)
Five(u, h, a, b, c, d) == u = <<h, a, b, c, d>> /\ Plain(a) /\ Plain(b) /\ Plain(c) /\ Plain(d)

\* A heading and one plain line are a section.
LEMMA SectionOfTwo ==
  ASSUME NEW title, NEW h, h = Heading(title), NEW a, NEW u, Two(u, h, a)
  PROVE  IsSection(u, title) /\ Len(u) = 2 /\ u[1] = h /\ u[2] = a
<1>1. u \in Seq({h, a}) /\ Len(u) = 2 /\ u[1] = h /\ u[2] = a
  BY DEF Two
<1>2. IsList(u)
  BY <1>1 DEF IsList
<1> QED BY <1>1, <1>2 DEF IsSection, Plain, Two

\* A heading and three plain lines are a section.
LEMMA SectionOfFour ==
  ASSUME NEW title, NEW h, h = Heading(title), NEW a, NEW b, NEW c,
         NEW u, Four(u, h, a, b, c)
  PROVE  /\ IsSection(u, title) /\ Len(u) = 4
         /\ u[1] = h /\ u[2] = a /\ u[3] = b /\ u[4] = c
<1>1. /\ u \in Seq({h, a, b, c}) /\ Len(u) = 4
      /\ u[1] = h /\ u[2] = a /\ u[3] = b /\ u[4] = c
  BY DEF Four
<1>2. IsList(u)
  BY <1>1 DEF IsList
<1> QED BY <1>1, <1>2 DEF IsSection, Plain, Four

\* A heading and four plain lines are a section.
LEMMA SectionOfFive ==
  ASSUME NEW title, NEW h, h = Heading(title), NEW a, NEW b, NEW c, NEW d,
         NEW u, Five(u, h, a, b, c, d)
  PROVE  /\ IsSection(u, title) /\ Len(u) = 5
         /\ u[1] = h /\ u[2] = a /\ u[3] = b /\ u[4] = c /\ u[5] = d
<1>1. /\ u \in Seq({h, a, b, c, d}) /\ Len(u) = 5
      /\ u[1] = h /\ u[2] = a /\ u[3] = b /\ u[4] = c /\ u[5] = d
  BY DEF Five
<1>2. IsList(u)
  BY <1>1 DEF IsList
<1> QED BY <1>1, <1>2 DEF IsSection, Plain, Five

\* The parts of a report are sections.
LEMMA DataSectionLines ==
  ASSUME NEW required, NEW data, NEW u, u = DataSection(required, data)
  PROVE  /\ IsSection(u, "LocalDataSafety") /\ Len(u) = 5 /\ GatesIn(u) = {}
         /\ u[2] = Field("Required", required) /\ u[4] = Field("Result", data)
         /\ u[3].name = "ExitCode" /\ u[3].kind = "field" /\ u[5].kind = "text"
<1>1. PICK h, a, b, c, d :
        /\ h = Heading("LocalDataSafety") /\ a = Field("Required", required)
        /\ b = Field("ExitCode", IF data = "PASS" THEN "0" ELSE "1")
        /\ c = Field("Result", data) /\ d = Text
  OBVIOUS
<1>2. /\ a.kind = "field" /\ b.kind = "field" /\ b.name = "ExitCode"
      /\ c.kind = "field" /\ d.kind = "text"
  BY <1>1 DEF Field, Line, Text
<1>3. Plain(a) /\ Plain(b) /\ Plain(c) /\ Plain(d)
  BY <1>2 DEF Plain
<1>4. Five(u, h, a, b, c, d)
  BY <1>1, <1>3 DEF DataSection, Five
<1>5. /\ IsSection(u, "LocalDataSafety") /\ Len(u) = 5
      /\ u[1] = h /\ u[2] = a /\ u[3] = b /\ u[4] = c /\ u[5] = d
  BY <1>1, <1>4, SectionOfFive
<1>6. h.kind = "heading" /\ \A k \in 1..Len(u) : k = 1 \/ k = 2 \/ k = 3 \/ k = 4 \/ k = 5
  BY <1>1, <1>5, LineFields
<1>7. GatesIn(u) = {}
  BY <1>2, <1>5, <1>6 DEF GatesIn
<1> QED BY <1>7, <1>1, <1>2, <1>5

\* The governance alerts.
LEMMA GovernanceSectionLines ==
  ASSUME NEW gov, NEW u, u = GovernanceSection(gov)
  PROVE  /\ IsSection(u, "GovernanceAlerts") /\ Len(u) = 5 /\ GatesIn(u) = {}
         /\ u[2].name = "MetricsAvailable" /\ u[2].kind = "field"
         /\ u[3].name = "AlertCount" /\ u[3].kind = "field"
         /\ u[4] = Field("Result", gov.result) /\ u[5].kind = "text"
<1>1. PICK h, a, b, c, d :
        /\ h = Heading("GovernanceAlerts") /\ a = Field("MetricsAvailable", gov.available)
        /\ b = Field("AlertCount", gov.alerts)
        /\ c = Field("Result", gov.result) /\ d = Text
  OBVIOUS
<1>2. /\ a.kind = "field" /\ a.name = "MetricsAvailable"
      /\ b.kind = "field" /\ b.name = "AlertCount"
      /\ c.kind = "field" /\ d.kind = "text"
  BY <1>1 DEF Field, Line, Text
<1>3. Plain(a) /\ Plain(b) /\ Plain(c) /\ Plain(d)
  BY <1>2 DEF Plain
<1>4. Five(u, h, a, b, c, d)
  BY <1>1, <1>3 DEF GovernanceSection, Five
<1>5. /\ IsSection(u, "GovernanceAlerts") /\ Len(u) = 5
      /\ u[1] = h /\ u[2] = a /\ u[3] = b /\ u[4] = c /\ u[5] = d
  BY <1>1, <1>4, SectionOfFive
<1>6. h.kind = "heading" /\ \A k \in 1..Len(u) : k = 1 \/ k = 2 \/ k = 3 \/ k = 4 \/ k = 5
  BY <1>1, <1>5, LineFields
<1>7. GatesIn(u) = {}
  BY <1>2, <1>5, <1>6 DEF GatesIn
<1> QED BY <1>7, <1>1, <1>2, <1>5

\* The runtime snapshots.
LEMMA SnapshotSectionLines ==
  ASSUME NEW snap, NEW u, u = SnapshotSection(snap)
  PROVE  /\ IsSection(u, "RuntimeSnapshots") /\ Len(u) = 5 /\ GatesIn(u) = {}
         /\ u[2] = Field("Available", snap.available)
         /\ u[3].name = "BeforeCaptured" /\ u[3].kind = "field"
         /\ u[4].name = "AfterCaptured" /\ u[4].kind = "field" /\ u[5].kind = "text"
<1>1. PICK h, a, b, c, d :
        /\ h = Heading("RuntimeSnapshots") /\ a = Field("Available", snap.available)
        /\ b = Field("BeforeCaptured", snap.before)
        /\ c = Field("AfterCaptured", snap.after) /\ d = Text
  OBVIOUS
<1>2. /\ a.kind = "field" /\ b.kind = "field" /\ b.name = "BeforeCaptured"
      /\ c.kind = "field" /\ c.name = "AfterCaptured" /\ d.kind = "text"
  BY <1>1 DEF Field, Line, Text
<1>3. Plain(a) /\ Plain(b) /\ Plain(c) /\ Plain(d)
  BY <1>2 DEF Plain
<1>4. Five(u, h, a, b, c, d)
  BY <1>1, <1>3 DEF SnapshotSection, Five
<1>5. /\ IsSection(u, "RuntimeSnapshots") /\ Len(u) = 5
      /\ u[1] = h /\ u[2] = a /\ u[3] = b /\ u[4] = c /\ u[5] = d
  BY <1>1, <1>4, SectionOfFive
<1>6. h.kind = "heading" /\ \A k \in 1..Len(u) : k = 1 \/ k = 2 \/ k = 3 \/ k = 4 \/ k = 5
  BY <1>1, <1>5, LineFields
<1>7. GatesIn(u) = {}
  BY <1>2, <1>5, <1>6 DEF GatesIn
<1> QED BY <1>7, <1>1, <1>2, <1>5

\* The UI automation.
LEMMA UiSectionLines ==
  ASSUME NEW ui, NEW u, u = UiSection(ui)
  PROVE  /\ IsSection(u, "UIE2EAutomation") /\ Len(u) = 4 /\ GatesIn(u) = {}
         /\ u[2].name = "Available" /\ u[2].kind = "field"
         /\ u[3] = Field("Result", ui.result) /\ u[4].kind = "text"
<1>1. PICK h, a, b, c :
        /\ h = Heading("UIE2EAutomation") /\ a = Field("Available", ui.available)
        /\ b = Field("Result", ui.result) /\ c = Text
  OBVIOUS
<1>2. /\ a.kind = "field" /\ a.name = "Available" /\ b.kind = "field" /\ c.kind = "text"
  BY <1>1 DEF Field, Line, Text
<1>3. Plain(a) /\ Plain(b) /\ Plain(c)
  BY <1>2 DEF Plain
<1>4. Four(u, h, a, b, c)
  BY <1>1, <1>3 DEF UiSection, Four
<1>5. IsSection(u, "UIE2EAutomation") /\ Len(u) = 4 /\ u[1] = h /\ u[2] = a /\ u[3] = b /\ u[4] = c
  BY <1>1, <1>4, SectionOfFour
<1>6. h.kind = "heading" /\ \A k \in 1..Len(u) : k = 1 \/ k = 2 \/ k = 3 \/ k = 4
  BY <1>1, <1>5, LineFields
<1>7. GatesIn(u) = {}
  BY <1>2, <1>5, <1>6 DEF GatesIn
<1> QED BY <1>7, <1>1, <1>2, <1>5

\* The overall result.
LEMMA OverallSectionLines ==
  ASSUME NEW s, NEW data, NEW u, u = OverallSection(s, data)
  PROVE  /\ IsSection(u, "Overall") /\ Len(u) = 2 /\ GatesIn(u) = {}
         /\ u[2] = Field("Result", IF OverallPass(s, data) THEN "PASS" ELSE "FAIL")
<1>1. PICK h, v : /\ h = Heading("Overall")
                  /\ v = IF OverallPass(s, data) THEN "PASS" ELSE "FAIL"
  OBVIOUS
<1>2. PICK a : a = Field("Result", v)
  OBVIOUS
<1>3. Plain(a) /\ a.kind = "field"
  BY <1>2 DEF Field, Line, Plain
<1>4. Two(u, h, a)
  BY <1>1, <1>2, <1>3 DEF OverallSection, Verdict, Two
<1>5. IsSection(u, "Overall") /\ Len(u) = 2 /\ u[1] = h /\ u[2] = a
  BY <1>1, <1>4, SectionOfTwo
<1>6. h.kind = "heading" /\ \A k \in 1..Len(u) : k = 1 \/ k = 2
  BY <1>1, <1>5, LineFields
<1>7. GatesIn(u) = {}
  BY <1>3, <1>5, <1>6 DEF GatesIn
<1> QED BY <1>7, <1>1, <1>2, <1>5

\* The gate lines of the whole are those of its parts.
LEMMA GatesJoin ==
  ASSUME NEW u, NEW s, NEW t, IsList(s), IsList(t), Joins(u, s, t)
  PROVE  GatesIn(u) = GatesIn(s) \cup GatesIn(t)
<1>1. Len(s) \in Nat /\ Len(t) \in Nat /\ Len(u) = Len(s) + Len(t)
  BY ListLength DEF Joins
<1>2. ASSUME NEW j \in 1..Len(u), u[j].kind = "gate" PROVE u[j] \in GatesIn(s) \cup GatesIn(t)
  <2>1. CASE j \in 1..Len(s) /\ u[j] = s[j]
    BY <1>2, <2>1 DEF GatesIn
  <2>2. ASSUME NEW k \in 1..Len(t), u[j] = t[k] PROVE u[j] \in GatesIn(t)
    BY <1>2, <2>2 DEF GatesIn
  <2> QED BY <2>1, <2>2, JoinedPlaces
<1>3. ASSUME NEW j \in 1..Len(s), s[j].kind = "gate" PROVE s[j] \in GatesIn(u)
  <2>1. j \in 1..Len(u) /\ u[j] = s[j]
    BY <1>1 DEF Joins
  <2> QED BY <1>3, <2>1 DEF GatesIn
<1>4. ASSUME NEW j \in 1..Len(t), t[j].kind = "gate" PROVE t[j] \in GatesIn(u)
  <2>1. Len(s) + j \in 1..Len(u) /\ u[Len(s) + j] = t[j]
    BY <1>1 DEF Joins
  <2> QED BY <1>4, <2>1 DEF GatesIn
<1>5. GatesIn(u) \subseteq GatesIn(s) \cup GatesIn(t)
  BY <1>2 DEF GatesIn
<1>6. GatesIn(s) \subseteq GatesIn(u) /\ GatesIn(t) \subseteq GatesIn(u)
  BY <1>3, <1>4 DEF GatesIn
<1> QED BY <1>5, <1>6

\* Lines without a heading may follow lines without one, and a section.
LEMMA HeadlessJoin ==
  ASSUME NEW u, NEW s, NEW t, IsList(s), NoHeads(t), Joins(u, s, t)
  PROVE  /\ NoHeads(s) => NoHeads(u)
         /\ \A title : IsSection(s, title) => IsSection(u, title)
<1>1. /\ IsList(t) /\ Len(s) \in Nat /\ Len(t) \in Nat
      /\ IsList(u) /\ Len(u) = Len(s) + Len(t)
  BY ListLength DEF Joins, NoHeads
<1>2. IsList(t)
  BY DEF NoHeads
<1>3. ASSUME NoHeads(s) PROVE NoHeads(u)
  <2>1. ASSUME NEW j \in 1..Len(u) PROVE u[j].kind # "heading"
    <3>1. \/ j \in 1..Len(s) /\ u[j] = s[j]
          \/ \E k \in 1..Len(t) : j = Len(s) + k /\ u[j] = t[k]
      BY <1>2, JoinedPlaces
    <3> QED BY <1>3, <3>1 DEF NoHeads
  <2> QED BY <1>1, <2>1 DEF NoHeads
<1>4. ASSUME NEW title, IsSection(s, title) PROVE IsSection(u, title)
  <2>1. Len(s) >= 1 /\ s[1] = Heading(title) /\ \A k \in 2..Len(s) : s[k].kind # "heading"
    BY <1>4 DEF IsSection
  <2>2. Len(u) >= 1 /\ u[1] = Heading(title)
    BY <1>1, <2>1 DEF Joins
  <2>3. ASSUME NEW j \in 2..Len(u) PROVE u[j].kind # "heading"
    <3>1. j \in 1..Len(u) /\ (j \in 1..Len(s) => j \in 2..Len(s))
      BY <1>1
    <3>2. \/ j \in 1..Len(s) /\ u[j] = s[j]
          \/ \E k \in 1..Len(t) : j = Len(s) + k /\ u[j] = t[k]
      BY <1>2, <3>1, JoinedPlaces
    <3> QED BY <2>1, <3>1, <3>2 DEF NoHeads
  <2> QED BY <1>1, <2>2, <2>3 DEF IsSection
<1> QED BY <1>3, <1>4

\* The result of one gate.
IsResult(r) == /\ r = [gate |-> r.gate, exit |-> r.exit, output |-> r.output]
               /\ r.exit \in {"0", "1"} /\ r.output \in GateOutputs

\* The section of one gate holds one gate line and no heading.
LEMMA GateSectionLines ==
  ASSUME NEW r, IsResult(r), NEW u, u = GateSection(r)
  PROVE  NoHeads(u) /\ GatesIn(u) = {GateLine(r.gate, r.exit)}
<1>1. PICK a, b, c : /\ a = GateLine(r.gate, r.exit) /\ b = Field("ExitCode", r.exit) /\ c = Text
  OBVIOUS
<1>2. a.kind = "gate" /\ b.kind = "field" /\ c.kind = "text"
  BY <1>1, LineFields
<1>3. PICK top, mid, end : top = <<a, b, c>> /\ mid = r.output /\ end = <<c>>
  OBVIOUS
<1>4. u = (top \o mid) \o end
  BY <1>1, <1>3 DEF GateSection
<1>5. top \in Seq({a, b, c}) /\ Len(top) = 3 /\ top[1] = a /\ top[2] = b /\ top[3] = c
  BY <1>3
<1>6. NoHeads(top) /\ GatesIn(top) = {a}
  <2>1. IsList(top)
    BY <1>5 DEF IsList
  <2>2. \A k \in 1..Len(top) : k = 1 \/ k = 2 \/ k = 3
    BY <1>5
  <2>3. NoHeads(top)
    BY <1>2, <1>5, <2>1, <2>2 DEF NoHeads
  <2>4. 1 \in 1..Len(top)
    BY <1>5
  <2>5. GatesIn(top) = {a}
    BY <1>2, <1>5, <2>2, <2>4 DEF GatesIn
  <2> QED BY <2>3, <2>5
<1>7. NoHeads(mid) /\ GatesIn(mid) = {}
  <2>1. mid \in Seq(Lines) /\ \A k \in DOMAIN mid : mid[k].kind \in {"field", "text"}
    BY <1>3, OutputAssumption DEF IsResult
  <2>2. \A k \in 1..Len(mid) : mid[k].kind # "heading" /\ mid[k].kind # "gate"
    BY <2>1
  <2>3. IsList(mid)
    BY <2>1 DEF IsList
  <2> QED BY <2>2, <2>3 DEF NoHeads, GatesIn
<1>8. end \in Seq({c}) /\ Len(end) = 1 /\ end[1] = c
  BY <1>3
<1>9. NoHeads(end) /\ GatesIn(end) = {}
  <2>1. IsList(end)
    BY <1>8 DEF IsList
  <2>2. \A k \in 1..Len(end) : k = 1
    BY <1>8
  <2> QED BY <1>2, <1>8, <2>1, <2>2 DEF NoHeads, GatesIn
<1>10. PICK v : v = top \o mid
  OBVIOUS
<1>11. IsList(top) /\ IsList(mid) /\ IsList(end)
  BY <1>6, <1>7, <1>9 DEF NoHeads
<1>12. Joins(v, top, mid)
  BY <1>10, <1>11, ConcatJoins
<1>13. NoHeads(v) /\ GatesIn(v) = {a}
  BY <1>6, <1>7, <1>11, <1>12, GatesJoin, HeadlessJoin
<1>14. IsList(v) /\ u = v \o end
  BY <1>4, <1>10, <1>13 DEF NoHeads
<1>15. Joins(u, v, end)
  BY <1>11, <1>14, ConcatJoins
<1> QED BY <1>1, <1>9, <1>11, <1>13, <1>14, <1>15, GatesJoin, HeadlessJoin

\* What the runs of the gates have left.
AreResults(results) ==
  /\ IsList(results) /\ Len(results) <= 3
  /\ \A k \in 1..Len(results) : IsResult(results[k]) /\ results[k].gate = Gates[k]

\* The gate lines that results are printed as.
GateLines(results) == {GateLine(results[k].gate, results[k].exit) : k \in 1..Len(results)}

\* The empty list is a list.
LEMMA EmptyList == IsList(<<>>) /\ Len(<<>>) = 0
<1>1. <<>> \in Seq({})
  OBVIOUS
<1> QED BY <1>1 DEF IsList

\* The lines of the k-th gate, if it ran.
LEMMA GateResultLines ==
  ASSUME NEW results, AreResults(results), NEW k \in 1..3, NEW u, u = GateResult(results, k)
  PROVE  /\ NoHeads(u)
         /\ GatesIn(u) = {GateLine(results[j].gate, results[j].exit) : j \in {i \in 1..Len(results) : i = k}}
<1>1. Len(results) \in Nat
  BY ListLength DEF AreResults
<1>2. CASE k <= Len(results)
  <2>1. k \in 1..Len(results) /\ IsResult(results[k])
    BY <1>1, <1>2 DEF AreResults
  <2>2. u = GateSection(results[k])
    BY <1>2 DEF GateResult
  <2>3. NoHeads(u) /\ GatesIn(u) = {GateLine(results[k].gate, results[k].exit)}
    BY <2>1, <2>2, GateSectionLines
  <2> QED BY <2>1, <2>3
<1>3. CASE ~ (k <= Len(results))
  <2>1. u = <<>>
    BY <1>3 DEF GateResult
  <2>2. IsList(u) /\ Len(u) = 0
    BY <2>1, EmptyList
  <2>3. \A j \in 1..Len(u) : FALSE
    BY <2>2
  <2>4. NoHeads(u) /\ GatesIn(u) = {}
    BY <2>2, <2>3 DEF NoHeads, GatesIn
  <2>5. ~ (k \in 1..Len(results))
    BY <1>1, <1>3
  <2> QED BY <2>4, <2>5
<1> QED BY <1>2, <1>3

\* The gate results are one section, with one gate line for each gate that ran.
LEMMA GateSectionsLines ==
  ASSUME NEW results, AreResults(results), NEW u, u = GateSections(results)
  PROVE  IsSection(u, "GateResults") /\ GatesIn(u) = GateLines(results)
<1>1. PICK h, p : h = Heading("GateResults") /\ p = <<h>>
  OBVIOUS
<1>2. p \in Seq({h}) /\ Len(p) = 1 /\ p[1] = h
  BY <1>1
<1>3. IsList(p)
  BY <1>2 DEF IsList
<1>4. h.kind = "heading"
  BY <1>1, LineFields
<1>5. IsSection(p, "GateResults")
  BY <1>1, <1>2, <1>3 DEF IsSection
<1>6. GatesIn(p) = {}
  BY <1>2, <1>4 DEF GatesIn
<1>7. PICK a, b, c : a = GateResult(results, 1) /\ b = GateResult(results, 2) /\ c = GateResult(results, 3)
  OBVIOUS
<1> DEFINE Of(k) == {GateLine(results[j].gate, results[j].exit) : j \in {i \in 1..Len(results) : i = k}}
<1>8. /\ NoHeads(a) /\ GatesIn(a) = Of(1)
      /\ NoHeads(b) /\ GatesIn(b) = Of(2)
      /\ NoHeads(c) /\ GatesIn(c) = Of(3)
  BY <1>7, GateResultLines
<1>9. IsList(a) /\ IsList(b) /\ IsList(c)
  BY <1>8 DEF NoHeads
<1>10. PICK v : v = p \o a
  OBVIOUS
<1>11. Joins(v, p, a)
  BY <1>3, <1>9, <1>10, ConcatJoins
<1>12. IsList(v) /\ IsSection(v, "GateResults") /\ GatesIn(v) = GatesIn(p) \cup GatesIn(a)
  <2>1. IsList(v)
    BY <1>11 DEF Joins
  <2>2. IsSection(v, "GateResults")
    BY <1>3, <1>5, <1>8, <1>11, HeadlessJoin
  <2> QED BY <1>3, <1>9, <1>11, <2>1, <2>2, GatesJoin
<1>13. PICK w : w = v \o b
  OBVIOUS
<1>14. Joins(w, v, b)
  BY <1>9, <1>12, <1>13, ConcatJoins
<1>15. IsList(w) /\ IsSection(w, "GateResults") /\ GatesIn(w) = GatesIn(v) \cup GatesIn(b)
  <2>1. IsList(w)
    BY <1>14 DEF Joins
  <2>2. IsSection(w, "GateResults")
    BY <1>8, <1>12, <1>14, HeadlessJoin
  <2> QED BY <1>9, <1>12, <1>14, <2>1, <2>2, GatesJoin
<1>16. u = w \o c
  BY <1>1, <1>7, <1>10, <1>13 DEF GateSections
<1>17. Joins(u, w, c)
  BY <1>9, <1>15, <1>16, ConcatJoins
<1>18. IsSection(u, "GateResults") /\ GatesIn(u) = GatesIn(w) \cup GatesIn(c)
  BY <1>8, <1>9, <1>15, <1>17, GatesJoin, HeadlessJoin
<1>19. GatesIn(u) = Of(1) \cup Of(2) \cup Of(3)
  BY <1>6, <1>8, <1>12, <1>15, <1>18
<1>20. Len(results) \in Nat /\ Len(results) <= 3
  BY ListLength DEF AreResults
<1>21. \A k \in 1..Len(results) : k = 1 \/ k = 2 \/ k = 3
  BY <1>20
<1>22. GateLines(results) = Of(1) \cup Of(2) \cup Of(3)
  BY <1>21 DEF GateLines
<1> QED BY <1>18, <1>19, <1>22

\* The evidence links at the top of a report.
LinkSectionOK(u, missing, m) ==
  /\ IsList(u) /\ m \in Nat /\ Len(u) = m + 4
  /\ u[1] = Heading("ExecutionContext") /\ u[2].kind = "text"
  /\ u[3] = Heading("RequiredEvidenceLinks") /\ u[m + 4].kind = "text"
  /\ \A k \in 1..m : u[k + 3] = LinkLine(EvidenceLinks[k], missing)
  /\ HeadingsOf(u) = {1, 3} /\ GatesIn(u) = {}

\* They are the section that LinkSection writes.
LEMMA LinkSectionLines ==
  ASSUME NEW missing, NEW u, u = LinkSection(missing), NEW m, m = Len(EvidenceLinks)
  PROVE  LinkSectionOK(u, missing, m)
<1>1. PICK a, b, c : /\ a = Heading("ExecutionContext") /\ b = Text
                     /\ c = Heading("RequiredEvidenceLinks")
  OBVIOUS
<1>2. a.kind = "heading" /\ b.kind = "text" /\ c.kind = "heading"
  BY <1>1, LineFields
<1>3. PICK top, mid, end :
        /\ top = <<a, b, c>> /\ end = <<b>>
        /\ mid = [k \in 1..m |-> LinkLine(EvidenceLinks[k], missing)]
  OBVIOUS
<1>4. u = (top \o mid) \o end
  BY <1>1, <1>3 DEF LinkSection
<1>5. m \in Nat
  BY OutputAssumption
<1>6. top \in Seq({a, b, c}) /\ Len(top) = 3 /\ top[1] = a /\ top[2] = b /\ top[3] = c
  BY <1>3
<1>7. end \in Seq({b}) /\ Len(end) = 1 /\ end[1] = b
  BY <1>3
<1>8. /\ Len(mid) = m /\ \A k \in 1..m : mid[k] = LinkLine(EvidenceLinks[k], missing)
      /\ \E S : mid \in Seq(S)
  <2>1. PICK S : S = {LinkLine(EvidenceLinks[k], missing) : k \in 1..m}
    OBVIOUS
  <2>2. \A k \in 1..m : LinkLine(EvidenceLinks[k], missing) \in S
    BY <2>1
  <2>3. mid \in [1..m -> S]
    BY <1>3, <2>2
  <2>4. mid \in Seq(S) /\ Len(mid) = m
    BY <1>5, <2>3
  <2> QED BY <1>3, <2>4
<1>9. IsList(top) /\ IsList(mid) /\ IsList(end)
  BY <1>6, <1>7, <1>8 DEF IsList
<1>10. PICK v : v = top \o mid
  OBVIOUS
<1>11. Joins(v, top, mid)
  BY <1>9, <1>10, ConcatJoins
<1>12. IsList(v) /\ u = v \o end
  BY <1>4, <1>10, <1>11 DEF Joins
<1>13. Joins(u, v, end)
  BY <1>9, <1>12, ConcatJoins
<1>14. /\ Len(v) = m + 3 /\ v[1] = a /\ v[2] = b /\ v[3] = c
       /\ \A k \in 1..m : v[3 + k] = LinkLine(EvidenceLinks[k], missing)
  BY <1>5, <1>6, <1>8, <1>11 DEF Joins
<1>15. /\ IsList(u) /\ Len(u) = m + 4 /\ u[1] = a /\ u[2] = b /\ u[3] = c /\ u[m + 4] = b
       /\ \A k \in 1..m : u[k + 3] = LinkLine(EvidenceLinks[k], missing)
  <2>1. IsList(u) /\ Len(u) = m + 4
    BY <1>5, <1>7, <1>13, <1>14 DEF Joins
  <2>2. \A k \in 1..(m + 3) : u[k] = v[k]
    BY <1>13, <1>14 DEF Joins
  <2>3. 1 \in 1..(m + 3) /\ 2 \in 1..(m + 3) /\ 3 \in 1..(m + 3)
    BY <1>5
  <2>4. \A k \in 1..m : k + 3 \in 1..(m + 3) /\ v[k + 3] = LinkLine(EvidenceLinks[k], missing)
    BY <1>5, <1>14
  <2>5. u[m + 3 + 1] = b
    BY <1>5, <1>7, <1>13, <1>14 DEF Joins
  <2>6. m + 3 + 1 = m + 4
    BY <1>5
  <2> QED BY <1>14, <2>1, <2>2, <2>3, <2>4, <2>5, <2>6
<1>16. \A j \in 1..Len(u) : j = 1 \/ j = 2 \/ j = 3 \/ j = m + 4 \/ \E k \in 1..m : j = k + 3
  <2>1. SUFFICES ASSUME NEW j \in 1..(m + 4), j # 1, j # 2, j # 3, j # m + 4
                 PROVE  \E k \in 1..m : j = k + 3
    BY <1>15
  <2>2. j - 3 \in 1..m /\ j = (j - 3) + 3
    BY <1>5, <2>1
  <2> QED BY <2>2
<1>17. \A k \in 1..m : u[k + 3].kind = "link"
  <2>1. \A p, mm : LinkLine(p, mm).kind = "link"
    BY DEF LinkLine, Line
  <2> QED BY <1>15, <2>1
<1>18. \A j \in 1..Len(u) : /\ u[j].kind # "gate"
                            /\ (u[j].kind = "heading") <=> (j = 1 \/ j = 3)
  <2>1. ASSUME NEW k \in 1..m PROVE k + 3 # 1 /\ k + 3 # 3
    OBVIOUS
  <2>2. m + 4 # 1 /\ m + 4 # 3
    BY <1>5
  <2> QED BY <1>2, <1>15, <1>16, <1>17, <2>1, <2>2
<1>19. GatesIn(u) = {}
  BY <1>18 DEF GatesIn
<1>20. HeadingsOf(u) = {1, 3}
  <2>1. DOMAIN u = 1..Len(u) /\ 1 \in 1..Len(u) /\ 3 \in 1..Len(u)
    BY <1>5, <1>15, ListLength
  <2> QED BY <1>18, <2>1 DEF HeadingsOf
<1> QED BY <1>1, <1>2, <1>5, <1>15, <1>19, <1>20 DEF LinkSectionOK

\* The first lines of a report.
Starts(u, s) == Len(s) <= Len(u) /\ \A k \in 1..Len(s) : u[k] = s[k]

\* A report that starts with two parts starts with the first, and goes on with the second.
LEMMA StartsOn ==
  ASSUME NEW u, NEW v, NEW s, NEW t, IsList(u), IsList(v), IsList(s), IsList(t),
         Joins(v, s, t), Starts(u, v)
  PROVE  /\ Starts(u, s)
         /\ \A k \in 1..Len(t) : u[Len(s) + k] = t[k]
<1>1. /\ Len(u) \in Nat /\ Len(v) \in Nat /\ Len(s) \in Nat /\ Len(t) \in Nat
      /\ Len(v) = Len(s) + Len(t)
  BY ListLength DEF Joins
<1>2. Len(s) <= Len(u)
  BY <1>1 DEF Starts
<1>3. ASSUME NEW k \in 1..Len(s) PROVE u[k] = s[k]
  <2>1. k \in 1..Len(v)
    BY <1>1
  <2> QED BY <2>1 DEF Starts, Joins
<1>4. ASSUME NEW k \in 1..Len(t) PROVE u[Len(s) + k] = t[k]
  <2>1. Len(s) + k \in 1..Len(v)
    BY <1>1
  <2> QED BY <2>1 DEF Starts, Joins
<1> QED BY <1>2, <1>3, <1>4 DEF Starts

\* Where everything is in a report whose gate results end at line n.
Layout(u, n, m, s, data, gov, snap, ui) ==
  /\ IsList(u) /\ n \in Nat /\ m \in Nat /\ m = Len(EvidenceLinks) /\ m + 5 <= n /\ Len(u) = n + 21
  /\ HeadingsOf(u) = {1, 3, m + 5, n + 1, n + 6, n + 11, n + 16, n + 20}
  /\ u[1] = Heading("ExecutionContext") /\ u[3] = Heading("RequiredEvidenceLinks")
  /\ u[m + 5] = Heading("GateResults") /\ u[n + 1] = Heading("LocalDataSafety")
  /\ u[n + 6] = Heading("GovernanceAlerts") /\ u[n + 11] = Heading("RuntimeSnapshots")
  /\ u[n + 16] = Heading("UIE2EAutomation") /\ u[n + 20] = Heading("Overall")
  /\ u[m + 4].kind = "text"
  /\ \A k \in 1..m : u[k + 3] = LinkLine(EvidenceLinks[k], s.missing)
  /\ GatesIn(u) = GateLines(s.results)
  /\ u[n + 2] = Field("Required", s.required) /\ u[n + 3].name = "ExitCode"
  /\ u[n + 4] = Field("Result", data) /\ u[n + 5].kind = "text"
  /\ u[n + 7].name = "MetricsAvailable" /\ u[n + 8].name = "AlertCount"
  /\ u[n + 9] = Field("Result", gov.result) /\ u[n + 10].kind = "text"
  /\ u[n + 12] = Field("Available", snap.available) /\ u[n + 13].name = "BeforeCaptured"
  /\ u[n + 14].name = "AfterCaptured" /\ u[n + 15].kind = "text"
  /\ u[n + 17].name = "Available" /\ u[n + 18] = Field("Result", ui.result)
  /\ u[n + 19].kind = "text"
  /\ u[n + 21] = Field("Result", IF OverallPass(s, data) THEN "PASS" ELSE "FAIL")

\* Every report has that layout.
LEMMA ReportLayout ==
  ASSUME NEW s, AreResults(s.results), NEW data, NEW gov, NEW snap, NEW ui,
         NEW u, u = ReportLines(s, data, gov, snap, ui)
  PROVE  \E n, m : Layout(u, n, m, s, data, gov, snap, ui)
<1>1. PICK m : m = Len(EvidenceLinks)
  OBVIOUS
<1>m. PICK missing : missing = s.missing
  OBVIOUS
<1>e. PICK results : results = s.results
  OBVIOUS
<1>2p. PICK p : p = LinkSection(missing)
  OBVIOUS
<1>2q. PICK q : q = GateSections(results)
  OBVIOUS
<1>2d. PICK d : d = DataSection(s.required, data)
  OBVIOUS
<1>2g. PICK g : g = GovernanceSection(gov)
  OBVIOUS
<1>2r. PICK r : r = SnapshotSection(snap)
  OBVIOUS
<1>2i. PICK i : i = UiSection(ui)
  OBVIOUS
<1>2o. PICK o : o = OverallSection(s, data)
  OBVIOUS
<1>3. PICK pq : pq = p \o q
  OBVIOUS
<1>4. PICK ud : ud = pq \o d
  OBVIOUS
<1>5. PICK ug : ug = ud \o g
  OBVIOUS
<1>6. PICK ur : ur = ug \o r
  OBVIOUS
<1>7. PICK ui2 : ui2 = ur \o i
  OBVIOUS
<1>8. u = ui2 \o o
  BY <1>m, <1>e, <1>2p, <1>2q, <1>2d, <1>2g, <1>2r, <1>2i, <1>2o, <1>3, <1>4, <1>5, <1>6, <1>7
     DEF ReportLines
<1>p. /\ IsList(p) /\ m \in Nat /\ Len(p) = m + 4
      /\ p[1] = Heading("ExecutionContext") /\ p[3] = Heading("RequiredEvidenceLinks")
      /\ p[m + 4].kind = "text"
      /\ \A k \in 1..m : p[k + 3] = LinkLine(EvidenceLinks[k], missing)
      /\ HeadingsOf(p) = {1, 3} /\ GatesIn(p) = {}
  <2>1. LinkSectionOK(p, missing, m)
    BY <1>1, <1>2p, LinkSectionLines
  <2> QED BY <2>1 DEF LinkSectionOK
<1>q. IsSection(q, "GateResults") /\ GatesIn(q) = GateLines(results)
  BY <1>e, <1>2q, GateSectionsLines
<1>d. /\ IsSection(d, "LocalDataSafety") /\ Len(d) = 5 /\ GatesIn(d) = {}
      /\ d[2] = Field("Required", s.required) /\ d[3].name = "ExitCode"
      /\ d[4] = Field("Result", data) /\ d[5].kind = "text"
  BY <1>2d, DataSectionLines
<1>g. /\ IsSection(g, "GovernanceAlerts") /\ Len(g) = 5 /\ GatesIn(g) = {}
      /\ g[2].name = "MetricsAvailable" /\ g[3].name = "AlertCount"
      /\ g[4] = Field("Result", gov.result) /\ g[5].kind = "text"
  BY <1>2g, GovernanceSectionLines
<1>r. /\ IsSection(r, "RuntimeSnapshots") /\ Len(r) = 5 /\ GatesIn(r) = {}
      /\ r[2] = Field("Available", snap.available)
      /\ r[3].name = "BeforeCaptured" /\ r[4].name = "AfterCaptured" /\ r[5].kind = "text"
  BY <1>2r, SnapshotSectionLines
<1>i. /\ IsSection(i, "UIE2EAutomation") /\ Len(i) = 4 /\ GatesIn(i) = {}
      /\ i[2].name = "Available" /\ i[3] = Field("Result", ui.result) /\ i[4].kind = "text"
  BY <1>2i, UiSectionLines
<1>o. /\ IsSection(o, "Overall") /\ Len(o) = 2 /\ GatesIn(o) = {}
      /\ o[2] = Field("Result", IF OverallPass(s, data) THEN "PASS" ELSE "FAIL")
  BY <1>2o, OverallSectionLines
<1>9. /\ IsList(q) /\ IsList(d) /\ IsList(g) /\ IsList(r) /\ IsList(i) /\ IsList(o)
  BY <1>q, <1>d, <1>g, <1>r, <1>i, <1>o DEF IsSection
<1>10. /\ Joins(pq, p, q) /\ IsList(pq)
       /\ HeadingsOf(pq) = HeadingsOf(p) \cup {Len(p) + 1}
       /\ pq[Len(p) + 1] = Heading("GateResults")
  <2>1. IsList(p) /\ IsSection(q, "GateResults")
    BY <1>p, <1>q
  <2>2. /\ Joins(pq, p, q) /\ HeadingsOf(pq) = HeadingsOf(p) \cup {Len(p) + 1}
        /\ pq[Len(p) + 1] = Heading("GateResults")
    BY <1>3, <2>1, SectionAdded
  <2>3. IsList(pq)
    BY <2>2 DEF Joins
  <2> QED BY <2>2, <2>3
<1>11. /\ Joins(ud, pq, d) /\ IsList(ud)
       /\ HeadingsOf(ud) = HeadingsOf(pq) \cup {Len(pq) + 1}
       /\ ud[Len(pq) + 1] = Heading("LocalDataSafety")
  <2>1. IsList(pq) /\ IsSection(d, "LocalDataSafety")
    BY <1>10, <1>d
  <2>2. /\ Joins(ud, pq, d) /\ HeadingsOf(ud) = HeadingsOf(pq) \cup {Len(pq) + 1}
        /\ ud[Len(pq) + 1] = Heading("LocalDataSafety")
    BY <1>4, <2>1, SectionAdded
  <2>3. IsList(ud)
    BY <2>2 DEF Joins
  <2> QED BY <2>2, <2>3
<1>12. /\ Joins(ug, ud, g) /\ IsList(ug)
       /\ HeadingsOf(ug) = HeadingsOf(ud) \cup {Len(ud) + 1}
       /\ ug[Len(ud) + 1] = Heading("GovernanceAlerts")
  <2>1. IsList(ud) /\ IsSection(g, "GovernanceAlerts")
    BY <1>11, <1>g
  <2>2. /\ Joins(ug, ud, g) /\ HeadingsOf(ug) = HeadingsOf(ud) \cup {Len(ud) + 1}
        /\ ug[Len(ud) + 1] = Heading("GovernanceAlerts")
    BY <1>5, <2>1, SectionAdded
  <2>3. IsList(ug)
    BY <2>2 DEF Joins
  <2> QED BY <2>2, <2>3
<1>13. /\ Joins(ur, ug, r) /\ IsList(ur)
       /\ HeadingsOf(ur) = HeadingsOf(ug) \cup {Len(ug) + 1}
       /\ ur[Len(ug) + 1] = Heading("RuntimeSnapshots")
  <2>1. IsList(ug) /\ IsSection(r, "RuntimeSnapshots")
    BY <1>12, <1>r
  <2>2. /\ Joins(ur, ug, r) /\ HeadingsOf(ur) = HeadingsOf(ug) \cup {Len(ug) + 1}
        /\ ur[Len(ug) + 1] = Heading("RuntimeSnapshots")
    BY <1>6, <2>1, SectionAdded
  <2>3. IsList(ur)
    BY <2>2 DEF Joins
  <2> QED BY <2>2, <2>3
<1>14. /\ Joins(ui2, ur, i) /\ IsList(ui2)
       /\ HeadingsOf(ui2) = HeadingsOf(ur) \cup {Len(ur) + 1}
       /\ ui2[Len(ur) + 1] = Heading("UIE2EAutomation")
  <2>1. IsList(ur) /\ IsSection(i, "UIE2EAutomation")
    BY <1>13, <1>i
  <2>2. /\ Joins(ui2, ur, i) /\ HeadingsOf(ui2) = HeadingsOf(ur) \cup {Len(ur) + 1}
        /\ ui2[Len(ur) + 1] = Heading("UIE2EAutomation")
    BY <1>7, <2>1, SectionAdded
  <2>3. IsList(ui2)
    BY <2>2 DEF Joins
  <2> QED BY <2>2, <2>3
<1>15. /\ Joins(u, ui2, o) /\ IsList(u)
       /\ HeadingsOf(u) = HeadingsOf(ui2) \cup {Len(ui2) + 1}
       /\ u[Len(ui2) + 1] = Heading("Overall")
  <2>1. IsList(ui2) /\ IsSection(o, "Overall")
    BY <1>14, <1>o
  <2>2. /\ Joins(u, ui2, o) /\ HeadingsOf(u) = HeadingsOf(ui2) \cup {Len(ui2) + 1}
        /\ u[Len(ui2) + 1] = Heading("Overall")
    BY <1>8, <2>1, SectionAdded
  <2>3. IsList(u)
    BY <2>2 DEF Joins
  <2> QED BY <2>2, <2>3
<1>16. PICK n : n = Len(pq)
  OBVIOUS
<1>17. /\ n \in Nat /\ m + 5 <= n
       /\ Len(ud) = n + 5 /\ Len(ug) = n + 10 /\ Len(ur) = n + 15 /\ Len(ui2) = n + 19
       /\ Len(u) = n + 21
  <2>a. Len(q) \in Nat
    BY <1>9, ListLength
  <2>b. Len(q) >= 1
    BY <1>q DEF IsSection
  <2>c. Len(pq) = Len(p) + Len(q)
    BY <1>10 DEF Joins
  <2>1. Len(q) \in Nat /\ Len(q) >= 1 /\ Len(pq) = Len(p) + Len(q)
    BY <2>a, <2>b, <2>c
  <2>2. n \in Nat /\ m + 5 <= n
    BY <1>16, <1>p, <2>1
  <2>3. /\ Len(ud) = Len(pq) + Len(d) /\ Len(ug) = Len(ud) + Len(g) /\ Len(ur) = Len(ug) + Len(r)
        /\ Len(ui2) = Len(ur) + Len(i) /\ Len(u) = Len(ui2) + Len(o)
    <3>1. Len(ud) = Len(pq) + Len(d)
      BY <1>11 DEF Joins
    <3>2. Len(ug) = Len(ud) + Len(g)
      BY <1>12 DEF Joins
    <3>3. Len(ur) = Len(ug) + Len(r)
      BY <1>13 DEF Joins
    <3>4. Len(ui2) = Len(ur) + Len(i)
      BY <1>14 DEF Joins
    <3>5. Len(u) = Len(ui2) + Len(o)
      BY <1>15 DEF Joins
    <3> QED BY <3>1, <3>2, <3>3, <3>4, <3>5
  <2> QED BY <1>16, <1>d, <1>g, <1>r, <1>i, <1>o, <2>2, <2>3
<1>18. HeadingsOf(u) = {1, 3, m + 5, n + 1, n + 6, n + 11, n + 16, n + 20}
  <2>1. Len(p) + 1 = m + 5 /\ Len(pq) + 1 = n + 1 /\ Len(ud) + 1 = n + 6 /\ Len(ug) + 1 = n + 11
        /\ Len(ur) + 1 = n + 16 /\ Len(ui2) + 1 = n + 20
    BY <1>16, <1>17, <1>p
  <2>2. HeadingsOf(u) = {1, 3} \cup {Len(p) + 1} \cup {Len(pq) + 1} \cup {Len(ud) + 1}
                          \cup {Len(ug) + 1} \cup {Len(ur) + 1} \cup {Len(ui2) + 1}
    BY <1>10, <1>11, <1>12, <1>13, <1>14, <1>15, <1>p
  <2> QED BY <2>1, <2>2
<1>19. GatesIn(u) = GateLines(results)
  <2>1. GatesIn(pq) = GatesIn(p) \cup GatesIn(q)
    <3>1. IsList(p) /\ IsList(q) /\ Joins(pq, p, q)
      BY <1>9, <1>10, <1>p
    <3> QED BY <3>1, GatesJoin
  <2>2. GatesIn(ud) = GatesIn(pq) \cup GatesIn(d)
    BY <1>9, <1>10, <1>11, GatesJoin
  <2>3. GatesIn(ug) = GatesIn(ud) \cup GatesIn(g)
    BY <1>9, <1>11, <1>12, GatesJoin
  <2>4. GatesIn(ur) = GatesIn(ug) \cup GatesIn(r)
    BY <1>9, <1>12, <1>13, GatesJoin
  <2>5. GatesIn(ui2) = GatesIn(ur) \cup GatesIn(i)
    BY <1>9, <1>13, <1>14, GatesJoin
  <2>6. GatesIn(u) = GatesIn(ui2) \cup GatesIn(o)
    BY <1>9, <1>14, <1>15, GatesJoin
  <2> QED BY <1>p, <1>q, <1>d, <1>g, <1>r, <1>i, <1>o, <2>1, <2>2, <2>3, <2>4, <2>5, <2>6
<1>20. Starts(u, ui2) /\ \A k \in 1..2 : u[n + 19 + k] = o[k]
  <2>1. Starts(u, u)
    <3>1. Len(u) \in Nat
      BY <1>15, ListLength
    <3> QED BY <3>1 DEF Starts
  <2>2. Starts(u, ui2) /\ \A k \in 1..Len(o) : u[Len(ui2) + k] = o[k]
    BY <1>9, <1>14, <1>15, <2>1, StartsOn
  <2> QED BY <1>17, <1>o, <2>2
<1>21. Starts(u, ur) /\ \A k \in 1..4 : u[n + 15 + k] = i[k]
  <2>1. Starts(u, ur) /\ \A k \in 1..Len(i) : u[Len(ur) + k] = i[k]
    BY <1>9, <1>13, <1>14, <1>15, <1>20, StartsOn
  <2> QED BY <1>17, <1>i, <2>1
<1>22. Starts(u, ug) /\ \A k \in 1..5 : u[n + 10 + k] = r[k]
  <2>1. Starts(u, ug) /\ \A k \in 1..Len(r) : u[Len(ug) + k] = r[k]
    BY <1>9, <1>12, <1>13, <1>15, <1>21, StartsOn
  <2> QED BY <1>17, <1>r, <2>1
<1>23. Starts(u, ud) /\ \A k \in 1..5 : u[n + 5 + k] = g[k]
  <2>1. Starts(u, ud) /\ \A k \in 1..Len(g) : u[Len(ud) + k] = g[k]
    BY <1>9, <1>11, <1>12, <1>15, <1>22, StartsOn
  <2> QED BY <1>17, <1>g, <2>1
<1>24. Starts(u, pq) /\ \A k \in 1..5 : u[n + k] = d[k]
  <2>1. Starts(u, pq) /\ \A k \in 1..Len(d) : u[Len(pq) + k] = d[k]
    BY <1>9, <1>10, <1>11, <1>15, <1>23, StartsOn
  <2>2. Len(d) = 5
    BY <1>d
  <2> QED BY <1>16, <2>1, <2>2
<1>25. Starts(u, p) /\ \A k \in 1..Len(q) : u[m + 4 + k] = q[k]
  <2>1. Starts(u, p) /\ \A k \in 1..Len(q) : u[Len(p) + k] = q[k]
    <3>1. IsList(u) /\ IsList(p) /\ IsList(q) /\ IsList(pq) /\ Joins(pq, p, q) /\ Starts(u, pq)
      BY <1>9, <1>10, <1>15, <1>24, <1>p
    <3> QED BY <3>1, StartsOn
  <2>2. Len(p) = m + 4
    BY <1>p
  <2> QED BY <2>1, <2>2
<1>26. /\ u[n + 20] = o[1] /\ u[n + 21] = o[2]
       /\ u[n + 16] = i[1] /\ u[n + 17] = i[2] /\ u[n + 18] = i[3] /\ u[n + 19] = i[4]
  <2>1. u[n + 19 + 1] = o[1] /\ u[n + 19 + 2] = o[2]
    BY <1>20
  <2>2. u[n + 15 + 1] = i[1] /\ u[n + 15 + 2] = i[2] /\ u[n + 15 + 3] = i[3] /\ u[n + 15 + 4] = i[4]
    BY <1>21
  <2>3. /\ n + 19 + 1 = n + 20 /\ n + 19 + 2 = n + 21
        /\ n + 15 + 1 = n + 16 /\ n + 15 + 2 = n + 17 /\ n + 15 + 3 = n + 18 /\ n + 15 + 4 = n + 19
    BY <1>17
  <2> QED BY <2>1, <2>2, <2>3
<1>27. /\ u[n + 11] = r[1] /\ u[n + 12] = r[2] /\ u[n + 13] = r[3] /\ u[n + 14] = r[4]
       /\ u[n + 15] = r[5]
  <2>1. /\ u[n + 10 + 1] = r[1] /\ u[n + 10 + 2] = r[2] /\ u[n + 10 + 3] = r[3]
        /\ u[n + 10 + 4] = r[4] /\ u[n + 10 + 5] = r[5]
    BY <1>22
  <2> QED BY <1>17, <2>1
<1>28. /\ u[n + 6] = g[1] /\ u[n + 7] = g[2] /\ u[n + 8] = g[3] /\ u[n + 9] = g[4]
       /\ u[n + 10] = g[5]
  <2>1. /\ u[n + 5 + 1] = g[1] /\ u[n + 5 + 2] = g[2] /\ u[n + 5 + 3] = g[3]
        /\ u[n + 5 + 4] = g[4] /\ u[n + 5 + 5] = g[5]
    BY <1>23
  <2> QED BY <1>17, <2>1
<1>29. /\ u[n + 1] = d[1] /\ u[n + 2] = d[2] /\ u[n + 3] = d[3] /\ u[n + 4] = d[4]
       /\ u[n + 5] = d[5]
  <2>1. 1 \in 1..5 /\ 2 \in 1..5 /\ 3 \in 1..5 /\ 4 \in 1..5 /\ 5 \in 1..5
    OBVIOUS
  <2> QED BY <1>24, <2>1
<1>30. u[m + 5] = q[1]
  <2>1. 1 \in 1..Len(q)
    BY <1>9, <1>q, ListLength DEF IsSection
  <2>2. u[m + 4 + 1] = q[1]
    BY <1>25, <2>1
  <2> QED BY <1>p, <2>2
<1>31. /\ u[1] = p[1] /\ u[3] = p[3] /\ u[m + 4] = p[m + 4]
       /\ \A k \in 1..m : u[k + 3] = p[k + 3]
  <2>1. \A k \in 1..(m + 4) : u[k] = p[k]
    BY <1>25, <1>p DEF Starts
  <2>2. /\ 1 \in 1..(m + 4) /\ 3 \in 1..(m + 4) /\ m + 4 \in 1..(m + 4)
        /\ \A k \in 1..m : k + 3 \in 1..(m + 4)
    BY <1>p
  <2> QED BY <2>1, <2>2
<1>32. /\ q[1] = Heading("GateResults") /\ d[1] = Heading("LocalDataSafety")
       /\ g[1] = Heading("GovernanceAlerts") /\ r[1] = Heading("RuntimeSnapshots")
       /\ i[1] = Heading("UIE2EAutomation") /\ o[1] = Heading("Overall")
  BY <1>q, <1>d, <1>g, <1>r, <1>i, <1>o DEF IsSection
<1>33. /\ u[1] = Heading("ExecutionContext") /\ u[3] = Heading("RequiredEvidenceLinks")
       /\ u[m + 4].kind = "text"
       /\ \A k \in 1..m : u[k + 3] = LinkLine(EvidenceLinks[k], s.missing)
  <2>1. p[1] = Heading("ExecutionContext") /\ p[3] = Heading("RequiredEvidenceLinks")
    BY <1>p
  <2>2. p[m + 4].kind = "text"
    BY <1>p
  <2>3. \A k \in 1..m : p[k + 3] = LinkLine(EvidenceLinks[k], s.missing)
    BY <1>m, <1>p
  <2> QED BY <1>31, <2>1, <2>2, <2>3
<1>34. /\ u[m + 5] = Heading("GateResults") /\ u[n + 1] = Heading("LocalDataSafety")
       /\ u[n + 6] = Heading("GovernanceAlerts") /\ u[n + 11] = Heading("RuntimeSnapshots")
       /\ u[n + 16] = Heading("UIE2EAutomation") /\ u[n + 20] = Heading("Overall")
  BY <1>26, <1>27, <1>28, <1>29, <1>30, <1>32
<1>35. /\ u[n + 2] = Field("Required", s.required) /\ u[n + 3].name = "ExitCode"
       /\ u[n + 4] = Field("Result", data) /\ u[n + 5].kind = "text"
  BY <1>29, <1>d
<1>36. /\ u[n + 7].name = "MetricsAvailable" /\ u[n + 8].name = "AlertCount"
       /\ u[n + 9] = Field("Result", gov.result) /\ u[n + 10].kind = "text"
  BY <1>28, <1>g
<1>37. /\ u[n + 12] = Field("Available", snap.available) /\ u[n + 13].name = "BeforeCaptured"
       /\ u[n + 14].name = "AfterCaptured" /\ u[n + 15].kind = "text"
  BY <1>27, <1>r
<1>38. /\ u[n + 17].name = "Available" /\ u[n + 18] = Field("Result", ui.result)
       /\ u[n + 19].kind = "text"
       /\ u[n + 21] = Field("Result", IF OverallPass(s, data) THEN "PASS" ELSE "FAIL")
  BY <1>26, <1>i, <1>o
<1>39. IsList(u) /\ m \in Nat
  BY <1>15, <1>p
<1>40. GatesIn(u) = GateLines(s.results)
  BY <1>e, <1>19
<1>41. Layout(u, n, m, s, data, gov, snap, ui)
  BY <1>1, <1>17, <1>18, <1>33, <1>34, <1>35, <1>36, <1>37, <1>38, <1>39, <1>40 DEF Layout
<1> QED BY <1>41

\* A section whose heading is the only one of its name ends before the next heading.
LEMMA SectionPlaces ==
  ASSUME NEW u, IsList(u), NEW title, NEW h \in HeadingsOf(u), u[h].name = title,
         \A x \in HeadingsOf(u) : u[x].name = title => x = h,
         NEW e \in HeadingsOf(u), h < e, \A x \in HeadingsOf(u) : h < x => e <= x
  PROVE  SectionOf(u, title) = (h + 1)..(e - 1)
<1>1. DOMAIN u = 1..Len(u) /\ Len(u) \in Nat
  BY ListLength
<1>2. h \in 1..Len(u) /\ e \in 1..Len(u) /\ HeadingsOf(u) \subseteq 1..Len(u)
  BY <1>1 DEF HeadingsOf
<1>3. {k \in HeadingsOf(u) : u[k].name = title} = {h}
  OBVIOUS
<1>4. SectionOf(u, title) =
        {k \in 1..Len(u) : h < k /\ \A x \in HeadingsOf(u) : h < x => k < x}
  BY <1>1, <1>3 DEF SectionOf
<1>5. ASSUME NEW k \in 1..Len(u)
      PROVE  (h < k /\ \A x \in HeadingsOf(u) : h < x => k < x) <=> (h < k /\ k < e)
  BY <1>2
<1>6. SectionOf(u, title) = {k \in 1..Len(u) : h < k /\ k < e}
  BY <1>4, <1>5
<1>7. (h + 1)..(e - 1) = {k \in 1..Len(u) : h < k /\ k < e}
  BY <1>2
<1> QED BY <1>6, <1>7

\* The one member of a set is its largest and its smallest.
LEMMA MaxOfOne == \A k \in Nat : Max({k}) = k /\ Min({k}) = k
  BY DEF Max, Min

\* A field that a section has once is the one that is read.
LEMMA OneField ==
  ASSUME NEW u, NEW title, NEW name, NEW default, NEW k \in Nat, k \in SectionOf(u, title),
         u[k].kind = "field", u[k].name = name, u[k].value \in Accepts(title)[name],
         \A j \in SectionOf(u, title) : j # k => u[j].kind # "field" \/ u[j].name # name
  PROVE  LastField(u, title, name, default) = u[k].value
<1>1. {j \in SectionOf(u, title) : /\ u[j].kind = "field" /\ u[j].name = name
                                   /\ u[j].value \in Accepts(title)[name]} = {k}
  OBVIOUS
<1> QED BY <1>1, MaxOfOne DEF LastField

\* The names of the headings are all different.
LEMMA HeadingNames ==
  ASSUME NEW u, NEW n, NEW m, NEW s, NEW data, NEW gov, NEW snap, NEW ui,
         Layout(u, n, m, s, data, gov, snap, ui)
  PROVE  /\ u[1].name = "ExecutionContext" /\ u[3].name = "RequiredEvidenceLinks"
         /\ u[m + 5].name = "GateResults" /\ u[n + 1].name = "LocalDataSafety"
         /\ u[n + 6].name = "GovernanceAlerts" /\ u[n + 11].name = "RuntimeSnapshots"
         /\ u[n + 16].name = "UIE2EAutomation" /\ u[n + 20].name = "Overall"
<1>1. /\ u[1] = Heading("ExecutionContext") /\ u[3] = Heading("RequiredEvidenceLinks")
      /\ u[m + 5] = Heading("GateResults") /\ u[n + 1] = Heading("LocalDataSafety")
      /\ u[n + 6] = Heading("GovernanceAlerts") /\ u[n + 11] = Heading("RuntimeSnapshots")
      /\ u[n + 16] = Heading("UIE2EAutomation") /\ u[n + 20] = Heading("Overall")
  BY DEF Layout
<1>2. \A t : Heading(t).name = t
  BY DEF Heading, Line
<1> QED BY <1>1, <1>2

\* Where the sections are that the parser looks for.
LEMMA ReportSections ==
  ASSUME NEW u, NEW n, NEW m, NEW s, NEW data, NEW gov, NEW snap, NEW ui,
         Layout(u, n, m, s, data, gov, snap, ui)
  PROVE  /\ SectionOf(u, "RequiredEvidenceLinks") = 4..(m + 4)
         /\ SectionOf(u, "LocalDataSafety") = (n + 2)..(n + 5)
         /\ SectionOf(u, "GovernanceAlerts") = (n + 7)..(n + 10)
         /\ SectionOf(u, "RuntimeSnapshots") = (n + 12)..(n + 15)
         /\ SectionOf(u, "UIE2EAutomation") = (n + 17)..(n + 19)
         /\ \A x \in HeadingsOf(u) : u[x].name = "Overall" => x = n + 20
<1>1. IsList(u) /\ n \in Nat /\ m \in Nat /\ m + 5 <= n
  BY DEF Layout
<1>2. HeadingsOf(u) = {1, 3, m + 5, n + 1, n + 6, n + 11, n + 16, n + 20}
  BY DEF Layout
<1>3. /\ u[1].name = "ExecutionContext" /\ u[3].name = "RequiredEvidenceLinks"
      /\ u[m + 5].name = "GateResults" /\ u[n + 1].name = "LocalDataSafety"
      /\ u[n + 6].name = "GovernanceAlerts" /\ u[n + 11].name = "RuntimeSnapshots"
      /\ u[n + 16].name = "UIE2EAutomation" /\ u[n + 20].name = "Overall"
  BY HeadingNames
<1>4. SectionOf(u, "RequiredEvidenceLinks") = 4..(m + 4)
  <2>1. 3 \in HeadingsOf(u) /\ m + 5 \in HeadingsOf(u)
    BY <1>2
  <2>2. \A x \in HeadingsOf(u) : u[x].name = "RequiredEvidenceLinks" => x = 3
    BY <1>2, <1>3
  <2>3. 3 < m + 5 /\ \A x \in HeadingsOf(u) : 3 < x => m + 5 <= x
    BY <1>1, <1>2
  <2>4. SectionOf(u, "RequiredEvidenceLinks") = (3 + 1)..(m + 5 - 1)
    BY <1>1, <1>3, <2>1, <2>2, <2>3, SectionPlaces
  <2>5. 3 + 1 = 4 /\ m + 5 - 1 = m + 4
    BY <1>1
  <2> QED BY <2>4, <2>5
<1>5. SectionOf(u, "LocalDataSafety") = (n + 2)..(n + 5)
  <2>1. n + 1 \in HeadingsOf(u) /\ n + 6 \in HeadingsOf(u)
    BY <1>2
  <2>2. \A x \in HeadingsOf(u) : u[x].name = "LocalDataSafety" => x = n + 1
    BY <1>2, <1>3
  <2>3. n + 1 < n + 6 /\ \A x \in HeadingsOf(u) : n + 1 < x => n + 6 <= x
    BY <1>1, <1>2
  <2>4. SectionOf(u, "LocalDataSafety") = (n + 1 + 1)..(n + 6 - 1)
    BY <1>1, <1>3, <2>1, <2>2, <2>3, SectionPlaces
  <2>5. n + 1 + 1 = n + 2 /\ n + 6 - 1 = n + 5
    BY <1>1
  <2> QED BY <2>4, <2>5
<1>6. SectionOf(u, "GovernanceAlerts") = (n + 7)..(n + 10)
  <2>1. n + 6 \in HeadingsOf(u) /\ n + 11 \in HeadingsOf(u)
    BY <1>2
  <2>2. \A x \in HeadingsOf(u) : u[x].name = "GovernanceAlerts" => x = n + 6
    BY <1>2, <1>3
  <2>3. n + 6 < n + 11 /\ \A x \in HeadingsOf(u) : n + 6 < x => n + 11 <= x
    BY <1>1, <1>2
  <2>4. SectionOf(u, "GovernanceAlerts") = (n + 6 + 1)..(n + 11 - 1)
    BY <1>1, <1>3, <2>1, <2>2, <2>3, SectionPlaces
  <2>5. n + 6 + 1 = n + 7 /\ n + 11 - 1 = n + 10
    BY <1>1
  <2> QED BY <2>4, <2>5
<1>7. SectionOf(u, "RuntimeSnapshots") = (n + 12)..(n + 15)
  <2>1. n + 11 \in HeadingsOf(u) /\ n + 16 \in HeadingsOf(u)
    BY <1>2
  <2>2. \A x \in HeadingsOf(u) : u[x].name = "RuntimeSnapshots" => x = n + 11
    BY <1>2, <1>3
  <2>3. n + 11 < n + 16 /\ \A x \in HeadingsOf(u) : n + 11 < x => n + 16 <= x
    BY <1>1, <1>2
  <2>4. SectionOf(u, "RuntimeSnapshots") = (n + 11 + 1)..(n + 16 - 1)
    BY <1>1, <1>3, <2>1, <2>2, <2>3, SectionPlaces
  <2>5. n + 11 + 1 = n + 12 /\ n + 16 - 1 = n + 15
    BY <1>1
  <2> QED BY <2>4, <2>5
<1>8. SectionOf(u, "UIE2EAutomation") = (n + 17)..(n + 19)
  <2>1. n + 16 \in HeadingsOf(u) /\ n + 20 \in HeadingsOf(u)
    BY <1>2
  <2>2. \A x \in HeadingsOf(u) : u[x].name = "UIE2EAutomation" => x = n + 16
    BY <1>2, <1>3
  <2>3. n + 16 < n + 20 /\ \A x \in HeadingsOf(u) : n + 16 < x => n + 20 <= x
    BY <1>1, <1>2
  <2>4. SectionOf(u, "UIE2EAutomation") = (n + 16 + 1)..(n + 20 - 1)
    BY <1>1, <1>3, <2>1, <2>2, <2>3, SectionPlaces
  <2>5. n + 16 + 1 = n + 17 /\ n + 20 - 1 = n + 19
    BY <1>1
  <2> QED BY <2>4, <2>5
<1>9. \A x \in HeadingsOf(u) : u[x].name = "Overall" => x = n + 20
  BY <1>2, <1>3
<1> QED BY <1>4, <1>5, <1>6, <1>7, <1>8, <1>9

\* What each section is read back to.
LEMMA DataReadBack ==
  ASSUME NEW u, NEW n, NEW m, NEW s, NEW data, NEW gov, NEW snap, NEW ui,
         Layout(u, n, m, s, data, gov, snap, ui),
         s.required \in {"true", "false"}, data \in {"PASS", "FAIL"}
  PROVE  ParsedData(u) = [required |-> s.required, result |-> data]
<1>a. n \in Nat
  BY DEF Layout
<1>b. SectionOf(u, "LocalDataSafety") = (n + 2)..(n + 5)
  BY ReportSections
<1>1. n \in Nat /\ SectionOf(u, "LocalDataSafety") = (n + 2)..(n + 5)
  BY <1>a, <1>b
<1>2. PICK S : S = SectionOf(u, "LocalDataSafety")
  OBVIOUS
<1>3. \A j \in S : j = n + 2 \/ j = n + 3 \/ j = n + 4 \/ j = n + 5
  BY <1>1, <1>2
<1>4. n + 2 \in S /\ n + 4 \in S /\ n + 2 \in Nat /\ n + 4 \in Nat
  BY <1>1, <1>2
<1>5. /\ u[n + 2] = Field("Required", s.required) /\ u[n + 3].name = "ExitCode"
      /\ u[n + 4] = Field("Result", data) /\ u[n + 5].kind = "text"
  BY DEF Layout
<1>6. /\ u[n + 2].kind = "field" /\ u[n + 2].name = "Required" /\ u[n + 2].value = s.required
      /\ u[n + 4].kind = "field" /\ u[n + 4].name = "Result" /\ u[n + 4].value = data
  BY <1>5 DEF Field, Line
<1>7. /\ \A j \in S : j # n + 2 => u[j].kind # "field" \/ u[j].name # "Required"
      /\ \A j \in S : j # n + 4 => u[j].kind # "field" \/ u[j].name # "Result"
  BY <1>3, <1>5, <1>6
<1>8. Accepts("LocalDataSafety") = [Required |-> {"true", "false"}, Result |-> {"PASS", "FAIL"}]
  BY DEF Accepts
<1>9. /\ u[n + 2].value \in Accepts("LocalDataSafety")["Required"]
      /\ u[n + 4].value \in Accepts("LocalDataSafety")["Result"]
  BY <1>6, <1>8
<1>10. LastField(u, "LocalDataSafety", "Required", "false") = s.required
  BY <1>2, <1>4, <1>6, <1>7, <1>9, OneField
<1>11. LastField(u, "LocalDataSafety", "Result", "none") = data
  BY <1>2, <1>4, <1>6, <1>7, <1>9, OneField
<1> QED BY <1>10, <1>11 DEF ParsedData

\* The governance verdict.
LEMMA GovernanceReadBack ==
  ASSUME NEW u, NEW n, NEW m, NEW s, NEW data, NEW gov, NEW snap, NEW ui,
         Layout(u, n, m, s, data, gov, snap, ui),
         gov.result \in {"PASS", "ALERT", "UNAVAILABLE"}
  PROVE  ParsedGovernance(u) = gov.result
<1>a. n \in Nat
  BY DEF Layout
<1>b. SectionOf(u, "GovernanceAlerts") = (n + 7)..(n + 10)
  BY ReportSections
<1>1. n \in Nat /\ SectionOf(u, "GovernanceAlerts") = (n + 7)..(n + 10)
  BY <1>a, <1>b
<1>2. PICK S : S = SectionOf(u, "GovernanceAlerts")
  OBVIOUS
<1>3. \A j \in S : j = n + 7 \/ j = n + 8 \/ j = n + 9 \/ j = n + 10
  BY <1>1, <1>2
<1>4. n + 9 \in S /\ n + 9 \in Nat
  BY <1>1, <1>2
<1>5. /\ u[n + 7].name = "MetricsAvailable" /\ u[n + 8].name = "AlertCount"
      /\ u[n + 9] = Field("Result", gov.result) /\ u[n + 10].kind = "text"
  BY DEF Layout
<1>6. u[n + 9].kind = "field" /\ u[n + 9].name = "Result" /\ u[n + 9].value = gov.result
  BY <1>5 DEF Field, Line
<1>7. \A j \in S : j # n + 9 => u[j].kind # "field" \/ u[j].name # "Result"
  BY <1>3, <1>5
<1>8. Accepts("GovernanceAlerts") = [Result |-> {"PASS", "ALERT", "UNAVAILABLE"}]
  BY DEF Accepts
<1>9. u[n + 9].value \in Accepts("GovernanceAlerts")["Result"]
  BY <1>6, <1>8
<1>10. LastField(u, "GovernanceAlerts", "Result", "UNAVAILABLE") = gov.result
  BY <1>2, <1>4, <1>6, <1>7, <1>9, OneField
<1> QED BY <1>10 DEF ParsedGovernance

\* The availability of the snapshots.
LEMMA SnapshotsReadBack ==
  ASSUME NEW u, NEW n, NEW m, NEW s, NEW data, NEW gov, NEW snap, NEW ui,
         Layout(u, n, m, s, data, gov, snap, ui),
         snap.available \in {"true", "false"}
  PROVE  ParsedSnapshots(u) = snap.available
<1>a. n \in Nat
  BY DEF Layout
<1>b. SectionOf(u, "RuntimeSnapshots") = (n + 12)..(n + 15)
  BY ReportSections
<1>1. n \in Nat /\ SectionOf(u, "RuntimeSnapshots") = (n + 12)..(n + 15)
  BY <1>a, <1>b
<1>2. PICK S : S = SectionOf(u, "RuntimeSnapshots")
  OBVIOUS
<1>3. \A j \in S : j = n + 12 \/ j = n + 13 \/ j = n + 14 \/ j = n + 15
  BY <1>1, <1>2
<1>4. n + 12 \in S /\ n + 12 \in Nat
  BY <1>1, <1>2
<1>5. /\ u[n + 12] = Field("Available", snap.available) /\ u[n + 13].name = "BeforeCaptured"
      /\ u[n + 14].name = "AfterCaptured" /\ u[n + 15].kind = "text"
  BY DEF Layout
<1>6. u[n + 12].kind = "field" /\ u[n + 12].name = "Available" /\ u[n + 12].value = snap.available
  BY <1>5 DEF Field, Line
<1>7. \A j \in S : j # n + 12 => u[j].kind # "field" \/ u[j].name # "Available"
  BY <1>3, <1>5
<1>8. Accepts("RuntimeSnapshots") = [Available |-> {"true", "false"}]
  BY DEF Accepts
<1>9. u[n + 12].value \in Accepts("RuntimeSnapshots")["Available"]
  BY <1>6, <1>8
<1>10. LastField(u, "RuntimeSnapshots", "Available", "false") = snap.available
  BY <1>2, <1>4, <1>6, <1>7, <1>9, OneField
<1> QED BY <1>10 DEF ParsedSnapshots

\* The verdict of the UI automation.
LEMMA UiReadBack ==
  ASSUME NEW u, NEW n, NEW m, NEW s, NEW data, NEW gov, NEW snap, NEW ui,
         Layout(u, n, m, s, data, gov, snap, ui),
         ui.result \in {"PASS", "FAIL", "UNAVAILABLE"}
  PROVE  ParsedUi(u) = ui.result
<1>a. n \in Nat
  BY DEF Layout
<1>b. SectionOf(u, "UIE2EAutomation") = (n + 17)..(n + 19)
  BY ReportSections
<1>1. n \in Nat /\ SectionOf(u, "UIE2EAutomation") = (n + 17)..(n + 19)
  BY <1>a, <1>b
<1>2. PICK S : S = SectionOf(u, "UIE2EAutomation")
  OBVIOUS
<1>3. \A j \in S : j = n + 17 \/ j = n + 18 \/ j = n + 19
  BY <1>1, <1>2
<1>4. n + 18 \in S /\ n + 18 \in Nat
  BY <1>1, <1>2
<1>5. /\ u[n + 17].name = "Available" /\ u[n + 18] = Field("Result", ui.result)
      /\ u[n + 19].kind = "text"
  BY DEF Layout
<1>6. u[n + 18].kind = "field" /\ u[n + 18].name = "Result" /\ u[n + 18].value = ui.result
  BY <1>5 DEF Field, Line
<1>7. \A j \in S : j # n + 18 => u[j].kind # "field" \/ u[j].name # "Result"
  BY <1>3, <1>5
<1>8. Accepts("UIE2EAutomation") = [Result |-> {"PASS", "FAIL", "UNAVAILABLE"}]
  BY DEF Accepts
<1>9. u[n + 18].value \in Accepts("UIE2EAutomation")["Result"]
  BY <1>6, <1>8
<1>10. LastField(u, "UIE2EAutomation", "Result", "UNAVAILABLE") = ui.result
  BY <1>2, <1>4, <1>6, <1>7, <1>9, OneField
<1> QED BY <1>10 DEF ParsedUi

\* The links that are missing.
LEMMA LinksReadBack ==
  ASSUME NEW u, NEW n, NEW m, NEW s, NEW data, NEW gov, NEW snap, NEW ui,
         Layout(u, n, m, s, data, gov, snap, ui), s.missing \subseteq Range(EvidenceLinks)
  PROVE  ParsedLinks(u) = s.missing
<1>a. m \in Nat /\ m = Len(EvidenceLinks)
  BY DEF Layout
<1>b. SectionOf(u, "RequiredEvidenceLinks") = 4..(m + 4)
  BY ReportSections
<1>1. m \in Nat /\ m = Len(EvidenceLinks) /\ SectionOf(u, "RequiredEvidenceLinks") = 4..(m + 4)
  BY <1>a, <1>b
<1>2. PICK missing : missing = s.missing
  OBVIOUS
<1>3. \A k \in 1..m : u[k + 3] = LinkLine(EvidenceLinks[k], missing)
  BY <1>2 DEF Layout
<1>4. \A k \in 1..m : /\ u[k + 3].kind = "link" /\ u[k + 3].name = EvidenceLinks[k]
                      /\ (u[k + 3].value = "MISSING") <=> (EvidenceLinks[k] \in missing)
  <2>1. \A p : /\ LinkLine(p, missing).kind = "link" /\ LinkLine(p, missing).name = p
               /\ (LinkLine(p, missing).value = "MISSING") <=> (p \in missing)
    BY DEF LinkLine, Line
  <2> QED BY <1>3, <2>1
<1>5. u[m + 4].kind = "text"
  BY DEF Layout
<1>6. \A j \in 4..(m + 4) : j = m + 4 \/ \E k \in 1..m : j = k + 3
  <2>1. SUFFICES ASSUME NEW j \in 4..(m + 4), j # m + 4 PROVE \E k \in 1..m : j = k + 3
    OBVIOUS
  <2>2. j - 3 \in 1..m /\ j = (j - 3) + 3
    BY <1>1, <2>1
  <2> QED BY <2>2
<1>7. \A k \in 1..m : k + 3 \in 4..(m + 4)
  BY <1>1
<1>8. \A x \in missing : \E k \in 1..m : x = EvidenceLinks[k]
  BY <1>1, <1>2, OutputAssumption DEF Range
<1>9. ParsedLinks(u) = {u[k].name : k \in {j \in 4..(m + 4) : u[j].kind = "link" /\ u[j].value = "MISSING"}}
  BY <1>1 DEF ParsedLinks
<1>10. ASSUME NEW x \in ParsedLinks(u) PROVE x \in missing
  <2>1. PICK j \in 4..(m + 4) : u[j].kind = "link" /\ u[j].value = "MISSING" /\ x = u[j].name
    BY <1>9
  <2>2. PICK k \in 1..m : j = k + 3
    BY <1>5, <1>6, <2>1
  <2> QED BY <1>4, <2>1, <2>2
<1>11. ASSUME NEW x \in missing PROVE x \in ParsedLinks(u)
  <2>1. PICK k \in 1..m : x = EvidenceLinks[k]
    BY <1>8
  <2>2. /\ k + 3 \in 4..(m + 4) /\ u[k + 3].kind = "link" /\ u[k + 3].value = "MISSING"
        /\ u[k + 3].name = x
    BY <1>4, <1>7, <2>1
  <2> QED BY <1>9, <2>2
<1> QED BY <1>2, <1>10, <1>11

\* The gates that are read are the gate lines.
LEMMA GateRecords ==
  ASSUME NEW u, IsList(u)
  PROVE  /\ \A g \in ParsedGates(u) : \E x \in GatesIn(u) : g.gate = x.name /\ g.verdict = x.value
         /\ \A x \in GatesIn(u) : \E g \in ParsedGates(u) : g.gate = x.name /\ g.verdict = x.value
<1> DEFINE Exits(k) == {j \in DOMAIN u : /\ k < j /\ j < GateEnd(u, k)
                                         /\ u[j].kind = "field" /\ u[j].name = "ExitCode"}
           Exit(k) == IF Exits(k) = {} THEN "none" ELSE u[Max(Exits(k))].value
<1>0. ParsedGates(u) = {[gate |-> u[k].name, verdict |-> u[k].value, exit |-> Exit(k)] :
                           k \in {j \in DOMAIN u : u[j].kind = "gate"}}
  BY DEF ParsedGates
<1> HIDE DEF Exit
<1>1. DOMAIN u = 1..Len(u)
  BY ListLength
<1>2. ASSUME NEW g \in ParsedGates(u)
      PROVE  \E x \in GatesIn(u) : g.gate = x.name /\ g.verdict = x.value
  <2>1. PICK k \in DOMAIN u : u[k].kind = "gate" /\ g.gate = u[k].name /\ g.verdict = u[k].value
    BY <1>0, <1>2
  <2>2. u[k] \in GatesIn(u)
    BY <1>1, <2>1 DEF GatesIn
  <2> QED BY <2>1, <2>2
<1>3. ASSUME NEW x \in GatesIn(u)
      PROVE  \E g \in ParsedGates(u) : g.gate = x.name /\ g.verdict = x.value
  <2>1. PICK k \in DOMAIN u : u[k].kind = "gate" /\ x = u[k]
    BY <1>1, <1>3 DEF GatesIn
  <2>2. \E g \in ParsedGates(u) : g.gate = u[k].name /\ g.verdict = u[k].value
    <3>1. [gate |-> u[k].name, verdict |-> u[k].value, exit |-> Exit(k)] \in ParsedGates(u)
      BY <1>0, <2>1
    <3> QED BY <3>1
  <2> QED BY <2>1, <2>2
<1> QED BY <1>2, <1>3

\* Only one line of a report is the overall heading.
LEMMA OverallPlace ==
  ASSUME NEW u, NEW n, NEW m, NEW s, NEW data, NEW gov, NEW snap, NEW ui,
         Layout(u, n, m, s, data, gov, snap, ui), NEW h \in 1..Len(u), u[h] = Heading("Overall")
  PROVE  h = n + 20
<1>1. IsList(u)
  BY DEF Layout
<1>2. DOMAIN u = 1..Len(u)
  BY <1>1, ListLength
<1>3. u[h].kind = "heading" /\ u[h].name = "Overall"
  BY DEF Heading, Line
<1>4. h \in HeadingsOf(u)
  BY <1>2, <1>3 DEF HeadingsOf
<1>5. \A x \in HeadingsOf(u) : u[x].name = "Overall" => x = n + 20
  BY ReportSections
<1> QED BY <1>3, <1>4, <1>5

\* The overall result that is read is the one that was written.
LEMMA OverallReadBack ==
  ASSUME NEW u, NEW n, NEW m, NEW s, NEW data, NEW gov, NEW snap, NEW ui,
         Layout(u, n, m, s, data, gov, snap, ui)
  PROVE  (ParsedOverall(u) = "PASS") <=> OverallPass(s, data)
<1>1. IsList(u) /\ n \in Nat /\ Len(u) = n + 21
  BY DEF Layout
<1>2. DOMAIN u = 1..Len(u)
  BY <1>1, ListLength
<1>3. PICK v : v = IF OverallPass(s, data) THEN "PASS" ELSE "FAIL"
  OBVIOUS
<1>4. u[n + 20] = Heading("Overall") /\ u[n + 21] = Field("Result", v)
  BY <1>3 DEF Layout
<1>5. u[n + 21].value = v
  BY <1>4 DEF Field, Line
<1>6. v \in {"PASS", "FAIL"}
  BY <1>3
<1>7. n + 20 \in DOMAIN u /\ n + 21 \in DOMAIN u /\ n + 20 < n + 21 /\ n + 21 \in Nat
  BY <1>1, <1>2
<1>8. PICK found : found = {k \in DOMAIN u :
                     /\ u[k] \in {Field("Result", "PASS"), Field("Result", "FAIL")}
                     /\ \E h \in DOMAIN u : h < k /\ u[h] = Heading("Overall")}
  OBVIOUS
<1>9. n + 21 \in found
  BY <1>4, <1>6, <1>7, <1>8
<1>10. ASSUME NEW k \in found PROVE k = n + 21
  <2>1. PICK h \in DOMAIN u : h < k /\ u[h] = Heading("Overall")
    BY <1>8
  <2>2. h = n + 20
    BY <1>2, <2>1, OverallPlace
  <2>3. k \in 1..Len(u)
    BY <1>2, <1>8
  <2> QED BY <1>1, <2>1, <2>2, <2>3
<1>11. found = {n + 21}
  BY <1>9, <1>10
<1>12. ParsedOverall(u) = v
  <2>1. ParsedOverall(u) = IF found = {} THEN "FAIL" ELSE u[Min(found)].value
    BY <1>8 DEF ParsedOverall
  <2>2. Min(found) = n + 21 /\ found # {}
    BY <1>7, <1>11, MaxOfOne
  <2> QED BY <1>5, <2>1, <2>2
<1> QED BY <1>3, <1>12

\* A report that was cut short reads as a failure.
LEMMA CutReport ==
  ASSUME NEW u, NEW n, NEW m, NEW s, NEW data, NEW gov, NEW snap, NEW ui,
         Layout(u, n, m, s, data, gov, snap, ui),
         NEW k \in 0..(Len(u) - 1), NEW v, v = SubSeq(u, 1, k)
  PROVE  ParsedOverall(v) = "FAIL"
<1>1. IsList(u) /\ n \in Nat /\ Len(u) = n + 21
  BY DEF Layout
<1>2. PICK S : u \in Seq(S)
  BY <1>1 DEF IsList
<1>3. Len(v) = k /\ DOMAIN v = 1..k /\ \A j \in 1..k : v[j] = u[j]
  BY <1>1, <1>2
<1>4. ASSUME NEW j \in DOMAIN v, NEW h \in DOMAIN v, h < j, v[h] = Heading("Overall")
      PROVE  FALSE
  <2>1. h \in 1..Len(u) /\ u[h] = Heading("Overall") /\ h + 1 <= n + 20
    BY <1>1, <1>3, <1>4
  <2>2. h = n + 20
    BY <2>1, OverallPlace
  <2> QED BY <1>1, <2>1, <2>2
<1>5. {j \in DOMAIN v : /\ v[j] \in {Field("Result", "PASS"), Field("Result", "FAIL")}
                        /\ \E h \in DOMAIN v : h < j /\ v[h] = Heading("Overall")} = {}
  BY <1>4
<1> QED BY <1>5 DEF ParsedOverall

\* The exit code is zero exactly when the report says that it passed.
LEMMA CodeIsVerdict ==
  ASSUME NEW s, NEW data
  PROVE  (ExitCode(s, data) = 0) <=> OverallPass(s, data)
<1>1. PICK results : results = s.results
  OBVIOUS
<1>2. AllOk(results) <=> ~ \E k \in DOMAIN results : results[k].exit # "0"
  BY DEF AllOk
<1> QED BY <1>1, <1>2 DEF ExitCode, OverallPass

\* The gates read back are the gates that ran, with their verdicts.
LEMMA GatesReadBack ==
  ASSUME NEW u, IsList(u), NEW results, AreResults(results), GatesIn(u) = GateLines(results)
  PROVE  {[gate |-> g.gate, verdict |-> g.verdict] : g \in ParsedGates(u)}
           = {[gate |-> r.gate, verdict |-> Verdict(r.exit = "0")] : r \in Range(results)}
<1>1. DOMAIN results = 1..Len(results)
  BY ListLength DEF AreResults
<1>2. \A gate, exit : GateLine(gate, exit).name = gate /\ GateLine(gate, exit).value = Verdict(exit = "0")
  BY DEF GateLine, Line, Verdict
<1>3. ASSUME NEW g \in ParsedGates(u)
      PROVE  \E r \in Range(results) : g.gate = r.gate /\ g.verdict = Verdict(r.exit = "0")
  <2>1. PICK x \in GatesIn(u) : g.gate = x.name /\ g.verdict = x.value
    BY GateRecords
  <2>2. PICK k \in 1..Len(results) : x = GateLine(results[k].gate, results[k].exit)
    BY <2>1 DEF GateLines
  <2>3. results[k] \in Range(results)
    BY <1>1 DEF Range
  <2> QED BY <1>2, <2>1, <2>2, <2>3
<1>4. ASSUME NEW r \in Range(results)
      PROVE  \E g \in ParsedGates(u) : g.gate = r.gate /\ g.verdict = Verdict(r.exit = "0")
  <2>1. PICK k \in 1..Len(results) : r = results[k]
    BY <1>1 DEF Range
  <2>2. PICK x : x = GateLine(r.gate, r.exit)
    OBVIOUS
  <2>3. x \in GatesIn(u)
    BY <2>1, <2>2 DEF GateLines
  <2>4. PICK g \in ParsedGates(u) : g.gate = x.name /\ g.verdict = x.value
    BY <2>3, GateRecords
  <2> QED BY <1>2, <2>2, <2>4
<1> QED BY <1>3, <1>4

\* A signoff that passed ran every gate to success.
LEMMA PassedGates ==
  ASSUME NEW s, AreResults(s.results), ~ GatesLeft(s), NEW data, OverallPass(s, data)
  PROVE  /\ {r.gate : r \in Range(s.results)} = Range(Gates)
         /\ \A r \in Range(s.results) : Verdict(r.exit = "0") = "PASS"
<1>1. PICK results : results = s.results
  OBVIOUS
<1>2. Gates \in Seq({"pytest", "validate_layers", "scan_forbidden_imports"}) /\ Len(Gates) = 3
  BY DEF Gates
<1>3. Len(results) \in Nat /\ DOMAIN results = 1..Len(results) /\ Len(results) <= 3
  BY <1>1, ListLength DEF AreResults
<1>4. s.missing = {} /\ AllOk(results)
  BY <1>1 DEF OverallPass
<1>5. ~ (Len(results) < 3)
  BY <1>1, <1>2, <1>4 DEF GatesLeft
<1>6. DOMAIN results = 1..3 /\ DOMAIN Gates = 1..3
  BY <1>2, <1>3, <1>5
<1>7. \A k \in 1..3 : results[k].gate = Gates[k] /\ results[k].exit = "0"
  BY <1>1, <1>3, <1>4, <1>6 DEF AreResults, AllOk
<1>8. {r.gate : r \in Range(results)} = Range(Gates)
  BY <1>6, <1>7 DEF Range
<1>9. \A r \in Range(results) : Verdict(r.exit = "0") = "PASS"
  BY <1>6, <1>7 DEF Range, Verdict
<1> QED BY <1>1, <1>8, <1>9

\* What a process that has written a report knew.
Known(s, data, gov, snap, ui) ==
  /\ AreResults(s.results) /\ ~ GatesLeft(s)
  /\ s.missing \subseteq Range(EvidenceLinks) /\ s.required \in {"true", "false"}
  /\ data \in {"PASS", "FAIL"} /\ gov.result \in {"PASS", "ALERT", "UNAVAILABLE"}
  /\ snap.available \in {"true", "false"} /\ ui.result \in {"PASS", "FAIL", "UNAVAILABLE"}

\* The lines of a report, whole or cut short, are those of the process that wrote it.
Written(kept, whole, saw) ==
  \E s, data, gov, snap, ui :
     /\ Known(s, data, gov, snap, ui)
     /\ saw = Saw(s, data, gov, snap, ui)
     /\ \E u : /\ u = ReportLines(s, data, gov, snap, ui)
               /\ \/ whole = "yes" /\ kept = u
                  \/ whole = "no" /\ \E k \in 0..(Len(u) - 1) : kept = SubSeq(u, 1, k)

\* What a summary says beside what the process saw.
Agrees(parsed, whole, saw) ==
  /\ parsed.overall = "PASS" =>
         /\ saw.exit = 0
         /\ {g.gate : g \in parsed.gates} = Range(Gates)
         /\ \A g \in parsed.gates : g.verdict = "PASS"
  /\ whole = "yes" =>
         /\ (parsed.overall = "PASS") <=> (saw.exit = 0)
         /\ parsed.missing = saw.missing
         /\ {[gate |-> g.gate, verdict |-> g.verdict] : g \in parsed.gates}
              = {[gate |-> r.gate, verdict |-> Verdict(r.exit = "0")] : r \in Range(saw.results)}
         /\ parsed.data = [required |-> saw.required, result |-> saw.data]
         /\ parsed.governance = saw.governance
         /\ parsed.snapshots = saw.snapshots
         /\ parsed.ui = saw.ui

\* Reading a report back gives what was written, and a cut report never passes.
LEMMA ReadBack ==
  ASSUME NEW kept, NEW whole, NEW saw, Written(kept, whole, saw)
  PROVE  Agrees(ParseMarkdown(kept), whole, saw)
<1>1. PICK s, data, gov, snap, ui, u :
         /\ Known(s, data, gov, snap, ui)
         /\ saw = Saw(s, data, gov, snap, ui)
         /\ u = ReportLines(s, data, gov, snap, ui)
         /\ \/ whole = "yes" /\ kept = u
            \/ whole = "no" /\ \E k \in 0..(Len(u) - 1) : kept = SubSeq(u, 1, k)
  BY DEF Written
<1>2. AreResults(s.results) /\ ~ GatesLeft(s)
  BY <1>1 DEF Known
<1>3. u = ReportLines(s, data, gov, snap, ui)
  BY <1>1
<1>4. PICK n, m : Layout(u, n, m, s, data, gov, snap, ui)
  BY <1>2, <1>3, ReportLayout
<1>5. /\ saw.exit = ExitCode(s, data) /\ saw.missing = s.missing /\ saw.results = s.results
      /\ saw.required = s.required /\ saw.data = data /\ saw.governance = gov.result
      /\ saw.snapshots = snap.available /\ saw.ui = ui.result
  BY <1>1 DEF Saw
<1>6. PICK parsed : parsed = ParseMarkdown(kept)
  OBVIOUS
<1>7. /\ parsed.missing = ParsedLinks(kept) /\ parsed.gates = ParsedGates(kept)
      /\ parsed.data = ParsedData(kept) /\ parsed.governance = ParsedGovernance(kept)
      /\ parsed.snapshots = ParsedSnapshots(kept) /\ parsed.ui = ParsedUi(kept)
      /\ parsed.overall = ParsedOverall(kept)
  BY <1>6 DEF ParseMarkdown
<1>8. CASE whole = "yes" /\ kept = u
  <2>1. (parsed.overall = "PASS") <=> OverallPass(s, data)
    BY <1>4, <1>7, <1>8, OverallReadBack
  <2>2. (parsed.overall = "PASS") <=> (saw.exit = 0)
    BY <1>5, <2>1, CodeIsVerdict
  <2>3. IsList(u) /\ GatesIn(u) = GateLines(s.results)
    BY <1>4 DEF Layout
  <2>4. {[gate |-> g.gate, verdict |-> g.verdict] : g \in parsed.gates}
          = {[gate |-> r.gate, verdict |-> Verdict(r.exit = "0")] : r \in Range(saw.results)}
    BY <1>2, <1>5, <1>7, <1>8, <2>3, GatesReadBack
  <2>5. ASSUME OverallPass(s, data)
        PROVE  /\ {g.gate : g \in parsed.gates} = Range(Gates)
               /\ \A g \in parsed.gates : g.verdict = "PASS"
    <3>1. /\ {r.gate : r \in Range(saw.results)} = Range(Gates)
          /\ \A r \in Range(saw.results) : Verdict(r.exit = "0") = "PASS"
      BY <1>2, <1>5, <2>5, PassedGates
    <3>2. ASSUME NEW g \in parsed.gates
          PROVE  \E r \in Range(saw.results) : g.gate = r.gate /\ g.verdict = Verdict(r.exit = "0")
      <4>1. [gate |-> g.gate, verdict |-> g.verdict] \in
              {[gate |-> r.gate, verdict |-> Verdict(r.exit = "0")] : r \in Range(saw.results)}
        BY <2>4
      <4> QED BY <4>1
    <3>3. ASSUME NEW r \in Range(saw.results)
          PROVE  \E g \in parsed.gates : g.gate = r.gate
      <4>1. [gate |-> r.gate, verdict |-> Verdict(r.exit = "0")] \in
              {[gate |-> g.gate, verdict |-> g.verdict] : g \in parsed.gates}
        BY <2>4
      <4> QED BY <4>1
    <3>4. {g.gate : g \in parsed.gates} = {r.gate : r \in Range(saw.results)}
      BY <3>2, <3>3
    <3> QED BY <3>1, <3>2, <3>4
  <2>6. parsed.missing = saw.missing
    <3>1. s.missing \subseteq Range(EvidenceLinks)
      BY <1>1 DEF Known
    <3>2. ParsedLinks(u) = s.missing
      BY <1>4, <3>1, LinksReadBack
    <3> QED BY <1>5, <1>7, <1>8, <3>2
  <2>7. parsed.data = [required |-> saw.required, result |-> saw.data]
    <3>1. s.required \in {"true", "false"} /\ data \in {"PASS", "FAIL"}
      BY <1>1 DEF Known
    <3>2. ParsedData(u) = [required |-> s.required, result |-> data]
      BY <1>4, <3>1, DataReadBack
    <3> QED BY <1>5, <1>7, <1>8, <3>2
  <2>8. parsed.governance = saw.governance
    <3>1. gov.result \in {"PASS", "ALERT", "UNAVAILABLE"}
      BY <1>1 DEF Known
    <3>2. ParsedGovernance(u) = gov.result
      BY <1>4, <3>1, GovernanceReadBack
    <3> QED BY <1>5, <1>7, <1>8, <3>2
  <2>9. parsed.snapshots = saw.snapshots
    <3>1. snap.available \in {"true", "false"}
      BY <1>1 DEF Known
    <3>2. ParsedSnapshots(u) = snap.available
      BY <1>4, <3>1, SnapshotsReadBack
    <3> QED BY <1>5, <1>7, <1>8, <3>2
  <2>10. parsed.ui = saw.ui
    <3>1. ui.result \in {"PASS", "FAIL", "UNAVAILABLE"}
      BY <1>1 DEF Known
    <3>2. ParsedUi(u) = ui.result
      BY <1>4, <3>1, UiReadBack
    <3> QED BY <1>5, <1>7, <1>8, <3>2
  <2>11. Agrees(parsed, whole, saw)
    BY <2>1, <2>2, <2>4, <2>5, <2>6, <2>7, <2>8, <2>9, <2>10 DEF Agrees
  <2> QED BY <1>6, <2>11
<1>9. ASSUME whole = "no", NEW k \in 0..(Len(u) - 1), kept = SubSeq(u, 1, k)
      PROVE  Agrees(parsed, whole, saw)
  <2>1. ParsedOverall(kept) = "FAIL"
    BY <1>4, <1>9, CutReport
  <2> QED BY <1>7, <1>9, <2>1 DEF Agrees
<1> QED BY <1>1, <1>6, <1>8, <1>9

-----------------------------------------------------------------------------

\* What the running process has found so far.
GoodSignoff(s) ==
  /\ s = [phase |-> s.phase, missing |-> s.missing, results |-> s.results, required |-> s.required]
  /\ s.missing \subseteq Range(EvidenceLinks)
  /\ s.required \in {"true", "false"}
  /\ AreResults(s.results)

\* The inductive invariant: what the process found is well formed, the report on disk is one that
\* such a process wrote, and the summary agrees with the report it was parsed from.
SignoffInv ==
  /\ GoodSignoff(signoff)
  /\ report.there = "yes" => Written(report.lines, report.whole, report.saw)
  /\ SummaryAgrees

\* No signoff is running.
LEMMA IdleIsGood == GoodSignoff(NotRunning)
<1>1. PICK s : s = NotRunning
  OBVIOUS
<1>2. /\ s = [phase |-> "none", missing |-> {}, results |-> <<>>, required |-> "false"]
      /\ s.phase = "none" /\ s.missing = {} /\ s.results = <<>> /\ s.required = "false"
  BY <1>1 DEF NotRunning
<1>3. PICK empty : empty = <<>>
  OBVIOUS
<1>4. IsList(empty) /\ Len(empty) = 0
  BY <1>3, EmptyList
<1>5. AreResults(empty)
  BY <1>4 DEF AreResults
<1> QED BY <1>1, <1>2, <1>3, <1>5 DEF GoodSignoff

\* The invariant holds at the start.
LEMMA SignoffBegins == SignoffInit => SignoffInv
<1> SUFFICES ASSUME SignoffInit PROVE SignoffInv
  OBVIOUS
<1>1. GoodSignoff(signoff)
  BY IdleIsGood DEF SignoffInit
<1>2. report.there = "no" /\ summary.there = "no"
  BY DEF SignoffInit, NoSignoffReport, NoSummary
<1> QED BY <1>1, <1>2 DEF SignoffInv, SummaryAgrees

\* A signoff starts with no gate run.
LEMMA SignoffStarted ==
  ASSUME SignoffInv, NEW missing \in SUBSET Range(EvidenceLinks), NEW required \in {"true", "false"},
         StartSignoff(missing, required)
  PROVE  SignoffInv'
<1>1. PICK s : s = [phase |-> "gates", missing |-> missing, results |-> <<>>, required |-> required]
  OBVIOUS
<1>2. /\ s.phase = "gates" /\ s.missing = missing /\ s.results = <<>> /\ s.required = required
  BY <1>1
<1>3. PICK empty : empty = <<>>
  OBVIOUS
<1>4. IsList(empty) /\ Len(empty) = 0
  BY <1>3, EmptyList
<1>5. AreResults(empty)
  BY <1>4 DEF AreResults
<1>6. GoodSignoff(s)
  BY <1>1, <1>2, <1>3, <1>5 DEF GoodSignoff
<1>7. signoff' = s /\ report' = report /\ summary' = summary
  BY <1>1 DEF StartSignoff
<1> QED BY <1>6, <1>7 DEF SignoffInv, SummaryAgrees

\* A gate that ran adds its result.
LEMMA GateWasRun ==
  ASSUME SignoffInv, NEW exit \in {"0", "1"}, NEW output \in GateOutputs, RunGate(exit, output)
  PROVE  SignoffInv'
<1>1. PICK s, results : s = signoff /\ results = s.results
  OBVIOUS
<1>2. /\ s = [phase |-> s.phase, missing |-> s.missing, results |-> results, required |-> s.required]
      /\ s.missing \subseteq Range(EvidenceLinks) /\ s.required \in {"true", "false"}
      /\ AreResults(results)
  BY <1>1 DEF SignoffInv, GoodSignoff
<1>3. PICK r : r = [gate |-> Gates[Len(results) + 1], exit |-> exit, output |-> output]
  OBVIOUS
<1>4. PICK more : more = Append(results, r)
  OBVIOUS
<1>5. r.gate = Gates[Len(results) + 1] /\ r.exit = exit /\ r.output = output
  BY <1>3
<1>6. IsResult(r)
  <2>1. r = [gate |-> r.gate, exit |-> r.exit, output |-> r.output]
    BY <1>3
  <2> QED BY <1>5, <2>1 DEF IsResult
<1>7. Len(results) \in Nat /\ Len(results) < 3
  <2>1. Len(Gates) = 3
    BY DEF Gates
  <2>2. Len(results) < Len(Gates)
    BY <1>1 DEF RunGate, GatesLeft
  <2> QED BY <1>2, <2>1, <2>2, ListLength DEF AreResults
<1>8. PICK S : results \in Seq(S) /\ r \in S
  <2>1. PICK A : results \in Seq(A)
    BY <1>2 DEF AreResults, IsList
  <2>2. PICK B : B = A \cup {r}
    OBVIOUS
  <2>3. results \in Seq(B) /\ r \in B
    BY <2>1, <2>2
  <2> QED BY <2>3
<1>9. /\ more \in Seq(S) /\ Len(more) = Len(results) + 1 /\ more[Len(results) + 1] = r
      /\ \A k \in 1..Len(results) : more[k] = results[k]
  BY <1>4, <1>8
<1>10. AreResults(more)
  <2>1. IsList(more)
    BY <1>9 DEF IsList
  <2>2. Len(more) <= 3
    BY <1>7, <1>9
  <2>3. ASSUME NEW k \in 1..Len(more) PROVE IsResult(more[k]) /\ more[k].gate = Gates[k]
    <3>1. CASE k \in 1..Len(results)
      BY <1>2, <1>9, <3>1 DEF AreResults
    <3>2. CASE k = Len(results) + 1
      BY <1>5, <1>6, <1>9, <3>2
    <3> QED BY <1>7, <1>9, <3>1, <3>2
  <2> QED BY <2>1, <2>2, <2>3 DEF AreResults
<1>11. signoff' = [phase |-> s.phase, missing |-> s.missing, results |-> more, required |-> s.required]
  <2>1. signoff' = [s EXCEPT !.results = Append(@, [gate |-> Gates[Len(@) + 1], exit |-> exit,
                                                    output |-> output])]
    BY <1>1 DEF RunGate
  <2>2. signoff' = [s EXCEPT !.results = more]
    BY <1>1, <1>3, <1>4, <2>1
  <2> QED BY <1>2, <2>2
<1>12. GoodSignoff(signoff')
  BY <1>2, <1>10, <1>11 DEF GoodSignoff
<1>13. report' = report /\ summary' = summary
  BY DEF RunGate
<1> QED BY <1>12, <1>13 DEF SignoffInv, SummaryAgrees, GoodSignoff

\* The verdicts are words that the parser accepts.
LEMMA ArtifactVerdicts ==
  /\ \A file : Governance(file).result \in {"PASS", "ALERT", "UNAVAILABLE"}
  /\ \A file : Snapshots(file).available \in {"true", "false"}
  /\ \A file : UiAutomation(file).result \in {"PASS", "FAIL", "UNAVAILABLE"}
  /\ \A db : Verdict(Validates(db)) \in {"PASS", "FAIL"}
<1>1. \A file : Governance(file).result \in {"PASS", "ALERT", "UNAVAILABLE"}
  BY DEF Governance
<1>2. \A file : Snapshots(file).available \in {"true", "false"}
  BY DEF Snapshots, Flag
<1>3. \A file : UiAutomation(file).result \in {"PASS", "FAIL", "UNAVAILABLE"}
  BY DEF UiAutomation
<1>4. \A db : Verdict(Validates(db)) \in {"PASS", "FAIL"}
  BY DEF Verdict
<1> QED BY <1>1, <1>2, <1>3, <1>4

\* The report that is written holds what the process knew.
LEMMA SignoffConcluded ==
  ASSUME SignoffInv, NEW db, NEW metrics, NEW snapshots, NEW ui,
         Conclude(db, metrics, snapshots, ui)
  PROVE  SignoffInv'
<1>1. PICK s, gov, snap, auto, data :
         /\ s = signoff /\ gov = Governance(metrics) /\ snap = Snapshots(snapshots)
         /\ auto = UiAutomation(ui) /\ data = Verdict(Validates(db))
  OBVIOUS
<1>2. PICK u, saw : u = ReportLines(s, data, gov, snap, auto) /\ saw = Saw(s, data, gov, snap, auto)
  OBVIOUS
<1>3. Known(s, data, gov, snap, auto)
  <2>1. AreResults(s.results) /\ s.missing \subseteq Range(EvidenceLinks)
        /\ s.required \in {"true", "false"}
    BY <1>1 DEF SignoffInv, GoodSignoff
  <2>2. ~ GatesLeft(s)
    BY <1>1 DEF Conclude
  <2>3. /\ gov.result \in {"PASS", "ALERT", "UNAVAILABLE"} /\ snap.available \in {"true", "false"}
        /\ auto.result \in {"PASS", "FAIL", "UNAVAILABLE"} /\ data \in {"PASS", "FAIL"}
    BY <1>1, ArtifactVerdicts
  <2> QED BY <2>1, <2>2, <2>3 DEF Known
<1>4. /\ \/ report' = [there |-> "yes", whole |-> "yes", lines |-> u, saw |-> saw]
         \/ \E n \in 0..(Len(u) - 1) :
               report' = [there |-> "yes", whole |-> "no", lines |-> SubSeq(u, 1, n), saw |-> saw]
      /\ signoff' = NotRunning /\ summary' = summary
  BY <1>1, <1>2 DEF Conclude
<1>5. Written(report.lines, report.whole, report.saw)'
  <2>1. CASE report' = [there |-> "yes", whole |-> "yes", lines |-> u, saw |-> saw]
    <3>1. report'.lines = u /\ report'.whole = "yes" /\ report'.saw = saw
      BY <2>1
    <3> QED BY <1>2, <1>3, <3>1 DEF Written
  <2>2. ASSUME NEW n \in 0..(Len(u) - 1),
               report' = [there |-> "yes", whole |-> "no", lines |-> SubSeq(u, 1, n), saw |-> saw]
        PROVE  Written(report.lines, report.whole, report.saw)'
    <3>1. report'.lines = SubSeq(u, 1, n) /\ report'.whole = "no" /\ report'.saw = saw
      BY <2>2
    <3> QED BY <1>2, <1>3, <3>1 DEF Written
  <2> QED BY <1>4, <2>1, <2>2
<1>6. GoodSignoff(signoff)'
  BY <1>4, IdleIsGood DEF GoodSignoff, NotRunning
<1> QED BY <1>4, <1>5, <1>6 DEF SignoffInv, SummaryAgrees

\* A traceback leaves the report as it was.
LEMMA SignoffRaised ==
  ASSUME SignoffInv, NEW metrics, NEW snapshots, NEW ui, Raise(metrics, snapshots, ui)
  PROVE  SignoffInv'
<1>1. signoff' = NotRunning /\ report' = report /\ summary' = summary
  BY DEF Raise
<1>2. GoodSignoff(signoff')
  BY <1>1, IdleIsGood
<1> QED BY <1>1, <1>2 DEF SignoffInv, SummaryAgrees, GoodSignoff

\* Parsing a report gives a summary that agrees with it.
LEMMA ReportParsed ==
  ASSUME SignoffInv, ParseReport
  PROVE  SignoffInv'
<1>1. PICK kept, whole, saw : kept = report.lines /\ whole = report.whole /\ saw = report.saw
  OBVIOUS
<1>2. /\ report.there = "yes" /\ signoff' = signoff /\ report' = report
      /\ summary' = [there |-> "yes", parsed |-> ParseMarkdown(kept), whole |-> whole, saw |-> saw]
  BY <1>1 DEF ParseReport
<1>3. Written(kept, whole, saw)
  BY <1>1, <1>2 DEF SignoffInv
<1>4. Agrees(ParseMarkdown(kept), whole, saw)
  BY <1>3, ReadBack
<1>5. summary'.parsed = ParseMarkdown(kept) /\ summary'.whole = whole /\ summary'.saw = saw
  BY <1>2
<1>6. SummaryAgrees'
  <2>1. Agrees(summary'.parsed, summary'.whole, summary'.saw)
    BY <1>4, <1>5
  <2> QED BY <2>1 DEF SummaryAgrees, Agrees
<1> QED BY <1>2, <1>6 DEF SignoffInv, GoodSignoff

\* Every step keeps the invariant.
LEMMA SignoffSteps ==
  SignoffInv /\ [SignoffNext]_signoffVars => SignoffInv'
<1> SUFFICES ASSUME SignoffInv, [SignoffNext]_signoffVars PROVE SignoffInv'
  OBVIOUS
<1>1. CASE \E missing \in SUBSET Range(EvidenceLinks), required \in {"true", "false"} :
             StartSignoff(missing, required)
  BY <1>1, SignoffStarted
<1>2. CASE \E exit \in {"0", "1"}, output \in GateOutputs : RunGate(exit, output)
  BY <1>2, GateWasRun
<1>3. CASE \E db \in Databases, metrics \in MetricsFiles, snapshots \in SnapshotFiles, ui \in UiFiles :
             Conclude(db, metrics, snapshots, ui)
  BY <1>3, SignoffConcluded
<1>4. CASE \E metrics \in MetricsFiles, snapshots \in SnapshotFiles, ui \in UiFiles :
             Raise(metrics, snapshots, ui)
  BY <1>4, SignoffRaised
<1>5. CASE ParseReport
  BY <1>5, ReportParsed
<1>6. CASE UNCHANGED signoffVars
  BY <1>6 DEF signoffVars, SignoffInv, SummaryAgrees, GoodSignoff
<1> QED BY <1>1, <1>2, <1>3, <1>4, <1>5, <1>6 DEF SignoffNext

\* The JSON summary of a release signoff passes only when the process that wrote the report found
\* every link, ran every gate to success and, where required, a valid database, whether the report
\* is whole or was cut short; and the summary of a whole report gives back each verdict of that
\* process: for any evidence links and any gate output that prints no heading and no gate line of
\* its own.
THEOREM SummariesAreTrue == SignoffSpec => []SummaryAgrees
<1>1. SignoffInv => SummaryAgrees
  BY DEF SignoffInv
<1> QED BY <1>1, SignoffBegins, SignoffSteps, PTL DEF SignoffSpec
=============================================================================
