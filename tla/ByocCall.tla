------------------------------ MODULE ByocCall ------------------------------
(***************************************************************************)
(* What the connector promises the callers of execute: a call that was     *)
(* started waits until it is answered or times out, and of the calls that  *)
(* share an idempotency key (retries of one tool call) at most one is      *)
(* answered with a worker's result.                                        *)
(***************************************************************************)
CONSTANTS
  Callers,     \* the calls of execute
  CallKey      \* the idempotency key of each

VARIABLE outcome

Answered(k) == \E c \in Callers : CallKey[c] = k /\ outcome[c] = "delivered"

CallInit == outcome = [c \in Callers |-> "idle"]

Start(c) ==
  /\ outcome[c] = "idle"
  /\ outcome' = [outcome EXCEPT ![c] = "waiting"]

\* A non-blocking call is answered with "queued" as soon as its job is enqueued.
Detach(c) ==
  /\ outcome[c] = "idle"
  /\ outcome' = [outcome EXCEPT ![c] = "queued"]

Deliver(c) ==
  /\ outcome[c] = "waiting"
  /\ ~Answered(CallKey[c])
  /\ outcome' = [outcome EXCEPT ![c] = "delivered"]

TimeOut(c) ==
  /\ outcome[c] = "waiting"
  /\ outcome' = [outcome EXCEPT ![c] = "timed_out"]

CallNext == \E c \in Callers : Start(c) \/ Detach(c) \/ Deliver(c) \/ TimeOut(c)

\* The safety part of the promise.
CallSafe == CallInit /\ [][CallNext]_outcome

\* The whole promise: every waiting call is answered or times out.
CallSpec == CallSafe /\ \A c \in Callers : WF_outcome(Deliver(c) \/ TimeOut(c))
=============================================================================
