--------------------------- MODULE MCByocConnector ---------------------------
(* Two calls of execute that share an idempotency key (a retry of the same tool call in the same   *)
(* run).  They are served by two concurrent requests of workers that do everything right, or by    *)
(* one request at a time while workers misbehave, calls are cancelled, dead letters replayed and   *)
(* cleanups forced, in both modes of execute.                                                      *)
EXTENDS ByocConnector

VARIABLE focus

MCTenantOf == [j \in 1..MaxJobs |-> "acme"]
MCCallOf == [j \in 1..MaxJobs |-> "c1"]
MCKeyOf == [j \in 1..MaxJobs |-> "k1"]
MCRequest == CHOOSE r \in Requests : TRUE

ConnectorRunInit ==
  /\ focus \in {"workers", "operators"}
  /\ ConnectorInit
  /\ focus = "workers" => ~non_blocking

ConnectorRunNext ==
  /\ UNCHANGED focus
  /\ \/ ServerStep
     \/ focus = "workers" /\ \E r \in Requests : WorkerClaims(r) \/ WorkerSubmits(r, TRUE, TRUE)
     \/ focus = "operators" /\ (WorkerCall(MCRequest) \/ OperatorCall)

ConnectorRunSpec ==
  ConnectorRunInit /\ [][ConnectorRunNext]_<<focus, vars>> /\ ConnectorFairness
=============================================================================
