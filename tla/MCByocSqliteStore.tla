-------------------------- MODULE MCByocSqliteStore --------------------------
(* Two jobs of one tenant and of different calls.                             *)
EXTENDS ByocSqliteStore

MCTenantOf == [j \in 1..MaxJobs |-> "acme"]
MCCallOf == [j \in 1..MaxJobs |-> IF j = 1 THEN "c1" ELSE "c2"]
=============================================================================
