----------------------------- MODULE ReplayGuard -----------------------------
(***************************************************************************)
(* Worker requests to the BYOC connector: a short-lived token is verified, *)
(* then the request's key (tenant, operation, token id and nonce) is       *)
(* marked in the replay guard, which keeps it for ReplayTtl.  mark_once is *)
(* one critical section of the in-memory guard and one transaction of the  *)
(* SQLite one; the clock is read before it.  The guards differ in what a   *)
(* restart leaves.                                                         *)
(***************************************************************************)
EXTENDS Naturals

CONSTANTS
  RequestKeys,   \* keys of requests, each made with a token of its own
  TokenTtls,     \* the lifetimes that tokens are minted with (ttl_seconds)
  ReplayTtl,     \* replay_ttl_seconds
  Durable,       \* TRUE for SQLiteReplayGuard
  GuardTime,     \* bound: clock ticks
  GuardLag,      \* longest time between a reading of the clock and its use
  MaxRestarts    \* bound: restarts

ASSUME GuardAssumption ==
  /\ TokenTtls \in SUBSET (Nat \ {0}) /\ ReplayTtl \in Nat \ {0}
  /\ Durable \in BOOLEAN
  /\ GuardTime \in Nat /\ GuardLag \in Nat /\ MaxRestarts \in Nat

VARIABLES
  lifetime,         \* lifetime of the token of each key; 0 before it is minted
  token_expires,    \* exp of that token
  expires_at,       \* _expires_at_epoch; 0 when the key is not there
  time,             \* the clock
  restarts,
  accepted          \* history: when each key was accepted, by the guard's reading

guardVars == <<lifetime, token_expires, expires_at, time, restarts, accepted>>

GuardInit ==
  /\ lifetime = [k \in RequestKeys |-> 0]
  /\ token_expires = [k \in RequestKeys |-> 0]
  /\ expires_at = [k \in RequestKeys |-> 0]
  /\ time = 1
  /\ restarts = 0
  /\ accepted = [k \in RequestKeys |-> {}]

GuardReadings == {at \in 1..time : at + GuardLag >= time}

\* mint_worker_token
Mint(k, ttl) ==
  /\ lifetime[k] = 0
  /\ lifetime' = [lifetime EXCEPT ![k] = ttl]
  /\ token_expires' = [token_expires EXCEPT ![k] = time + ttl]
  /\ UNCHANGED <<expires_at, time, restarts, accepted>>

\* verify_worker_token accepts.
Valid(k, at) == at < token_expires[k]

\* Mutation: the stale keys are those that will expire within the next tick.
SweptEarly(at) == [k \in RequestKeys |-> IF expires_at[k] <= at + 1 THEN 0 ELSE expires_at[k]]

\* _cleanup_unlocked
Swept(at) == [k \in RequestKeys |-> IF expires_at[k] <= at THEN 0 ELSE expires_at[k]]

\* verify_worker_token at one reading of the clock, then mark_once at a later one.
WorkerRequest(k, verified, at) ==
  /\ token_expires[k] <= verified + lifetime[k]   \* the request came after the token
  /\ verified <= at
  /\ Valid(k, verified)
  /\ IF Swept(at)[k] = 0
       THEN /\ expires_at' = [Swept(at) EXCEPT ![k] = at + ReplayTtl]
            /\ accepted' = [accepted EXCEPT ![k] = @ \cup {at}]
       ELSE expires_at' = Swept(at) /\ UNCHANGED accepted
  /\ UNCHANGED <<lifetime, token_expires, time, restarts>>

\* cleanup_retention and health_metrics.
Sweep(at) ==
  /\ expires_at' = Swept(at)
  /\ UNCHANGED <<lifetime, token_expires, time, restarts, accepted>>

\* Mutation: the table is created anew at start-up.
KeptNothing == [k \in RequestKeys |-> 0]

\* What a restart leaves: the table, or nothing.
Kept == IF Durable THEN expires_at ELSE [k \in RequestKeys |-> 0]

Restart ==
  /\ restarts < MaxRestarts
  /\ restarts' = restarts + 1
  /\ expires_at' = Kept
  /\ UNCHANGED <<lifetime, token_expires, time, accepted>>

GuardTick ==
  /\ time < GuardTime
  /\ time' = time + 1
  /\ UNCHANGED <<lifetime, token_expires, expires_at, restarts, accepted>>

GuardNext ==
  \/ \E k \in RequestKeys, ttl \in TokenTtls : Mint(k, ttl)
  \/ \E k \in RequestKeys, verified, at \in GuardReadings : WorkerRequest(k, verified, at)
  \/ \E at \in GuardReadings : Sweep(at)
  \/ Restart
  \/ GuardTick

GuardSpec == GuardInit /\ [][GuardNext]_guardVars

-----------------------------------------------------------------------------
(* Properties.                                                             *)

\* "Replay-protection records survive restart long enough to block duplicate nonce/jti
\* windows": two acceptances of one key are a replay window apart (less the time by which
\* a clock reading may be old).
AcceptedApart ==
  \A k \in RequestKeys : \A a, b \in accepted[k] : a < b => a + ReplayTtl <= b + GuardLag

\* A request whose token lives no longer than the guard remembers is accepted once.
AcceptedOnce ==
  \A k \in RequestKeys : lifetime[k] + GuardLag <= ReplayTtl =>
    \A a, b \in accepted[k] : a = b

\* Together, what check_and_mark promises over restarts and several processes.
ReplayBlocked == AcceptedApart /\ AcceptedOnce
=============================================================================
