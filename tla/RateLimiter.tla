----------------------------- MODULE RateLimiter -----------------------------
(***************************************************************************)
(* The fixed-window limiters in front of turns and tool uploads.           *)
(* TenantRateLimiter decides under its lock, with the clock read before    *)
(* it.  SQLiteTenantRateLimiter shares its rows between processes: it      *)
(* selects a row under the lock of its own process and then replaces it.   *)
(* A bucket is a tenant, or a tenant and a limiter id.                     *)
(***************************************************************************)
EXTENDS Naturals, FiniteSets

CONSTANTS
  Buckets,
  Servers,        \* processes over the same rows; one for the in-memory limiter
  Backends,       \* "memory" (TenantRateLimiter), "sqlite" (SQLiteTenantRateLimiter)
  MaxRequests,    \* max_requests; 0 means no limit and is not modelled
  WindowSeconds,
  RateTime,       \* bound: clock ticks
  RateLag,        \* longest wait for the lock after the clock was read
  MaxAllowed      \* bound: requests allowed in one window of one bucket

ASSUME RateAssumption ==
  /\ MaxRequests \in Nat \ {0} /\ WindowSeconds \in Nat \ {0}
  /\ RateTime \in Nat /\ RateLag \in Nat /\ MaxAllowed \in Nat
  /\ Backends \in SUBSET {"memory", "sqlite"}

Window(at) == at \div WindowSeconds
WindowIds == 0..Window(RateTime)

VARIABLES
  backend,    \* the limiter in use
  windows,    \* _windows, or the rows of tenant_rate_windows
  request,    \* the row a server has selected and not yet replaced
  seconds,    \* the clock
  allowed,    \* history: requests allowed per bucket and window of their clock reading
  refused     \* history: bucket and window of the requests refused

rateVars == <<backend, windows, request, seconds, allowed, refused>>

NoRow == [bucket |-> "none", at |-> 0, count |-> 0]

RateInit ==
  /\ backend \in Backends
  /\ windows = [b \in Buckets |-> [window |-> 0, count |-> 0]]
  /\ request = [s \in Servers |-> NoRow]
  /\ seconds = 0
  /\ allowed = [b \in Buckets |-> [w \in WindowIds |-> 0]]
  /\ refused = {}

RateReadings == {at \in 0..seconds : at + RateLag >= seconds}

\* Mutation: the count is carried over into the next window.
CountCarried(b, at) == windows[b].count

\* The count that applies to a request which read the clock at "at".
CountAt(b, at) == IF windows[b].window = Window(at) THEN windows[b].count ELSE 0

Spent(count) == count >= MaxRequests

\* The window that is written back, with one request more.
Counted(b, at, count) ==
  /\ windows' = [windows EXCEPT ![b] = [window |-> Window(at), count |-> count + 1]]
  /\ allowed' = [allowed EXCEPT ![b][Window(at)] = @ + 1]
  /\ UNCHANGED refused

Turned(b, at) ==
  /\ refused' = refused \cup {[bucket |-> b, window |-> Window(at)]}
  /\ UNCHANGED <<windows, allowed>>

\* TenantRateLimiter.allow
Allow(b, at) ==
  /\ backend = "memory"
  /\ allowed[b][Window(at)] < MaxAllowed
  /\ IF Spent(CountAt(b, at)) THEN Turned(b, at) ELSE Counted(b, at, CountAt(b, at))
  /\ UNCHANGED <<backend, request, seconds>>

\* SQLiteTenantRateLimiter.allow: the SELECT and the comparison ...
SelectRow(s, b, at) ==
  /\ backend = "sqlite"
  /\ request[s] = NoRow
  /\ allowed[b][Window(at)] < MaxAllowed
  /\ \/ /\ Spent(CountAt(b, at))
        /\ Turned(b, at)
        /\ UNCHANGED request
     \/ /\ ~Spent(CountAt(b, at))
        /\ request' = [request EXCEPT ![s] = [bucket |-> b, at |-> at, count |-> CountAt(b, at)]]
        /\ UNCHANGED <<windows, allowed, refused>>
  /\ UNCHANGED <<backend, seconds>>

\* ... and the INSERT OR REPLACE.
ReplaceRow(s) ==
  /\ request[s] # NoRow
  /\ Counted(request[s].bucket, request[s].at, request[s].count)
  /\ request' = [request EXCEPT ![s] = NoRow]
  /\ UNCHANGED <<backend, seconds>>

RateTick ==
  /\ seconds < RateTime
  /\ seconds' = seconds + 1
  /\ UNCHANGED <<backend, windows, request, allowed, refused>>

RateNext ==
  \/ \E b \in Buckets, at \in RateReadings :
       Allow(b, at) \/ \E s \in Servers : SelectRow(s, b, at)
  \/ \E s \in Servers : ReplaceRow(s)
  \/ RateTick

RateSpec == RateInit /\ [][RateNext]_rateVars

-----------------------------------------------------------------------------
(* Properties.                                                             *)

\* "turn request rate limit enforced": a bucket gets at most MaxRequests per window, and a
\* request is refused only in a window in which its own bucket has used them up; neither
\* another tenant nor an earlier window counts against it.
WithinLimit ==
  /\ \A b \in Buckets, w \in WindowIds : allowed[b][w] <= MaxRequests
  /\ \A r \in refused : allowed[r.bucket][r.window] = MaxRequests
=============================================================================
