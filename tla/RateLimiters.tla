---------------------------- MODULE RateLimiters ----------------------------
(***************************************************************************)
(* The limiters of rate-limiting/src: TokenBucketLimiter (also behind       *)
(* AdaptiveRateLimiter, whose rate moves), LeakyBucketLimiter,              *)
(* SlidingWindowLimiter and the Lua script of RedisRateLimiter.  Every call *)
(* holds the limiter's lock, the script is atomic: requests come one at a   *)
(* time and differ in when they come.  Time counts ticks.  A token is       *)
(* RInterval units, so that a tick brings a whole number of units.          *)
(***************************************************************************)
EXTENDS Integers, Sequences, Selection

CONSTANTS
    RKinds,        \* the limiters the behaviours are about
    RRates,        \* rates the adaptive limiter moves through; min to max
    RInterval,     \* refill_interval; interval of the leaky bucket
    RCapacity,     \* capacity of the buckets, max_requests of the windows
    RWindow,       \* window_size
    RCosts,        \* tokens a request may ask for
    RStale,        \* clients of Redis may read one time twice
    RMaxTime, RMaxRequests

ASSUME LimiterAssumption ==
    /\ RRates \subseteq Nat
    /\ \E low, high \in RRates : \A r \in RRates : low <= r /\ r <= high
    /\ RInterval \in Nat \ {0} /\ RCapacity \in Nat /\ RWindow \in Nat \ {0}
    /\ RCosts \subseteq Nat

VARIABLES
    rKind,         \* the limiter under test
    rNow,          \* time.time()
    rRate,         \* TokenBucketLimiter.rate, units per tick
    rBudget,       \* its tokens, in units
    rLast,         \* last_refill; last_process of the leaky bucket
    rStamps,       \* the queue, the requests of the unit, the sorted set
    rExpiry,       \* when Redis drops the key
    rGrants        \* <<time, cost>> of every request let through, in order

rVars == <<rKind, rNow, rRate, rBudget, rLast, rStamps, rExpiry, rGrants>>

AtMost(a, b) == IF a < b THEN a ELSE b

TopRate == CHOOSE r \in RRates : \A q \in RRates : q <= r
BaseRate == CHOOSE r \in RRates : \A q \in RRates : r <= q

Full == RCapacity * RInterval

Grant(cost) == rGrants' = Append(rGrants, <<rNow, cost>>)

-----------------------------------------------------------------------------
(* Token bucket.                                                            *)

\* Variant: the tokens saved up are not capped.
RefilledOver == rBudget + (rNow - rLast) * rRate

\* _refill, with the rate as it is now.
Refilled == AtMost(Full, rBudget + (rNow - rLast) * rRate)

TokenRequest(cost) ==
    /\ rKind \in {"token", "adaptive"}
    /\ rLast' = rNow
    /\ IF Refilled >= cost * RInterval
       THEN rBudget' = Refilled - cost * RInterval /\ Grant(cost)
       ELSE rBudget' = Refilled /\ UNCHANGED rGrants
    /\ UNCHANGED <<rKind, rNow, rRate, rStamps, rExpiry>>

\* adjust_rate: one step down under load, one up without; the time since the
\* last refill will be paid at the new rate.
AdjustRate(r) ==
    /\ rKind = "adaptive"
    /\ r \in RRates \cap {rRate - 1, rRate + 1}
    /\ rRate' = r
    /\ UNCHANGED <<rKind, rNow, rBudget, rLast, rStamps, rExpiry, rGrants>>

-----------------------------------------------------------------------------
(* Leaky bucket.                                                            *)

\* _leak takes one request out per interval since last_process, which only
\* moves when one is taken out: an empty bucket saves up intervals.
Leaks == AtMost(Len(rStamps), (rNow - rLast) \div RInterval)

Leaked == SubSeq(rStamps, Leaks + 1, Len(rStamps))

LeakyRequest ==
    /\ rKind = "leaky"
    /\ rLast' = rLast + Leaks * RInterval
    /\ IF Len(Leaked) < RCapacity
       THEN rStamps' = Append(Leaked, rNow) /\ Grant(1)
       ELSE rStamps' = Leaked /\ UNCHANGED rGrants
    /\ UNCHANGED <<rKind, rNow, rRate, rBudget, rExpiry>>

-----------------------------------------------------------------------------
(* Sliding windows.                                                         *)

\* The times inside the window
Within == rNow - RWindow + 1 .. rNow

WindowRequest ==
    LET recent == KeepOnly(rStamps, Within)
    IN /\ rKind = "window"
       /\ IF Len(recent) < RCapacity
          THEN rStamps' = Append(recent, rNow) /\ Grant(1)
          ELSE rStamps' = recent /\ UNCHANGED rGrants
       /\ UNCHANGED <<rKind, rNow, rRate, rBudget, rLast, rExpiry>>

\* The sorted set has one member per time; EXPIRE is window + 1.  All clients read one
\* clock here; in the code each sends its own time.
Members == {rStamps[i] : i \in 1 .. Len(rStamps)}

RedisRequest ==
    LET recent == KeepOnly(rStamps, Within)
    IN /\ rKind = "redis"
       /\ RStale \/ \A g \in 1 .. Len(rGrants) : rGrants[g][1] # rNow
       /\ IF Len(recent) < RCapacity
          THEN /\ rStamps' = IF rNow \in Members THEN recent ELSE Append(recent, rNow)
               /\ rExpiry' = rNow + RWindow + 1
               /\ Grant(1)
          ELSE rStamps' = recent /\ UNCHANGED <<rExpiry, rGrants>>
       /\ UNCHANGED <<rKind, rNow, rRate, rBudget, rLast>>

-----------------------------------------------------------------------------

Tick ==
    /\ rNow < RMaxTime
    /\ rNow' = rNow + 1
    /\ rStamps' = IF rKind = "redis" /\ rNow' > rExpiry THEN << >> ELSE rStamps
    /\ UNCHANGED <<rKind, rRate, rBudget, rLast, rExpiry, rGrants>>

RInit ==
    /\ rKind \in RKinds
    /\ rNow = 0
    /\ rRate = BaseRate
    /\ rBudget = Full
    /\ rLast = 0
    /\ rStamps = << >>
    /\ rExpiry = 0
    /\ rGrants = << >>

Request ==
    /\ Len(rGrants) < RMaxRequests
    /\ \/ \E cost \in RCosts : TokenRequest(cost)
       \/ LeakyRequest
       \/ WindowRequest
       \/ RedisRequest

RNext == Request \/ Tick \/ \E r \in RRates : AdjustRate(r)

RSpec == RInit /\ [][RNext]_rVars

-----------------------------------------------------------------------------

\* What each beginning of the grants adds up to.
Granted(grants) ==
    LET sum[n \in 0 .. Len(grants)] ==
            IF n = 0 THEN 0 ELSE sum[n - 1] + grants[n][2]
    IN sum

Spell(i, j) == rGrants[j][1] - rGrants[i][1]

\* In no stretch of time does a limiter let through more than it promises: a
\* token bucket its capacity and what its highest rate brings meanwhile
\* (rate_limiter.py:22), a sliding window its maximum in every window, exactly
\* (rate_limiter.py:183), a leaky bucket what it holds and has leaked since it
\* was made (rate_limiter.py:157).
AdmittedWithinRate ==
    LET granted == Granted(rGrants)
        Admitted(i, j) == granted[j] - granted[i - 1]
    IN \A i \in 1 .. Len(rGrants) : \A j \in i .. Len(rGrants) :
           CASE rKind \in {"token", "adaptive"} ->
                   Admitted(i, j) * RInterval <= Full + Spell(i, j) *
                       (IF rKind = "token" THEN BaseRate ELSE TopRate)
             [] rKind = "leaky" ->
                   Admitted(1, j) <= RCapacity + rGrants[j][1] \div RInterval
             [] rKind \in {"window", "redis"} ->
                   Spell(i, j) < RWindow => Admitted(i, j) <= RCapacity

=============================================================================
