---------------------------- MODULE RateLimiter ----------------------------
(***************************************************************************)
(* RedisRateLimiter: a counter per key in Redis, which the first request   *)
(* gives an expiry, and the decision that is taken on its value.           *)
(*                                                                         *)
(* Time is counted in ticks, of which a second has PerSecond.              *)
(***************************************************************************)
EXTENDS Integers

CONSTANTS
    Key,            \* keys that are derived from a namespace and an identifier
    Limit,          \* how many requests the policy of each key allows
    window_seconds, \* AUTH_RATE_LIMIT_WINDOW_SECONDS, which all policies share
    failure_mode,   \* "open" or "closed"
    PerSecond

ASSUME PolicyAssumption ==
    /\ \A k \in Key : Limit[k] \in Nat \ {0}
    /\ window_seconds \in Nat \ {0}
    /\ failure_mode \in {"open", "closed"}
    /\ PerSecond \in Nat \ {0} /\ PerSecond % 2 = 0

VARIABLES
    count,  \* the value of each key, 0 when there is no such key
    ttl,    \* the ticks it still exists
    up      \* Redis can be reached

counters == <<count, ttl, up>>

Window == window_seconds * PerSecond
Half   == PerSecond \div 2

\* Larger values are not told apart: a count is compared with 1 and the limit.
Most(k) == Limit[k] + 1

\* TTL rounds half a second up.
Seconds(ticks) == (ticks + Half) \div PerSecond

----------------------------------------------------------------------------
(* The script *)

Counted(k) == IF count[k] < Most(k) THEN count[k] + 1 ELSE count[k]

\* Mutant: every request sets the expiry.
Lifetime_Renewed(k) == Window

\* Only the request that counts 1 sets the expiry.
Lifetime(k) == IF Counted(k) = 1 THEN Window ELSE ttl[k]

\* The script has run; it is one step for everybody else.
eval(k) ==
    /\ count' = [count EXCEPT ![k] = Counted(k)]
    /\ ttl' = [ttl EXCEPT ![k] = Lifetime(k)]
    /\ UNCHANGED up

----------------------------------------------------------------------------
(* RateLimitDecision *)

\* Mutant: the request that reaches one more than the limit passes.
allowed_OffByOne(k) == count'[k] <= Limit[k] + 1

\* The decision on the answer of the script.
allowed(k) == count'[k] <= Limit[k]

\* The seconds a refused client is told to wait.
retry_after(k) == IF allowed(k) THEN 0 ELSE Seconds(ttl'[k])

\* The decision without an answer.
fallback ==
    IF failure_mode = "open" THEN [allowed |-> TRUE, retry_after |-> 0]
    ELSE [allowed |-> FALSE, retry_after |-> window_seconds]

----------------------------------------------------------------------------
(* Redis *)

\* A tick passes; keys whose time is over disappear.
Elapse ==
    /\ ttl' = [k \in Key |-> IF ttl[k] = 0 THEN 0 ELSE ttl[k] - 1]
    /\ count' = [k \in Key |-> IF ttl[k] <= 1 THEN 0 ELSE count[k]]
    /\ UNCHANGED up

\* Redis cannot be reached any more, or again; it keeps its keys.
Toggle ==
    /\ up' = ~up
    /\ UNCHANGED <<count, ttl>>
============================================================================
