----------------------------- MODULE RateLimiter ----------------------------
(***************************************************************************)
(* The token bucket limiter (backend/tools/rate_limit.py), as the rate     *)
(* limit middleware (backend/api/middleware/ratelimit.py) asks it on every *)
(* request.                                                                *)
(*                                                                         *)
(* Time passes in ticks.  Tokens are counted in parts, Unit of them to a   *)
(* token, so that a rate need not be a whole number of tokens per tick.    *)
(***************************************************************************)
EXTENDS Integers

CONSTANTS Key,      \* the clients
          Unit,     \* parts of a token
          Default,  \* the default limit: [capacity, rate], in parts
          Limit,    \* the limits configure may set
          MaxNow    \* bound: ticks

ASSUME LimitAssumption ==
    /\ Unit \in Nat \ {0} /\ MaxNow \in Nat
    /\ {Default} \cup Limit \subseteq [capacity : Nat, rate : Nat]

VARIABLES now,      \* time.monotonic()
          limits,   \* _limits
          buckets,  \* _buckets, NoBucket where there is none
          granted,  \* history: requests let through, of a key
          before    \* history: those let through before a time

limiterVars == <<now, limits, buckets, granted, before>>

NoBucket == [tokens |-> -1]
Smaller(x, y) == IF x <= y THEN x ELSE y

\* A bucket is made full, with the limit of its key, when it is first asked.
Bucket(k) == IF buckets[k] # NoBucket THEN buckets[k]
             ELSE [capacity |-> limits[k].capacity, rate |-> limits[k].rate,
                   tokens |-> limits[k].capacity, updated |-> now]

\* The refill is not capped.
LevelUncapped(b) == b.tokens + (now - b.updated) * b.rate

\* What check finds in the bucket.
Level(b) == Smaller(b.capacity, b.tokens + (now - b.updated) * b.rate)

Refilled(b) == [b EXCEPT !.tokens = Level(b), !.updated = now]

LimiterInit ==
    /\ now = 0
    /\ limits = [k \in Key |-> Default]
    /\ buckets = [k \in Key |-> NoBucket]
    /\ granted = [k \in Key |-> 0]
    /\ before = [k \in Key |-> [t \in 0 .. 0 |-> 0]]

Allowed(k) ==
    /\ Level(Bucket(k)) >= Unit
    /\ buckets' = [buckets EXCEPT ![k] = [Refilled(Bucket(k)) EXCEPT !.tokens = @ - Unit]]
    /\ granted' = [granted EXCEPT ![k] = @ + 1]
    /\ UNCHANGED <<now, limits, before>>

\* The request is answered with 429; the bucket has been brought up to date.
Limited(k) ==
    /\ Level(Bucket(k)) < Unit
    /\ buckets' = [buckets EXCEPT ![k] = Refilled(Bucket(k))]
    /\ UNCHANGED <<now, limits, granted, before>>

\* configure drops the bucket: a new count begins.
Configure(k, l) ==
    /\ limits' = [limits EXCEPT ![k] = l]
    /\ buckets' = [buckets EXCEPT ![k] = NoBucket]
    /\ granted' = [granted EXCEPT ![k] = 0]
    /\ before' = [before EXCEPT ![k] = [t \in 0 .. now |-> 0]]
    /\ UNCHANGED now

Tick ==
    /\ now < MaxNow
    /\ now' = now + 1
    /\ before' = [k \in Key |-> [t \in 0 .. now' |-> IF t = now' THEN granted[k] ELSE before[k][t]]]
    /\ UNCHANGED <<limits, buckets, granted>>

LimiterNext == \/ \E k \in Key : Allowed(k) \/ Limited(k)
               \/ \E k \in Key, l \in Limit : Configure(k, l)
               \/ Tick

LimiterSpec == LimiterInit /\ [][LimiterNext]_limiterVars

-----------------------------------------------------------------------------
LimiterTypeOK ==
    /\ now \in 0 .. MaxNow
    /\ limits \in [Key -> {Default} \cup Limit]
    /\ \A k \in Key : buckets[k] # NoBucket =>
          /\ buckets[k].capacity = limits[k].capacity /\ buckets[k].rate = limits[k].rate
          /\ buckets[k].tokens \in 0 .. buckets[k].capacity
          /\ buckets[k].updated \in 0 .. now
    /\ granted \in [Key -> Nat]
    /\ before \in [Key -> [0 .. now -> Nat]]

\* A client is never let through more often than its limit says: in every span
\* of time that ends now and lies after the limit was set, at most a full bucket
\* and what has flowed in since, however the requests and refusals are spread.
RateBound ==
    \A k \in Key, t \in 0 .. now :
        Unit * (granted[k] - before[k][t]) <= limits[k].capacity + limits[k].rate * (now - t)

=============================================================================
