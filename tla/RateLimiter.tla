---------------------------- MODULE RateLimiter ----------------------------
(***************************************************************************)
(* The token buckets of src/src/proto/src/rate_limit.rs, one per address,  *)
(* in a table of bounded size behind one lock.  A bucket counts in units   *)
(* of which a request costs `Cost`.  Of a bucket the model also remembers  *)
(* when it was made and how many requests it has allowed.                  *)
(***************************************************************************)
EXTENDS Integers, FiniteSets

CONSTANTS
    Ips,
    Burst, PerTick, MaxEntries,     \* RateLimitConfig
    Cost,                           \* units per request
    NoBucket,
    MaxClock

ASSUME LimiterAssumption ==
    /\ Burst \in Nat /\ PerTick \in Nat /\ Cost \in Nat \ {0}
    /\ MaxEntries \in Nat \ {0}

VARIABLES buckets, clock

limiterVars == <<buckets, clock>>

NewBucket == [tokens |-> Burst * Cost, last_refill |-> clock, since |-> clock, allowed |-> 0]

Capped(units) == IF units > Burst * Cost THEN Burst * Cost ELSE units

\* Without setting the time of the refill.
RefillOnly(b) == [b EXCEPT !.tokens = Capped(@ + (clock - b.last_refill) * PerTick)]

\* The first half of Bucket::try_consume.
Refill(b) == [b EXCEPT !.tokens = Capped(@ + (clock - b.last_refill) * PerTick), !.last_refill = clock]

TryConsume(b) ==
    LET r == Refill(b)
    IN  IF r.tokens >= Cost THEN [r EXCEPT !.tokens = @ - Cost, !.allowed = @ + 1] ELSE r

Tracked == {ip \in Ips : buckets[ip] # NoBucket}
Oldest == {ip \in Tracked : \A other \in Tracked : buckets[ip].last_refill <= buckets[other].last_refill}

\* The tables that an unknown address may find: of several oldest entries any is evicted.
Evicted(ip) ==
    IF Cardinality(Tracked) >= MaxEntries /\ ip \notin Tracked
    THEN {[buckets EXCEPT ![old] = NoBucket] : old \in Oldest}
    ELSE {buckets}

\* RateLimiter::check
Check(ip) ==
    /\ \E table \in Evicted(ip) :
          buckets' = [table EXCEPT ![ip] = TryConsume(IF @ = NoBucket THEN NewBucket ELSE @)]
    /\ UNCHANGED clock

Tick ==
    /\ clock < MaxClock
    /\ clock' = clock + 1
    /\ UNCHANGED buckets

LimiterInit == buckets = [ip \in Ips |-> NoBucket] /\ clock = 0
LimiterNext == Tick \/ \E ip \in Ips : Check(ip)
-----------------------------------------------------------------------------
(* However the requests of several addresses are spread over time, an      *)
(* address whose bucket is kept is never allowed more than the burst and   *)
(* what was refilled since its first request.                              *)
RateBound ==
    \A ip \in Tracked :
        LET b == buckets[ip]
        IN  b.allowed * Cost + b.tokens <= Burst * Cost + PerTick * (b.last_refill - b.since)

(* The table holds no more addresses than max_entries, whatever addresses  *)
(* come in whatever order.                                                 *)
TableBounded == Cardinality(Tracked) <= MaxEntries

(* Neither the rate nor the table exceeds its limit.                       *)
LimitsHold == RateBound /\ TableBounded
=============================================================================
