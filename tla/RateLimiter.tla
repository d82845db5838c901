----------------------------- MODULE RateLimiter -----------------------------
(***************************************************************************)
(* The rate limiter of gateway/middleware/rate_limit.py: several gateway   *)
(* workers share one Redis, and each falls back to a store of its own when *)
(* Redis cannot be reached.                                                *)
(*                                                                         *)
(* A worker's limiter never awaits, so a worker decides one request at a   *)
(* time; the Redis round trips of different workers interleave.  A tick is *)
(* the resolution of the timestamps that name the members of the Redis     *)
(* sorted set.                                                             *)
(***************************************************************************)
EXTENDS Windows

CONSTANTS
    Workers,    \* gateway processes
    Buckets,    \* "auth:<ip>", "forgot:<ip>", "mfa:<ip>", "default:<ip>"
    Limit,      \* LIMITS: requests a bucket may have in a window
    Window,     \* WINDOW_SECONDS
    MaxKeys,    \* _MAX_KEYS
    Races,      \* what may go wrong between a worker and Redis
    MaxTime,    \* bound: the last tick
    MaxRequests \* bound: requests that reach the limiter

ASSUME WorkersAssumption == IsFiniteSet(Workers) /\ IsFiniteSet(Buckets) /\ "redis" \notin Workers
ASSUME LimitAssumption   == Limit \in [Buckets -> Nat \ {0}]
ASSUME WindowAssumption  == Window \in Nat \ {0} /\ MaxKeys \in Nat
ASSUME RacesAssumption   == Races \subseteq {"stamp", "stall", "outage"}
ASSUME BoundAssumption   == MaxTime \in Nat /\ MaxRequests \in Nat

VARIABLES
    now,      \* the clock
    redis,    \* "none": no client since startup; else "up" or "down"
    zset,     \* the sorted set of each bucket: timestamps
    store,    \* _store of each worker: a window for some of the buckets
    req,      \* the request a worker is deciding
    served,   \* history: admissions in the window, by store and bucket, since
              \* an eviction last made the store forget the bucket
    stuck,    \* history: buckets with a refusal an outage cut short
    asked     \* history: requests so far, for the bound

vars == <<now, redis, zset, store, req, served, stuck, asked>>

Stores  == {"redis"} \cup Workers

Idle == [pc |-> "idle"]

Deciding == [pc : {"pipe", "drop"}, bucket : Buckets, at : Nat]

-----------------------------------------------------------------------------

Last(q) == q[Len(q)]

\* Mutant of RetryAfter: no rounding up.
RetryShort(q, t) == Window - (t - q[1])

\* The Retry-After header of a refusal.
RetryAfter(q, t) == Window - (t - q[1]) + 1

IdleKey(s, b) == s[b] = <<>> \/ Last(s[b]) < now - Window

\* Mutant of Survivors: the guard compares the active keys with the cap, and
\* nothing active is ever dropped.
SurvivorsActive(s) ==
    LET active == {b \in DOMAIN s : ~IdleKey(s, b)}
    IN  IF Cardinality(active) <= MaxKeys THEN {DOMAIN s} ELSE {active}

\* _evict_idle_keys: the sets of keys it may leave.  Past the cap, idle keys
\* go first, then the least recently seen (ties in any order).
Survivors(s) ==
    LET active == {b \in DOMAIN s : ~IdleKey(s, b)}
        room   == IF Cardinality(active) < MaxKeys THEN Cardinality(active)
                                                   ELSE MaxKeys
    IN  IF Cardinality(DOMAIN s) <= MaxKeys
        THEN {DOMAIN s}
        ELSE {K \in SUBSET active :
                 /\ Cardinality(K) = room
                 /\ \A a \in active \ K, b \in K : Last(s[a]) <= Last(s[b])}

Forget(w, S) ==
    [served EXCEPT ![w] = [b \in Buckets |-> IF b \in S THEN <<>> ELSE @[b]]]

\* Mutant of Memory: one request too many.
MemoryOff(w, b) ==
    /\ \E K \in Survivors(store[w]) :
          LET old  == IF b \in K THEN Fresh(store[w][b], now - Window) ELSE <<>>
              ok   == Len(old) <= Limit[b]
              new  == IF ok THEN Append(old, now) ELSE old
              kept == Forget(w, DOMAIN store[w] \ K)
          IN  /\ store' = [store EXCEPT ![w] =
                    [k \in K \cup {b} |-> IF k = b THEN new ELSE @[k]]]
              /\ served' = IF ok THEN [kept EXCEPT ![w][b] = Append(@, now)] ELSE kept
    /\ UNCHANGED <<now, redis, zset>>

\* _memory_is_allowed: a refused request is not recorded.
Memory(w, b) ==
    /\ \E K \in Survivors(store[w]) :
          LET old  == IF b \in K THEN Fresh(store[w][b], now - Window) ELSE <<>>
              ok   == Len(old) < Limit[b]
              new  == IF ok THEN Append(old, now) ELSE old
              kept == Forget(w, DOMAIN store[w] \ K)
          IN  /\ store' = [store EXCEPT ![w] =
                    [k \in K \cup {b} |-> IF k = b THEN new ELSE @[k]]]
              /\ served' = IF ok THEN [kept EXCEPT ![w][b] = Append(@, now)] ELSE kept
    /\ UNCHANGED <<now, redis, zset>>

-----------------------------------------------------------------------------
(* A request *)

\* time.time() may give two requests the same timestamp, hence one member.
FreshStamp(b) ==
    /\ now \notin zset[b]
    /\ \A w \in Workers :
          req[w] # Idle => ~(req[w].bucket = b /\ req[w].at = now)

\* OPTIONS and the exempt paths go straight on.
Exempt == UNCHANGED vars

\* dispatch and _is_allowed: the middleware has picked the bucket of the
\* address and path.
Dispatch(w, b) ==
    /\ req[w] = Idle
    /\ asked < MaxRequests
    /\ asked' = asked + 1
    /\ IF redis = "none"
       THEN Memory(w, b) /\ UNCHANGED <<req, stuck>>
       ELSE /\ "stamp" \in Races \/ FreshStamp(b)
            /\ req' = [req EXCEPT ![w] = [pc |-> "pipe", bucket |-> b, at |-> now]]
            /\ UNCHANGED <<now, redis, zset, store, served, stuck>>

\* The pipeline, one transaction: cut the window, count, add.
Pipe(w) ==
    /\ req[w].pc = "pipe" /\ redis = "up"
    /\ LET b   == req[w].bucket
           at  == req[w].at
           cut == {t \in zset[b] : t > at - Window}
       IN  /\ zset' = [zset EXCEPT ![b] = cut \cup {at}]
           /\ IF Cardinality(cut) >= Limit[b]
              THEN req' = [req EXCEPT ![w].pc = "drop"] /\ UNCHANGED served
              ELSE req' = [req EXCEPT ![w] = Idle] /\ served' = [served EXCEPT !["redis"][b] = Append(@, at)]
    /\ UNCHANGED <<now, redis, store, stuck, asked>>

\* Mutant of Drop: the refused request stays in the set.
DropNothing(w) ==
    /\ req[w].pc = "drop" /\ redis = "up"
    /\ req' = [req EXCEPT ![w] = Idle]
    /\ UNCHANGED <<now, redis, zset, store, served, stuck, asked>>

\* A refused request takes its member out again, in a second round trip.
Drop(w) ==
    /\ req[w].pc = "drop" /\ redis = "up"
    /\ zset' = [zset EXCEPT ![req[w].bucket] = @ \ {req[w].at}]
    /\ req' = [req EXCEPT ![w] = Idle]
    /\ UNCHANGED <<now, redis, store, served, stuck, asked>>

\* Either round trip fails: the worker decides from its own store, even when
\* Redis had already refused the request.
FallBack(w) ==
    /\ req[w].pc \in {"pipe", "drop"} /\ redis = "down"
    /\ Memory(w, req[w].bucket)
    /\ stuck' = stuck \cup (IF req[w].pc = "drop" THEN {req[w].bucket} ELSE {})
    /\ req' = [req EXCEPT ![w] = Idle]
    /\ UNCHANGED asked

-----------------------------------------------------------------------------
(* Redis and time *)

Outage ==
    /\ "outage" \in Races
    /\ redis = "up"
    /\ redis' = "down"
    /\ UNCHANGED <<now, zset, store, req, served, stuck, asked>>

Recovery ==
    /\ redis = "down"
    /\ redis' = "up"
    /\ UNCHANGED <<now, zset, store, req, served, stuck, asked>>

\* Time passes, also between a worker's reading of the clock and its
\* transaction ("stall").
Tick ==
    /\ now < MaxTime
    /\ "stall" \in Races \/ \A w \in Workers : req[w].pc # "pipe"
    /\ now' = now + 1
    /\ served' = [k \in Stores |-> [b \in Buckets |-> Fresh(served[k][b], now + 1 - Window)]]
    /\ UNCHANGED <<redis, zset, store, req, stuck, asked>>

\* init_rate_limit_backend: without Redis at startup there is no client.
Init ==
    /\ now = 0
    /\ redis \in {"none", "up"}
    /\ zset = [b \in Buckets |-> {}]
    /\ store = [w \in Workers |-> <<>>]
    /\ req = [w \in Workers |-> Idle]
    /\ served = [k \in Stores |-> [b \in Buckets |-> <<>>]]
    /\ stuck = {}
    /\ asked = 0

Next ==
    \/ \E w \in Workers :
          \/ \E b \in Buckets : Dispatch(w, b)
          \/ Pipe(w) \/ Drop(w) \/ FallBack(w)
    \/ Exempt \/ Outage \/ Recovery \/ Tick

Spec == Init /\ [][Next]_vars

-----------------------------------------------------------------------------
(* Properties *)

\* Every variable holds what Redis or a worker's dictionary can hold.
TypeOK ==
    /\ now \in Nat
    /\ redis \in {"none", "up", "down"}
    /\ zset \in [Buckets -> SUBSET Nat]
    /\ \A w \in Workers :
          /\ DOMAIN store[w] \subseteq Buckets
          /\ \A b \in DOMAIN store[w] : store[w][b] \in Seq(Nat)
    /\ req \in [Workers -> {Idle} \cup Deciding]
    /\ served \in [Stores -> [Buckets -> Seq(Nat)]]
    /\ stuck \subseteq Buckets
    /\ asked \in 0..MaxRequests

\* The admissions of a history that lie in the window.
Recent(q) == {i \in 1 .. Len(q) : q[i] > now - Window}

\* No store admits more than its limit in a window: the shared set over all
\* workers together, each fallback store by itself since it last evicted the
\* bucket, through every outage (rate_limit.py:15-18, 112-133, 172-189).
StoreLimit ==
    \A k \in Stores, b \in Buckets :
        Cardinality(Recent(served[k][b])) <= Limit[b]

\* A refused request leaves no trace: when no refusal is under way and none
\* was cut short by an outage, the set of a bucket holds its admissions of the
\* window and nothing else, so refusals never prolong the wait (lines 124-131).
RefusalsLeaveNoTrace ==
    \A b \in Buckets :
        \/ b \in stuck
        \/ \E w \in Workers : req[w].pc = "drop" /\ req[w].bucket = b
        \/ {t \in zset[b] : t > now - Window}
              = {served["redis"][b][i] : i \in Recent(served["redis"][b])}

\* A client that waits as long as Retry-After says is admitted, whatever the
\* age of the other entries (lines 184-186).
RetryHonest ==
    \A w \in Workers : \A b \in DOMAIN store[w] :
        LET q == Fresh(store[w][b], now - Window)
        IN  Len(q) >= Limit[b] => Len(Fresh(q, now + RetryAfter(q, now) - Window)) < Limit[b]

\* Buckets of many addresses cannot fill the memory of a worker, however
\* active they are (lines 154-169).
StoreBounded == \A w \in Workers : Cardinality(DOMAIN store[w]) <= MaxKeys + 1

=============================================================================
