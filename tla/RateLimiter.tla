----------------------------- MODULE RateLimiter -----------------------------
(***************************************************************************)
(* FixedWindowRateLimiter: per key the requests it let pass in the window, *)
(* for at most MaxKeys keys, the least recently asked one making room for  *)
(* a new one.  A check is one instant: it holds the lock, and the time is  *)
(* read right before.  Times are counted in parts of a second, PerSecond   *)
(* to the second.                                                          *)
(***************************************************************************)
EXTENDS Naturals, FiniteSets

CONSTANTS
  Keys,        \* client addresses
  MaxKeys,     \* max_keys
  Limit,       \* limit
  Window,      \* window_seconds, in parts
  PerSecond,
  MaxTime      \* bound: the clock

ASSUME KeysAssumption == IsFiniteSet(Keys) /\ MaxKeys \in Nat \ {0}

ASSUME WindowAssumption ==
  Limit \in Nat \ {0} /\ Window \in Nat \ {0} /\ PerSecond \in Nat \ {0}

VARIABLES
  requests,    \* the OrderedDict: the passes each of its keys has in its deque
  before,      \* its order: <<i, j>>, i was asked less recently than j
  now,         \* time.monotonic()
  passed,      \* per key: all its passes of the last window
  asked,       \* per key: when it last asked in the last window, 0 if not
  told         \* per key: when a refused client was told to come back, 0 if not

limiterVars == <<requests, before, now, passed, asked, told>>

LimiterInit ==
  /\ requests = [k \in {} |-> {}] /\ before = {} /\ now = 1
  /\ passed = [k \in Keys |-> {}]
  /\ asked = [k \in Keys |-> 0]
  /\ told = [k \in Keys |-> 0]

Tracked == DOMAIN requests

History(k) == IF k \in Tracked THEN requests[k] ELSE {}

(* A pass is its time, and its number among the key's passes of that time. *)
Entry(k) == <<now, Cardinality({e \in passed[k] : e[1] = now}) + 1>>

(* Faulty: a request that is exactly one window old still counts. *)
RecentInclusive(times) == {e \in times : e[1] + Window >= now}

(* requests[0] <= cutoff is dropped. *)
Recent(times) == {e \in times : e[1] + Window > now}

(* requests[0] *)
First(times) == {e \in times : \A f \in times : e[1] <= f[1]}

(* Faulty: the key that was asked last makes room. *)
EvictedNewest == {o \in Tracked : \A j \in Tracked \ {o} : <<j, o>> \in before}

(* popitem(last=False) *)
Evicted == {o \in Tracked : \A j \in Tracked \ {o} : <<o, j>> \in before}

(* The keys that stay when k asks. *)
Staying(k) ==
  IF k \in Tracked \/ Cardinality(Tracked) < MaxKeys THEN {Tracked}
  ELSE {Tracked \ {o} : o \in Evicted}

(* k comes last, with these passes. *)
Keep(k, times) ==
  /\ \E stay \in Staying(k) :
       /\ requests' = [j \in stay \cup {k} |-> IF j = k THEN times ELSE requests[j]]
       /\ before' = {p \in before : {p[1], p[2]} \subseteq stay \ {k}}
                      \cup ((stay \ {k}) \X {k})
  /\ asked' = [asked EXCEPT ![k] = now]
  /\ UNCHANGED now

(* Faulty: the time that has passed instead of the time that is left. *)
RetryAfterElapsed(t) ==
  LET gone == (now - t) \div PerSecond IN IF gone > 1 THEN gone ELSE 1

(* max(1, int(window - (now - oldest))), in seconds *)
RetryAfter(t) ==
  LET left == (Window - (now - t)) \div PerSecond IN IF left > 1 THEN left ELSE 1

Refuse(k, times) ==
  /\ Cardinality(times) >= Limit /\ Keep(k, times)
  /\ \E e \in First(times) :
       told' = [told EXCEPT ![k] = now + RetryAfter(e[1]) * PerSecond]
  /\ UNCHANGED passed

Pass(k, times) ==
  /\ Cardinality(times) < Limit /\ Keep(k, times \cup {Entry(k)})
  /\ passed' = [passed EXCEPT ![k] = @ \cup {Entry(k)}]
  /\ told' = [told EXCEPT ![k] = 0]

(* Bound: a client over its limit asks no more. *)
Check(k) ==
  /\ Cardinality(passed[k]) <= Limit
  /\ LET times == Recent(History(k)) IN Refuse(k, times) \/ Pass(k, times)

TimePasses ==
  /\ now < MaxTime /\ now' = now + 1
  /\ passed' = [k \in Keys |-> {e \in passed[k] : e[1] + Window > now + 1}]
  /\ asked' = [k \in Keys |-> IF asked[k] + Window > now + 1 THEN asked[k] ELSE 0]
  /\ UNCHANGED <<requests, before, told>>

LimiterNext == (\E k \in Keys : Check(k)) \/ TimePasses

LimiterSpec == LimiterInit /\ [][LimiterNext]_limiterVars

-----------------------------------------------------------------------------
(* One client exceeds its limit within a window only if so many others came*)
(* in the same window that the limiter had to forget it: eviction takes the*)
(* key that was asked longest ago, refused requests included.              *)
LimitKept ==
  \A k \in DOMAIN passed :
    Cardinality(passed[k]) > Limit
      => Cardinality({j \in DOMAIN asked \ {k} : asked[j] > 0}) >= MaxKeys

(* A client is refused only for requests of its own that passed in the last*)
(* window: neither an old request nor another client's counts against it.  *)
RefusedForCause ==
  \A k \in DOMAIN passed : Cardinality(Recent(History(k))) <= Cardinality(passed[k])

(* retry_after: a refused client finds room less than a second after the   *)
(* time it was told (the rounding is down), whatever other clients did.    *)
RetryAfterHonest ==
  \A k \in DOMAIN told :
    told[k] > 0 /\ now + 1 >= told[k] + PerSecond
      => Cardinality(Recent(History(k))) < Limit

(* The limiter is exact: a client exceeds its limit only if it had to be   *)
(* forgotten for too many others in the window, only its own requests of   *)
(* the window count against it, and a refused one finds room when it was   *)
(* told to.                                                                *)
LimiterExact == LimitKept /\ RefusedForCause /\ RetryAfterHonest
=============================================================================
