---------------------------- MODULE RateLimiter -----------------------------
(***************************************************************************)
(* The request limiter of the HTTP server (rate_limit.rs): a fixed window  *)
(* for each presented token, in a map of bounded size.  allow reads the    *)
(* clock before it takes the mutex, so requests enter allow_at with stamps *)
(* that may be older than what an overtaking request has stored.           *)
(***************************************************************************)
EXTENDS Integers, FiniteSets, FiniteSetsExt

CONSTANTS
  Tokens,     \* hashes of the presented tokens
  Threads,    \* requests that may be in allow at the same time
  limit, window, capacity,
  MaxInstant, \* bound of the model: the last instant
  NONE

ASSUME LimiterAssumption ==
  /\ limit \in Nat \ {0} /\ window \in Nat \ {0} /\ capacity \in Nat \ {0}
  /\ MaxInstant \in Nat
  /\ NONE \notin Tokens

VARIABLES
  clock,      \* Instant::now()
  counters,   \* key -> the start of its window and the requests counted in it
  entering    \* entering[t]: the key and the stamp of a request before the mutex

limiter_vars == <<clock, counters, entering>>

\* Mutant: the distance of two instants, whichever is later.
duration_since_Distance(later, earlier) ==
  IF later >= earlier THEN later - earlier ELSE earlier - later

\* Instant::duration_since, which saturates at zero.
duration_since(later, earlier) == IF later >= earlier THEN later - earlier ELSE 0

\* Mutant: the configured length of a window, however much of it has passed.
Remaining_WholeWindow(started, at) == window

\* What is left at the instant at of a window begun at started.
Remaining(started, at) == IF duration_since(at, started) < window
                          THEN window - duration_since(at, started) ELSE 0

\* The windows kept: expired ones are removed only from a full map.
retained(map, at) ==
  IF Cardinality(DOMAIN map) < capacity THEN map
  ELSE [k \in {j \in DOMAIN map : duration_since(at, map[j].started) < window} |-> map[k]]

HasNoRoom(map, key) == Cardinality(DOMAIN map) >= capacity /\ key \notin DOMAIN map

\* The key's entry: a new window for a key not tracked or one that has run out.
Opened(map, key, at) ==
  IF key \in DOMAIN map /\ duration_since(at, map[key].started) < window
  THEN map[key] ELSE [started |-> at, count |-> 0]

\* Mutant: one request too many.
IsSpent_OneMore(entry) == entry.count > limit

IsSpent(entry) == entry.count >= limit

With(map, key, entry) == [k \in DOMAIN map \cup {key} |-> IF k = key THEN entry ELSE map[k]]

\* The decision on one request, and the map it leaves.
allow_at(map, key, at) ==
  LET held == retained(map, at)
      entry == Opened(held, key, at)
  IN  IF HasNoRoom(held, key)
      THEN [counters |-> held, allowed |-> FALSE,
            retry_after |-> Min({Remaining(held[k].started, at) : k \in DOMAIN held})]
      ELSE IF IsSpent(entry)
      THEN [counters |-> With(held, key, entry), allowed |-> FALSE,
            retry_after |-> Remaining(entry.started, at)]
      ELSE [counters |-> With(held, key, [entry EXCEPT !.count = @ + 1]),
            allowed |-> TRUE, retry_after |-> 0]

-----------------------------------------------------------------------------

Outside == [key |-> NONE, at |-> 0]

LimiterInit ==
  /\ clock = 0
  /\ counters = [k \in {} |-> [started |-> 0, count |-> 0]]
  /\ entering = [t \in Threads |-> Outside]

\* A request reads the clock and waits for the mutex.
allow(t) == \E key \in Tokens :
  /\ entering[t].key = NONE
  /\ entering' = [entering EXCEPT ![t] = [key |-> key, at |-> clock]]
  /\ UNCHANGED <<clock, counters>>

\* It takes the mutex: the rest of allow is one critical section.
admit(t) ==
  /\ entering[t].key # NONE
  /\ counters' = allow_at(counters, entering[t].key, entering[t].at).counters
  /\ entering' = [entering EXCEPT ![t] = Outside]
  /\ UNCHANGED clock

Tick == clock < MaxInstant /\ clock' = clock + 1 /\ UNCHANGED <<counters, entering>>

LimiterNext == (\E t \in Threads : allow(t) \/ admit(t)) \/ Tick
LimiterSpec == LimiterInit /\ [][LimiterNext]_limiter_vars

-----------------------------------------------------------------------------

Entry == [started : Nat, count : 0..limit]

\* The map, the stamps and the counts have their types: no count passes the
\* limit, and no window starts and no request is stamped after the clock.
LimiterTypeOK ==
  /\ clock \in Nat
  /\ DOMAIN counters \subseteq Tokens
  /\ \A k \in DOMAIN counters : counters[k] \in Entry /\ counters[k].started <= clock
  /\ entering \in [Threads -> [key : Tokens \cup {NONE}, at : Nat]]
  /\ \A t \in Threads : entering[t].at <= clock

\* However many tokens are presented, the map keeps to its capacity.
TheMapIsBounded == IsFiniteSet(DOMAIN counters) /\ Cardinality(DOMAIN counters) <= capacity

\* No token is counted past its limit and the map keeps to its capacity,
\* however many tokens are presented and however the requests overtake each
\* other between the clock and the mutex.
BoundsHold == LimiterTypeOK /\ TheMapIsBounded

\* The wait a refusal names is exact.  A caller that comes back any earlier is
\* refused again, and one that comes back then is served, if nobody else asked
\* in between: for a key over its limit, and for one the map has no room for.
RetryAfterIsExact ==
  \A k \in Tokens :
    LET verdict == allow_at(counters, k, clock)
        Later(d) == allow_at(verdict.counters, k, clock + d).allowed
    IN  ~verdict.allowed =>
          /\ verdict.retry_after \in 1..window
          /\ Later(verdict.retry_after)
          /\ \A d \in 0..(verdict.retry_after - 1) : ~Later(d)

\* A request with an old stamp neither rewinds a window nor reopens one that
\* runs: the window of a tracked key only ever moves on, and by its length.
WindowsNeverRewind ==
  [][\A k \in DOMAIN counters \cap DOMAIN counters' :
       \/ /\ counters'[k].started = counters[k].started
          /\ counters'[k].count >= counters[k].count
       \/ counters'[k].started >= counters[k].started + window]_limiter_vars
=============================================================================
