--------------------------- MODULE SlidingWindow ----------------------------
(***************************************************************************)
(* The sliding-window limiter over a Redis sorted set: check_sliding_window*)
(* of key_limits.rs (requests per minute and per day) and check_rate_limit *)
(* of rate_limit.rs, which run the same commands.                          *)
(*                                                                         *)
(* One key.  A request reads its clock once, then sends four commands:     *)
(* ZREMRANGEBYSCORE and ZCARD in one pipeline (which is not a transaction),*)
(* and, if the count is below the limit, ZADD and EXPIRE.  Any number of   *)
(* gateway tasks and processes do this at the same time, and any of them   *)
(* can be dropped between two commands: by the request timeout, a client   *)
(* that disconnects, a Redis error or a crash.                             *)
(*                                                                         *)
(* Time is one clock in seconds, shared by the gateways and Redis.  A      *)
(* member's name holds a fresh UUID, so each request is its own member.    *)
(***************************************************************************)
EXTENDS Integers, FiniteSets

CONSTANTS
  Requests,        \* the requests made with the key, over time
  MaxInFlight,     \* how many of them the gateways handle at the same time
  RequestTimeout,  \* middleware/timeout.rs drops a request after this time
  Window,          \* the window's length: 60, or 86400 for requests per day
  MaxRequests,     \* max_requests, the limit
  MagicMax,        \* the limit that check_sliding_window takes for an RPM one
  ShortExpiry,     \* the key's TTL under that limit,
  LongExpiry,      \* and under any other
  MaxTime          \* bound of the model: where its clock stops

ASSUME WindowAssumption ==
  /\ IsFiniteSet(Requests)
  /\ MaxInFlight \in Nat \ {0}
  /\ {RequestTimeout, Window} \subseteq Nat \ {0}
  /\ {MaxRequests, MagicMax, ShortExpiry, LongExpiry, MaxTime} \subseteq Nat

VARIABLES
  clock,    \* seconds
  pc,       \* the next command of each request
  now,      \* `now` of each request
  zset,     \* the members of the sorted set; the score of r is now[r]
  expiry    \* when Redis deletes the key, or NoExpiry

vars == <<clock, pc, now, zset, expiry>>

\* The key has no TTL, or does not exist (when zset is empty).
NoExpiry == -1

InFlightSteps == {"trim", "count", "add", "expire"}

\* "stranded": dropped after its ZADD and before its EXPIRE.
Outcomes == {"admitted", "denied", "dropped", "stranded"}

InFlight == {r \in Requests : pc[r] \in InFlightSteps}

\* `if max_requests == 100 { 120 } else { 86500 }` for the limits of a key,
\* window_secs + 60 for the rate limiter.
ExpirySecs == IF MaxRequests = MagicMax THEN ShortExpiry ELSE LongExpiry

-----------------------------------------------------------------------------

Init ==
  /\ clock = 0
  /\ pc = [r \in Requests |-> "new"]
  /\ now = [r \in Requests |-> 0]
  /\ zset = {}
  /\ expiry = NoExpiry

Start(r) ==
  /\ pc[r] = "new"
  /\ Cardinality(InFlight) < MaxInFlight
  /\ now' = [now EXCEPT ![r] = clock]
  /\ pc' = [pc EXCEPT ![r] = "trim"]
  /\ UNCHANGED <<clock, zset, expiry>>

\* Names that start with Faulty are seeded faults (see README), as in
\* BackendCircuit.
FaultyStale(r) == {}

\* ZREMRANGEBYSCORE key 0 now-window
Stale(r) == {q \in zset : now[q] <= now[r] - Window}

\* Redis deletes a sorted set that becomes empty, and its TTL with it.
Trim(r) ==
  /\ pc[r] = "trim"
  /\ zset' = zset \ Stale(r)
  /\ expiry' = IF zset' = {} THEN NoExpiry ELSE expiry
  /\ pc' = [pc EXCEPT ![r] = "count"]
  /\ UNCHANGED <<clock, now>>

FaultyHasRoom == Cardinality(zset) <= MaxRequests

\* ZCARD answered less than max_requests.
HasRoom == Cardinality(zset) < MaxRequests

FaultyCountAddsFirst(r) ==
  /\ pc[r] = "count"
  /\ zset' = zset \cup {r}
  /\ pc' = [pc EXCEPT ![r] = IF HasRoom THEN "expire" ELSE "denied"]
  /\ UNCHANGED <<clock, now, expiry>>

Count(r) ==
  /\ pc[r] = "count"
  /\ pc' = [pc EXCEPT ![r] = IF HasRoom THEN "add" ELSE "denied"]
  /\ UNCHANGED <<clock, now, zset, expiry>>

Add(r) ==
  /\ pc[r] = "add"
  /\ zset' = zset \cup {r}
  /\ pc' = [pc EXCEPT ![r] = "expire"]
  /\ UNCHANGED <<clock, now, expiry>>

FaultyNewExpiry == IF expiry = NoExpiry THEN clock + ExpirySecs ELSE expiry

NewExpiry == clock + ExpirySecs

\* EXPIRE does nothing to a key that is gone.
Expire(r) ==
  /\ pc[r] = "expire"
  /\ expiry' = IF zset = {} THEN NoExpiry ELSE NewExpiry
  /\ pc' = [pc EXCEPT ![r] = "admitted"]
  /\ UNCHANGED <<clock, now, zset>>

\* The task is dropped before its next command.
Drop(r) ==
  /\ pc[r] \in InFlightSteps
  /\ pc' = [pc EXCEPT ![r] = IF @ = "expire" THEN "stranded" ELSE "dropped"]
  /\ UNCHANGED <<clock, now, zset, expiry>>

\* Redis deletes the key when its TTL is over.
KeyExpires ==
  /\ expiry # NoExpiry
  /\ clock >= expiry
  /\ zset' = {}
  /\ expiry' = NoExpiry
  /\ UNCHANGED <<clock, pc, now>>

\* Time passes, but not beyond the moment the key expires, nor beyond the one
\* at which a request is dropped by its timeout.
Tick ==
  /\ clock < MaxTime
  /\ expiry # NoExpiry => clock < expiry
  /\ \A r \in InFlight : clock < now[r] + RequestTimeout
  /\ clock' = clock + 1
  /\ UNCHANGED <<pc, now, zset, expiry>>

Next ==
  \/ \E r \in Requests :
       Start(r) \/ Trim(r) \/ Count(r) \/ Add(r) \/ Expire(r) \/ Drop(r)
  \/ KeyExpires
  \/ Tick

Spec == Init /\ [][Next]_vars

-----------------------------------------------------------------------------
(***************************************************************************)
(* Properties                                                              *)
(***************************************************************************)

\* Only requests that sent their ZADD are members of the set, and an empty
\* set is a key that does not exist: it has no TTL.
TypeOK ==
  /\ clock \in 0 .. MaxTime
  /\ pc \in [Requests -> {"new"} \cup InFlightSteps \cup Outcomes]
  /\ now \in [Requests -> 0 .. MaxTime]
  /\ zset \subseteq {r \in Requests : pc[r] \in {"expire", "admitted", "stranded"}}
  /\ expiry \in {NoExpiry} \cup Nat
  /\ zset = {} => expiry = NoExpiry

Adding == {r \in Requests : pc[r] = "add"}

\* No more than the limit plus the requests racing with each other are ever
\* counted: requests that saw the same count all get in, and each of them was
\* in flight when the last one looked.
CountBounded ==
  Cardinality(zset) + Cardinality(Adding) <= MaxRequests + MaxInFlight - 1

Recent(r) == now[r] > clock - Window

\* The requests the limiter let through during the last Window.
RecentlyAdmitted ==
  {r \in Requests : pc[r] \in {"expire", "admitted"} /\ Recent(r)}

NobodyStranded == \A r \in Requests : pc[r] # "stranded"

\* What makes the TTL safe: it outlives the window by more than a request can
\* take.  True of the rate limiter and of the daily window under any limit
\* but MagicMax.
ExpiryOutlivesWindow == ExpirySecs >= Window + RequestTimeout

\* The TTL never makes the limiter forget a request it let through within the
\* window, as long as no request was lost between its ZADD and its EXPIRE.
NothingForgotten ==
  NobodyStranded => RecentlyAdmitted \subseteq zset

\* In any Window the limiter lets through at most the limit, plus one less
\* than the number of requests that can race.
AdmissionsBounded ==
  NobodyStranded =>
    Cardinality(RecentlyAdmitted) <= MaxRequests + MaxInFlight - 1

\* A request is refused only when as many requests as the limit were made in
\* the window that ends now: neither old members nor refused requests count.
RefusedOnlyWhenFull ==
  [][\A r \in Requests :
       pc[r] = "count" /\ pc'[r] = "denied" =>
         Cardinality({q \in Requests :
                        /\ pc[q] \in {"expire", "admitted", "stranded"}
                        /\ now[q] > now[r] - Window}) >= MaxRequests]_vars

-----------------------------------------------------------------------------
(***************************************************************************)
(* What the code's documentation says of it                                *)
(***************************************************************************)

\* key_limits.rs, check_limits: "Returns Ok(()) if within limits,
\* Err(AppError::RateLimit) if exceeded", over "requests per day window".
LimitHolds ==
  NobodyStranded => Cardinality(RecentlyAdmitted) <= MaxRequests

=============================================================================
