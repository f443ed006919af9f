------------------------ MODULE SlidingWindowProofs -------------------------
(***************************************************************************)
(* Proofs about the sliding-window limiter for every limit, window, number *)
(* of requests and degree of concurrency.                                  *)
(***************************************************************************)
EXTENDS SlidingWindow, FiniteSetTheorems, TLAPS

\* At most MaxInFlight requests run, each for at most RequestTimeout.
InFlightBounded == Cardinality(InFlight) <= MaxInFlight

OnTime ==
  /\ \A r \in Requests : now[r] <= clock
  /\ \A r \in InFlight : clock <= now[r] + RequestTimeout

\* The invariant behind the bound on the count: what makes it inductive is
\* that every request on its way to ZADD is in flight.
CountInv == TypeOK /\ CountBounded /\ InFlightBounded /\ OnTime

-----------------------------------------------------------------------------
(***************************************************************************)
(* The bound on the count                                                  *)
(***************************************************************************)

\* Every set of requests is finite, and a smaller one has no more members.
LEMMA RequestSets ==
  ASSUME NEW S \in SUBSET Requests
  PROVE  /\ IsFiniteSet(S)
         /\ Cardinality(S) \in Nat
         /\ \A T \in SUBSET S : /\ IsFiniteSet(T)
                                /\ Cardinality(T) \in Nat
                                /\ Cardinality(T) <= Cardinality(S)
<1>1. IsFiniteSet(S)
  BY WindowAssumption, FS_Subset
<1>2. \A T \in SUBSET S : IsFiniteSet(T) /\ Cardinality(T) <= Cardinality(S)
  BY <1>1, FS_Subset
<1> QED
  BY <1>1, <1>2, FS_CardinalityType

\* The limiter starts in the invariant.
LEMMA InitCountInv == Init => CountInv
<1> SUFFICES ASSUME Init PROVE CountInv
  OBVIOUS
<1> USE WindowAssumption DEF Init
<1>1. TypeOK
  BY DEF TypeOK, NoExpiry
<1>2. InFlight = {} /\ Adding = {}
  BY DEF InFlight, InFlightSteps, Adding
<1>3. CountBounded
  BY <1>2, FS_EmptySet DEF CountBounded
<1>4. InFlightBounded /\ OnTime
  BY <1>2, FS_EmptySet DEF InFlightBounded, OnTime
<1> QED
  BY <1>1, <1>3, <1>4 DEF CountInv

\* Every step keeps the types.
LEMMA NextTypeOK ==
  ASSUME TypeOK, [Next]_vars
  PROVE  TypeOK'
<1> USE WindowAssumption DEF TypeOK
<1>1. ASSUME NEW r \in Requests, Start(r) PROVE TypeOK'
  BY <1>1 DEF Start, InFlightSteps
<1>2. ASSUME NEW r \in Requests, Trim(r) PROVE TypeOK'
  BY <1>2 DEF Trim, InFlightSteps
<1>3. ASSUME NEW r \in Requests, Count(r) PROVE TypeOK'
  BY <1>3 DEF Count, InFlightSteps, Outcomes
<1>4. ASSUME NEW r \in Requests, Add(r) PROVE TypeOK'
  BY <1>4 DEF Add, InFlightSteps
<1>5. ASSUME NEW r \in Requests, Expire(r) PROVE TypeOK'
  <2>1. ExpirySecs \in Nat
    BY DEF ExpirySecs
  <2> QED
    BY <1>5, <2>1 DEF Expire, NewExpiry, InFlightSteps, Outcomes
<1>6. ASSUME NEW r \in Requests, Drop(r) PROVE TypeOK'
  BY <1>6 DEF Drop, InFlightSteps, Outcomes
<1>7. CASE KeyExpires
  BY <1>7 DEF KeyExpires
<1>8. CASE Tick
  BY <1>8 DEF Tick
<1>9. CASE UNCHANGED vars
  BY <1>9 DEF vars
<1> QED
  BY <1>1, <1>2, <1>3, <1>4, <1>5, <1>6, <1>7, <1>8, <1>9 DEF Next

\* Every step keeps the clock within the timeout of the requests in flight.
LEMMA NextOnTime ==
  ASSUME TypeOK, OnTime, [Next]_vars
  PROVE  OnTime'
<1> USE WindowAssumption DEF TypeOK, OnTime
<1>1. ASSUME NEW r \in Requests, Start(r) PROVE OnTime'
  BY <1>1 DEF Start, InFlight, InFlightSteps
<1>2. ASSUME NEW r \in Requests,
             Trim(r) \/ Count(r) \/ Add(r) \/ Expire(r) \/ Drop(r)
      PROVE  OnTime'
  <2>1. InFlight' \subseteq InFlight /\ UNCHANGED <<clock, now>>
    BY <1>2 DEF Trim, Count, Add, Expire, Drop, InFlight, InFlightSteps
  <2> QED
    BY <2>1
<1>3. CASE KeyExpires \/ UNCHANGED vars
  BY <1>3 DEF KeyExpires, vars, InFlight
<1>4. CASE Tick
  BY <1>4 DEF Tick, InFlight
<1> QED
  BY <1>1, <1>2, <1>3, <1>4 DEF Next

\* Every step keeps the number of requests in flight within its bound.
LEMMA NextInFlightBounded ==
  ASSUME TypeOK, InFlightBounded, [Next]_vars
  PROVE  InFlightBounded'
<1> USE WindowAssumption DEF TypeOK, InFlightBounded
<1>0. InFlight \in SUBSET Requests
  BY DEF InFlight
<1>1. ASSUME NEW r \in Requests, Start(r) PROVE InFlightBounded'
  <2>1. InFlight' = InFlight \cup {r}
    BY <1>1 DEF Start, InFlight, InFlightSteps
  <2>2. Cardinality(InFlight) < MaxInFlight
    BY <1>1 DEF Start
  <2>3. Cardinality(InFlight \cup {r}) <= Cardinality(InFlight) + 1
    BY <1>0, RequestSets, FS_AddElement
  <2> QED
    BY <1>0, <2>1, <2>2, <2>3, RequestSets
<1>2. ASSUME InFlight' \subseteq InFlight PROVE InFlightBounded'
  BY <1>0, <1>2, RequestSets
<1>3. ASSUME NEW r \in Requests,
             Trim(r) \/ Count(r) \/ Add(r) \/ Expire(r) \/ Drop(r)
      PROVE  InFlight' \subseteq InFlight
  BY <1>3 DEF Trim, Count, Add, Expire, Drop, InFlight, InFlightSteps
<1>4. CASE KeyExpires \/ Tick \/ UNCHANGED vars
  BY <1>2, <1>4 DEF KeyExpires, Tick, vars, InFlight
<1> QED
  BY <1>1, <1>2, <1>3, <1>4 DEF Next

\* Every step keeps the bound on the count.
LEMMA NextCountBounded ==
  ASSUME CountInv, [Next]_vars, InFlightBounded'
  PROVE  CountBounded'
<1> USE WindowAssumption DEF CountInv, TypeOK
<1> DEFINE Bound == MaxRequests + MaxInFlight - 1
<1>0. /\ zset \in SUBSET Requests /\ Adding \in SUBSET Requests
      /\ InFlight' \in SUBSET Requests
      /\ Adding' \in SUBSET InFlight'
  BY DEF Adding, InFlight, InFlightSteps
<1>1. /\ Cardinality(zset) \in Nat /\ Cardinality(Adding) \in Nat
      /\ IsFiniteSet(zset) /\ IsFiniteSet(Adding)
      /\ Cardinality(zset) + Cardinality(Adding) <= Bound
  BY <1>0, RequestSets DEF CountBounded
<1>2. ASSUME zset' \in SUBSET zset, Adding' \in SUBSET Adding
      PROVE  CountBounded'
  <2>1. /\ Cardinality(zset') \in Nat
        /\ Cardinality(zset') <= Cardinality(zset)
    BY <1>0, <1>2, RequestSets
  <2>2. /\ Cardinality(Adding') \in Nat
        /\ Cardinality(Adding') <= Cardinality(Adding)
    BY <1>0, <1>2, RequestSets
  <2> QED
    BY <1>1, <2>1, <2>2 DEF CountBounded
<1>3. ASSUME NEW r \in Requests, Start(r) \/ Trim(r) \/ Expire(r) \/ Drop(r)
      PROVE  CountBounded'
  BY <1>2, <1>3 DEF Start, Trim, Expire, Drop, Adding, InFlightSteps
<1>4. ASSUME NEW r \in Requests, Count(r)
      PROVE  CountBounded'
  <2>1. CASE HasRoom
    <3>1. zset' = zset /\ Cardinality(zset) < MaxRequests
      BY <1>4, <2>1 DEF Count, HasRoom
    <3>2. /\ Cardinality(Adding') \in Nat
          /\ Cardinality(Adding') <= Cardinality(InFlight')
          /\ Cardinality(InFlight') \in Nat
      BY <1>0, RequestSets
    <3>3. Cardinality(Adding') <= MaxInFlight
      BY <3>2 DEF InFlightBounded
    <3> QED
      BY <1>1, <3>1, <3>2, <3>3 DEF CountBounded
  <2>2. CASE ~HasRoom
    BY <1>2, <1>4, <2>2 DEF Count, Adding
  <2> QED
    BY <2>1, <2>2
<1>5. ASSUME NEW r \in Requests, Add(r)
      PROVE  CountBounded'
  <2>1. zset' = zset \cup {r} /\ Adding' = Adding \ {r} /\ r \in Adding
    BY <1>5 DEF Add, Adding
  <2>2. /\ Cardinality(zset') \in Nat
        /\ Cardinality(zset') <= Cardinality(zset) + 1
    <3>1. Cardinality(zset \cup {r}) = IF r \in zset THEN Cardinality(zset)
                                      ELSE Cardinality(zset) + 1
      BY <1>1, FS_AddElement, Zenon
    <3> QED
      BY <1>1, <2>1, <3>1
  <2>3. Cardinality(Adding') = Cardinality(Adding) - 1
    BY <1>1, <2>1, FS_RemoveElement
  <2> QED
    BY <1>1, <2>2, <2>3 DEF CountBounded
<1>6. CASE KeyExpires \/ Tick \/ UNCHANGED vars
  BY <1>2, <1>6 DEF KeyExpires, Tick, vars, Adding
<1> QED
  BY <1>3, <1>4, <1>5, <1>6 DEF Next

\* The invariant holds in every reachable state.
LEMMA InductiveCountInv == Spec => []CountInv
<1>1. CountInv /\ [Next]_vars => CountInv'
  BY NextTypeOK, NextOnTime, NextInFlightBounded, NextCountBounded
  DEF CountInv
<1> QED
  BY <1>1, InitCountInv, PTL DEF Spec

\* The limiter's state always has its type.
THEOREM LimiterTypeOK == Spec => []TypeOK
<1>1. CountInv => TypeOK
  BY DEF CountInv
<1> QED
  BY <1>1, InductiveCountInv, PTL

\* The set never holds more members than the limit plus the requests that
\* raced with the last one to be counted.
THEOREM LimiterCountBounded == Spec => []CountBounded
<1>1. CountInv => CountBounded
  BY DEF CountInv
<1> QED
  BY <1>1, InductiveCountInv, PTL

-----------------------------------------------------------------------------
(***************************************************************************)
(* What the TTL may forget                                                 *)
(***************************************************************************)

\* From its ZREMRANGEBYSCORE to its ZADD, a request sees no member that was
\* out of its window: the old ones are gone, and those added since belong to
\* requests in flight with it, which are at most a RequestTimeout older.
SeesOnlyItsWindow ==
  \A r \in Requests :
    pc[r] \in {"count", "add"} => \A q \in zset : now[q] > now[r] - Window

\* The TTL runs from after the last request whose EXPIRE was done.
AdmittedOutlived ==
  \A q \in zset :
    pc[q] = "admitted" /\ expiry # NoExpiry => expiry >= now[q] + ExpirySecs

\* While requests are between ZADD and EXPIRE, the key does not expire before
\* one of them, at least, has come to its EXPIRE.
PendingOutlived ==
  (\E q \in Requests : pc[q] = "expire") /\ expiry # NoExpiry =>
    \E q \in Requests : pc[q] = "expire" /\ expiry > now[q] + RequestTimeout

\* Membership alone would not be inductive: that the key does not expire too
\* soon must be known before it does.
TtlInv ==
  NobodyStranded => NothingForgotten /\ AdmittedOutlived /\ PendingOutlived

\* Every step keeps what a request sees within its window.
LEMMA NextSeesOnlyItsWindow ==
  ASSUME RequestTimeout < Window, CountInv, SeesOnlyItsWindow, [Next]_vars
  PROVE  SeesOnlyItsWindow'
<1> USE WindowAssumption DEF CountInv, TypeOK, SeesOnlyItsWindow
<1>1. ASSUME NEW r \in Requests, Start(r) PROVE SeesOnlyItsWindow'
  BY <1>1 DEF Start
<1>2. ASSUME NEW r \in Requests, Trim(r) PROVE SeesOnlyItsWindow'
  BY <1>2 DEF Trim, Stale
<1>3. ASSUME NEW r \in Requests, Count(r) PROVE SeesOnlyItsWindow'
  BY <1>3 DEF Count
<1>4. ASSUME NEW r \in Requests, Add(r) PROVE SeesOnlyItsWindow'
  <2>1. \A q \in Requests : now[r] > now[q] - Window
    BY <1>4 DEF Add, OnTime, InFlight, InFlightSteps
  <2> QED
    BY <1>4, <2>1 DEF Add
<1>5. ASSUME NEW r \in Requests, Expire(r) \/ Drop(r)
      PROVE  SeesOnlyItsWindow'
  BY <1>5 DEF Expire, Drop
<1>6. CASE KeyExpires \/ Tick \/ UNCHANGED vars
  BY <1>6 DEF KeyExpires, Tick, vars
<1> QED
  BY <1>1, <1>2, <1>3, <1>4, <1>5, <1>6 DEF Next

\* Every step keeps the TTL ahead of the window.
LEMMA NextTtlInv ==
  ASSUME ExpiryOutlivesWindow, CountInv, SeesOnlyItsWindow, TtlInv,
         [Next]_vars
  PROVE  TtlInv'
<1> SUFFICES ASSUME NobodyStranded'
             PROVE  (NothingForgotten /\ AdmittedOutlived /\ PendingOutlived)'
  BY DEF TtlInv
<1> USE WindowAssumption DEF CountInv, TypeOK
<1> DEFINE Good == NothingForgotten /\ AdmittedOutlived /\ PendingOutlived
<1>0. NobodyStranded /\ Good
  BY DEF TtlInv, NobodyStranded, Next, Start, Trim, Count, Add, Expire, Drop,
         KeyExpires, Tick, vars, InFlightSteps
<1>0a. ExpirySecs \in Nat /\ ExpirySecs >= Window + RequestTimeout
  BY DEF ExpirySecs, ExpiryOutlivesWindow
<1>1. ASSUME NEW r \in Requests, Start(r) PROVE Good'
  BY <1>0, <1>1 DEF Start, NothingForgotten, RecentlyAdmitted, Recent,
     AdmittedOutlived, PendingOutlived
<1>2. ASSUME NEW r \in Requests, Trim(r) PROVE Good'
  <2>1. NothingForgotten'
    BY <1>0, <1>2 DEF Trim, Stale, NothingForgotten, RecentlyAdmitted, Recent,
       OnTime
  <2>2. (AdmittedOutlived /\ PendingOutlived)'
    BY <1>0, <1>2 DEF Trim, AdmittedOutlived, PendingOutlived
  <2> QED
    BY <2>1, <2>2
<1>3. ASSUME NEW r \in Requests, Count(r) PROVE Good'
  BY <1>0, <1>3 DEF Count, NothingForgotten, RecentlyAdmitted, Recent,
     AdmittedOutlived, PendingOutlived
<1>4. ASSUME NEW r \in Requests, Add(r) PROVE Good'
  <2>1. (NothingForgotten /\ AdmittedOutlived)'
    BY <1>0, <1>4 DEF Add, NothingForgotten, RecentlyAdmitted, Recent,
       AdmittedOutlived
  <2>2. PendingOutlived'
    <3>1. CASE \E q \in Requests : pc[q] = "expire"
      BY <1>0, <1>4, <3>1 DEF Add, PendingOutlived
    <3>2. CASE (\A q \in Requests : pc[q] # "expire") /\ expiry # NoExpiry
      <4>1. PICK q \in zset : TRUE
        BY <3>2
      <4>2. pc[q] = "admitted"
        BY <1>0, <3>2, <4>1 DEF NobodyStranded
      <4>3. expiry >= now[q] + ExpirySecs /\ now[q] > now[r] - Window
        BY <1>0, <1>4, <3>2, <4>1, <4>2 DEF AdmittedOutlived, Add,
           SeesOnlyItsWindow
      <4>4. expiry > now[r] + RequestTimeout
        <5>1. now[q] \in Nat /\ now[r] \in Nat /\ expiry \in Nat
          BY <3>2, <4>1
        <5> QED
          BY <1>0a, <4>3, <5>1
      <4> QED
        BY <1>4, <4>4 DEF Add, PendingOutlived
    <3>3. CASE expiry = NoExpiry
      BY <1>4, <3>3 DEF Add, PendingOutlived
    <3> QED
      BY <3>1, <3>2, <3>3
  <2> QED
    BY <2>1, <2>2
<1>5. ASSUME NEW r \in Requests, Expire(r) PROVE Good'
  <2>1. NothingForgotten'
    BY <1>0, <1>5 DEF Expire, NothingForgotten, RecentlyAdmitted, Recent
  <2>2. expiry' # NoExpiry => expiry' = clock + ExpirySecs
    BY <1>5 DEF Expire, NewExpiry
  <2>3. \A q \in Requests : /\ now'[q] = now[q]
                            /\ now[q] \in Nat
                            /\ now[q] <= clock
    BY <1>5 DEF Expire, OnTime
  <2>4. AdmittedOutlived'
    BY <1>0a, <2>2, <2>3, <1>5 DEF Expire, AdmittedOutlived
  <2>5. PendingOutlived'
    BY <1>0a, <2>2, <2>3, <1>5 DEF Expire, PendingOutlived
  <2> QED
    BY <2>1, <2>4, <2>5
<1>6. ASSUME NEW r \in Requests, Drop(r) PROVE Good'
  <2>1. pc[r] # "expire" /\ pc' = [pc EXCEPT ![r] = "dropped"]
    BY <1>6 DEF Drop, NobodyStranded
  <2> QED
    BY <1>0, <1>6, <2>1 DEF Drop, NothingForgotten, RecentlyAdmitted, Recent,
       AdmittedOutlived, PendingOutlived
<1>7. CASE KeyExpires
  <2>1. \A r \in Requests : pc[r] # "expire"
    BY <1>0, <1>7 DEF KeyExpires, PendingOutlived, OnTime, InFlight,
       InFlightSteps
  <2>2. RecentlyAdmitted = {}
    <3> SUFFICES ASSUME NEW r \in RecentlyAdmitted PROVE FALSE
      OBVIOUS
    <3>1. r \in zset /\ pc[r] = "admitted" /\ now[r] > clock - Window
      BY <1>0, <2>1 DEF NothingForgotten, RecentlyAdmitted, Recent
    <3>2. clock >= now[r] + ExpirySecs
      BY <1>0, <1>0a, <1>7, <3>1 DEF AdmittedOutlived, KeyExpires
    <3> QED
      BY <1>0a, <3>1, <3>2
  <2>3. RecentlyAdmitted' = RecentlyAdmitted
    BY <1>7 DEF KeyExpires, RecentlyAdmitted, Recent
  <2> QED
    BY <1>7, <2>2, <2>3 DEF KeyExpires, NothingForgotten, AdmittedOutlived,
       PendingOutlived
<1>8. CASE Tick
  BY <1>0, <1>8 DEF Tick, NothingForgotten, RecentlyAdmitted, Recent,
     AdmittedOutlived, PendingOutlived
<1>9. CASE UNCHANGED vars
  BY <1>0, <1>9 DEF vars, NothingForgotten, RecentlyAdmitted, Recent,
     NobodyStranded, AdmittedOutlived, PendingOutlived
<1> QED
  BY <1>1, <1>2, <1>3, <1>4, <1>5, <1>6, <1>7, <1>8, <1>9 DEF Next

\* Both invariants hold in every reachable state.
LEMMA InductiveTtlInv ==
  ASSUME RequestTimeout < Window, ExpiryOutlivesWindow
  PROVE  Spec => [](CountInv /\ SeesOnlyItsWindow /\ TtlInv)
<1>1. Init => SeesOnlyItsWindow /\ TtlInv
  BY DEF Init, SeesOnlyItsWindow, TtlInv, NothingForgotten, RecentlyAdmitted,
     AdmittedOutlived, PendingOutlived
<1>2. CountInv /\ SeesOnlyItsWindow /\ TtlInv /\ [Next]_vars
        => SeesOnlyItsWindow' /\ TtlInv'
  BY NextSeesOnlyItsWindow, NextTtlInv
<1> QED
  BY <1>1, <1>2, InductiveCountInv, PTL DEF Spec

\* A TTL that outlives the window by a request's timeout never makes the
\* limiter forget a request of the window.
THEOREM LimiterForgetsNothing ==
  ASSUME RequestTimeout < Window, ExpiryOutlivesWindow
  PROVE  Spec => []NothingForgotten
<1>1. TtlInv => NothingForgotten
  BY DEF TtlInv, NothingForgotten
<1> QED
  BY <1>1, InductiveTtlInv, PTL

\* Then no window has more admissions than the limit and the races allow; with
\* one request at a time, no more than the limit.
THEOREM LimiterAdmissionsBounded ==
  ASSUME RequestTimeout < Window, ExpiryOutlivesWindow
  PROVE  Spec => []AdmissionsBounded
<1>1. CountInv /\ TtlInv => AdmissionsBounded
  <2> SUFFICES ASSUME CountInv, TtlInv, NobodyStranded
               PROVE  Cardinality(RecentlyAdmitted)
                        <= MaxRequests + MaxInFlight - 1
    BY DEF AdmissionsBounded
  <2>1. RecentlyAdmitted \in SUBSET zset /\ zset \in SUBSET Requests
    BY DEF TtlInv, NothingForgotten, CountInv, TypeOK
  <2>2. /\ Cardinality(RecentlyAdmitted) \in Nat
        /\ Cardinality(zset) \in Nat
        /\ Cardinality(RecentlyAdmitted) <= Cardinality(zset)
    BY <2>1, RequestSets
  <2>3. Cardinality(Adding) \in Nat
    BY RequestSets DEF Adding
  <2> QED
    BY <2>2, <2>3, WindowAssumption DEF CountInv, CountBounded
<1> QED
  BY <1>1, InductiveTtlInv, PTL

\* A request is refused only when the window really holds the limit.
THEOREM LimiterRefusesOnlyWhenFull ==
  ASSUME RequestTimeout < Window
  PROVE  Spec => RefusedOnlyWhenFull
<1> DEFINE Counted(r) == {q \in Requests :
                            /\ pc[q] \in {"expire", "admitted", "stranded"}
                            /\ now[q] > now[r] - Window}
           Full == \A r \in Requests :
                     pc[r] = "count" /\ pc'[r] = "denied"
                       => Cardinality(Counted(r)) >= MaxRequests
<1>1. Init => SeesOnlyItsWindow
  BY DEF Init, SeesOnlyItsWindow
<1>2. CountInv /\ SeesOnlyItsWindow /\ [Next]_vars => SeesOnlyItsWindow'
  BY NextSeesOnlyItsWindow
<1>3. CountInv /\ SeesOnlyItsWindow /\ [Next]_vars => [Full]_vars
  <2> SUFFICES ASSUME CountInv, SeesOnlyItsWindow, Next,
                      NEW r \in Requests, pc[r] = "count", pc'[r] = "denied"
               PROVE  Cardinality(Counted(r)) >= MaxRequests
    BY Zenon DEF vars
  <2>1. ~HasRoom
    BY DEF Next, Start, Trim, Count, Add, Expire, Drop, KeyExpires, Tick,
       CountInv, TypeOK
  <2>2. zset \in SUBSET Counted(r)
    BY DEF CountInv, TypeOK, SeesOnlyItsWindow
  <2>3. Counted(r) \in SUBSET Requests
    OBVIOUS
  <2>4. /\ Cardinality(Counted(r)) \in Nat
        /\ Cardinality(zset) \in Nat
        /\ Cardinality(zset) <= Cardinality(Counted(r))
    BY <2>2, <2>3, RequestSets, Zenon
  <2> QED
    BY <2>1, <2>4, WindowAssumption DEF HasRoom
<1> QED
  BY <1>1, <1>2, <1>3, InductiveCountInv, PTL DEF Spec, RefusedOnlyWhenFull

=============================================================================
