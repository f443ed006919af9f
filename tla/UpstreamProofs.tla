------------------------ MODULE UpstreamProofs ------------------------
(***************************************************************************)
(* Proofs about the two things that stand between try_target_pool and an   *)
(* upstream: the circuit of a backend (module CircuitBreaker), for every   *)
(* set of backends, threshold, timeout and number of half-open calls; and  *)
(* the keys a provider is called with (module TargetKeys),                 *)
(* for every list of keys, number of retries and number of calls.          *)
(***************************************************************************)
EXTENDS CircuitBreaker, TargetKeys, TLAPS


-----------------------------------------------------------------------------
(***************************************************************************)
(* What the methods of BackendCircuit return, as whole records             *)
(***************************************************************************)

\* What record_success makes of a circuit, one field at a time.
LEMMA SuccessCases ==
  ASSUME NEW c \in Circuit
  PROVE  /\ c.state = "Closed" => OnSuccess(c) = [c EXCEPT !.failures = 0]
         /\ c.state = "Open" => OnSuccess(c) = c
         /\ c.state = "HalfOpen" /\ c.success_count + 1 < HalfOpenMaxCalls
              => OnSuccess(c) = [c EXCEPT !.success_count = @ + 1]
         /\ c.state = "HalfOpen" /\ ~(c.success_count + 1 < HalfOpenMaxCalls)
              => OnSuccess(c) = [state |-> "Closed", failures |-> 0,
                                 success_count |-> 0,
                                 last_failure |-> c.last_failure]
<1>1. c.state = "Closed" => OnSuccess(c) = [c EXCEPT !.failures = 0]
  BY DEF OnSuccess
<1>2. c.state = "Open" => OnSuccess(c) = c
  BY DEF OnSuccess
<1>3. c.state = "HalfOpen" /\ c.success_count + 1 < HalfOpenMaxCalls
        => OnSuccess(c) = [c EXCEPT !.success_count = @ + 1]
  BY BreakerAssumption DEF OnSuccess, ProbeSucceeded, Circuit, CircuitState
<1>4. ASSUME c.state = "HalfOpen", ~(c.success_count + 1 < HalfOpenMaxCalls)
      PROVE  OnSuccess(c) = [state |-> "Closed", failures |-> 0,
                             success_count |-> 0,
                             last_failure |-> c.last_failure]
  <2>1. c.success_count + 1 >= HalfOpenMaxCalls
    BY <1>4, BreakerAssumption DEF Circuit
  <2>2. OnSuccess(c) = [c EXCEPT !.state = "Closed", !.failures = 0,
                                 !.success_count = 0]
    BY <1>4, <2>1, Zenon DEF OnSuccess, ProbeSucceeded
  <2> QED
    BY <2>2, Zenon DEF Circuit
<1> QED
  BY <1>1, <1>2, <1>3, <1>4

\* What record_failure makes of a circuit, one field at a time.
LEMMA FailureCases ==
  ASSUME NEW c \in Circuit
  PROVE  /\ c.state = "Closed"
              => OnFailure(c) =
                   [state |-> IF c.failures + 1 >= Threshold THEN "Open"
                                                             ELSE "Closed",
                    failures |-> c.failures + 1,
                    success_count |-> c.success_count,
                    last_failure |-> 0]
         /\ c.state = "Open" => OnFailure(c) = [c EXCEPT !.last_failure = 0]
         /\ c.state = "HalfOpen"
              => OnFailure(c) = [state |-> "Open", failures |-> c.failures,
                                 success_count |-> 0, last_failure |-> 0]
<1>1. ASSUME c.state = "Closed"
      PROVE  OnFailure(c) =
               [state |-> IF c.failures + 1 >= Threshold THEN "Open"
                                                         ELSE "Closed",
                failures |-> c.failures + 1,
                success_count |-> c.success_count,
                last_failure |-> 0]
  <2>1. OnFailure(c) =
          [c EXCEPT !.failures = @ + 1,
                    !.last_failure = 0,
                    !.state = IF c.failures + 1 >= Threshold THEN "Open" ELSE @]
    BY <1>1, Zenon DEF OnFailure
  <2> QED
    BY <1>1, <2>1, Zenon DEF Circuit
<1>2. c.state = "Open" => OnFailure(c) = [c EXCEPT !.last_failure = 0]
  BY DEF OnFailure
<1>3. ASSUME c.state = "HalfOpen"
      PROVE  OnFailure(c) = [state |-> "Open", failures |-> c.failures,
                             success_count |-> 0, last_failure |-> 0]
  <2>1. OnFailure(c) = [c EXCEPT !.state = "Open", !.last_failure = 0,
                                 !.success_count = 0]
    BY <1>3, Zenon DEF OnFailure
  <2> QED
    BY <2>1, Zenon DEF Circuit
<1> QED
  BY <1>1, <1>2, <1>3

\* No method of BackendCircuit leaves the type of a circuit.
LEMMA CircuitType ==
  ASSUME NEW c \in Circuit
  PROVE  /\ OnSuccess(c) \in Circuit
         /\ OnFailure(c) \in Circuit
         /\ TransitionIfNeeded(c) \in Circuit
         /\ Older(c) \in Circuit
<1>1. OnSuccess(c) \in Circuit
  BY SuccessCases DEF Circuit, CircuitState
<1>2. OnFailure(c) \in Circuit
  BY FailureCases, BreakerAssumption DEF Circuit, CircuitState
<1>3. TransitionIfNeeded(c) \in Circuit
  BY DEF TransitionIfNeeded, Circuit, CircuitState
<1>4. Older(c) \in Circuit
  BY BreakerAssumption DEF Older, Circuit, CircuitState, NoFailure
<1> QED
  BY <1>1, <1>2, <1>3, <1>4

-----------------------------------------------------------------------------
(***************************************************************************)
(* The inductive invariant                                                 *)
(***************************************************************************)

\* The invariant the proofs go by.  Its conjuncts are all needed together:
\* ClosedCountsTheRun bounds the counter that decides the Closed -> Open step,
\* and only OpenCanRecover lets an open circuit's quiet time be read off it.
IInv ==
  /\ BreakerTypes
  /\ OpenCanRecover
  /\ ClosedCountsTheRun
  /\ HalfOpenCountsOnlyCleanSuccesses

\* The breaker starts in the invariant.
LEMMA InitIInv == BreakerInit => IInv
  BY BreakerAssumption
  DEF BreakerInit, IInv, BreakerTypes, OpenCanRecover, ClosedCountsTheRun,
      HalfOpenCountsOnlyCleanSuccesses, NewCircuit, Circuit, CircuitState,
      NoFailure

\* Every step of the breaker preserves the invariant.
LEMMA NextIInv == IInv /\ [BreakerNext]_breakerVars => IInv'
<1> SUFFICES ASSUME IInv, [BreakerNext]_breakerVars
             PROVE  IInv'
  OBVIOUS
<1> USE BreakerAssumption
<1>1. ASSUME NEW b \in Backends, RecordSuccess(b)
      PROVE  IInv'
  <2>1. BreakerTypes'
    <3>1. circuits' \in [Backends -> Circuit]
      BY <1>1, CircuitType DEF IInv, BreakerTypes, RecordSuccess
    <3>2. failRun' \in [Backends -> 0 .. Threshold]
      BY <1>1 DEF IInv, BreakerTypes, RecordSuccess
    <3>3. okRun' \in [Backends -> 0 .. HalfOpenMaxCalls]
      BY <1>1 DEF IInv, BreakerTypes, RecordSuccess, UpTo
    <3> QED
      BY <3>1, <3>2, <3>3 DEF BreakerTypes
  <2>2. OpenCanRecover'
    BY <1>1, SuccessCases DEF IInv, BreakerTypes, OpenCanRecover, RecordSuccess,
                Circuit, CircuitState
  <2>3. ClosedCountsTheRun'
    BY <1>1, SuccessCases DEF IInv, BreakerTypes, ClosedCountsTheRun, RecordSuccess,
                Circuit, CircuitState
  <2>4. HalfOpenCountsOnlyCleanSuccesses'
    BY <1>1, SuccessCases DEF IInv, BreakerTypes, HalfOpenCountsOnlyCleanSuccesses, RecordSuccess,
                UpTo, Circuit, CircuitState
  <2> QED
    BY <2>1, <2>2, <2>3, <2>4 DEF IInv
<1>2. ASSUME NEW b \in Backends, RecordFailure(b)
      PROVE  IInv'
  <2>1. BreakerTypes'
    <3>1. circuits' \in [Backends -> Circuit]
      BY <1>2, CircuitType DEF IInv, BreakerTypes, RecordFailure
    <3>2. failRun' \in [Backends -> 0 .. Threshold]
      BY <1>2 DEF IInv, BreakerTypes, RecordFailure, UpTo
    <3>3. okRun' \in [Backends -> 0 .. HalfOpenMaxCalls]
      BY <1>2 DEF IInv, BreakerTypes, RecordFailure
    <3> QED
      BY <3>1, <3>2, <3>3 DEF BreakerTypes
  <2>2. OpenCanRecover'
    BY <1>2, FailureCases DEF IInv, BreakerTypes, OpenCanRecover, RecordFailure,
                Circuit, CircuitState, NoFailure
  <2>3. ClosedCountsTheRun'
    BY <1>2, FailureCases DEF IInv, BreakerTypes, ClosedCountsTheRun, RecordFailure,
                UpTo, Circuit, CircuitState
  <2>4. HalfOpenCountsOnlyCleanSuccesses'
    BY <1>2, FailureCases DEF IInv, BreakerTypes, HalfOpenCountsOnlyCleanSuccesses, RecordFailure,
                Circuit, CircuitState
  <2> QED
    BY <2>1, <2>2, <2>3, <2>4 DEF IInv
<1>3. ASSUME NEW b \in Backends, IsBackendHealthy(b)
      PROVE  IInv'
  <2>1. BreakerTypes'
    BY <1>3, CircuitType DEF IInv, BreakerTypes, IsBackendHealthy, history
  <2>2. OpenCanRecover'
    BY <1>3 DEF IInv, BreakerTypes, OpenCanRecover, IsBackendHealthy, history,
                TransitionIfNeeded, Circuit, CircuitState
  <2>3. ClosedCountsTheRun'
    BY <1>3 DEF IInv, BreakerTypes, ClosedCountsTheRun, IsBackendHealthy, history,
                TransitionIfNeeded, Circuit, CircuitState
  <2>4. HalfOpenCountsOnlyCleanSuccesses'
    BY <1>3 DEF IInv, BreakerTypes, HalfOpenCountsOnlyCleanSuccesses,
                IsBackendHealthy, history, TransitionIfNeeded, Circuit,
                CircuitState
  <2> QED
    BY <2>1, <2>2, <2>3, <2>4 DEF IInv
<1>4. CASE Tick
  <2>1. BreakerTypes'
    BY <1>4, CircuitType DEF IInv, BreakerTypes, Tick, history
  <2>2. \A b \in Backends :
          /\ circuits'[b].state = circuits[b].state
          /\ circuits'[b].failures = circuits[b].failures
          /\ circuits'[b].success_count = circuits[b].success_count
          /\ circuits[b].last_failure # NoFailure
               => circuits'[b].last_failure # NoFailure
    BY <1>4 DEF IInv, BreakerTypes, Tick, Older, Circuit, NoFailure
  <2> QED
    BY <1>4, <2>1, <2>2 DEF IInv, OpenCanRecover, ClosedCountsTheRun,
       HalfOpenCountsOnlyCleanSuccesses, Tick, history
<1>5. CASE UNCHANGED breakerVars
  BY <1>5 DEF IInv, BreakerTypes, OpenCanRecover, ClosedCountsTheRun,
              HalfOpenCountsOnlyCleanSuccesses, breakerVars
<1> QED
  BY <1>1, <1>2, <1>3, <1>4, <1>5 DEF BreakerNext

\* The invariant holds in every reachable state.
LEMMA InductiveInvariant == BreakerSpec => []IInv
  BY InitIInv, NextIInv, PTL DEF BreakerSpec

\* Every circuit always has its type.
THEOREM BreakerTypeOK == BreakerSpec => []BreakerTypes
<1>1. IInv => BreakerTypes
  BY DEF IInv
<1> QED
  BY <1>1, InductiveInvariant, PTL

\* An open circuit can always recover: it never lacks the time of its last
\* failure.
THEOREM BreakerOpenCanRecover == BreakerSpec => []OpenCanRecover
<1>1. IInv => OpenCanRecover
  BY DEF IInv
<1> QED
  BY <1>1, InductiveInvariant, PTL

\* A closed circuit's counter is the run of failures since the last success,
\* and below the threshold.
THEOREM BreakerClosedCountsTheRun == BreakerSpec => []ClosedCountsTheRun
<1>1. IInv => ClosedCountsTheRun
  BY DEF IInv
<1> QED
  BY <1>1, InductiveInvariant, PTL

\* A half-open circuit counts no success from before the last failure.
THEOREM BreakerHalfOpenIsClean == BreakerSpec => []HalfOpenCountsOnlyCleanSuccesses
<1>1. IInv => HalfOpenCountsOnlyCleanSuccesses
  BY DEF IInv
<1> QED
  BY <1>1, InductiveInvariant, PTL

-----------------------------------------------------------------------------
(***************************************************************************)
(* State changes and the contract                                          *)
(***************************************************************************)

\* The circuit changes state only for the reasons TransitionsAreEarned names.
THEOREM BreakerTransitionsAreEarned == BreakerSpec => TransitionsAreEarned
<1> DEFINE Earned ==
      \A b \in Backends :
        LET from == circuits[b].state
            to == circuits'[b].state
        IN  from # to =>
              \/ from = "Closed" /\ to = "Open" /\ failRun'[b] = Threshold
              \/ from = "HalfOpen" /\ to = "Open" /\ failRun'[b] > 0
              \/ from = "Open" /\ to = "HalfOpen"
                   /\ TimeoutElapsed(circuits[b])
              \/ from = "HalfOpen" /\ to = "Closed"
                   /\ okRun'[b] = HalfOpenMaxCalls
<1>1. ASSUME IInv, [BreakerNext]_breakerVars
      PROVE  [Earned]_breakerVars
  <2> USE <1>1, BreakerAssumption
  <2>1. ASSUME NEW b \in Backends, RecordSuccess(b)
        PROVE  Earned
    BY <2>1, SuccessCases
    DEF IInv, BreakerTypes, HalfOpenCountsOnlyCleanSuccesses, RecordSuccess, UpTo,
        Circuit, CircuitState
  <2>2. ASSUME NEW b \in Backends, RecordFailure(b)
        PROVE  Earned
    BY <2>2, FailureCases
    DEF IInv, BreakerTypes, ClosedCountsTheRun, RecordFailure, UpTo, Circuit,
        CircuitState
  <2>3. ASSUME NEW b \in Backends, IsBackendHealthy(b)
        PROVE  Earned
    BY <2>3 DEF IInv, BreakerTypes, IsBackendHealthy, TransitionIfNeeded, Circuit
  <2>4. CASE Tick
    BY <2>4 DEF IInv, BreakerTypes, Tick, Older, Circuit
  <2>5. CASE UNCHANGED breakerVars
    BY <2>5
  <2> QED
    BY <2>1, <2>2, <2>3, <2>4, <2>5 DEF BreakerNext
<1> QED
  BY <1>1, InductiveInvariant, PTL DEF BreakerSpec, TransitionsAreEarned

\* The breaker implements its contract with the router.
THEOREM BreakerImplementsContract == BreakerSpec => ImplementsContract
<1>1. BreakerInit => Contract!Init
  BY BreakerAssumption
  DEF BreakerInit, Contract!Init, blockedBackends, quietTimes, QuietTime, NewCircuit
<1>2. IInv /\ [BreakerNext]_breakerVars => [Contract!Next]_(Contract!vars)
  <2> SUFFICES ASSUME IInv, [BreakerNext]_breakerVars
               PROVE  Contract!Next \/ UNCHANGED Contract!vars
    OBVIOUS
  <2> USE BreakerAssumption
  <2>1. ASSUME NEW b \in Backends, RecordSuccess(b)
        PROVE  UNCHANGED Contract!vars
    <3>1. \A a \in Backends : /\ (circuits'[a].state = "Open")
                                   = (circuits[a].state = "Open")
                              /\ circuits'[a].last_failure
                                   = circuits[a].last_failure
      <4>1. \A a \in Backends \ {b} : circuits'[a] = circuits[a]
        BY <2>1 DEF IInv, BreakerTypes, RecordSuccess
      <4>2. circuits[b] \in Circuit /\ circuits'[b] = OnSuccess(circuits[b])
        BY <2>1 DEF IInv, BreakerTypes, RecordSuccess
      <4>3. /\ (circuits'[b].state = "Open") = (circuits[b].state = "Open")
            /\ circuits'[b].last_failure = circuits[b].last_failure
        BY <4>2, SuccessCases DEF Circuit, CircuitState
      <4> QED
        BY <4>1, <4>3
    <3> QED
      BY <3>1 DEF Contract!vars, blockedBackends, quietTimes, QuietTime
  <2>2. ASSUME NEW b \in Backends, RecordFailure(b)
        PROVE  Contract!Failure(b)
    <3>1. /\ circuits'[b].last_failure = 0
          /\ circuits[b].state = "Open" => circuits'[b].state = "Open"
          /\ \A a \in Backends \ {b} : circuits'[a] = circuits[a]
      BY <2>2, FailureCases DEF IInv, BreakerTypes, RecordFailure, Circuit,
                                CircuitState
    <3>2. quietTimes' = [quietTimes EXCEPT ![b] = 0]
      <4>1. QuietTime(circuits'[b]) = 0
        BY <3>1 DEF QuietTime, NoFailure
      <4>2. \A a \in Backends \ {b} :
              QuietTime(circuits'[a]) = QuietTime(circuits[a])
        BY <3>1
      <4> QED
        BY <4>1, <4>2 DEF quietTimes
    <3>3. blockedBackends' \in {blockedBackends, blockedBackends \cup {b}}
      BY <3>1 DEF blockedBackends
    <3> QED
      BY <3>2, <3>3 DEF Contract!Failure
  <2>3. ASSUME NEW b \in Backends, IsBackendHealthy(b)
        PROVE  Contract!Readmit(b) \/ UNCHANGED Contract!vars
    <3>1. quietTimes' = quietTimes
      BY <2>3 DEF IInv, BreakerTypes, IsBackendHealthy, TransitionIfNeeded,
                  quietTimes, QuietTime, Circuit
    <3>2. CASE circuits[b].state = "Open" /\ TimeoutElapsed(circuits[b])
      <4>1. /\ circuits'[b].state = "HalfOpen"
            /\ \A a \in Backends \ {b} : circuits'[a] = circuits[a]
        BY <2>3, <3>2 DEF IInv, BreakerTypes, IsBackendHealthy, TransitionIfNeeded,
                          Circuit
      <4>2. blockedBackends' = blockedBackends \ {b} /\ b \in blockedBackends
        BY <4>1, <3>2 DEF blockedBackends
      <4>3. quietTimes[b] = Timeout
        <5>1. circuits[b].last_failure \in 0 .. Timeout
          BY <3>2 DEF IInv, BreakerTypes, TimeoutElapsed, Circuit
        <5>2. circuits[b].last_failure = Timeout
          BY <5>1, <3>2 DEF TimeoutElapsed
        <5> QED
          BY <5>2 DEF quietTimes, QuietTime
      <4> QED
        BY <3>1, <4>2, <4>3 DEF Contract!Readmit
    <3>3. CASE ~(circuits[b].state = "Open" /\ TimeoutElapsed(circuits[b]))
      BY <2>3, <3>3 DEF IInv, BreakerTypes, IsBackendHealthy, TransitionIfNeeded,
                        Contract!vars, blockedBackends, quietTimes
    <3> QED
      BY <3>2, <3>3
  <2>4. CASE Tick
    <3>1. \A b \in Backends : circuits'[b].state = circuits[b].state
      BY <2>4 DEF IInv, BreakerTypes, Tick, Older, Circuit
    <3>2. \A b \in Backends :
            QuietTime(circuits'[b]) =
              IF QuietTime(circuits[b]) < Timeout
              THEN QuietTime(circuits[b]) + 1 ELSE QuietTime(circuits[b])
      BY <2>4 DEF IInv, BreakerTypes, Tick, Older, QuietTime, Circuit, NoFailure
    <3>3. quietTimes' = [b \in Backends |->
                           IF quietTimes[b] < Timeout
                           THEN quietTimes[b] + 1 ELSE quietTimes[b]]
      BY <3>2 DEF quietTimes
    <3>4. UNCHANGED blockedBackends
      BY <3>1 DEF blockedBackends
    <3> QED
      BY <3>3, <3>4 DEF Contract!Tick, Contract!Next
  <2>5. CASE UNCHANGED breakerVars
    BY <2>5 DEF breakerVars, Contract!vars, blockedBackends, quietTimes
  <2> QED
    <3>1. CASE \E b \in Backends : RecordSuccess(b)
      BY <3>1, <2>1
    <3>2. CASE \E b \in Backends : RecordFailure(b)
      BY <3>2, <2>2, Zenon DEF Contract!Next
    <3>3. CASE \E b \in Backends : IsBackendHealthy(b)
      BY <3>3, <2>3, Zenon DEF Contract!Next
    <3> QED
      BY <3>1, <3>2, <3>3, <2>4, <2>5, Zenon DEF BreakerNext
<1> QED
  BY <1>1, <1>2, InductiveInvariant, PTL
  DEF BreakerSpec, ImplementsContract, Contract!Spec


-----------------------------------------------------------------------------
(***************************************************************************)
(* TargetKeys: the ring that proxy_request's loop goes round               *)
(***************************************************************************)

\* The turns from any start reach every index.
LEMMA RingReaches ==
  ASSUME NEW n \in Nat \ {0}, NEW s \in 0 .. n - 1, NEW i \in 1 .. n
  PROVE  \E j \in 1 .. n : ((s + (j - 1)) % n) + 1 = i
<1>1. CASE i - 1 >= s
  <2> DEFINE j == i - s
  <2>1. j \in 1 .. n /\ s + (j - 1) = i - 1 /\ i - 1 \in 0 .. n - 1
    BY <1>1
  <2>2. (s + (j - 1)) % n = i - 1
    BY <2>1
  <2> HIDE DEF j
  <2>3. ((s + (j - 1)) % n) + 1 = i
    BY <2>2
  <2> QED
    BY <2>1, <2>3
<1>2. CASE i - 1 < s
  <2> DEFINE j == i - s + n
  <2>1. j \in 1 .. n /\ s + (j - 1) = (i - 1) + n /\ i - 1 \in 0 .. n - 1
    BY <1>2
  <2>2. (s + (j - 1)) % n = i - 1
    BY <2>1, SMT
  <2> HIDE DEF j
  <2>3. ((s + (j - 1)) % n) + 1 = i
    BY <2>2
  <2> QED
    BY <2>1, <2>3
<1> QED
  BY <1>1, <1>2

\* The first turn is that of the start.
LEMMA RingStarts ==
  ASSUME NEW n \in Nat \ {0}, NEW s \in 0 .. n - 1
  PROVE  (s + (1 - 1)) % n = s /\ (s + 0) % n = s
<1>1. s % n = s
  BY SMT
<1>2. s + (1 - 1) = s /\ s + 0 = s
  OBVIOUS
<1> QED
  BY <1>1, <1>2

\* Every turn has an index.
LEMMA RingIndex ==
  ASSUME NEW n \in Nat \ {0}, NEW x \in Nat
  PROVE  (x % n) + 1 \in 1 .. n
  BY SMT

\* The start of the loop, and its key.
LEMMA Starts ==
  ASSUME NEW c \in Calls, own[c] \in Seq(AllKeys), Has(c, preferred[c])
  PROVE  /\ Len(own[c]) \in Nat \ {0}
         /\ StartIndex(c) \in 0 .. Len(own[c]) - 1
         /\ own[c][StartIndex(c) + 1] = preferred[c]
<1>1. PICK i \in DOMAIN own[c] :
        /\ own[c][i] = preferred[c] /\ StartIndex(c) = i - 1
  BY Zenon DEF StartIndex, Has
<1>2. i \in 1 .. Len(own[c]) /\ Len(own[c]) \in Nat
  BY <1>1
<1> QED
  BY <1>1, <1>2

-----------------------------------------------------------------------------
(***************************************************************************)
(* The inductive invariant: what a call's locals hold at each step         *)
(***************************************************************************)

CallTypes ==
  /\ pc \in [Calls -> Steps]
  /\ own \in [Calls -> Seq(AllKeys)]
  /\ preferred \in [Calls -> AllKeys \cup {NoKey}]
  /\ offset \in [Calls -> Nat]
  /\ attempt \in [Calls -> 0 .. MaxRetries]
  /\ tried \in [Calls -> Seq(AllKeys)]
  /\ sends \in [Calls -> Nat]

\* The key of a turn of call c's loop.
Turn(c, j) == own[c][((StartIndex(c) + (j - 1)) % Len(own[c])) + 1]

\* After the choice of a key it is one of the provider's.
Chosen(c) ==
  pc[c] \in {"store", "send", "remember", "exhausted"} => Has(c, preferred[c])

\* Outside of the two loops their counters are back.
Reset(c) ==
  /\ pc[c] \notin {"send", "remember"} => offset[c] = 0 /\ attempt[c] = 0
  /\ pc[c] \notin {"send", "remember", "exhausted"} => tried[c] = <<>> /\ sends[c] = 0
  /\ pc[c] \in {"send", "remember"} => offset[c] < Len(own[c])

\* The keys given up are those of the turns so far ...
TurnsTaken(c) ==
  /\ pc[c] = "send" => Len(tried[c]) = offset[c]
  /\ pc[c] = "exhausted" => Len(tried[c]) = Len(own[c])
  /\ pc[c] \in {"send", "exhausted"} =>
       \A j \in 1 .. Len(tried[c]) : tried[c][j] = Turn(c, j)

\* ... with so many sends for each.
SendsBounded(c) ==
  /\ pc[c] = "send" => sends[c] <= offset[c] * (MaxRetries + 1) + attempt[c]
  /\ pc[c] = "exhausted" => sends[c] <= Len(own[c]) * (MaxRetries + 1)

CallInv(c) == Chosen(c) /\ Reset(c) /\ TurnsTaken(c) /\ SendsBounded(c)
              /\ (pc[c] # "idle" => own[c] # <<>>)

RedisTypes ==
  /\ active \subseteq AllKeys
  /\ mapping \in AllKeys \cup {NoKey}
  /\ counter \in 0 .. CounterCycle - 1

KeysInv ==
  /\ RedisTypes /\ CallTypes
  /\ \A c \in Calls : CallInv(c)

\* The invariant is more than the types ...
LEMMA InvIsTypeOK == KeysInv => TypeOK
<1> SUFFICES ASSUME KeysInv PROVE TypeOK
  OBVIOUS
<1>1. ASSUME NEW c \in Calls
      PROVE  /\ pc[c] \in {"send", "remember"} => Has(c, preferred[c])
             /\ offset[c] # 0 => offset[c] < Len(own[c])
             /\ attempt[c] \in 0 .. MaxRetries
  BY DEF KeysInv, CallInv, Chosen, Reset, CallTypes
<1> QED
  BY <1>1 DEF KeysInv, RedisTypes, CallTypes, TypeOK

\* ... and, when a call is exhausted, its turns are the whole ring.
LEMMA InvExhausted == KeysInv => ExhaustedAfterEveryKey
<1> SUFFICES ASSUME KeysInv, NEW c \in Calls, pc[c] = "exhausted"
             PROVE  /\ sends[c] <= Len(own[c]) * (MaxRetries + 1)
                    /\ Len(tried[c]) = Len(own[c])
                    /\ tried[c][1] = preferred[c]
                    /\ \A k \in AllKeys :
                         Has(c, k) => \E i \in DOMAIN tried[c] : tried[c][i] = k
  BY Zenon DEF ExhaustedAfterEveryKey
<1> DEFINE n == Len(own[c])
<1>1. /\ own[c] \in Seq(AllKeys) /\ tried[c] \in Seq(AllKeys) /\ CallInv(c)
  BY DEF KeysInv, CallTypes
<1>2. /\ Has(c, preferred[c]) /\ Len(tried[c]) = n
      /\ sends[c] <= n * (MaxRetries + 1)
      /\ \A j \in 1 .. Len(tried[c]) : tried[c][j] = Turn(c, j)
  BY <1>1 DEF CallInv, Chosen, TurnsTaken, SendsBounded
<1>3. /\ n \in Nat \ {0} /\ StartIndex(c) \in 0 .. n - 1
      /\ own[c][StartIndex(c) + 1] = preferred[c]
  BY <1>1, <1>2, Starts
<1>4. DOMAIN tried[c] = 1 .. n
  BY <1>1, <1>2
<1>5. tried[c][1] = preferred[c]
  <2>1. (StartIndex(c) + (1 - 1)) % n = StartIndex(c)
    BY <1>3, RingStarts
  <2>2. tried[c][1] = Turn(c, 1)
    BY <1>2, <1>3
  <2>3. Turn(c, 1) = own[c][StartIndex(c) + 1]
    BY <2>1, Zenon DEF Turn
  <2> QED
    BY <1>3, <2>2, <2>3
<1>6. ASSUME NEW k \in AllKeys, Has(c, k)
      PROVE  \E i \in DOMAIN tried[c] : tried[c][i] = k
  <2>1. PICK i \in 1 .. n : own[c][i] = k
    BY <1>1, <1>6 DEF Has
  <2>2. PICK j \in 1 .. n : ((StartIndex(c) + (j - 1)) % n) + 1 = i
    BY <1>3, RingReaches
  <2>3. tried[c][j] = Turn(c, j)
    BY <1>2, <2>2
  <2>4. Turn(c, j) = k
    BY <2>1, <2>2, Zenon DEF Turn
  <2> QED
    BY <1>4, <2>3, <2>4
<1> QED
  BY <1>2, <1>5, <1>6

\* The calls start in the invariant.
LEMMA InitKeysInv == Init => KeysInv
<1> SUFFICES ASSUME Init PROVE KeysInv
  OBVIOUS
<1>1. RedisTypes
  BY KeysAssumption DEF Init, RedisTypes
<1>2. CallTypes
  BY KeysAssumption DEF Init, CallTypes, Steps
<1>3. ASSUME NEW c \in Calls PROVE CallInv(c)
  BY <1>3 DEF Init, CallInv, Chosen, Reset, TurnsTaken, SendsBounded
<1> QED
  BY <1>1, <1>2, <1>3 DEF KeysInv

-----------------------------------------------------------------------------
(***************************************************************************)
(* Steps                                                                   *)
(***************************************************************************)

\* A step of one call leaves the locals of the others alone.
Kept(c) ==
  /\ pc'[c] = pc[c] /\ own'[c] = own[c] /\ preferred'[c] = preferred[c]
  /\ offset'[c] = offset[c] /\ attempt'[c] = attempt[c]
  /\ tried'[c] = tried[c] /\ sends'[c] = sends[c]

OthersKept(c) == \A d \in Calls \ {c} : Kept(d)

\* StartIndex as an operator of constants.
Start(keys, k) ==
  IF \E i \in DOMAIN keys : keys[i] = k
  THEN (CHOOSE i \in DOMAIN keys : keys[i] = k) - 1
  ELSE 0

\* The loop of a call whose list and preferred key stay.
LEMMA SameLoop ==
  ASSUME NEW c \in Calls, own'[c] = own[c], preferred'[c] = preferred[c]
  PROVE  /\ \A k : Has(c, k)' <=> Has(c, k)
         /\ StartIndex(c)' = StartIndex(c)
         /\ \A j : Turn(c, j)' = Turn(c, j)
<1>1. \A k : Has(c, k)' <=> Has(c, k)
  BY Zenon DEF Has
<1>2. StartIndex(c)' = StartIndex(c)
  <2>1. StartIndex(c) = Start(own[c], preferred[c])
    BY DEF StartIndex, Start, Has
  <2>2. StartIndex(c)' = Start(own'[c], preferred'[c])
    BY DEF StartIndex, Start, Has
  <2> QED
    BY <2>1, <2>2
<1>3. \A j : Turn(c, j)' = Turn(c, j)
  BY <1>2, Zenon DEF Turn
<1> QED
  BY <1>1, <1>2, <1>3

\* The invariant of a call that stands still.
LEMMA KeptCall ==
  ASSUME NEW c \in Calls, CallInv(c), Kept(c)
  PROVE  CallInv(c)'
<1>1. /\ \A k : Has(c, k)' <=> Has(c, k)
      /\ \A j : Turn(c, j)' = Turn(c, j)
  BY SameLoop DEF Kept
<1>2. Chosen(c)'
  BY <1>1, Zenon DEF CallInv, Chosen, Kept
<1>3. Reset(c)'
  BY Zenon DEF CallInv, Reset, Kept
<1>4. TurnsTaken(c)'
  BY <1>1, Zenon DEF CallInv, TurnsTaken, Kept
<1>5. SendsBounded(c)'
  BY Zenon DEF CallInv, SendsBounded, Kept
<1>6. pc'[c] # "idle" => own'[c] # <<>>
  BY Zenon DEF CallInv, Kept
<1> QED
  BY <1>2, <1>3, <1>4, <1>5, <1>6, Zenon DEF CallInv

\* What a step of one call has to show.
LEMMA CallStep ==
  ASSUME KeysInv, NEW c \in Calls, RedisTypes', CallTypes', OthersKept(c), CallInv(c)'
  PROVE  KeysInv'
<1>1. ASSUME NEW d \in Calls PROVE CallInv(d)'
  BY KeptCall DEF KeysInv, OthersKept
<1> QED
  BY <1>1 DEF KeysInv

\* Steps outside of the loop, which leave its counters alone.
LEMMA BeforeTheLoop ==
  ASSUME KeysInv, NEW c \in Calls,
         NEW step \in Steps \ {"idle", "exhausted", "remember"},
         pc[c] \in {"lookup", "invalidate", "pick", "store"},
         pc' = [pc EXCEPT ![c] = step],
         NEW k \in AllKeys \cup {NoKey}, preferred' = [preferred EXCEPT ![c] = k],
         step \in {"store", "send"} => Has(c, k),
         UNCHANGED <<own, offset, attempt, tried, sends>>,
         RedisTypes'
  PROVE  KeysInv'
<1>1. CallTypes /\ CallInv(c)
  BY DEF KeysInv
<1>2. CallTypes'
  BY <1>1 DEF CallTypes
<1>3. /\ pc'[c] = step /\ preferred'[c] = k /\ own'[c] = own[c]
      /\ offset'[c] = 0 /\ attempt'[c] = 0 /\ tried'[c] = <<>> /\ sends'[c] = 0
      /\ own[c] # <<>> /\ own[c] \in Seq(AllKeys)
  BY <1>1 DEF CallTypes, CallInv, Reset
<1>4. OthersKept(c)
  BY <1>1 DEF CallTypes, OthersKept, Kept
<1>5. Has(c, k)' <=> Has(c, k)
  BY <1>3, Zenon DEF Has
<1>6. Chosen(c)'
  BY <1>3, <1>5, SMT DEF Chosen
<1>7. Reset(c)'
  BY <1>3 DEF Reset
<1>8. TurnsTaken(c)'
  BY <1>3, SMT DEF TurnsTaken
<1>9. SendsBounded(c)'
  <2>1. 0 * (MaxRetries + 1) + 0 = 0
    BY KeysAssumption
  <2> QED
    BY <1>3, <2>1, SMT DEF SendsBounded
<1>10. CallInv(c)'
  BY <1>3, <1>6, <1>7, <1>8, <1>9 DEF CallInv
<1> QED
  BY <1>2, <1>4, <1>10, CallStep

\* The keys that a reload loads.
LEMMA KeysLoaded ==
  ASSUME RedisTypes, NEW p, NEW keys \in KeysIn(p)
  PROVE  keys \in Seq(AllKeys)
<1>1. keys \in BoundedSeq(active, Len(Keys[p]))
  BY Zenon DEF KeysIn
<1>2. PICK m \in 0 .. Len(Keys[p]) : keys \in [1 .. m -> active]
  BY <1>1, Zenon DEF BoundedSeq, SeqOf
<1>3. m \in Nat /\ active \subseteq AllKeys
  BY <1>2 DEF RedisTypes
<1> QED
  BY <1>2, <1>3

\* A call begins with the keys of its provider.
LEMMA BeginStep ==
  ASSUME KeysInv, NEW c \in Calls, Begin(c)
  PROVE  KeysInv'
<1>1. RedisTypes /\ CallTypes /\ CallInv(c) /\ pc[c] \in {"idle", "exhausted"}
  BY DEF KeysInv, Begin
<1>2. PICK p \in Providers :
        \E keys \in KeysIn(p) : keys # <<>> /\ own' = [own EXCEPT ![c] = keys]
  BY Zenon DEF Begin
<1>3. PICK keys \in Seq(AllKeys) : keys # <<>> /\ own' = [own EXCEPT ![c] = keys]
  BY <1>1, <1>2, KeysLoaded
<1>4. /\ pc' = [pc EXCEPT ![c] = "lookup"]
      /\ preferred' = [preferred EXCEPT ![c] = NoKey]
      /\ tried' = [tried EXCEPT ![c] = <<>>] /\ sends' = [sends EXCEPT ![c] = 0]
      /\ UNCHANGED <<active, redis, offset, attempt>>
  BY Zenon DEF Begin, Goto
<1>5. CallTypes'
  BY <1>1, <1>3, <1>4 DEF CallTypes, Steps
<1>6. /\ pc'[c] = "lookup" /\ own'[c] # <<>> /\ tried'[c] = <<>> /\ sends'[c] = 0
      /\ offset'[c] = 0 /\ attempt'[c] = 0
  BY <1>1, <1>3, <1>4 DEF CallTypes, CallInv, Reset
<1>7. CallInv(c)'
  BY <1>6 DEF CallInv, Chosen, Reset, TurnsTaken, SendsBounded
<1>8. OthersKept(c)
  BY <1>1, <1>3, <1>4 DEF CallTypes, OthersKept, Kept
<1>9. RedisTypes'
  BY <1>1, <1>4 DEF RedisTypes, redis
<1> QED
  BY <1>5, <1>7, <1>8, <1>9, CallStep

\* Keys of a call are keys.
LEMMA HasKeys ==
  ASSUME CallTypes, NEW c \in Calls, NEW k, Has(c, k)
  PROVE  k \in AllKeys
<1>1. own[c] \in Seq(AllKeys)
  BY DEF CallTypes
<1> QED
  BY <1>1 DEF Has

\* resolve_sticky_target_key.
LEMMA StickyStep ==
  ASSUME KeysInv, NEW c \in Calls,
         \/ Lookup(c) \/ LookupFails(c) \/ Invalidate(c)
         \/ Pick(c) \/ Store(c)
  PROVE  KeysInv'
<1>1. RedisTypes /\ CallTypes /\ CallInv(c)
  BY DEF KeysInv
<1>2. /\ preferred = [preferred EXCEPT ![c] = preferred[c]]
      /\ preferred[c] \in AllKeys \cup {NoKey}
      /\ own[c] \in Seq(AllKeys)
  BY <1>1 DEF CallTypes
<1>s. /\ "pick" \in Steps \ {"idle", "exhausted", "remember"}
      /\ "invalidate" \in Steps \ {"idle", "exhausted", "remember"}
      /\ "store" \in Steps \ {"idle", "exhausted", "remember"}
      /\ "send" \in Steps \ {"idle", "exhausted", "remember"}
  BY DEF Steps
<1>3. CASE Lookup(c)
  <2>1. /\ pc[c] = "lookup"
        /\ UNCHANGED <<active, redis, own, offset, attempt, tried, sends>>
    BY <1>3, Zenon DEF Lookup
  <2>2. RedisTypes'
    BY <1>1, <2>1 DEF RedisTypes, redis
  <2>3. \/ \E step \in {"pick", "invalidate"} :
             pc' = [pc EXCEPT ![c] = step] /\ preferred' = preferred
        \/ /\ Has(c, mapping) /\ pc' = [pc EXCEPT ![c] = "send"]
           /\ preferred' = [preferred EXCEPT ![c] = mapping]
    BY <1>3, Zenon DEF Lookup, Goto
  <2>4. CASE \E step \in {"pick", "invalidate"} :
               pc' = [pc EXCEPT ![c] = step] /\ preferred' = preferred
    <3>1. PICK step \in {"pick", "invalidate"} :
            pc' = [pc EXCEPT ![c] = step] /\ preferred' = preferred
      BY <2>4
    <3>2. preferred' = [preferred EXCEPT ![c] = preferred[c]]
      BY <1>2, <3>1
    <3>3. /\ step \in Steps \ {"idle", "exhausted", "remember"}
          /\ step \notin {"store", "send"}
      BY <1>s
    <3> QED
      BY <1>2, <2>1, <2>2, <3>1, <3>2, <3>3, BeforeTheLoop
  <2>5. CASE /\ Has(c, mapping) /\ pc' = [pc EXCEPT ![c] = "send"]
             /\ preferred' = [preferred EXCEPT ![c] = mapping]
    <3>1. mapping \in AllKeys \cup {NoKey}
      BY <1>1 DEF RedisTypes
    <3> QED
      BY <1>s, <2>1, <2>2, <2>5, <3>1, BeforeTheLoop
  <2> QED
    BY <2>3, <2>4, <2>5
<1>4. CASE LookupFails(c) \/ Invalidate(c)
  <2>1. /\ pc[c] \in {"lookup", "invalidate"} /\ pc' = [pc EXCEPT ![c] = "pick"]
        /\ preferred' = preferred /\ mapping' \in {NoKey, mapping}
        /\ UNCHANGED <<active, counter, own, offset, attempt, tried, sends>>
    BY <1>4 DEF LookupFails, Invalidate, Goto, redis
  <2>2. RedisTypes'
    BY <1>1, <2>1 DEF RedisTypes
  <2>3. preferred' = [preferred EXCEPT ![c] = preferred[c]]
    BY <1>2, <2>1
  <2>4. /\ pc[c] \in {"lookup", "invalidate", "pick", "store"}
        /\ "pick" \notin {"store", "send"}
    BY <2>1
  <2>5. UNCHANGED <<own, offset, attempt, tried, sends>>
    BY <2>1
  <2>6. /\ "pick" \in Steps \ {"idle", "exhausted", "remember"}
        /\ pc' = [pc EXCEPT ![c] = "pick"]
    BY <1>s, <2>1
  <2>7. ("pick" \in {"store", "send"}) => Has(c, preferred[c])
    BY <2>4
  <2> HIDE <2>1
  <2> QED
    BY <1>2, <2>2, <2>3, <2>4, <2>5, <2>6, <2>7, BeforeTheLoop
<1>5. CASE Pick(c)
  <2>1. /\ pc[c] = "pick" /\ pc' = [pc EXCEPT ![c] = "store"]
        /\ UNCHANGED <<active, mapping, own, offset, attempt, tried, sends>>
    BY <1>5, Zenon DEF Pick, Goto
  <2>2. Len(own[c]) \in Nat \ {0} /\ counter \in Nat
    BY <1>1, <1>2, <2>1 DEF CallInv, RedisTypes
  <2>3. PICK i \in 1 .. Len(own[c]) :
          preferred' = [preferred EXCEPT ![c] = own[c][i]]
    <3>1. (counter % Len(own[c])) + 1 \in 1 .. Len(own[c])
      BY <2>2, RingIndex
    <3>2. \/ preferred' = [preferred EXCEPT ![c] =
                             own[c][(counter % Len(own[c])) + 1]]
          \/ preferred' = [preferred EXCEPT ![c] = own[c][1]]
      BY <1>5, Zenon DEF Pick
    <3>3. 1 \in 1 .. Len(own[c])
      BY <2>2
    <3> QED
      BY <3>1, <3>2, <3>3, Zenon
  <2>4. Has(c, own[c][i]) /\ own[c][i] \in AllKeys
    BY <1>2 DEF Has
  <2>5. counter' \in 0 .. CounterCycle - 1
    <3>1. (counter + 1) % CounterCycle \in 0 .. CounterCycle - 1
      BY <2>2, KeysAssumption, SMT
    <3>2. counter' \in {counter, (counter + 1) % CounterCycle}
      BY <1>5 DEF Pick
    <3> QED
      BY <1>1, <3>1, <3>2 DEF RedisTypes
  <2>6. RedisTypes'
    BY <1>1, <2>1, <2>5 DEF RedisTypes
  <2>7. own[c][i] \in AllKeys \cup {NoKey}
    BY <2>4
  <2> QED
    BY <1>s, <2>1, <2>3, <2>4, <2>6, <2>7, BeforeTheLoop
<1>6. CASE Store(c)
  <2>1. /\ pc[c] = "store" /\ pc' = [pc EXCEPT ![c] = "send"]
        /\ mapping' \in {preferred[c], mapping}
        /\ UNCHANGED <<active, counter, own, preferred, offset, attempt, tried,
                       sends>>
    BY <1>6, Zenon DEF Store, Goto
  <2>2. Has(c, preferred[c])
    BY <1>1, <2>1 DEF CallInv, Chosen
  <2>3. RedisTypes'
    BY <1>1, <1>2, <2>1 DEF RedisTypes
  <2>4. preferred' = [preferred EXCEPT ![c] = preferred[c]]
    BY <1>2, <2>1
  <2> QED
    BY <1>2, <1>s, <2>1, <2>2, <2>3, <2>4, BeforeTheLoop
<1> QED
  BY <1>3, <1>4, <1>5, <1>6


\* One more turn of the loop over the keys, or its end.
LEMMA NextKeyStep ==
  ASSUME KeysInv, NEW c \in Calls, pc[c] = "send", NextKey(c),
         NEW n \in Nat, sends' = [sends EXCEPT ![c] = n],
         n <= (offset[c] + 1) * (MaxRetries + 1)
  PROVE  KeysInv'
<1>1. RedisTypes /\ CallTypes /\ CallInv(c)
  BY DEF KeysInv
<1>2. UNCHANGED <<active, redis, own, preferred>>
  BY Zenon DEF NextKey
<1>3. RedisTypes'
  BY <1>1, <1>2 DEF RedisTypes, redis
<1>4. /\ own[c] \in Seq(AllKeys) /\ tried[c] \in Seq(AllKeys) /\ offset[c] \in Nat
      /\ 0 \in 0 .. MaxRetries
  BY <1>1, KeysAssumption DEF CallTypes, KeysInv
<1>5. /\ Has(c, preferred[c]) /\ offset[c] < Len(own[c])
      /\ Len(tried[c]) = offset[c] /\ own[c] # <<>>
      /\ \A j \in 1 .. Len(tried[c]) : tried[c][j] = Turn(c, j)
  BY <1>1 DEF CallInv, Chosen, Reset, TurnsTaken
<1>6. /\ Len(own[c]) \in Nat \ {0} /\ StartIndex(c) \in 0 .. Len(own[c]) - 1
  BY <1>4, <1>5, Starts
<1> DEFINE x == StartIndex(c) + offset[c]
<1>7. x \in Nat /\ (x % Len(own[c])) + 1 \in 1 .. Len(own[c])
  <2>1. x \in Nat
    BY <1>4, <1>6
  <2> HIDE DEF x
  <2> QED
    BY <1>6, <2>1, RingIndex
<1>8. KeyAt(c) \in AllKeys
  BY <1>4, <1>7 DEF KeyAt
<1>9. KeyAt(c) = Turn(c, offset[c] + 1)
  <2>1. (offset[c] + 1) - 1 = offset[c]
    BY <1>4
  <2> QED
    BY <2>1 DEF KeyAt, Turn
<1>10. /\ tried' = [tried EXCEPT ![c] = Append(tried[c], KeyAt(c))]
       /\ attempt' = [attempt EXCEPT ![c] = 0]
  BY Zenon DEF NextKey
<1>11. /\ tried'[c] = Append(tried[c], KeyAt(c)) /\ attempt'[c] = 0 /\ sends'[c] = n
       /\ own'[c] = own[c] /\ preferred'[c] = preferred[c]
  BY <1>1, <1>2, <1>10 DEF CallTypes
<1>12. /\ Len(tried'[c]) = offset[c] + 1
       /\ \A j \in 1 .. offset[c] + 1 : tried'[c][j] = Turn(c, j)
  BY <1>4, <1>5, <1>8, <1>9, <1>11
<1>13. /\ \A k : Has(c, k)' <=> Has(c, k)
       /\ \A j : Turn(c, j)' = Turn(c, j)
  BY <1>11, SameLoop
<1>14. Has(c, preferred[c])'
  <2>1. \E i \in DOMAIN own[c] : own[c][i] = preferred[c]
    BY <1>5, Zenon DEF Has
  <2>2. \E i \in DOMAIN own'[c] : own'[c][i] = preferred'[c]
    BY <1>11, <2>1
  <2> QED
    BY <2>2, Zenon DEF Has
<1>15. \A j \in 1 .. Len(tried'[c]) : tried'[c][j] = Turn(c, j)'
  BY <1>12, <1>13
<1>16. /\ attempt' \in [Calls -> 0 .. MaxRetries] /\ tried' \in [Calls -> Seq(AllKeys)]
       /\ sends' \in [Calls -> Nat] /\ own' \in [Calls -> Seq(AllKeys)]
       /\ preferred' \in [Calls -> AllKeys \cup {NoKey}]
  <2>1. Append(tried[c], KeyAt(c)) \in Seq(AllKeys)
    BY <1>4, <1>8
  <2> QED
    BY <1>1, <1>2, <1>4, <1>10, <2>1 DEF CallTypes
<1>17. \A d \in Calls \ {c} : /\ tried'[d] = tried[d] /\ attempt'[d] = attempt[d]
                             /\ sends'[d] = sends[d] /\ own'[d] = own[d]
                             /\ preferred'[d] = preferred[d]
  BY <1>1, <1>2, <1>10 DEF CallTypes
<1>18. CASE offset[c] + 1 < Len(own[c])
  <2>1. offset' = [offset EXCEPT ![c] = offset[c] + 1] /\ pc' = pc
    BY <1>18, Zenon DEF NextKey
  <2>2. offset'[c] = offset[c] + 1 /\ pc'[c] = "send"
    BY <1>1, <2>1 DEF CallTypes
  <2>3. offset' \in [Calls -> Nat] /\ pc' \in [Calls -> Steps]
    BY <1>1, <1>4, <2>1 DEF CallTypes
  <2>4. CallTypes'
    BY <1>16, <2>3 DEF CallTypes
  <2>5. OthersKept(c)
    BY <1>1, <1>17, <2>1 DEF CallTypes, OthersKept, Kept
  <2>6. Chosen(c)'
    BY <1>14 DEF Chosen
  <2>7. Reset(c)'
    BY <1>11, <1>18, <2>2 DEF Reset
  <2>8. TurnsTaken(c)'
    BY <1>12, <1>15, <2>2 DEF TurnsTaken
  <2>9. n <= (offset[c] + 1) * (MaxRetries + 1) + 0
    <3>1. (offset[c] + 1) * (MaxRetries + 1) \in Int
      BY <1>4, KeysAssumption
    <3> QED
      BY <3>1
  <2>10. SendsBounded(c)'
    BY <1>11, <2>2, <2>9, Zenon DEF SendsBounded
  <2>11. CallInv(c)'
    BY <1>5, <1>11, <2>6, <2>7, <2>8, <2>10 DEF CallInv
  <2> QED
    BY <1>3, <2>4, <2>5, <2>11, CallStep
<1>19. CASE ~(offset[c] + 1 < Len(own[c]))
  <2>1. offset' = [offset EXCEPT ![c] = 0] /\ pc' = [pc EXCEPT ![c] = "exhausted"]
    BY <1>19, Zenon DEF NextKey, Goto
  <2>2. offset'[c] = 0 /\ pc'[c] = "exhausted" /\ Len(own[c]) = offset[c] + 1
    BY <1>1, <1>4, <1>5, <1>6, <1>19, <2>1 DEF CallTypes
  <2>3. offset' \in [Calls -> Nat] /\ pc' \in [Calls -> Steps]
    BY <1>1, <2>1 DEF CallTypes, Steps
  <2>4. CallTypes'
    BY <1>16, <2>3 DEF CallTypes
  <2>5. OthersKept(c)
    BY <1>1, <1>17, <2>1 DEF CallTypes, OthersKept, Kept
  <2>6. Chosen(c)'
    BY <1>14 DEF Chosen
  <2>7. Reset(c)'
    BY <1>11, <2>2 DEF Reset
  <2>8. TurnsTaken(c)'
    BY <1>11, <1>12, <1>15, <2>2 DEF TurnsTaken
  <2>9. n <= Len(own[c]) * (MaxRetries + 1)
    BY <2>2
  <2>10. SendsBounded(c)'
    BY <1>11, <2>2, <2>9, Zenon DEF SendsBounded
  <2>11. CallInv(c)'
    BY <1>5, <1>11, <2>6, <2>7, <2>8, <2>10 DEF CallInv
  <2> QED
    BY <1>3, <2>4, <2>5, <2>11, CallStep
<1> QED
  BY <1>18, <1>19

\* The sends of one key more.
LEMMA OneMoreKey ==
  ASSUME NEW n \in Nat, NEW o \in Nat, NEW a \in 0 .. MaxRetries,
         n <= o * (MaxRetries + 1) + a
  PROVE  n + 1 <= (o + 1) * (MaxRetries + 1)
<1> DEFINE m == MaxRetries + 1
           p == o * m
<1>1. m \in Nat /\ a + 1 <= m
  BY KeysAssumption
<1> HIDE DEF m
<1>2. (o + 1) * m = p + m /\ p \in Nat
  BY <1>1, SMT
<1>3. n <= p + a
  BY DEF m
<1> HIDE DEF p
<1>4. n + 1 <= (o + 1) * m
  BY <1>1, <1>2, <1>3
<1> QED
  BY <1>4 DEF m

\* execute_with_retry and what proxy_request makes of its result.
LEMMA SendStep ==
  ASSUME KeysInv, NEW c \in Calls,
         KeyUnusable(c) \/ Rejected(c) \/ ServerError(c) \/ Answered(c)
  PROVE  KeysInv'
<1>1. RedisTypes /\ CallTypes /\ CallInv(c)
  BY DEF KeysInv
<1>2. pc[c] = "send"
  BY Zenon DEF KeyUnusable, Rejected, ServerError, Answered, Sent
<1>3. /\ sends[c] \in Nat /\ offset[c] \in Nat /\ attempt[c] \in 0 .. MaxRetries
      /\ sends[c] <= offset[c] * (MaxRetries + 1) + attempt[c]
      /\ MaxRetries \in Nat
  BY <1>1, <1>2, KeysAssumption DEF CallTypes, CallInv, SendsBounded, KeysInv
<1>4. sends[c] + 1 <= (offset[c] + 1) * (MaxRetries + 1) /\ sends[c] + 1 \in Nat
  BY <1>3, OneMoreKey
<1>5. sends[c] <= (offset[c] + 1) * (MaxRetries + 1)
  <2>1. (offset[c] + 1) * (MaxRetries + 1) \in Int
    BY <1>3
  <2> QED
    BY <1>3, <1>4, <2>1
<1>6. CASE KeyUnusable(c)
  <2>1. NextKey(c) /\ sends' = [sends EXCEPT ![c] = sends[c]]
    BY <1>1, <1>6 DEF KeyUnusable, CallTypes
  <2> QED
    BY <1>2, <1>3, <1>5, <2>1, NextKeyStep
<1>7. CASE ServerError(c) \/ (Sent(c) /\ NextKey(c))
  <2>1. NextKey(c) /\ sends' = [sends EXCEPT ![c] = sends[c] + 1]
    BY <1>7, Zenon DEF ServerError, Sent
  <2> QED
    BY <1>2, <1>4, <2>1, NextKeyStep
<1>8. CASE /\ Sent(c) /\ MayRetry(c)
           /\ attempt' = [attempt EXCEPT ![c] = @ + 1]
           /\ UNCHANGED <<active, redis, pc, own, preferred, offset, tried>>
  <2>1. /\ attempt' = [attempt EXCEPT ![c] = attempt[c] + 1]
        /\ sends' = [sends EXCEPT ![c] = sends[c] + 1]
        /\ attempt[c] + 1 \in 0 .. MaxRetries
    BY <1>3, <1>8 DEF Sent, MayRetry
  <2>2. CallTypes'
    BY <1>1, <1>4, <1>8, <2>1 DEF CallTypes
  <2>3. /\ attempt'[c] = attempt[c] + 1 /\ sends'[c] = sends[c] + 1
        /\ pc'[c] = "send" /\ own' = own /\ preferred' = preferred
        /\ offset'[c] = offset[c] /\ tried'[c] = tried[c]
    BY <1>1, <1>2, <1>8, <2>1 DEF CallTypes
  <2>4. OthersKept(c)
    BY <1>1, <1>8, <2>1 DEF CallTypes, OthersKept, Kept
  <2>5. RedisTypes'
    BY <1>1, <1>8 DEF RedisTypes, redis
  <2>6. /\ \A k : Has(c, k)' <=> Has(c, k)
        /\ \A j : Turn(c, j)' = Turn(c, j)
    BY <2>3, SameLoop
  <2>7. Chosen(c)' /\ own'[c] # <<>>
    BY <1>1, <1>2, <2>3, <2>6 DEF CallInv, Chosen
  <2>8. Reset(c)'
    BY <1>1, <1>2, <2>3 DEF CallInv, Reset
  <2>9. TurnsTaken(c)'
    BY <1>1, <1>2, <2>3, <2>6 DEF CallInv, TurnsTaken
  <2>10. sends[c] + 1 <= offset[c] * (MaxRetries + 1) + (attempt[c] + 1)
    <3>1. offset[c] * (MaxRetries + 1) \in Int
      BY <1>3
    <3> QED
      BY <1>3, <3>1
  <2>11. SendsBounded(c)'
    BY <2>3, <2>10, Zenon DEF SendsBounded
  <2>12. CallInv(c)'
    BY <2>7, <2>8, <2>9, <2>11 DEF CallInv
  <2> QED
    BY <2>2, <2>4, <2>5, <2>12, CallStep
<1>9. CASE Answered(c)
  <2>1. /\ pc' = [pc EXCEPT ![c] = "remember"]
        /\ sends' = [sends EXCEPT ![c] = sends[c] + 1]
        /\ UNCHANGED <<active, redis, own, preferred, offset, attempt, tried>>
    BY <1>9, Zenon DEF Answered, Sent, Goto
  <2>2. CallTypes'
    BY <1>1, <1>4, <2>1 DEF CallTypes, Steps
  <2>3. OthersKept(c)
    BY <1>1, <2>1 DEF CallTypes, OthersKept, Kept
  <2>4. RedisTypes'
    BY <1>1, <2>1 DEF RedisTypes, redis
  <2>5. pc'[c] = "remember" /\ offset' = offset /\ own' = own /\ preferred' = preferred
    BY <1>1, <2>1 DEF CallTypes
  <2>6. \A k : Has(c, k)' <=> Has(c, k)
    BY <2>5, SameLoop
  <2>7. Chosen(c)' /\ own'[c] # <<>>
    BY <1>1, <1>2, <2>5, <2>6 DEF CallInv, Chosen
  <2>8. Reset(c)' /\ TurnsTaken(c)' /\ SendsBounded(c)'
    BY <1>1, <1>2, <2>5 DEF CallInv, Reset, TurnsTaken, SendsBounded
  <2>9. CallInv(c)'
    BY <2>7, <2>8 DEF CallInv
  <2> QED
    BY <2>2, <2>3, <2>4, <2>9, CallStep
<1> QED
  BY <1>6, <1>7, <1>8, <1>9, Zenon DEF Rejected

\* A call that is over, answered or dropped.
LEMMA FinishStep ==
  ASSUME KeysInv, NEW c \in Calls, Finish(c), active' = active, counter' = counter,
         mapping' \in AllKeys \cup {NoKey}
  PROVE  KeysInv'
<1>1. RedisTypes /\ CallTypes
  BY DEF KeysInv
<1>2. /\ pc' = [pc EXCEPT ![c] = "idle"] /\ own' = [own EXCEPT ![c] = <<>>]
      /\ preferred' = [preferred EXCEPT ![c] = NoKey]
      /\ offset' = [offset EXCEPT ![c] = 0] /\ attempt' = [attempt EXCEPT ![c] = 0]
      /\ tried' = [tried EXCEPT ![c] = <<>>] /\ sends' = [sends EXCEPT ![c] = 0]
  BY Zenon DEF Finish, Goto
<1>3. CallTypes'
  BY <1>1, <1>2, KeysAssumption DEF CallTypes, Steps, KeysInv
<1>4. /\ pc'[c] = "idle" /\ offset'[c] = 0 /\ attempt'[c] = 0
      /\ tried'[c] = <<>> /\ sends'[c] = 0
  BY <1>1, <1>2 DEF CallTypes
<1>5. CallInv(c)'
  BY <1>4 DEF CallInv, Chosen, Reset, TurnsTaken, SendsBounded
<1>6. OthersKept(c)
  BY <1>1, <1>2 DEF CallTypes, OthersKept, Kept
<1>7. RedisTypes'
  BY <1>1 DEF RedisTypes
<1> QED
  BY <1>3, <1>5, <1>6, <1>7, CallStep

\* The key of a turn is one of the provider's.
LEMMA KeyAtHas ==
  ASSUME KeysInv, NEW c \in Calls, pc[c] \in {"send", "remember"}
  PROVE  Has(c, KeyAt(c)) /\ KeyAt(c) \in AllKeys
<1>1. /\ CallTypes /\ own[c] \in Seq(AllKeys) /\ offset[c] \in Nat
      /\ Has(c, preferred[c])
  BY DEF KeysInv, CallTypes, CallInv, Chosen
<1>2. Len(own[c]) \in Nat \ {0} /\ StartIndex(c) \in 0 .. Len(own[c]) - 1
  BY <1>1, Starts
<1> DEFINE x == StartIndex(c) + offset[c]
<1>3. x \in Nat
  BY <1>1, <1>2
<1> HIDE DEF x
<1>4. (x % Len(own[c])) + 1 \in 1 .. Len(own[c])
  BY <1>2, <1>3, RingIndex
<1>5. KeyAt(c) = own[c][(x % Len(own[c])) + 1]
  BY Zenon DEF KeyAt, x
<1>6. Has(c, KeyAt(c))
  BY <1>1, <1>4, <1>5 DEF Has
<1> QED
  BY <1>1, <1>6, HasKeys

\* Every step preserves the invariant.
LEMMA NextKeysInv == KeysInv /\ [Next]_vars => KeysInv'
<1> SUFFICES ASSUME KeysInv, [Next]_vars PROVE KeysInv'
  OBVIOUS
<1>1. RedisTypes /\ CallTypes /\ \A c \in Calls : CallInv(c)
  BY DEF KeysInv
<1>2. ASSUME RedisTypes', UNCHANGED call PROVE KeysInv'
  <2>1. CallTypes'
    BY <1>1, <1>2 DEF CallTypes, call
  <2>2. ASSUME NEW c \in Calls PROVE CallInv(c)'
    <3>1. Kept(c)
      BY <1>2 DEF call, Kept
    <3> QED
      BY <1>1, <3>1, KeptCall
  <2> QED
    BY <1>2, <2>1, <2>2 DEF KeysInv
<1>3. CASE UNCHANGED vars
  <2>1. RedisTypes' /\ UNCHANGED call
    BY <1>1, <1>3 DEF RedisTypes, vars, redis
  <2> QED
    BY <1>2, <2>1
<1>4. CASE MappingExpires \/ CounterExpires
  <2>1. 0 \in 0 .. CounterCycle - 1
    BY KeysAssumption
  <2>2. RedisTypes' /\ UNCHANGED call
    BY <1>1, <1>4, <2>1 DEF RedisTypes, MappingExpires, CounterExpires
  <2> QED
    BY <1>2, <2>2
<1>5. ASSUME NEW k \in AllKeys, Reload(k) PROVE KeysInv'
  <2>1. RedisTypes' /\ UNCHANGED call
    BY <1>1, <1>5 DEF RedisTypes, Reload, redis
  <2> QED
    BY <1>2, <2>1
<1>6. ASSUME NEW c \in Calls, Begin(c) \/ Advance(c) \/ Drop(c) PROVE KeysInv'
  <2>1. CASE Begin(c)
    BY <2>1, BeginStep
  <2>2. CASE \/ Lookup(c) \/ LookupFails(c) \/ Invalidate(c)
             \/ Pick(c) \/ Store(c)
    BY <2>2, StickyStep
  <2>3. CASE KeyUnusable(c) \/ Rejected(c) \/ ServerError(c) \/ Answered(c)
    BY <2>3, SendStep
  <2>4. CASE Remember(c)
    <3>1. pc[c] \in {"send", "remember"}
      BY <2>4 DEF Remember
    <3>2. KeyAt(c) \in AllKeys
      BY <3>1, KeyAtHas
    <3>3. mapping' \in AllKeys \cup {NoKey}
      BY <1>1, <2>4, <3>2 DEF Remember, RedisTypes
    <3>4. Finish(c) /\ active' = active /\ counter' = counter
      BY <2>4, Zenon DEF Remember
    <3> QED
      BY <3>3, <3>4, FinishStep
  <2>5. CASE Drop(c)
    <3>1. Finish(c) /\ active' = active /\ counter' = counter /\ mapping' = mapping
      BY <2>5 DEF Drop, redis
    <3>2. mapping' \in AllKeys \cup {NoKey}
      BY <1>1, <3>1 DEF RedisTypes
    <3> QED
      BY <3>1, <3>2, FinishStep
  <2> QED
    BY <1>6, <2>1, <2>2, <2>3, <2>4, <2>5 DEF Advance
<1> QED
  BY <1>3, <1>4, <1>5, <1>6, Zenon DEF Next

\* The types of the mapping, the counter and the locals of every call: a call
\* that sends has a preferred key of its own provider, and neither of its
\* loops runs past its end.
THEOREM TargetKeysTypeOK == Spec => []TypeOK
<1>1. KeysInv => TypeOK
  BY InvIsTypeOK
<1> QED
  BY <1>1, InitKeysInv, NextKeysInv, PTL DEF Spec

\* proxy_request gives up only after each key of the provider had its turn,
\* from the preferred one on, with a bounded number of sends.
THEOREM EveryKeyHadItsTurn == Spec => []ExhaustedAfterEveryKey
<1>1. KeysInv => ExhaustedAfterEveryKey
  BY InvExhausted
<1> QED
  BY <1>1, InitKeysInv, NextKeysInv, PTL DEF Spec


-----------------------------------------------------------------------------
(***************************************************************************)
(* A client key stays with the target key it settled on                    *)
(***************************************************************************)

\* A loop that starts from a key of the provider starts with it.
LEMMA FirstTurn ==
  ASSUME NEW keys \in Seq(AllKeys), NEW k, \E i \in DOMAIN keys : keys[i] = k
  PROVE  keys[((Start(keys, k) + 0) % Len(keys)) + 1] = k
<1>1. PICK i \in DOMAIN keys : keys[i] = k /\ Start(keys, k) = i - 1
  BY Zenon DEF Start
<1>2. i \in 1 .. Len(keys) /\ Len(keys) \in Nat
  BY <1>1
<1>3. ((i - 1) + 0) % Len(keys) = i - 1
  <2>1. Len(keys) \in Nat \ {0} /\ i - 1 \in 0 .. Len(keys) - 1
    BY <1>2
  <2> QED
    BY <2>1, RingStarts
<1>4. (((i - 1) + 0) % Len(keys)) + 1 = i
  BY <1>2, <1>3
<1> QED
  BY <1>1, <1>4, Zenon

\* What a call has to do with k being settled on.
With(c, k) ==
  /\ pc[c] \in {"send", "remember"} => KeyAt(c) = k
  /\ pc[c] \notin {"invalidate", "pick", "store"}

\* A call whose loop stands still goes on with its key.
LEMMA KeptWith ==
  ASSUME NEW c \in Calls, NEW k, With(c, k),
         own'[c] = own[c], preferred'[c] = preferred[c], offset'[c] = offset[c],
         pc'[c] \in {"send", "remember"} => pc[c] \in {"send", "remember"},
         pc'[c] \notin {"invalidate", "pick", "store"}
  PROVE  With(c, k)'
<1>1. StartIndex(c)' = StartIndex(c)
  BY SameLoop
<1>2. KeyAt(c)' = KeyAt(c)
  BY <1>1, Zenon DEF KeyAt
<1> QED
  BY <1>2, Zenon DEF With

\* Settled calls, after a step of one of them ...
LEMMA SettledStep ==
  ASSUME NEW k, SettledOn(k), mapping' = k,
         NEW c \in Calls, OthersKept(c), With(c, k)'
  PROVE  SettledOn(k)'
<1>1. ASSUME NEW d \in Calls PROVE With(d, k)'
  <2>1. CASE d = c
    BY <2>1
  <2>2. CASE d # c
    <3>1. With(d, k) /\ Kept(d)
      BY <2>2, Zenon DEF SettledOn, With, OthersKept
    <3> QED
      BY <3>1, KeptWith DEF Kept, With
  <2> QED
    BY <2>1, <2>2
<1> QED
  BY <1>1, Zenon DEF SettledOn, With

\* ... or of none.
LEMMA SettledAlone ==
  ASSUME NEW k, SettledOn(k), mapping' = mapping, UNCHANGED call
  PROVE  SettledOn(k)'
<1>1. ASSUME NEW c \in Calls PROVE With(c, k)'
  <2>1. With(c, k) /\ Kept(c)
    BY Zenon DEF SettledOn, With, call, Kept
  <2> QED
    BY <2>1, KeptWith DEF Kept, With
<1> QED
  BY <1>1, Zenon DEF SettledOn, With

\* The causes StickyUntilCause names.
Cause(k) ==
  \/ MappingExpires
  \/ \E c \in Calls : KeyFails(c) \/ LookupFails(c)
  \/ \E c \in Calls : Lookup(c) /\ ~Has(c, k)

\* A lookup that finds the mapping among its provider's keys starts with it.
LEMMA LookupSettles ==
  ASSUME KeysInv, NEW k \in AllKeys, SettledOn(k), NEW c \in Calls,
         Lookup(c), Has(c, k)
  PROVE  SettledOn(k)'
<1>1. /\ CallTypes /\ own[c] \in Seq(AllKeys) /\ pc[c] = "lookup"
      /\ offset[c] = 0 /\ mapping = k /\ k # NoKey
  BY KeysAssumption DEF KeysInv, CallTypes, CallInv, Reset, Lookup, SettledOn
<1>2. /\ pc' = [pc EXCEPT ![c] = "send"]
      /\ preferred' = [preferred EXCEPT ![c] = k]
      /\ UNCHANGED <<own, offset, attempt, tried, sends>> /\ mapping' = mapping
  BY <1>1 DEF Lookup, Goto, redis
<1>3. /\ pc'[c] = "send" /\ preferred'[c] = k /\ own'[c] = own[c] /\ offset'[c] = 0
  BY <1>1, <1>2 DEF CallTypes
<1>4. OthersKept(c)
  BY <1>1, <1>2 DEF CallTypes, OthersKept, Kept
<1>5. StartIndex(c)' = Start(own[c], k)
  <2>1. StartIndex(c)' = Start(own'[c], preferred'[c])
    BY DEF StartIndex, Start, Has
  <2> QED
    BY <1>3, <2>1
<1>6. KeyAt(c)' = k
  <2>1. own[c][((Start(own[c], k) + 0) % Len(own[c])) + 1] = k
    BY <1>1, FirstTurn DEF Has
  <2>2. KeyAt(c)' = own[c][((Start(own[c], k) + 0) % Len(own[c])) + 1]
    BY <1>3, <1>5, Zenon DEF KeyAt
  <2> QED
    BY <2>1, <2>2
<1>7. With(c, k)'
  BY <1>3, <1>6 DEF With
<1> QED
  BY <1>1, <1>2, <1>4, <1>7, SettledStep

\* Every step without a cause leaves the calls settled.
LEMMA StickyAction == KeysInv /\ [Next]_vars =>
  \A k \in AllKeys : SettledOn(k) /\ ~SettledOn(k)' => Cause(k)
<1> SUFFICES ASSUME KeysInv, [Next]_vars,
                    NEW k \in AllKeys, SettledOn(k), ~Cause(k)
             PROVE  SettledOn(k)'
  OBVIOUS
<1>1. /\ RedisTypes /\ CallTypes /\ mapping = k
      /\ \A c \in Calls : CallInv(c) /\ With(c, k)
  BY Zenon DEF KeysInv, SettledOn, With
<1>2. /\ ~MappingExpires
      /\ \A c \in Calls : /\ ~KeyFails(c) /\ ~LookupFails(c)
                          /\ Lookup(c) => Has(c, k)
  BY Zenon DEF Cause
<1>3. CASE UNCHANGED vars
  BY <1>3, SettledAlone DEF vars, redis
<1>4. CASE CounterExpires \/ \E j \in AllKeys : Reload(j)
  <2>1. mapping' = mapping /\ UNCHANGED call
    BY <1>4 DEF CounterExpires, Reload, redis
  <2> QED
    BY <2>1, SettledAlone
<1>5. ASSUME NEW c \in Calls, Begin(c) PROVE SettledOn(k)'
  <2>1. PICK p \in Providers :
          \E keys \in KeysIn(p) : keys # <<>> /\ own' = [own EXCEPT ![c] = keys]
    BY <1>5, Zenon DEF Begin
  <2>2. PICK keys \in KeysIn(p) : own' = [own EXCEPT ![c] = keys]
    BY <2>1
  <2>3. /\ pc' = [pc EXCEPT ![c] = "lookup"]
        /\ preferred' = [preferred EXCEPT ![c] = NoKey]
        /\ tried' = [tried EXCEPT ![c] = <<>>] /\ sends' = [sends EXCEPT ![c] = 0]
        /\ mapping' = mapping /\ UNCHANGED <<offset, attempt>>
    BY <1>5 DEF Begin, Goto, redis
  <2>4. OthersKept(c)
    BY <1>1, <2>2, <2>3 DEF CallTypes, OthersKept, Kept
  <2>5. pc'[c] = "lookup"
    BY <1>1, <2>3 DEF CallTypes
  <2>6. With(c, k)'
    BY <2>5 DEF With
  <2> QED
    BY <1>1, <2>3, <2>4, <2>6, SettledStep
<1>6. ASSUME NEW c \in Calls, Answered(c) PROVE SettledOn(k)'
  <2>1. /\ pc[c] = "send" /\ pc' = [pc EXCEPT ![c] = "remember"]
        /\ sends' = [sends EXCEPT ![c] = sends[c] + 1]
        /\ mapping' = mapping /\ UNCHANGED <<own, preferred, offset, attempt, tried>>
    BY <1>6, Zenon DEF Answered, Sent, Goto, redis
  <2>2. OthersKept(c)
    BY <1>1, <2>1 DEF CallTypes, OthersKept, Kept
  <2>3. pc'[c] = "remember" /\ With(c, k)
    BY <1>1, <2>1 DEF CallTypes
  <2>4. With(c, k)'
    BY <2>1, <2>3, KeptWith
  <2> QED
    BY <1>1, <2>1, <2>2, <2>4, SettledStep
<1>7. ASSUME NEW c \in Calls, Finish(c), mapping' = k PROVE SettledOn(k)'
  <2>1. /\ pc' = [pc EXCEPT ![c] = "idle"] /\ own' = [own EXCEPT ![c] = <<>>]
        /\ preferred' = [preferred EXCEPT ![c] = NoKey]
        /\ offset' = [offset EXCEPT ![c] = 0] /\ attempt' = [attempt EXCEPT ![c] = 0]
        /\ tried' = [tried EXCEPT ![c] = <<>>] /\ sends' = [sends EXCEPT ![c] = 0]
    BY <1>7, Zenon DEF Finish, Goto
  <2>2. OthersKept(c)
    BY <1>1, <2>1 DEF CallTypes, OthersKept, Kept
  <2>3. pc'[c] = "idle"
    BY <1>1, <2>1 DEF CallTypes
  <2>4. With(c, k)'
    BY <2>3 DEF With
  <2> QED
    BY <1>7, <2>2, <2>4, SettledStep
<1>8. ASSUME NEW c \in Calls, Remember(c) PROVE SettledOn(k)'
  <2>1. Finish(c) /\ pc[c] = "remember" /\ mapping' \in {KeyAt(c), mapping}
    BY <1>8, Zenon DEF Remember
  <2>2. KeyAt(c) = k
    BY <1>1, <2>1 DEF With
  <2> QED
    BY <1>1, <1>7, <2>1, <2>2
<1>9. ASSUME NEW c \in Calls, Drop(c) PROVE SettledOn(k)'
  <2>1. Finish(c) /\ mapping' = k
    BY <1>1, <1>9 DEF Drop, redis
  <2> QED
    BY <1>7, <2>1
<1>10. ASSUME NEW c \in Calls, Lookup(c) PROVE SettledOn(k)'
  BY <1>2, <1>10, LookupSettles
<1>11. ASSUME NEW c \in Calls, Invalidate(c) \/ Pick(c) \/ Store(c) PROVE FALSE
  <2>1. pc[c] \in {"invalidate", "pick", "store"}
    BY <1>11 DEF Invalidate, Pick, Store
  <2> QED
    BY <1>1, <2>1 DEF With
<1>12. ASSUME NEW c \in Calls, Begin(c) \/ Advance(c) \/ Drop(c)
       PROVE  SettledOn(k)'
  BY <1>2, <1>5, <1>6, <1>8, <1>9, <1>10, <1>11, <1>12, Zenon DEF Advance, KeyFails
<1> QED
  BY <1>2, <1>3, <1>4, <1>12, Zenon DEF Next

\* A client key that settled on a target key leaves it only for a cause.
THEOREM SettledUntilCause == Spec => StickyUntilCause
<1>1. KeysInv /\ [Next]_vars =>
        [\A k \in AllKeys :
           SettledOn(k) /\ ~SettledOn(k)' =>
             \/ MappingExpires
             \/ \E c \in Calls : KeyFails(c) \/ LookupFails(c)
             \/ \E c \in Calls : Lookup(c) /\ ~Has(c, k)]_vars
  BY StickyAction, Zenon DEF Cause
<1> QED
  BY <1>1, InitKeysInv, NextKeysInv, PTL DEF Spec, StickyUntilCause

=============================================================================
