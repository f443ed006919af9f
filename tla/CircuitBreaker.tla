--------------------------- MODULE CircuitBreaker ---------------------------
(***************************************************************************)
(* The in-memory circuit breaker of zorch-gateway (circuit_breaker.rs).    *)
(*                                                                         *)
(* One BackendCircuit per backend, all behind one async mutex: every       *)
(* public method takes the lock, works on one circuit and releases it, so  *)
(* each method is one atomic action.  Nothing orders the calls: a task may *)
(* report the outcome of a call it started long before the circuit         *)
(* changed state, and try_target_pool sends traffic to an open backend     *)
(* when no candidate is healthy.  This module therefore lets the methods   *)
(* be called in any order; TargetPool composes them with the proxy that    *)
(* calls them.                                                             *)
(***************************************************************************)
EXTENDS BackendCircuit

CONSTANT Backends   \* BackendIds that have, or may get, a circuit

VARIABLES
  circuits,   \* CircuitBreaker.circuits
  failRun,    \* history: failures reported since the last success
  okRun       \* history: successes reported since the last failure

history == <<failRun, okRun>>
breakerVars == <<circuits, failRun, okRun>>

-----------------------------------------------------------------------------
(***************************************************************************)
(* CircuitBreaker's methods, each one critical section of the mutex        *)
(***************************************************************************)

\* Counters of the history saturate where the code's own decisions saturate.
UpTo(n, max) == IF n < max THEN n ELSE max

BreakerInit ==
  /\ circuits = [b \in Backends |-> NewCircuit]
  /\ failRun = [b \in Backends |-> 0]
  /\ okRun = [b \in Backends |-> 0]

RecordSuccess(b) ==
  /\ circuits' = [circuits EXCEPT ![b] = OnSuccess(@)]
  /\ failRun' = [failRun EXCEPT ![b] = 0]
  /\ okRun' = [okRun EXCEPT ![b] = UpTo(@ + 1, HalfOpenMaxCalls)]

RecordFailure(b) ==
  /\ circuits' = [circuits EXCEPT ![b] = OnFailure(@)]
  /\ failRun' = [failRun EXCEPT ![b] = UpTo(@ + 1, Threshold)]
  /\ okRun' = [okRun EXCEPT ![b] = 0]

IsBackendHealthy(b) ==
  /\ circuits' = [circuits EXCEPT ![b] = TransitionIfNeeded(@)]
  /\ UNCHANGED history

Tick ==
  /\ circuits' = [b \in Backends |-> Older(circuits[b])]
  /\ UNCHANGED history

BreakerNext ==
  \/ \E b \in Backends : RecordSuccess(b)
  \/ \E b \in Backends : RecordFailure(b)
  \/ \E b \in Backends : IsBackendHealthy(b)
  \/ Tick

BreakerSpec == BreakerInit /\ [][BreakerNext]_breakerVars

\* Time passes, and as long as clients send requests try_target_pool asks for
\* the health of every candidate of the pool.
Fairness ==
  /\ WF_breakerVars(Tick)
  /\ \A b \in Backends : WF_breakerVars(IsBackendHealthy(b))

FairBreakerSpec == BreakerSpec /\ Fairness

-----------------------------------------------------------------------------
(***************************************************************************)
(* Properties                                                              *)
(***************************************************************************)

\* Every circuit and every counter has its type.
BreakerTypes ==
  /\ circuits \in [Backends -> Circuit]
  /\ failRun \in [Backends -> 0 .. Threshold]
  /\ okRun \in [Backends -> 0 .. HalfOpenMaxCalls]

\* A circuit that blocks its backend knows when the last failure happened:
\* is_healthy answers false for ever on an open circuit without one.
OpenCanRecover ==
  \A b \in Backends :
    circuits[b].state = "Open" => circuits[b].last_failure # NoFailure

\* While closed, the counter record_failure compares with the threshold is
\* the number of failures since the last success, and has not reached it: the
\* counter left over from before an open period is never carried into a
\* closed one, where it would trip the circuit on its first failure.
ClosedCountsTheRun ==
  \A b \in Backends :
    circuits[b].state = "Closed" =>
      circuits[b].failures = failRun[b] /\ failRun[b] < Threshold

\* While half open, every success that counts towards closing was reported
\* after the last failure, and the count has not reached its goal.
HalfOpenCountsOnlyCleanSuccesses ==
  \A b \in Backends :
    circuits[b].state = "HalfOpen" =>
      /\ circuits[b].success_count <= okRun[b]
      /\ circuits[b].success_count < HalfOpenMaxCalls

\* The circuit changes state only for the reasons the breaker exists for:
\* Threshold failures in a row open it, a failure while half open opens it
\* again, a quiet Timeout half-opens it, HalfOpenMaxCalls clean successes
\* close it; it never goes from Open to Closed nor from Closed to HalfOpen.
TransitionsAreEarned ==
  [][\A b \in Backends :
       LET from == circuits[b].state
           to == circuits'[b].state
       IN  from # to =>
             \/ from = "Closed" /\ to = "Open" /\ failRun'[b] = Threshold
             \/ from = "HalfOpen" /\ to = "Open" /\ failRun'[b] > 0
             \/ from = "Open" /\ to = "HalfOpen" /\ TimeoutElapsed(circuits[b])
             \/ from = "HalfOpen" /\ to = "Closed"
                  /\ okRun'[b] = HalfOpenMaxCalls]_breakerVars

\* A backend about which no failure is reported any more is not blocked for
\* ever: the open circuit is eventually found half open by a health check.
QuietBackendReadmitted ==
  \A b \in Backends :
    <>[][~RecordFailure(b)]_breakerVars => []<>(circuits[b].state # "Open")

-----------------------------------------------------------------------------
(***************************************************************************)
(* The promise to the router: a backend is blocked exactly while its       *)
(* circuit is open.                                                        *)
(***************************************************************************)

QuietTime(c) == IF c.last_failure = NoFailure THEN Timeout ELSE c.last_failure

blockedBackends == {b \in Backends : circuits[b].state = "Open"}
quietTimes == [b \in Backends |-> QuietTime(circuits[b])]

Contract == INSTANCE BreakerContract
              WITH blocked <- blockedBackends, quiet <- quietTimes

\* Every step of the breaker is one its contract allows, whatever the order
\* in which concurrent tasks report their outcomes.
ImplementsContract == Contract!Spec

=============================================================================
