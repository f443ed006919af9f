--------------------------- MODULE BackendCircuit ---------------------------
(***************************************************************************)
(* One backend's circuit (struct BackendCircuit of circuit_breaker.rs): a  *)
(* record and what each method makes of it.  CircuitBreaker keeps one per  *)
(* backend behind a mutex; TargetPool lets the proxy drive them.           *)
(*                                                                         *)
(* Time.  The code stores the Instant of the last failure and only ever    *)
(* compares the time elapsed since then with the timeout.  The model       *)
(* stores that elapsed time itself and stops counting at Timeout, where    *)
(* the comparison can no longer change.                                    *)
(***************************************************************************)
EXTENDS Integers

CONSTANTS
  Threshold,         \* BackendCircuit.threshold
  Timeout,           \* BackendCircuit.timeout, in ticks of the model's clock
  HalfOpenMaxCalls   \* BackendCircuit.half_open_max_calls

\* server/mod.rs builds the breaker with 5, the configured timeout and 3.
ASSUME BreakerAssumption ==
  /\ Threshold \in Nat \ {0}
  /\ Timeout \in Nat
  /\ HalfOpenMaxCalls \in Nat \ {0}

CircuitState == {"Closed", "Open", "HalfOpen"}

\* last_failure = None
NoFailure == -1

Circuit == [state : CircuitState,
            failures : Nat,
            success_count : Nat,
            last_failure : {NoFailure} \cup (0 .. Timeout)]

\* make_circuit, called by or_insert_with the first time a backend is named
NewCircuit == [state |-> "Closed", failures |-> 0, success_count |-> 0,
               last_failure |-> NoFailure]

\* last.elapsed() >= timeout, FALSE when there is no last failure
TimeoutElapsed(c) == c.last_failure # NoFailure /\ c.last_failure >= Timeout

\* Faulty variants, each a slip this code invites (see README, "Seeded
\* faults"): a property worth checking tells it from the real thing.
FaultyProbeKeepsFailures(c) ==
  IF c.success_count + 1 >= HalfOpenMaxCalls
  THEN [c EXCEPT !.state = "Closed", !.success_count = 0]
  ELSE [c EXCEPT !.success_count = @ + 1]

\* A success reported while half open.
ProbeSucceeded(c) ==
  IF c.success_count + 1 >= HalfOpenMaxCalls
  THEN [c EXCEPT !.state = "Closed", !.failures = 0, !.success_count = 0]
  ELSE [c EXCEPT !.success_count = @ + 1]

FaultySuccessUnderflows(c) ==
  CASE c.state = "Closed"   -> [c EXCEPT !.failures = @ - 1]
    [] c.state = "HalfOpen" -> ProbeSucceeded(c)
    [] c.state = "Open"     -> c

FaultySuccessRestartsTimer(c) ==
  CASE c.state = "Closed"   -> [c EXCEPT !.failures = 0]
    [] c.state = "HalfOpen" -> ProbeSucceeded(c)
    [] c.state = "Open"     -> [c EXCEPT !.last_failure = 0]

OnSuccess(c) ==
  CASE c.state = "Closed"   -> [c EXCEPT !.failures = 0]
    [] c.state = "HalfOpen" -> ProbeSucceeded(c)
    [] c.state = "Open"     -> c

FaultyFailureUnstamped(c) ==
  [c EXCEPT !.failures = @ + 1,
            !.success_count = 0,
            !.state = IF c.state = "HalfOpen" \/ c.failures + 1 >= Threshold
                      THEN "Open" ELSE @]

OnFailure(c) ==
  CASE c.state = "Closed"   ->
         [c EXCEPT !.failures = @ + 1,
                   !.last_failure = 0,
                   !.state = IF c.failures + 1 >= Threshold THEN "Open" ELSE @]
    [] c.state = "HalfOpen" ->
         [c EXCEPT !.state = "Open", !.last_failure = 0, !.success_count = 0]
    [] c.state = "Open"     -> [c EXCEPT !.last_failure = 0]

TransitionIfNeeded(c) ==
  IF c.state = "Open" /\ TimeoutElapsed(c)
  THEN [c EXCEPT !.state = "HalfOpen", !.success_count = 0]
  ELSE c

IsHealthy(c) == c.state # "Open" \/ TimeoutElapsed(c)

\* The passing of one tick, as Instant::elapsed will see it.
Older(c) ==
  IF c.last_failure \in 0 .. (Timeout - 1)
  THEN [c EXCEPT !.last_failure = @ + 1]
  ELSE c

=============================================================================
