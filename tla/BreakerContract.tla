--------------------------- MODULE BreakerContract --------------------------
(***************************************************************************)
(* What a circuit breaker promises to the router that consults it, without *)
(* saying how it counts: a backend is blocked only at the moment a failure *)
(* is reported, and readmitted only when no failure has been reported for  *)
(* a whole Timeout.  CircuitBreaker implements it.                         *)
(***************************************************************************)
EXTENDS Naturals

CONSTANTS Backends, Timeout

VARIABLES
  blocked,   \* the backends a health check refuses
  quiet      \* time since the last failure of each backend, up to Timeout

vars == <<blocked, quiet>>

Init ==
  /\ blocked = {}
  /\ quiet = [b \in Backends |-> Timeout]

\* A failure restarts the quiet period, and may block the backend.
Failure(b) ==
  /\ quiet' = [quiet EXCEPT ![b] = 0]
  /\ blocked' \in {blocked, blocked \cup {b}}

Readmit(b) ==
  /\ b \in blocked
  /\ quiet[b] = Timeout
  /\ blocked' = blocked \ {b}
  /\ UNCHANGED quiet

Tick ==
  /\ quiet' = [b \in Backends |->
                 IF quiet[b] < Timeout THEN quiet[b] + 1 ELSE quiet[b]]
  /\ UNCHANGED blocked

Next ==
  \/ \E b \in Backends : Failure(b) \/ Readmit(b)
  \/ Tick

Spec == Init /\ [][Next]_vars

=============================================================================
