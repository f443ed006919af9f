----------------------------- MODULE TargetPool -----------------------------
(***************************************************************************)
(* How a proxied request finds an upstream (proxy_handler's target loop    *)
(* and try_target_pool, proxy/mod.rs), composed with the circuit breaker   *)
(* all requests share.                                                     *)
(*                                                                         *)
(* A request resolves its model to targets, best priority first.  For each *)
(* target it asks the breaker about every candidate backend, picks one at  *)
(* random among those that answered healthy (among all of them if none     *)
(* did), calls it, and on an error reports the failure and starts over, at *)
(* most as many times as there are candidates.  Every health check and     *)
(* every report is a critical section of its own, so the answers a request *)
(* decides on may be old when it uses them, and its report may be about a  *)
(* circuit that has changed state since.                                   *)
(*                                                                         *)
(* Left to other modules: governance and middleware before the loop, the   *)
(* keys of one backend and the retries of its HTTP client (a call here is  *)
(* a whole ProxyProvider::proxy_request), and the usage record.            *)
(***************************************************************************)
EXTENDS BackendCircuit, FiniteSets, Sequences

CONSTANTS
  Backends,   \* BackendIds
  Targets,    \* the targets of the requested model
  Pool,       \* Pool[t]: registry.find_backends for target t, may be empty
  Priority,   \* Priority[t]: Target.priority
  Requests,   \* client requests in flight
  NoBackend   \* no backend selected yet

ASSUME PoolAssumption ==
  /\ IsFiniteSet(Targets) /\ Targets # {}
  /\ IsFiniteSet(Backends)
  /\ Pool \in [Targets -> SUBSET Backends]
  /\ Priority \in [Targets -> Int]
  /\ NoBackend \notin Backends

VARIABLES
  circuits,     \* CircuitBreaker.circuits
  pc,           \* where each request is
  targets,      \* its targets not given up yet, the current one first
  attempts,     \* `attempts` of the current try_target_pool
  unasked,      \* candidates whose is_backend_healthy has not returned yet
  healthy,      \* `healthy`: candidates that answered true
  backend,      \* the backend selected last
  failedCalls,  \* history: calls that failed, per target
  outdated      \* history: while asking, the backends whose circuit was open
                \* before their healthy answer came, or opened after it

request == <<pc, targets, attempts, unasked, healthy, backend>>
history == <<failedCalls, outdated>>
vars == <<circuits, request, history>>

\* "exhausted": every target failed, the client got the last error.  "idle":
\* not started, or over in any other way.
Ended == {"idle", "exhausted"}
Active == {"targeting", "asking", "calling", "reading"}

-----------------------------------------------------------------------------
(***************************************************************************)
(* ModelResolver::resolve                                                  *)
(***************************************************************************)

\* Names that start with Faulty are seeded faults (see README), as in
\* BackendCircuit.
FaultyInOrder(t, u) == Priority[t] <= Priority[u]

\* t may stand before u: sorted by descending priority, equal ones shuffled.
InOrder(t, u) == Priority[t] >= Priority[u]

Resolved ==
  {s \in [1 .. Cardinality(Targets) -> Targets] :
     \A i, j \in DOMAIN s :
       i < j => s[i] # s[j] /\ InOrder(s[i], s[j])}

-----------------------------------------------------------------------------
(***************************************************************************)
(* The steps of one request                                                *)
(***************************************************************************)

Init ==
  /\ circuits = [b \in Backends |-> NewCircuit]
  /\ pc = [r \in Requests |-> "idle"]
  /\ targets = [r \in Requests |-> <<>>]
  /\ attempts = [r \in Requests |-> 0]
  /\ unasked = [r \in Requests |-> {}]
  /\ healthy = [r \in Requests |-> {}]
  /\ backend = [r \in Requests |-> NoBackend]
  /\ failedCalls = [r \in Requests |-> [t \in Targets |-> 0]]
  /\ outdated = [r \in Requests |-> {}]

\* A new client request; the slot's previous one is over.
Resolve(r) ==
  /\ pc[r] \in Ended
  /\ \E order \in Resolved : targets' = [targets EXCEPT ![r] = order]
  /\ pc' = [pc EXCEPT ![r] = "targeting"]
  /\ failedCalls' = [failedCalls EXCEPT ![r] = [t \in Targets |-> 0]]
  /\ UNCHANGED <<circuits, attempts, unasked, healthy, backend, outdated>>

\* try_target_pool returns: its locals are gone.
LeaveTarget(r) ==
  /\ attempts' = [attempts EXCEPT ![r] = 0]
  /\ unasked' = [unasked EXCEPT ![r] = {}]
  /\ healthy' = [healthy EXCEPT ![r] = {}]
  /\ backend' = [backend EXCEPT ![r] = NoBackend]

\* The request is over, and so are its locals.
Finish(r) ==
  /\ LeaveTarget(r)
  /\ pc' = [pc EXCEPT ![r] = "idle"]
  /\ targets' = [targets EXCEPT ![r] = <<>>]
  /\ failedCalls' = [failedCalls EXCEPT ![r] = [t \in Targets |-> 0]]
  /\ outdated' = [outdated EXCEPT ![r] = {}]

\* The for loop over the targets ends: the client gets the last error.
GiveUp(r) ==
  /\ pc[r] = "targeting"
  /\ targets[r] = <<>>
  /\ pc' = [pc EXCEPT ![r] = "exhausted"]
  /\ UNCHANGED <<circuits, targets, attempts, unasked, healthy, backend,
                 history>>

\* One turn of try_target_pool's loop starts: join_all asks every candidate.
AskAbout(r, candidates) ==
  /\ pc' = [pc EXCEPT ![r] = "asking"]
  /\ attempts' = [attempts EXCEPT ![r] = @ + 1]
  /\ unasked' = [unasked EXCEPT ![r] = candidates]
  /\ healthy' = [healthy EXCEPT ![r] = {}]

\* try_target_pool is entered, and left at once when the pool is empty.
EnterTarget(r) ==
  /\ pc[r] = "targeting"
  /\ targets[r] # <<>>
  /\ LET candidates == Pool[Head(targets[r])]
     IN  \/ /\ candidates = {}
            /\ targets' = [targets EXCEPT ![r] = Tail(@)]
            /\ UNCHANGED <<pc, attempts, unasked, healthy>>
         \/ /\ candidates # {}
            /\ AskAbout(r, candidates)
            /\ UNCHANGED targets
  /\ UNCHANGED <<circuits, backend, history>>

\* is_backend_healthy first moves the circuit, then reads the clock again for
\* its answer: the timeout may elapse between the two readings.
Answers(c) ==
  {IsHealthy(TransitionIfNeeded(c))} \cup
  (IF c.state = "Open" /\ c.last_failure # NoFailure
        /\ c.last_failure + 1 = Timeout
   THEN {TRUE} ELSE {})

CheckHealth(r, b) ==
  /\ pc[r] = "asking"
  /\ b \in unasked[r]
  /\ LET after == TransitionIfNeeded(circuits[b])
     IN  /\ circuits' = [circuits EXCEPT ![b] = after]
         /\ \E answer \in Answers(circuits[b]) :
              /\ healthy' = [healthy EXCEPT ![r] = IF answer THEN @ \cup {b} ELSE @]
              /\ outdated' = [outdated EXCEPT ![r] =
                               IF answer /\ after.state = "Open"
                               THEN @ \cup {b} ELSE @]
  /\ unasked' = [unasked EXCEPT ![r] = @ \ {b}]
  /\ UNCHANGED <<pc, targets, attempts, backend, failedCalls>>

FaultyEligible(r) == Pool[Head(targets[r])]

FaultyNoFallback(r) == healthy[r]

FaultyFallsBackToAll(r) == IF healthy[r] = {} THEN Backends ELSE healthy[r]

\* `pool`: what the selector picks from.
Eligible(r) ==
  IF healthy[r] = {} THEN Pool[Head(targets[r])] ELSE healthy[r]

\* BackendSelector::select, then the call leaves for the backend.
Select(r) ==
  /\ pc[r] = "asking"
  /\ unasked[r] = {}
  /\ \E b \in Eligible(r) : backend' = [backend EXCEPT ![r] = b]
  /\ pc' = [pc EXCEPT ![r] = "calling"]
  /\ outdated' = [outdated EXCEPT ![r] = {}]
  /\ UNCHANGED <<circuits, targets, attempts, unasked, healthy, failedCalls>>

FaultyRetriesOnceMore(r) == attempts[r] <= Cardinality(Pool[Head(targets[r])])

FaultyStopsEarly(r) == attempts[r] + 1 < Cardinality(Pool[Head(targets[r])])

\* attempts < max_attempts
MayRetry(r) == attempts[r] < Cardinality(Pool[Head(targets[r])])

\* proxy_request returned an error: record_failure, then the next turn of the
\* loop or the next target.
CallFails(r) ==
  /\ pc[r] = "calling"
  /\ circuits' = [circuits EXCEPT ![backend[r]] = OnFailure(@)]
  /\ failedCalls' = [failedCalls EXCEPT ![r][Head(targets[r])] = @ + 1]
  /\ outdated' = [q \in Requests |->
                       IF pc[q] = "asking" /\ backend[r] \notin unasked[q]
                       THEN outdated[q] \cup {backend[r]}
                       ELSE outdated[q]]
  /\ \/ /\ MayRetry(r)
        /\ AskAbout(r, Pool[Head(targets[r])])
        /\ UNCHANGED <<targets, backend>>
     \/ /\ ~MayRetry(r)
        /\ LeaveTarget(r)
        /\ targets' = [targets EXCEPT ![r] = Tail(@)]
        /\ pc' = [pc EXCEPT ![r] = "targeting"]

\* proxy_request returned a response (its headers): the target is settled.
CallAnswers(r) ==
  /\ pc[r] = "calling"
  /\ pc' = [pc EXCEPT ![r] = "reading"]
  /\ UNCHANGED <<circuits, targets, attempts, unasked, healthy, backend,
                 history>>

\* The whole body arrived: record_success, and the client gets the response.
BodyRead(r) ==
  /\ pc[r] = "reading"
  /\ circuits' = [circuits EXCEPT ![backend[r]] = OnSuccess(@)]
  /\ Finish(r)

\* The body could not be read: an error for the client, no report to the
\* breaker, no other target.
BodyFails(r) ==
  /\ pc[r] = "reading"
  /\ Finish(r)
  /\ UNCHANGED circuits

\* middleware/timeout.rs drops the handler's future wherever it is waiting
\* (the server does too when the client disconnects): nothing is reported.
Drop(r) ==
  /\ pc[r] \in Active
  /\ Finish(r)
  /\ UNCHANGED circuits

Tick ==
  /\ circuits' = [b \in Backends |-> Older(circuits[b])]
  /\ UNCHANGED <<request, history>>

\* Everything a request does on its own once it has started.
Advance(r) ==
  \/ GiveUp(r) \/ EnterTarget(r) \/ Select(r)
  \/ \E b \in Backends : CheckHealth(r, b)
  \/ CallFails(r) \/ CallAnswers(r)
  \/ BodyRead(r) \/ BodyFails(r)

Next ==
  \/ \E r \in Requests : Resolve(r) \/ Advance(r) \/ Drop(r)
  \/ Tick

Spec == Init /\ [][Next]_vars

\* The runtime polls every task that can go on, the HTTP client bounds every
\* call with its own timeout, and time passes.  Nothing forces clients to
\* send requests, nor a request to be dropped.
Fairness == WF_vars(Tick) /\ \A r \in Requests : WF_vars(Advance(r))

FairSpec == Spec /\ Fairness

-----------------------------------------------------------------------------
(***************************************************************************)
(* Properties                                                              *)
(***************************************************************************)

\* Every request and every circuit has its type; a request that calls a
\* backend has a target, and the backend is one of its candidates.
TypeOK ==
  /\ circuits \in [Backends -> Circuit]
  /\ pc \in [Requests -> Ended \cup Active]
  /\ unasked \in [Requests -> SUBSET Backends]
  /\ healthy \in [Requests -> SUBSET Backends]
  /\ outdated \in [Requests -> SUBSET Backends]
  /\ \A r \in Requests :
       pc[r] \in {"calling", "reading"} =>
         targets[r] # <<>> /\ backend[r] \in Pool[Head(targets[r])]

GivenUp(r, t) == failedCalls[r][t] = Cardinality(Pool[t])

\* A client is told that everything failed only when every target, in this
\* request, had as many failed calls as it has candidates: the loops over
\* targets and attempts neither skip one nor stop early.
ExhaustedOnlyAfterAllAttempts ==
  \A r \in Requests :
    pc[r] = "exhausted" => \A t \in Targets : GivenUp(r, t)

\* A target is called only when all those of higher priority have used up
\* their attempts in this request, however the others' calls interleave.
HigherPriorityFirst ==
  \A r \in Requests :
    pc[r] \in {"calling", "reading"} =>
      \A t \in Targets :
        Priority[t] > Priority[Head(targets[r])] => GivenUp(r, t)

\* A call leaves for a backend whose circuit is open only as the last resort
\* (no candidate answered healthy), because a failure was reported after that
\* backend had answered, or because its timeout elapsed while it answered.
OpenBackendCalledOnlyForCause ==
  [][\A r \in Requests :
       pc[r] = "asking" /\ pc'[r] = "calling" =>
         LET b == backend'[r]
         IN  \/ circuits[b].state # "Open"
             \/ healthy[r] = {}
             \/ b \in outdated[r]]_vars

\* A step that ends request r or gives a target up; or begins another of the
\* target's attempts; or gets further in the present one.
GoesOn(r) ==
  \/ pc'[r] \in Ended
  \/ Len(targets'[r]) < Len(targets[r])
  \/ /\ targets'[r] = targets[r] /\ targets[r] # <<>>
     /\ attempts'[r] \in attempts[r] + 1 .. Cardinality(Pool[Head(targets[r])])
  \/ /\ targets'[r] = targets[r] /\ attempts'[r] = attempts[r]
     /\ \/ pc[r] = "asking" /\ pc'[r] = "calling"
        \/ pc[r] = "calling" /\ pc'[r] = "reading"
        \/ /\ pc[r] = "asking" /\ pc'[r] = "asking"
           /\ unasked'[r] \subseteq unasked[r] /\ unasked'[r] # unasked[r]

\* A step of somebody else.
Stays(r) ==
  /\ pc'[r] = pc[r] /\ targets'[r] = targets[r]
  /\ attempts'[r] = attempts[r] /\ unasked'[r] = unasked[r]

\* Whatever the others do to the circuits it asks about, a request only moves
\* forward, and every step of its own does: neither loop goes round for ever.
RequestsMoveForward ==
  [][\A r \in Requests :
       pc[r] \in Active =>
         /\ GoesOn(r) \/ Stays(r)
         /\ Advance(r) => GoesOn(r)]_vars

\* Every request ends, with a response or an error, without the help of the
\* outer timeout.
RequestEnds ==
  \A r \in Requests : pc[r] \in Active ~> pc[r] \in Ended

\* A backend that keeps answering and no longer fails gets its circuit closed,
\* and closed for good, also when the first of its answers belong to calls
\* made while the circuit was open.
RecoveredBackendCloses ==
  \A b \in Backends :
    /\ <>[][\A r \in Requests : CallFails(r) => backend[r] # b]_vars
    /\ []<><<\E r \in Requests : BodyRead(r) /\ backend[r] = b>>_vars
    => <>[](circuits[b].state = "Closed")

=============================================================================
