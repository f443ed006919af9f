-------------------------- MODULE TargetPoolProofs --------------------------
(***************************************************************************)
(* How requests go through targets and attempts, proved for every number   *)
(* of requests and backends, every pool and priority of the targets, and   *)
(* every breaker.                                                          *)
(***************************************************************************)
EXTENDS TargetPool, FiniteSetTheorems, TLAPS

Size(t) == Cardinality(Pool[t])

\* Pools are finite, and empty only when they have no backend.
LEMMA PoolSize ==
  ASSUME NEW t \in Targets
  PROVE  /\ Pool[t] \subseteq Backends
         /\ Size(t) \in Nat
         /\ Size(t) = 0 <=> Pool[t] = {}
<1>1. Pool[t] \subseteq Backends
  BY PoolAssumption
<1>2. IsFiniteSet(Pool[t])
  BY <1>1, PoolAssumption, FS_Subset
<1> QED
  BY <1>1, <1>2, FS_CardinalityType, FS_EmptySet DEF Size

-----------------------------------------------------------------------------
(***************************************************************************)
(* Types                                                                   *)
(***************************************************************************)

Locals ==
  /\ pc \in [Requests -> Ended \cup Active]
  /\ targets \in [Requests -> Seq(Targets)]
  /\ attempts \in [Requests -> Nat]
  /\ unasked \in [Requests -> SUBSET Backends]
  /\ healthy \in [Requests -> SUBSET Backends]
  /\ backend \in [Requests -> Backends \cup {NoBackend}]
  /\ failedCalls \in [Requests -> [Targets -> Nat]]
  /\ outdated \in [Requests -> SUBSET Backends]

\* What a request asks about, and what it calls, is of its current target.
Current(r) ==
  /\ pc[r] \in {"asking", "calling", "reading"} => targets[r] # <<>>
  /\ pc[r] = "asking" =>
       /\ unasked[r] \subseteq Pool[Head(targets[r])]
       /\ healthy[r] \subseteq Pool[Head(targets[r])]
       /\ Pool[Head(targets[r])] # {}
  /\ pc[r] \in {"calling", "reading"} =>
       backend[r] \in Pool[Head(targets[r])]

Circuits == circuits \in [Backends -> Circuit]

\* The lists of targets that a request may hold: what is left of the sorted
\* list, in its order.
LEMMA ResolvedTargets ==
  ASSUME NEW s \in Resolved
  PROVE  /\ s \in Seq(Targets)
         /\ \A i, j \in 1 .. Len(s) :
              i < j => s[i] # s[j] /\ InOrder(s[i], s[j])
         /\ \A t \in Targets : \E i \in 1 .. Len(s) : s[i] = t
<1> DEFINE n == Cardinality(Targets)
<1>1. n \in Nat /\ IsFiniteSet(Targets)
  BY PoolAssumption, FS_CardinalityType
<1>2. s \in [1 .. n -> Targets]
  BY DEF Resolved
<1>3. s \in Seq(Targets) /\ Len(s) = n
  BY <1>1, <1>2, SMT
<1>4. \A i, j \in 1 .. n : i < j => s[i] # s[j] /\ InOrder(s[i], s[j])
  BY <1>2, Zenon DEF Resolved
<1>5. s \in Injection(1 .. n, Targets)
  <2>1. \A i, j \in 1 .. n : s[i] = s[j] => i = j
    BY <1>1, <1>4, SMT
  <2> QED
    BY <1>2, <2>1, Zenon DEF Injection, IsInjective
<1>6. Cardinality(1 .. n) = n
  BY <1>1, FS_Interval, SMT
<1>7. s \in Surjection(1 .. n, Targets)
  BY <1>1, <1>5, <1>6, FS_Injection
<1> QED
  BY <1>3, <1>4, <1>7, Zenon DEF Surjection

\* A list that is not empty has a head, and a tail that lacks only that.
LEMMA HeadAndTail ==
  ASSUME NEW s \in Seq(Targets), s # <<>>
  PROVE  /\ Len(s) \in Nat /\ 1 \in 1 .. Len(s)
         /\ Head(s) = s[1] /\ Head(s) \in Targets
         /\ Tail(s) \in Seq(Targets)
         /\ \A i \in 1 .. Len(Tail(s)) :
              Tail(s)[i] = s[i + 1] /\ i + 1 \in 1 .. Len(s)
         /\ \A i \in 1 .. Len(s) :
              i = 1 \/ (i - 1 \in 1 .. Len(Tail(s)) /\ Tail(s)[i - 1] = s[i])
  BY SMT

\* The locals of a request that is over.
LEMMA LeaveTypes ==
  ASSUME Locals, NEW r \in Requests, LeaveTarget(r)
  PROVE  /\ attempts' \in [Requests -> Nat] /\ attempts'[r] = 0
         /\ unasked' \in [Requests -> SUBSET Backends]
         /\ healthy' \in [Requests -> SUBSET Backends]
         /\ backend' \in [Requests -> Backends \cup {NoBackend}]
<1>1. attempts' \in [Requests -> Nat] /\ attempts'[r] = 0
  BY SMT DEF Locals, LeaveTarget
<1>2. unasked' \in [Requests -> SUBSET Backends]
      /\ healthy' \in [Requests -> SUBSET Backends]
  BY SMT DEF Locals, LeaveTarget
<1>3. backend' \in [Requests -> Backends \cup {NoBackend}]
  BY SMT DEF Locals, LeaveTarget
<1> QED
  BY <1>1, <1>2, <1>3

LEMMA FinishTypes ==
  ASSUME Locals, NEW r \in Requests, Finish(r)
  PROVE  Locals' /\ pc'[r] = "idle" /\ targets'[r] = <<>> /\ attempts'[r] = 0
<1>1. pc' \in [Requests -> Ended \cup Active] /\ pc'[r] = "idle"
  BY SMT DEF Locals, Finish, Ended, Active
<1>2. targets' \in [Requests -> Seq(Targets)] /\ targets'[r] = <<>>
  BY SMT DEF Locals, Finish
<1>3. failedCalls' \in [Requests -> [Targets -> Nat]]
  BY SMT DEF Locals, Finish
<1>4. outdated' \in [Requests -> SUBSET Backends]
  BY SMT DEF Locals, Finish
<1> QED
  BY <1>1, <1>2, <1>3, <1>4, LeaveTypes DEF Finish, Locals

LEMMA AskTypes ==
  ASSUME Locals, NEW r \in Requests, NEW candidates \in SUBSET Backends,
         AskAbout(r, candidates)
  PROVE  /\ pc' \in [Requests -> Ended \cup Active] /\ pc'[r] = "asking"
         /\ attempts' \in [Requests -> Nat]
         /\ attempts'[r] = attempts[r] + 1
         /\ unasked' \in [Requests -> SUBSET Backends]
         /\ unasked'[r] = candidates
         /\ healthy' \in [Requests -> SUBSET Backends]
         /\ healthy'[r] = {}
<1>1. pc' \in [Requests -> Ended \cup Active] /\ pc'[r] = "asking"
  BY SMT DEF Locals, AskAbout, Ended, Active
<1>2. attempts' \in [Requests -> Nat] /\ attempts'[r] = attempts[r] + 1
  BY SMT DEF Locals, AskAbout
<1>3. unasked' \in [Requests -> SUBSET Backends] /\ unasked'[r] = candidates
  BY SMT DEF Locals, AskAbout
<1>4. healthy' \in [Requests -> SUBSET Backends] /\ healthy'[r] = {}
  BY SMT DEF Locals, AskAbout
<1> QED
  BY <1>1, <1>2, <1>3, <1>4

-----------------------------------------------------------------------------
(***************************************************************************)
(* The invariant of a request                                              *)
(***************************************************************************)

\* The targets left are distinct and in order of priority.
Sorted(r) ==
  \A i, j \in 1 .. Len(targets[r]) :
    i < j => /\ targets[r][i] # targets[r][j]
             /\ InOrder(targets[r][i], targets[r][j])

\* A target that is no longer among them was given up.
Covered(r) ==
  pc[r] # "idle" =>
    \A t \in Targets :
      \/ \E i \in 1 .. Len(targets[r]) : targets[r][i] = t
      \/ GivenUp(r, t)

\* No call went to a target whose turn has not come.
Fresh(r) ==
  \A i \in 1 .. Len(targets[r]) :
    i > 1 \/ pc[r] = "targeting" => failedCalls[r][targets[r][i]] = 0

\* All attempts but the present one have failed.
Counted(r) ==
  /\ pc[r] \in {"idle", "exhausted", "targeting"} => attempts[r] = 0
  /\ pc[r] = "exhausted" => targets[r] = <<>>
  /\ pc[r] \in {"asking", "calling", "reading"} =>
       /\ attempts[r] >= 1
       /\ attempts[r] <= Size(Head(targets[r]))
       /\ failedCalls[r][Head(targets[r])] = attempts[r] - 1

RequestInv(r) ==
  Current(r) /\ Sorted(r) /\ Covered(r) /\ Fresh(r) /\ Counted(r)

\* A request that is not running has nothing to keep.
LEMMA IdleInv ==
  ASSUME NEW r \in Requests, pc'[r] = "idle", targets'[r] = <<>>,
         attempts'[r] = 0
  PROVE  RequestInv(r)'
  BY SMT DEF RequestInv, Current, Sorted, Covered, Fresh, Counted

\* The turn of the first target goes on: whatever happens to it, the others
\* stay as they are.
LEMMA SameTarget ==
  ASSUME Locals, Locals', NEW r \in Requests,
         Sorted(r) /\ Covered(r) /\ Fresh(r),
         pc[r] # "idle", pc'[r] \in {"asking", "calling", "reading"},
         targets[r] # <<>>, targets'[r] = targets[r],
         \A t \in Targets : t # Head(targets[r]) =>
                              failedCalls'[r][t] = failedCalls[r][t]
  PROVE  Sorted(r)' /\ Covered(r)' /\ Fresh(r)'
<1> DEFINE s == targets[r]
<1>a. s \in Seq(Targets) /\ s # <<>>
  BY DEF Locals
<1>b. Len(s) \in Nat /\ 1 \in 1 .. Len(s) /\ Head(s) = s[1]
  BY <1>a, HeadAndTail
<1>1. Sorted(r)'
  BY Zenon DEF Sorted, InOrder
<1>2. Covered(r)'
  <2> SUFFICES ASSUME NEW t \in Targets
               PROVE  \/ \E i \in 1 .. Len(s) : s[i] = t
                      \/ GivenUp(r, t)'
    BY Zenon DEF Covered
  <2>1. CASE t = Head(s)
    BY <1>b, <2>1
  <2>2. CASE t # Head(s)
    BY <2>2, Zenon DEF Covered, GivenUp
  <2> QED
    BY <2>1, <2>2
<1>3. Fresh(r)'
  <2> SUFFICES ASSUME NEW i \in 1 .. Len(s), i > 1
               PROVE  failedCalls'[r][s[i]] = 0
    BY Zenon DEF Fresh
  <2>1. s[i] # s[1] /\ s[i] \in Targets
    BY <1>a, <1>b, SMT DEF Sorted
  <2>2. failedCalls[r][s[i]] = 0
    BY Zenon DEF Fresh
  <2> QED
    BY <1>b, <2>1, <2>2
<1> QED
  BY <1>1, <1>2, <1>3

\* The first target is given up.
LEMMA NextTarget ==
  ASSUME Locals, Locals', NEW r \in Requests,
         Sorted(r) /\ Covered(r) /\ Fresh(r),
         pc[r] # "idle", pc'[r] = "targeting", attempts'[r] = 0,
         targets[r] # <<>>, targets'[r] = Tail(targets[r]),
         failedCalls'[r][Head(targets[r])] = Size(Head(targets[r])),
         \A t \in Targets : t # Head(targets[r]) =>
                              failedCalls'[r][t] = failedCalls[r][t]
  PROVE  RequestInv(r)'
<1> DEFINE s == targets[r]
           u == Tail(s)
<1>a. s \in Seq(Targets) /\ s # <<>>
  BY DEF Locals
<1>b. /\ Len(s) \in Nat /\ 1 \in 1 .. Len(s)
      /\ Head(s) = s[1] /\ Head(s) \in Targets
      /\ \A i \in 1 .. Len(u) : u[i] = s[i + 1] /\ i + 1 \in 1 .. Len(s)
      /\ \A i \in 1 .. Len(s) :
           i = 1 \/ (i - 1 \in 1 .. Len(u) /\ u[i - 1] = s[i])
  BY <1>a, HeadAndTail
<1>c. u \in Seq(Targets) /\ Len(u) \in Nat
  BY <1>a, HeadAndTail
<1>d. targets'[r] = u
  OBVIOUS
<1> HIDE DEF u
<1>1. Sorted(r)'
  <2> SUFFICES ASSUME NEW i \in 1 .. Len(u), NEW j \in 1 .. Len(u), i < j
               PROVE  u[i] # u[j] /\ InOrder(u[i], u[j])
    BY <1>d, SMT DEF Sorted, InOrder
  <2>1. i + 1 \in 1 .. Len(s) /\ j + 1 \in 1 .. Len(s) /\ i + 1 < j + 1
    BY <1>b, <1>c, SMT
  <2>2. u[i] = s[i + 1] /\ u[j] = s[j + 1]
    BY <1>b
  <2>3. s[i + 1] # s[j + 1] /\ InOrder(s[i + 1], s[j + 1])
    BY <2>1, Zenon DEF Sorted
  <2> QED
    BY <2>2, <2>3, Zenon
<1>2. Covered(r)'
  <2> SUFFICES ASSUME NEW t \in Targets
               PROVE  \/ \E i \in 1 .. Len(u) : u[i] = t
                      \/ GivenUp(r, t)'
    BY <1>d, Zenon DEF Covered
  <2>1. CASE t = Head(s)
    BY <2>1, Zenon DEF GivenUp, Size
  <2>2. ASSUME t # Head(s), NEW i \in 1 .. Len(s), s[i] = t
        PROVE  \E k \in 1 .. Len(u) : u[k] = t
    BY <1>b, <2>2, Zenon
  <2>3. CASE t # Head(s) /\ GivenUp(r, t)
    BY <2>3, Zenon DEF GivenUp
  <2> QED
    BY <2>1, <2>2, <2>3, Zenon DEF Covered
<1>3. Fresh(r)'
  <2> SUFFICES ASSUME NEW i \in 1 .. Len(u)
               PROVE  failedCalls'[r][u[i]] = 0
    BY <1>d, Zenon DEF Fresh
  <2>1. i + 1 \in 1 .. Len(s) /\ i + 1 > 1 /\ u[i] = s[i + 1]
    BY <1>b, <1>c, SMT
  <2>2. s[i + 1] # s[1] /\ s[i + 1] \in Targets
    BY <1>a, <1>b, <2>1, SMT DEF Sorted
  <2>3. failedCalls[r][s[i + 1]] = 0
    BY <2>1, Zenon DEF Fresh
  <2> QED
    BY <1>b, <2>1, <2>2, <2>3
<1>4. Current(r)' /\ Counted(r)'
  BY SMT DEF Current, Counted
<1> QED
  BY <1>1, <1>2, <1>3, <1>4 DEF RequestInv

-----------------------------------------------------------------------------
(***************************************************************************)
(* The steps of a request                                                  *)
(***************************************************************************)

LEMMA ResolveStep ==
  ASSUME Locals, NEW r \in Requests, Resolve(r), Counted(r)
  PROVE  Locals' /\ RequestInv(r)'
<1>1. PICK order \in Resolved : targets' = [targets EXCEPT ![r] = order]
  BY DEF Resolve
<1>2. /\ order \in Seq(Targets)
      /\ \A i, j \in 1 .. Len(order) :
           i < j => order[i] # order[j] /\ InOrder(order[i], order[j])
      /\ \A t \in Targets : \E i \in 1 .. Len(order) : order[i] = t
  BY ResolvedTargets
<1>3. targets' \in [Requests -> Seq(Targets)] /\ targets'[r] = order
  BY <1>1, <1>2, SMT DEF Locals
<1>4. pc' \in [Requests -> Ended \cup Active] /\ pc'[r] = "targeting"
  BY SMT DEF Resolve, Locals, Ended, Active
<1>5. /\ failedCalls' \in [Requests -> [Targets -> Nat]]
      /\ failedCalls'[r] = [t \in Targets |-> 0]
  BY SMT DEF Resolve, Locals
<1>6. Locals'
  BY <1>3, <1>4, <1>5 DEF Resolve, Locals
<1>7. Sorted(r)' /\ Covered(r)'
  <2>1. Sorted(r)'
    <3> SUFFICES ASSUME NEW i \in 1 .. Len(order), NEW j \in 1 .. Len(order),
                        i < j
                 PROVE  order[i] # order[j] /\ InOrder(order[i], order[j])
      BY <1>3, Zenon DEF Sorted, InOrder
    <3> QED
      BY <1>2, Zenon
  <2>2. Covered(r)'
    BY <1>2, <1>3, Zenon DEF Covered
  <2> QED
    BY <2>1, <2>2
<1>8. Fresh(r)'
  BY <1>2, <1>3, <1>5, SMT DEF Fresh
<1>9. Current(r)' /\ Counted(r)'
  <2>1. attempts'[r] = 0
    BY SMT DEF Resolve, Counted, Ended
  <2> QED
    BY <1>4, <2>1, SMT DEF Current, Counted
<1> QED
  BY <1>6, <1>7, <1>8, <1>9 DEF RequestInv

LEMMA GiveUpStep ==
  ASSUME Locals, NEW r \in Requests, GiveUp(r), RequestInv(r)
  PROVE  Locals' /\ RequestInv(r)'
<1>1. pc' \in [Requests -> Ended \cup Active] /\ pc'[r] = "exhausted"
  BY SMT DEF GiveUp, Locals, Ended, Active
<1>2. targets'[r] = <<>> /\ targets[r] = <<>> /\ attempts'[r] = 0
  BY SMT DEF GiveUp, RequestInv, Counted
<1>3. Locals'
  BY <1>1 DEF GiveUp, Locals, history
<1>4. Covered(r)'
  BY <1>1, <1>2, Zenon DEF GiveUp, RequestInv, Covered, GivenUp, history
<1>5. Sorted(r)' /\ Fresh(r)' /\ Current(r)' /\ Counted(r)'
  BY <1>1, <1>2, SMT DEF Sorted, Fresh, Current, Counted
<1> QED
  BY <1>3, <1>4, <1>5 DEF RequestInv

LEMMA EnterTargetStep ==
  ASSUME Locals, NEW r \in Requests, EnterTarget(r), RequestInv(r)
  PROVE  Locals' /\ RequestInv(r)'
<1> DEFINE s == targets[r]
           head == Head(targets[r])
<1>a. s \in Seq(Targets) /\ s # <<>> /\ pc[r] = "targeting" /\ pc[r] # "idle"
  BY Zenon DEF Locals, EnterTarget
<1>b. head \in Targets /\ head = s[1] /\ 1 \in 1 .. Len(s)
      /\ Tail(s) \in Seq(Targets)
  BY <1>a, HeadAndTail
<1>c. failedCalls' = failedCalls /\ failedCalls[r][head] = 0
  BY <1>a, <1>b, Zenon DEF EnterTarget, history, RequestInv, Fresh
<1>d. attempts[r] = 0
  BY <1>a, Zenon DEF RequestInv, Counted
<1>1. CASE /\ Pool[head] = {}
           /\ targets' = [targets EXCEPT ![r] = Tail(@)]
           /\ UNCHANGED <<pc, attempts, unasked, healthy>>
  <2>1. targets' \in [Requests -> Seq(Targets)] /\ targets'[r] = Tail(s)
    BY <1>1, <1>b, SMT DEF Locals
  <2>2. Locals'
    BY <1>1, <2>1, Zenon DEF Locals, EnterTarget, history
  <2>3. failedCalls'[r][head] = Size(head)
    BY <1>1, <1>b, <1>c, PoolSize
  <2>4. pc'[r] = "targeting" /\ attempts'[r] = 0
    BY <1>1, <1>a, <1>d
  <2>5. \A t \in Targets : t # head => failedCalls'[r][t] = failedCalls[r][t]
    BY <1>c
  <2>6. RequestInv(r)'
    BY <1>a, <2>1, <2>2, <2>3, <2>4, <2>5, NextTarget DEF RequestInv
  <2> QED
    BY <2>2, <2>6
<1>2. CASE Pool[head] # {} /\ AskAbout(r, Pool[head]) /\ UNCHANGED targets
  <2>1. Pool[head] \in SUBSET Backends /\ Size(head) \in Nat /\ Size(head) # 0
    BY <1>2, <1>b, PoolSize
  <2>2. /\ pc' \in [Requests -> Ended \cup Active] /\ pc'[r] = "asking"
        /\ attempts' \in [Requests -> Nat] /\ attempts'[r] = attempts[r] + 1
        /\ unasked' \in [Requests -> SUBSET Backends]
        /\ unasked'[r] = Pool[head]
        /\ healthy' \in [Requests -> SUBSET Backends] /\ healthy'[r] = {}
    BY <1>2, <2>1, AskTypes
  <2>3. Locals'
    BY <1>2, <2>2, Zenon DEF Locals, EnterTarget, history
  <2>4. targets'[r] = targets[r]
    BY <1>2
  <2>5. Sorted(r)' /\ Covered(r)' /\ Fresh(r)'
    BY <1>a, <1>c, <2>2, <2>3, <2>4, SameTarget DEF RequestInv
  <2>6. Counted(r)'
    BY <1>c, <1>d, <2>1, <2>2, <2>4, SMT DEF Counted
  <2>7. Current(r)'
    BY <1>2, <1>a, <2>2, <2>4, Zenon DEF Current
  <2> QED
    BY <2>3, <2>5, <2>6, <2>7 DEF RequestInv
<1> QED
  BY <1>1, <1>2, Zenon DEF EnterTarget

LEMMA CheckHealthStep ==
  ASSUME Locals, NEW r \in Requests, NEW b \in Backends, CheckHealth(r, b),
         RequestInv(r)
  PROVE  Locals' /\ RequestInv(r)'
<1>1. PICK answer \in Answers(circuits[b]) :
        /\ healthy' = [healthy EXCEPT ![r] = IF answer THEN @ \cup {b} ELSE @]
        /\ outdated' = [outdated EXCEPT ![r] =
                          IF answer
                             /\ TransitionIfNeeded(circuits[b]).state = "Open"
                          THEN @ \cup {b} ELSE @]
  BY Zenon DEF CheckHealth
<1>2. healthy' \in [Requests -> SUBSET Backends]
      /\ (healthy'[r] = healthy[r] \/ healthy'[r] = healthy[r] \cup {b})
  BY <1>1, SMT DEF Locals
<1>3. outdated' \in [Requests -> SUBSET Backends]
  BY <1>1, SMT DEF Locals
<1>4. unasked' \in [Requests -> SUBSET Backends]
      /\ unasked'[r] = unasked[r] \ {b} /\ b \in unasked[r]
  BY SMT DEF CheckHealth, Locals
<1>5. UNCHANGED <<pc, targets, attempts, backend, failedCalls>>
      /\ pc[r] = "asking"
  BY Zenon DEF CheckHealth
<1>6. Locals'
  BY <1>2, <1>3, <1>4, <1>5, Zenon DEF Locals
<1>7. targets[r] # <<>>
  BY <1>5, Zenon DEF RequestInv, Current
<1>8. Sorted(r)' /\ Covered(r)' /\ Fresh(r)'
  <2>1. pc'[r] \in {"asking", "calling", "reading"} /\ pc[r] # "idle"
    BY <1>5
  <2> QED
    BY <1>5, <1>6, <1>7, <2>1, SameTarget DEF RequestInv
<1>9. Counted(r)'
  BY <1>5, Zenon DEF RequestInv, Counted
<1>10. Current(r)'
  BY <1>2, <1>4, <1>5, SMT DEF RequestInv, Current
<1> QED
  BY <1>6, <1>8, <1>9, <1>10 DEF RequestInv

\* A request that goes from one step of a target to the next.
LEMMA MovesOn ==
  ASSUME Locals, Locals', NEW r \in Requests, RequestInv(r),
         UNCHANGED <<targets, attempts, failedCalls>>,
         pc[r] \in {"asking", "calling"}, pc'[r] \in {"calling", "reading"},
         backend'[r] \in Pool[Head(targets[r])]
  PROVE  RequestInv(r)'
<1>1. targets[r] # <<>>
  BY Zenon DEF RequestInv, Current
<1>2. Sorted(r)' /\ Covered(r)' /\ Fresh(r)'
  <2>1. pc'[r] \in {"asking", "calling", "reading"} /\ pc[r] # "idle"
    OBVIOUS
  <2> QED
    BY <1>1, <2>1, SameTarget DEF RequestInv
<1>3. Counted(r)'
  BY SMT DEF RequestInv, Counted
<1>4. Current(r)'
  BY <1>1, SMT DEF Current
<1> QED
  BY <1>2, <1>3, <1>4 DEF RequestInv

LEMMA SelectStep ==
  ASSUME Locals, NEW r \in Requests, Select(r), RequestInv(r)
  PROVE  Locals' /\ RequestInv(r)'
<1>1. UNCHANGED <<targets, attempts, unasked, healthy, failedCalls>>
  BY Zenon DEF Select
<1>2. /\ pc' \in [Requests -> Ended \cup Active]
      /\ pc[r] = "asking" /\ pc'[r] = "calling"
  BY SMT DEF Select, Locals, Ended, Active
<1>3. outdated' \in [Requests -> SUBSET Backends]
  BY SMT DEF Select, Locals
<1>4. /\ targets[r] # <<>> /\ Head(targets[r]) \in Targets
      /\ healthy[r] \subseteq Pool[Head(targets[r])]
  <2>1. targets[r] # <<>> /\ healthy[r] \subseteq Pool[Head(targets[r])]
    BY <1>2, Zenon DEF RequestInv, Current
  <2> QED
    BY <2>1, HeadAndTail DEF Locals
<1>5. /\ backend' \in [Requests -> Backends \cup {NoBackend}]
      /\ backend'[r] \in Pool[Head(targets[r])]
  <2>1. PICK b \in Eligible(r) : backend' = [backend EXCEPT ![r] = b]
    BY DEF Select
  <2>2. b \in Pool[Head(targets[r])]
    BY <1>4, Zenon DEF Eligible
  <2>3. b \in Backends
    BY <1>4, <2>2, PoolSize
  <2> QED
    BY <2>1, <2>2, <2>3, SMT DEF Locals
<1>6. Locals'
  BY <1>1, <1>2, <1>3, <1>5, Zenon DEF Locals
<1> QED
  BY <1>1, <1>2, <1>5, <1>6, MovesOn

LEMMA CallAnswersStep ==
  ASSUME Locals, NEW r \in Requests, CallAnswers(r), RequestInv(r)
  PROVE  Locals' /\ RequestInv(r)'
<1>1. /\ UNCHANGED <<targets, attempts, unasked, healthy, backend>>
      /\ UNCHANGED <<failedCalls, outdated>>
  BY Zenon DEF CallAnswers, history
<1>2. /\ pc' \in [Requests -> Ended \cup Active]
      /\ pc[r] = "calling" /\ pc'[r] = "reading"
  BY SMT DEF CallAnswers, Locals, Ended, Active
<1>3. Locals'
  BY <1>1, <1>2, Zenon DEF Locals
<1>4. backend'[r] \in Pool[Head(targets[r])]
  BY <1>1, <1>2, Zenon DEF RequestInv, Current
<1> QED
  BY <1>1, <1>2, <1>3, <1>4, MovesOn

\* One more failed call to a target leaves the counts of the others alone.
LEMMA OneMoreFailed ==
  ASSUME NEW f \in [Requests -> [Targets -> Nat]],
         NEW r \in Requests, NEW t \in Targets,
         NEW g, g = [f EXCEPT ![r][t] = @ + 1]
  PROVE  /\ g \in [Requests -> [Targets -> Nat]]
         /\ g[r][t] = f[r][t] + 1
         /\ \A u \in Targets : u # t => g[r][u] = f[r][u]
<1> DEFINE h == [f[r] EXCEPT ![t] = f[r][t] + 1]
<1>1. f[r] \in [Targets -> Nat]
  OBVIOUS
<1>2. /\ h \in [Targets -> Nat] /\ h[t] = f[r][t] + 1
      /\ \A u \in Targets : u # t => h[u] = f[r][u]
  BY <1>1, SMT
<1>3. g = [f EXCEPT ![r] = h]
  BY Zenon
<1> HIDE DEF h
<1>4. g \in [Requests -> [Targets -> Nat]] /\ g[r] = h
  BY <1>2, <1>3, SMT
<1> QED
  BY <1>2, <1>4

LEMMA CallFailsStep ==
  ASSUME Locals, NEW r \in Requests, CallFails(r), RequestInv(r)
  PROVE  Locals' /\ RequestInv(r)'
<1> DEFINE head == Head(targets[r])
<1>a. pc[r] = "calling"
  BY Zenon DEF CallFails
<1>b. /\ targets[r] \in Seq(Targets) /\ targets[r] # <<>>
      /\ backend[r] \in Pool[head]
  BY <1>a, Zenon DEF RequestInv, Current, Locals
<1>c. head \in Targets /\ Tail(targets[r]) \in Seq(Targets)
  BY <1>b, HeadAndTail
<1>d. /\ backend[r] \in Backends
      /\ Pool[head] \in SUBSET Backends /\ Pool[head] # {}
      /\ Size(head) \in Nat
  BY <1>b, <1>c, PoolSize
<1>e. /\ attempts[r] \in Nat /\ attempts[r] >= 1 /\ attempts[r] <= Size(head)
      /\ failedCalls[r][head] = attempts[r] - 1
  BY <1>a, Zenon DEF RequestInv, Counted, Locals
<1>f. /\ failedCalls' \in [Requests -> [Targets -> Nat]]
      /\ failedCalls'[r][head] = failedCalls[r][head] + 1
      /\ \A t \in Targets : t # head =>
           failedCalls'[r][t] = failedCalls[r][t]
  <2>1. failedCalls' = [failedCalls EXCEPT ![r][head] = @ + 1]
    BY Zenon DEF CallFails
  <2>2. failedCalls \in [Requests -> [Targets -> Nat]]
    BY DEF Locals
  <2> QED
    BY <1>c, <2>1, <2>2, OneMoreFailed
<1>g. outdated' \in [Requests -> SUBSET Backends]
  BY <1>d, SMT DEF CallFails, Locals
<1>1. CASE /\ MayRetry(r) /\ AskAbout(r, Pool[head])
           /\ UNCHANGED <<targets, backend>>
  <2>1. /\ pc' \in [Requests -> Ended \cup Active] /\ pc'[r] = "asking"
        /\ attempts' \in [Requests -> Nat] /\ attempts'[r] = attempts[r] + 1
        /\ unasked' \in [Requests -> SUBSET Backends]
        /\ unasked'[r] = Pool[head]
        /\ healthy' \in [Requests -> SUBSET Backends] /\ healthy'[r] = {}
    BY <1>1, <1>d, AskTypes
  <2>2. Locals'
    BY <1>1, <1>f, <1>g, <2>1, Zenon DEF Locals
  <2>3. targets'[r] = targets[r] /\ pc[r] # "idle"
        /\ pc'[r] \in {"asking", "calling", "reading"}
    BY <1>1, <1>a, <2>1
  <2>4. Sorted(r)' /\ Covered(r)' /\ Fresh(r)'
    BY <1>b, <1>f, <2>2, <2>3, SameTarget DEF RequestInv
  <2>5. attempts[r] < Size(head)
    BY <1>1, Zenon DEF MayRetry, Size
  <2>6. Counted(r)'
    <3>1. /\ attempts'[r] >= 1 /\ attempts'[r] <= Size(head)
          /\ failedCalls'[r][head] = attempts'[r] - 1
      <4>1. /\ attempts'[r] = attempts[r] + 1
            /\ failedCalls'[r][head] = (attempts[r] - 1) + 1
        BY <1>e, <1>f, <2>1
      <4>2. attempts[r] \in Nat /\ Size(head) \in Nat /\ attempts[r] < Size(head)
        BY <1>d, <1>e, <2>5
      <4> HIDE DEF head
      <4> QED
        BY <4>1, <4>2, SMT
    <3> QED
      BY <2>1, <2>3, <3>1, Zenon DEF Counted
  <2>7. Current(r)'
    BY <1>b, <1>d, <2>1, <2>3, Zenon DEF Current
  <2> QED
    BY <2>2, <2>4, <2>6, <2>7 DEF RequestInv
<1>2. CASE /\ ~MayRetry(r) /\ LeaveTarget(r)
           /\ targets' = [targets EXCEPT ![r] = Tail(@)]
           /\ pc' = [pc EXCEPT ![r] = "targeting"]
  <2>1. targets' \in [Requests -> Seq(Targets)]
        /\ targets'[r] = Tail(targets[r])
    BY <1>2, <1>c, SMT DEF Locals
  <2>2. pc' \in [Requests -> Ended \cup Active] /\ pc'[r] = "targeting"
    BY <1>2, SMT DEF Locals, Ended, Active
  <2>3. Locals' /\ attempts'[r] = 0
    BY <1>2, <1>f, <1>g, <2>1, <2>2, LeaveTypes DEF Locals
  <2>4. failedCalls'[r][head] = Size(head)
    <3>1. ~(attempts[r] < Size(head))
      BY <1>2, Zenon DEF MayRetry, Size
    <3>2. attempts[r] \in Nat /\ Size(head) \in Nat /\ attempts[r] <= Size(head)
      BY <1>d, <1>e
    <3>3. failedCalls'[r][head] = attempts[r] /\ attempts[r] = Size(head)
      <4> DEFINE size == Size(head)
      <4>1. failedCalls'[r][head] = attempts[r]
        BY <1>d, <1>e, <1>f, SMT
      <4>2. ~(attempts[r] < size) /\ attempts[r] \in Nat /\ size \in Nat
            /\ attempts[r] <= size
        BY <3>1, <3>2
      <4> HIDE DEF size
      <4>3. attempts[r] = size
        BY <4>2, SMT
      <4> QED
        BY <4>1, <4>3 DEF size
    <3> QED
      BY <3>3, Zenon
  <2>5. pc[r] # "idle"
    BY <1>a
  <2>6. RequestInv(r)'
    BY <1>b, <1>f, <2>1, <2>2, <2>3, <2>4, <2>5, NextTarget DEF RequestInv
  <2> QED
    BY <2>3, <2>6
<1> QED
  BY <1>1, <1>2, Zenon DEF CallFails

LEMMA FinishStep ==
  ASSUME Locals, NEW r \in Requests, Finish(r)
  PROVE  Locals' /\ RequestInv(r)'
  BY FinishTypes, IdleInv

\* All steps of a request together.
LEMMA RequestStep ==
  ASSUME Locals, NEW r \in Requests, Resolve(r) \/ Advance(r) \/ Drop(r),
         RequestInv(r)
  PROVE  Locals' /\ RequestInv(r)'
<1>1. CASE Resolve(r)
  BY <1>1, ResolveStep DEF RequestInv
<1>2. CASE GiveUp(r)
  BY <1>2, GiveUpStep
<1>3. CASE EnterTarget(r)
  BY <1>3, EnterTargetStep
<1>4. CASE Select(r)
  BY <1>4, SelectStep
<1>5. ASSUME NEW b \in Backends, CheckHealth(r, b)
      PROVE  Locals' /\ RequestInv(r)'
  BY <1>5, CheckHealthStep
<1>6. CASE CallFails(r)
  BY <1>6, CallFailsStep
<1>7. CASE CallAnswers(r)
  BY <1>7, CallAnswersStep
<1>8. CASE BodyRead(r) \/ BodyFails(r) \/ Drop(r)
  BY <1>8, FinishStep DEF BodyRead, BodyFails, Drop
<1> QED
  BY <1>1, <1>2, <1>3, <1>4, <1>5, <1>6, <1>7, <1>8 DEF Advance

-----------------------------------------------------------------------------
(***************************************************************************)
(* The circuits                                                            *)
(***************************************************************************)

\* What a method of BackendCircuit makes of a circuit is one again, and only
\* a failure opens it.
LEMMA CircuitMethods ==
  ASSUME NEW c \in Circuit
  PROVE  /\ OnSuccess(c) \in Circuit
         /\ OnSuccess(c).state = "Open" => c.state = "Open"
         /\ OnFailure(c) \in Circuit
         /\ TransitionIfNeeded(c) \in Circuit
         /\ TransitionIfNeeded(c).state = "Open" => c.state = "Open"
         /\ Older(c) \in Circuit
         /\ Older(c).state = c.state
<1> DEFINE f == c.failures + 1
           opened == IF f >= Threshold THEN "Open" ELSE "Closed"
<1>a. f \in Nat /\ opened \in CircuitState
  BY BreakerAssumption, SMT DEF Circuit, CircuitState
<1>1. OnSuccess(c) \in Circuit /\ (OnSuccess(c).state = "Open" => c.state = "Open")
  <2>1. CASE c.state = "HalfOpen"
    <3>1. OnSuccess(c) = ProbeSucceeded(c)
      BY <2>1, Zenon DEF OnSuccess
    <3>2. CASE c.success_count + 1 >= HalfOpenMaxCalls
      <4>1. OnSuccess(c) = [state |-> "Closed", failures |-> 0,
                            success_count |-> 0,
                            last_failure |-> c.last_failure]
        <5>1. OnSuccess(c) = [c EXCEPT !.state = "Closed", !.failures = 0,
                                       !.success_count = 0]
          BY <3>1, <3>2, Zenon DEF ProbeSucceeded
        <5> QED
          BY <5>1, Zenon DEF Circuit
      <4> QED
        BY <4>1, SMT DEF Circuit, CircuitState
    <3>3. CASE ~(c.success_count + 1 >= HalfOpenMaxCalls)
      BY <2>1, <3>1, <3>3, SMT DEF ProbeSucceeded, Circuit, CircuitState
    <3> QED
      BY <3>2, <3>3
  <2>2. CASE c.state # "HalfOpen"
    BY <2>2, SMT DEF OnSuccess, Circuit, CircuitState
  <2> QED
    BY <2>1, <2>2
<1>2. OnFailure(c) \in Circuit
  <2>1. CASE c.state = "Closed"
    <3>1. OnFailure(c) = [c EXCEPT !.failures = f, !.last_failure = 0,
                                   !.state = opened]
      BY <2>1, Zenon DEF OnFailure
    <3> HIDE DEF f, opened
    <3>2. OnFailure(c) = [state |-> opened, failures |-> f,
                          success_count |-> c.success_count,
                          last_failure |-> 0]
      BY <3>1, Zenon DEF Circuit
    <3> QED
      BY <1>a, <3>2, BreakerAssumption, SMT DEF Circuit
  <2>2. CASE c.state = "HalfOpen"
    <3>1. OnFailure(c) = [c EXCEPT !.state = "Open", !.last_failure = 0,
                                   !.success_count = 0]
      BY <2>2, Zenon DEF OnFailure
    <3>2. OnFailure(c) = [state |-> "Open", failures |-> c.failures,
                          success_count |-> 0, last_failure |-> 0]
      BY <3>1, Zenon DEF Circuit
    <3> QED
      BY <3>2, BreakerAssumption, SMT DEF Circuit, CircuitState
  <2>3. CASE c.state = "Open"
    BY <2>3, BreakerAssumption, SMT DEF OnFailure, Circuit, CircuitState
  <2> QED
    BY <2>1, <2>2, <2>3, SMT DEF Circuit, CircuitState
<1>3. /\ TransitionIfNeeded(c) \in Circuit
      /\ TransitionIfNeeded(c).state = "Open" => c.state = "Open"
  <2>1. CASE c.state = "Open" /\ TimeoutElapsed(c)
    <3>1. TransitionIfNeeded(c) = [state |-> "HalfOpen", failures |-> c.failures,
                                   success_count |-> 0,
                                   last_failure |-> c.last_failure]
      BY <2>1, Zenon DEF TransitionIfNeeded, Circuit
    <3> QED
      BY <3>1, SMT DEF Circuit, CircuitState
  <2>2. CASE ~(c.state = "Open" /\ TimeoutElapsed(c))
    BY <2>2, Zenon DEF TransitionIfNeeded
  <2> QED
    BY <2>1, <2>2
<1>4. Older(c) \in Circuit /\ Older(c).state = c.state
  BY BreakerAssumption, SMT DEF Older, Circuit, CircuitState, NoFailure
<1> QED
  BY <1>1, <1>2, <1>3, <1>4

-----------------------------------------------------------------------------
(***************************************************************************)
(* The other requests and the circuits                                     *)
(***************************************************************************)

Undisturbed(q) ==
  /\ pc'[q] = pc[q]
  /\ targets'[q] = targets[q]
  /\ attempts'[q] = attempts[q]
  /\ unasked'[q] = unasked[q]
  /\ healthy'[q] = healthy[q]
  /\ backend'[q] = backend[q]
  /\ failedCalls'[q] = failedCalls[q]

LEMMA UndisturbedInv ==
  ASSUME NEW q \in Requests, Undisturbed(q), RequestInv(q)
  PROVE  RequestInv(q)'
<1>1. Current(q)'
  BY Zenon DEF Undisturbed, RequestInv, Current
<1>2. Sorted(q)' /\ Fresh(q)'
  BY Zenon DEF Undisturbed, RequestInv, Sorted, Fresh, InOrder
<1>3. Covered(q)'
  BY Zenon DEF Undisturbed, RequestInv, Covered, GivenUp
<1>4. Counted(q)'
  BY Zenon DEF Undisturbed, RequestInv, Counted, Size
<1> QED
  BY <1>1, <1>2, <1>3, <1>4 DEF RequestInv

\* A request changes its own locals only.
LEMMA OthersUndisturbed ==
  ASSUME Locals, NEW r \in Requests,
         Resolve(r) \/ Advance(r) \/ Drop(r),
         NEW q \in Requests, q # r
  PROVE  Undisturbed(q)
<1> USE DEF Advance, Resolve, GiveUp, EnterTarget, CheckHealth, Select,
            CallFails, CallAnswers, BodyRead, BodyFails, Drop, Finish,
            LeaveTarget, AskAbout, history
<1>1. pc' = pc \/ \E x : pc' = [pc EXCEPT ![r] = x]
  BY Zenon
<1>2. targets' = targets \/ \E x : targets' = [targets EXCEPT ![r] = x]
  BY Zenon
<1>3. attempts' = attempts \/ \E x : attempts' = [attempts EXCEPT ![r] = x]
  BY Zenon
<1>4. unasked' = unasked \/ \E x : unasked' = [unasked EXCEPT ![r] = x]
  BY Zenon
<1>5. healthy' = healthy \/ \E x : healthy' = [healthy EXCEPT ![r] = x]
  BY Zenon
<1>6. backend' = backend \/ \E x : backend' = [backend EXCEPT ![r] = x]
  BY Zenon
<1>7. \/ failedCalls' = failedCalls
      \/ \E x : failedCalls' = [failedCalls EXCEPT ![r] = x]
  BY Zenon
<1> USE DEF Locals
<1>8. ASSUME NEW v, NEW T, v \in [Requests -> T], NEW w,
             w = v \/ \E x : w = [v EXCEPT ![r] = x]
      PROVE  w[q] = v[q]
  BY <1>8, Zenon
<1> QED
  BY <1>1, <1>2, <1>3, <1>4, <1>5, <1>6, <1>7, <1>8, Zenon DEF Undisturbed

\* Whatever happens to it, a circuit stays one.
LEMMA CircuitStep ==
  ASSUME Circuits, Locals, NEW r \in Requests, RequestInv(r),
         Resolve(r) \/ Advance(r) \/ Drop(r)
  PROVE  Circuits'
<1>1. ASSUME NEW b \in Backends, NEW c \in Circuit,
             circuits' = [circuits EXCEPT ![b] = c]
      PROVE  Circuits'
  BY <1>1, SMT DEF Circuits
<1>2. ASSUME NEW b \in Backends
      PROVE  circuits[b] \in Circuit
  BY DEF Circuits
<1>3. CASE UNCHANGED circuits
  BY <1>3 DEF Circuits
<1>4. ASSUME NEW b \in Backends, CheckHealth(r, b)
      PROVE  Circuits'
  <2>1. circuits' = [circuits EXCEPT ![b] = TransitionIfNeeded(circuits[b])]
    BY <1>4, Zenon DEF CheckHealth
  <2> QED
    BY <1>1, <1>2, <2>1, CircuitMethods
<1>5. CASE CallFails(r) \/ BodyRead(r)
  <2>1. pc[r] \in {"calling", "reading"}
    BY <1>5, Zenon DEF CallFails, BodyRead
  <2>2. targets[r] # <<>> /\ backend[r] \in Pool[Head(targets[r])]
    BY <2>1, Zenon DEF RequestInv, Current
  <2>3. backend[r] \in Backends
    <3>1. Head(targets[r]) \in Targets
      BY <2>2, HeadAndTail DEF Locals
    <3> QED
      BY <2>2, <3>1, PoolSize
  <2>4. \/ circuits' = [circuits EXCEPT
                          ![backend[r]] = OnFailure(circuits[backend[r]])]
        \/ circuits' = [circuits EXCEPT
                          ![backend[r]] = OnSuccess(circuits[backend[r]])]
    BY <1>5, Zenon DEF CallFails, BodyRead
  <2> QED
    BY <1>1, <1>2, <2>3, <2>4, CircuitMethods
<1> QED
  BY <1>3, <1>4, <1>5, Zenon
     DEF Advance, Resolve, GiveUp, EnterTarget, Select, CallAnswers,
         BodyFails, Drop

-----------------------------------------------------------------------------
(***************************************************************************)
(* The inductive invariant                                                 *)
(***************************************************************************)

Inv == Circuits /\ Locals /\ \A r \in Requests : RequestInv(r)

LEMMA InitInv == Init => Inv
<1> SUFFICES ASSUME Init PROVE Inv
  OBVIOUS
<1>1. Circuits
  <2>1. NewCircuit \in Circuit
    BY SMT DEF NewCircuit, Circuit, CircuitState, NoFailure
  <2> QED
    BY <2>1, SMT DEF Init, Circuits
<1>2. Locals
  BY SMT DEF Init, Locals, Ended, Active
<1>3. ASSUME NEW r \in Requests PROVE RequestInv(r)
  BY SMT
     DEF Init, RequestInv, Current, Sorted, Covered, Fresh, Counted
<1> QED
  BY <1>1, <1>2, <1>3 DEF Inv

LEMMA NextInv == Inv /\ [Next]_vars => Inv'
<1> SUFFICES ASSUME Inv, [Next]_vars PROVE Inv'
  OBVIOUS
<1>1. ASSUME NEW r \in Requests, Resolve(r) \/ Advance(r) \/ Drop(r)
      PROVE  Inv'
  <2>1. Locals' /\ RequestInv(r)' /\ Circuits'
    BY <1>1, RequestStep, CircuitStep DEF Inv
  <2>2. ASSUME NEW q \in Requests, q # r
        PROVE  RequestInv(q)'
    BY <1>1, <2>2, OthersUndisturbed, UndisturbedInv DEF Inv
  <2> QED
    BY <2>1, <2>2, Zenon DEF Inv
<1>2. CASE UNCHANGED <<request, history>>
  <2>1. Locals'
    BY <1>2 DEF Inv, Locals, request, history
  <2>2. ASSUME NEW q \in Requests PROVE RequestInv(q)'
    BY <1>2, UndisturbedInv DEF Inv, Undisturbed, request, history
  <2>3. CASE Tick
    <3>1. \A b \in Backends : Older(circuits[b]) \in Circuit
      BY CircuitMethods DEF Inv, Circuits
    <3>2. Circuits'
      BY <2>3, <3>1, SMT DEF Tick, Circuits
    <3> QED
      BY <2>1, <2>2, <3>2, Zenon DEF Inv
  <2>4. CASE UNCHANGED vars
    BY <2>1, <2>2, <2>4, Zenon DEF Inv, Circuits, vars
  <2>5. ASSUME NEW r \in Requests, Resolve(r) \/ Advance(r) \/ Drop(r)
        PROVE  Inv'
    BY <1>1, <2>5
  <2> QED
    BY <2>3, <2>4, <2>5 DEF Next
<1>3. Tick \/ UNCHANGED vars => UNCHANGED <<request, history>>
  BY Zenon DEF Tick, vars
<1> QED
  BY <1>1, <1>2, <1>3 DEF Next

LEMMA InductiveInvariant == Spec => []Inv
  BY InitInv, NextInv, PTL DEF Spec

\* Every request and every circuit has its type; the backend that a request
\* calls is always a candidate for the target it is at.
THEOREM PoolTypeOK == Spec => []TypeOK
<1>1. Inv => TypeOK
  BY SMT DEF Inv, Circuits, Locals, RequestInv, Current, TypeOK
<1> QED
  BY <1>1, InductiveInvariant, PTL

\* The client is told that everything failed only when every target had as
\* many failed calls, in its request, as it has candidates.
THEOREM PoolTriesEverything == Spec => []ExhaustedOnlyAfterAllAttempts
<1>1. Inv => ExhaustedOnlyAfterAllAttempts
  <2> SUFFICES ASSUME Inv, NEW r \in Requests, pc[r] = "exhausted",
                      NEW t \in Targets
               PROVE  GivenUp(r, t)
    BY Zenon DEF ExhaustedOnlyAfterAllAttempts
  <2>1. RequestInv(r)
    BY DEF Inv
  <2>2. targets[r] = <<>>
    BY <2>1, Zenon DEF RequestInv, Counted
  <2>3. \A i \in 1 .. Len(targets[r]) : FALSE
    BY <2>2, SMT
  <2>4. pc[r] # "idle"
    OBVIOUS
  <2> QED
    BY <2>1, <2>3, <2>4, Zenon DEF RequestInv, Covered
<1> QED
  BY <1>1, InductiveInvariant, PTL

\* A target is called only when every target of higher priority has used up
\* its attempts in this request, however requests interleave.
THEOREM PoolHonoursPriority == Spec => []HigherPriorityFirst
<1>1. Inv => HigherPriorityFirst
  <2> SUFFICES ASSUME Inv, NEW r \in Requests,
                      pc[r] \in {"calling", "reading"}, NEW t \in Targets,
                      Priority[t] > Priority[Head(targets[r])]
               PROVE  GivenUp(r, t)
    BY Zenon DEF HigherPriorityFirst
  <2> DEFINE s == targets[r]
  <2>1. RequestInv(r) /\ s \in Seq(Targets)
    BY DEF Inv, Locals
  <2>2. s # <<>>
    BY <2>1, Zenon DEF RequestInv, Current
  <2>3. Len(s) \in Nat /\ 1 \in 1 .. Len(s) /\ Head(s) = s[1]
        /\ Head(s) \in Targets
    BY <2>1, <2>2, HeadAndTail
  <2>4. Priority[t] \in Int /\ Priority[Head(s)] \in Int
    BY <2>3, PoolAssumption
  <2>5. ASSUME NEW i \in 1 .. Len(s), s[i] = t PROVE FALSE
    <3>1. CASE i = 1
      BY <2>3, <2>4, <2>5, <3>1, SMT
    <3>2. CASE i > 1
      <4>1. InOrder(s[1], s[i])
        BY <2>1, <2>3, <3>2, Zenon DEF RequestInv, Sorted
      <4> QED
        BY <2>3, <2>4, <2>5, <4>1, SMT DEF InOrder
    <3> QED
      BY <2>3, <3>1, <3>2, SMT
  <2>6. pc[r] # "idle"
    OBVIOUS
  <2> QED
    BY <2>1, <2>5, <2>6, Zenon DEF RequestInv, Covered
<1> QED
  BY <1>1, InductiveInvariant, PTL

-----------------------------------------------------------------------------
(***************************************************************************)
(* The health answers a request decides on                                 *)
(***************************************************************************)

\* While it asks, a request knows of every healthy answer that is not true
\* any more: the circuit was open when the answer came, or has opened since.
Accounted(r) ==
  pc[r] = "asking" =>
    /\ healthy[r] \cap unasked[r] = {}
    /\ \A b \in healthy[r] : circuits[b].state = "Open" => b \in outdated[r]

OpenNow(b) == circuits[b].state = "Open"

\* The answers of a request that takes no step stay accounted for, if what
\* opens one of their circuits is noted.
LEMMA AnswersStay ==
  ASSUME NEW q \in Requests, Undisturbed(q), Accounted(q),
         outdated[q] \subseteq outdated'[q],
         \A b \in healthy[q] :
           OpenNow(b)' => OpenNow(b) \/ (pc[q] = "asking" => b \in outdated'[q])
  PROVE  Accounted(q)'
  BY Zenon DEF Undisturbed, Accounted, OpenNow

\* The circuits, but for the one a failure is reported of, open no more.
LEMMA OnlyFailureOpens ==
  ASSUME Circuits, Locals, NEW r \in Requests, RequestInv(r),
         Resolve(r) \/ Advance(r) \/ Drop(r),
         NEW b \in Backends, OpenNow(b)', ~OpenNow(b)
  PROVE  CallFails(r) /\ b = backend[r]
<1>1. circuits[b] \in Circuit
  BY DEF Circuits
<1>2. ASSUME NEW h \in Backends, NEW c,
             circuits' = [circuits EXCEPT ![h] = c]
      PROVE  /\ b = h => circuits'[b] = c
             /\ b # h => circuits'[b] = circuits[b]
  BY <1>2, SMT DEF Circuits
<1>3. ASSUME UNCHANGED circuits PROVE FALSE
  BY <1>3, Zenon DEF OpenNow
<1>4. ASSUME NEW h \in Backends, CheckHealth(r, h) PROVE FALSE
  <2>1. circuits' = [circuits EXCEPT ![h] = TransitionIfNeeded(circuits[h])]
    BY <1>4, Zenon DEF CheckHealth
  <2> QED
    BY <1>1, <1>2, <2>1, CircuitMethods, Zenon DEF OpenNow
<1>5. ASSUME CallFails(r) \/ BodyRead(r) PROVE backend[r] \in Backends
  <2>1. pc[r] \in {"calling", "reading"}
    BY <1>5, Zenon DEF CallFails, BodyRead
  <2>2. targets[r] # <<>> /\ backend[r] \in Pool[Head(targets[r])]
    BY <2>1, Zenon DEF RequestInv, Current
  <2>3. Head(targets[r]) \in Targets
    BY <2>2, HeadAndTail DEF Locals
  <2> QED
    BY <2>2, <2>3, PoolSize
<1>6. ASSUME BodyRead(r) PROVE FALSE
  <2>1. circuits' = [circuits EXCEPT
                       ![backend[r]] = OnSuccess(circuits[backend[r]])]
    BY <1>6, Zenon DEF BodyRead
  <2> QED
    BY <1>1, <1>2, <1>5, <1>6, <2>1, CircuitMethods, Zenon DEF OpenNow
<1>7. ASSUME CallFails(r) PROVE b = backend[r]
  <2>1. circuits' = [circuits EXCEPT
                       ![backend[r]] = OnFailure(circuits[backend[r]])]
    BY <1>7, Zenon DEF CallFails
  <2> QED
    BY <1>2, <1>5, <1>7, <2>1, Zenon DEF OpenNow
<1> QED
  BY <1>3, <1>4, <1>6, <1>7, Zenon
     DEF Advance, Resolve, GiveUp, EnterTarget, Select, CallAnswers,
         BodyFails, Drop

\* The request that takes a step.
LEMMA OwnAnswers ==
  ASSUME Circuits, Locals, NEW r \in Requests, RequestInv(r), Accounted(r),
         Resolve(r) \/ Advance(r) \/ Drop(r)
  PROVE  Accounted(r)'
<1>1. ASSUME NEW x, pc' = [pc EXCEPT ![r] = x], x # "asking"
      PROVE  Accounted(r)'
  BY <1>1, SMT DEF Locals, Accounted
<1>2. CASE Resolve(r) \/ GiveUp(r) \/ Select(r) \/ CallAnswers(r)
           \/ BodyRead(r) \/ BodyFails(r) \/ Drop(r)
  BY <1>1, <1>2, Zenon
     DEF Resolve, GiveUp, Select, CallAnswers, BodyRead, BodyFails, Drop,
         Finish
<1>3. ASSUME NEW candidates, AskAbout(r, candidates)
      PROVE  Accounted(r)'
  <2>1. healthy'[r] = {}
    BY <1>3, SMT DEF AskAbout, Locals
  <2> QED
    BY <2>1, Zenon DEF Accounted
<1>4. CASE CallFails(r)
  <2>1. \/ AskAbout(r, Pool[Head(targets[r])])
        \/ pc' = [pc EXCEPT ![r] = "targeting"]
    BY <1>4, Zenon DEF CallFails
  <2> QED
    BY <1>1, <1>3, <2>1, Zenon
<1>5. CASE EnterTarget(r)
  <2>1. \/ AskAbout(r, Pool[Head(targets[r])])
        \/ pc' = pc /\ pc[r] = "targeting"
    BY <1>5, Zenon DEF EnterTarget
  <2> QED
    BY <1>3, <2>1, Zenon DEF Accounted
<1>6. ASSUME NEW b \in Backends, CheckHealth(r, b)
      PROVE  Accounted(r)'
  <2>1. PICK answer \in Answers(circuits[b]) :
          /\ healthy' = [healthy EXCEPT
                           ![r] = IF answer THEN @ \cup {b} ELSE @]
          /\ outdated' = [outdated EXCEPT ![r] =
                            IF answer
                               /\ TransitionIfNeeded(circuits[b]).state = "Open"
                            THEN @ \cup {b} ELSE @]
    BY <1>6, Zenon DEF CheckHealth
  <2>2. /\ healthy'[r] = IF answer THEN healthy[r] \cup {b} ELSE healthy[r]
        /\ outdated'[r] =
             IF answer /\ TransitionIfNeeded(circuits[b]).state = "Open"
             THEN outdated[r] \cup {b} ELSE outdated[r]
    BY <2>1, Zenon DEF Locals
  <2>3. unasked'[r] = unasked[r] \ {b} /\ pc[r] = "asking" /\ b \in unasked[r]
    BY <1>6, SMT DEF CheckHealth, Locals
  <2>4. circuits'[b] = TransitionIfNeeded(circuits[b])
    BY <1>6, SMT DEF CheckHealth, Circuits
  <2>5. /\ healthy[r] \cap unasked[r] = {}
        /\ \A h \in healthy[r] : OpenNow(h) => h \in outdated[r]
    BY <2>3, Zenon DEF Accounted, OpenNow
  <2>6. healthy'[r] \cap unasked'[r] = {}
    BY <2>2, <2>3, <2>5, Zenon
  <2>7. ASSUME NEW h \in healthy'[r], OpenNow(h)'
        PROVE  h \in outdated'[r]
    <3>1. CASE h = b /\ answer
      BY <2>2, <2>4, <2>7, <3>1, Zenon DEF OpenNow
    <3>2. CASE h \in healthy[r]
      <4>1. h \in Backends
        BY <3>2 DEF Locals
      <4>2. ~CallFails(r)
        BY <2>3, Zenon DEF CallFails
      <4>3. OpenNow(h)
        BY <2>7, <4>1, <4>2, OnlyFailureOpens
      <4>4. h \in outdated[r]
        BY <2>5, <3>2, <4>3
      <4> QED
        BY <2>2, <4>4, Zenon
    <3> QED
      BY <2>2, <2>7, <3>1, <3>2, Zenon
  <2> QED
    BY <2>6, <2>7, Zenon DEF Accounted, OpenNow
<1> QED
  BY <1>2, <1>4, <1>5, <1>6, Zenon DEF Advance

\* The requests that do not: a report that opens a circuit is noted by those
\* that were told it is healthy.
LEMMA OthersAnswers ==
  ASSUME Circuits, Locals, NEW r \in Requests, RequestInv(r),
         Resolve(r) \/ Advance(r) \/ Drop(r),
         NEW q \in Requests, q # r, Accounted(q)
  PROVE  Accounted(q)'
<1>1. Undisturbed(q)
  BY OthersUndisturbed
<1>2. CASE CallFails(r)
  <2>1. outdated'[q] = IF pc[q] = "asking" /\ backend[r] \notin unasked[q]
                       THEN outdated[q] \cup {backend[r]}
                       ELSE outdated[q]
    BY <1>2, Zenon DEF CallFails
  <2>2. ASSUME NEW b \in healthy[q], OpenNow(b)', ~OpenNow(b), pc[q] = "asking"
        PROVE  b \in outdated'[q]
    <3>1. b \in Backends
      BY DEF Locals
    <3>2. b = backend[r]
      BY <2>2, <3>1, OnlyFailureOpens
    <3>3. b \notin unasked[q]
      BY <2>2, Zenon DEF Accounted
    <3> QED
      BY <2>1, <2>2, <3>2, <3>3, Zenon
  <2>3. outdated[q] \subseteq outdated'[q]
    BY <2>1, Zenon
  <2> QED
    BY <1>1, <2>2, <2>3, AnswersStay, Zenon
<1>3. CASE ~CallFails(r)
  <2>1. outdated' = outdated \/ \E x : outdated' = [outdated EXCEPT ![r] = x]
    BY <1>3, Zenon
       DEF Advance, Resolve, GiveUp, EnterTarget, CheckHealth, Select,
           CallAnswers, BodyRead, BodyFails, Drop, Finish, history
  <2>2. outdated'[q] = outdated[q]
    BY <2>1, Zenon DEF Locals
  <2>3. ASSUME NEW b \in healthy[q], OpenNow(b)'
        PROVE  OpenNow(b)
    <3>1. b \in Backends
      BY DEF Locals
    <3> QED
      BY <1>3, <2>3, <3>1, OnlyFailureOpens
  <2> QED
    BY <1>1, <2>2, <2>3, AnswersStay, Zenon
<1> QED
  BY <1>2, <1>3

AnswersInv == Inv /\ \A r \in Requests : Accounted(r)

LEMMA InitAnswersInv == Init => AnswersInv
<1>1. Init => \A r \in Requests : Accounted(r)
  BY SMT DEF Init, Accounted
<1> QED
  BY <1>1, InitInv DEF AnswersInv

LEMMA NextAnswersInv == AnswersInv /\ [Next]_vars => AnswersInv'
<1> SUFFICES ASSUME AnswersInv, [Next]_vars PROVE AnswersInv'
  OBVIOUS
<1>1. Inv'
  BY NextInv DEF AnswersInv
<1>2. ASSUME NEW r \in Requests, Resolve(r) \/ Advance(r) \/ Drop(r),
             NEW q \in Requests
      PROVE  Accounted(q)'
  BY <1>2, OwnAnswers, OthersAnswers DEF AnswersInv, Inv
<1>3. ASSUME UNCHANGED <<request, history>>,
             \A b \in Backends : circuits'[b].state = circuits[b].state,
             NEW q \in Requests
      PROVE  Accounted(q)'
  <2>1. Undisturbed(q) /\ outdated' = outdated
    BY <1>3, Zenon DEF Undisturbed, request, history
  <2>2. \A b \in healthy[q] : OpenNow(b)' => OpenNow(b)
    BY <1>3, Zenon DEF OpenNow, AnswersInv, Inv, Locals
  <2> QED
    BY <2>1, <2>2, AnswersStay, Zenon DEF AnswersInv
<1>4. CASE Tick
  <2>1. \A b \in Backends : circuits'[b].state = circuits[b].state
    BY <1>4, CircuitMethods, Zenon DEF Tick, AnswersInv, Inv, Circuits
  <2>2. UNCHANGED <<request, history>>
    BY <1>4, Zenon DEF Tick
  <2> QED
    BY <1>1, <1>3, <2>1, <2>2, Zenon DEF AnswersInv
<1>5. CASE UNCHANGED vars
  <2>1. UNCHANGED <<request, history>> /\ circuits' = circuits
    BY <1>5, Zenon DEF vars
  <2> QED
    BY <1>1, <1>3, <2>1, Zenon DEF AnswersInv
<1> QED
  BY <1>1, <1>2, <1>4, <1>5, Zenon DEF Next, AnswersInv

\* A call leaves for a backend whose circuit is open only because nothing
\* better answered, or because the circuit opened behind an answer: one
\* request's decision on old answers, under every interleaving with the
\* reports of the others.
THEOREM PoolCallsOpenOnlyForCause == Spec => OpenBackendCalledOnlyForCause
<1>1. Spec => []AnswersInv
  BY InitAnswersInv, NextAnswersInv, PTL DEF Spec
<1> DEFINE Step(r) ==
             pc[r] = "asking" /\ pc'[r] = "calling" =>
               LET b == backend'[r]
               IN  \/ circuits[b].state # "Open"
                   \/ healthy[r] = {}
                   \/ b \in outdated[r]
<1>2. AnswersInv /\ [Next]_vars => [\A r \in Requests : Step(r)]_vars
  <2> SUFFICES ASSUME AnswersInv, Next, NEW r \in Requests,
                      pc[r] = "asking", pc'[r] = "calling",
                      healthy[r] # {}
               PROVE  LET b == backend'[r]
                      IN  circuits[b].state # "Open" \/ b \in outdated[r]
    BY Zenon
  <2>1. Locals /\ Accounted(r)
    BY DEF AnswersInv, Inv
  <2>2. ~Tick
    BY Zenon DEF Tick, request
  <2>3. PICK p \in Requests : Resolve(p) \/ Advance(p) \/ Drop(p)
    BY <2>2, Zenon DEF Next
  <2>4. p = r
    BY <2>1, <2>3, OthersUndisturbed, Zenon DEF Undisturbed
  <2>5. Select(r)
    <3>1. ASSUME NEW x, pc' = [pc EXCEPT ![r] = x] PROVE x = "calling"
      BY <2>1, <3>1, Zenon DEF Locals
    <3>2. ASSUME pc' = pc PROVE FALSE
      BY <3>2, Zenon
    <3> QED
      BY <2>3, <2>4, <3>1, <3>2, Zenon
         DEF Advance, Resolve, GiveUp, EnterTarget, CheckHealth, CallFails,
             CallAnswers, BodyRead, BodyFails, Drop, Finish, AskAbout
  <2>6. backend'[r] \in healthy[r]
    BY <2>1, <2>5, SMT DEF Select, Eligible, Locals
  <2> QED
    BY <2>1, <2>6, Zenon DEF Accounted
<1> QED
  BY <1>1, <1>2, PTL DEF Spec, OpenBackendCalledOnlyForCause

-----------------------------------------------------------------------------
(***************************************************************************)
(* Progress of a request                                                   *)
(***************************************************************************)

\* What is left of a list without its head is shorter.
LEMMA TailShorter ==
  ASSUME NEW s \in Seq(Targets), s # <<>>
  PROVE  Len(Tail(s)) < Len(s)
  BY SMT

\* A further attempt, when the present one is not the last.
LEMMA AnotherAttempt ==
  ASSUME Locals, NEW r \in Requests, targets[r] # <<>>, targets' = targets,
         AskAbout(r, Pool[Head(targets[r])]), MayRetry(r)
  PROVE  GoesOn(r)
<1> DEFINE size == Size(Head(targets[r]))
<1>1. Head(targets[r]) \in Targets
  BY HeadAndTail DEF Locals
<1>2. size \in Nat /\ Pool[Head(targets[r])] \in SUBSET Backends
  BY <1>1, PoolSize
<1>3. attempts[r] \in Nat /\ attempts'[r] = attempts[r] + 1
  BY <1>2, AskTypes DEF Locals
<1>4. attempts[r] < size
  BY Zenon DEF MayRetry, Size
<1> HIDE DEF size
<1>5. attempts'[r] \in attempts[r] + 1 .. size
  BY <1>2, <1>3, <1>4, SMT
<1> QED
  BY <1>5, Zenon DEF GoesOn, size, Size

LEMMA EnterTargetProgress ==
  ASSUME Locals, NEW r \in Requests, RequestInv(r), EnterTarget(r)
  PROVE  GoesOn(r)
<1> DEFINE s == targets[r]
<1>1. s \in Seq(Targets) /\ s # <<>> /\ pc[r] = "targeting"
  BY Zenon DEF Locals, EnterTarget
<1>2. Head(s) \in Targets
  BY <1>1, HeadAndTail
<1>3. CASE targets' = [targets EXCEPT ![r] = Tail(@)]
  <2>1. targets'[r] = Tail(s)
    BY <1>3, Zenon DEF Locals
  <2> QED
    BY <1>1, <2>1, TailShorter, Zenon DEF GoesOn
<1>4. CASE /\ Pool[Head(s)] # {} /\ AskAbout(r, Pool[Head(s)])
           /\ UNCHANGED targets
  <2>1. attempts[r] = 0
    BY <1>1, Zenon DEF RequestInv, Counted
  <2>2. Size(Head(s)) \in Nat /\ Size(Head(s)) # 0
    BY <1>2, <1>4, PoolSize
  <2>3. 0 < Size(Head(s))
    BY <2>2, SMT
  <2>4. MayRetry(r)
    BY <2>1, <2>3, Zenon DEF MayRetry, Size
  <2> QED
    BY <1>1, <1>4, <2>4, AnotherAttempt
<1> QED
  BY <1>3, <1>4, Zenon DEF EnterTarget

LEMMA CallFailsProgress ==
  ASSUME Locals, NEW r \in Requests, RequestInv(r), CallFails(r)
  PROVE  GoesOn(r)
<1>1. targets[r] \in Seq(Targets) /\ targets[r] # <<>>
  <2>1. pc[r] = "calling"
    BY Zenon DEF CallFails
  <2> QED
    BY <2>1, Zenon DEF RequestInv, Current, Locals
<1>2. CASE /\ MayRetry(r) /\ AskAbout(r, Pool[Head(targets[r])])
           /\ UNCHANGED targets
  BY <1>1, <1>2, AnotherAttempt
<1>3. CASE targets' = [targets EXCEPT ![r] = Tail(@)]
  <2>1. targets'[r] = Tail(targets[r])
    BY <1>3, Zenon DEF Locals
  <2> QED
    BY <1>1, <2>1, TailShorter, Zenon DEF GoesOn
<1> QED
  BY <1>2, <1>3, Zenon DEF CallFails

\* Within an attempt: one answer less to wait for, or the next stage.
LEMMA AttemptProgress ==
  ASSUME Locals, NEW r \in Requests,
         \/ \E b \in Backends : CheckHealth(r, b)
         \/ Select(r) \/ CallAnswers(r)
  PROVE  GoesOn(r)
<1>1. ASSUME NEW b \in Backends, CheckHealth(r, b)
      PROVE  GoesOn(r)
  <2>1. unasked'[r] = unasked[r] \ {b} /\ b \in unasked[r]
    BY <1>1, Zenon DEF CheckHealth, Locals
  <2>2. pc[r] = "asking" /\ UNCHANGED <<pc, targets, attempts>>
    BY <1>1, Zenon DEF CheckHealth
  <2>3. unasked'[r] \subseteq unasked[r] /\ unasked'[r] # unasked[r]
    BY <2>1, Zenon
  <2> QED
    BY <2>2, <2>3, Zenon DEF GoesOn
<1>2. CASE Select(r)
  BY <1>2, Zenon DEF Select, Locals, GoesOn
<1>3. CASE CallAnswers(r)
  BY <1>3, Zenon DEF CallAnswers, Locals, GoesOn
<1> QED
  BY <1>1, <1>2, <1>3

\* The steps that end a request.
LEMMA EndProgress ==
  ASSUME Locals, NEW r \in Requests,
         GiveUp(r) \/ BodyRead(r) \/ BodyFails(r) \/ Drop(r)
  PROVE  GoesOn(r)
<1>1. CASE GiveUp(r)
  BY <1>1, Zenon DEF GiveUp, Locals, GoesOn, Ended
<1>2. CASE Finish(r)
  BY <1>2, FinishTypes, Zenon DEF GoesOn, Ended
<1> QED
  BY <1>1, <1>2 DEF BodyRead, BodyFails, Drop

\* A request gives its targets up in turn, spends at most one attempt per
\* candidate on each, and asks about every candidate once per attempt; no
\* interleaving with the others takes any of that back, and no step of its
\* own leaves it where it was.
THEOREM PoolMovesForward == Spec => RequestsMoveForward
<1> DEFINE Forward(r) ==
             pc[r] \in Active =>
               /\ GoesOn(r) \/ Stays(r)
               /\ Advance(r) => GoesOn(r)
<1>1. Inv /\ [Next]_vars => [\A r \in Requests : Forward(r)]_vars
  <2> SUFFICES ASSUME Inv, Next, NEW r \in Requests, pc[r] \in Active
               PROVE  /\ GoesOn(r) \/ Stays(r)
                      /\ Advance(r) => GoesOn(r)
    BY Zenon
  <2>1. Locals /\ RequestInv(r)
    BY DEF Inv
  <2>2. Advance(r) \/ Drop(r) => GoesOn(r)
    BY <2>1, EnterTargetProgress, CallFailsProgress, AttemptProgress,
       EndProgress, Zenon DEF Advance
  <2>3. ~Resolve(r)
    BY Zenon DEF Resolve, Active, Ended
  <2>4. ASSUME NEW q \in Requests, q # r,
               Resolve(q) \/ Advance(q) \/ Drop(q)
        PROVE  Stays(r)
    BY <2>1, <2>4, OthersUndisturbed DEF Undisturbed, Stays
  <2>5. Tick => Stays(r)
    BY Zenon DEF Tick, request, Stays
  <2> QED
    BY <2>2, <2>3, <2>4, <2>5, Zenon DEF Next
<1> QED
  BY <1>1, InductiveInvariant, PTL DEF Spec, RequestsMoveForward

=============================================================================
