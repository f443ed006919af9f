--------------------------- MODULE KeyGovernance ----------------------------
(***************************************************************************)
(* What a client key may do and spend: authentication (middleware/auth.rs),*)
(* the governance pipeline (pipeline.rs, key_limits.rs, governance.rs) and *)
(* the spend counter in Redis (KeyLimits::record_spend).                   *)
(*                                                                         *)
(* One key and one requested model.  A request is authenticated against    *)
(* the key's row, passes the sliding windows, has the spend counter        *)
(* compared with the budget it was authenticated with, has the row read    *)
(* once more and the counter compared with the budget in it, is sent       *)
(* upstream, and is charged when its response is complete.  Meanwhile      *)
(* other requests do the same, an administrator edits or revokes the key,  *)
(* the key expires, and so does the counter.                               *)
(*                                                                         *)
(* Abstractions: money is counted in whole units; the windows' verdicts    *)
(* are nondeterministic (SlidingWindow computes them); a row says whether  *)
(* its allow-list lets the requested model through (an empty list does).   *)
(***************************************************************************)
EXTENDS Integers, FiniteSets

CONSTANTS
  Requests,       \* requests in flight, each slot used again and again
  SentBudgets,    \* the values administrators send for max_spend_usd
  MaxBudget,      \* 1,000,000
  Costs,          \* provider_cost of a response
  DefaultBudget,  \* KeyLimitConfig::default().max_spend_usd
  Enforce,        \* config.enforce_per_key_governance
  Day,            \* TTL of the spend counter, in ticks
  SpendCap        \* bound of the model: the counter is not followed above it

ASSUME GovernanceAssumption ==
  /\ IsFiniteSet(Requests)
  /\ SentBudgets \subseteq Int
  /\ \E most \in SentBudgets \cap 1 .. MaxBudget :
       \A b \in SentBudgets \cap 0 .. MaxBudget : b <= most
  /\ Costs \subseteq Nat
  /\ \E most \in Costs : \A c \in Costs : c <= most
  /\ {DefaultBudget, MaxBudget, SpendCap} \subseteq Nat
  /\ Day \in Nat \ {0}
  /\ Enforce \in BOOLEAN

VARIABLES
  row,       \* the key's row in api_keys
  pc,        \* where each request is
  snap,      \* the row as the request's authentication found it
  gov,       \* the row as the request's GovernanceEngine found it
  cost,      \* what the request's response costs
  spend,     \* key_spend:{id}, or NoCounter when Redis has no such key
  ttl,       \* its TTL, or NoTtl
  blind,     \* history: a request was let through without its spend seen
  stranded   \* history: a charge left the counter without a TTL

ledger == <<spend, ttl>>
request == <<pc, snap, gov, cost>>
vars == <<row, request, ledger, blind, stranded>>

\* The budgets that validate_governance, and update_api_key, let through.
ValidateGovernance(budget) == 0 <= budget /\ budget <= MaxBudget
Budgets == {b \in SentBudgets : ValidateGovernance(b)}

NoBudget == -1   \* max_spend_usd IS NULL
NoTtl == -1
NoCounter == -1

\* What a GET of the counter amounts to: unwrap_or(0.0).
CurrentSpend == IF spend = NoCounter THEN 0 ELSE spend

Row == [is_active : BOOLEAN, expired : BOOLEAN, allowed : BOOLEAN,
        max_spend_usd : Budgets \cup {NoBudget}]

\* No row read yet.
NoRow == [is_active |-> FALSE, expired |-> FALSE, allowed |-> FALSE,
          max_spend_usd |-> NoBudget]

Steps == {"idle", "windows", "budget", "row", "ratio", "calling", "charging",
          "touching"}

-----------------------------------------------------------------------------
(***************************************************************************)
(* The row and its administrator                                           *)
(***************************************************************************)

Init ==
  /\ row \in [is_active : {TRUE}, expired : {FALSE}, allowed : BOOLEAN,
              max_spend_usd : Budgets \cup {NoBudget}]
  /\ pc = [r \in Requests |-> "idle"]
  /\ snap = [r \in Requests |-> NoRow]
  /\ gov = [r \in Requests |-> NoRow]
  /\ cost = [r \in Requests |-> 0]
  /\ spend = NoCounter /\ ttl = NoTtl
  /\ blind = FALSE
  /\ stranded = FALSE

\* update_api_key; a budget can be replaced but not taken away (null in the
\* patch reads as "not in the patch").
UpdateKey ==
  /\ \E budget \in Budgets \cup {row.max_spend_usd}, allowed \in BOOLEAN :
       row' = [row EXCEPT !.max_spend_usd = budget, !.allowed = allowed]
  /\ UNCHANGED <<request, ledger, blind, stranded>>

\* revoke_api_key; no handler makes a revoked key active again.
RevokeKey ==
  /\ row' = [row EXCEPT !.is_active = FALSE]
  /\ UNCHANGED <<request, ledger, blind, stranded>>

\* expires_at is reached; no handler changes it.
KeyExpires ==
  /\ row' = [row EXCEPT !.expired = TRUE]
  /\ UNCHANGED <<request, ledger, blind, stranded>>

-----------------------------------------------------------------------------
(***************************************************************************)
(* A request                                                               *)
(***************************************************************************)

Goto(r, step) == pc' = [pc EXCEPT ![r] = step]

\* The request is over: refused, failed, answered or dropped.
Finish(r) ==
  /\ Goto(r, "idle")
  /\ snap' = [snap EXCEPT ![r] = NoRow]
  /\ gov' = [gov EXCEPT ![r] = NoRow]
  /\ cost' = [cost EXCEPT ![r] = 0]

\* Names that start with Faulty are seeded faults (see README), as in
\* BackendCircuit.
FaultyAdmissible(k) == ~k.expired

Admissible(k) == k.is_active /\ ~k.expired

\* Only a key that is active and has not expired gets beyond the middleware.
Authenticate(r) ==
  /\ pc[r] = "idle"
  /\ Admissible(row)
  /\ Goto(r, "windows")
  /\ snap' = [snap EXCEPT ![r] = row]
  /\ UNCHANGED <<row, gov, cost, ledger, blind, stranded>>

\* check_rate_limit, then the windows of check_limits.
PassWindows(r) ==
  /\ pc[r] = "windows"
  /\ \/ Goto(r, "budget") /\ UNCHANGED <<snap, gov, cost>>
     \/ Finish(r)
  /\ UNCHANGED <<row, ledger, blind, stranded>>

Exceeds(amount, budget) == budget # NoBudget /\ amount >= budget

\* The KeyLimitConfig that run_governance_pipeline makes of the row.
ConfigBudget(r) == IF Enforce THEN snap[r].max_spend_usd ELSE DefaultBudget
ConfigAllows(r) == Enforce => snap[r].allowed

\* check_limits' GET of the counter: an error reads as 0.0.
CheckBudget(r) ==
  /\ pc[r] = "budget"
  /\ \E seen \in {CurrentSpend, 0} :
       IF Exceeds(seen, ConfigBudget(r)) \/ ~ConfigAllows(r)
       THEN Finish(r)
       ELSE Goto(r, "row") /\ UNCHANGED <<snap, gov, cost>>
  /\ UNCHANGED <<row, ledger, blind, stranded>>

\* The request goes upstream; `seen` says whether its spend was compared
\* with a budget in GovernanceEngine.
Admit(r, seen) ==
  /\ Goto(r, "calling")
  /\ blind' = (blind \/ ~seen)

FaultyIgnoresList(k) == ~k.is_active \/ (~k.expired /\ k.max_spend_usd = 0)

\* The blocks that check_request decides on the row alone.
Blocks(k) ==
  \/ ~k.is_active
  \/ /\ ~k.expired
     /\ ~k.allowed \/ k.max_spend_usd = 0

\* GovernanceEngine::check_request up to its read of the counter.  A key that
\* has expired since it was authenticated only gets a soft limit, and neither
\* its allow-list nor its budget is looked at.
ReadRow(r) ==
  /\ pc[r] = "row"
  /\ \/ /\ Blocks(row)
        /\ Finish(r)
        /\ UNCHANGED blind
     \/ /\ ~Blocks(row)
        /\ gov' = [gov EXCEPT ![r] = row]
        /\ IF row.expired \/ row.max_spend_usd = NoBudget
           THEN Admit(r, FALSE)
           ELSE Goto(r, "ratio") /\ UNCHANGED blind
        /\ UNCHANGED <<snap, cost>>
  /\ UNCHANGED <<row, ledger, stranded>>

FaultyOverBudget(r) == CurrentSpend > gov[r].max_spend_usd

\* spend_ratio >= 1.0
OverBudget(r) == CurrentSpend >= gov[r].max_spend_usd

\* get_current_spend fails, or answers and the ratio decides.
CheckRatio(r) ==
  /\ pc[r] = "ratio"
  /\ \/ Finish(r) /\ UNCHANGED blind
     \/ /\ ~OverBudget(r)
        /\ Admit(r, TRUE)
        /\ UNCHANGED <<snap, gov, cost>>
  /\ UNCHANGED <<row, ledger, stranded>>

\* The response is complete, and its usage priced.
Answered(r) ==
  /\ pc[r] = "calling"
  /\ \E c \in Costs : cost' = [cost EXCEPT ![r] = c]
  /\ Goto(r, "charging")
  /\ snap' = [snap EXCEPT ![r] = NoRow]
  /\ gov' = [gov EXCEPT ![r] = NoRow]
  /\ UNCHANGED <<row, ledger, blind, stranded>>

\* record_spend: INCRBYFLOAT, which leaves the TTL of the counter alone ...
Charge(r) ==
  /\ pc[r] = "charging"
  /\ LET total == CurrentSpend + cost[r]
     IN  spend' = IF total <= SpendCap THEN total ELSE SpendCap
  /\ Goto(r, "touching")
  /\ UNCHANGED <<row, snap, gov, cost, ttl, blind, stranded>>

FaultyNewTtl == IF spend = NoCounter \/ ttl = NoTtl THEN NoTtl ELSE Day

FaultyDoubleTtl == IF spend = NoCounter THEN NoTtl ELSE 2 * Day

NewTtl == IF spend = NoCounter THEN NoTtl ELSE Day

\* ... and EXPIRE, which does nothing when the counter is gone by now.
Touch(r) ==
  /\ pc[r] = "touching"
  /\ ttl' = NewTtl
  /\ Finish(r)
  /\ UNCHANGED <<row, spend, blind, stranded>>

\* The upstream call fails, or the request is dropped by its timeout, by its
\* client or by a Redis error.
Drop(r) ==
  /\ pc[r] # "idle"
  /\ Finish(r)
  /\ stranded' = (stranded \/ (/\ pc[r] = "touching"
                               /\ spend # NoCounter
                               /\ ttl = NoTtl))
  /\ UNCHANGED <<row, ledger, blind>>

-----------------------------------------------------------------------------
(***************************************************************************)
(* Time                                                                    *)
(***************************************************************************)

\* The TTL of the counter runs down.
Tick ==
  /\ ttl > 0
  /\ ttl' = ttl - 1
  /\ UNCHANGED <<row, request, spend, blind, stranded>>

\* Redis deletes the counter when its TTL is over.
CounterExpires ==
  /\ ttl = 0
  /\ spend' = NoCounter /\ ttl' = NoTtl
  /\ UNCHANGED <<row, request, blind, stranded>>

Step(r) ==
  \/ PassWindows(r) \/ CheckBudget(r) \/ ReadRow(r) \/ CheckRatio(r)
  \/ Answered(r) \/ Charge(r) \/ Touch(r)

Next ==
  \/ UpdateKey \/ RevokeKey \/ KeyExpires
  \/ \E r \in Requests : Authenticate(r) \/ Step(r) \/ Drop(r)
  \/ Tick \/ CounterExpires

Spec == Init /\ [][Next]_vars

\* Time passes, Redis honours TTLs, and the runtime runs every request to its
\* end.  Clients need not send any.
Fairness ==
  /\ WF_vars(Tick) /\ WF_vars(CounterExpires)
  /\ \A r \in Requests : WF_vars(Step(r) \/ Drop(r))

FairSpec == Spec /\ Fairness

-----------------------------------------------------------------------------
(***************************************************************************)
(* Properties                                                              *)
(***************************************************************************)

\* Every variable has its type; only a counter that exists has a TTL.
TypeOK ==
  /\ row \in Row
  /\ pc \in [Requests -> Steps]
  /\ snap \in [Requests -> Row]
  /\ gov \in [Requests -> Row]
  /\ cost \in [Requests -> Costs \cup {0}]
  /\ spend \in {NoCounter} \cup 0 .. SpendCap
  /\ ttl \in {NoTtl} \cup 0 .. Day
  /\ spend = NoCounter => ttl = NoTtl
  /\ {blind, stranded} \subseteq BOOLEAN

MaxOf(S) == CHOOSE x \in S : \A y \in S : x >= y

\* Spend is recorded only after the response, so requests that run at the
\* same time may exceed the budget together; but never by more than the cost
\* of one request for each of them.
OvershootBounded ==
  ~blind =>
    CurrentSpend < MaxOf(Budgets) + Cardinality(Requests) * MaxOf(Costs)

\* A request goes upstream only if both readings of the row, at its
\* authentication and in the GovernanceEngine, let its model through; the
\* second one may be excused only by the key having expired in between.
AdmittedByBothReadings ==
  \A r \in Requests :
    pc[r] = "calling" =>
      /\ Enforce => snap[r].allowed
      /\ gov[r].is_active
      /\ gov[r].allowed \/ gov[r].expired

\* A counter that has reached every budget blocks the key for a while only:
\* requests already under way may charge it and restart its TTL, but they
\* run out.  A charge that was cut off before its EXPIRE can break this.
ExhaustedKeyRecovers ==
  [](spend >= MaxOf(Budgets) => <>(stranded \/ blind \/ spend = NoCounter))

\* Once a key is revoked, its requests drain and none ever starts again.
RevokedKeyDrains == ~row.is_active ~> [](\A r \in Requests : pc[r] = "idle")

=============================================================================
