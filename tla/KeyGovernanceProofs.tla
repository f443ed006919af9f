------------------------ MODULE KeyGovernanceProofs -------------------------
(***************************************************************************)
(* What a key's requests may spend and do, proved for every number of      *)
(* requests, every set of budgets and of costs, with or without the kill   *)
(* switch: types, both readings of the row, and the bounded overshoot.     *)
(***************************************************************************)
EXTENDS KeyGovernance, FiniteSetTheorems, TLAPS

-----------------------------------------------------------------------------
(***************************************************************************)
(* Arithmetic, maxima and records                                          *)
(***************************************************************************)

\* More requests of the same worth are worth no less.
LEMMA TimesMonotone ==
  ASSUME NEW a \in Nat, NEW b \in Nat, NEW m \in Nat, a <= b
  PROVE  a * m \in Nat /\ b * m \in Nat /\ a * m <= b * m
<1> DEFINE d == b - a
<1>1. d \in Nat /\ b = a + d
  BY SMT
<1>2. d * m \in Nat /\ a * m \in Nat
  BY <1>1, SMT
<1>3. b * m = a * m + d * m
  BY <1>1, SMT
<1> QED
  BY <1>2, <1>3, SMT

\* One request fewer is worth one of them less.
LEMMA TimesLessOne ==
  ASSUME NEW a \in Nat, NEW m \in Nat, a >= 1
  PROVE  (a - 1) * m \in Nat /\ a * m = (a - 1) * m + m
<1>1. a - 1 \in Nat
  BY SMT
<1> QED
  BY <1>1, SMT

\* The largest budget is one, and there is none above it.
LEMMA LargestBudget ==
  /\ MaxOf(Budgets) \in Nat
  /\ \A b \in Budgets : b \in Nat /\ b <= MaxOf(Budgets)
<1>1. \A b \in Budgets : b \in Nat
  BY GovernanceAssumption, SMT DEF Budgets, ValidateGovernance
<1>2. PICK most \in SentBudgets \cap 1 .. MaxBudget :
        \A b \in SentBudgets \cap 0 .. MaxBudget : b <= most
  BY GovernanceAssumption
<1>3. most \in Budgets /\ \A b \in Budgets : most >= b
  BY <1>1, <1>2, GovernanceAssumption, SMT DEF Budgets, ValidateGovernance
<1>4. MaxOf(Budgets) \in Budgets /\ \A b \in Budgets : MaxOf(Budgets) >= b
  BY <1>3, Zenon DEF MaxOf
<1> QED
  BY <1>1, <1>4, SMT

\* Some budget is not zero.
LEMMA SomeBudgetIsPositive == MaxOf(Budgets) \in Nat /\ MaxOf(Budgets) > 0
<1>1. PICK most \in SentBudgets \cap 1 .. MaxBudget : TRUE
  BY GovernanceAssumption
<1>2. most \in Budgets /\ most > 0 /\ most \in Nat
  BY <1>1, GovernanceAssumption, SMT DEF Budgets, ValidateGovernance
<1> QED
  BY <1>2, LargestBudget, SMT

\* So with costs.
LEMMA LargestCost ==
  /\ MaxOf(Costs) \in Nat
  /\ \A c \in Costs \cup {0} : c \in Nat /\ c <= MaxOf(Costs)
<1>1. \A c \in Costs : c \in Nat
  BY GovernanceAssumption
<1>2. PICK most \in Costs : \A c \in Costs : c <= most
  BY GovernanceAssumption
<1>3. \A c \in Costs : most >= c
  BY <1>1, <1>2, SMT
<1>4. MaxOf(Costs) \in Costs /\ \A c \in Costs : MaxOf(Costs) >= c
  BY <1>2, <1>3, Zenon DEF MaxOf
<1> QED
  BY <1>1, <1>4, SMT

\* The row of a request that has read none is a row.
LEMMA NoRowIsRow == NoRow \in Row
  BY Zenon DEF NoRow, Row

\* What the fields of a row are.
LEMMA RowFields ==
  ASSUME NEW k \in Row
  PROVE  /\ k.is_active \in BOOLEAN
         /\ k.expired \in BOOLEAN
         /\ k.allowed \in BOOLEAN
         /\ k.max_spend_usd \in Budgets \cup {NoBudget}
  BY Zenon DEF Row

\* Whatever an administrator or the calendar does to a row leaves it one.
LEMMA EditedRowIsRow ==
  ASSUME NEW k \in Row
  PROVE  /\ \A budget \in Budgets \cup {k.max_spend_usd}, allowed \in BOOLEAN :
              [k EXCEPT !.max_spend_usd = budget, !.allowed = allowed] \in Row
         /\ [k EXCEPT !.is_active = FALSE] \in Row
         /\ [k EXCEPT !.expired = TRUE] \in Row
<1>1. k = [is_active |-> k.is_active, expired |-> k.expired,
           allowed |-> k.allowed, max_spend_usd |-> k.max_spend_usd]
  BY Zenon DEF Row
<1>2. ASSUME NEW budget \in Budgets \cup {k.max_spend_usd},
             NEW allowed \in BOOLEAN
      PROVE  [k EXCEPT !.max_spend_usd = budget, !.allowed = allowed] \in Row
  <2>1. budget \in Budgets \cup {NoBudget}
    BY RowFields, Zenon
  <2> QED
    BY <2>1, RowFields, Zenon DEF Row
<1>3. [k EXCEPT !.is_active = FALSE] \in Row
  BY RowFields, Zenon DEF Row
<1>4. [k EXCEPT !.expired = TRUE] \in Row
  BY RowFields, Zenon DEF Row
<1> QED
  BY <1>2, <1>3, <1>4

-----------------------------------------------------------------------------
(***************************************************************************)
(* Types                                                                   *)
(***************************************************************************)

\* The part of TypeOK that the steps of requests concern ...
RequestTypes ==
  /\ pc \in [Requests -> Steps]
  /\ snap \in [Requests -> Row]
  /\ gov \in [Requests -> Row]
  /\ cost \in [Requests -> Costs \cup {0}]

\* ... and the part about the counter.
LedgerTypes ==
  /\ spend \in {NoCounter} \cup 0 .. SpendCap
  /\ ttl \in {NoTtl} \cup 0 .. Day
  /\ spend = NoCounter => ttl = NoTtl

HistoryTypes == blind \in BOOLEAN /\ stranded \in BOOLEAN

LEMMA TypeParts ==
  /\ TypeOK <=> row \in Row /\ RequestTypes /\ LedgerTypes /\ HistoryTypes
  /\ TypeOK' <=>
       row' \in Row /\ RequestTypes' /\ LedgerTypes' /\ HistoryTypes'
  BY Zenon DEF TypeOK, RequestTypes, LedgerTypes, HistoryTypes

\* The end of a request keeps the types.
LEMMA FinishTypes ==
  ASSUME RequestTypes, NEW r \in Requests, Finish(r)
  PROVE  RequestTypes'
<1>1. pc' \in [Requests -> Steps]
  BY SMT DEF RequestTypes, Finish, Goto, Steps
<1>2. snap' \in [Requests -> Row] /\ gov' \in [Requests -> Row]
  BY NoRowIsRow, SMT DEF RequestTypes, Finish
<1>3. cost' \in [Requests -> Costs \cup {0}]
  BY SMT DEF RequestTypes, Finish
<1> QED
  BY <1>1, <1>2, <1>3 DEF RequestTypes

\* So does a step of its program that leaves the rest alone.
LEMMA GotoTypes ==
  ASSUME RequestTypes, NEW r \in Requests, NEW step \in Steps, Goto(r, step)
  PROVE  pc' \in [Requests -> Steps]
  BY SMT DEF RequestTypes, Goto

LEMMA InitTypeOK == Init => TypeOK
<1> SUFFICES ASSUME Init PROVE TypeOK
  OBVIOUS
<1>1. row \in Row
  BY Zenon DEF Init, Row
<1>2. RequestTypes
  BY NoRowIsRow, SMT DEF Init, RequestTypes, Steps
<1>3. LedgerTypes
  BY SMT DEF Init, LedgerTypes, NoCounter, NoTtl
<1>4. HistoryTypes
  BY Zenon DEF Init, HistoryTypes
<1> QED
  BY <1>1, <1>2, <1>3, <1>4, TypeParts

\* The edits of a row keep it one.
LEMMA EditTypes ==
  ASSUME row \in Row, UpdateKey \/ RevokeKey \/ KeyExpires
  PROVE  row' \in Row /\ UNCHANGED <<request, ledger, blind, stranded>>
<1>1. CASE UpdateKey
  <2>1. PICK budget \in Budgets \cup {row.max_spend_usd}, allowed \in BOOLEAN :
          row' = [row EXCEPT !.max_spend_usd = budget, !.allowed = allowed]
    BY <1>1, Zenon DEF UpdateKey
  <2> QED
    BY <1>1, <2>1, EditedRowIsRow, Zenon DEF UpdateKey
<1>2. CASE RevokeKey
  BY <1>2, EditedRowIsRow, Zenon DEF RevokeKey
<1>3. CASE KeyExpires
  BY <1>3, EditedRowIsRow, Zenon DEF KeyExpires
<1> QED
  BY <1>1, <1>2, <1>3

\* What a request does keeps the types of what requests remember.
LEMMA StepTypes ==
  ASSUME row \in Row, RequestTypes, NEW r \in Requests,
         Authenticate(r) \/ Step(r) \/ Drop(r)
  PROVE  RequestTypes'
<1>1. CASE Authenticate(r)
  <2>1. pc' \in [Requests -> Steps]
    BY <1>1, GotoTypes DEF Authenticate, Steps
  <2>2. snap' \in [Requests -> Row] /\ UNCHANGED <<gov, cost>>
    BY <1>1, SMT DEF Authenticate, RequestTypes
  <2> QED
    BY <2>1, <2>2 DEF RequestTypes
<1>2. CASE PassWindows(r)
  <2>1. CASE Finish(r)
    BY <2>1, FinishTypes
  <2>2. CASE Goto(r, "budget") /\ UNCHANGED <<snap, gov, cost>>
    BY <2>2, GotoTypes DEF RequestTypes, Steps
  <2> QED
    BY <1>2, <2>1, <2>2 DEF PassWindows
<1>3. CASE CheckBudget(r)
  <2>1. CASE Finish(r)
    BY <2>1, FinishTypes
  <2>2. CASE Goto(r, "row") /\ UNCHANGED <<snap, gov, cost>>
    BY <2>2, GotoTypes DEF RequestTypes, Steps
  <2> QED
    BY <1>3, <2>1, <2>2, Zenon DEF CheckBudget
<1>4. CASE ReadRow(r)
  <2>1. CASE Finish(r)
    BY <2>1, FinishTypes
  <2>2. CASE /\ gov' = [gov EXCEPT ![r] = row]
             /\ Goto(r, "calling") \/ Goto(r, "ratio")
             /\ UNCHANGED <<snap, cost>>
    <3>1. pc' \in [Requests -> Steps]
      BY <2>2, GotoTypes DEF Steps
    <3>2. gov' \in [Requests -> Row]
      BY <2>2, SMT DEF RequestTypes
    <3> QED
      BY <2>2, <3>1, <3>2 DEF RequestTypes
  <2> QED
    BY <1>4, <2>1, <2>2, Zenon DEF ReadRow, Admit
<1>5. CASE CheckRatio(r)
  <2>1. CASE Finish(r)
    BY <2>1, FinishTypes
  <2>2. CASE Goto(r, "calling") /\ UNCHANGED <<snap, gov, cost>>
    BY <2>2, GotoTypes DEF RequestTypes, Steps
  <2> QED
    BY <1>5, <2>1, <2>2, Zenon DEF CheckRatio, Admit
<1>6. CASE Answered(r)
  <2>1. pc' \in [Requests -> Steps]
    BY <1>6, GotoTypes DEF Answered, Steps
  <2>2. snap' \in [Requests -> Row] /\ gov' \in [Requests -> Row]
    BY <1>6, NoRowIsRow, SMT DEF Answered, RequestTypes
  <2>3. cost' \in [Requests -> Costs \cup {0}]
    BY <1>6, SMT DEF Answered, RequestTypes
  <2> QED
    BY <2>1, <2>2, <2>3 DEF RequestTypes
<1>7. CASE Charge(r)
  <2>1. pc' \in [Requests -> Steps]
    BY <1>7, GotoTypes DEF Charge, Steps
  <2> QED
    BY <1>7, <2>1 DEF Charge, RequestTypes
<1>8. CASE Touch(r) \/ Drop(r)
  BY <1>8, FinishTypes DEF Touch, Drop
<1> QED
  BY <1>1, <1>2, <1>3, <1>4, <1>5, <1>6, <1>7, <1>8 DEF Step

\* What a GET of the counter amounts to is an amount of money.
LEMMA SpendIsAmount ==
  ASSUME LedgerTypes
  PROVE  CurrentSpend \in Nat
  BY SMT DEF LedgerTypes, CurrentSpend, NoCounter

\* Charging and touching keep the types of the counter; so does time.
LEMMA LedgerStepTypes ==
  ASSUME RequestTypes, LedgerTypes,
         \/ \E r \in Requests : Charge(r) \/ Touch(r)
         \/ Tick \/ CounterExpires
  PROVE  LedgerTypes'
<1> USE GovernanceAssumption
<1>1. ASSUME NEW r \in Requests, Charge(r)
      PROVE  LedgerTypes'
  <2>1. cost[r] \in Nat
    <3>1. cost[r] \in Costs \cup {0}
      BY Zenon DEF RequestTypes
    <3> QED
      BY <3>1, LargestCost, Zenon
  <2>2. CurrentSpend \in Nat
    BY SpendIsAmount
  <2>3. spend' \in 0 .. SpendCap /\ ttl' = ttl
    BY <1>1, <2>1, <2>2, SMT DEF Charge
  <2> QED
    BY <2>3, SMT DEF LedgerTypes, NoCounter
<1>2. ASSUME NEW r \in Requests, Touch(r)
      PROVE  LedgerTypes'
  BY <1>2, SMT DEF Touch, NewTtl, LedgerTypes, NoCounter, NoTtl
<1>3. CASE Tick
  BY <1>3, SMT DEF Tick, LedgerTypes, NoCounter, NoTtl
<1>4. CASE CounterExpires
  BY <1>4, SMT DEF CounterExpires, LedgerTypes, NoCounter, NoTtl
<1> QED
  BY <1>1, <1>2, <1>3, <1>4

\* The histories stay Boolean.
LEMMA HistoryStepTypes ==
  ASSUME HistoryTypes, NEW r \in Requests,
         Authenticate(r) \/ Step(r) \/ Drop(r)
  PROVE  HistoryTypes'
<1>1. CASE UNCHANGED <<blind, stranded>>
  BY <1>1 DEF HistoryTypes
<1>2. CASE Drop(r)
  BY <1>2, Zenon DEF Drop, HistoryTypes
<1>3. CASE ReadRow(r)
  BY <1>3, Zenon DEF ReadRow, Admit, HistoryTypes
<1>4. CASE CheckRatio(r)
  BY <1>4, Zenon DEF CheckRatio, Admit, HistoryTypes
<1> QED
  BY <1>1, <1>2, <1>3, <1>4, Zenon
     DEF Authenticate, Step, PassWindows, CheckBudget, Answered, Charge, Touch

LEMMA NextTypeOK == TypeOK /\ [Next]_vars => TypeOK'
<1> SUFFICES ASSUME TypeOK, [Next]_vars PROVE TypeOK'
  OBVIOUS
<1>a. row \in Row /\ RequestTypes /\ LedgerTypes /\ HistoryTypes
  BY TypeParts
<1>1. CASE UpdateKey \/ RevokeKey \/ KeyExpires
  <2>1. row' \in Row /\ UNCHANGED <<request, ledger, blind, stranded>>
    BY <1>1, <1>a, EditTypes
  <2>2. RequestTypes' /\ LedgerTypes' /\ HistoryTypes'
    BY <2>1, <1>a
       DEF request, ledger, RequestTypes, LedgerTypes, HistoryTypes
  <2> QED
    BY <2>1, <2>2, TypeParts
<1>2. ASSUME NEW r \in Requests, Authenticate(r) \/ Step(r) \/ Drop(r)
      PROVE  TypeOK'
  <2>1. row' = row
    BY <1>2, Zenon
       DEF Authenticate, Step, PassWindows, CheckBudget, ReadRow, CheckRatio,
           Answered, Charge, Touch, Drop
  <2>2. RequestTypes'
    BY <1>2, <1>a, StepTypes
  <2>3. LedgerTypes'
    <3>1. CASE Charge(r) \/ Touch(r)
      BY <3>1, <1>a, LedgerStepTypes
    <3>2. CASE UNCHANGED ledger
      BY <3>2, <1>a DEF ledger, LedgerTypes
    <3> QED
      BY <1>2, <3>1, <3>2, Zenon
         DEF Authenticate, Step, PassWindows, CheckBudget, ReadRow,
             CheckRatio, Answered, Drop
  <2>4. HistoryTypes'
    BY <1>2, <1>a, HistoryStepTypes
  <2> QED
    BY <1>a, <2>1, <2>2, <2>3, <2>4, TypeParts
<1>3. CASE Tick \/ CounterExpires
  <2>1. UNCHANGED <<row, request, blind, stranded>>
    BY <1>3 DEF Tick, CounterExpires
  <2>2. RequestTypes' /\ HistoryTypes'
    BY <2>1, <1>a DEF request, RequestTypes, HistoryTypes
  <2>3. LedgerTypes'
    BY <1>3, <1>a, LedgerStepTypes
  <2> QED
    BY <1>a, <2>1, <2>2, <2>3, TypeParts
<1>4. CASE UNCHANGED vars
  BY <1>4, <1>a, TypeParts
     DEF vars, request, ledger, RequestTypes, LedgerTypes, HistoryTypes
<1> QED
  BY <1>1, <1>2, <1>3, <1>4 DEF Next

\* Every variable has its type, whatever requests, administrators and Redis
\* do; only a counter that exists has a TTL.
THEOREM TypesHold == Spec => []TypeOK
<1>1. TypeOK /\ [Next]_vars => TypeOK'
  BY NextTypeOK
<1> QED
  BY InitTypeOK, <1>1, PTL DEF Spec

-----------------------------------------------------------------------------
(***************************************************************************)
(* Both readings of the row                                                *)
(***************************************************************************)

\* How far a request has come tells what its two readings of the row said.
PastFirst(r) ==
  pc[r] \in {"row", "ratio", "calling"} => (Enforce => snap[r].allowed)

PastSecond(r) ==
  pc[r] \in {"ratio", "calling"} =>
    gov[r].is_active /\ (gov[r].allowed \/ gov[r].expired)

HasBudget(r) == pc[r] = "ratio" => gov[r].max_spend_usd # NoBudget

ReadingInv == \A r \in Requests : PastFirst(r) /\ PastSecond(r) /\ HasBudget(r)

\* A request's state is its own.
Undisturbed(q) ==
  pc'[q] = pc[q] /\ snap'[q] = snap[q] /\ gov'[q] = gov[q]

LEMMA UndisturbedReads ==
  ASSUME NEW q \in Requests, Undisturbed(q),
         PastFirst(q) /\ PastSecond(q) /\ HasBudget(q)
  PROVE  PastFirst(q)' /\ PastSecond(q)' /\ HasBudget(q)'
  BY Zenon DEF Undisturbed, PastFirst, PastSecond, HasBudget

\* A request that ends is past neither reading.
LEMMA FinishReads ==
  ASSUME RequestTypes, NEW r \in Requests, Finish(r)
  PROVE  PastFirst(r)' /\ PastSecond(r)' /\ HasBudget(r)'
<1>1. pc'[r] = "idle"
  BY SMT DEF RequestTypes, Finish, Goto
<1> QED
  BY <1>1 DEF PastFirst, PastSecond, HasBudget

\* The step that a request takes leaves the others alone ...
LEMMA OthersUndisturbed ==
  ASSUME RequestTypes, NEW r \in Requests,
         Authenticate(r) \/ Step(r) \/ Drop(r),
         NEW q \in Requests, q # r
  PROVE  Undisturbed(q)
<1>1. \E step \in Steps : Goto(r, step)
  BY Zenon DEF Authenticate, Step, PassWindows, CheckBudget, ReadRow, CheckRatio,
         Answered, Charge, Touch, Drop, Finish, Admit, Steps
<1>2. pc'[q] = pc[q]
  BY <1>1, SMT DEF Goto, RequestTypes
<1>3. snap' = snap \/ \E k : snap' = [snap EXCEPT ![r] = k]
  BY Zenon DEF Authenticate, Step, PassWindows, CheckBudget, ReadRow, CheckRatio,
         Answered, Charge, Touch, Drop, Finish
<1>4. gov' = gov \/ \E k : gov' = [gov EXCEPT ![r] = k]
  BY Zenon DEF Authenticate, Step, PassWindows, CheckBudget, ReadRow, CheckRatio,
         Answered, Charge, Touch, Drop, Finish
<1>5. snap'[q] = snap[q]
  BY <1>3, SMT DEF RequestTypes
<1>6. gov'[q] = gov[q]
  BY <1>4, SMT DEF RequestTypes
<1> QED
  BY <1>2, <1>5, <1>6 DEF Undisturbed

\* ... and gets past a reading only if that lets it.
LEMMA StepReads ==
  ASSUME row \in Row, RequestTypes, NEW r \in Requests,
         PastFirst(r) /\ PastSecond(r) /\ HasBudget(r),
         Authenticate(r) \/ Step(r) \/ Drop(r)
  PROVE  PastFirst(r)' /\ PastSecond(r)' /\ HasBudget(r)'
<1>a. CASE Finish(r)
  BY <1>a, FinishReads
<1>b. ASSUME NEW step \in {"windows", "budget", "charging", "touching"},
             Goto(r, step)
      PROVE  PastFirst(r)' /\ PastSecond(r)' /\ HasBudget(r)'
  <2>1. pc'[r] = step
    BY <1>b, SMT DEF Goto, RequestTypes
  <2> QED
    BY <2>1, SMT DEF PastFirst, PastSecond, HasBudget
<1>1. CASE CheckBudget(r)
  <2>1. CASE ConfigAllows(r) /\ Goto(r, "row") /\ UNCHANGED <<snap, gov>>
    <3>1. pc'[r] = "row"
      BY <2>1, SMT DEF Goto, RequestTypes
    <3> QED
      BY <2>1, <3>1, Zenon
         DEF PastFirst, PastSecond, HasBudget, ConfigAllows
  <2> QED
    BY <1>1, <1>a, <2>1, Zenon DEF CheckBudget
<1>2. CASE ReadRow(r)
  <2>1. CASE /\ ~Blocks(row)
             /\ gov' = [gov EXCEPT ![r] = row]
             /\ \/ Goto(r, "calling")
                \/ row.max_spend_usd # NoBudget /\ Goto(r, "ratio")
             /\ pc[r] = "row" /\ UNCHANGED snap
    <3>1. gov'[r] = row
      BY <2>1, SMT DEF RequestTypes
    <3>2. row.is_active /\ (row.allowed \/ row.expired)
      BY <2>1, RowFields, Zenon DEF Blocks
    <3>3. \/ pc'[r] = "calling"
          \/ pc'[r] = "ratio" /\ row.max_spend_usd # NoBudget
      BY <2>1, SMT DEF Goto, RequestTypes
    <3> QED
      BY <2>1, <3>1, <3>2, <3>3, Zenon DEF PastFirst, PastSecond, HasBudget
  <2> QED
    BY <1>2, <1>a, <2>1, Zenon DEF ReadRow, Admit
<1>3. CASE CheckRatio(r)
  <2>1. CASE pc[r] = "ratio" /\ Goto(r, "calling") /\ UNCHANGED <<snap, gov>>
    <3>1. pc'[r] = "calling"
      BY <2>1, SMT DEF Goto, RequestTypes
    <3> QED
      BY <2>1, <3>1, Zenon DEF PastFirst, PastSecond, HasBudget
  <2> QED
    BY <1>3, <1>a, <2>1, Zenon DEF CheckRatio, Admit
<1>4. CASE \/ Authenticate(r) \/ PassWindows(r) \/ Answered(r) \/ Charge(r)
           \/ Touch(r) \/ Drop(r)
  BY <1>4, <1>a, <1>b, Zenon
     DEF Authenticate, PassWindows, Answered, Charge, Touch, Drop
<1> QED
  BY <1>1, <1>2, <1>3, <1>4 DEF Step

\* Nobody but requests themselves moves them.
LEMMA EnvironmentUndisturbed ==
  ASSUME UpdateKey \/ RevokeKey \/ KeyExpires \/ Tick \/ CounterExpires
         \/ UNCHANGED vars
  PROVE  UNCHANGED request
  BY Zenon DEF UpdateKey, RevokeKey, KeyExpires, Tick, CounterExpires, vars

LEMMA NextReadingInv ==
  TypeOK /\ ReadingInv /\ [Next]_vars => ReadingInv'
<1> SUFFICES ASSUME TypeOK, ReadingInv, [Next]_vars,
                    NEW q \in Requests
             PROVE  PastFirst(q)' /\ PastSecond(q)' /\ HasBudget(q)'
  BY Zenon DEF ReadingInv
<1>a. row \in Row /\ RequestTypes
  BY TypeParts
<1>b. PastFirst(q) /\ PastSecond(q) /\ HasBudget(q)
  BY DEF ReadingInv
<1>1. CASE UNCHANGED request
  BY <1>1, <1>b, UndisturbedReads DEF request, Undisturbed
<1>2. ASSUME NEW r \in Requests, Authenticate(r) \/ Step(r) \/ Drop(r)
      PROVE  PastFirst(q)' /\ PastSecond(q)' /\ HasBudget(q)'
  <2>1. CASE q = r
    BY <1>2, <1>a, <1>b, <2>1, StepReads
  <2>2. CASE q # r
    BY <1>2, <1>a, <1>b, <2>2, OthersUndisturbed, UndisturbedReads
  <2> QED
    BY <2>1, <2>2
<1> QED
  BY <1>1, <1>2, EnvironmentUndisturbed DEF Next

LEMMA InitReadingInv == Init => ReadingInv
  BY SMT DEF Init, ReadingInv, PastFirst, PastSecond, HasBudget

\* A request goes upstream only if the row allowed its model when it was
\* authenticated (if governance per key is enforced) and again when the
\* GovernanceEngine read it, unless the key had expired in between.
THEOREM BothReadingsHold == Spec => []AdmittedByBothReadings
<1>1. TypeOK /\ ReadingInv /\ [Next]_vars => TypeOK' /\ ReadingInv'
  BY NextTypeOK, NextReadingInv
<1>2. ReadingInv => AdmittedByBothReadings
  BY SMT DEF ReadingInv, PastFirst, PastSecond, AdmittedByBothReadings
<1> QED
  BY InitTypeOK, InitReadingInv, <1>1, <1>2, PTL DEF Spec

-----------------------------------------------------------------------------
(***************************************************************************)
(* The bounded overshoot                                                   *)
(***************************************************************************)

\* The requests that have been let through and not charged yet.
Pending == {r \in Requests : pc[r] \in {"calling", "charging"}}

\* What a key may come to: its budget, and a request's cost for each slot.
Ceiling == MaxOf(Budgets) + Cardinality(Requests) * MaxOf(Costs)

\* What has been spent and what the pending requests may still add to it.
OvershootInv ==
  ~blind => CurrentSpend + Cardinality(Pending) * MaxOf(Costs) < Ceiling

\* The pending requests are finitely many, and are so after any step.
LEMMA PendingFinite ==
  /\ IsFiniteSet(Pending) /\ Cardinality(Pending) \in Nat
  /\ Cardinality(Pending) <= Cardinality(Requests)
  /\ IsFiniteSet(Pending') /\ Cardinality(Pending') \in Nat
  /\ Cardinality(Pending') <= Cardinality(Requests)
  /\ Cardinality(Requests) \in Nat
<1>1. Pending \subseteq Requests /\ Pending' \subseteq Requests
  BY DEF Pending
<1> QED
  BY <1>1, GovernanceAssumption, FS_Subset, FS_CardinalityType

\* No more pending, and no more spent: the invariant stays.
LEMMA NoMorePending ==
  ASSUME LedgerTypes, LedgerTypes', OvershootInv, blind' = blind,
         CurrentSpend' <= CurrentSpend, Pending' \subseteq Pending
  PROVE  OvershootInv'
<1> DEFINE m == MaxOf(Costs)
           n == Cardinality(Pending)
           k == Cardinality(Pending')
<1>1. m \in Nat /\ n \in Nat /\ k \in Nat /\ k <= n
  BY PendingFinite, FS_Subset, LargestCost
<1>2. n * m \in Nat /\ k * m \in Nat /\ k * m <= n * m
  BY <1>1, TimesMonotone
<1>3. CurrentSpend \in Nat /\ CurrentSpend' \in Nat /\ Ceiling \in Nat
  <2>1. Cardinality(Requests) * m \in Nat
    BY <1>1, PendingFinite, TimesMonotone
  <2>2. Ceiling \in Nat
    BY <2>1, LargestBudget, SMT DEF Ceiling
  <2>3. CurrentSpend \in Nat /\ CurrentSpend' \in Nat
    BY SMT DEF LedgerTypes, CurrentSpend, NoCounter
  <2> QED
    BY <2>2, <2>3
<1>4. CASE blind
  BY <1>4, Zenon DEF OvershootInv
<1>5. CASE ~blind
  <2>1. CurrentSpend + n * m < Ceiling
    BY <1>5 DEF OvershootInv
  <2> HIDE DEF m, n, k
  <2>2. CurrentSpend' + k * m < Ceiling
    BY <1>2, <1>3, <2>1, SMT
  <2> USE DEF m, n, k
  <2>3. Ceiling' = Ceiling
    BY Zenon DEF Ceiling
  <2> QED
    BY <2>2, <2>3, Zenon DEF OvershootInv
<1> QED
  BY <1>4, <1>5

\* A request that the ratio lets through found the counter below a budget.
LEMMA RatioBounds ==
  ASSUME TypeOK, ReadingInv, NEW r \in Requests, CheckRatio(r), OvershootInv
  PROVE  OvershootInv'
<1> DEFINE m == MaxOf(Costs)
           k == Cardinality(Pending')
<1>a. RequestTypes /\ LedgerTypes
  BY TypeParts
<1>b. CurrentSpend' = CurrentSpend /\ CurrentSpend \in Nat /\ LedgerTypes'
  BY <1>a, SpendIsAmount
     DEF CheckRatio, ledger, CurrentSpend, LedgerTypes
<1>1. CASE Finish(r) /\ UNCHANGED blind
  <2>1. Pending' \subseteq Pending
    BY <1>1, <1>a, SMT DEF Finish, Goto, Pending, RequestTypes
  <2>2. CurrentSpend' <= CurrentSpend
    BY <1>b, SMT
  <2> QED
    BY <1>1, <1>a, <1>b, <2>1, <2>2, NoMorePending
<1>2. CASE pc[r] = "ratio" /\ ~OverBudget(r)
  <2>1. gov[r].max_spend_usd \in Budgets
    <3>1. gov[r] \in Row
      BY <1>a DEF RequestTypes
    <3> QED
      BY <1>2, <3>1, RowFields, Zenon DEF ReadingInv, HasBudget
  <2>2. CurrentSpend < MaxOf(Budgets) /\ MaxOf(Budgets) \in Nat
    BY <1>2, <1>b, <2>1, LargestBudget, SMT DEF OverBudget
  <2>3. m \in Nat /\ k * m \in Nat /\ Cardinality(Requests) * m \in Nat
        /\ k * m <= Cardinality(Requests) * m
    BY LargestCost, PendingFinite, TimesMonotone
  <2> HIDE DEF m, k
  <2>4. CurrentSpend + k * m < MaxOf(Budgets) + Cardinality(Requests) * m
    BY <1>b, <2>2, <2>3, SMT
  <2> USE DEF m, k
  <2>5. Ceiling' = MaxOf(Budgets) + Cardinality(Requests) * m
    BY Zenon DEF Ceiling
  <2> QED
    BY <1>b, <2>4, <2>5, Zenon DEF OvershootInv
<1> QED
  BY <1>1, <1>2, Zenon DEF CheckRatio

\* A charge moves the cost of a request from what is pending to what is spent.
LEMMA ChargeBounds ==
  ASSUME TypeOK, TypeOK', NEW r \in Requests, Charge(r), OvershootInv
  PROVE  OvershootInv'
<1> DEFINE m == MaxOf(Costs)
           n == Cardinality(Pending)
           k == Cardinality(Pending')
<1>a. RequestTypes /\ LedgerTypes /\ LedgerTypes'
  BY TypeParts
<1>1. r \in Pending /\ Pending' = Pending \ {r}
  BY <1>a, SMT DEF Charge, Goto, Pending, RequestTypes
<1>2. n \in Nat /\ k = n - 1 /\ n >= 1 /\ k \in Nat
  BY <1>1, PendingFinite, FS_RemoveElement, SMT
<1>3. m \in Nat /\ cost[r] \in Nat /\ cost[r] <= m
  <2>1. cost[r] \in Costs \cup {0}
    BY <1>a, Zenon DEF RequestTypes
  <2> QED
    BY <2>1, LargestCost, Zenon
<1>4. k * m \in Nat /\ n * m = k * m + m
  BY <1>2, <1>3, TimesLessOne
<1>5. CurrentSpend \in Nat /\ CurrentSpend' \in Nat
      /\ CurrentSpend' <= CurrentSpend + cost[r]
  <2>1. CurrentSpend \in Nat
    BY <1>a, SpendIsAmount
  <2>2. spend' \in Nat /\ spend' <= CurrentSpend + cost[r]
    BY <1>3, <2>1, GovernanceAssumption, SMT DEF Charge
  <2> QED
    BY <2>1, <2>2, SMT DEF CurrentSpend, NoCounter
<1>6. Ceiling \in Nat /\ Ceiling' = Ceiling
  <2>1. Cardinality(Requests) * m \in Nat
    BY <1>3, PendingFinite, TimesMonotone
  <2> QED
    BY <2>1, LargestBudget, SMT DEF Ceiling
<1>7. blind' = blind
  BY DEF Charge
<1>8. CASE ~blind
  <2>1. CurrentSpend + n * m < Ceiling
    BY <1>8 DEF OvershootInv
  <2> HIDE DEF m, n, k
  <2>2. CurrentSpend' + k * m < Ceiling
    BY <1>3, <1>4, <1>5, <1>6, <2>1, SMT
  <2> USE DEF m, n, k
  <2> QED
    BY <1>6, <2>2, Zenon DEF OvershootInv
<1> QED
  BY <1>7, <1>8, Zenon DEF OvershootInv

\* No other step lets a request through with its spend seen, or charges one.
LEMMA OtherStepBounds ==
  ASSUME TypeOK, TypeOK', OvershootInv, NEW r \in Requests,
         \/ Authenticate(r) \/ PassWindows(r) \/ CheckBudget(r) \/ ReadRow(r)
         \/ Answered(r) \/ Touch(r) \/ Drop(r)
  PROVE  OvershootInv'
<1>a. RequestTypes /\ LedgerTypes /\ LedgerTypes'
  BY TypeParts
<1>b. CurrentSpend' = CurrentSpend /\ CurrentSpend' <= CurrentSpend
  <2>1. spend' = spend
    BY Zenon DEF Authenticate, PassWindows, CheckBudget, ReadRow, Answered,
           Touch, Drop, ledger
  <2> QED
    BY <1>a, <2>1, SpendIsAmount, SMT DEF CurrentSpend
<1>c. ASSUME NEW step \in {"windows", "budget", "row", "ratio"},
             Goto(r, step) \/ Finish(r)
      PROVE  Pending' \subseteq Pending
  BY <1>a, <1>c, SMT DEF Finish, Goto, Pending, RequestTypes
<1>1. CASE blind' # blind
  <2>1. blind'
    BY <1>1, TypeParts, Zenon
       DEF Authenticate, PassWindows, CheckBudget, ReadRow, Answered, Touch,
           Drop, Admit, HistoryTypes
  <2> QED
    BY <2>1, Zenon DEF OvershootInv
<1>2. CASE blind' = blind /\ Pending' \subseteq Pending
  BY <1>2, <1>a, <1>b, NoMorePending
<1>3. CASE ReadRow(r) /\ Admit(r, FALSE)
  BY <1>3, Zenon DEF Admit, OvershootInv
<1>4. CASE Answered(r)
  <2>1. Pending' \subseteq Pending
    BY <1>4, <1>a, SMT DEF Answered, Goto, Pending, RequestTypes
  <2> QED
    BY <1>1, <1>2, <2>1
<1>5. CASE \E step \in {"windows", "budget", "row", "ratio"} :
             Goto(r, step) \/ Finish(r)
  BY <1>5, <1>c, <1>1, <1>2
<1> QED
  BY <1>3, <1>4, <1>5, Zenon
     DEF Authenticate, PassWindows, CheckBudget, ReadRow, Touch, Drop

LEMMA NextOvershootInv ==
  TypeOK /\ ReadingInv /\ OvershootInv /\ [Next]_vars => OvershootInv'
<1> SUFFICES ASSUME TypeOK, ReadingInv, OvershootInv, [Next]_vars
             PROVE  OvershootInv'
  OBVIOUS
<1>a. TypeOK'
  BY NextTypeOK
<1>b. LedgerTypes /\ LedgerTypes'
  BY <1>a, TypeParts
<1>1. ASSUME NEW r \in Requests, Authenticate(r) \/ Step(r) \/ Drop(r)
      PROVE  OvershootInv'
  BY <1>1, <1>a, RatioBounds, ChargeBounds, OtherStepBounds DEF Step
<1>2. CASE UpdateKey \/ RevokeKey \/ KeyExpires \/ Tick \/ CounterExpires
           \/ UNCHANGED vars
  <2>1. UNCHANGED request
    BY <1>2, EnvironmentUndisturbed
  <2>2. Pending' \subseteq Pending
    BY <2>1, Zenon DEF request, Pending
  <2>3. blind' = blind
    BY <1>2, Zenon
       DEF UpdateKey, RevokeKey, KeyExpires, Tick, CounterExpires, vars
  <2>4. spend' = spend \/ spend' = NoCounter
    BY <1>2, Zenon
       DEF UpdateKey, RevokeKey, KeyExpires, Tick, CounterExpires, vars,
           ledger
  <2>5. CurrentSpend' <= CurrentSpend
    BY <1>b, <2>4, SMT DEF LedgerTypes, CurrentSpend, NoCounter
  <2> QED
    BY <1>b, <2>2, <2>3, <2>5, NoMorePending
<1> QED
  BY <1>1, <1>2 DEF Next

LEMMA InitOvershootInv == Init => OvershootInv
<1> SUFFICES ASSUME Init PROVE OvershootInv
  OBVIOUS
<1> DEFINE m == MaxOf(Costs)
<1>1. Pending = {}
  BY SMT DEF Init, Pending
<1>2. Cardinality(Pending) = 0 /\ CurrentSpend = 0
  BY <1>1, FS_EmptySet, Zenon DEF Init, CurrentSpend
<1>3. m \in Nat /\ 0 * m = 0 /\ Cardinality(Requests) * m \in Nat
  BY LargestCost, PendingFinite, TimesMonotone, SMT
<1>4. MaxOf(Budgets) \in Nat /\ MaxOf(Budgets) > 0
  BY SomeBudgetIsPositive
<1> HIDE DEF m
<1>5. 0 + 0 * m < MaxOf(Budgets) + Cardinality(Requests) * m
  BY <1>3, <1>4, SMT
<1> USE DEF m
<1> QED
  BY <1>2, <1>5, Zenon DEF OvershootInv, Ceiling

\* Spend is recorded after the response, so racing requests may exceed the
\* budget together, but as long as every request had its spend compared with a
\* budget, by no more than the cost of one request for each slot.
THEOREM OvershootIsBounded == Spec => []OvershootBounded
<1>1. TypeOK /\ ReadingInv /\ OvershootInv /\ [Next]_vars
        => TypeOK' /\ ReadingInv' /\ OvershootInv'
  BY NextTypeOK, NextReadingInv, NextOvershootInv
<1>2. TypeOK /\ OvershootInv => OvershootBounded
  <2> SUFFICES ASSUME TypeOK, OvershootInv, ~blind
               PROVE  CurrentSpend < Ceiling
    BY Zenon DEF OvershootBounded, Ceiling
  <2> DEFINE m == MaxOf(Costs)
             n == Cardinality(Pending)
  <2>1. CurrentSpend \in Nat
    BY TypeParts, SpendIsAmount
  <2>2. n * m \in Nat /\ Cardinality(Requests) * m \in Nat
    BY LargestCost, PendingFinite, TimesMonotone
  <2>3. Ceiling \in Nat
    BY <2>2, LargestBudget, SMT DEF Ceiling
  <2>4. CurrentSpend + n * m < Ceiling
    BY DEF OvershootInv
  <2> HIDE DEF m, n
  <2> QED
    BY <2>1, <2>2, <2>3, <2>4, SMT
<1> QED
  BY InitTypeOK, InitReadingInv, InitOvershootInv, <1>1, <1>2, PTL DEF Spec

=============================================================================
