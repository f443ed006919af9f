------------------------- MODULE ProxyRequestProofs -------------------------
(***************************************************************************)
(* Proofs about ProxyRequest and Pricing, for every number of providers,   *)
(* prices, commands and requests: the engine differs from the table only   *)
(* for a recorded cause; the inspector captures exactly the requests that  *)
(* were answered; and a request is logged and charged once, by one price,  *)
(* for the answer it got.                                                  *)
(***************************************************************************)
EXTENDS ProxyRequest, TLAPS

(***************************************************************************)
(* What prices need: who is about to store the table as it is, and that    *)
(* somebody is about to store whenever the engine lags behind it.          *)
(***************************************************************************)

PricingShape ==
  /\ table = [p \in Providers |-> table[p]]
  /\ pc \in [Commands -> {"idle", "insert", "load", "store", "done"}]
  /\ DOMAIN rows = Commands

\* A command about to store has read the table as it is, or was overtaken.
ReadIsCurrent ==
  \A c \in Commands : pc[c] = "store" => c \in overtaken \/ rows[c] = table

\* An engine that lags without a cause has a command on its way to renew it.
LagIsTemporary ==
  causes = {} =>
    \/ engine = Engine(table)
    \/ \E c \in Commands : pc[c] \in {"load", "store"}

EngineInv == PricingShape /\ ReadIsCurrent /\ LagIsTemporary

LEMMA SameEngine == table' = table => Engine(table)' = Engine(table)
  BY DEF Engine, Priced

LEMMA InitEngineInv == Init => EngineInv
<1>1. SUFFICES ASSUME PricingInit PROVE EngineInv
  BY DEF Init
<1>2. table = [p \in Providers |-> table[p]]
  <2>1. CASE table \in [Providers -> {NoRow}]
    BY <2>1
  <2>2. CASE table \in {[p \in Providers |-> [provider |-> FirstNames[p], price |-> x]] :
                          x \in Sellable}
    BY <2>2
  <2> QED BY <1>1, <2>1, <2>2 DEF PricingInit
<1>3. PricingShape
  BY <1>1, <1>2 DEF PricingInit, PricingShape
<1>4. ReadIsCurrent /\ LagIsTemporary
  BY <1>1 DEF PricingInit, ReadIsCurrent, LagIsTemporary
<1> QED BY <1>3, <1>4 DEF EngineInv

(***************************************************************************)
(* One lemma per kind of step: the table changes, a command reads it, a    *)
(* command stores what it read, a command ends, and nothing that matters.  *)
(***************************************************************************)

LEMMA TableChanges ==
  ASSUME EngineInv, NEW c \in Commands, SetPricing(c) \/ DeletePricing(c)
  PROVE  EngineInv'
<1> USE DEF EngineInv, PricingShape
<1>1. CASE pc' = [pc EXCEPT ![c] = "load"] /\ Overtake /\ rows' = rows
          /\ \E p, row : table' = [table EXCEPT ![p] = row]
  <2>1. PricingShape'
    BY <1>1
  <2>2. ReadIsCurrent'
    BY <1>1 DEF ReadIsCurrent, Overtake
  <2>3. pc'[c] = "load"
    BY <1>1
  <2>4. LagIsTemporary'
    BY <2>3 DEF LagIsTemporary
  <2> QED BY <2>1, <2>2, <2>4
<1>2. CASE /\ pc' = [pc EXCEPT ![c] = "done"] /\ pc[c] = "insert"
           /\ UNCHANGED <<table, overtaken, rows, engine, causes>>
  <2>1. \A d \in Commands : pc'[d] = "done" \/ pc'[d] = pc[d]
    BY <1>2
  <2>2. PricingShape' /\ ReadIsCurrent'
    BY <1>2, <2>1 DEF ReadIsCurrent
  <2>3. \A d \in Commands : pc[d] \in {"load", "store"} => pc'[d] = pc[d]
    BY <1>2
  <2>4. UNCHANGED Engine(table)
    BY <1>2 DEF Engine, Priced
  <2>5. LagIsTemporary'
    BY <1>2, <2>3, <2>4 DEF LagIsTemporary
  <2> QED BY <2>2, <2>5
<1>3. CASE DeletePricing(c)
  BY <1>1, <1>3 DEF DeletePricing
<1>4. CASE SetPricing(c)
  <2>1. \/ /\ \E p, row : table' = [table EXCEPT ![p] = row]
           /\ Overtake /\ pc' = [pc EXCEPT ![c] = "load"]
        \/ pc' = [pc EXCEPT ![c] = "done"] /\ UNCHANGED <<table, overtaken>>
    BY <1>4, Zenon DEF SetPricing
  <2>2. pc[c] = "insert" /\ UNCHANGED <<rows, engine, causes>>
    BY <1>4 DEF SetPricing
  <2> QED BY <1>1, <1>2, <2>1, <2>2
<1> QED BY <1>3, <1>4

LEMMA CommandReads ==
  ASSUME EngineInv, NEW c \in Commands, LoadPricing(c)
  PROVE  EngineInv'
<1> USE DEF EngineInv, PricingShape, LoadPricing
<1>1. PricingShape' /\ pc'[c] = "store"
  OBVIOUS
<1>2. ReadIsCurrent'
  BY DEF ReadIsCurrent
<1>3. LagIsTemporary'
  BY <1>1 DEF LagIsTemporary
<1> QED BY <1>1, <1>2, <1>3

LEMMA CommandStores ==
  ASSUME EngineInv, NEW c \in Commands, StorePricing(c)
  PROVE  EngineInv'
<1> USE DEF EngineInv, PricingShape, StorePricing
<1>1. PricingShape'
  OBVIOUS
<1>2. ReadIsCurrent'
  BY DEF ReadIsCurrent
<1>3. CASE c \in overtaken
  BY <1>1, <1>2, <1>3 DEF LagIsTemporary
<1>4. CASE c \notin overtaken
  <2>1. rows[c] = table
    BY <1>4 DEF ReadIsCurrent
  <2>2. engine' = Engine(table)
    BY <2>1
  <2>3. UNCHANGED Engine(table)
    BY DEF Engine, Priced
  <2> QED BY <1>1, <1>2, <2>2, <2>3 DEF LagIsTemporary
<1> QED BY <1>3, <1>4

LEMMA CommandEnds ==
  ASSUME EngineInv, NEW c \in Commands, AbortPricing(c)
  PROVE  EngineInv'
<1> USE DEF EngineInv, PricingShape, AbortPricing
<1>1. PricingShape'
  OBVIOUS
<1>2. ReadIsCurrent'
  BY DEF ReadIsCurrent
<1>3. CASE pc[c] = "insert"
  <2>1. \A d \in Commands : pc[d] \in {"load", "store"} => pc'[d] = pc[d]
    BY <1>3
  <2>2. UNCHANGED Engine(table)
    BY DEF Engine, Priced
  <2> QED BY <1>1, <1>2, <1>3, <2>1, <2>2 DEF LagIsTemporary
<1>4. CASE pc[c] # "insert"
  BY <1>1, <1>2, <1>4 DEF LagIsTemporary
<1> QED BY <1>3, <1>4

LEMMA ProviderDeleted ==
  ASSUME EngineInv, NEW p \in Providers, DeleteProvider(p)
  PROVE  EngineInv'
<1> USE DEF EngineInv, PricingShape, DeleteProvider
<1>1. PricingShape'
  BY DEF commands
<1>2. CASE table[p] = NoRow
  <2>1. table' = table
    BY <1>2
  <2>2. Engine(table)' = Engine(table)
    BY <2>1, SameEngine
  <2> QED BY <1>1, <1>2, <2>1, <2>2 DEF ReadIsCurrent, LagIsTemporary, commands
<1>3. CASE table[p] # NoRow
  BY <1>1, <1>3 DEF ReadIsCurrent, LagIsTemporary, commands, Overtake
<1> QED BY <1>2, <1>3

LEMMA PricingUntouched ==
  ASSUME EngineInv,
         UNCHANGED <<table, engine, pc, rows, overtaken, causes>>
  PROVE  EngineInv'
<1>1. UNCHANGED Engine(table)
  BY DEF Engine, Priced
<1> QED BY <1>1 DEF EngineInv, PricingShape, ReadIsCurrent, LagIsTemporary

LEMMA ProcessRestarts ==
  ASSUME EngineInv, PricingRestart
  PROVE  EngineInv'
<1>1. PricingShape' /\ ReadIsCurrent' /\ LagIsTemporary'
  BY DEF EngineInv, PricingShape, ReadIsCurrent, LagIsTemporary, PricingRestart
<1> QED BY <1>1 DEF EngineInv

LEMMA LookUpKeeps ==
  ASSUME EngineInv, NEW c \in Commands, LookUpProvider(c)
  PROVE  EngineInv'
<1> USE DEF EngineInv, PricingShape, LookUpProvider
<1>1. \A d \in Commands : d # c => pc'[d] = pc[d]
  OBVIOUS
<1>2. UNCHANGED Engine(table)
  BY DEF Engine, Priced
<1> QED BY <1>1, <1>2 DEF ReadIsCurrent, LagIsTemporary

LEMMA PricingStep == EngineInv /\ PricingNext => EngineInv'
<1>1. SUFFICES ASSUME EngineInv, PricingNext PROVE EngineInv'
  OBVIOUS
<1>2. CASE \E c \in Commands :
             \/ LookUpProvider(c) \/ SetPricing(c) \/ DeletePricing(c)
             \/ LoadPricing(c) \/ StorePricing(c) \/ AbortPricing(c)
  BY <1>1, <1>2, LookUpKeeps, TableChanges, CommandReads, CommandStores,
     CommandEnds
<1>3. CASE \E p \in Providers : NameProvider(p)
  BY <1>1, <1>3, PricingUntouched DEF NameProvider, commands
<1>4. CASE \E p \in Providers : DeleteProvider(p)
  BY <1>1, <1>4, ProviderDeleted
<1> QED BY <1>1, <1>2, <1>3, <1>4 DEF PricingNext

\* No step of a request touches prices.
LEMMA RequestLeavesPricing ==
  ASSUME NEW r \in Requests, Advance(r) \/ Drop(r) \/ StoreCapture(r)
  PROVE  UNCHANGED pricingVars
<1>1. CASE Receive(r) \/ PreGovernance(r) \/ Governance(r) \/ PreUpstream(r)
  BY <1>1 DEF Receive, PreGovernance, Governance, PreUpstream
<1>2. CASE CallTarget(r) \/ ReadBody(r) \/ LoadQuote(r)
  BY <1>2 DEF CallTarget, ReadBody, LoadQuote
<1>3. CASE RecordRequest(r) \/ RecordSpend(r) \/ Drop(r) \/ StoreCapture(r)
  BY <1>3 DEF RecordRequest, RecordSpend, Drop, StoreCapture
<1> QED BY <1>1, <1>2, <1>3 DEF Advance

LEMMA NextEngineInv == EngineInv /\ [Next]_vars => EngineInv'
<1>1. SUFFICES ASSUME EngineInv, [Next]_vars PROVE EngineInv'
  OBVIOUS
<1>2. CASE \E r \in Requests : Advance(r) \/ Drop(r) \/ StoreCapture(r)
  BY <1>1, <1>2, RequestLeavesPricing, PricingUntouched DEF pricingVars, commands
<1>3. CASE PricingNext
  BY <1>1, <1>3, PricingStep
<1>4. CASE Restart
  BY <1>1, <1>4, ProcessRestarts DEF Restart
<1>5. CASE UNCHANGED vars
  BY <1>1, <1>5, PricingUntouched DEF vars, pricingVars, commands
<1> QED BY <1>1, <1>2, <1>3, <1>4, <1>5 DEF Next

\* The engine of prices holds what the table holds, except while a command is
\* under way and for the causes that the model records: a restart, a deleted
\* provider, a command cut off or overtaken before its store.
THEOREM EngineFollowsTable == Spec => []EngineDiffersOnlyForCause
<1>1. EngineInv => EngineDiffersOnlyForCause
  <2>1. SUFFICES ASSUME EngineInv, causes = {},
                        \A c \in Commands : pc[c] \in {"idle", "insert", "done"}
                 PROVE  engine = Engine(table)
    BY DEF EngineDiffersOnlyForCause
  <2>2. \A c \in Commands : pc[c] \notin {"load", "store"}
    BY <2>1
  <2> QED BY <2>1, <2>2 DEF EngineInv, LagIsTemporary
<1> QED BY <1>1, InitEngineInv, NextEngineInv, PTL DEF Spec

-----------------------------------------------------------------------------
(***************************************************************************)
(* The inspector                                                           *)
(***************************************************************************)

CaptureInv ==
  /\ rpc \in [Requests -> Waiting \cup {"idle", "answered", "dropped"}]
  /\ DOMAIN captured = Requests
  /\ CapturedIffAnswered

\* A request under way moves on, or leaves the handler with an answer.
LEMMA AdvanceAnswers ==
  ASSUME CaptureInv, NEW r \in Requests, Advance(r)
  PROVE  /\ rpc[r] \in Waiting \cup {"idle"}
         /\ \/ /\ captured' = captured
               /\ \E s \in Waiting : rpc' = [rpc EXCEPT ![r] = s]
            \/ /\ rpc' = [rpc EXCEPT ![r] = "answered"]
               /\ captured' = [captured EXCEPT ![r] =
                                 IF CaptureLevel = "none" THEN @ ELSE "spawned"]
<1> USE DEF Waiting, Answer, CaptureInv
<1>1. CASE Receive(r)
  BY <1>1 DEF Receive
<1>2. CASE PreGovernance(r)
  BY <1>2 DEF PreGovernance
<1>3. CASE Governance(r)
  BY <1>3 DEF Governance
<1>4. CASE PreUpstream(r)
  BY <1>4 DEF PreUpstream
<1>5. CASE CallTarget(r)
  <2>1. CASE rpc' = rpc
    <3>1. rpc' = [rpc EXCEPT ![r] = "calling"]
      BY <1>5, <2>1 DEF CallTarget
    <3> QED BY <1>5, <2>1, <3>1 DEF CallTarget
  <2>2. CASE rpc' # rpc
    BY <1>5, <2>2 DEF CallTarget
  <2> QED BY <2>1, <2>2
<1>6. CASE ReadBody(r)
  BY <1>6 DEF ReadBody
<1>7. CASE LoadQuote(r)
  BY <1>7 DEF LoadQuote
<1>8. CASE RecordRequest(r)
  BY <1>8 DEF RecordRequest
<1>9. CASE RecordSpend(r)
  BY <1>9 DEF RecordSpend
<1> QED BY <1>1, <1>2, <1>3, <1>4, <1>5, <1>6, <1>7, <1>8, <1>9 DEF Advance

LEMMA NextCaptureInv == CaptureInv /\ [Next]_vars => CaptureInv'
<1>1. SUFFICES ASSUME CaptureInv, [Next]_vars PROVE CaptureInv'
  OBVIOUS
<1> USE <1>1 DEF CaptureInv, CapturedIffAnswered
<1>2. ASSUME NEW r \in Requests, Advance(r) PROVE CaptureInv'
  <2>1. rpc[r] \in Waiting \cup {"idle"}
    BY <1>2, AdvanceAnswers
  <2>2. CASE captured' = captured /\ \E s \in Waiting : rpc' = [rpc EXCEPT ![r] = s]
    BY <2>1, <2>2 DEF Waiting
  <2>3. CASE /\ rpc' = [rpc EXCEPT ![r] = "answered"]
             /\ captured' = [captured EXCEPT ![r] =
                               IF CaptureLevel = "none" THEN @ ELSE "spawned"]
    BY <2>3
  <2> QED BY <1>2, <2>2, <2>3, AdvanceAnswers
<1>3. ASSUME NEW r \in Requests, Drop(r) PROVE CaptureInv'
  BY <1>3 DEF Drop, Waiting
<1>4. ASSUME NEW r \in Requests, StoreCapture(r) PROVE CaptureInv'
  BY <1>4 DEF StoreCapture
<1>5. CASE PricingNext /\ UNCHANGED <<requests, restarts>>
  BY <1>5 DEF requests
<1>6. CASE Restart
  BY <1>6 DEF Restart, Waiting
<1>7. CASE UNCHANGED vars
  BY <1>7 DEF vars, requests
<1> QED BY <1>2, <1>3, <1>4, <1>5, <1>6, <1>7 DEF Next

\* The inspector captures the requests that left the handler with an answer,
\* whatever the answer, and none that was dropped.
THEOREM CapturesAnsweredRequests == Spec => []CapturedIffAnswered
<1>1. Init => CaptureInv
  BY DEF Init, CaptureInv, CapturedIffAnswered, Waiting
<1>2. CaptureInv => CapturedIffAnswered
  BY DEF CaptureInv
<1> QED BY <1>1, <1>2, NextCaptureInv, PTL DEF Spec

-----------------------------------------------------------------------------
(***************************************************************************)
(* Types, first of prices: what administrators sent and the database took, *)
(* so that no engine ever holds a price below nothing.                     *)
(***************************************************************************)

Offered == Sellable \cup {Seed[n] : n \in Names}
TypedRow == [provider : Names, price : Sellable]
Order == [id : Providers, provider : Names, price : Sellable]
Typed(t) == \A p \in Providers : t[p] = NoRow \/ t[p] \in TypedRow

\* What the database keeps of the table t, for providers named n.
Consistent(n, t) ==
  /\ Typed(t)
  /\ \A p \in Providers : n[p] = Absent => t[p] = NoRow
  /\ \A p, q \in Providers :
       t[p] # NoRow /\ t[q].provider = t[p].provider => p = q

PriceInv ==
  /\ name \in [Providers -> Names \cup {Absent}]
  /\ DOMAIN table = Providers /\ Consistent(name, table)
  /\ engine \in [Names -> Offered]
  /\ pc \in [Commands -> {"idle", "insert", "load", "store", "done"}]
  /\ DOMAIN order = Commands /\ DOMAIN rows = Commands
  /\ \A c \in Commands : /\ pc[c] = "insert" => order[c] \in Order
                         /\ Typed(rows[c])
  /\ changes \in 0 .. MaxChanges

LEMMA NoRowIsNobodys == /\ NoRow \notin TypedRow
                        /\ \A n \in Names : NoRow.provider # n
                        /\ Absent \notin Names
  BY PricingAssumption DEF NoRow, TypedRow

\* PricingEngine::new and register keep to the prices of the code and the rows.
LEMMA EngineType ==
  ASSUME NEW t, Typed(t)
  PROVE  Engine(t) \in [Names -> Offered]
<1>1. SUFFICES ASSUME NEW n \in Names, Priced(t, n) # {}
               PROVE  t[CHOOSE p \in Priced(t, n) : TRUE].price \in Offered
  BY DEF Engine, Offered
<1> DEFINE p == CHOOSE p \in Priced(t, n) : TRUE
<1>2. p \in Providers /\ t[p].provider = n
  BY <1>1 DEF Priced
<1> HIDE DEF p
<1>3. t[p] \in TypedRow
  BY <1>2, NoRowIsNobodys DEF Typed
<1>4. t[p].price \in Offered
  BY <1>3 DEF TypedRow, Offered
<1> QED BY <1>4 DEF p

LEMMA RowRemoved ==
  ASSUME NEW n, NEW t, DOMAIN t = Providers, Consistent(n, t),
         NEW m, NEW p \in Providers,
         \A q \in Providers : q # p => m[q] = n[q]
  PROVE  /\ DOMAIN [t EXCEPT ![p] = NoRow] = Providers
         /\ Consistent(m, [t EXCEPT ![p] = NoRow])
<1> DEFINE u == [t EXCEPT ![p] = NoRow]
<1>1. u[p] = NoRow /\ \A q \in Providers : q # p => u[q] = t[q]
  OBVIOUS
<1>2. DOMAIN u = Providers
  OBVIOUS
<1> HIDE DEF u
<1>3. Typed(u) /\ \A q \in Providers : m[q] = Absent => u[q] = NoRow
  BY <1>1 DEF Consistent, Typed
<1>4. ASSUME NEW q \in Providers, NEW r \in Providers, u[q] # NoRow,
             u[r].provider = u[q].provider
      PROVE  q = r
  <2>1. q # p /\ t[q] # NoRow /\ t[q] \in TypedRow /\ u[q] = t[q]
    BY <1>1, <1>4 DEF Consistent, Typed
  <2>2. r # p
    BY <1>1, <1>4, <2>1, NoRowIsNobodys DEF TypedRow
  <2> QED BY <1>1, <1>4, <2>1, <2>2 DEF Consistent
<1> QED BY <1>2, <1>3, <1>4 DEF Consistent, u

LEMMA RowSet ==
  ASSUME NEW n, NEW t, DOMAIN t = Providers, Consistent(n, t),
         NEW p \in Providers, n[p] # Absent, NEW x \in TypedRow,
         Priced(t, x.provider) \subseteq {p}
  PROVE  /\ DOMAIN [t EXCEPT ![p] = x] = Providers
         /\ Consistent(n, [t EXCEPT ![p] = x])
<1> DEFINE u == [t EXCEPT ![p] = x]
<1>1. u[p] = x /\ \A q \in Providers : q # p => u[q] = t[q]
  OBVIOUS
<1>2. DOMAIN u = Providers
  OBVIOUS
<1> HIDE DEF u
<1>3. Typed(u) /\ \A q \in Providers : n[q] = Absent => u[q] = NoRow
  BY <1>1 DEF Consistent, Typed
<1>4. ASSUME NEW q \in Providers, q # p PROVE t[q].provider # x.provider
  BY <1>4 DEF Priced
<1>5. ASSUME NEW q \in Providers, NEW r \in Providers, u[q] # NoRow,
             u[r].provider = u[q].provider
      PROVE  q = r
  BY <1>1, <1>4, <1>5 DEF Consistent
<1> QED BY <1>2, <1>3, <1>5 DEF Consistent, u

LEMMA InitPriceInv == PricingInit => PriceInv
<1>1. SUFFICES ASSUME PricingInit PROVE PriceInv
  OBVIOUS
<1>2. name \in [Providers -> Names] /\ \A p \in Providers : name[p] # Absent
  BY <1>1, PricingAssumption DEF PricingInit
<1>3. DOMAIN table = Providers /\ Consistent(name, table)
  <2>1. CASE table \in [Providers -> {NoRow}]
    BY <1>2, <2>1 DEF Consistent, Typed
  <2>2. CASE \E x \in Sellable :
               table = [p \in Providers |-> [provider |-> FirstNames[p], price |-> x]]
    <3>1. PICK x \in Sellable :
            table = [p \in Providers |-> [provider |-> FirstNames[p], price |-> x]]
      BY <2>2
    <3>2. \A p \in Providers : /\ table[p].provider = FirstNames[p]
                               /\ table[p] \in TypedRow
      BY <3>1, PricingAssumption DEF TypedRow
    <3> QED BY <1>1, <1>2, <3>1, <3>2 DEF PricingInit, Consistent, Typed
  <2> QED BY <1>1, <2>1, <2>2 DEF PricingInit
<1>4. engine \in [Names -> Offered]
  BY <1>1, PricingAssumption DEF PricingInit, Offered
<1>5. \A c \in Commands : Typed(rows[c])
  BY <1>1 DEF PricingInit, NoRows, Typed
<1>6. changes \in 0 .. MaxChanges
  BY <1>1, PricingAssumption DEF PricingInit
<1> QED BY <1>1, <1>2, <1>3, <1>4, <1>5, <1>6 DEF PricingInit, PriceInv

LEMMA LookUpTyped ==
  ASSUME PriceInv, NEW c \in Commands, LookUpProvider(c)
  PROVE  PriceInv'
<1>1. PICK p \in Providers, x \in Prices :
        /\ name[p] # Absent
        /\ Valid(x)
        /\ order' = [order EXCEPT ![c] = [id |-> p, provider |-> name[p], price |-> x]]
  BY DEF LookUpProvider
<1>2. [id |-> p, provider |-> name[p], price |-> x] \in Order
  BY <1>1 DEF PriceInv, Order, Valid, Sellable
<1>3. \A d \in Commands : pc'[d] = "insert" => order'[d] \in Order
  BY <1>1, <1>2 DEF PriceInv, LookUpProvider
<1>4. /\ pc' \in [Commands -> {"idle", "insert", "load", "store", "done"}]
      /\ DOMAIN order' = Commands
  BY <1>1 DEF PriceInv, LookUpProvider
<1> QED BY <1>3, <1>4 DEF PriceInv, LookUpProvider

LEMMA TableTyped ==
  ASSUME PriceInv, NEW c \in Commands, SetPricing(c) \/ DeletePricing(c)
  PROVE  PriceInv'
<1>1. /\ pc' \in [Commands -> {"idle", "insert", "load", "store", "done"}]
      /\ \A d \in Commands : pc'[d] = "insert" => d # c /\ pc[d] = "insert"
  BY DEF PriceInv, SetPricing, DeletePricing
<1>2. /\ DOMAIN order' = Commands
      /\ \A d \in Commands : d # c => order'[d] = order[d]
      /\ UNCHANGED <<name, engine, rows, changes>>
  BY DEF PriceInv, SetPricing, DeletePricing
<1>3. DOMAIN table' = Providers /\ Consistent(name, table')
  <2>1. CASE SetPricing(c) /\ table' # table
    <3> DEFINE o == order[c]
               x == [provider |-> o.provider, price |-> o.price]
    <3>1. /\ pc[c] = "insert" /\ name[o.id] # Absent
          /\ Priced(table, o.provider) \subseteq {o.id}
          /\ table' = [table EXCEPT ![o.id] = x]
      BY <2>1 DEF SetPricing
    <3>2. o \in Order
      BY <3>1 DEF PriceInv
    <3>3. o.id \in Providers /\ x \in TypedRow /\ x.provider = o.provider
      BY <3>2 DEF Order, TypedRow
    <3> HIDE DEF x, o
    <3> QED BY <3>1, <3>3, RowSet DEF PriceInv
  <2>2. CASE DeletePricing(c)
    <3>1. PICK p \in Providers : table' = [table EXCEPT ![p] = NoRow]
      BY <2>2 DEF DeletePricing
    <3> QED BY <3>1, RowRemoved DEF PriceInv
  <2>3. CASE table' = table
    BY <2>3 DEF PriceInv
  <2> QED BY <2>1, <2>2, <2>3
<1> QED BY <1>1, <1>2, <1>3 DEF PriceInv

LEMMA CommandTyped ==
  ASSUME PriceInv, NEW c \in Commands,
         LoadPricing(c) \/ StorePricing(c) \/ AbortPricing(c)
  PROVE  PriceInv'
<1>1. /\ pc' \in [Commands -> {"idle", "insert", "load", "store", "done"}]
      /\ \A d \in Commands : pc'[d] = "insert" => d # c /\ pc[d] = "insert"
      /\ DOMAIN order' = Commands /\ DOMAIN rows' = Commands
      /\ \A d \in Commands : d # c => order'[d] = order[d] /\ rows'[d] = rows[d]
      /\ UNCHANGED <<name, table, changes>>
  BY DEF PriceInv, LoadPricing, StorePricing, AbortPricing
<1>2. Typed(NoRows)
  BY DEF NoRows, Typed
<1>3. rows'[c] = table \/ rows'[c] = NoRows
  BY DEF PriceInv, LoadPricing, StorePricing, AbortPricing
<1>4. Typed(rows[c]) /\ Typed(table)
  BY DEF PriceInv, Consistent
<1>5. engine' = engine \/ engine' = Engine(rows[c])
  BY DEF LoadPricing, StorePricing, AbortPricing
<1>6. engine' \in [Names -> Offered]
  BY <1>4, <1>5, EngineType DEF PriceInv
<1>7. \A d \in Commands : Typed(rows'[d])
  BY <1>1, <1>2, <1>3, <1>4 DEF PriceInv
<1> QED BY <1>1, <1>6, <1>7 DEF PriceInv

LEMMA ProvidersTyped ==
  ASSUME PriceInv, NEW p \in Providers, NameProvider(p) \/ DeleteProvider(p)
  PROVE  PriceInv'
<1>1. /\ name' \in [Providers -> Names \cup {Absent}]
      /\ \A q \in Providers : q # p => name'[q] = name[q]
      /\ UNCHANGED <<engine, commands>>
      /\ changes' \in 0 .. MaxChanges
  BY PricingAssumption DEF PriceInv, NameProvider, DeleteProvider
<1>2. CASE NameProvider(p)
  <2>1. name'[p] # Absent /\ table' = table
    BY <1>2, PricingAssumption DEF PriceInv, NameProvider
  <2>2. Consistent(name', table')
    BY <1>1, <2>1 DEF PriceInv, Consistent
  <2> QED BY <1>1, <2>1, <2>2 DEF PriceInv, commands
<1>3. CASE DeleteProvider(p)
  <2>1. table' = [table EXCEPT ![p] = NoRow]
    BY <1>3 DEF DeleteProvider
  <2>2. DOMAIN table' = Providers /\ Consistent(name', table')
    BY <1>1, <2>1, RowRemoved DEF PriceInv
  <2> QED BY <1>1, <2>2 DEF PriceInv, commands
<1> QED BY <1>2, <1>3

LEMMA PricesStay ==
  ASSUME PriceInv, UNCHANGED pricingVars
  PROVE  PriceInv'
BY DEF PriceInv, pricingVars, commands

LEMMA NextPriceInv == PriceInv /\ [Next]_vars => PriceInv'
<1>1. SUFFICES ASSUME PriceInv, [Next]_vars PROVE PriceInv'
  OBVIOUS
<1>2. CASE \E r \in Requests : Advance(r) \/ Drop(r) \/ StoreCapture(r)
  BY <1>1, <1>2, RequestLeavesPricing, PricesStay
<1>3. CASE PricingNext
  BY <1>1, <1>3, LookUpTyped, TableTyped, CommandTyped, ProvidersTyped
     DEF PricingNext
<1>4. CASE Restart
  <2>1. /\ engine' = Seed
        /\ pc' = [c \in Commands |-> IF pc[c] = "idle" THEN "idle" ELSE "done"]
        /\ order' = [c \in Commands |-> NoOrder]
        /\ rows' = [c \in Commands |-> NoRows]
        /\ UNCHANGED <<name, table, changes>>
    BY <1>4 DEF Restart, PricingRestart
  <2>2. Typed(NoRows) /\ Seed \in [Names -> Offered]
    BY PricingAssumption DEF NoRows, Typed, Offered
  <2>3. \A c \in Commands : pc'[c] # "insert" /\ Typed(rows'[c])
    BY <2>1, <2>2
  <2>4. pc' \in [Commands -> {"idle", "insert", "load", "store", "done"}]
    BY <2>1
  <2> QED BY <1>1, <2>1, <2>2, <2>3, <2>4 DEF PriceInv
<1>5. CASE UNCHANGED vars
  BY <1>1, <1>5, PricesStay DEF vars
<1> QED BY <1>1, <1>2, <1>3, <1>4, <1>5 DEF Next

-----------------------------------------------------------------------------
(***************************************************************************)
(* Billing.  A request that has not come to the log yet has left nothing   *)
(* anywhere (Clean); from there on its target, price and usage are fixed,  *)
(* and its row and its charge are both computed from them.                 *)
(***************************************************************************)

Everywhere == Waiting \cup {"idle", "answered", "dropped"}
Early == {"idle", "preGovernance", "governance", "preUpstream", "calling",
          "reading", "reporting", "inserting"}
Targeted == {"governance", "preUpstream", "calling", "reading", "reporting",
             "inserting", "charging"}
Received == {"reading", "reporting", "inserting", "charging"}

LogRow == [request : Requests, provider : Names, cost : Int, total : Int]

RequestShape ==
  /\ rpc \in [Requests -> Everywhere]
  /\ status \in [Requests -> Refusals \cup {"none", "upstream"}]
  /\ targets \in [Requests -> Seq(Names)]
  /\ called \in [Requests -> Seq(Names)]
  /\ quote \in [Requests -> Offered \cup {Unpriced}]
  /\ DOMAIN reply = Requests /\ DOMAIN charged = Requests
  /\ DOMAIN captured = Requests
  /\ faults \in [Requests -> SUBSET {"log", "charge"}]
  /\ log \in Seq(LogRow)

\* The target that answered is the one called last.
Serving(r) ==
  /\ rpc[r] \in Targeted => targets[r] # <<>>
  /\ rpc[r] \in Received =>
       called[r] # <<>> /\ called[r][Len(called[r])] = Server(r)
  /\ rpc[r] # "answered" => status[r] = "none"
  /\ rpc[r] = "answered" => status[r] # "none"

Clean(r) == Rows(r) = {} /\ charged[r] = NotCharged /\ faults[r] = {}

Cost(r) == ProviderCost(quote[r], Tokens(reply[r]))
Total(r) == TotalCost(quote[r], Tokens(reply[r]))

Ledger(r) ==
  /\ rpc[r] \in Early \/ status[r] \in Refusals => Clean(r)
  /\ rpc[r] = "charging" => charged[r] = NotCharged /\ "charge" \notin faults[r]
  /\ rpc[r] = "charging" \/ status[r] = "upstream" =>
       (Rows(r) = {} <=> "log" \in faults[r])
  /\ status[r] = "upstream" =>
       (charged[r] = NotCharged <=> "charge" \in faults[r])
  /\ charged[r] # NotCharged => status[r] = "upstream"
  /\ charged[r] \in {NotCharged, <<Cost(r)>>}
  /\ \A i, j \in Rows(r) : i = j
  /\ \A i \in Rows(r) : /\ log[i].provider = called[r][Len(called[r])]
                        /\ log[i].cost = Cost(r)
                        /\ log[i].total = Total(r)

BillingInv ==
  /\ PriceInv
  /\ RequestShape
  /\ \A r \in Requests : Serving(r) /\ Ledger(r)

\* One unit at most is billed, at a price of the table or of the code.
LEMMA CostType ==
  ASSUME NEW x \in Offered \cup {Unpriced}, NEW kind
  PROVE  /\ x.cost \in Nat /\ x.markup \in Nat
         /\ ProviderCost(x, Tokens(kind)) \in Int
         /\ TotalCost(x, Tokens(kind)) \in Int
         /\ TotalCost(x, Tokens(kind)) >= 100 * ProviderCost(x, Tokens(kind))
<1>1. x.cost \in Nat /\ x.markup \in Nat
  <2>1. CASE x \in Sellable
    BY <2>1, PricingAssumption DEF Sellable
  <2>2. CASE \E n \in Names : x = Seed[n]
    BY <2>2, PricingAssumption
  <2>3. CASE x = Unpriced
    BY <2>3 DEF Unpriced
  <2> QED BY <2>1, <2>2, <2>3 DEF Offered
<1> DEFINE n == Tokens(kind)
           cost == x.cost
           markup == x.markup
<1>2. n = 0 \/ n = 1
  BY DEF Tokens
<1>3. cost * n \in Nat
  BY <1>1, <1>2
<1>4. cost \in Nat /\ markup \in Nat
  BY <1>1
<1> HIDE DEF n, cost, markup
<1> DEFINE paid == cost * n
<1>5. paid \in Nat
  BY <1>3
<1> HIDE DEF paid
<1>6. paid * (100 + markup) = 100 * paid + paid * markup /\ paid * markup \in Nat
  BY <1>4, <1>5
<1>7. paid * (100 + markup) \in Int /\ paid * (100 + markup) >= 100 * paid
  BY <1>5, <1>6
<1> QED BY <1>1, <1>5, <1>7
        DEF ProviderCost, TotalCost, n, cost, markup, paid

\* What is appended to the log adds its own row and moves no other one.
LEMMA RowAppended ==
  ASSUME log \in Seq(LogRow), NEW row \in LogRow, log' = Append(log, row)
  PROVE  /\ log' \in Seq(LogRow)
         /\ \A r : r # row.request => Rows(r)' = Rows(r)
         /\ Rows(row.request)' = Rows(row.request) \cup {Len(log) + 1}
         /\ \A i \in DOMAIN log : log'[i] = log[i]
         /\ log'[Len(log) + 1] = row
<1>1. /\ Len(log) \in Nat /\ DOMAIN log = 1 .. Len(log)
      /\ log' \in Seq(LogRow) /\ DOMAIN log' = 1 .. Len(log) + 1
      /\ \A i \in 1 .. Len(log) : log'[i] = log[i]
      /\ log'[Len(log) + 1] = row
  OBVIOUS
<1>2. DOMAIN log' = DOMAIN log \cup {Len(log) + 1}
  BY <1>1
<1> QED BY <1>1, <1>2 DEF Rows

\* A request whose locals and rows stay keeps what is known of it.
LEMMA RequestStays ==
  ASSUME NEW r \in Requests, Serving(r), Ledger(r),
         rpc'[r] = rpc[r], status'[r] = status[r], targets'[r] = targets[r],
         called'[r] = called[r], quote'[r] = quote[r], reply'[r] = reply[r],
         charged'[r] = charged[r], faults'[r] = faults[r],
         Rows(r)' = Rows(r), \A i \in Rows(r) : log'[i] = log[i]
  PROVE  Serving(r)' /\ Ledger(r)'
<1>1. Serving(r)'
  BY DEF Serving, Server
<1>2. Cost(r)' = Cost(r) /\ Total(r)' = Total(r) /\ Clean(r)' = Clean(r)
  BY DEF Cost, Total, Clean, ProviderCost, TotalCost, Tokens
<1>3. Ledger(r)'
  BY <1>2 DEF Ledger
<1> QED BY <1>1, <1>3

\* A request that is not billed yet and is refused, or goes on, stays clean.
LEMMA StaysClean ==
  ASSUME NEW r \in Requests, Ledger(r), rpc[r] \in Early, log' = log,
         charged'[r] = charged[r], faults'[r] = faults[r],
         \/ rpc'[r] \in Early /\ status'[r] = "none"
         \/ rpc'[r] = "answered" /\ status'[r] \in Refusals
  PROVE  Ledger(r)'
<1>1. Clean(r) /\ Clean(r)'
  BY DEF Ledger, Clean, Rows
<1>2. rpc'[r] # "charging" /\ status'[r] # "upstream"
  BY DEF Early, Refusals
<1> QED BY <1>1, <1>2 DEF Ledger, Clean

LEMMA RoutesAreNames ==
  ASSUME NEW t \in Routes
  PROVE  t \in Seq(Names) /\ t # <<>>
<1>1. CASE \E n \in Names : t = <<n>>
  BY <1>1
<1>2. CASE t \in Names \X Names
  <2>1. PICK m, n \in Names : t = <<m, n>>
    BY <1>2
  <2> QED BY <2>1
<1> QED BY <1>1, <1>2 DEF Routes

\* The locals of the other requests.
Others(r) ==
  \A q \in Requests \ {r} :
    /\ rpc'[q] = rpc[q] /\ status'[q] = status[q] /\ targets'[q] = targets[q]
    /\ called'[q] = called[q] /\ quote'[q] = quote[q] /\ reply'[q] = reply[q]
    /\ charged'[q] = charged[q] /\ faults'[q] = faults[q]

\* An early step either goes on or answers with a refusal.
GoesOn(r) ==
  /\ rpc[r] \in Early /\ UNCHANGED <<log, charged, faults>>
  /\ \/ rpc'[r] \in Early /\ status'[r] = "none"
     \/ rpc'[r] = "answered" /\ status'[r] \in Refusals

LEMMA RefusalGoesOn ==
  ASSUME RequestShape, NEW r \in Requests, rpc[r] \in Early,
         NEW s \in Refusals, Answer(r, s),
         UNCHANGED <<targets, called, quote, reply, charged, faults, log>>
  PROVE  RequestShape' /\ Serving(r)' /\ Others(r) /\ GoesOn(r)
<1>1. /\ rpc' \in [Requests -> Everywhere] /\ rpc'[r] = "answered"
      /\ \A q \in Requests : q # r => rpc'[q] = rpc[q]
  BY DEF Answer, RequestShape, Everywhere
<1>2. /\ status' \in [Requests -> Refusals \cup {"none", "upstream"}]
      /\ status'[r] = s /\ s # "none"
      /\ \A q \in Requests : q # r => status'[q] = status[q]
  BY DEF Answer, RequestShape, Refusals
<1>3. DOMAIN captured' = Requests
  BY DEF Answer, RequestShape
<1>4. RequestShape'
  BY <1>1, <1>2, <1>3 DEF RequestShape
<1>5. Serving(r)'
  BY <1>1, <1>2 DEF Serving, Targeted, Received
<1> QED BY <1>1, <1>2, <1>4, <1>5 DEF Others, GoesOn

LEMMA StepGoesOn ==
  ASSUME RequestShape, NEW r \in Requests, Serving(r), rpc[r] \in Early,
         NEW s \in Early, rpc' = [rpc EXCEPT ![r] = s],
         s \in Targeted => targets[r] # <<>>,
         s \in Received => rpc[r] \in Received,
         UNCHANGED <<targets, called, reply, status, charged, faults, log, captured>>,
         quote' \in [Requests -> Offered \cup {Unpriced}],
         \A q \in Requests \ {r} : quote'[q] = quote[q]
  PROVE  RequestShape' /\ Serving(r)' /\ Others(r) /\ GoesOn(r)
<1>1. /\ rpc' \in [Requests -> Everywhere] /\ rpc'[r] = s
      /\ \A q \in Requests : q # r => rpc'[q] = rpc[q]
  BY DEF RequestShape, Everywhere, Early, Waiting
<1>2. RequestShape'
  BY <1>1 DEF RequestShape
<1>3. status[r] = "none" /\ s # "answered"
  BY DEF Serving, Early
<1>4. Serving(r)'
  BY <1>1, <1>3 DEF Serving, Server
<1> QED BY <1>1, <1>2, <1>3, <1>4 DEF Others, GoesOn

\* The steps that await nothing but scripts, limits, bodies and prices.
LEMMA HandlerStep ==
  ASSUME BillingInv, NEW r \in Requests,
         \/ Receive(r) \/ Governance(r) \/ PreUpstream(r) \/ ReadBody(r)
         \/ LoadQuote(r)
  PROVE  RequestShape' /\ Serving(r)' /\ Others(r) /\ GoesOn(r)
<1>1. /\ RequestShape /\ Serving(r)
      /\ quote \in [Requests -> Offered \cup {Unpriced}]
  BY DEF BillingInv, RequestShape
<1>2. CASE \E s \in Refusals :
             /\ Answer(r, s) /\ rpc[r] \in Early
             /\ UNCHANGED <<targets, called, quote, reply, charged, faults, log>>
  BY <1>1, <1>2, RefusalGoesOn
<1>3. CASE /\ rpc[r] \in Early
           /\ \E s \in Early :
                /\ rpc' = [rpc EXCEPT ![r] = s]
                /\ s \in Targeted => rpc[r] \in Targeted
                /\ s \in Received => rpc[r] \in Received
           /\ UNCHANGED <<targets, called, quote, reply, status, charged,
                          faults, log, captured>>
  BY <1>1, <1>3, StepGoesOn DEF Serving
<1>4. CASE Receive(r) \/ Governance(r) \/ PreUpstream(r) \/ ReadBody(r)
  <2>1. CASE Receive(r)
    BY <1>2, <1>3, <2>1 DEF Receive, billing, Early, Refusals, Targeted, Received
  <2>2. CASE Governance(r)
    BY <1>2, <1>3, <2>2 DEF Governance, billing, Early, Refusals, Targeted, Received
  <2>3. CASE PreUpstream(r)
    BY <1>2, <1>3, <2>3 DEF PreUpstream, billing, Early, Refusals, Targeted, Received
  <2>4. CASE ReadBody(r)
    BY <1>2, <1>3, <2>4 DEF ReadBody, billing, Early, Refusals, Targeted, Received
  <2> QED BY <1>4, <2>1, <2>2, <2>3, <2>4
<1>5. CASE LoadQuote(r)
  <2>1. rpc[r] = "reporting" /\ targets[r] # <<>> /\ rpc[r] \in Received
    BY <1>1, <1>5 DEF LoadQuote, Serving, Targeted, Received
  <2>2. Server(r) \in Names
    BY <1>1, <2>1 DEF RequestShape, Server
  <2>3. engine[Server(r)] \in Offered
    BY <2>2 DEF BillingInv, PriceInv
  <2>4. /\ quote' \in [Requests -> Offered \cup {Unpriced}]
        /\ \A q \in Requests \ {r} : quote'[q] = quote[q]
    BY <1>1, <1>5, <2>3 DEF LoadQuote
  <2>5. /\ rpc' = [rpc EXCEPT ![r] = "inserting"]
        /\ UNCHANGED <<targets, called, reply, status, charged, faults, log, captured>>
    BY <1>5 DEF LoadQuote
  <2>6. "inserting" \in Early /\ rpc[r] \in Early
    BY <2>1 DEF Early
  <2> QED BY <1>1, <2>1, <2>4, <2>5, <2>6, StepGoesOn
<1> QED BY <1>4, <1>5

LEMMA ResolveGoesOn ==
  ASSUME BillingInv, NEW r \in Requests, PreGovernance(r)
  PROVE  RequestShape' /\ Serving(r)' /\ Others(r) /\ GoesOn(r)
<1>1. /\ RequestShape /\ Serving(r) /\ rpc[r] = "preGovernance"
      /\ rpc[r] \in Early
  BY DEF BillingInv, PreGovernance, Early
<1>2. CASE \E s \in {"blocked", "bad_request"} : Answer(r, s) /\ UNCHANGED targets
  <2>1. PICK s \in Refusals : Answer(r, s) /\ UNCHANGED targets
    BY <1>2 DEF Refusals
  <2> QED BY <1>1, <2>1, RefusalGoesOn DEF PreGovernance, billing
<1>3. CASE /\ \E t \in Routes : targets' = [targets EXCEPT ![r] = t]
           /\ rpc' = [rpc EXCEPT ![r] = "governance"]
           /\ UNCHANGED <<status, captured>>
  <2>1. PICK t \in Routes : targets' = [targets EXCEPT ![r] = t]
    BY <1>3
  <2>2. t \in Seq(Names) /\ t # <<>>
    BY RoutesAreNames
  <2>3. /\ targets' \in [Requests -> Seq(Names)] /\ targets'[r] = t
        /\ \A q \in Requests \ {r} : targets'[q] = targets[q]
    BY <1>1, <2>1, <2>2 DEF RequestShape
  <2>4. /\ rpc' \in [Requests -> Everywhere] /\ rpc'[r] = "governance"
        /\ \A q \in Requests \ {r} : rpc'[q] = rpc[q]
    BY <1>1, <1>3 DEF RequestShape, Everywhere, Waiting
  <2>5. UNCHANGED <<reply, quote, log, charged, called, faults, status, captured>>
    BY <1>3 DEF PreGovernance, billing
  <2>6. status[r] = "none"
    BY <1>1 DEF Serving
  <2>7. RequestShape'
    BY <1>1, <2>3, <2>4, <2>5 DEF RequestShape
  <2>8. Serving(r)'
    BY <2>2, <2>3, <2>4, <2>5, <2>6 DEF Serving, Received
  <2>9. rpc'[r] \in Early
    BY <2>4 DEF Early
  <2> QED BY <1>1, <2>3, <2>4, <2>5, <2>6, <2>7, <2>8, <2>9 DEF Others, GoesOn
<1> QED BY <1>2, <1>3 DEF PreGovernance

LEMMA HeadAndTail ==
  ASSUME NEW s \in Seq(Names), s # <<>>
  PROVE  /\ Head(s) \in Names /\ Tail(s) \in Seq(Names)
         /\ Len(s) > 1 => Tail(s) # <<>>
<1>1. /\ Len(s) \in Nat /\ Len(s) # 0
      /\ Tail(s) \in Seq(Names) /\ Len(Tail(s)) = Len(s) - 1
  OBVIOUS
<1>2. Head(s) \in Names
  BY <1>1
<1>3. Len(s) > 1 => Tail(s) # <<>>
  <2> DEFINE n == Len(s)
             rest == Tail(s)
             k == Len(rest)
  <2>1. n \in Nat /\ k = n - 1
    BY <1>1
  <2> HIDE DEF n, k
  <2>2. n > 1 => k # 0
    BY <2>1
  <2> HIDE DEF rest
  <2>3. k # 0 => rest # <<>>
    BY DEF k
  <2> QED BY <2>2, <2>3 DEF n, rest
<1> QED BY <1>1, <1>2, <1>3

LEMMA CallGoesOn ==
  ASSUME BillingInv, NEW r \in Requests, CallTarget(r)
  PROVE  RequestShape' /\ Serving(r)' /\ Others(r) /\ GoesOn(r)
<1> DEFINE head == Head(targets[r])
<1>1. /\ RequestShape /\ Serving(r) /\ rpc[r] = "calling" /\ rpc[r] \in Early
      /\ targets[r] \in Seq(Names) /\ targets[r] # <<>> /\ called[r] \in Seq(Names)
      /\ status[r] = "none"
  BY DEF BillingInv, CallTarget, Early, Serving, Targeted, RequestShape
<1>2. head \in Names /\ Tail(targets[r]) \in Seq(Names)
      /\ (Len(targets[r]) > 1 => Tail(targets[r]) # <<>>)
  BY <1>1, HeadAndTail
<1> HIDE DEF head
<1>3. /\ called' \in [Requests -> Seq(Names)]
      /\ called'[r] = Append(called[r], head)
      /\ \A q \in Requests \ {r} : called'[q] = called[q]
  <2>1. called' = [called EXCEPT ![r] = Append(@, head)]
    BY DEF CallTarget, head
  <2>2. called \in [Requests -> Seq(Names)]
    BY <1>1 DEF RequestShape
  <2>3. Append(called[r], head) \in Seq(Names)
    BY <1>1, <1>2
  <2> QED BY <2>1, <2>2, <2>3
<1>4. called'[r] # <<>> /\ called'[r][Len(called'[r])] = head
  BY <1>1, <1>2, <1>3
<1>5. UNCHANGED <<quote, log, charged, faults>>
  BY DEF CallTarget
<1>6. CASE /\ \E stream \in BOOLEAN :
                \E kind \in Replies(stream) : reply' = [reply EXCEPT ![r] = kind]
           /\ rpc' = [rpc EXCEPT ![r] = "reading"]
           /\ UNCHANGED <<targets, status, captured>>
  <2>1. /\ rpc' \in [Requests -> Everywhere] /\ rpc'[r] = "reading"
        /\ \A q \in Requests \ {r} : rpc'[q] = rpc[q]
    BY <1>1, <1>6 DEF RequestShape, Everywhere, Waiting
  <2>2. DOMAIN reply' = Requests /\ \A q \in Requests \ {r} : reply'[q] = reply[q]
    BY <1>1, <1>6 DEF RequestShape
  <2>3. RequestShape'
    BY <1>1, <1>3, <1>5, <1>6, <2>1, <2>2 DEF RequestShape
  <2>4. Serving(r)'
    BY <1>1, <1>4, <1>6, <2>1 DEF Serving, Server, head
  <2>5. rpc'[r] \in Early
    BY <2>1 DEF Early
  <2> QED BY <1>1, <1>3, <1>5, <1>6, <2>1, <2>2, <2>3, <2>4, <2>5
          DEF Others, GoesOn
<1>7. CASE /\ Len(targets[r]) > 1
           /\ targets' = [targets EXCEPT ![r] = Tail(@)]
           /\ UNCHANGED <<reply, rpc, status, captured>>
  <2>1. /\ targets' \in [Requests -> Seq(Names)]
        /\ targets'[r] = Tail(targets[r])
        /\ \A q \in Requests \ {r} : targets'[q] = targets[q]
    BY <1>1, <1>2, <1>7 DEF RequestShape
  <2>2. RequestShape'
    BY <1>1, <1>3, <1>5, <1>7, <2>1 DEF RequestShape
  <2>3. Serving(r)'
    BY <1>1, <1>2, <1>7, <2>1 DEF Serving, Received
  <2> QED BY <1>1, <1>3, <1>5, <1>7, <2>1, <2>2, <2>3 DEF Others, GoesOn
<1>8. CASE Answer(r, "provider_error") /\ UNCHANGED <<reply, targets>>
  <2>1. /\ rpc' \in [Requests -> Everywhere] /\ rpc'[r] = "answered"
        /\ \A q \in Requests \ {r} : rpc'[q] = rpc[q]
    BY <1>1, <1>8 DEF Answer, RequestShape, Everywhere
  <2>2. /\ status' \in [Requests -> Refusals \cup {"none", "upstream"}]
        /\ status'[r] = "provider_error"
        /\ \A q \in Requests \ {r} : status'[q] = status[q]
    BY <1>1, <1>8 DEF Answer, RequestShape, Refusals
  <2>3. DOMAIN captured' = Requests
    BY <1>1, <1>8 DEF Answer, RequestShape
  <2>4. RequestShape'
    BY <1>1, <1>3, <1>5, <1>8, <2>1, <2>2, <2>3 DEF RequestShape
  <2>5. Serving(r)'
    BY <2>1, <2>2 DEF Serving, Targeted, Received
  <2> QED BY <1>1, <1>3, <1>5, <1>8, <2>1, <2>2, <2>4, <2>5
          DEF Others, GoesOn, Refusals
<1> QED BY <1>6, <1>7, <1>8 DEF CallTarget

\* Early steps keep everything that is known, of every request.
LEMMA EarlyStep ==
  ASSUME BillingInv, NEW r \in Requests,
         RequestShape' /\ Serving(r)' /\ Others(r) /\ GoesOn(r)
  PROVE  RequestShape' /\ \A q \in Requests : Serving(q)' /\ Ledger(q)'
<1>1. log' = log /\ \A q \in Requests : Rows(q)' = Rows(q)
  BY DEF GoesOn, Rows
<1>2. Ledger(r)'
  BY StaysClean DEF GoesOn, BillingInv
<1>3. ASSUME NEW q \in Requests, q # r PROVE Serving(q)' /\ Ledger(q)'
  BY <1>1, <1>3, RequestStays DEF BillingInv, Others
<1> QED BY <1>2, <1>3

LEMMA RecordRequestStep ==
  ASSUME BillingInv, NEW r \in Requests, RecordRequest(r)
  PROVE  RequestShape' /\ \A q \in Requests : Serving(q)' /\ Ledger(q)'
<1>1. /\ RequestShape /\ rpc[r] = "inserting" /\ Serving(r) /\ Ledger(r)
      /\ called[r] # <<>> /\ called[r][Len(called[r])] = Server(r)
      /\ targets[r] # <<>> /\ status[r] = "none" /\ Clean(r)
  BY DEF BillingInv, RecordRequest, Serving, Received, Targeted, Ledger, Early
<1>2. /\ rpc' \in [Requests -> Everywhere] /\ rpc'[r] = "charging"
      /\ \A q \in Requests \ {r} : rpc'[q] = rpc[q]
  BY <1>1 DEF RecordRequest, RequestShape, Everywhere, Waiting
<1>3. UNCHANGED <<targets, reply, quote, status, charged, captured, called>>
  BY DEF RecordRequest
<1>4. Serving(r)'
  BY <1>1, <1>2, <1>3 DEF Serving, Server
<1> DEFINE row == BillingRecord(r, Server(r))
<1>5. /\ row \in LogRow /\ row.request = r /\ row.provider = Server(r)
      /\ row.cost = Cost(r) /\ row.total = Total(r)
  <2>1. Server(r) \in Names
    BY <1>1 DEF RequestShape, Server
  <2>2. quote[r] \in Offered \cup {Unpriced}
    BY <1>1 DEF RequestShape
  <2>3. Cost(r) \in Int /\ Total(r) \in Int
    BY <2>2, CostType DEF Cost, Total
  <2>4. row = [request |-> r, provider |-> Server(r), cost |-> Cost(r),
               total |-> Total(r)]
    BY DEF BillingRecord, Cost, Total
  <2> HIDE DEF row
  <2> QED BY <2>1, <2>3, <2>4 DEF LogRow
<1> HIDE DEF row
<1>6. Acceptable(quote[r])
  <2>1. quote[r] \in Offered \cup {Unpriced}
    BY <1>1 DEF RequestShape
  <2>2. quote[r].cost \in Nat /\ quote[r].markup \in Nat
    BY <2>1, CostType
  <2> QED BY <2>2 DEF Acceptable
<1>7. Cost(r)' = Cost(r) /\ Total(r)' = Total(r)
  BY <1>3 DEF Cost, Total, ProviderCost, TotalCost, Tokens
<1>8. CASE log' = Append(log, row) /\ UNCHANGED faults
  <2>1. /\ log' \in Seq(LogRow) /\ Rows(r)' = {Len(log) + 1}
        /\ \A q \in Requests : q # r => Rows(q)' = Rows(q)
        /\ \A i \in DOMAIN log : log'[i] = log[i]
        /\ log'[Len(log) + 1] = row
    BY <1>1, <1>5, <1>8, RowAppended DEF RequestShape, Clean
  <2>2. RequestShape'
    BY <1>1, <1>2, <1>3, <1>8, <2>1 DEF RequestShape
  <2>3. /\ charged'[r] = NotCharged /\ faults'[r] = {}
        /\ status'[r] = "none" /\ rpc'[r] = "charging"
    BY <1>1, <1>2, <1>3, <1>8 DEF Clean
  <2>4. \A i \in Rows(r)' : /\ log'[i].provider = called'[r][Len(called'[r])]
                            /\ log'[i].cost = Cost(r)'
                            /\ log'[i].total = Total(r)'
    BY <1>1, <1>3, <1>5, <1>7, <2>1
  <2>5. Ledger(r)'
    BY <2>1, <2>3, <2>4 DEF Ledger, Early, Refusals
  <2>6. ASSUME NEW q \in Requests, q # r PROVE Serving(q)' /\ Ledger(q)'
    <3>1. \A i \in Rows(q) : log'[i] = log[i]
      BY <2>1 DEF Rows
    <3> QED BY <1>2, <1>3, <1>8, <2>1, <2>6, <3>1, RequestStays DEF BillingInv
  <2> QED BY <1>4, <2>2, <2>5, <2>6
<1>9. CASE faults' = [faults EXCEPT ![r] = @ \cup {"log"}] /\ UNCHANGED log
  <2>1. /\ faults' \in [Requests -> SUBSET {"log", "charge"}]
        /\ faults'[r] = {"log"}
        /\ \A q \in Requests \ {r} : faults'[q] = faults[q]
    BY <1>1, <1>9 DEF RequestShape, Clean
  <2>2. RequestShape'
    BY <1>1, <1>2, <1>3, <1>9, <2>1 DEF RequestShape
  <2>3. \A q \in Requests : Rows(q)' = Rows(q)
    BY <1>9 DEF Rows
  <2>4. Rows(r)' = {} /\ charged'[r] = NotCharged /\ status'[r] = "none"
    BY <1>1, <1>3, <2>3 DEF Clean
  <2>5. Ledger(r)'
    BY <1>2, <2>1, <2>4 DEF Ledger, Early, Refusals
  <2>6. ASSUME NEW q \in Requests, q # r PROVE Serving(q)' /\ Ledger(q)'
    BY <1>2, <1>3, <1>9, <2>1, <2>3, <2>6, RequestStays DEF BillingInv
  <2> QED BY <1>4, <2>2, <2>5, <2>6
<1> QED BY <1>6, <1>8, <1>9 DEF RecordRequest, row

LEMMA RecordSpendStep ==
  ASSUME BillingInv, NEW r \in Requests, RecordSpend(r)
  PROVE  RequestShape' /\ \A q \in Requests : Serving(q)' /\ Ledger(q)'
<1>1. /\ RequestShape /\ rpc[r] = "charging" /\ Serving(r) /\ Ledger(r)
      /\ charged[r] = NotCharged /\ "charge" \notin faults[r]
  BY DEF BillingInv, RecordSpend, Ledger
<1>2. /\ rpc' \in [Requests -> Everywhere] /\ rpc'[r] = "answered"
      /\ \A q \in Requests \ {r} : rpc'[q] = rpc[q]
  BY <1>1 DEF RecordSpend, Answer, RequestShape, Everywhere
<1>3. /\ status' \in [Requests -> Refusals \cup {"none", "upstream"}]
      /\ status'[r] = "upstream"
      /\ \A q \in Requests \ {r} : status'[q] = status[q]
  BY <1>1 DEF RecordSpend, Answer, RequestShape
<1>4. DOMAIN captured' = Requests
  BY <1>1 DEF RecordSpend, Answer, RequestShape
<1>5. UNCHANGED <<targets, reply, quote, log, called>>
  BY DEF RecordSpend
<1>6. /\ DOMAIN charged' = Requests
      /\ faults' \in [Requests -> SUBSET {"log", "charge"}]
      /\ \A q \in Requests \ {r} : charged'[q] = charged[q] /\ faults'[q] = faults[q]
      /\ "log" \in faults'[r] <=> "log" \in faults[r]
      /\ \/ charged'[r] = <<Cost(r)>> /\ "charge" \notin faults'[r]
         \/ charged'[r] = NotCharged /\ "charge" \in faults'[r]
  <2>1. CASE /\ charged' = [charged EXCEPT ![r] = Append(@, Cost(r))]
             /\ UNCHANGED faults
    BY <1>1, <2>1 DEF RequestShape, NotCharged
  <2>2. CASE /\ faults' = [faults EXCEPT ![r] = @ \cup {"charge"}]
             /\ UNCHANGED charged
    BY <1>1, <2>2 DEF RequestShape
  <2> QED BY <2>1, <2>2 DEF RecordSpend, Cost
<1>7. RequestShape'
  BY <1>1, <1>2, <1>3, <1>4, <1>5, <1>6 DEF RequestShape
<1>8. Serving(r)'
  BY <1>2, <1>3 DEF Serving, Targeted, Received
<1>9. \A q \in Requests : Rows(q)' = Rows(q)
  BY <1>5 DEF Rows
<1>10. Cost(r)' = Cost(r) /\ Total(r)' = Total(r)
  BY <1>5 DEF Cost, Total, ProviderCost, TotalCost, Tokens
<1>11. Ledger(r)'
  <2>1. rpc'[r] \notin Early /\ status'[r] \notin Refusals /\ rpc'[r] # "charging"
    BY <1>2, <1>3 DEF Early, Refusals
  <2>2. Rows(r)' = {} <=> "log" \in faults'[r]
    BY <1>1, <1>6, <1>9 DEF Ledger
  <2>3. /\ charged'[r] = NotCharged <=> "charge" \in faults'[r]
        /\ charged'[r] \in {NotCharged, <<Cost(r)'>>}
    <3>1. <<Cost(r)>> # NotCharged
      BY DEF NotCharged
    <3> QED BY <1>6, <1>10, <3>1
  <2>4. /\ \A i, j \in Rows(r)' : i = j
        /\ \A i \in Rows(r)' : /\ log'[i].provider = called'[r][Len(called'[r])]
                               /\ log'[i].cost = Cost(r)'
                               /\ log'[i].total = Total(r)'
    BY <1>1, <1>5, <1>9, <1>10 DEF Ledger
  <2> QED BY <1>3, <2>1, <2>2, <2>3, <2>4 DEF Ledger
<1>12. ASSUME NEW q \in Requests, q # r PROVE Serving(q)' /\ Ledger(q)'
  BY <1>2, <1>3, <1>5, <1>6, <1>9, <1>12, RequestStays DEF BillingInv
<1> QED BY <1>7, <1>8, <1>11, <1>12

\* A request that is cut off keeps its row, if it has one, and has no charge.
LEMMA DroppedLedger ==
  ASSUME NEW r \in Requests, Serving(r), Ledger(r), rpc[r] \in Waiting,
         rpc'[r] = "dropped",
         UNCHANGED <<status, targets, called, quote, reply, charged, faults, log>>
  PROVE  Serving(r)' /\ Ledger(r)'
<1>1. status'[r] = "none" /\ charged[r] = NotCharged
  BY DEF Serving, Ledger, Waiting, Refusals
<1>2. Serving(r)'
  BY <1>1 DEF Serving, Targeted, Received
<1>3. /\ Cost(r)' = Cost(r) /\ Total(r)' = Total(r) /\ Rows(r)' = Rows(r)
  BY DEF Cost, Total, ProviderCost, TotalCost, Tokens, Rows
<1>4. Ledger(r)'
  BY <1>1, <1>3 DEF Ledger, Early, Refusals
<1> QED BY <1>2, <1>4

LEMMA CutOff ==
  ASSUME BillingInv, DOMAIN captured' = Requests,
         UNCHANGED <<status, targets, called, quote, reply, charged, faults, log>>,
         rpc' \in [Requests -> Everywhere],
         \A r \in Requests :
           rpc'[r] = rpc[r] \/ (rpc[r] \in Waiting /\ rpc'[r] = "dropped")
  PROVE  RequestShape' /\ \A q \in Requests : Serving(q)' /\ Ledger(q)'
<1>1. RequestShape'
  BY DEF BillingInv, RequestShape
<1>2. \A q \in Requests : Rows(q)' = Rows(q)
  BY DEF Rows
<1>3. ASSUME NEW q \in Requests, rpc'[q] = rpc[q] PROVE Serving(q)' /\ Ledger(q)'
  BY <1>2, <1>3, RequestStays DEF BillingInv
<1>4. ASSUME NEW q \in Requests, rpc[q] \in Waiting, rpc'[q] = "dropped"
      PROVE  Serving(q)' /\ Ledger(q)'
  BY <1>4, DroppedLedger DEF BillingInv
<1> QED BY <1>1, <1>3, <1>4

LEMMA InitBillingInv == Init => BillingInv
<1>1. SUFFICES ASSUME Init PROVE BillingInv
  OBVIOUS
<1>2. RequestShape
  BY <1>1 DEF Init, RequestShape, Everywhere
<1>3. ASSUME NEW r \in Requests PROVE Serving(r) /\ Ledger(r)
  <2>1. Rows(r) = {} /\ Clean(r)
    BY <1>1 DEF Init, Rows, Clean
  <2>2. rpc[r] = "idle" /\ status[r] = "none"
    BY <1>1 DEF Init
  <2> QED BY <2>1, <2>2 DEF Serving, Ledger, Targeted, Received, Refusals, Clean
<1> QED BY <1>1, <1>2, <1>3, InitPriceInv DEF Init, BillingInv

LEMMA NextBillingInv == BillingInv /\ [Next]_vars => BillingInv'
<1>1. SUFFICES ASSUME BillingInv, [Next]_vars
               PROVE  RequestShape' /\ \A q \in Requests : Serving(q)' /\ Ledger(q)'
  BY NextPriceInv DEF BillingInv
<1>2. ASSUME NEW r \in Requests, Advance(r)
      PROVE  RequestShape' /\ \A q \in Requests : Serving(q)' /\ Ledger(q)'
  BY <1>1, <1>2, HandlerStep, ResolveGoesOn, CallGoesOn, EarlyStep,
     RecordRequestStep, RecordSpendStep DEF Advance
<1>3. ASSUME NEW r \in Requests, Drop(r)
      PROVE  RequestShape' /\ \A q \in Requests : Serving(q)' /\ Ledger(q)'
  <2>1. /\ rpc' \in [Requests -> Everywhere]
        /\ \A q \in Requests :
             rpc'[q] = rpc[q] \/ (rpc[q] \in Waiting /\ rpc'[q] = "dropped")
    BY <1>1, <1>3 DEF Drop, BillingInv, RequestShape, Everywhere
  <2> QED BY <1>1, <1>3, <2>1, CutOff DEF Drop, BillingInv, RequestShape
<1>4. ASSUME NEW r \in Requests, StoreCapture(r)
      PROVE  RequestShape' /\ \A q \in Requests : Serving(q)' /\ Ledger(q)'
  BY <1>1, <1>4, CutOff DEF StoreCapture, BillingInv, RequestShape
<1>5. CASE UNCHANGED requests
  BY <1>1, <1>5, CutOff DEF requests, BillingInv, RequestShape
<1>6. CASE Restart
  <2>1. /\ rpc' \in [Requests -> Everywhere]
        /\ \A q \in Requests :
             rpc'[q] = rpc[q] \/ (rpc[q] \in Waiting /\ rpc'[q] = "dropped")
    BY <1>1, <1>6 DEF Restart, BillingInv, RequestShape, Everywhere
  <2> QED BY <1>1, <1>6, <2>1, CutOff DEF Restart
<1> QED BY <1>1, <1>2, <1>3, <1>4, <1>5, <1>6 DEF Next, vars

\* No interleaving of requests, cut-offs, restarts and price changes bills a
\* request or charges its key twice, in another target's name, or for an
\* answer that was not there.
THEOREM BilledOnceForTheAnswer == Spec => []BilledForTheAnswer
<1>1. BillingInv => BilledForTheAnswer
  <2>1. SUFFICES ASSUME BillingInv, NEW r \in Requests
                 PROVE  /\ \A i, j \in Rows(r) : i = j
                        /\ \A i \in Rows(r) :
                             log[i].provider = called[r][Len(called[r])]
                        /\ Len(charged[r]) <= 1
                        /\ Rows(r) # {} \/ charged[r] # NotCharged =>
                             /\ status[r] \notin Refusals
                             /\ rpc[r] \in {"charging", "answered", "dropped"}
    BY DEF BilledForTheAnswer
  <2>2. Serving(r) /\ Ledger(r) /\ rpc[r] \in Everywhere
    BY <2>1 DEF BillingInv, RequestShape
  <2>3. Len(charged[r]) <= 1
    <3>1. Len(NotCharged) <= 1 /\ Len(<<Cost(r)>>) <= 1
      BY DEF NotCharged
    <3> QED BY <2>2, <3>1 DEF Ledger
  <2>4. rpc[r] \in Early \/ rpc[r] \in {"charging", "answered", "dropped"}
    BY <2>2 DEF Everywhere, Waiting, Early
  <2> QED BY <2>2, <2>3, <2>4 DEF Ledger, Clean
<1> QED BY <1>1, InitBillingInv, NextBillingInv, PTL DEF Spec

\* The row in the log and the charge on the key come from one price, one that
\* is not below nothing, whatever becomes of prices between the two; either is
\* missing only when its store failed.
THEOREM LogMatchesCharge == Spec => []LogAgreesWithCharge
<1>1. BillingInv => LogAgreesWithCharge
  <2>1. SUFFICES ASSUME BillingInv, NEW r \in Requests, status[r] = "upstream"
                 PROVE  /\ Rows(r) = {} <=> "log" \in faults[r]
                        /\ charged[r] = NotCharged <=> "charge" \in faults[r]
                        /\ faults[r] = {} =>
                             \A i \in Rows(r) :
                               /\ log[i].cost = charged[r][1]
                               /\ log[i].total >= 100 * charged[r][1]
    BY DEF LogAgreesWithCharge
  <2>2. Ledger(r) /\ quote[r] \in Offered \cup {Unpriced}
    BY <2>1 DEF BillingInv, RequestShape
  <2>3. Total(r) >= 100 * Cost(r)
    BY <2>2, CostType DEF Cost, Total
  <2>4. ASSUME faults[r] = {}, NEW i \in Rows(r)
        PROVE  log[i].cost = charged[r][1] /\ log[i].total >= 100 * charged[r][1]
    <3>1. charged[r] = <<Cost(r)>>
      BY <2>1, <2>2, <2>4 DEF Ledger
    <3>2. charged[r][1] = Cost(r)
      BY <3>1
    <3>3. log[i].cost = Cost(r) /\ log[i].total = Total(r)
      BY <2>2 DEF Ledger
    <3> QED BY <2>3, <3>2, <3>3
  <2> QED BY <2>1, <2>2, <2>4 DEF Ledger
<1> QED BY <1>1, InitBillingInv, NextBillingInv, PTL DEF Spec

TypeInv ==
  /\ BillingInv /\ CaptureInv
  /\ captured \in [Requests -> {"no", "spawned", "stored", "lost"}]
  /\ restarts \in 0 .. MaxRestarts

LEMMA NextTypeInv == TypeInv /\ [Next]_vars => TypeInv'
<1>1. SUFFICES ASSUME TypeInv, [Next]_vars
               PROVE  /\ captured' \in [Requests -> {"no", "spawned", "stored", "lost"}]
                      /\ restarts' \in 0 .. MaxRestarts
  BY NextBillingInv, NextCaptureInv DEF TypeInv
<1> USE <1>1 DEF TypeInv
<1>2. ASSUME NEW r \in Requests, Advance(r)
      PROVE  captured' \in [Requests -> {"no", "spawned", "stored", "lost"}]
  <2>1. \/ captured' = captured
        \/ captured' = [captured EXCEPT ![r] =
                          IF CaptureLevel = "none" THEN @ ELSE "spawned"]
    BY <1>2, AdvanceAnswers
  <2> QED BY <2>1
<1>3. ASSUME NEW r \in Requests, Drop(r) \/ StoreCapture(r)
      PROVE  captured' \in [Requests -> {"no", "spawned", "stored", "lost"}]
  BY <1>3 DEF Drop, StoreCapture
<1>4. ASSUME NEW r \in Requests, Advance(r) \/ Drop(r) \/ StoreCapture(r)
      PROVE  restarts' = restarts
  <2>1. CASE Receive(r) \/ PreGovernance(r) \/ Governance(r) \/ PreUpstream(r)
    BY <2>1 DEF Receive, PreGovernance, Governance, PreUpstream
  <2>2. CASE CallTarget(r) \/ ReadBody(r) \/ LoadQuote(r)
    BY <2>2 DEF CallTarget, ReadBody, LoadQuote
  <2>3. CASE RecordRequest(r) \/ RecordSpend(r) \/ Drop(r) \/ StoreCapture(r)
    BY <2>3 DEF RecordRequest, RecordSpend, Drop, StoreCapture
  <2> QED BY <1>4, <2>1, <2>2, <2>3 DEF Advance
<1>5. CASE UNCHANGED <<requests, restarts>>
  BY <1>5 DEF requests
<1>6. CASE Restart
  BY <1>6, RequestAssumption DEF Restart
<1> QED BY <1>2, <1>3, <1>4, <1>5, <1>6 DEF Next, vars

\* The types of all variables: above all, every engine and every price a
\* request is billed by is one the administrators' handler accepts or one of
\* the code, and the table has one row at most under a name.
THEOREM TypesHold == Spec => []TypeOK
<1>1. Init => TypeInv
  <2>1. SUFFICES ASSUME Init PROVE TypeInv
    OBVIOUS
  <2>2. BillingInv /\ CaptureInv
    BY <2>1, InitBillingInv
       DEF Init, CaptureInv, CapturedIffAnswered, Waiting
  <2>3. /\ captured \in [Requests -> {"no", "spawned", "stored", "lost"}]
        /\ restarts \in 0 .. MaxRestarts
    BY <2>1, RequestAssumption DEF Init
  <2> QED BY <2>2, <2>3 DEF TypeInv
<1>2. TypeInv => TypeOK
  <2>1. SUFFICES ASSUME TypeInv PROVE TypeOK
    OBVIOUS
  <2>2. PriceInv /\ RequestShape /\ \A r \in Requests : Serving(r)
    BY <2>1 DEF TypeInv, BillingInv
  <2>3. \A x \in Offered : x \in Prices \cup {Seed[n] : n \in Names}
    BY DEF Offered, Sellable
  <2>4. PricingTypeOK
    <3>1. \A p \in Providers :
            /\ table[p] = NoRow \/ table[p] \in [provider : Names, price : Sellable]
            /\ name[p] = Absent => table[p] = NoRow
      BY <2>2 DEF PriceInv, Consistent, Typed, TypedRow
    <3>2. \A p \in Providers :
            table[p] # NoRow => Priced(table, table[p].provider) = {p}
      BY <2>2 DEF PriceInv, Consistent, Priced
    <3>3. engine \in [Names -> Prices \cup {Seed[n] : n \in Names}]
      BY <2>2, <2>3 DEF PriceInv
    <3> QED BY <2>2, <3>1, <3>2, <3>3 DEF PriceInv, PricingTypeOK
  <2>5. quote \in [Requests -> Prices \cup {Unpriced} \cup {Seed[n] : n \in Names}]
    BY <2>2, <2>3 DEF RequestShape
  <2> QED BY <2>1, <2>2, <2>4, <2>5
          DEF TypeInv, RequestShape, Serving, Targeted, Everywhere, TypeOK
<1> QED BY <1>1, <1>2, NextTypeInv, PTL DEF Spec

=============================================================================
