------------------------------ MODULE Pricing ------------------------------
(***************************************************************************)
(* Prices: the rows of provider_model_config that administrators change    *)
(* (routes/admin/pricing.rs), and the PricingEngine in memory that every   *)
(* request is billed by (zorch-gateway/pricing.rs).                        *)
(*                                                                         *)
(* The engine is a map from provider NAMES; the rows belong to provider    *)
(* ids and carry the name the provider had when the price was set.  A      *)
(* command checks and changes the table with separate statements, queries  *)
(* it, and stores a new engine; commands overlap.  The engine starts from  *)
(* prices in the code, not from the table.                                 *)
(*                                                                         *)
(* One target model; the input and the output price are one number.        *)
(***************************************************************************)
EXTENDS Integers, Sequences

CONSTANTS
  Providers,    \* rows of providers
  Names,        \* provider names
  FirstNames,   \* FirstNames[p]: the name of p when the gateway starts
  Prices,       \* the prices administrators send, [cost, markup]
  Seed,         \* Seed[n]: the price PricingEngine::new has for n, or Unpriced
  Commands,     \* pricing commands, each sent at most once (the bound)
  MaxChanges    \* bound on changes to the providers themselves

Unpriced == [cost |-> 0, markup |-> 0]
NoRow == [provider |-> "none", price |-> Unpriced]
Absent == "absent"

ASSUME PricingAssumption ==
  /\ FirstNames \in [Providers -> Names]
  /\ Prices \subseteq [cost : Int, markup : Int]
  /\ Seed \in [Names -> [cost : Nat, markup : Nat]]
  /\ MaxChanges \in Nat
  /\ {Absent, "none"} \cap Names = {}

VARIABLES
  name,      \* providers.name, or Absent
  table,     \* provider_model_config: the row of each provider, or NoRow
  engine,    \* AppState.pricing, as a function of names
  pc,        \* where each command is
  order,     \* what a set_pricing has looked up and will insert
  rows,      \* what the query of each reload returned
  changes,   \* changes made to providers so far
  overtaken, \* history: commands whose query the table has changed after
  causes     \* history: why the engine may differ from the table

commands == <<pc, order, rows>>
pricingVars == <<name, table, engine, commands, changes, overtaken, causes>>

Sellable == {x \in Prices : x.cost >= 0 /\ x.markup >= 0}
Priced(t, n) == {p \in Providers : t[p].provider = n}

\* PricingEngine::new, then register for every row.
Engine(t) ==
  [n \in Names |-> IF Priced(t, n) = {} THEN Seed[n]
                   ELSE t[CHOOSE p \in Priced(t, n) : TRUE].price]

NoOrder == [id |-> Absent, provider |-> "none", price |-> Unpriced]
NoRows == [p \in Providers |-> NoRow]

\* The table may hold rows from an earlier life; the engine starts without.
PricingInit ==
  /\ name = FirstNames
  /\ table \in [Providers -> {NoRow}] \cup
       {[p \in Providers |-> [provider |-> FirstNames[p], price |-> x]] :
          x \in Sellable}
  /\ \A p, q \in Providers : FirstNames[p] = FirstNames[q] => p = q
  /\ engine = Seed
  /\ pc = [c \in Commands |-> "idle"]
  /\ order = [c \in Commands |-> NoOrder]
  /\ rows = [c \in Commands |-> NoRows]
  /\ changes = 0
  /\ overtaken = {}
  /\ causes = {"start"}

-----------------------------------------------------------------------------
(***************************************************************************)
(* set_pricing and delete_pricing                                          *)
(***************************************************************************)

FaultyValid(x) == TRUE

\* validate_set_pricing
Valid(x) == x.cost >= 0 /\ x.markup >= 0

\* lookup_provider_id takes any provider of the name; its target model exists.
\* A refused request, or one whose provider does not exist, ends there.
LookUpProvider(c) ==
  /\ pc[c] = "idle"
  /\ \E p \in Providers, x \in Prices :
       /\ name[p] # Absent
       /\ Valid(x)
       /\ order' = [order EXCEPT ![c] = [id |-> p, provider |-> name[p], price |-> x]]
  /\ pc' = [pc EXCEPT ![c] = "insert"]
  /\ UNCHANGED <<name, table, engine, rows, changes, overtaken, causes>>

\* The table changes after these commands have read it.
Overtake == overtaken' = {c \in Commands : pc[c] = "store"}

\* INSERT ... ON CONFLICT (provider_id, model) DO UPDATE.  A provider deleted
\* in between, or another row under the same name (UNIQUE (provider, model)),
\* is an error of the database.
SetPricing(c) ==
  LET o == order[c]
      fits == name[o.id] # Absent /\ Priced(table, o.provider) \subseteq {o.id}
  IN  /\ pc[c] = "insert"
      /\ IF fits
         THEN /\ table' = [table EXCEPT ![o.id] =
                             [provider |-> o.provider, price |-> o.price]]
              /\ Overtake
              /\ pc' = [pc EXCEPT ![c] = "load"]
         ELSE /\ pc' = [pc EXCEPT ![c] = "done"]
              /\ UNCHANGED <<table, overtaken>>
      /\ order' = [order EXCEPT ![c] = NoOrder]
      /\ UNCHANGED <<name, engine, rows, changes, causes>>

FaultyDeletePricing(c) ==
  /\ pc[c] = "idle"
  /\ \E p \in Providers :
       /\ table[p] # NoRow
       /\ table' = [table EXCEPT ![p] = NoRow]
  /\ Overtake
  /\ pc' = [pc EXCEPT ![c] = "done"]
  /\ UNCHANGED <<name, engine, order, rows, changes, causes>>

DeletePricing(c) ==
  /\ pc[c] = "idle"
  /\ \E p \in Providers :
       /\ table[p] # NoRow
       /\ table' = [table EXCEPT ![p] = NoRow]
  /\ Overtake
  /\ pc' = [pc EXCEPT ![c] = "load"]
  /\ UNCHANGED <<name, engine, order, rows, changes, causes>>

\* reload_pricing: the query.
LoadPricing(c) ==
  /\ pc[c] = "load"
  /\ rows' = [rows EXCEPT ![c] = table]
  /\ pc' = [pc EXCEPT ![c] = "store"]
  /\ UNCHANGED <<name, table, engine, order, changes, overtaken, causes>>

\* reload_pricing: the new engine replaces the old one.
StorePricing(c) ==
  /\ pc[c] = "store"
  /\ engine' = Engine(rows[c])
  /\ causes' = IF c \in overtaken THEN {"overlap"} ELSE {}
  /\ overtaken' = overtaken \ {c}
  /\ pc' = [pc EXCEPT ![c] = "done"]
  /\ rows' = [rows EXCEPT ![c] = NoRows]
  /\ UNCHANGED <<name, table, order, changes>>

\* A statement fails or the client goes away.  What was committed stays.
AbortPricing(c) ==
  /\ pc[c] \in {"insert", "load", "store"}
  /\ causes' = IF pc[c] = "insert" THEN causes ELSE causes \cup {"aborted"}
  /\ overtaken' = overtaken \ {c}
  /\ pc' = [pc EXCEPT ![c] = "done"]
  /\ order' = [order EXCEPT ![c] = NoOrder]
  /\ rows' = [rows EXCEPT ![c] = NoRows]
  /\ UNCHANGED <<name, table, engine, changes>>

-----------------------------------------------------------------------------
(***************************************************************************)
(* The admin handlers of providers (ProviderState), as far as prices see   *)
(* them: none of them reloads the engine                                   *)
(***************************************************************************)

\* create_provider, update_provider
NameProvider(p) ==
  /\ changes < MaxChanges
  /\ \E n \in Names \ {name[p]} : name' = [name EXCEPT ![p] = n]
  /\ changes' = changes + 1
  /\ UNCHANGED <<table, engine, commands, overtaken, causes>>

\* delete_provider: its row of prices goes with it.
DeleteProvider(p) ==
  /\ changes < MaxChanges
  /\ name[p] # Absent
  /\ name' = [name EXCEPT ![p] = Absent]
  /\ table' = [table EXCEPT ![p] = NoRow]
  /\ causes' = IF table[p] = NoRow THEN causes ELSE causes \cup {"cascade"}
  /\ IF table[p] = NoRow THEN UNCHANGED overtaken ELSE Overtake
  /\ changes' = changes + 1
  /\ UNCHANGED <<engine, commands>>

PricingNext ==
  \/ \E c \in Commands :
       \/ LookUpProvider(c) \/ SetPricing(c) \/ DeletePricing(c)
       \/ LoadPricing(c) \/ StorePricing(c) \/ AbortPricing(c)
  \/ \E p \in Providers : NameProvider(p) \/ DeleteProvider(p)

\* The process ends: the engine and the commands under way are lost.
PricingRestart ==
  /\ engine' = Seed
  /\ pc' = [c \in Commands |-> IF pc[c] = "idle" THEN "idle" ELSE "done"]
  /\ order' = [c \in Commands |-> NoOrder]
  /\ rows' = [c \in Commands |-> NoRows]
  /\ overtaken' = {}
  /\ causes' = {"start"}
  /\ UNCHANGED <<name, table, changes>>

-----------------------------------------------------------------------------
\* Every variable has its type: the part of TypeOK of the composition that is
\* about prices.
PricingTypeOK ==
  /\ name \in [Providers -> Names \cup {Absent}]
  /\ \A p \in Providers :
       /\ table[p] = NoRow \/ table[p] \in [provider : Names, price : Sellable]
       /\ name[p] = Absent => table[p] = NoRow
       /\ table[p] # NoRow => Priced(table, table[p].provider) = {p}
  /\ engine \in [Names -> Prices \cup {Seed[n] : n \in Names}]
  /\ pc \in [Commands -> {"idle", "insert", "load", "store", "done"}]
  /\ changes \in 0 .. MaxChanges

=============================================================================
