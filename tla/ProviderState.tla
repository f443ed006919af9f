---------------------------- MODULE ProviderState ----------------------------
(***************************************************************************)
(* The provider configuration: five tables in Postgres that administrators *)
(* change, and the two values in memory that requests are routed by, the   *)
(* registry of backends and the resolver of public models                  *)
(* (server/providers.rs and the admin handlers that call it).              *)
(*                                                                         *)
(* An admin handler changes the tables with one statement, then reloads:   *)
(* four queries, outside any transaction and any lock, build a registry    *)
(* and a resolver, which replace the shared pointers one after the other.  *)
(* Handlers run concurrently, and requests read the resolver once and the  *)
(* registry again for every target.                                        *)
(*                                                                         *)
(* A row is "absent", or its is_active.  Priorities, labels, secrets and   *)
(* URLs are left out: TargetPool and TargetKeys start from the pools and   *)
(* keys that this module loads.                                            *)
(***************************************************************************)
EXTENDS Integers, Sequences, FiniteSets, SequencesExt

CONSTANTS
  Providers,      \* rows of providers, each with at most one API key row
  Names,          \* providers.name, not unique
  TargetModels,   \* provider_target_models.target_model
  Models,         \* rows of models (public names)
  Blank,          \* a model name that is empty when it is trimmed
  MaxListed,      \* 1000
  Upstream,       \* Upstream[p]: what the provider's /models endpoint answers
  InitialTables,  \* the tables when the gateway starts
  EnvBackend,     \* the backend of register_env_fallback, not a provider row
  EnvName,        \* its provider name
  EnvModels,      \* models it serves under their own name
  Admins,         \* admin commands, each sent at most once (the bound)
  Requests        \* client requests in flight

Row == {"absent", "active", "inactive"}
Tables ==
  [provider : [Providers -> Row],
   name     : [Providers -> Names],
   key      : [Providers -> Row],
   target   : [Providers \X TargetModels -> Row],
   model    : [Models -> Row],
   route    : [Models \X Providers \X TargetModels -> Row]]

\* Keys and target models are of a provider, routes of a model and a target
\* model: Postgres takes no statement that leaves one without.
ForeignKeys(t) ==
  /\ \A p \in Providers :
       t.provider[p] = "absent" =>
         /\ t.key[p] = "absent"
         /\ \A x \in TargetModels : t.target[<<p, x>>] = "absent"
  /\ \A m \in Models, p \in Providers, x \in TargetModels :
       t.route[<<m, p, x>>] # "absent" =>
         t.model[m] # "absent" /\ t.target[<<p, x>>] # "absent"

\* A body of /models: the fields among these that are arrays ("top": the body
\* itself).  Of an element it only matters whether it is a string, or an object
\* with a string for "id" (or, without an id, for "name"), or neither.
ArrayFields == {"data", "models", "top"}
Element == [kind : {"object", "string", "neither"}, name : TargetModels \cup {Blank}]

ASSUME ConfigAssumption ==
  /\ InitialTables \in Tables /\ ForeignKeys(InitialTables)
  /\ \A p \in Providers :
       /\ DOMAIN Upstream[p] \subseteq ArrayFields
       /\ \A f \in DOMAIN Upstream[p] : Upstream[p][f] \in Seq(Element)
  /\ Blank \notin TargetModels
  /\ MaxListed \in Nat
  /\ EnvBackend \notin Providers
  /\ EnvModels \subseteq Models \cap TargetModels

VARIABLES
  past,       \* the tables after each change, the current ones last
  registry,   \* AppState.proxy_providers
  resolver,   \* AppState.model_resolver
  pc,         \* where each admin handler is
  todo,       \* models a sync has still to insert, in their order
  load,       \* what the running load of each handler has read
  mine,       \* history: the versions each running handler has made
  lost,       \* history: versions whose handler ended without storing
  newest,     \* history: the latest load each pointer has held
  rpc,        \* where each request is
  rTargets,   \* `targets` of a request, those not tried yet
  rResolver   \* history: the load its resolver came from

admins == <<pc, todo, load, mine, lost, newest>>
requests == <<rpc, rTargets, rResolver>>
vars == <<past, registry, resolver, admins, requests>>

\* The current tables.
tables == Last(past)
Version == Len(past)

-----------------------------------------------------------------------------
(***************************************************************************)
(* load_providers_and_models                                               *)
(***************************************************************************)

NoLoad == [from |-> 0, to |-> 0, active |-> {}, name |-> [p \in {} |-> 0],
           keys |-> {}, offers |-> {}, routes |-> {}]

Queries == {"providers", "keys", "offers", "aliases"}

\* Names that start with Faulty are seeded faults (see README), as in
\* BackendCircuit.
FaultyBackendsOf(l) ==
  {[id |-> p, name |-> l.name[p],
    models |-> {x \in TargetModels : <<p, x>> \in l.offers}] : p \in l.active}

\* The loop over provider_builds: a provider without models or without keys is
\* skipped.
BackendsOf(l) ==
  {[id |-> p, name |-> l.name[p],
    models |-> {x \in TargetModels : <<p, x>> \in l.offers}] :
     p \in {q \in l.active :
              /\ q \in l.keys
              /\ \E x \in TargetModels : <<q, x>> \in l.offers}}

FaultyAliases(t) ==
  {[public |-> r[1], name |-> t.name[r[2]], model |-> r[3]] :
     r \in {s \in Models \X Providers \X TargetModels :
              /\ t.route[s] = "active"
              /\ t.model[s[1]] = "active"
              /\ t.target[<<s[2], s[3]>>] = "active"}}

\* The join of the alias query.
Aliases(t) ==
  {[public |-> r[1], name |-> t.name[r[2]], model |-> r[3]] :
     r \in {s \in Models \X Providers \X TargetModels :
              /\ t.route[s] = "active"
              /\ t.model[s[1]] = "active"
              /\ t.target[<<s[2], s[3]>>] = "active"
              /\ t.provider[s[2]] = "active"}}

Registry(l) == [from |-> l.from, to |-> l.to, backends |-> BackendsOf(l)]
Resolver(l) == [from |-> l.from, to |-> l.to, targets |-> l.routes]

\* register_env_fallback, when no provider is active: nothing else is read.
EnvRegistry(v) ==
  [from |-> v, to |-> v,
   backends |-> IF EnvModels = {} THEN {}
                ELSE {[id |-> EnvBackend, name |-> EnvName,
                       models |-> EnvModels]}]
EnvResolver(v) ==
  [from |-> v, to |-> v,
   targets |-> {[public |-> x, name |-> EnvName, model |-> x] :
                  x \in EnvModels}]

ActiveProviders(t) == {p \in Providers : t.provider[p] = "active"}

\* register_providers_and_models: one load before the server listens.
Loaded(t, v) ==
  [from |-> v, to |-> v, active |-> ActiveProviders(t),
   name |-> t.name,
   keys |-> {p \in Providers : t.key[p] = "active"},
   offers |-> {o \in Providers \X TargetModels : t.target[o] = "active"},
   routes |-> Aliases(t)]

Init ==
  /\ past = <<InitialTables>>
  /\ registry = IF ActiveProviders(InitialTables) = {} THEN EnvRegistry(1)
                ELSE Registry(Loaded(InitialTables, 1))
  /\ resolver = IF ActiveProviders(InitialTables) = {} THEN EnvResolver(1)
                ELSE Resolver(Loaded(InitialTables, 1))
  /\ pc = [h \in Admins |-> "idle"]
  /\ todo = [h \in Admins |-> <<>>]
  /\ load = [h \in Admins |-> NoLoad]
  /\ mine = [h \in Admins |-> {}]
  /\ lost = {}
  /\ newest = [registry |-> 1, resolver |-> 1]
  /\ rpc = [r \in Requests |-> "idle"]
  /\ rTargets = [r \in Requests |-> {}]
  /\ rResolver = [r \in Requests |-> <<0, 0>>]

-----------------------------------------------------------------------------
(***************************************************************************)
(* The statements of the admin handlers.  A request that fails validation, *)
(* or whose statement fails or changes no row, ends there: no action.      *)
(***************************************************************************)

\* Every mutating handler goes on to reload_provider_state.
AfterCommit(h) == pc' = [pc EXCEPT ![h] = "providers"]

\* The statement of handler h leaves the tables as t.  Bound: one that sets
\* only what is set already is left out.
Commit(h, t) ==
  /\ pc[h] = "idle"
  /\ t # tables
  /\ past' = Append(past, t)
  /\ mine' = [mine EXCEPT ![h] = {Version + 1}]
  /\ AfterCommit(h)
  /\ UNCHANGED <<registry, resolver, todo, load, lost, newest, requests>>

Status(active) == IF active THEN "active" ELSE "inactive"

CreateProvider(h) ==
  \E p \in Providers, n \in Names, on \in BOOLEAN :
    /\ tables.provider[p] = "absent"
    /\ Commit(h, [tables EXCEPT !.provider[p] = Status(on), !.name[p] = n])

UpdateProvider(h) ==
  \E p \in Providers, n \in Names, on \in BOOLEAN :
    /\ tables.provider[p] # "absent"
    /\ Commit(h, [tables EXCEPT !.provider[p] = Status(on), !.name[p] = n])

SetProviderActive(h) ==
  \E p \in Providers, on \in BOOLEAN :
    /\ tables.provider[p] # "absent"
    /\ Commit(h, [tables EXCEPT !.provider[p] = Status(on)])

FaultyDeleteProvider(h) ==
  \E p \in Providers :
    /\ tables.provider[p] # "absent"
    /\ Commit(h, [tables EXCEPT !.provider[p] = "absent"])

\* The foreign keys cascade to keys, target models and routes.
DeleteProvider(h) ==
  \E p \in Providers :
    /\ tables.provider[p] # "absent"
    /\ Commit(h,
         [tables EXCEPT
            !.provider[p] = "absent", !.key[p] = "absent",
            !.target = [o \in DOMAIN @ |-> IF o[1] = p THEN "absent" ELSE @[o]],
            !.route = [s \in DOMAIN @ |-> IF s[2] = p THEN "absent" ELSE @[s]]])

CreateProviderApiKey(h) ==
  \E p \in Providers, on \in BOOLEAN :
    /\ tables.provider[p] # "absent"
    /\ tables.key[p] = "absent"
    /\ Commit(h, [tables EXCEPT !.key[p] = Status(on)])

DeleteProviderApiKey(h) ==
  \E p \in Providers :
    /\ tables.key[p] # "absent"
    /\ Commit(h, [tables EXCEPT !.key[p] = "absent"])

SetProviderApiKeyActive(h) ==
  \E p \in Providers, on \in BOOLEAN :
    /\ tables.key[p] # "absent"
    /\ Commit(h, [tables EXCEPT !.key[p] = Status(on)])

CreateProviderTargetModel(h) ==
  \E p \in Providers, x \in TargetModels, on \in BOOLEAN :
    /\ tables.provider[p] # "absent"
    /\ tables.target[<<p, x>>] = "absent"
    /\ Commit(h, [tables EXCEPT !.target[<<p, x>>] = Status(on)])

DeleteProviderTargetModel(h) ==
  \E p \in Providers, x \in TargetModels :
    /\ tables.target[<<p, x>>] # "absent"
    /\ Commit(h,
         [tables EXCEPT
            !.target[<<p, x>>] = "absent",
            !.route = [s \in DOMAIN @ |->
                         IF s[2] = p /\ s[3] = x THEN "absent" ELSE @[s]]])

CreateModel(h) ==
  \E m \in Models, on \in BOOLEAN :
    /\ tables.model[m] = "absent"
    /\ Commit(h, [tables EXCEPT !.model[m] = Status(on)])

\* A new public name moves the row, and the routes with it.
UpdateModel(h) ==
  \E m, n \in Models, on \in BOOLEAN :
    /\ tables.model[m] # "absent"
    /\ n = m \/ tables.model[n] = "absent"
    /\ Commit(h,
         [tables EXCEPT
            !.model = [@ EXCEPT ![m] = "absent", ![n] = Status(on)],
            !.route = [s \in DOMAIN @ |->
                         CASE s[1] = n -> @[<<m, s[2], s[3]>>]
                           [] s[1] = m /\ m # n -> "absent"
                           [] OTHER -> @[s]]])

DeleteModel(h) ==
  \E m \in Models :
    /\ tables.model[m] # "absent"
    /\ Commit(h,
         [tables EXCEPT
            !.model[m] = "absent",
            !.route = [s \in DOMAIN @ |-> IF s[1] = m THEN "absent" ELSE @[s]]])

CreateModelTarget(h) ==
  \E m \in Models, p \in Providers, x \in TargetModels, on \in BOOLEAN :
    /\ tables.model[m] # "absent"
    /\ tables.target[<<p, x>>] # "absent"
    /\ tables.route[<<m, p, x>>] = "absent"
    /\ Commit(h, [tables EXCEPT !.route[<<m, p, x>>] = Status(on)])

\* The route may move to another target model, of any provider.
UpdateModelTarget(h) ==
  \E s, u \in Models \X Providers \X TargetModels, on \in BOOLEAN :
    /\ tables.route[s] # "absent"
    /\ u[1] = s[1]
    /\ u = s \/ tables.route[u] = "absent"
    /\ tables.target[<<u[2], u[3]>>] # "absent"
    /\ Commit(h, [tables EXCEPT !.route =
                    [@ EXCEPT ![s] = "absent", ![u] = Status(on)]])

DeleteModelTarget(h) ==
  \E s \in Models \X Providers \X TargetModels :
    /\ tables.route[s] # "absent"
    /\ Commit(h, [tables EXCEPT !.route[s] = "absent"])

\* ids_from and strings_from, of a body's field; nothing if that is no array.
NamesIn(body, field, kind) ==
  IF field \notin DOMAIN body THEN <<>>
  ELSE LET found == SelectSeq(body[field], LAMBDA e : e.kind = kind)
       IN  [i \in DOMAIN found |-> found[i].name]

\* extract_models, as a set of one list, or of none when no list is recognised.
\* Objects in "data" are taken though there be none; the other places count only
\* when they have something.
ExtractModels(body) ==
  LET places == <<NamesIn(body, "models", "object"),
                  NamesIn(body, "models", "string"),
                  NamesIn(body, "top", "object"),
                  NamesIn(body, "top", "string")>>
      filled == SelectSeq(places, LAMBDA s : s # <<>>)
  IN  IF "data" \in DOMAIN body THEN {NamesIn(body, "data", "object")}
      ELSE {filled[i] : i \in DOMAIN filled \cap {1}}

\* normalize_models, as a set of one list: the first MaxListed names, each where
\* it occurs first, without blanks.
NormalizeModels(raw) ==
  LET firsts == {i \in DOMAIN raw :
                   raw[i] \notin {Blank} \cup {raw[j] : j \in 1 .. i - 1}}
      Rank(i) == Cardinality({j \in firsts : j <= i})
      kept == {i \in firsts : Rank(i) <= MaxListed}
  IN  {out \in BoundedSeq(TargetModels, MaxListed) :
         /\ Len(out) = Cardinality(kept)
         /\ \A i \in kept : out[Rank(i)] = raw[i]}

\* preview_upstream_models; an endpoint that fails, or whose answer is not
\* understood, ends the command.
PreviewUpstreamModels(p) ==
  UNION {NormalizeModels(raw) : raw \in ExtractModels(Upstream[p])}

\* sync_provider_target_models: the provider is read, its endpoint asked, and
\* every model it lists inserted by a statement of its own.
SyncStart(h) ==
  /\ pc[h] = "idle"
  /\ \E p \in ActiveProviders(tables) :
       \E models \in PreviewUpstreamModels(p) :
         todo' = [todo EXCEPT ![h] = [i \in DOMAIN models |-> <<p, models[i]>>]]
  /\ pc' = [pc EXCEPT ![h] = "syncing"]
  /\ UNCHANGED <<past, registry, resolver, load, mine, lost, newest, requests>>

\* ON CONFLICT DO NOTHING: a model that is there stays as it is.
SyncInsert(h) ==
  /\ pc[h] = "syncing"
  /\ todo[h] # <<>>
  /\ LET o == Head(todo[h])
     IN  /\ tables.provider[o[1]] # "absent"
         /\ \/ /\ tables.target[o] # "absent"
               /\ UNCHANGED <<past, mine>>
            \/ /\ tables.target[o] = "absent"
               /\ past' = Append(past, [tables EXCEPT !.target[o] = "active"])
               /\ mine' = [mine EXCEPT ![h] = @ \cup {Version + 1}]
  /\ todo' = [todo EXCEPT ![h] = Tail(@)]
  /\ UNCHANGED <<pc, registry, resolver, load, lost, newest, requests>>

SyncReload(h) ==
  /\ pc[h] = "syncing"
  /\ todo[h] = <<>>
  /\ pc' = [pc EXCEPT ![h] = "providers"]
  /\ UNCHANGED <<past, registry, resolver, todo, load, mine, lost, newest,
                 requests>>

-----------------------------------------------------------------------------
(***************************************************************************)
(* reload_provider_state                                                   *)
(***************************************************************************)

QueryProviders(h) ==
  /\ pc[h] = "providers"
  /\ load' = [load EXCEPT ![h] =
                [NoLoad EXCEPT !.from = Version, !.to = Version,
                               !.active = ActiveProviders(tables),
                               !.name = [p \in ActiveProviders(tables) |->
                                           tables.name[p]]]]
  /\ pc' = [pc EXCEPT ![h] =
              IF ActiveProviders(tables) = {} THEN "storing" ELSE "keys"]
  /\ UNCHANGED <<past, registry, resolver, todo, mine, lost, newest, requests>>

QueryKeys(h) ==
  /\ pc[h] = "keys"
  /\ load' = [load EXCEPT ![h].keys =
                {p \in Providers : tables.key[p] = "active"}]
  /\ pc' = [pc EXCEPT ![h] = "offers"]
  /\ UNCHANGED <<past, registry, resolver, todo, mine, lost, newest, requests>>

QueryTargetModels(h) ==
  /\ pc[h] = "offers"
  /\ load' = [load EXCEPT ![h].offers =
                {o \in Providers \X TargetModels : tables.target[o] = "active"}]
  /\ pc' = [pc EXCEPT ![h] = "aliases"]
  /\ UNCHANGED <<past, registry, resolver, todo, mine, lost, newest, requests>>

QueryAliases(h) ==
  /\ pc[h] = "aliases"
  /\ load' = [load EXCEPT ![h].routes = Aliases(tables), ![h].to = Version]
  /\ pc' = [pc EXCEPT ![h] = "storing"]
  /\ UNCHANGED <<past, registry, resolver, todo, mine, lost, newest, requests>>

Later(v, w) == IF v < w THEN w ELSE v

\* registry_swap.store, the first of the two.
StoreRegistry(h) ==
  /\ pc[h] = "storing"
  /\ registry' = IF load[h].active = {} THEN EnvRegistry(load[h].from)
                 ELSE Registry(load[h])
  /\ newest' = [newest EXCEPT !.registry = Later(@, load[h].from)]
  /\ pc' = [pc EXCEPT ![h] = "stored"]
  /\ UNCHANGED <<past, resolver, todo, load, mine, lost, requests>>

\* The handler is over.
Finish(h) ==
  /\ pc' = [pc EXCEPT ![h] = "done"]
  /\ todo' = [todo EXCEPT ![h] = <<>>]
  /\ load' = [load EXCEPT ![h] = NoLoad]
  /\ mine' = [mine EXCEPT ![h] = {}]

FaultyStoreResolver(h) ==
  /\ pc[h] = "stored"
  /\ Finish(h)
  /\ UNCHANGED <<past, registry, resolver, lost, newest, requests>>

\* resolver_swap.store.  The invalidation of the model cache that follows can
\* only turn the answer into an error: both pointers are in place.
StoreResolver(h) ==
  /\ pc[h] = "stored"
  /\ resolver' = IF load[h].active = {} THEN EnvResolver(load[h].from)
                 ELSE Resolver(load[h])
  /\ newest' = [newest EXCEPT !.resolver = Later(@, load[h].from)]
  /\ Finish(h)
  /\ UNCHANGED <<past, registry, lost, requests>>

\* A query, or an insert of a sync, fails, or the client goes away and the
\* handler is dropped at an await: what it changed stays in the tables.  There
\* is no await between the two stores.
Abort(h) ==
  /\ pc[h] \in Queries \cup {"syncing"}
  /\ lost' = lost \cup mine[h]
  /\ Finish(h)
  /\ UNCHANGED <<past, registry, resolver, newest, requests>>

-----------------------------------------------------------------------------
(***************************************************************************)
(* Requests: proxy_handler and try_target_pool, as far as they read the    *)
(* two pointers                                                            *)
(***************************************************************************)

\* A model without targets is answered with an error at once: no action.
ResolveModel(r) ==
  /\ rpc[r] = "idle"
  /\ \E m \in Models :
       LET found == {t \in resolver.targets : t.public = m}
       IN  /\ found # {}
           /\ rTargets' = [rTargets EXCEPT ![r] = found]
  /\ rpc' = [rpc EXCEPT ![r] = "routing"]
  /\ rResolver' = [rResolver EXCEPT ![r] = <<resolver.from, resolver.to>>]
  /\ UNCHANGED <<past, registry, resolver, admins>>

\* ProxyProviderRegistry::find_backends
FindBackends(target) ==
  {b \in registry.backends : b.name = target.name /\ target.model \in b.models}

\* One target is tried.  With backends it may answer, and the request is over;
\* without, or when all its calls fail, the next target is tried, if any.
TryTarget(r) ==
  /\ rpc[r] = "routing"
  /\ \E t \in rTargets[r] :
       \E left \in {rTargets[r] \ {t}} \cup
                  (IF FindBackends(t) = {} THEN {} ELSE {{}}) :
         /\ rTargets' = [rTargets EXCEPT ![r] = left]
         /\ rpc' = [rpc EXCEPT ![r] = IF left = {} THEN "idle" ELSE @]
         /\ rResolver' = [rResolver EXCEPT ![r] = IF left = {} THEN <<0, 0>>
                                                 ELSE @]
  /\ UNCHANGED <<past, registry, resolver, admins>>

-----------------------------------------------------------------------------
AdminCommand(h) ==
  \/ CreateProvider(h) \/ UpdateProvider(h) \/ SetProviderActive(h)
  \/ DeleteProvider(h)
  \/ CreateProviderApiKey(h) \/ DeleteProviderApiKey(h)
  \/ SetProviderApiKeyActive(h)
  \/ CreateProviderTargetModel(h) \/ DeleteProviderTargetModel(h)
  \/ CreateModel(h) \/ UpdateModel(h) \/ DeleteModel(h)
  \/ CreateModelTarget(h) \/ UpdateModelTarget(h) \/ DeleteModelTarget(h)
  \/ SyncStart(h)

Reload(h) ==
  \/ SyncInsert(h) \/ SyncReload(h)
  \/ QueryProviders(h) \/ QueryKeys(h) \/ QueryTargetModels(h)
  \/ QueryAliases(h)
  \/ StoreRegistry(h) \/ StoreResolver(h)

Next ==
  \/ \E h \in Admins : AdminCommand(h) \/ Reload(h) \/ Abort(h)
  \/ \E r \in Requests : ResolveModel(r) \/ TryTarget(r)

Spec == Init /\ [][Next]_vars

-----------------------------------------------------------------------------
(***************************************************************************)
(* Properties                                                              *)
(***************************************************************************)

\* Tables keep their types and their foreign keys, a load is never ahead of the
\* tables, and a sync has no model to insert that the endpoint did not name.
TypeOK ==
  /\ tables \in Tables /\ ForeignKeys(tables)
  /\ \A h \in Admins : load[h].from <= load[h].to /\ load[h].to <= Version
  /\ todo \in [Admins -> Seq(Providers \X TargetModels)]
  /\ pc \in [Admins -> Queries \cup {"idle", "syncing", "storing", "stored", "done"}]
  /\ rpc \in [Requests -> {"idle", "routing"}]

\* What a request for model m could be routed to, by the tables alone: the
\* active route, its model and target model, and an active provider of that
\* name with a key.
Routable(t, m, name, x) ==
  \E p, q \in Providers :
    /\ {t.provider[p], t.provider[q], t.key[q], t.model[m],
        t.target[<<p, x>>], t.target[<<q, x>>], t.route[<<m, p, x>>]}
         = {"active"}
    /\ t.name[p] = name /\ t.name[q] = name

\* Both pointers hold the result of a load during which the tables did not
\* change, and both of the same tables: then a model is routed to exactly what
\* those tables say, through the two values put together by the request.
QuietLoadRoutesAsTables ==
  /\ registry.from = registry.to
  /\ <<resolver.from, resolver.to>> = <<registry.from, registry.to>>
  /\ ActiveProviders(past[registry.from]) # {}
  => \A m \in Models, n \in Names, x \in TargetModels :
       LET target == [public |-> m, name |-> n, model |-> x]
       IN  (target \in resolver.targets /\ FindBackends(target) # {})
             <=> Routable(past[registry.from], m, n, x)

\* However handlers interleave, fail or are dropped, every version of the
\* tables has reached both pointers, is on its way, or was lost with its
\* handler: no command returns before a load that began after its statement
\* has been stored.
EveryVersionWasStored ==
  \A v \in 2 .. Version :
    \/ v <= newest.registry /\ v <= newest.resolver
    \/ v \in lost
    \/ \E h \in Admins : v \in mine[h] /\ pc[h] # "done"

\* A request that finds no backend for a target its resolver gave it got its
\* two values from different loads, or from one that the tables changed under,
\* or none of the providers of that name that offer the model has a key.
MissingBackendOnlyForCause ==
  [][\A r \in Requests :
       rpc[r] = "routing" /\ TryTarget(r) =>
         \A t \in rTargets[r] :
           FindBackends(t) = {} =>
             \/ rResolver[r] # <<registry.from, registry.to>>
             \/ registry.from # registry.to
             \/ LET then == past[registry.from]
                    offering == {p \in ActiveProviders(then) :
                                   /\ then.name[p] = t.name
                                   /\ then.target[<<p, t.model>>] = "active"}
                IN  offering # {} /\ \A p \in offering : then.key[p] # "active"
    ]_vars

-----------------------------------------------------------------------------
(***************************************************************************)
(* What a comment says of the program, and the code does not               *)
(***************************************************************************)

\* providers_state.rs: the reload is "keeping in-memory state consistent with
\* Postgres after provider, target model, or API key mutations".  Stated for
\* the moments when no handler runs and none was lost.
MemoryConsistentWithPostgres ==
  (lost = {} /\ \A h \in Admins : pc[h] \in {"idle", "done"}) =>
    \/ ActiveProviders(tables) = {}
    \/ /\ registry.backends = BackendsOf(Loaded(tables, Version))
       /\ resolver.targets = Aliases(tables)

=============================================================================
