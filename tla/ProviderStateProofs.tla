------------------------ MODULE ProviderStateProofs ------------------------
(***************************************************************************)
(* Proofs about ProviderState, for every number of providers, models,      *)
(* requests and concurrent admin handlers: the tables keep their foreign   *)
(* keys, no version of them is forgotten, and what an undisturbed load     *)
(* leaves in memory routes as the tables do.                               *)
(***************************************************************************)
EXTENDS ProviderState, TLAPS

LEMMA AppendedOnce ==
  ASSUME NEW A, NEW s \in Seq(A), NEW e
  PROVE  /\ Append(s, e) \in Seq(A \cup {e})
         /\ Len(Append(s, e)) = Len(s) + 1
         /\ Len(s) \in Nat
<1>1. s \in Seq(A \cup {e})
  OBVIOUS
<1> QED BY <1>1

(***************************************************************************)
(* A handler that has read the tables holds a load at least as new as the  *)
(* version it made; one that has stored the registry, a registry at least  *)
(* as new as its load.                                                     *)
(***************************************************************************)

Loading == {"keys", "offers", "aliases", "storing", "stored"}

StateShape ==
  /\ \E A : past \in Seq(A)
  /\ DOMAIN pc = Admins /\ DOMAIN mine = Admins /\ DOMAIN load = Admins
  /\ newest \in [registry : Nat, resolver : Nat]
  /\ \A h \in Admins : "from" \in DOMAIN load[h] /\ load[h].from \in Nat

VersionsAreMade ==
  \A h \in Admins : mine[h] \subseteq 1 .. Version

LoadsAreRecent ==
  \A h \in Admins :
    pc[h] \in Loading => \A v \in mine[h] : v <= load[h].from

StoresAreRecent ==
  \A h \in Admins : pc[h] = "stored" => load[h].from <= newest.registry

NobodyElseOwns ==
  \A h \in Admins : pc[h] \in {"idle", "done"} => mine[h] = {}

\* Version v needs no one any more.
Settled(v) == (v <= newest.registry /\ v <= newest.resolver) \/ v \in lost

EveryVersionAccounted ==
  \A v \in 2 .. Version : Settled(v) \/ \E h \in Admins : v \in mine[h]

StoredInv ==
  /\ StateShape /\ VersionsAreMade /\ LoadsAreRecent /\ StoresAreRecent
  /\ NobodyElseOwns /\ EveryVersionAccounted

LEMMA VersionType == StateShape => Version \in Nat
  BY DEF StateShape, Version

LEMMA InitStoredInv == Init => StoredInv
<1>1. SUFFICES ASSUME Init PROVE StoredInv
  OBVIOUS
<1>2. past \in Seq({InitialTables}) /\ Version = 1
  BY <1>1 DEF Init, Version
<1>3. \A h \in Admins : load[h] = NoLoad /\ pc[h] = "idle" /\ mine[h] = {}
  BY <1>1 DEF Init
<1>4. DOMAIN pc = Admins /\ DOMAIN mine = Admins /\ DOMAIN load = Admins
  BY <1>1 DEF Init
<1>5. "from" \in DOMAIN NoLoad /\ NoLoad.from = 0
  BY Zenon DEF NoLoad
<1>6. newest \in [registry : Nat, resolver : Nat]
  BY <1>1 DEF Init
<1>7. StateShape
  BY <1>2, <1>3, <1>4, <1>5, <1>6 DEF StateShape
<1>8. VersionsAreMade /\ LoadsAreRecent /\ StoresAreRecent /\ NobodyElseOwns
  BY <1>3 DEF VersionsAreMade, LoadsAreRecent, StoresAreRecent, NobodyElseOwns,
              Loading
<1>9. EveryVersionAccounted
  BY <1>2 DEF EveryVersionAccounted
<1> QED BY <1>7, <1>8, <1>9 DEF StoredInv

-----------------------------------------------------------------------------
(***************************************************************************)
(* The statements of the admin handlers                                    *)
(***************************************************************************)

\* A statement makes a version, which its handler owns from then on.
LEMMA VersionMade ==
  ASSUME StoredInv, NEW h \in Admins, NEW t, past' = Append(past, t),
         DOMAIN mine' = Admins, DOMAIN pc' = Admins,
         mine'[h] = mine[h] \cup {Version + 1},
         pc'[h] \in {"providers", "syncing"},
         \A g \in Admins \ {h} : mine'[g] = mine[g] /\ pc'[g] = pc[g],
         UNCHANGED <<load, lost, newest>>
  PROVE  StoredInv'
<1>1. PICK A : past \in Seq(A)
  BY DEF StoredInv, StateShape
<1>2. Version \in Nat /\ Version' = Version + 1 /\ past' \in Seq(A \cup {t})
  BY <1>1, AppendedOnce DEF Version
<1>3. StateShape'
  BY <1>2 DEF StoredInv, StateShape
<1>5. VersionsAreMade'
  BY <1>2 DEF StoredInv, VersionsAreMade
<1>6. LoadsAreRecent' /\ StoresAreRecent' /\ NobodyElseOwns'
  BY DEF StoredInv, LoadsAreRecent, StoresAreRecent, NobodyElseOwns, Loading
<1>7. EveryVersionAccounted'
  <2>1. SUFFICES ASSUME NEW v \in 2 .. Version'
                 PROVE  Settled(v)' \/ \E g \in Admins : v \in mine'[g]
    BY DEF EveryVersionAccounted
  <2>2. CASE v = Version + 1
    BY <2>2
  <2>3. CASE v # Version + 1
    <3>1. v \in 2 .. Version
      BY <1>2, <2>1, <2>3
    <3>2. Settled(v) \/ \E g \in Admins : v \in mine[g]
      BY <3>1 DEF StoredInv, EveryVersionAccounted
    <3> QED BY <3>2 DEF Settled
  <2> QED BY <2>2, <2>3
<1> QED BY <1>3, <1>5, <1>6, <1>7 DEF StoredInv

LEMMA CommitStores ==
  ASSUME StoredInv, NEW h \in Admins, NEW t, Commit(h, t)
  PROVE  StoredInv'
<1>1. pc[h] = "idle" /\ mine[h] = {}
  BY DEF Commit, StoredInv, NobodyElseOwns
<1>2. /\ DOMAIN mine' = Admins /\ mine'[h] = mine[h] \cup {Version + 1}
      /\ DOMAIN pc' = Admins /\ pc'[h] = "providers"
      /\ \A g \in Admins \ {h} : mine'[g] = mine[g] /\ pc'[g] = pc[g]
  BY <1>1 DEF Commit, AfterCommit, StoredInv, StateShape
<1>3. past' = Append(past, t) /\ UNCHANGED <<load, lost, newest>>
  BY DEF Commit
<1> QED BY <1>2, <1>3, VersionMade

\* Every command but the start of a sync is one statement.
LEMMA CommandCommits ==
  ASSUME NEW h \in Admins, AdminCommand(h), ~SyncStart(h)
  PROVE  \E t : Commit(h, t)
<1>1. CASE CreateProvider(h) \/ UpdateProvider(h) \/ SetProviderActive(h)
           \/ DeleteProvider(h)
  BY <1>1, Zenon DEF CreateProvider, UpdateProvider, SetProviderActive,
                     DeleteProvider
<1>2. CASE CreateProviderApiKey(h) \/ DeleteProviderApiKey(h)
           \/ SetProviderApiKeyActive(h)
  BY <1>2, Zenon DEF CreateProviderApiKey, DeleteProviderApiKey,
                     SetProviderApiKeyActive
<1>3. CASE CreateProviderTargetModel(h) \/ DeleteProviderTargetModel(h)
           \/ CreateModel(h) \/ UpdateModel(h) \/ DeleteModel(h)
  BY <1>3, Zenon DEF CreateProviderTargetModel, DeleteProviderTargetModel,
                     CreateModel, UpdateModel, DeleteModel
<1>4. CASE CreateModelTarget(h) \/ UpdateModelTarget(h) \/ DeleteModelTarget(h)
  BY <1>4, Zenon DEF CreateModelTarget, UpdateModelTarget, DeleteModelTarget
<1> QED BY <1>1, <1>2, <1>3, <1>4 DEF AdminCommand

-----------------------------------------------------------------------------
(***************************************************************************)
(* The steps of a handler                                                  *)
(***************************************************************************)

\* Steps that make no version, store nothing and start no load.
LEMMA Proceeds ==
  ASSUME StoredInv, NEW h \in Admins, NEW s, s \notin {"stored", "done"},
         pc' = [pc EXCEPT ![h] = s],
         s \in Loading => pc[h] \in Loading,
         s = "idle" => pc[h] = "idle",
         DOMAIN load' = Admins,
         \A g \in Admins : "from" \in DOMAIN load'[g] /\ load'[g].from = load[g].from,
         UNCHANGED <<past, mine, lost, newest>>
  PROVE  StoredInv'
<1>1. pc'[h] = s /\ \A g \in Admins \ {h} : pc'[g] = pc[g]
  BY DEF StoredInv, StateShape
<1>2. StateShape' /\ VersionsAreMade' /\ EveryVersionAccounted'
  BY DEF StoredInv, StateShape, VersionsAreMade, EveryVersionAccounted, Version,
         Settled
<1>3. LoadsAreRecent' /\ StoresAreRecent' /\ NobodyElseOwns'
  BY <1>1 DEF StoredInv, LoadsAreRecent, StoresAreRecent, NobodyElseOwns
<1> QED BY <1>2, <1>3 DEF StoredInv

LEMMA SyncStarts ==
  ASSUME StoredInv, NEW h \in Admins, SyncStart(h)
  PROVE  StoredInv'
<1>1. pc' = [pc EXCEPT ![h] = "syncing"] /\ UNCHANGED <<past, load, mine, lost, newest>>
  BY DEF SyncStart
<1>2. DOMAIN load' = Admins
      /\ \A g \in Admins : "from" \in DOMAIN load'[g] /\ load'[g].from = load[g].from
  BY <1>1 DEF StoredInv, StateShape
<1> QED BY <1>1, <1>2, Proceeds DEF Loading

LEMMA SyncInserts ==
  ASSUME StoredInv, NEW h \in Admins, SyncInsert(h)
  PROVE  StoredInv'
<1>1. pc[h] = "syncing" /\ UNCHANGED <<pc, load, lost, newest>>
  BY DEF SyncInsert
<1>2. CASE UNCHANGED <<past, mine>>
  BY <1>1, <1>2 DEF StoredInv, StateShape, VersionsAreMade, LoadsAreRecent,
     StoresAreRecent, NobodyElseOwns, EveryVersionAccounted, Settled, Version
<1>3. CASE /\ \E t : past' = Append(past, t)
           /\ mine' = [mine EXCEPT ![h] = @ \cup {Version + 1}]
  <2>1. PICK t : past' = Append(past, t)
    BY <1>3
  <2>2. /\ DOMAIN mine' = Admins /\ mine'[h] = mine[h] \cup {Version + 1}
        /\ DOMAIN pc' = Admins /\ pc'[h] = "syncing"
        /\ \A g \in Admins \ {h} : mine'[g] = mine[g] /\ pc'[g] = pc[g]
    BY <1>1, <1>3 DEF StoredInv, StateShape
  <2> QED BY <1>1, <2>1, <2>2, VersionMade
<1>4. UNCHANGED <<past, mine>> \/
        (/\ past' = Append(past, [tables EXCEPT !.target[Head(todo[h])] = "active"])
         /\ mine' = [mine EXCEPT ![h] = @ \cup {Version + 1}])
  BY Zenon DEF SyncInsert
<1> QED BY <1>2, <1>3, <1>4

LEMMA SyncReloads ==
  ASSUME StoredInv, NEW h \in Admins, SyncReload(h)
  PROVE  StoredInv'
<1>1. pc' = [pc EXCEPT ![h] = "providers"] /\ UNCHANGED <<past, load, mine, lost, newest>>
  BY DEF SyncReload
<1>2. DOMAIN load' = Admins
      /\ \A g \in Admins : "from" \in DOMAIN load'[g] /\ load'[g].from = load[g].from
  BY <1>1 DEF StoredInv, StateShape
<1> QED BY <1>1, <1>2, Proceeds DEF Loading

\* The first query fixes the version that the load is from: the current one.
LEMMA ProvidersQueried ==
  ASSUME StoredInv, NEW h \in Admins, QueryProviders(h)
  PROVE  StoredInv'
<1>1. /\ load'[h].from = Version /\ "from" \in DOMAIN load'[h]
      /\ \A g \in Admins \ {h} : load'[g] = load[g]
      /\ DOMAIN load' = Admins
  <2>1. PICK l : /\ l.from = Version /\ "from" \in DOMAIN l
                 /\ load' = [load EXCEPT ![h] = l]
    BY Zenon DEF QueryProviders, NoLoad
  <2> QED BY <2>1 DEF StoredInv, StateShape
<1>2. /\ pc'[h] \in {"storing", "keys"} /\ DOMAIN pc' = Admins
      /\ \A g \in Admins \ {h} : pc'[g] = pc[g]
  BY DEF StoredInv, StateShape, QueryProviders
<1>3. UNCHANGED <<past, mine, lost, newest>>
  BY DEF QueryProviders
<1>4. Version \in Nat
  BY VersionType DEF StoredInv
<1>5. StateShape'
  BY <1>1, <1>2, <1>3, <1>4 DEF StoredInv, StateShape
<1>6. VersionsAreMade' /\ EveryVersionAccounted'
  BY <1>3 DEF StoredInv, VersionsAreMade, EveryVersionAccounted, Version, Settled
<1>7. LoadsAreRecent'
  BY <1>1, <1>2, <1>3, <1>4 DEF StoredInv, LoadsAreRecent, VersionsAreMade
<1>8. StoresAreRecent' /\ NobodyElseOwns'
  BY <1>1, <1>2, <1>3 DEF StoredInv, StoresAreRecent, NobodyElseOwns
<1> QED BY <1>5, <1>6, <1>7, <1>8 DEF StoredInv

\* The others leave it alone.
LEMMA RestQueried ==
  ASSUME StoredInv, NEW h \in Admins,
         QueryKeys(h) \/ QueryTargetModels(h) \/ QueryAliases(h)
  PROVE  StoredInv'
<1>1. PICK s \in {"offers", "aliases", "storing"} :
        pc' = [pc EXCEPT ![h] = s]
  BY DEF QueryKeys, QueryTargetModels, QueryAliases
<1>2. pc[h] \in Loading /\ UNCHANGED <<past, mine, lost, newest>>
  BY DEF QueryKeys, QueryTargetModels, QueryAliases, Loading
<1>3. ASSUME NEW x, NEW y, \/ load' = [load EXCEPT ![h].keys = x]
                             \/ load' = [load EXCEPT ![h].offers = x]
                             \/ load' = [load EXCEPT ![h].routes = x, ![h].to = y]
      PROVE  /\ DOMAIN load' = Admins
             /\ \A g \in Admins : /\ "from" \in DOMAIN load'[g]
                                  /\ load'[g].from = load[g].from
  BY <1>3 DEF StoredInv, StateShape
<1>4. /\ DOMAIN load' = Admins
      /\ \A g \in Admins : "from" \in DOMAIN load'[g] /\ load'[g].from = load[g].from
  <2>1. CASE QueryKeys(h)
    BY <1>3, <2>1 DEF QueryKeys
  <2>2. CASE QueryTargetModels(h)
    BY <1>3, <2>2 DEF QueryTargetModels
  <2>3. CASE QueryAliases(h)
    BY <1>3, <2>3 DEF QueryAliases
  <2> QED BY <2>1, <2>2, <2>3
<1> QED BY <1>1, <1>2, <1>4, Proceeds DEF Loading

LEMMA LaterType ==
  ASSUME NEW v \in Nat, NEW w \in Nat
  PROVE  Later(v, w) \in Nat /\ v <= Later(v, w) /\ w <= Later(v, w)
  BY DEF Later

LEMMA RegistryStored ==
  ASSUME StoredInv, NEW h \in Admins, StoreRegistry(h)
  PROVE  StoredInv'
<1>1. pc[h] = "storing" /\ pc' = [pc EXCEPT ![h] = "stored"]
      /\ UNCHANGED <<past, load, mine, lost>>
  BY DEF StoreRegistry
<1>2. pc'[h] = "stored" /\ \A g \in Admins \ {h} : pc'[g] = pc[g]
  BY <1>1 DEF StoredInv, StateShape
<1>3. /\ newest' \in [registry : Nat, resolver : Nat]
      /\ newest'.resolver = newest.resolver
      /\ newest.registry <= newest'.registry
      /\ load[h].from <= newest'.registry
  BY LaterType DEF StoreRegistry, StoredInv, StateShape
<1>4. StateShape'
  BY <1>1, <1>3 DEF StoredInv, StateShape
<1>5. VersionsAreMade' /\ LoadsAreRecent' /\ NobodyElseOwns'
  BY <1>1, <1>2 DEF StoredInv, VersionsAreMade, LoadsAreRecent, NobodyElseOwns,
                    Version, Loading
<1>6. StoresAreRecent'
  BY <1>1, <1>2, <1>3 DEF StoredInv, StoresAreRecent, StateShape
<1>7. EveryVersionAccounted'
  BY <1>1, <1>3, VersionType
     DEF StoredInv, EveryVersionAccounted, Settled, StateShape, Version
<1> QED BY <1>4, <1>5, <1>6, <1>7 DEF StoredInv

\* The handler is over, and its versions are stored or lost.
LEMMA HandlerEnds ==
  ASSUME StoredInv, NEW h \in Admins, Finish(h),
         newest' \in [registry : Nat, resolver : Nat],
         newest.registry <= newest'.registry,
         newest.resolver <= newest'.resolver,
         lost \subseteq lost',
         UNCHANGED past,
         \A v \in mine[h] : Settled(v)'
  PROVE  StoredInv'
<1>1. /\ pc'[h] = "done" /\ mine'[h] = {} /\ load'[h] = NoLoad
      /\ \A g \in Admins \ {h} : /\ pc'[g] = pc[g] /\ mine'[g] = mine[g]
                                 /\ load'[g] = load[g]
      /\ DOMAIN pc' = Admins /\ DOMAIN mine' = Admins /\ DOMAIN load' = Admins
  BY DEF Finish, StoredInv, StateShape
<1>2. "from" \in DOMAIN NoLoad /\ NoLoad.from = 0
  BY Zenon DEF NoLoad
<1>3. StateShape'
  BY <1>1, <1>2 DEF StoredInv, StateShape
<1>4. VersionsAreMade'
  BY <1>1 DEF StoredInv, VersionsAreMade, Version
<1>5. LoadsAreRecent' /\ NobodyElseOwns'
  BY <1>1 DEF StoredInv, LoadsAreRecent, NobodyElseOwns, Loading
<1>6. StoresAreRecent'
  BY <1>1 DEF StoredInv, StoresAreRecent, StateShape
<1>7. EveryVersionAccounted'
  <2>1. SUFFICES ASSUME NEW v \in 2 .. Version
                 PROVE  Settled(v)' \/ \E g \in Admins : v \in mine'[g]
    BY DEF EveryVersionAccounted, Version
  <2>2. CASE Settled(v)
    BY <2>2, VersionType DEF Settled, StoredInv, StateShape
  <2>3. CASE v \in mine[h]
    BY <2>3
  <2>4. CASE \E g \in Admins \ {h} : v \in mine[g]
    BY <2>4, <1>1
  <2> QED BY <2>2, <2>3, <2>4 DEF StoredInv, EveryVersionAccounted
<1> QED BY <1>3, <1>4, <1>5, <1>6, <1>7 DEF StoredInv

LEMMA ResolverStored ==
  ASSUME StoredInv, NEW h \in Admins, StoreResolver(h)
  PROVE  StoredInv'
<1>1. pc[h] = "stored" /\ Finish(h) /\ UNCHANGED <<past, lost>>
  BY DEF StoreResolver
<1>2. /\ newest' \in [registry : Nat, resolver : Nat]
      /\ newest'.registry = newest.registry
      /\ newest.resolver <= newest'.resolver
      /\ load[h].from <= newest'.resolver
  BY LaterType DEF StoreResolver, StoredInv, StateShape
<1>3. load[h].from \in Nat /\ load[h].from <= newest.registry
  BY <1>1 DEF StoredInv, StateShape, StoresAreRecent
<1>4. \A v \in mine[h] : v <= load[h].from /\ v \in Nat
  BY <1>1, VersionType DEF StoredInv, LoadsAreRecent, VersionsAreMade, Loading
<1>5. \A v \in mine[h] : Settled(v)'
  BY <1>2, <1>3, <1>4 DEF Settled, StoredInv, StateShape
<1>6. newest.registry <= newest'.registry
  BY <1>2 DEF StoredInv, StateShape
<1> QED BY <1>1, <1>2, <1>5, <1>6, HandlerEnds

LEMMA HandlerAborted ==
  ASSUME StoredInv, NEW h \in Admins, Abort(h)
  PROVE  StoredInv'
<1>1. /\ Finish(h) /\ UNCHANGED <<past, newest>>
      /\ lost' = lost \cup mine[h]
  BY DEF Abort
<1>2. /\ newest' \in [registry : Nat, resolver : Nat]
      /\ newest.registry <= newest'.registry
      /\ newest.resolver <= newest'.resolver
  BY <1>1 DEF StoredInv, StateShape
<1>3. \A v \in mine[h] : Settled(v)'
  BY <1>1 DEF Settled
<1>4. lost \subseteq lost'
  BY <1>1
<1> QED BY <1>1, <1>2, <1>3, <1>4, HandlerEnds

-----------------------------------------------------------------------------

LEMMA NextStoredInv == StoredInv /\ [Next]_vars => StoredInv'
<1>1. SUFFICES ASSUME StoredInv, [Next]_vars PROVE StoredInv'
  OBVIOUS
<1>2. ASSUME NEW h \in Admins, AdminCommand(h) PROVE StoredInv'
  BY <1>1, <1>2, CommandCommits, CommitStores, SyncStarts
<1>3. ASSUME NEW h \in Admins, Reload(h) PROVE StoredInv'
  BY <1>1, <1>3, SyncInserts, SyncReloads, ProvidersQueried, RestQueried,
     RegistryStored, ResolverStored DEF Reload
<1>4. ASSUME NEW h \in Admins, Abort(h) PROVE StoredInv'
  BY <1>1, <1>4, HandlerAborted
<1>5. CASE \/ \E r \in Requests : ResolveModel(r) \/ TryTarget(r)
           \/ UNCHANGED vars
  <2>1. UNCHANGED <<past, pc, load, mine, lost, newest>>
    BY <1>5 DEF ResolveModel, TryTarget, vars, admins
  <2> QED BY <1>1, <2>1 DEF StoredInv, StateShape, VersionsAreMade,
        LoadsAreRecent, StoresAreRecent, NobodyElseOwns, EveryVersionAccounted,
        Settled, Version
<1> QED BY <1>1, <1>2, <1>3, <1>4, <1>5 DEF Next

\* Whatever the interleaving of handlers, their failures and drops, each
\* version of the tables was reached by both pointers, is owned by a handler
\* that still runs, or was lost with the handler that made it.
THEOREM NoVersionIsForgotten == Spec => []EveryVersionWasStored
<1>1. StoredInv => EveryVersionWasStored
  <2>1. SUFFICES ASSUME StoredInv, NEW v \in 2 .. Version
                 PROVE  \/ v <= newest.registry /\ v <= newest.resolver
                        \/ v \in lost
                        \/ \E h \in Admins : v \in mine[h] /\ pc[h] # "done"
    BY DEF EveryVersionWasStored
  <2>2. \A h \in Admins : v \in mine[h] => pc[h] # "done"
    BY <2>1 DEF StoredInv, NobodyElseOwns
  <2> QED BY <2>1, <2>2 DEF StoredInv, EveryVersionAccounted, Settled
<1> QED BY <1>1, InitStoredInv, NextStoredInv, PTL DEF Spec

-----------------------------------------------------------------------------
(***************************************************************************)
(* Undisturbed loads                                                       *)
(*                                                                         *)
(* What a handler has read so far is what the tables held when it began,   *)
(* as long as they have not changed since (or had not, until its last      *)
(* query).  Both pointers, and the targets of a request, inherit that.     *)
(***************************************************************************)

Reading == {"keys", "offers", "aliases"}
Storing == {"storing", "stored"}

KeysOf(t) == {p \in Providers : t.key[p] = "active"}
OffersOf(t) == {o \in Providers \X TargetModels : t.target[o] = "active"}

\* The tables are those that the load began with.
Quiet(h) == load[h].from = IF pc[h] \in Storing THEN load[h].to ELSE Version

Begun(h) ==
  /\ load[h].from \in 1 .. Version
  /\ load[h].active = ActiveProviders(past[load[h].from])

NamesRead(h) ==
  \A p \in load[h].active : load[h].name[p] = past[load[h].from].name[p]

RestRead(h) ==
  load[h].active # {} =>
    /\ pc[h] # "keys" => load[h].keys = KeysOf(past[load[h].from])
    /\ pc[h] \in {"aliases"} \cup Storing =>
         load[h].offers = OffersOf(past[load[h].from])
    /\ pc[h] \in Storing => load[h].routes = Aliases(past[load[h].from])

LoadsFaithful ==
  \A h \in Admins :
    pc[h] \in Reading \cup Storing =>
      Begun(h) /\ (Quiet(h) => NamesRead(h) /\ RestRead(h))

BackendsAt(t) ==
  IF ActiveProviders(t) = {} THEN EnvRegistry(0).backends
  ELSE BackendsOf(Loaded(t, 0))

TargetsAt(t) ==
  IF ActiveProviders(t) = {} THEN EnvResolver(0).targets ELSE Aliases(t)

RegistryFaithful ==
  /\ registry.from \in 1 .. Version
  /\ registry.from = registry.to =>
       registry.backends = BackendsAt(past[registry.from])

ResolverFaithful ==
  /\ resolver.from \in 1 .. Version
  /\ resolver.from = resolver.to =>
       resolver.targets = TargetsAt(past[resolver.from])

RequestsFaithful ==
  \A r \in Requests :
    rpc[r] = "routing" =>
      /\ rResolver[r][1] \in 1 .. Version
      /\ rResolver[r][1] = rResolver[r][2] =>
           rTargets[r] \subseteq TargetsAt(past[rResolver[r][1]])

Fields == {"from", "to", "active", "name", "keys", "offers", "routes"}

MemoryShape ==
  /\ \E A : past \in Seq(A)
  /\ DOMAIN pc = Admins /\ DOMAIN load = Admins
  /\ \A h \in Admins : DOMAIN load[h] = Fields
  /\ DOMAIN rpc = Requests /\ DOMAIN rTargets = Requests
  /\ DOMAIN rResolver = Requests

FaithfulInv ==
  /\ MemoryShape /\ LoadsFaithful /\ RegistryFaithful /\ ResolverFaithful
  /\ RequestsFaithful

\* The tables of an earlier version stay what they were.
LEMMA PastStays ==
  ASSUME MemoryShape, past' = past \/ \E t : past' = Append(past, t)
  PROVE  /\ Version \in Nat /\ Version' \in Nat /\ Version <= Version'
         /\ \A v \in 1 .. Version : past'[v] = past[v]
         /\ (\E A : past \in Seq(A))'
<1>1. PICK S : past \in Seq(S)
  BY DEF MemoryShape
<1>2. ASSUME past' = past
      PROVE  /\ Version \in Nat /\ Version' \in Nat /\ Version <= Version'
             /\ \A v \in 1 .. Version : past'[v] = past[v]
             /\ past' \in Seq(S)
  <2>1. past' \in Seq(S) /\ Version \in Nat /\ Version' = Version
    BY <1>1, <1>2 DEF Version
  <2> QED BY <1>2, <2>1
<1>3. ASSUME NEW t, past' = Append(past, t)
      PROVE  /\ Version \in Nat /\ Version' \in Nat /\ Version <= Version'
             /\ \A v \in 1 .. Version : past'[v] = past[v]
             /\ past' \in Seq(S \cup {t})
  <2>1. past \in Seq(S \cup {t}) /\ t \in S \cup {t}
    BY <1>1
  <2> QED BY <1>3, <2>1 DEF Version
<1>4. Version \in Nat /\ Version' \in Nat /\ Version <= Version'
  BY <1>2, <1>3
<1>5. \A v \in 1 .. Version : past'[v] = past[v]
  BY <1>2, <1>3
<1>6. \E A : past' \in Seq(A)
  BY <1>2, <1>3
<1> QED BY <1>4, <1>5, <1>6

\* A handler that neither reads nor stores leaves what was read alone.
LEMMA LoadsStay ==
  ASSUME MemoryShape, LoadsFaithful, load' = load,
         past' = past \/ \E t : past' = Append(past, t),
         \A h \in Admins : pc'[h] \in Reading \cup Storing => pc'[h] = pc[h]
  PROVE  LoadsFaithful'
<1>1. SUFFICES ASSUME NEW h \in Admins, pc'[h] \in Reading \cup Storing
               PROVE  Begun(h)' /\ (Quiet(h)' => NamesRead(h)' /\ RestRead(h)')
  BY DEF LoadsFaithful
<1>2. pc'[h] = pc[h] /\ Begun(h) /\ (Quiet(h) => NamesRead(h) /\ RestRead(h))
  BY <1>1 DEF LoadsFaithful
<1>3. past'[load[h].from] = past[load[h].from]
  BY <1>2, PastStays DEF Begun
<1>4. Begun(h)'
  BY <1>2, <1>3, PastStays DEF Begun
<1>5. Quiet(h)' => Quiet(h)
  <2>1. CASE pc[h] \in Storing
    BY <1>2, <2>1 DEF Quiet
  <2>2. CASE pc[h] \notin Storing
    BY <1>2, <2>2, PastStays DEF Quiet, Begun
  <2> QED BY <2>1, <2>2
<1>6. NamesRead(h) => NamesRead(h)'
  BY <1>3 DEF NamesRead
<1>7. RestRead(h) => RestRead(h)'
  BY <1>2, <1>3 DEF RestRead
<1> QED BY <1>2, <1>4, <1>5, <1>6, <1>7

LEMMA PointersStay ==
  ASSUME MemoryShape, past' = past \/ \E t : past' = Append(past, t)
  PROVE  /\ RegistryFaithful /\ registry' = registry => RegistryFaithful'
         /\ ResolverFaithful /\ resolver' = resolver => ResolverFaithful'
         /\ RequestsFaithful /\ UNCHANGED requests => RequestsFaithful'
<1>1. RegistryFaithful /\ registry' = registry => RegistryFaithful'
  BY PastStays DEF RegistryFaithful
<1>2. ResolverFaithful /\ resolver' = resolver => ResolverFaithful'
  BY PastStays DEF ResolverFaithful
<1>3. RequestsFaithful /\ UNCHANGED requests => RequestsFaithful'
  BY PastStays DEF RequestsFaithful, requests
<1> QED BY <1>1, <1>2, <1>3

\* The first query begins the load, with the current tables.
LEMMA ProvidersRead ==
  ASSUME FaithfulInv, NEW h \in Admins, QueryProviders(h)
  PROVE  FaithfulInv'
<1> DEFINE l == [NoLoad EXCEPT !.from = Version, !.to = Version,
                               !.active = ActiveProviders(tables),
                               !.name = [p \in ActiveProviders(tables) |->
                                           tables.name[p]]]
<1>1. UNCHANGED <<past, registry, resolver, requests>>
  BY DEF QueryProviders
<1>2. /\ DOMAIN l = Fields /\ l.from = Version /\ l.to = Version
      /\ l.active = ActiveProviders(tables)
      /\ l.name = [p \in ActiveProviders(tables) |-> tables.name[p]]
  BY DEF NoLoad, Fields
<1>3. load' = [load EXCEPT ![h] = l]
  BY Zenon DEF QueryProviders
<1> HIDE DEF l
<1>4. Version \in 1 .. Version /\ tables = past[Version]
  BY PastStays, <1>1 DEF FaithfulInv, MemoryShape, RegistryFaithful, tables,
     Version, Last
<1>5. /\ pc'[h] = IF ActiveProviders(tables) = {} THEN "storing" ELSE "keys"
      /\ \A g \in Admins \ {h} : pc'[g] = pc[g] /\ load'[g] = load[g]
      /\ load'[h] = l
      /\ DOMAIN pc' = Admins /\ DOMAIN load' = Admins
  BY <1>3 DEF QueryProviders, FaithfulInv, MemoryShape
<1>6. MemoryShape'
  BY <1>1, <1>2, <1>5 DEF FaithfulInv, MemoryShape, requests
<1>7. LoadsFaithful'
  <2>1. ASSUME NEW g \in Admins \ {h}, pc'[g] \in Reading \cup Storing
        PROVE  Begun(g)' /\ (Quiet(g)' => NamesRead(g)' /\ RestRead(g)')
    BY <1>1, <1>5, <2>1 DEF FaithfulInv, LoadsFaithful, Begun, Quiet, NamesRead,
       RestRead, Version
  <2>2. Begun(h)'
    BY <1>1, <1>2, <1>4, <1>5 DEF Begun, Version
  <2>3. NamesRead(h)'
    BY <1>1, <1>2, <1>4, <1>5 DEF NamesRead
  <2>4. RestRead(h)'
    BY <1>2, <1>5 DEF RestRead, Storing
  <2> QED BY <2>1, <2>2, <2>3, <2>4 DEF LoadsFaithful
<1> QED BY <1>1, <1>6, <1>7, PointersStay DEF FaithfulInv

\* What the three other queries have in common.
LEMMA QueryRead ==
  ASSUME FaithfulInv, NEW h \in Admins, pc[h] \in Reading,
         UNCHANGED <<past, registry, resolver, requests>>,
         DOMAIN pc' = Admins, DOMAIN load' = Admins,
         \A g \in Admins \ {h} : pc'[g] = pc[g] /\ load'[g] = load[g],
         DOMAIN load'[h] = Fields,
         load'[h].from = load[h].from, load'[h].active = load[h].active,
         load'[h].name = load[h].name,
         Quiet(h)' => Quiet(h),
         Begun(h) /\ (Quiet(h) /\ RestRead(h) => RestRead(h)')
  PROVE  FaithfulInv'
<1>1. MemoryShape'
  BY DEF FaithfulInv, MemoryShape, requests
<1>2. LoadsFaithful'
  <2>1. ASSUME NEW g \in Admins \ {h}, pc'[g] \in Reading \cup Storing
        PROVE  Begun(g)' /\ (Quiet(g)' => NamesRead(g)' /\ RestRead(g)')
    BY <2>1 DEF FaithfulInv, LoadsFaithful, Begun, Quiet, NamesRead, RestRead,
       Version
  <2>2. Begun(h)'
    BY DEF Begun, Version
  <2>3. Quiet(h) => NamesRead(h) /\ RestRead(h)
    BY DEF FaithfulInv, LoadsFaithful
  <2>4. NamesRead(h) => NamesRead(h)'
    BY DEF NamesRead
  <2> QED BY <2>1, <2>2, <2>3, <2>4 DEF LoadsFaithful
<1> QED BY <1>1, <1>2, PointersStay DEF FaithfulInv

LEMMA CurrentTables ==
  ASSUME FaithfulInv, NEW h \in Admins, pc[h] \in Reading
  PROVE  Begun(h) /\ (load[h].from = Version => tables = past[load[h].from])
<1>1. Begun(h)
  BY DEF FaithfulInv, LoadsFaithful
<1>2. tables = past[Version]
  BY PastStays DEF FaithfulInv, MemoryShape, tables, Version, Last
<1> QED BY <1>1, <1>2

LEMMA KeysRead ==
  ASSUME FaithfulInv, NEW h \in Admins, QueryKeys(h)
  PROVE  FaithfulInv'
<1>1. /\ pc[h] = "keys" /\ pc'[h] = "offers" /\ DOMAIN pc' = Admins
      /\ DOMAIN load' = Admins
      /\ load'[h] = [load[h] EXCEPT !.keys = KeysOf(tables)]
      /\ \A g \in Admins \ {h} : pc'[g] = pc[g] /\ load'[g] = load[g]
      /\ UNCHANGED <<past, registry, resolver, requests>>
  BY DEF QueryKeys, FaithfulInv, MemoryShape, KeysOf
<1>2. /\ DOMAIN load'[h] = Fields
      /\ load'[h].from = load[h].from /\ load'[h].active = load[h].active
      /\ load'[h].name = load[h].name /\ load'[h].keys = KeysOf(tables)
  BY <1>1 DEF FaithfulInv, MemoryShape, Fields
<1>3. Quiet(h)' => Quiet(h) /\ load[h].from = Version
  BY <1>1, <1>2 DEF Quiet, Storing, Version
<1>4. Begun(h) /\ (load[h].from = Version => tables = past[load[h].from])
  BY <1>1, CurrentTables DEF Reading
<1>5. Quiet(h) /\ RestRead(h) => RestRead(h)'
  BY <1>1, <1>2, <1>4 DEF Quiet, RestRead, Storing
<1> QED BY <1>1, <1>2, <1>3, <1>4, <1>5, QueryRead DEF Reading

LEMMA TargetModelsRead ==
  ASSUME FaithfulInv, NEW h \in Admins, QueryTargetModels(h)
  PROVE  FaithfulInv'
<1>1. /\ pc[h] = "offers" /\ pc'[h] = "aliases" /\ DOMAIN pc' = Admins
      /\ DOMAIN load' = Admins
      /\ load'[h] = [load[h] EXCEPT !.offers = OffersOf(tables)]
      /\ \A g \in Admins \ {h} : pc'[g] = pc[g] /\ load'[g] = load[g]
      /\ UNCHANGED <<past, registry, resolver, requests>>
  BY DEF QueryTargetModels, FaithfulInv, MemoryShape, OffersOf
<1>2. /\ DOMAIN load'[h] = Fields
      /\ load'[h].from = load[h].from /\ load'[h].active = load[h].active
      /\ load'[h].name = load[h].name /\ load'[h].offers = OffersOf(tables)
      /\ load'[h].keys = load[h].keys
  BY <1>1 DEF FaithfulInv, MemoryShape, Fields
<1>3. Quiet(h)' => Quiet(h) /\ load[h].from = Version
  BY <1>1, <1>2 DEF Quiet, Storing, Version
<1>4. Begun(h) /\ (load[h].from = Version => tables = past[load[h].from])
  BY <1>1, CurrentTables DEF Reading
<1>5. Quiet(h) /\ RestRead(h) => RestRead(h)'
  BY <1>1, <1>2, <1>4 DEF Quiet, RestRead, Storing
<1> QED BY <1>1, <1>2, <1>3, <1>4, <1>5, QueryRead DEF Reading

\* The last query fixes the version up to which the load has read.
LEMMA AliasesRead ==
  ASSUME FaithfulInv, NEW h \in Admins, QueryAliases(h)
  PROVE  FaithfulInv'
<1>1. /\ pc[h] = "aliases" /\ pc'[h] = "storing" /\ DOMAIN pc' = Admins
      /\ DOMAIN load' = Admins
      /\ load'[h] = [load[h] EXCEPT !.routes = Aliases(tables), !.to = Version]
      /\ \A g \in Admins \ {h} : pc'[g] = pc[g] /\ load'[g] = load[g]
      /\ UNCHANGED <<past, registry, resolver, requests>>
  BY DEF QueryAliases, FaithfulInv, MemoryShape
<1>2. /\ DOMAIN load'[h] = Fields
      /\ load'[h].from = load[h].from /\ load'[h].active = load[h].active
      /\ load'[h].name = load[h].name /\ load'[h].offers = load[h].offers
      /\ load'[h].keys = load[h].keys /\ load'[h].routes = Aliases(tables)
      /\ load'[h].to = Version
  BY <1>1 DEF FaithfulInv, MemoryShape, Fields
<1>3. Quiet(h)' => Quiet(h) /\ load[h].from = Version
  BY <1>1, <1>2 DEF Quiet, Storing, Version
<1>4. Begun(h) /\ (load[h].from = Version => tables = past[load[h].from])
  BY <1>1, CurrentTables DEF Reading
<1>5. Quiet(h) /\ RestRead(h) => RestRead(h)'
  BY <1>1, <1>2, <1>4 DEF Quiet, RestRead, Storing
<1> QED BY <1>1, <1>2, <1>3, <1>4, <1>5, QueryRead DEF Reading

-----------------------------------------------------------------------------
(***************************************************************************)
(* Stores, requests, and the other steps                                   *)
(***************************************************************************)

LEMMA RegistryFromLoad ==
  ASSUME FaithfulInv, NEW h \in Admins, StoreRegistry(h)
  PROVE  FaithfulInv'
<1>1. /\ pc[h] = "storing" /\ pc' = [pc EXCEPT ![h] = "stored"]
      /\ registry' = IF load[h].active = {} THEN EnvRegistry(load[h].from)
                     ELSE Registry(load[h])
      /\ UNCHANGED <<past, resolver, load, requests>>
  BY DEF StoreRegistry
<1>2. /\ pc'[h] = "stored" /\ DOMAIN pc' = Admins
      /\ \A g \in Admins \ {h} : pc'[g] = pc[g]
  BY <1>1 DEF FaithfulInv, MemoryShape
<1>3. MemoryShape'
  BY <1>1, <1>2 DEF FaithfulInv, MemoryShape, requests
<1>4. Begun(h) /\ (load[h].from = load[h].to => NamesRead(h) /\ RestRead(h))
  BY <1>1 DEF FaithfulInv, LoadsFaithful, Quiet, Storing
<1>5. LoadsFaithful'
  <2>1. ASSUME NEW g \in Admins, pc'[g] \in Reading \cup Storing
        PROVE  Begun(g)' /\ (Quiet(g)' => NamesRead(g)' /\ RestRead(g)')
    <3>1. Begun(g) /\ (Quiet(g) => NamesRead(g) /\ RestRead(g))
      BY <1>1, <1>2, <2>1 DEF FaithfulInv, LoadsFaithful, Storing
    <3>2. Begun(g)' /\ (Quiet(g)' => Quiet(g)) /\ (NamesRead(g) => NamesRead(g)')
      BY <1>1, <1>2, <3>1 DEF Begun, Quiet, NamesRead, Version, Storing
    <3>3. RestRead(g) => RestRead(g)'
      BY <1>1, <1>2 DEF RestRead, Storing
    <3> QED BY <3>1, <3>2, <3>3
  <2> QED BY <2>1 DEF LoadsFaithful
<1>6. RegistryFaithful'
  <2>1. CASE load[h].active = {}
    <3>1. registry'.from = load[h].from /\ registry'.backends = EnvRegistry(0).backends
      BY <1>1, <2>1 DEF EnvRegistry
    <3> QED BY <1>1, <1>4, <2>1, <3>1 DEF RegistryFaithful, BackendsAt, Begun, Version
  <2>2. CASE load[h].active # {}
    <3>1. /\ registry'.from = load[h].from /\ registry'.to = load[h].to
          /\ registry'.backends = BackendsOf(load[h])
      BY <1>1, <2>2 DEF Registry
    <3>2. ASSUME load[h].from = load[h].to
          PROVE  BackendsOf(load[h]) = BackendsAt(past[load[h].from])
      <4> DEFINE t == past[load[h].from]
      <4>1. /\ load[h].active = ActiveProviders(t)
            /\ \A p \in load[h].active : load[h].name[p] = t.name[p]
            /\ load[h].keys = KeysOf(t) /\ load[h].offers = OffersOf(t)
        BY <1>1, <1>4, <2>2, <3>2 DEF Begun, NamesRead, RestRead, Storing
      <4>2. BackendsAt(t) = BackendsOf(Loaded(t, 0))
        BY <2>2, <4>1 DEF BackendsAt
      <4>3. /\ Loaded(t, 0).active = load[h].active /\ Loaded(t, 0).name = t.name
            /\ Loaded(t, 0).keys = load[h].keys
            /\ Loaded(t, 0).offers = load[h].offers
        BY <4>1 DEF Loaded, KeysOf, OffersOf
      <4> HIDE DEF t
      <4>4. BackendsOf(load[h]) = BackendsOf(Loaded(t, 0))
        BY <4>1, <4>3 DEF BackendsOf
      <4> QED BY <4>2, <4>4 DEF t
    <3> QED BY <1>1, <1>4, <3>1, <3>2 DEF RegistryFaithful, Begun, Version
  <2> QED BY <2>1, <2>2
<1> QED BY <1>1, <1>3, <1>5, <1>6, PointersStay DEF FaithfulInv

\* A handler that ends leaves no load behind.
LEMMA Ended ==
  ASSUME FaithfulInv, NEW h \in Admins, Finish(h), past' = past,
         UNCHANGED requests
  PROVE  MemoryShape' /\ LoadsFaithful'
<1>1. /\ pc'[h] = "done" /\ load'[h] = NoLoad
      /\ DOMAIN pc' = Admins /\ DOMAIN load' = Admins
      /\ \A g \in Admins \ {h} : pc'[g] = pc[g] /\ load'[g] = load[g]
  BY DEF Finish, FaithfulInv, MemoryShape
<1>2. DOMAIN NoLoad = Fields
  BY DEF NoLoad, Fields
<1>3. MemoryShape'
  BY <1>1, <1>2 DEF FaithfulInv, MemoryShape, requests
<1>4. LoadsFaithful'
  BY <1>1 DEF FaithfulInv, LoadsFaithful, Begun, Quiet, NamesRead, RestRead,
     Version, Reading, Storing
<1> QED BY <1>3, <1>4

LEMMA ResolverFromLoad ==
  ASSUME FaithfulInv, NEW h \in Admins, StoreResolver(h)
  PROVE  FaithfulInv'
<1>1. /\ pc[h] = "stored" /\ Finish(h)
      /\ resolver' = IF load[h].active = {} THEN EnvResolver(load[h].from)
                     ELSE Resolver(load[h])
      /\ UNCHANGED <<past, registry, requests>>
  BY DEF StoreResolver
<1>2. Begun(h) /\ (load[h].from = load[h].to => RestRead(h))
  BY <1>1 DEF FaithfulInv, LoadsFaithful, Quiet, Storing
<1>3. ResolverFaithful'
  <2>1. CASE load[h].active = {}
    <3>1. resolver'.from = load[h].from /\ resolver'.targets = EnvResolver(0).targets
      BY <1>1, <2>1 DEF EnvResolver
    <3> QED BY <1>1, <1>2, <2>1, <3>1 DEF ResolverFaithful, TargetsAt, Begun, Version
  <2>2. CASE load[h].active # {}
    <3>1. /\ resolver'.from = load[h].from /\ resolver'.to = load[h].to
          /\ resolver'.targets = load[h].routes
      BY <1>1, <2>2 DEF Resolver
    <3>2. load[h].from = load[h].to => load[h].routes = TargetsAt(past[load[h].from])
      BY <1>1, <1>2, <2>2 DEF RestRead, TargetsAt, Begun, Storing
    <3> QED BY <1>1, <1>2, <3>1, <3>2 DEF ResolverFaithful, Begun, Version
  <2> QED BY <2>1, <2>2
<1> QED BY <1>1, <1>3, Ended, PointersStay DEF FaithfulInv

LEMMA AbortedFaithful ==
  ASSUME FaithfulInv, NEW h \in Admins, Abort(h)
  PROVE  FaithfulInv'
<1>1. Finish(h) /\ UNCHANGED <<past, registry, resolver, requests>>
  BY DEF Abort
<1> QED BY <1>1, Ended, PointersStay DEF FaithfulInv

\* Statements, and the steps of a sync.
LEMMA HandlerOnItsWay ==
  ASSUME FaithfulInv, NEW h \in Admins,
         past' = past \/ \E t : past' = Append(past, t),
         pc' = pc \/ \E s \in {"providers", "syncing"} : pc' = [pc EXCEPT ![h] = s],
         UNCHANGED <<registry, resolver, load, requests>>
  PROVE  FaithfulInv'
<1>1. /\ DOMAIN pc' = Admins
      /\ \A g \in Admins : pc'[g] \in Reading \cup Storing => pc'[g] = pc[g]
  BY DEF FaithfulInv, MemoryShape, Reading, Storing
<1>2. LoadsFaithful'
  BY <1>1, LoadsStay DEF FaithfulInv
<1>3. MemoryShape'
  BY <1>1, PastStays DEF FaithfulInv, MemoryShape, requests
<1> QED BY <1>2, <1>3, PointersStay DEF FaithfulInv

LEMMA CommandFaithful ==
  ASSUME FaithfulInv, NEW h \in Admins, AdminCommand(h)
  PROVE  FaithfulInv'
<1>1. CASE SyncStart(h)
  BY <1>1, HandlerOnItsWay DEF SyncStart
<1>2. CASE ~SyncStart(h)
  <2>1. PICK t : Commit(h, t)
    BY <1>2, CommandCommits
  <2> QED BY <2>1, HandlerOnItsWay DEF Commit, AfterCommit
<1> QED BY <1>1, <1>2

LEMMA SyncFaithful ==
  ASSUME FaithfulInv, NEW h \in Admins, SyncInsert(h) \/ SyncReload(h)
  PROVE  FaithfulInv'
<1>1. CASE SyncInsert(h)
  <2>1. /\ pc' = pc /\ UNCHANGED <<registry, resolver, load, requests>>
        /\ past' = past \/ \E t : past' = Append(past, t)
    BY <1>1, Zenon DEF SyncInsert
  <2> QED BY <2>1, HandlerOnItsWay
<1>2. CASE SyncReload(h)
  BY <1>2, HandlerOnItsWay DEF SyncReload
<1> QED BY <1>1, <1>2

LEMMA RequestFaithful ==
  ASSUME FaithfulInv, NEW r \in Requests, ResolveModel(r) \/ TryTarget(r)
  PROVE  FaithfulInv'
<1>1. UNCHANGED <<past, registry, resolver, pc, load>>
  BY DEF ResolveModel, TryTarget, admins
<1>2. /\ DOMAIN rpc' = Requests /\ DOMAIN rTargets' = Requests
      /\ DOMAIN rResolver' = Requests
      /\ \A q \in Requests \ {r} : /\ rpc'[q] = rpc[q] /\ rTargets'[q] = rTargets[q]
                                   /\ rResolver'[q] = rResolver[q]
  BY DEF FaithfulInv, MemoryShape, ResolveModel, TryTarget
<1>3. MemoryShape'
  BY <1>1, <1>2 DEF FaithfulInv, MemoryShape
<1>4. LoadsFaithful'
  BY <1>1, LoadsStay DEF FaithfulInv
<1>5. rpc'[r] = "routing" =>
        /\ rResolver'[r][1] \in 1 .. Version
        /\ rResolver'[r][1] = rResolver'[r][2] =>
             rTargets'[r] \subseteq TargetsAt(past[rResolver'[r][1]])
  <2>1. CASE ResolveModel(r)
    <3>1. /\ rResolver'[r] = <<resolver.from, resolver.to>>
          /\ rTargets'[r] \subseteq resolver.targets
      BY <2>1 DEF ResolveModel, FaithfulInv, MemoryShape
    <3> QED BY <3>1 DEF FaithfulInv, ResolverFaithful
  <2>2. CASE TryTarget(r)
    <3>1. /\ rpc[r] = "routing" /\ rTargets'[r] \subseteq rTargets[r]
          /\ rpc'[r] = "routing" => rResolver'[r] = rResolver[r]
      BY <2>2 DEF TryTarget, FaithfulInv, MemoryShape
    <3> QED BY <3>1 DEF FaithfulInv, RequestsFaithful
  <2> QED BY <2>1, <2>2
<1>6. RequestsFaithful'
  BY <1>1, <1>2, <1>5 DEF FaithfulInv, RequestsFaithful, Version
<1> QED BY <1>1, <1>3, <1>4, <1>6, PointersStay DEF FaithfulInv

LEMMA NextFaithfulInv == FaithfulInv /\ [Next]_vars => FaithfulInv'
<1>1. SUFFICES ASSUME FaithfulInv, [Next]_vars PROVE FaithfulInv'
  OBVIOUS
<1>2. ASSUME NEW h \in Admins, AdminCommand(h) \/ Abort(h) PROVE FaithfulInv'
  BY <1>1, <1>2, CommandFaithful, AbortedFaithful
<1>3. ASSUME NEW h \in Admins, Reload(h) PROVE FaithfulInv'
  BY <1>1, <1>3, SyncFaithful, ProvidersRead, KeysRead, TargetModelsRead,
     AliasesRead, RegistryFromLoad, ResolverFromLoad DEF Reload
<1>4. ASSUME NEW r \in Requests, ResolveModel(r) \/ TryTarget(r)
      PROVE  FaithfulInv'
  BY <1>1, <1>4, RequestFaithful
<1>5. CASE UNCHANGED vars
  <2>1. UNCHANGED <<past, registry, resolver, pc, load, requests>>
    BY <1>5 DEF vars, admins
  <2>2. MemoryShape' /\ LoadsFaithful'
    BY <1>1, <2>1, LoadsStay DEF FaithfulInv, MemoryShape, requests
  <2> QED BY <1>1, <2>1, <2>2, PointersStay DEF FaithfulInv
<1> QED BY <1>1, <1>2, <1>3, <1>4, <1>5 DEF Next

LEMMA InitFaithfulInv == Init => FaithfulInv
<1>1. SUFFICES ASSUME Init PROVE FaithfulInv
  OBVIOUS
<1>2. /\ past \in Seq({InitialTables}) /\ Version = 1 /\ past[1] = InitialTables
  BY <1>1 DEF Init, Version
<1>3. DOMAIN NoLoad = Fields
  BY DEF NoLoad, Fields
<1>4. MemoryShape
  BY <1>1, <1>2, <1>3 DEF Init, MemoryShape
<1>5. LoadsFaithful /\ RequestsFaithful
  BY <1>1 DEF Init, LoadsFaithful, RequestsFaithful, Reading, Storing
<1>6. BackendsOf(Loaded(InitialTables, 1)) = BackendsOf(Loaded(InitialTables, 0))
  <2>1. /\ Loaded(InitialTables, 1).active = Loaded(InitialTables, 0).active
        /\ Loaded(InitialTables, 1).name = Loaded(InitialTables, 0).name
        /\ Loaded(InitialTables, 1).keys = Loaded(InitialTables, 0).keys
        /\ Loaded(InitialTables, 1).offers = Loaded(InitialTables, 0).offers
    BY DEF Loaded
  <2> QED BY <2>1 DEF BackendsOf
<1>7. RegistryFaithful
  BY <1>1, <1>2, <1>6
     DEF Init, RegistryFaithful, BackendsAt, Registry, EnvRegistry, Loaded
<1>8. ResolverFaithful
  BY <1>1, <1>2
     DEF Init, ResolverFaithful, TargetsAt, Resolver, EnvResolver, Loaded
<1> QED BY <1>4, <1>5, <1>7, <1>8 DEF FaithfulInv

-----------------------------------------------------------------------------
(***************************************************************************)
(* What the two pointers say together                                      *)
(***************************************************************************)

\* The fields of the load that reads tables t, as BackendsOf uses them.
LEMMA LoadedParts ==
  ASSUME NEW t
  PROVE  /\ Loaded(t, 0).active = ActiveProviders(t)
         /\ Loaded(t, 0).name = t.name
         /\ Loaded(t, 0).keys = KeysOf(t)
         /\ Loaded(t, 0).offers = OffersOf(t)
BY DEF Loaded, KeysOf, OffersOf

\* An active provider with a key is a backend for what it offers.
LEMMA ProviderHasBackend ==
  ASSUME NEW t, NEW q \in ActiveProviders(t), NEW x \in TargetModels,
         t.key[q] = "active", t.target[<<q, x>>] = "active"
  PROVE  \E b \in BackendsOf(Loaded(t, 0)) : b.name = t.name[q] /\ x \in b.models
<1> DEFINE l == Loaded(t, 0)
           ms == {y \in TargetModels : <<q, y>> \in l.offers}
           b == [id |-> q, name |-> l.name[q], models |-> ms]
<1>1. q \in KeysOf(t) /\ <<q, x>> \in OffersOf(t)
  BY DEF ActiveProviders, KeysOf, OffersOf
<1>2. /\ q \in l.active /\ q \in l.keys /\ <<q, x>> \in l.offers
      /\ l.name = t.name
  BY <1>1, LoadedParts
<1> HIDE DEF l
<1>3. b \in BackendsOf(l)
  BY <1>2 DEF BackendsOf
<1>4. b.name = t.name[q] /\ x \in b.models
  BY <1>2
<1> QED BY <1>3, <1>4 DEF l

\* A backend for a model is a provider with a key that offers it.
LEMMA BackendHasProvider ==
  ASSUME NEW t, NEW b \in BackendsOf(Loaded(t, 0)), NEW x \in b.models
  PROVE  \E q \in ActiveProviders(t) :
           /\ t.key[q] = "active" /\ t.name[q] = b.name
           /\ t.target[<<q, x>>] = "active"
<1> DEFINE l == Loaded(t, 0)
<1>1. /\ l.active = ActiveProviders(t) /\ l.name = t.name
      /\ l.keys = KeysOf(t) /\ l.offers = OffersOf(t)
  BY LoadedParts
<1>2. b \in BackendsOf(l)
  OBVIOUS
<1> HIDE DEF l
<1>3. PICK p \in l.active :
        /\ p \in l.keys
        /\ b = [id |-> p, name |-> l.name[p],
                models |-> {y \in TargetModels : <<p, y>> \in l.offers}]
  BY <1>2 DEF BackendsOf
<1>4. b.name = l.name[p] /\ <<p, x>> \in l.offers
  BY <1>3
<1>5. p \in ActiveProviders(t) /\ p \in KeysOf(t) /\ <<p, x>> \in OffersOf(t)
  BY <1>1, <1>3, <1>4
<1>6. t.key[p] = "active" /\ t.target[<<p, x>>] = "active"
  BY <1>5 DEF KeysOf, OffersOf
<1> QED BY <1>1, <1>4, <1>5, <1>6

\* A target of the aliases that has a backend is what the tables route to.
LEMMA RoutedAsTables ==
  ASSUME NEW t, NEW m \in Models, NEW n \in Names, NEW x \in TargetModels,
         NEW target, target = [public |-> m, name |-> n, model |-> x],
         NEW R, R = BackendsOf(Loaded(t, 0))
  PROVE  (target \in Aliases(t) /\ \E b \in R : b.name = target.name /\ target.model \in b.models)
           <=> Routable(t, m, n, x)
<1>1. target.name = n /\ target.model = x
  OBVIOUS
<1>2. (\E b \in R : b.name = target.name /\ target.model \in b.models)
        <=> \E q \in ActiveProviders(t) :
              /\ t.key[q] = "active" /\ t.name[q] = n
              /\ t.target[<<q, x>>] = "active"
  <2>1. ASSUME NEW b \in R, b.name = target.name, target.model \in b.models
        PROVE  \E q \in ActiveProviders(t) :
                 /\ t.key[q] = "active" /\ t.name[q] = n
                 /\ t.target[<<q, x>>] = "active"
    <3>1. b \in BackendsOf(Loaded(t, 0)) /\ x \in b.models /\ b.name = n
      BY <1>1, <2>1
    <3> HIDE <2>1
    <3> QED BY <3>1, BackendHasProvider
  <2>2. ASSUME NEW q \in ActiveProviders(t), t.key[q] = "active",
               t.name[q] = n, t.target[<<q, x>>] = "active"
        PROVE  \E b \in R : b.name = target.name /\ target.model \in b.models
    <3>1. \E b \in BackendsOf(Loaded(t, 0)) : b.name = t.name[q] /\ x \in b.models
      BY <2>2, ProviderHasBackend
    <3> QED BY <1>1, <2>2, <3>1
  <2> QED BY <2>1, <2>2
<1>3. target \in Aliases(t) <=>
        \E p \in Providers :
          /\ t.route[<<m, p, x>>] = "active" /\ t.model[m] = "active"
          /\ t.target[<<p, x>>] = "active" /\ t.provider[p] = "active"
          /\ t.name[p] = n
  <2>1. ASSUME target \in Aliases(t)
        PROVE  \E p \in Providers :
                 /\ t.route[<<m, p, x>>] = "active" /\ t.model[m] = "active"
                 /\ t.target[<<p, x>>] = "active" /\ t.provider[p] = "active"
                 /\ t.name[p] = n
    <3>1. PICK s \in Models \X Providers \X TargetModels :
            /\ target = [public |-> s[1], name |-> t.name[s[2]], model |-> s[3]]
            /\ t.route[s] = "active" /\ t.model[s[1]] = "active"
            /\ t.target[<<s[2], s[3]>>] = "active"
            /\ t.provider[s[2]] = "active"
      BY <2>1 DEF Aliases
    <3>2. s[1] = m /\ t.name[s[2]] = n /\ s[3] = x /\ s[2] \in Providers
      BY <3>1
    <3>3. s = <<m, s[2], x>>
      BY <3>1, <3>2
    <3> QED BY <3>1, <3>2, <3>3
  <2>2. ASSUME NEW p \in Providers,
               t.route[<<m, p, x>>] = "active", t.model[m] = "active",
               t.target[<<p, x>>] = "active", t.provider[p] = "active",
               t.name[p] = n
        PROVE  target \in Aliases(t)
    <3> DEFINE s == <<m, p, x>>
    <3>1. s \in Models \X Providers \X TargetModels
      OBVIOUS
    <3>2. s[1] = m /\ s[2] = p /\ s[3] = x
      OBVIOUS
    <3>3. t.route[s] = "active"
      BY <2>2
    <3> HIDE DEF s
    <3> QED BY <2>2, <3>1, <3>2, <3>3 DEF Aliases
  <2> QED BY <2>1, <2>2
<1>4. Routable(t, m, n, x) <=>
        \E p, q \in Providers :
          /\ t.provider[p] = "active" /\ t.provider[q] = "active"
          /\ t.key[q] = "active" /\ t.model[m] = "active"
          /\ t.target[<<p, x>>] = "active" /\ t.target[<<q, x>>] = "active"
          /\ t.route[<<m, p, x>>] = "active"
          /\ t.name[p] = n /\ t.name[q] = n
  BY DEF Routable
<1> QED BY <1>2, <1>3, <1>4 DEF ActiveProviders

\* Both pointers hold an undisturbed load of the same tables: a model is routed
\* to exactly what these tables say.
THEOREM QuietLoadsRoute == Spec => []QuietLoadRoutesAsTables
<1>1. FaithfulInv => QuietLoadRoutesAsTables
  <2> DEFINE t == past[registry.from]
  <2>1. SUFFICES ASSUME FaithfulInv, registry.from = registry.to,
                        <<resolver.from, resolver.to>> = <<registry.from, registry.to>>,
                        ActiveProviders(t) # {},
                        NEW m \in Models, NEW n \in Names, NEW x \in TargetModels,
                        NEW target, target = [public |-> m, name |-> n, model |-> x]
                 PROVE  (target \in resolver.targets /\ FindBackends(target) # {})
                          <=> Routable(t, m, n, x)
    BY DEF QuietLoadRoutesAsTables
  <2>2. registry.backends = BackendsOf(Loaded(t, 0))
    BY <2>1 DEF FaithfulInv, RegistryFaithful, BackendsAt
  <2>3. resolver.targets = Aliases(t)
    BY <2>1 DEF FaithfulInv, ResolverFaithful, TargetsAt
  <2> HIDE DEF t
  <2>4. FindBackends(target) # {} <=>
          \E b \in registry.backends : b.name = target.name /\ target.model \in b.models
    BY DEF FindBackends
  <2>5. (target \in Aliases(t)
           /\ \E b \in registry.backends : b.name = target.name /\ target.model \in b.models)
          <=> Routable(t, m, n, x)
    BY <2>1, <2>2, RoutedAsTables
  <2> QED BY <2>3, <2>4, <2>5
<1> QED BY <1>1, InitFaithfulInv, NextFaithfulInv, PTL DEF Spec

\* A request finds no backend for a target of its resolver only if its two
\* values are of different loads, or of one that was disturbed, or if no
\* provider of that name that offers the model has a key.
THEOREM BackendsAreMissedForCause == Spec => MissingBackendOnlyForCause
<1>1. ASSUME FaithfulInv, NEW r \in Requests, rpc[r] = "routing",
             NEW t \in rTargets[r], FindBackends(t) = {},
             rResolver[r] = <<registry.from, registry.to>>,
             registry.from = registry.to
      PROVE  LET then == past[registry.from]
                 offering == {p \in ActiveProviders(then) :
                                /\ then.name[p] = t.name
                                /\ then.target[<<p, t.model>>] = "active"}
             IN  offering # {} /\ \A p \in offering : then.key[p] # "active"
  <2> DEFINE then == past[registry.from]
  <2>1. t \in TargetsAt(then)
    BY <1>1 DEF FaithfulInv, RequestsFaithful
  <2>2. registry.backends = BackendsAt(then)
    BY <1>1 DEF FaithfulInv, RegistryFaithful
  <2>3. ~ \E b \in registry.backends : b.name = t.name /\ t.model \in b.models
    BY <1>1 DEF FindBackends
  <2> HIDE DEF then
  <2>4. ActiveProviders(then) # {}
    <3>1. SUFFICES ASSUME ActiveProviders(then) = {} PROVE FALSE
      OBVIOUS
    <3>2. PICK x \in EnvModels : t = [public |-> x, name |-> EnvName, model |-> x]
      BY <2>1, <3>1 DEF TargetsAt, EnvResolver
    <3>3. registry.backends = {[id |-> EnvBackend, name |-> EnvName, models |-> EnvModels]}
      BY <2>2, <3>1, <3>2 DEF BackendsAt, EnvRegistry
    <3> QED BY <2>3, <3>2, <3>3
  <2>5. registry.backends = BackendsOf(Loaded(then, 0)) /\ t \in Aliases(then)
    BY <2>1, <2>2, <2>4 DEF BackendsAt, TargetsAt
  <2>6. PICK p \in Providers, x \in TargetModels :
          /\ t.name = then.name[p] /\ t.model = x
          /\ then.target[<<p, x>>] = "active" /\ then.provider[p] = "active"
    <3>1. PICK s \in Models \X Providers \X TargetModels :
            /\ t = [public |-> s[1], name |-> then.name[s[2]], model |-> s[3]]
            /\ then.target[<<s[2], s[3]>>] = "active"
            /\ then.provider[s[2]] = "active"
      BY <2>5 DEF Aliases
    <3>2. s[2] \in Providers /\ s[3] \in TargetModels
          /\ t.name = then.name[s[2]] /\ t.model = s[3]
      BY <3>1
    <3> QED BY <3>1, <3>2
  <2>7. p \in ActiveProviders(then)
    BY <2>6 DEF ActiveProviders
  <2>8. ASSUME NEW q \in ActiveProviders(then), then.name[q] = t.name,
               then.target[<<q, t.model>>] = "active", then.key[q] = "active"
        PROVE  FALSE
    <3>1. \E b \in BackendsOf(Loaded(then, 0)) : b.name = then.name[q] /\ t.model \in b.models
      BY <2>6, <2>8, ProviderHasBackend
    <3> QED BY <2>3, <2>5, <2>8, <3>1
  <2>9. /\ {q \in ActiveProviders(then) :
              /\ then.name[q] = t.name
              /\ then.target[<<q, t.model>>] = "active"} # {}
        /\ \A q \in {q \in ActiveProviders(then) :
                       /\ then.name[q] = t.name
                       /\ then.target[<<q, t.model>>] = "active"} :
             then.key[q] # "active"
    BY <2>6, <2>7, <2>8
  <2> QED BY <2>9 DEF then
<1>2. FaithfulInv /\ [Next]_vars =>
        [\A r \in Requests :
           rpc[r] = "routing" /\ TryTarget(r) =>
             \A t \in rTargets[r] :
               FindBackends(t) = {} =>
                 \/ rResolver[r] # <<registry.from, registry.to>>
                 \/ registry.from # registry.to
                 \/ LET then == past[registry.from]
                        offering == {p \in ActiveProviders(then) :
                                       /\ then.name[p] = t.name
                                       /\ then.target[<<p, t.model>>] = "active"}
                    IN  offering # {} /\ \A p \in offering : then.key[p] # "active"
        ]_vars
  BY <1>1
<1> QED BY <1>2, InitFaithfulInv, NextFaithfulInv, PTL
        DEF Spec, MissingBackendOnlyForCause

-----------------------------------------------------------------------------
(***************************************************************************)
(* Types and foreign keys                                                  *)
(***************************************************************************)

Good(t) == t \in Tables /\ ForeignKeys(t)

Routes == Models \X Providers \X TargetModels

LEMMA TablesFields ==
  ASSUME NEW t \in Tables
  PROVE  /\ t.provider \in [Providers -> Row] /\ t.name \in [Providers -> Names]
         /\ t.key \in [Providers -> Row]
         /\ t.target \in [Providers \X TargetModels -> Row]
         /\ t.model \in [Models -> Row] /\ t.route \in [Routes -> Row]
         /\ t = [provider |-> t.provider, name |-> t.name, key |-> t.key,
                 target |-> t.target, model |-> t.model, route |-> t.route]
  BY Zenon DEF Tables, Routes

LEMMA StatusIsRow ==
  ASSUME NEW on
  PROVE  Status(on) \in Row /\ Status(on) # "absent"
  BY DEF Status, Row

\* A provider is inserted or set.
LEMMA ProviderSet ==
  ASSUME NEW t, Good(t), NEW p \in Providers, NEW n \in Names, NEW on
  PROVE  /\ Good([t EXCEPT !.provider[p] = Status(on), !.name[p] = n])
         /\ Good([t EXCEPT !.provider[p] = Status(on)])
<1> DEFINE f == [t.provider EXCEPT ![p] = Status(on)]
           g == [t.name EXCEPT ![p] = n]
           u == [t EXCEPT !.provider[p] = Status(on), !.name[p] = n]
           v == [t EXCEPT !.provider[p] = Status(on)]
<1>0. t \in Tables
  BY DEF Good
<1>1. /\ f \in [Providers -> Row] /\ g \in [Providers -> Names]
      /\ \A q \in Providers : f[q] = "absent" => t.provider[q] = "absent"
  BY <1>0, TablesFields, StatusIsRow
<1>2. /\ u.provider = f /\ u.name = g /\ u.key = t.key /\ u.target = t.target
      /\ u.model = t.model /\ u.route = t.route
  BY <1>0, Zenon DEF Tables
<1>3. /\ v.provider = f /\ v.name = t.name /\ v.key = t.key /\ v.target = t.target
      /\ v.model = t.model /\ v.route = t.route
  BY <1>0, Zenon DEF Tables
<1>4. u \in Tables
  BY <1>0, <1>1, Zenon DEF Tables
<1>5. v \in Tables
  BY <1>0, <1>1, Zenon DEF Tables
<1> HIDE DEF u, v, f, g
<1>6. ForeignKeys(u) /\ ForeignKeys(v)
  BY <1>1, <1>2, <1>3, SMT DEF Good, ForeignKeys
<1> QED
  BY <1>4, <1>5, <1>6, Zenon DEF Good, u, v

\* A provider goes, with its keys, target models and routes.
LEMMA ProviderDeleted ==
  ASSUME NEW t, Good(t), NEW p \in Providers
  PROVE  Good([t EXCEPT
            !.provider[p] = "absent", !.key[p] = "absent",
            !.target = [o \in DOMAIN @ |-> IF o[1] = p THEN "absent" ELSE @[o]],
            !.route = [s \in DOMAIN @ |-> IF s[2] = p THEN "absent" ELSE @[s]]])
<1> DEFINE f == [t.provider EXCEPT ![p] = "absent"]
           k == [t.key EXCEPT ![p] = "absent"]
           d == [o \in DOMAIN t.target |-> IF o[1] = p THEN "absent" ELSE t.target[o]]
           r == [s \in DOMAIN t.route |-> IF s[2] = p THEN "absent" ELSE t.route[s]]
           u == [t EXCEPT
            !.provider[p] = "absent", !.key[p] = "absent",
            !.target = [o \in DOMAIN @ |-> IF o[1] = p THEN "absent" ELSE @[o]],
            !.route = [s \in DOMAIN @ |-> IF s[2] = p THEN "absent" ELSE @[s]]]
<1>0. t \in Tables
  BY DEF Good
<1>1. /\ f \in [Providers -> Row] /\ k \in [Providers -> Row]
      /\ f[p] = "absent" /\ k[p] = "absent"
      /\ \A q \in Providers \ {p} : f[q] = t.provider[q] /\ k[q] = t.key[q]
  BY <1>0, TablesFields DEF Row
<1>2. /\ d \in [Providers \X TargetModels -> Row]
      /\ \A q \in Providers, x \in TargetModels :
           d[<<q, x>>] = IF q = p THEN "absent" ELSE t.target[<<q, x>>]
  BY <1>0, TablesFields DEF Row
<1>3. /\ r \in [Routes -> Row]
      /\ \A m \in Models, q \in Providers, x \in TargetModels :
           r[<<m, q, x>>] = IF q = p THEN "absent" ELSE t.route[<<m, q, x>>]
  BY <1>0, TablesFields DEF Row, Routes
<1>4. /\ u.provider = f /\ u.name = t.name /\ u.key = k /\ u.target = d
      /\ u.model = t.model /\ u.route = r
  BY <1>0, Zenon DEF Tables
<1>5. u \in Tables
  BY <1>0, <1>1, <1>2, <1>3, Zenon DEF Tables, Routes
<1> HIDE DEF u, f, k, d, r
<1>6. ForeignKeys(u)
  BY <1>1, <1>2, <1>3, <1>4, SMT DEF Good, ForeignKeys
<1> QED
  BY <1>5, <1>6, Zenon DEF Good, u

\* An API key is inserted or set.
LEMMA KeySet ==
  ASSUME NEW t, Good(t), NEW p \in Providers, NEW s \in Row,
         t.provider[p] = "absent" => s = "absent"
  PROVE  Good([t EXCEPT !.key[p] = s])
<1> DEFINE k == [t.key EXCEPT ![p] = s]
           u == [t EXCEPT !.key[p] = s]
<1>0. t \in Tables
  BY DEF Good
<1>1. /\ k \in [Providers -> Row] /\ k[p] = s
      /\ \A q \in Providers \ {p} : k[q] = t.key[q]
  BY <1>0, TablesFields
<1>2. /\ u.provider = t.provider /\ u.name = t.name /\ u.key = k
      /\ u.target = t.target /\ u.model = t.model /\ u.route = t.route
  BY <1>0, Zenon DEF Tables
<1>3. u \in Tables
  BY <1>0, <1>1, Zenon DEF Tables
<1> HIDE DEF u, k
<1>4. ForeignKeys(u)
  BY <1>1, <1>2, SMT DEF Good, ForeignKeys
<1> QED
  BY <1>3, <1>4, Zenon DEF Good, u

\* A target model is inserted.
LEMMA TargetModelInserted ==
  ASSUME NEW t, Good(t), NEW p \in Providers, NEW x \in TargetModels,
         NEW s \in Row \ {"absent"}, t.provider[p] # "absent"
  PROVE  Good([t EXCEPT !.target[<<p, x>>] = s])
<1> DEFINE d == [t.target EXCEPT ![<<p, x>>] = s]
           u == [t EXCEPT !.target[<<p, x>>] = s]
<1>0. t \in Tables
  BY DEF Good
<1>1. /\ d \in [Providers \X TargetModels -> Row] /\ d[<<p, x>>] = s
      /\ \A q \in Providers, y \in TargetModels :
           d[<<q, y>>] = IF q = p /\ y = x THEN s ELSE t.target[<<q, y>>]
  BY <1>0, TablesFields
<1>2. /\ u.provider = t.provider /\ u.name = t.name /\ u.key = t.key
      /\ u.target = d /\ u.model = t.model /\ u.route = t.route
  BY <1>0, Zenon DEF Tables
<1>3. u \in Tables
  BY <1>0, <1>1, Zenon DEF Tables
<1> HIDE DEF u, d
<1>4. ForeignKeys(u)
  BY <1>1, <1>2, SMT DEF Good, ForeignKeys
<1> QED
  BY <1>3, <1>4, Zenon DEF Good, u

\* A target model goes, with its routes.
LEMMA TargetModelDeleted ==
  ASSUME NEW t, Good(t), NEW p \in Providers, NEW x \in TargetModels
  PROVE  Good([t EXCEPT
            !.target[<<p, x>>] = "absent",
            !.route = [s \in DOMAIN @ |->
                         IF s[2] = p /\ s[3] = x THEN "absent" ELSE @[s]]])
<1> DEFINE d == [t.target EXCEPT ![<<p, x>>] = "absent"]
           r == [s \in DOMAIN t.route |->
                   IF s[2] = p /\ s[3] = x THEN "absent" ELSE t.route[s]]
           u == [t EXCEPT
                   !.target[<<p, x>>] = "absent",
                   !.route = [s \in DOMAIN @ |->
                                IF s[2] = p /\ s[3] = x THEN "absent" ELSE @[s]]]
<1>0. t \in Tables
  BY DEF Good
<1>1. /\ d \in [Providers \X TargetModels -> Row]
      /\ \A q \in Providers, y \in TargetModels :
           d[<<q, y>>] = IF q = p /\ y = x THEN "absent" ELSE t.target[<<q, y>>]
  BY <1>0, TablesFields DEF Row
<1>2. /\ r \in [Routes -> Row]
      /\ \A m \in Models, q \in Providers, y \in TargetModels :
           r[<<m, q, y>>] = IF q = p /\ y = x THEN "absent"
                            ELSE t.route[<<m, q, y>>]
  BY <1>0, TablesFields DEF Row, Routes
<1>3. /\ u.provider = t.provider /\ u.name = t.name /\ u.key = t.key
      /\ u.target = d /\ u.model = t.model /\ u.route = r
  BY <1>0, Zenon DEF Tables
<1>4. u \in Tables
  BY <1>0, <1>1, <1>2, Zenon DEF Tables, Routes
<1> HIDE DEF u, d, r
<1>5. ForeignKeys(u)
  BY <1>1, <1>2, <1>3, SMT DEF Good, ForeignKeys
<1> QED
  BY <1>4, <1>5, Zenon DEF Good, u

\* A model is inserted.
LEMMA ModelInserted ==
  ASSUME NEW t, Good(t), NEW m \in Models, NEW s \in Row \ {"absent"}
  PROVE  Good([t EXCEPT !.model[m] = s])
<1> DEFINE e == [t.model EXCEPT ![m] = s]
           u == [t EXCEPT !.model[m] = s]
<1>0. t \in Tables
  BY DEF Good
<1>1. /\ e \in [Models -> Row]
      /\ \A n \in Models : e[n] = IF n = m THEN s ELSE t.model[n]
  BY <1>0, TablesFields
<1>2. /\ u.provider = t.provider /\ u.name = t.name /\ u.key = t.key
      /\ u.target = t.target /\ u.model = e /\ u.route = t.route
  BY <1>0, Zenon DEF Tables
<1>3. u \in Tables
  BY <1>0, <1>1, Zenon DEF Tables
<1> HIDE DEF u, e
<1>4. ForeignKeys(u)
  BY <1>1, <1>2, SMT DEF Good, ForeignKeys
<1> QED
  BY <1>3, <1>4, Zenon DEF Good, u

\* A model is set, perhaps under a new name that its routes follow.
Moved(t, m, n, s) ==
  [t EXCEPT !.model = [@ EXCEPT ![m] = "absent", ![n] = s],
            !.route = [o \in DOMAIN @ |->
                         CASE o[1] = n -> @[<<m, o[2], o[3]>>]
                           [] o[1] = m /\ m # n -> "absent"
                           [] OTHER -> @[o]]]

LEMMA ModelMoved ==
  ASSUME NEW t, Good(t), NEW m \in Models, NEW n \in Models,
         NEW s \in Row \ {"absent"}
  PROVE  Good(Moved(t, m, n, s))
<1> DEFINE e == [t.model EXCEPT ![m] = "absent", ![n] = s]
           r == [o \in DOMAIN t.route |->
                   CASE o[1] = n -> t.route[<<m, o[2], o[3]>>]
                     [] o[1] = m /\ m # n -> "absent"
                     [] OTHER -> t.route[o]]
           u == Moved(t, m, n, s)
<1>0. t \in Tables
  BY DEF Good
<1>1. /\ e \in [Models -> Row]
      /\ \A k \in Models : e[k] = IF k = n THEN s
                                  ELSE IF k = m THEN "absent" ELSE t.model[k]
  BY <1>0, TablesFields DEF Row
<1>2. DOMAIN t.route = Routes
  BY <1>0, TablesFields
<1>3. \A o \in Routes :
        r[o] = IF o[1] = n THEN t.route[<<m, o[2], o[3]>>]
               ELSE IF o[1] = m THEN "absent" ELSE t.route[o]
  BY <1>2, SMT
<1>4. r \in [Routes -> Row]
  <2>1. ASSUME NEW o \in Routes PROVE r[o] \in Row
    <3>1. <<m, o[2], o[3]>> \in Routes
      BY DEF Routes
    <3> HIDE DEF r
    <3> QED
      BY <1>0, <1>3, <3>1, TablesFields DEF Row
  <2>2. r = [o \in Routes |-> r[o]]
    BY <1>2
  <2> HIDE DEF r
  <2> QED
    BY <2>1, <2>2
<1>5. \A k \in Models, p \in Providers, x \in TargetModels :
        r[<<k, p, x>>] = IF k = n THEN t.route[<<m, p, x>>]
                         ELSE IF k = m THEN "absent" ELSE t.route[<<k, p, x>>]
  <2> HIDE DEF r
  <2> QED
    BY <1>3, SMT DEF Routes
<1>6. /\ u.provider = t.provider /\ u.name = t.name /\ u.key = t.key
      /\ u.target = t.target /\ u.model = e /\ u.route = r
  BY <1>0, Zenon DEF Tables, Moved
<1>7. u \in Tables
  BY <1>0, <1>1, <1>4, Zenon DEF Tables, Routes, Moved
<1> HIDE DEF u, e, r
<1>8. ForeignKeys(u)
  <2>1. ASSUME NEW k \in Models, NEW p \in Providers, NEW x \in TargetModels,
               r[<<k, p, x>>] # "absent"
        PROVE  e[k] # "absent" /\ t.target[<<p, x>>] # "absent"
    <3>1. CASE k = n
      <4>1. t.route[<<m, p, x>>] # "absent" /\ e[k] = s
        BY <1>1, <1>5, <2>1, <3>1
      <4>2. t.target[<<p, x>>] # "absent"
        BY <4>1 DEF Good, ForeignKeys
      <4> QED
        BY <4>1, <4>2
    <3>2. CASE k # n
      <4>1. r[<<k, p, x>>] = IF k = m THEN "absent" ELSE t.route[<<k, p, x>>]
        BY <1>5, <3>2
      <4>2. k # m /\ t.route[<<k, p, x>>] # "absent"
        BY <2>1, <4>1
      <4>3. e[k] = t.model[k]
        BY <1>1, <3>2, <4>2
      <4>4. t.model[k] # "absent" /\ t.target[<<p, x>>] # "absent"
        BY <4>2 DEF Good, ForeignKeys
      <4> QED
        BY <4>3, <4>4
    <3> QED
      BY <3>1, <3>2
  <2>2. \A p \in Providers :
          u.provider[p] = "absent" =>
            /\ u.key[p] = "absent"
            /\ \A x \in TargetModels : u.target[<<p, x>>] = "absent"
    BY <1>6 DEF Good, ForeignKeys
  <2>3. \A k \in Models, p \in Providers, x \in TargetModels :
          u.route[<<k, p, x>>] # "absent" =>
            u.model[k] # "absent" /\ u.target[<<p, x>>] # "absent"
    BY <1>6, <2>1
  <2> QED
    BY <2>2, <2>3, Zenon DEF ForeignKeys
<1> QED
  BY <1>7, <1>8, Zenon DEF Good, u

\* A model goes, with its routes.
LEMMA ModelDeleted ==
  ASSUME NEW t, Good(t), NEW m \in Models
  PROVE  Good([t EXCEPT
            !.model[m] = "absent",
            !.route = [s \in DOMAIN @ |-> IF s[1] = m THEN "absent" ELSE @[s]]])
<1> DEFINE e == [t.model EXCEPT ![m] = "absent"]
           r == [s \in DOMAIN t.route |-> IF s[1] = m THEN "absent" ELSE t.route[s]]
           u == [t EXCEPT
            !.model[m] = "absent",
            !.route = [s \in DOMAIN @ |-> IF s[1] = m THEN "absent" ELSE @[s]]]
<1>0. t \in Tables
  BY DEF Good
<1>1. /\ e \in [Models -> Row]
      /\ \A n \in Models : e[n] = IF n = m THEN "absent" ELSE t.model[n]
  BY <1>0, TablesFields DEF Row
<1>2. /\ r \in [Routes -> Row]
      /\ \A n \in Models, q \in Providers, x \in TargetModels :
           r[<<n, q, x>>] = IF n = m THEN "absent" ELSE t.route[<<n, q, x>>]
  BY <1>0, TablesFields DEF Row, Routes
<1>3. /\ u.provider = t.provider /\ u.name = t.name /\ u.key = t.key
      /\ u.target = t.target /\ u.model = e /\ u.route = r
  BY <1>0, Zenon DEF Tables
<1>4. u \in Tables
  BY <1>0, <1>1, <1>2, Zenon DEF Tables, Routes
<1> HIDE DEF u, e, r
<1>5. ForeignKeys(u)
  BY <1>1, <1>2, <1>3, SMT DEF Good, ForeignKeys
<1> QED
  BY <1>4, <1>5, Zenon DEF Good, u

\* Routes change; those that stay have their model and target model.
LEMMA RoutesSet ==
  ASSUME NEW t, Good(t), NEW r \in [Routes -> Row],
         \A m \in Models, p \in Providers, x \in TargetModels :
           r[<<m, p, x>>] # "absent" =>
             \/ r[<<m, p, x>>] = t.route[<<m, p, x>>]
             \/ t.model[m] # "absent" /\ t.target[<<p, x>>] # "absent",
         NEW u, u = [t EXCEPT !.route = r]
  PROVE  Good(u)
<1>0. t \in Tables
  BY DEF Good
<1>1. /\ u.provider = t.provider /\ u.name = t.name /\ u.key = t.key
      /\ u.target = t.target /\ u.model = t.model /\ u.route = r
  BY <1>0, Zenon DEF Tables
<1>2. u \in Tables
  BY <1>0, Zenon DEF Tables, Routes
<1>3. ForeignKeys(u)
  BY <1>1, SMT DEF Good, ForeignKeys
<1> QED
  BY <1>2, <1>3, Zenon DEF Good

LEMMA RouteInserted ==
  ASSUME NEW t, Good(t), NEW m \in Models, NEW p \in Providers,
         NEW x \in TargetModels, NEW s \in Row \ {"absent"},
         t.model[m] # "absent", t.target[<<p, x>>] # "absent"
  PROVE  Good([t EXCEPT !.route[<<m, p, x>>] = s])
<1> DEFINE r == [t.route EXCEPT ![<<m, p, x>>] = s]
<1>1. /\ r \in [Routes -> Row]
      /\ \A k \in Models, q \in Providers, y \in TargetModels :
           <<k, q, y>> # <<m, p, x>> => r[<<k, q, y>>] = t.route[<<k, q, y>>]
  BY TablesFields DEF Good, Routes
<1>2. [t EXCEPT !.route[<<m, p, x>>] = s] = [t EXCEPT !.route = r]
  OBVIOUS
<1> HIDE DEF r
<1>3. \A k \in Models, q \in Providers, y \in TargetModels :
        \/ r[<<k, q, y>>] = t.route[<<k, q, y>>]
        \/ t.model[k] # "absent" /\ t.target[<<q, y>>] # "absent"
  BY <1>1
<1> QED
  BY <1>1, <1>2, <1>3, RoutesSet

LEMMA RouteDeleted ==
  ASSUME NEW t, Good(t), NEW s \in Routes
  PROVE  Good([t EXCEPT !.route[s] = "absent"])
<1> DEFINE r == [t.route EXCEPT ![s] = "absent"]
<1>1. /\ r \in [Routes -> Row]
      /\ \A o \in Routes : r[o] # "absent" => r[o] = t.route[o]
  BY TablesFields DEF Good, Row
<1>2. [t EXCEPT !.route[s] = "absent"] = [t EXCEPT !.route = r]
  OBVIOUS
<1> HIDE DEF r
<1>3. \A k \in Models, q \in Providers, y \in TargetModels :
        r[<<k, q, y>>] # "absent" => r[<<k, q, y>>] = t.route[<<k, q, y>>]
  BY <1>1 DEF Routes
<1> QED
  BY <1>1, <1>2, <1>3, RoutesSet

LEMMA RouteMoved ==
  ASSUME NEW t, Good(t), NEW s \in Routes, NEW d \in Routes,
         NEW a \in Row \ {"absent"},
         t.route[s] # "absent", d[1] = s[1], t.target[<<d[2], d[3]>>] # "absent"
  PROVE  Good([t EXCEPT !.route = [@ EXCEPT ![s] = "absent", ![d] = a]])
<1> DEFINE r == [t.route EXCEPT ![s] = "absent", ![d] = a]
<1>1. /\ r \in [Routes -> Row]
      /\ \A o \in Routes \ {d} : r[o] # "absent" => r[o] = t.route[o]
  BY TablesFields DEF Good, Row
<1>2. [t EXCEPT !.route = [@ EXCEPT ![s] = "absent", ![d] = a]]
        = [t EXCEPT !.route = r]
  OBVIOUS
<1> HIDE DEF r
<1>3. t.model[d[1]] # "absent"
  <2>1. PICK m \in Models, p \in Providers, x \in TargetModels : s = <<m, p, x>>
    BY DEF Routes
  <2>2. t.model[m] # "absent" /\ s[1] = m
    BY <2>1 DEF Good, ForeignKeys
  <2> QED
    BY <2>2
<1>4. \A k \in Models, q \in Providers, y \in TargetModels :
        r[<<k, q, y>>] # "absent" =>
          \/ r[<<k, q, y>>] = t.route[<<k, q, y>>]
          \/ t.model[k] # "absent" /\ t.target[<<q, y>>] # "absent"
  <2> SUFFICES ASSUME NEW k \in Models, NEW q \in Providers,
                      NEW y \in TargetModels, r[<<k, q, y>>] # "absent"
               PROVE  \/ r[<<k, q, y>>] = t.route[<<k, q, y>>]
                      \/ t.model[k] # "absent" /\ t.target[<<q, y>>] # "absent"
    BY Zenon
  <2>1. CASE <<k, q, y>> = d
    BY <1>3, <2>1
  <2>2. CASE <<k, q, y>> # d
    BY <1>1, <2>2 DEF Routes
  <2> QED
    BY <2>1, <2>2
<1> QED
  BY <1>1, <1>2, <1>4, RoutesSet

-----------------------------------------------------------------------------
(***************************************************************************)
(* The steps, and the types of what they leave                             *)
(***************************************************************************)

HandlerSteps == Queries \cup {"idle", "syncing", "storing", "stored", "done"}

TablesInv == past \in Seq(Tables) /\ Version >= 1 /\ Good(tables)

LoadsInv ==
  /\ DOMAIN load = Admins
  /\ \A h \in Admins : /\ DOMAIN load[h] = Fields
                       /\ load[h].from \in Nat /\ load[h].to \in Nat
                       /\ load[h].from <= load[h].to /\ load[h].to <= Version

StepsInv ==
  /\ todo \in [Admins -> Seq(Providers \X TargetModels)]
  /\ pc \in [Admins -> HandlerSteps]
  /\ rpc \in [Requests -> {"idle", "routing"}]

TypeInv == TablesInv /\ LoadsInv /\ StepsInv

LEMMA TypeInvIsTypeOK == TypeInv => TypeOK
  BY DEF TypeInv, TablesInv, LoadsInv, StepsInv, TypeOK, Good, HandlerSteps

LEMMA NoLoadParts ==
  DOMAIN NoLoad = Fields /\ NoLoad.from = 0 /\ NoLoad.to = 0
<1>1. DOMAIN NoLoad = Fields
  BY SMT DEF NoLoad, Fields
<1>2. NoLoad.from = 0 /\ NoLoad.to = 0
  BY Zenon DEF NoLoad
<1> QED
  BY <1>1, <1>2

LEMMA InitTypeInv == Init => TypeInv
<1> SUFFICES ASSUME Init PROVE TypeInv
  OBVIOUS
<1>1. past = <<InitialTables>> /\ InitialTables \in Tables
      /\ ForeignKeys(InitialTables)
  BY ConfigAssumption DEF Init
<1>2. past \in Seq(Tables) /\ Version = 1 /\ tables = InitialTables
  BY <1>1 DEF Version, tables, Last
<1>3. TablesInv
  BY <1>1, <1>2 DEF TablesInv, Good
<1>4. load = [h \in Admins |-> NoLoad]
  BY DEF Init
<1>5. LoadsInv
  BY <1>2, <1>4, NoLoadParts DEF LoadsInv
<1>6. StepsInv
  BY DEF Init, StepsInv, HandlerSteps, Queries
<1> QED
  BY <1>3, <1>5, <1>6 DEF TypeInv

\* The tables after a statement are the last of the past.
LEMMA TablesAppended ==
  ASSUME TablesInv, NEW t, Good(t), past' = Append(past, t)
  PROVE  TablesInv' /\ Version \in Nat /\ Version' = Version + 1
<1>1. t \in Tables /\ past \in Seq(Tables)
  BY DEF Good, TablesInv
<1>2. /\ past' \in Seq(Tables) /\ Len(past') = Len(past) + 1
      /\ past'[Len(past')] = t /\ Len(past) \in Nat
  BY <1>1
<1>3. tables' = t
  BY <1>2 DEF tables, Last
<1> QED
  BY <1>2, <1>3 DEF TablesInv, Version, Good

LEMMA TablesKept ==
  ASSUME TablesInv, past' = past
  PROVE  TablesInv' /\ Version \in Nat /\ Version' = Version
  BY DEF TablesInv, Version, tables

LEMMA LoadsKept ==
  ASSUME LoadsInv, load' = load, Version \in Nat, Version' \in Nat,
         Version <= Version'
  PROVE  LoadsInv'
<1>1. ASSUME NEW h \in Admins
      PROVE  /\ DOMAIN load[h] = Fields
             /\ load[h].from \in Nat /\ load[h].to \in Nat
             /\ load[h].from <= load[h].to /\ load[h].to <= Version'
  BY DEF LoadsInv
<1> QED
  BY <1>1, Zenon DEF LoadsInv

LEMMA LoadChanged ==
  ASSUME LoadsInv, UNCHANGED past, NEW h \in Admins, NEW l,
         load' = [load EXCEPT ![h] = l], DOMAIN l = Fields,
         l.from \in Nat, l.to \in Nat, l.from <= l.to, l.to <= Version
  PROVE  LoadsInv'
<1>1. /\ DOMAIN load' = Admins /\ load'[h] = l
      /\ \A g \in Admins \ {h} : load'[g] = load[g]
  BY DEF LoadsInv
<1>2. Version' = Version
  BY DEF Version
<1>3. ASSUME NEW g \in Admins
      PROVE  /\ DOMAIN load'[g] = Fields
             /\ load'[g].from \in Nat /\ load'[g].to \in Nat
             /\ load'[g].from <= load'[g].to /\ load'[g].to <= Version
  BY <1>1 DEF LoadsInv
<1> QED
  BY <1>1, <1>2, <1>3, Zenon DEF LoadsInv

\* A step of a handler that leaves requests and the list of a sync alone.
LEMMA HandlerMoves ==
  ASSUME StepsInv, NEW h \in Admins, NEW s \in HandlerSteps,
         pc' = [pc EXCEPT ![h] = s], UNCHANGED <<todo, rpc>>
  PROVE  StepsInv'
  BY DEF StepsInv

\* The tables that each command leaves are good.
LEMMA CommandIsGood ==
  ASSUME Good(tables), NEW h \in Admins, AdminCommand(h), ~SyncStart(h)
  PROVE  \E t : Good(t) /\ Commit(h, t)
<1>r. "absent" \in Row
  BY DEF Row
<1>s. \A on \in BOOLEAN : Status(on) \in Row \ {"absent"}
  BY StatusIsRow
<1>1. CASE CreateProvider(h) \/ UpdateProvider(h)
  <2>1. PICK p \in Providers, n \in Names, on \in BOOLEAN :
          Commit(h, [tables EXCEPT !.provider[p] = Status(on), !.name[p] = n])
    BY <1>1, Zenon DEF CreateProvider, UpdateProvider
  <2> QED
    BY <2>1, ProviderSet
<1>2. CASE SetProviderActive(h)
  <2>1. PICK p \in Providers, on \in BOOLEAN :
          Commit(h, [tables EXCEPT !.provider[p] = Status(on)])
    BY <1>2, Zenon DEF SetProviderActive
  <2>2. PICK n : n \in Names
    BY <2>1, TablesFields DEF Good
  <2> QED
    BY <2>1, <2>2, ProviderSet
<1>3. CASE DeleteProvider(h)
  <2>1. PICK p \in Providers :
          Commit(h,
            [tables EXCEPT
               !.provider[p] = "absent", !.key[p] = "absent",
               !.target = [o \in DOMAIN @ |-> IF o[1] = p THEN "absent" ELSE @[o]],
               !.route = [s \in DOMAIN @ |-> IF s[2] = p THEN "absent" ELSE @[s]]])
    BY <1>3, Zenon DEF DeleteProvider
  <2> QED
    BY <2>1, ProviderDeleted, Zenon
<1>4. CASE CreateProviderApiKey(h) \/ SetProviderApiKeyActive(h)
           \/ DeleteProviderApiKey(h)
  <2>1. PICK p \in Providers, s \in Row :
          /\ tables.provider[p] = "absent" => s = "absent"
          /\ Commit(h, [tables EXCEPT !.key[p] = s])
    <3>1. CASE CreateProviderApiKey(h)
      BY <3>1, <1>s, Zenon DEF CreateProviderApiKey
    <3>2. CASE SetProviderApiKeyActive(h)
      <4>1. PICK p \in Providers, on \in BOOLEAN :
              /\ tables.key[p] # "absent"
              /\ Commit(h, [tables EXCEPT !.key[p] = Status(on)])
        BY <3>2, Zenon DEF SetProviderApiKeyActive
      <4>2. tables.provider[p] # "absent"
        BY <4>1, Zenon DEF Good, ForeignKeys
      <4> QED
        BY <4>1, <4>2, <1>s, Zenon
    <3>3. CASE DeleteProviderApiKey(h)
      BY <3>3, <1>r, Zenon DEF DeleteProviderApiKey
    <3> QED
      BY <1>4, <3>1, <3>2, <3>3
  <2> QED
    BY <2>1, KeySet
<1>5. CASE CreateProviderTargetModel(h)
  <2>1. PICK p \in Providers, x \in TargetModels, on \in BOOLEAN :
          /\ tables.provider[p] # "absent"
          /\ Commit(h, [tables EXCEPT !.target[<<p, x>>] = Status(on)])
    BY <1>5, Zenon DEF CreateProviderTargetModel
  <2> QED
    BY <2>1, <1>s, TargetModelInserted
<1>6. CASE DeleteProviderTargetModel(h)
  <2>1. PICK p \in Providers, x \in TargetModels :
          Commit(h,
            [tables EXCEPT
               !.target[<<p, x>>] = "absent",
               !.route = [s \in DOMAIN @ |->
                            IF s[2] = p /\ s[3] = x THEN "absent" ELSE @[s]]])
    BY <1>6, Zenon DEF DeleteProviderTargetModel
  <2> QED
    BY <2>1, TargetModelDeleted, Zenon
<1>7. CASE CreateModel(h)
  <2>1. PICK m \in Models, on \in BOOLEAN :
          Commit(h, [tables EXCEPT !.model[m] = Status(on)])
    BY <1>7, Zenon DEF CreateModel
  <2> QED
    BY <2>1, <1>s, ModelInserted
<1>8. CASE UpdateModel(h)
  <2>1. PICK m \in Models, n \in Models, on \in BOOLEAN :
          Commit(h, Moved(tables, m, n, Status(on)))
    BY <1>8, Zenon DEF UpdateModel, Moved
  <2> QED
    BY <2>1, <1>s, ModelMoved
<1>9. CASE DeleteModel(h)
  <2>1. PICK m \in Models :
          Commit(h,
            [tables EXCEPT
               !.model[m] = "absent",
               !.route = [s \in DOMAIN @ |-> IF s[1] = m THEN "absent" ELSE @[s]]])
    BY <1>9, Zenon DEF DeleteModel
  <2> QED
    BY <2>1, ModelDeleted, Zenon
<1>10. CASE CreateModelTarget(h)
  <2>1. PICK m \in Models, p \in Providers, x \in TargetModels, on \in BOOLEAN :
          /\ tables.model[m] # "absent" /\ tables.target[<<p, x>>] # "absent"
          /\ Commit(h, [tables EXCEPT !.route[<<m, p, x>>] = Status(on)])
    BY <1>10, Zenon DEF CreateModelTarget
  <2> QED
    BY <2>1, <1>s, RouteInserted
<1>11. CASE UpdateModelTarget(h)
  <2>1. PICK s \in Routes, d \in Routes, on \in BOOLEAN :
          /\ tables.route[s] # "absent" /\ d[1] = s[1]
          /\ tables.target[<<d[2], d[3]>>] # "absent"
          /\ Commit(h, [tables EXCEPT !.route =
                          [@ EXCEPT ![s] = "absent", ![d] = Status(on)]])
    BY <1>11, Zenon DEF UpdateModelTarget, Routes
  <2> QED
    BY <2>1, <1>s, RouteMoved
<1>12. CASE DeleteModelTarget(h)
  <2>1. PICK s \in Routes : Commit(h, [tables EXCEPT !.route[s] = "absent"])
    BY <1>12, Zenon DEF DeleteModelTarget, Routes
  <2> QED
    BY <2>1, RouteDeleted
<1> QED
  BY <1>1, <1>2, <1>3, <1>4, <1>5, <1>6, <1>7, <1>8, <1>9, <1>10, <1>11, <1>12
     DEF AdminCommand

LEMMA CommitTypes ==
  ASSUME TypeInv, NEW h \in Admins, NEW t, Good(t), Commit(h, t)
  PROVE  TypeInv'
<1>1. /\ past' = Append(past, t) /\ pc' = [pc EXCEPT ![h] = "providers"]
      /\ UNCHANGED <<todo, load, rpc>>
  BY Zenon DEF Commit, AfterCommit, requests
<1>2. TablesInv' /\ Version \in Nat /\ Version' = Version + 1
  BY <1>1, TablesAppended DEF TypeInv
<1>3. LoadsInv'
  BY <1>1, <1>2, LoadsKept DEF TypeInv
<1>4. StepsInv'
  BY <1>1, HandlerMoves DEF TypeInv, HandlerSteps, Queries
<1> QED
  BY <1>2, <1>3, <1>4 DEF TypeInv

\* What a sync is going to insert: models without blanks.
LEMMA SyncStartTypes ==
  ASSUME TypeInv, NEW h \in Admins, SyncStart(h)
  PROVE  TypeInv'
<1>0. PICK p \in Providers :
        \E models \in PreviewUpstreamModels(p) :
          todo' = [todo EXCEPT ![h] = [i \in DOMAIN models |-> <<p, models[i]>>]]
  BY Zenon DEF SyncStart, ActiveProviders
<1>1. PICK models \in PreviewUpstreamModels(p) :
        todo' = [todo EXCEPT ![h] = [i \in DOMAIN models |-> <<p, models[i]>>]]
  BY <1>0
<1>2. PICK n \in Nat : models \in [1 .. n -> TargetModels]
  <2>1. PICK raw : models \in NormalizeModels(raw)
    BY <1>1, Zenon DEF PreviewUpstreamModels
  <2>2. models \in BoundedSeq(TargetModels, MaxListed)
    BY <2>1, Zenon DEF NormalizeModels
  <2>3. PICK n \in 0 .. MaxListed : models \in [1 .. n -> TargetModels]
    BY <2>2, Zenon DEF BoundedSeq, SeqOf
  <2>4. n \in Nat
    BY ConfigAssumption
  <2> QED
    BY <2>3, <2>4
<1>3. [i \in DOMAIN models |-> <<p, models[i]>>] \in Seq(Providers \X TargetModels)
  BY <1>2
<1>4. /\ pc' = [pc EXCEPT ![h] = "syncing"]
      /\ UNCHANGED <<past, load, rpc>>
  BY Zenon DEF SyncStart, requests
<1>5. StepsInv'
  <2>1. todo' \in [Admins -> Seq(Providers \X TargetModels)]
    BY <1>1, <1>3 DEF TypeInv, StepsInv
  <2>2. pc' \in [Admins -> HandlerSteps]
    BY <1>4 DEF TypeInv, StepsInv, HandlerSteps
  <2> QED
    BY <1>4, <2>1, <2>2 DEF TypeInv, StepsInv
<1>6. TablesInv' /\ LoadsInv'
  BY <1>4, TablesKept, LoadsKept DEF TypeInv
<1> QED
  BY <1>5, <1>6 DEF TypeInv

LEMMA SyncInsertTypes ==
  ASSUME TypeInv, NEW h \in Admins, SyncInsert(h)
  PROVE  TypeInv'
<1> DEFINE o == Head(todo[h])
<1>1. /\ todo[h] \in Seq(Providers \X TargetModels) /\ todo[h] # <<>>
  BY DEF SyncInsert, TypeInv, StepsInv
<1>2. o \in Providers \X TargetModels /\ Tail(todo[h]) \in Seq(Providers \X TargetModels)
  BY <1>1
<1>3. /\ todo' = [todo EXCEPT ![h] = Tail(@)]
      /\ UNCHANGED <<pc, load, rpc>>
  BY Zenon DEF SyncInsert, requests
<1>4. StepsInv'
  BY <1>2, <1>3 DEF TypeInv, StepsInv
<1>5. /\ tables.provider[o[1]] # "absent"
      /\ past' = past \/ past' = Append(past, [tables EXCEPT !.target[o] = "active"])
  BY Zenon DEF SyncInsert
<1>6. Good([tables EXCEPT !.target[o] = "active"])
  <2>1. PICK p \in Providers, x \in TargetModels : o = <<p, x>>
    BY <1>2
  <2>2. tables.provider[p] # "absent" /\ "active" \in Row \ {"absent"}
    BY <1>5, <2>1 DEF Row
  <2>3. Good([tables EXCEPT !.target[<<p, x>>] = "active"])
    BY <2>2, TargetModelInserted DEF TypeInv, TablesInv
  <2> QED
    BY <2>1, <2>3
<1> HIDE DEF o
<1>7. TablesInv' /\ Version \in Nat /\ Version' \in Nat /\ Version <= Version'
  BY <1>5, <1>6, TablesAppended, TablesKept DEF TypeInv
<1>8. LoadsInv'
  BY <1>3, <1>7, LoadsKept DEF TypeInv
<1> QED
  BY <1>4, <1>7, <1>8 DEF TypeInv

\* The queries.
LEMMA QueryTypes ==
  ASSUME TypeInv, NEW h \in Admins,
         QueryProviders(h) \/ QueryKeys(h) \/ QueryTargetModels(h) \/ QueryAliases(h)
  PROVE  TypeInv'
<1>1. UNCHANGED <<past, todo, rpc>>
  BY Zenon DEF QueryProviders, QueryKeys, QueryTargetModels, QueryAliases, requests
<1>2. PICK s \in HandlerSteps : pc' = [pc EXCEPT ![h] = s]
  <2>1. {"storing", "keys", "offers", "aliases"} \subseteq HandlerSteps
    BY DEF HandlerSteps, Queries
  <2>2. CASE QueryProviders(h)
    <3>1. \/ pc' = [pc EXCEPT ![h] = "storing"]
          \/ pc' = [pc EXCEPT ![h] = "keys"]
      BY <2>2, Zenon DEF QueryProviders
    <3> QED
      BY <2>1, <3>1
  <2>3. CASE QueryKeys(h)
    BY <2>1, <2>3 DEF QueryKeys
  <2>4. CASE QueryTargetModels(h)
    BY <2>1, <2>4 DEF QueryTargetModels
  <2>5. CASE QueryAliases(h)
    BY <2>1, <2>5 DEF QueryAliases
  <2> QED
    BY <2>2, <2>3, <2>4, <2>5
<1>3. Version \in Nat
  BY TablesKept, <1>1 DEF TypeInv
<1>4. /\ DOMAIN load[h] = Fields /\ load[h].from \in Nat /\ load[h].to \in Nat
      /\ load[h].from <= load[h].to /\ load[h].to <= Version
  BY DEF TypeInv, LoadsInv
<1>5. {"from", "to", "keys", "offers", "routes"} \subseteq DOMAIN load[h]
  BY <1>4 DEF Fields
<1>6. PICK l : /\ load' = [load EXCEPT ![h] = l] /\ DOMAIN l = Fields
               /\ l.from \in Nat /\ l.to \in Nat
               /\ l.from <= l.to /\ l.to <= Version
  <2>1. CASE QueryProviders(h)
    <3>1. PICK l : /\ l.from = Version /\ l.to = Version
                   /\ DOMAIN l = DOMAIN NoLoad
                   /\ load' = [load EXCEPT ![h] = l]
      BY <2>1, Zenon DEF QueryProviders, NoLoad
    <3>2. l.from \in Nat /\ l.to \in Nat /\ l.from <= l.to /\ l.to <= Version
      BY <1>3, <3>1
    <3>3. DOMAIN l = Fields
      BY <3>1, NoLoadParts
    <3> QED
      BY <3>1, <3>2, <3>3, Zenon
  <2>2. CASE QueryKeys(h)
    <3>1. PICK x : load' = [load EXCEPT ![h].keys = x]
      BY <2>2, Zenon DEF QueryKeys
    <3> DEFINE l == [load[h] EXCEPT !.keys = x]
    <3>2. load' = [load EXCEPT ![h] = l]
      BY <3>1, Zenon
    <3>3. DOMAIN l = DOMAIN load[h] /\ l.from = load[h].from /\ l.to = load[h].to
      BY <1>5, Zenon
    <3> HIDE DEF l
    <3> QED
      BY <1>4, <3>2, <3>3
  <2>3. CASE QueryTargetModels(h)
    <3>1. PICK x : load' = [load EXCEPT ![h].offers = x]
      BY <2>3, Zenon DEF QueryTargetModels
    <3> DEFINE l == [load[h] EXCEPT !.offers = x]
    <3>2. load' = [load EXCEPT ![h] = l]
      BY <3>1, Zenon
    <3>3. DOMAIN l = DOMAIN load[h] /\ l.from = load[h].from /\ l.to = load[h].to
      BY <1>5, Zenon
    <3> HIDE DEF l
    <3> QED
      BY <1>4, <3>2, <3>3
  <2>4. CASE QueryAliases(h)
    <3>1. PICK x : load' = [load EXCEPT ![h].routes = x, ![h].to = Version]
      BY <2>4, Zenon DEF QueryAliases
    <3> DEFINE l == [load[h] EXCEPT !.routes = x, !.to = Version]
    <3>2. load' = [load EXCEPT ![h] = l]
      BY <3>1
    <3>3. DOMAIN l = DOMAIN load[h] /\ l.from = load[h].from /\ l.to = Version
      BY <1>5, Zenon
    <3> HIDE DEF l
    <3>4. load[h].from <= Version
      BY <1>3, <1>4
    <3>5. l.from \in Nat /\ l.to \in Nat /\ l.from <= l.to /\ l.to <= Version
      BY <1>3, <1>4, <3>3, <3>4
    <3>6. DOMAIN l = Fields
      BY <1>4, <3>3
    <3> QED
      BY <3>2, <3>5, <3>6, Zenon
  <2> QED
    BY <2>1, <2>2, <2>3, <2>4
<1>7. LoadsInv'
  BY <1>1, <1>6, LoadChanged DEF TypeInv
<1>8. TablesInv' /\ StepsInv'
  BY <1>1, <1>2, TablesKept, HandlerMoves DEF TypeInv
<1> QED
  BY <1>7, <1>8 DEF TypeInv

\* Steps of a handler that leave the tables and what was read alone.
LEMMA MoveTypes ==
  ASSUME TypeInv, NEW h \in Admins, NEW s \in HandlerSteps,
         pc' = [pc EXCEPT ![h] = s], UNCHANGED <<past, todo, load, rpc>>
  PROVE  TypeInv'
<1>1. TablesInv' /\ LoadsInv'
  BY TablesKept, LoadsKept DEF TypeInv
<1>2. StepsInv'
  BY HandlerMoves DEF TypeInv
<1> QED
  BY <1>1, <1>2 DEF TypeInv

LEMMA FinishTypes ==
  ASSUME TypeInv, NEW h \in Admins, Finish(h), UNCHANGED <<past, rpc>>
  PROVE  TypeInv'
<1>1. /\ pc' = [pc EXCEPT ![h] = "done"] /\ todo' = [todo EXCEPT ![h] = <<>>]
      /\ load' = [load EXCEPT ![h] = NoLoad]
  BY DEF Finish
<1>2. TablesInv' /\ Version \in Nat
  BY TablesKept DEF TypeInv
<1>3. /\ NoLoad.from \in Nat /\ NoLoad.to \in Nat
      /\ NoLoad.from <= NoLoad.to /\ NoLoad.to <= Version
  BY <1>2, NoLoadParts
<1>a. DOMAIN NoLoad = Fields
  BY NoLoadParts
<1>4. LoadsInv'
  BY <1>1, <1>3, <1>a, LoadChanged DEF TypeInv
<1>5. StepsInv'
  BY <1>1 DEF TypeInv, StepsInv, HandlerSteps
<1> QED
  BY <1>2, <1>4, <1>5 DEF TypeInv

LEMMA RequestTypes ==
  ASSUME TypeInv, NEW r \in Requests, ResolveModel(r) \/ TryTarget(r)
  PROVE  TypeInv'
<1>1. UNCHANGED <<past, pc, todo, load>>
  BY Zenon DEF ResolveModel, TryTarget, admins
<1>2. rpc' \in [Requests -> {"idle", "routing"}]
  <2>1. \/ rpc' = [rpc EXCEPT ![r] = "routing"]
        \/ rpc' = [rpc EXCEPT ![r] = "idle"]
        \/ rpc' = [rpc EXCEPT ![r] = rpc[r]]
    <3>1. CASE ResolveModel(r)
      BY <3>1, Zenon DEF ResolveModel
    <3>2. CASE TryTarget(r)
      <4>1. PICK left : rpc' = [rpc EXCEPT ![r] = IF left = {} THEN "idle" ELSE @]
        BY <3>2, Zenon DEF TryTarget
      <4> QED
        BY <4>1, Zenon
    <3> QED
      BY <3>1, <3>2
  <2> QED
    BY <2>1 DEF TypeInv, StepsInv
<1>3. TablesInv' /\ LoadsInv'
  BY <1>1, TablesKept, LoadsKept DEF TypeInv
<1>4. StepsInv'
  BY <1>1, <1>2 DEF TypeInv, StepsInv
<1> QED
  BY <1>3, <1>4 DEF TypeInv

LEMMA NextTypeInv == TypeInv /\ [Next]_vars => TypeInv'
<1> SUFFICES ASSUME TypeInv, [Next]_vars PROVE TypeInv'
  OBVIOUS
<1>1. ASSUME NEW h \in Admins, AdminCommand(h) PROVE TypeInv'
  <2>1. Good(tables)
    BY DEF TypeInv, TablesInv
  <2> QED
    BY <1>1, <2>1, CommandIsGood, CommitTypes, SyncStartTypes
<1>2. ASSUME NEW h \in Admins, Reload(h) \/ Abort(h) PROVE TypeInv'
  <2>1. CASE SyncReload(h) \/ StoreRegistry(h)
    <3>1. /\ \E s \in HandlerSteps : pc' = [pc EXCEPT ![h] = s]
          /\ UNCHANGED <<past, todo, load, rpc>>
      BY <2>1 DEF SyncReload, StoreRegistry, requests, HandlerSteps, Queries
    <3> QED
      BY <3>1, MoveTypes
  <2>2. CASE StoreResolver(h) \/ Abort(h)
    BY <2>2, FinishTypes, Zenon DEF StoreResolver, Abort, requests
  <2> QED
    BY <1>2, <2>1, <2>2, SyncInsertTypes, QueryTypes DEF Reload
<1>3. CASE UNCHANGED vars
  <2>1. UNCHANGED <<past, pc, todo, load, rpc>>
    BY <1>3, Zenon DEF vars, admins, requests
  <2>2. TablesInv' /\ LoadsInv'
    BY <2>1, TablesKept, LoadsKept DEF TypeInv
  <2> QED
    BY <2>1, <2>2 DEF TypeInv, StepsInv
<1> QED
  BY <1>1, <1>2, <1>3, RequestTypes DEF Next

\* Whatever handlers run together, no statement leaves a key, a target model or
\* a route without the rows it needs, no load is ahead of the tables, and a
\* sync inserts models, no blanks.
THEOREM TablesKeepTheirKeys == Spec => []TypeOK
  BY InitTypeInv, NextTypeInv, TypeInvIsTypeOK, PTL DEF Spec

=============================================================================
