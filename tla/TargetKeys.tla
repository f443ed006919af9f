----------------------------- MODULE TargetKeys -----------------------------
(***************************************************************************)
(* Which of a provider's API keys a client's requests are sent with: the   *)
(* sticky mapping in Redis (sticky_target_key_cache.rs and                 *)
(* resolve_sticky_target_key in proxy/mod.rs), the failover over the keys  *)
(* of a backend (ProxyProvider::proxy_request) and the retries of one key  *)
(* (ProviderHttpClient::execute_with_retry).                               *)
(*                                                                         *)
(* One client key and one provider name, hence one mapping and one round-  *)
(* robin counter; several providers may bear the name, each with keys of   *)
(* its own.  A call here is one attempt of TargetPool and works with the   *)
(* keys of the registry that its request loaded, while reloads replace it. *)
(* A request loads the registry once: a later attempt of it is a call that *)
(* begins with the first one and waits at its first step for its turn.     *)
(*                                                                         *)
(* Abstractions: every Redis command may fail, which the code ignores; TTLs*)
(* are not counted, a mapping or a counter may expire at any time.         *)
(***************************************************************************)
EXTENDS Integers, FiniteSets, SequencesExt

CONSTANTS
  Calls,        \* attempts in flight, each slot used again and again
  Providers,    \* the rows of `providers` with that name
  Keys,         \* Keys[p]: the key rows of provider p, in the loader's order
  NoKey,        \* no mapping; no preferred key yet
  MaxRetries,   \* RetryConfig.max_retries
  CounterCycle  \* bound: the counter is kept modulo a multiple of every
                \* possible number of keys, which all its readers see alike

AllKeys == UNION {{Keys[p][i] : i \in DOMAIN Keys[p]} : p \in Providers}

ASSUME KeysAssumption ==
  /\ NoKey \notin AllKeys
  /\ MaxRetries \in Nat
  /\ CounterCycle \in Nat \ {0}
  /\ \A p \in Providers : \A n \in 1 .. Len(Keys[p]) : CounterCycle % n = 0

VARIABLES
  active,      \* the keys that the current registry holds
  mapping,     \* zorch:sticky_target_key, or NoKey
  counter,     \* zorch:target_key_rr modulo CounterCycle, 0 when missing
  pc,          \* where each call is
  own,         \* its provider's api_keys()
  preferred,   \* preferred_key_id
  offset,      \* `offset` of proxy_request's loop
  attempt,     \* `attempt` of execute_with_retry's loop
  tried,       \* history: the keys given up, in order
  sends        \* history: HTTP requests sent

redis == <<mapping, counter>>
call == <<pc, own, preferred, offset, attempt, tried, sends>>
vars == <<active, redis, call>>

\* "exhausted": every key failed, an error goes back to try_target_pool.
Steps == {"idle", "lookup", "invalidate", "pick", "store", "send", "remember",
          "exhausted"}

Goto(c, step) == pc' = [pc EXCEPT ![c] = step]

-----------------------------------------------------------------------------

\* Names that start with Faulty are seeded faults (see README), as in
\* BackendCircuit.
FaultyKeysIn(p) == {Keys[p]}

\* load_providers_and_models, as a set of one list: the active keys of a
\* provider, in order.
KeysIn(p) ==
  LET kept == {i \in DOMAIN Keys[p] : Keys[p][i] \in active}
      Rank(i) == Cardinality({j \in kept : j <= i})
  IN  {keys \in BoundedSeq(active, Len(Keys[p])) :
         /\ Len(keys) = Cardinality(kept)
         /\ \A i \in kept : keys[Rank(i)] = Keys[p][i]}

Init ==
  /\ active = AllKeys
  /\ mapping = NoKey /\ counter = 0
  /\ pc = [c \in Calls |-> "idle"]
  /\ own = [c \in Calls |-> <<>>]
  /\ preferred = [c \in Calls |-> NoKey]
  /\ offset = [c \in Calls |-> 0]
  /\ attempt = [c \in Calls |-> 0]
  /\ tried = [c \in Calls |-> <<>>]
  /\ sends = [c \in Calls |-> 0]

\* try_target_pool has selected a provider; one without keys is in no registry.
Begin(c) ==
  /\ pc[c] \in {"idle", "exhausted"}
  /\ \E p \in Providers :
       \E keys \in KeysIn(p) : keys # <<>> /\ own' = [own EXCEPT ![c] = keys]
  /\ preferred' = [preferred EXCEPT ![c] = NoKey]
  /\ tried' = [tried EXCEPT ![c] = <<>>]
  /\ sends' = [sends EXCEPT ![c] = 0]
  /\ Goto(c, "lookup")
  /\ UNCHANGED <<active, redis, offset, attempt>>

Has(c, k) == \E i \in DOMAIN own[c] : own[c][i] = k

FaultyLookupUnchecked(c) ==
  /\ pc[c] = "lookup"
  /\ Goto(c, IF mapping = NoKey THEN "pick" ELSE "send")
  /\ preferred' = [preferred EXCEPT ![c] = mapping]
  /\ UNCHANGED <<active, redis, own, offset, attempt, tried, sends>>

\* The cache is read: a key this provider has is used, any other is to be
\* forgotten.
Lookup(c) ==
  /\ pc[c] = "lookup"
  /\ \/ /\ mapping = NoKey
        /\ Goto(c, "pick")
        /\ UNCHANGED preferred
     \/ /\ mapping # NoKey /\ ~Has(c, mapping)
        /\ Goto(c, "invalidate")
        /\ UNCHANGED preferred
     \/ /\ Has(c, mapping)
        /\ Goto(c, "send")
        /\ preferred' = [preferred EXCEPT ![c] = mapping]
  /\ UNCHANGED <<active, redis, own, offset, attempt, tried, sends>>

LookupFails(c) ==
  /\ pc[c] = "lookup"
  /\ Goto(c, "pick")
  /\ UNCHANGED <<active, redis, own, preferred, offset, attempt, tried, sends>>

\* DEL, whatever the mapping is by now.
Invalidate(c) ==
  /\ pc[c] = "invalidate"
  /\ mapping' \in {NoKey, mapping}
  /\ Goto(c, "pick")
  /\ UNCHANGED <<active, counter, own, preferred, offset, attempt, tried,
                 sends>>

\* next_key_index: INCR, and the first key when that fails or its answer is
\* lost.
Pick(c) ==
  /\ pc[c] = "pick"
  /\ \/ /\ counter' = (counter + 1) % CounterCycle
        /\ preferred' =
             [preferred EXCEPT ![c] = own[c][(counter % Len(own[c])) + 1]]
     \/ /\ counter' \in {counter, (counter + 1) % CounterCycle}
        /\ preferred' = [preferred EXCEPT ![c] = own[c][1]]
  /\ Goto(c, "store")
  /\ UNCHANGED <<active, mapping, own, offset, attempt, tried, sends>>

Store(c) ==
  /\ pc[c] = "store"
  /\ mapping' \in {preferred[c], mapping}
  /\ Goto(c, "send")
  /\ UNCHANGED <<active, counter, own, preferred, offset, attempt, tried,
                 sends>>

-----------------------------------------------------------------------------
(***************************************************************************)
(* proxy_request                                                           *)
(***************************************************************************)

\* find_key_index(preferred_key_id).unwrap_or(0)
StartIndex(c) ==
  IF Has(c, preferred[c])
  THEN (CHOOSE i \in DOMAIN own[c] : own[c][i] = preferred[c]) - 1
  ELSE 0

FaultyKeyAt(c) ==
  LET i == StartIndex(c) + offset[c]
  IN  own[c][(IF i < Len(own[c]) THEN i ELSE Len(own[c]) - 1) + 1]

\* The key of this turn: (start_index + offset) % len.
KeyAt(c) == own[c][((StartIndex(c) + offset[c]) % Len(own[c])) + 1]

\* The turn is over without an answer: the next key, or the last error.
NextKey(c) ==
  /\ tried' = [tried EXCEPT ![c] = Append(@, KeyAt(c))]
  /\ attempt' = [attempt EXCEPT ![c] = 0]
  /\ IF offset[c] + 1 < Len(own[c])
     THEN offset' = [offset EXCEPT ![c] = @ + 1] /\ UNCHANGED pc
     ELSE offset' = [offset EXCEPT ![c] = 0] /\ Goto(c, "exhausted")
  /\ UNCHANGED <<active, redis, own, preferred>>

\* build_headers fails: the key cannot be decrypted.
KeyUnusable(c) ==
  /\ pc[c] = "send" /\ attempt[c] = 0
  /\ NextKey(c)
  /\ UNCHANGED sends

Sent(c) ==
  /\ pc[c] = "send"
  /\ sends' = [sends EXCEPT ![c] = @ + 1]

MayRetry(c) == attempt[c] < MaxRetries

\* No answer in time, or a status among retryable_statuses: the same key
\* again after a delay, as long as there are retries.
Rejected(c) ==
  /\ Sent(c)
  /\ \/ /\ MayRetry(c)
        /\ attempt' = [attempt EXCEPT ![c] = @ + 1]
        /\ UNCHANGED <<active, redis, pc, own, preferred, offset, tried>>
     \/ ~MayRetry(c) /\ NextKey(c)

\* A server error that is not among them, or an error of the client that is
\* not worth a retry: the next key at once.
ServerError(c) == Sent(c) /\ NextKey(c)

\* Any other response.
Answered(c) ==
  /\ Sent(c)
  /\ Goto(c, "remember")
  /\ UNCHANGED <<active, redis, own, preferred, offset, attempt, tried>>

\* The call is over, and so are its locals.
Finish(c) ==
  /\ Goto(c, "idle")
  /\ own' = [own EXCEPT ![c] = <<>>]
  /\ preferred' = [preferred EXCEPT ![c] = NoKey]
  /\ offset' = [offset EXCEPT ![c] = 0]
  /\ attempt' = [attempt EXCEPT ![c] = 0]
  /\ tried' = [tried EXCEPT ![c] = <<>>]
  /\ sends' = [sends EXCEPT ![c] = 0]

FaultyRemember(c) ==
  /\ pc[c] = "remember"
  /\ mapping' \in {preferred[c], mapping}
  /\ Finish(c)
  /\ UNCHANGED <<active, counter>>

\* The mapping becomes the key that answered.
Remember(c) ==
  /\ pc[c] = "remember"
  /\ mapping' \in {KeyAt(c), mapping}
  /\ Finish(c)
  /\ UNCHANGED <<active, counter>>

\* The request is dropped by its timeout or its client.
Drop(c) ==
  /\ pc[c] \notin {"idle", "exhausted"}
  /\ Finish(c)
  /\ UNCHANGED <<active, redis>>

-----------------------------------------------------------------------------

\* An administrator adds, removes or switches a key, and the registry is
\* reloaded.
Reload(k) ==
  /\ active' \in {active \cup {k}, active \ {k}}
  /\ UNCHANGED <<redis, call>>

MappingExpires ==
  /\ mapping' = NoKey
  /\ UNCHANGED <<active, counter, call>>

CounterExpires ==
  /\ counter' = 0
  /\ UNCHANGED <<active, mapping, call>>

Advance(c) ==
  \/ Lookup(c) \/ LookupFails(c) \/ Invalidate(c) \/ Pick(c) \/ Store(c)
  \/ KeyUnusable(c) \/ Rejected(c) \/ ServerError(c) \/ Answered(c)
  \/ Remember(c)

Next ==
  \/ \E c \in Calls : Begin(c) \/ Advance(c) \/ Drop(c)
  \/ \E k \in AllKeys : Reload(k)
  \/ MappingExpires \/ CounterExpires

Spec == Init /\ [][Next]_vars

\* The runtime polls every task that can go on, and the HTTP client bounds
\* each send with a timeout.
FairSpec == Spec /\ \A c \in Calls : WF_vars(Advance(c))

-----------------------------------------------------------------------------
(***************************************************************************)
(* Properties                                                              *)
(***************************************************************************)

\* Every variable has its type, and the key a call starts from is one of its
\* provider's.
TypeOK ==
  /\ active \subseteq AllKeys
  /\ mapping \in AllKeys \cup {NoKey}
  /\ counter \in 0 .. CounterCycle - 1
  /\ pc \in [Calls -> Steps]
  /\ \A c \in Calls :
       /\ pc[c] \in {"send", "remember"} => Has(c, preferred[c])
       /\ offset[c] # 0 => offset[c] < Len(own[c])
       /\ attempt[c] \in 0 .. MaxRetries

\* An error goes back to the router only after every key of the provider had
\* its turn, each once, the preferred one first: wherever the loop starts it
\* neither misses the keys before its start nor tries one twice, and with the
\* retries of each key it makes no more sends than the two loops multiply to.
ExhaustedAfterEveryKey ==
  \A c \in Calls :
    pc[c] = "exhausted" =>
      /\ sends[c] <= Len(own[c]) * (MaxRetries + 1)
      /\ Len(tried[c]) = Len(own[c])
      /\ tried[c][1] = preferred[c]
      /\ \A k \in AllKeys :
           Has(c, k) => \E i \in DOMAIN tried[c] : tried[c][i] = k

\* The calls past the choice of their key, the key each of them sends with,
\* and the mapping all agree.
SettledOn(k) ==
  /\ mapping = k
  /\ \A c \in Calls :
       /\ pc[c] \in {"send", "remember"} => KeyAt(c) = k
       /\ pc[c] \notin {"invalidate", "pick", "store"}

KeyFails(c) == KeyUnusable(c) \/ Rejected(c) \/ ServerError(c)

\* A client key that has settled on a target key leaves it only for a cause:
\* a failure of the key, a mapping that expired or could not be read, or a
\* call to a provider that does not have the key.
StickyUntilCause ==
  [][\A k \in AllKeys :
       SettledOn(k) /\ ~SettledOn(k)' =>
         \/ MappingExpires
         \/ \E c \in Calls : KeyFails(c) \/ LookupFails(c)
         \/ \E c \in Calls : Lookup(c) /\ ~Has(c, k)]_vars

\* A key that is retired for good is no longer used after a while: neither a
\* mapping to it nor a call that stores one late brings it back.
RetiredKeyAbandoned ==
  \A k \in AllKeys :
    <>[](k \notin active) =>
      <>[](\A c \in Calls : pc[c] = "send" => KeyAt(c) # k)

=============================================================================
