# Zorch in TLA+

Zorch is an LLM gateway in Rust: clients send OpenAI-style requests with a
client key, the gateway authenticates and governs them, rewrites them, sends
them to one of several upstream providers, and bills the answer.  This
directory holds TLA+ models of the parts of it where order, concurrency and
failure decide what happens, the TLC configurations that check them, and TLAPS
proofs of the properties that matter most.  Paths below are relative to the
repository root (`src/` in `PROJECT.json`); `G`, `A`, `P`, `C` abbreviate the
`src` directories of the crates `zorch-gateway`, `zorch-api`,
`zorch-providers` and `zorch-cache`.

    tlc -workers 2 -config MCTargetPool.cfg MCTargetPool    # a run
    tlapm UpstreamProofs.tla                                # a proof

## 1. Inventory

Everything runs in one or more gateway processes on a Tokio runtime: a request
is a task, and every `.await` is a point where other tasks run or where the
task is dropped (by the timeout layer, or because its client went away).  State
is in process memory (breaker, provider state, pricing), in Redis (limits,
spend, sticky keys, model cache), in Postgres (configuration, billing) and in
ClickHouse (captures).

| Component | State | Operations | Hard part | What makes it correct |
|---|---|---|---|---|
| **Circuit breaker** `G/circuit_breaker.rs` | one circuit per backend behind one mutex: state, failures, successes, time of last failure | record success / failure, ask for health | reports arrive in any order, also about calls older than the circuit's state | state changes are earned; an open circuit recovers |
| **Upstream selection** `A/routes/v1/proxy/mod.rs`, `P/model_resolver.rs`, `P/registry.rs`, `P/selector.rs` | per request: remaining targets, attempts, health answers | resolve, ask, select, call, report, give up | health answers are stale when used; nested retry loops; drops | every attempt is used before giving up, by priority; open backends are avoided; recovered ones return |
| **Sticky target key** `C/sticky_target_key_cache.rs` | Redis: mapping and round-robin counter per client key and provider name | get, invalidate, next index, set | several round trips by several requests; errors are ignored | a client stays on its key without cause to leave it; a retired key is abandoned |
| **Upstream call** `P/proxy.rs`, `P/http_client.rs` | the loop indices of one call | try a key, retry it, fail over | two nested loops, the outer wrapping around | no key missed or tried twice; bounded sends |
| **Sliding-window limits** `G/rate_limit.rs`, `G/key_limits.rs` | Redis sorted set per key and window, with a TTL | trim, count, add, expire | four commands, not one transaction; TTL against window; drops between commands | at most the limit plus the racing requests; nothing forgotten; nobody refused without cause |
| **Key governance and spend** `A/middleware/auth.rs`, `G/pipeline.rs`, `G/governance.rs`, `G/key_limits.rs` | the key's row; the Redis spend counter | authenticate, check twice, charge | check and charge are far apart; the row changes in between; TTL of the counter | overshoot is bounded; both readings obeyed; exhausted keys recover; revoked ones drain |
| **Provider state and reload** `A/server/providers.rs`, `A/routes/admin/*` | five Postgres tables; registry and resolver pointers | statement, load (four queries), store, store; sync of a provider's models | concurrent reloads; torn loads; a request reads the pointers separately | no change is forgotten; an undisturbed load routes as the tables say |
| **Pricing** `A/routes/admin/pricing.rs`, `G/pricing.rs` | the table of prices; the engine in memory, by provider *name* | set, delete, reload; provider changes | overlapping reloads, renames, restarts | the engine follows the table but for known causes |
| **Proxy handler, usage, billing** `A/routes/v1/proxy/*`, `G/billing.rs` | requests_log, key_spend | the whole handler, row, charge | row, charge and answer are separate steps; drops | billed once, for the answer that was given, by one price |
| **Inspector** `A/middleware/inspector.rs`, `zorch-inspector` | ClickHouse rows | capture, write | requests dropped in flight | exactly the answered requests are captured |
| **Middleware engine** `G/middleware/*`, `A/routes/admin/middleware.rs` | configurations, bindings, audit rows | run the chain of a phase; edit it | scripts fail, panic, are edited under a request | nothing goes upstream past a script that stood; the audit tells the fate |
| **Access windows, key admin** `G/access_window.rs`, `A/routes/admin/api_keys.rs`, `apps/admin` | hours and zone of a key; the open edit page | create, patch, edit, check | windows over midnight; partial updates; stale pages | a stored window is sound and means what was set |
| Request rewriting, dashboard, analytics, configuration, crypto, telemetry | none, or read-only | conversions, queries | none of the above | - |

How they interact.  `proxy_handler` runs, in this order: authentication and
rate limit (layers), pre-governance middleware, resolver lookup, governance
(windows, budget, row, ratio), pre-upstream middleware, then for each target
`try_target_pool` (registry snapshot, breaker, selector, sticky key, upstream
call, report to the breaker), reading of the body, report of success, usage
record (bill, charge).  Administrators change rows meanwhile; provider changes
end in a reload that replaces registry and resolver under running requests.

`PROJECT.json` lists under `hazards`, line by line, what of this a test would
hardly reach; the properties below are aimed at that list.

## 2. Modules

| Module | Models | Composes |
|---|---|---|
| `BackendCircuit` | one circuit: the record and what each method makes of it (no behaviour) | |
| `CircuitBreaker` | the breaker under every order of calls | `BackendCircuit`; implements `BreakerContract` |
| `BreakerContract` | abstract: blocked only by a failure, readmitted only after a quiet timeout | |
| `TargetPool`, `MCTargetPool` | target loop and `try_target_pool` of concurrent requests | `BackendCircuit` (the shared breaker) |
| `TargetKeys`, `MCTargetKeys` | sticky mapping, key failover, HTTP retries; one attempt of `TargetPool` in detail | |
| `SlidingWindow`, `MCSlidingWindow` | the limiter, one action per Redis command | |
| `KeyGovernance`, `MCKeyGovernance` | authentication, governance pipeline, spend counter, the row's administrator | (the windows' verdict is nondeterministic here) |
| `ProviderState`, `MCProviderState` | the tables of providers and models, the admin handlers, the reload, the two pointers | |
| `Pricing` | the table of prices, its commands and reloads, the engine | |
| `ProxyRequest`, `MCProxyRequest` | `proxy_handler` from body to response, billing, charge, capture | `Pricing` |
| `Middleware`, `MCMiddleware` | both phases of scripts of a request, the audit, the administrators | |
| `KeyAdmin`, `MCKeyAdmin` | access windows: commands, edit page, check | |
| `UpstreamProofs` | proofs about `CircuitBreaker` and about `TargetKeys`, whose definitions bear different names so that one module can extend both | |
| `TargetPoolProofs`, `SlidingWindowProofs`, `KeyGovernanceProofs`, `ProviderStateProofs`, `ProxyRequestProofs`, `MiddlewareProofs`, `KeyAdminProofs` | proofs about the modules of those names | |

**CircuitBreaker.**  `circuits[b]` is the entry of the `HashMap`; every method
holds the mutex throughout, so it is one action (`RecordSuccess`,
`RecordFailure`, `IsBackendHealthy`).  The code stores an `Instant` and looks
only at the time elapsed since; the model stores that time and stops counting
at `Timeout`, where no comparison changes any more, so the state space is finite
without a bound on time.  `or_insert_with` creates a circuit when first named;
the model has them from the start, which no method can tell apart.  `failRun`
and `okRun` are history: what a reader of the code believes the counters count.

**TargetPool.**  `pc` of a request: `targeting` (head of the `for` over
targets), `asking` (`join_all` over the candidates, one `CheckHealth` per
critical section, in any order), `calling` (inside `proxy_request`), `reading`
(headers arrived, body awaited), `idle` / `exhausted`.  `CallFails` is
`record_failure` with the `continue` or `return` after it.  `is_backend_healthy`
reads the clock twice, once to move the circuit and once to answer; `Answers`
has the answer of a timeout that passes in between.  `Drop` is the timeout layer
or a disconnected client; nothing is reported then.  `outdated` is history: the
backends whose answer no longer describes their circuit, because it was open
before the healthy answer came or opened after it.

**TargetKeys.**  `mapping` and `counter` are the two Redis keys.  The counter
only matters modulo the number of keys, so it is kept modulo `CounterCycle`, a
common multiple of all of them (an assumption of the module).  Each Redis
command may fail or have its answer lost, and the code goes on (`let _ =`,
`unwrap_or(0)`).  `own` is the key list of the registry snapshot; the rows a reload keeps are
a set with one list (`KeysIn`), which a step picks.  A request
that makes several attempts uses one snapshot for all of them; a later attempt
is a call slot that began with the first and waits.

**SlidingWindow.**  `Trim`, `Count`, `Add`, `Expire` are the four commands;
`clock` is one clock for gateways and Redis.  `Drop` between `Add` and `Expire`
leaves a member without a fresh TTL (`stranded`).  Deletion of an empty sorted
set by Redis, and of its TTL, is modelled.

**KeyGovernance.**  A request's steps are the awaits of `RequestPipeline::execute`
and what precedes and follows it: `windows`, `budget` (`check_limits`), `row`
and `ratio` (`GovernanceEngine::check_request`), `calling`, `charging`
(`INCRBYFLOAT`), `touching` (`EXPIRE`).  `snap` is the row that authentication
read, `gov` the one the engine read.  `blind` records a request that was let
through without its spend seen, `stranded` a counter left without TTL.  The
administrator sends any budget of `SentBudgets`; the handlers of
`A/routes/admin/api_keys.rs` refuse the negative ones and those above
`MaxBudget`.

**ProviderState.**  A row of the five tables is absent, active or inactive.
`past` is the sequence of all versions of the tables, the current one last, so
that a load can be compared with the version it began with.  Each admin handler
is one statement (`CreateProvider` ... `DeleteModelTarget`, with the cascades of
the foreign keys; `SyncInsert` one by one) and then the reload: `QueryProviders`,
`QueryKeys`, `QueryTargetModels`, `QueryAliases`, `StoreRegistry`,
`StoreResolver`.  `Abort` is a failed query or a dropped handler.  A request
takes the resolver once (`ResolveModel`) and the registry at every target
(`TryTarget`), as `proxy_handler` does.  `ExtractModels` and `NormalizeModels`
are the parsing of an upstream's list of models, on a body of which only the
shape is kept.

**Pricing and ProxyRequest.**  A pricing command looks its provider up, inserts
or deletes, queries the table and stores a new engine, one action each;
`causes` and `overtaken` are history, and record why the engine may differ from
the table.  A request moves through the awaits of `proxy_handler`:
`preGovernance`, `governance`, `preUpstream`, `calling`, `reading`, `reporting`
(the price is loaded), `inserting` (row of `requests_log`), `charging`, and
`answered` or `dropped`.  `Restart` loses what is in memory.  A unit stands for
the tokens of a response, totals are in hundredths.

**Middleware.**  `chain[r]` is what `load_phase_configs` returned, `ExecuteScript`
leaves what the script returned in `result`, `FinishScript` writes the audit row
and acts on the result, `FinishPhase` merges the headers.  `ran`, `touched` and
`silent` are history: which scripts ran and which of these runs changed the body,
which scripts were edited during the request, and which requests left no row
where the engine only warns.

**KeyAdmin.**  `row` is the key's row as far as windows go; `form` the edit page
of the dashboard, which follows nothing once it is open; a request reads the row
(`FetchKey`) and then the clock (`AccessWindowCheck`).  A conversion to a byte is
`% Byte`.  `partial` is history: a part of the window was updated without the
rest.

### Seeded faults

Operators whose names start with `Faulty` are not part of any specification.
Each is the definition after it with a slip that this code invites: a dropped
guard, an off-by-one, a missing reset.  Put in the place of the real
definition, it makes TLC find the property that `PROJECT.json` pairs it with
violated: the property is about the code, not about the shape of the model.

## 3. Runs

| Run | Bounds | Shows |
|---|---|---|
| `circuit_breaker` | 2 backends, threshold 3, timeout 2, 2 probes | transitions, recovery, refinement of the contract |
| `target_pool` | 2 requests, 3 targets (one without backends, two sharing one of 2 backends), threshold 1, timeout 1, 2 probes | attempts, priorities and stale health answers under every interleaving; requests only move forward, and end; a recovered backend's circuit closes for good |
| `target_keys` | 2 calls, 2 providers of one name with 2 and 1 keys, 1 retry | key failover, bounded sends, stickiness, retirement of keys |
| `sliding_window` | 4 requests, 2 in flight, limit 2, window 3, clock to 8 | the races and TTLs of the limiter |
| `key_governance` | 2 requests, budgets -1, 2 and 4 sent of which at most 3 pass, cost 1, TTL 1 tick | overshoot, both readings, recovery, draining |
| `provider_state` | 2 admin commands of any kind, 1 request, 2 providers, 2 names, 1 model | torn and overlapping loads, what a request makes of the two pointers |
| `proxy_request` | 1 request, 2 providers, 2 pricing commands, 1 provider change, 1 restart | billing once and by one price, capture, engine against table |
| `middleware_engine` | 1 request, 2 scripts, 2 edits | the chain under edits, its failure modes, the audit |
| `key_admin` | days of 3 hours, bytes modulo 5, 2 zones and 2 texts that are none, 3 commands, 1 request | windows around midnight, partial updates, the edit page |
| `daily_limit_forgotten`, `memory_consistent`, `streamed_usage` | as the runs of those modules, the first without races | what a document says and the code does not do (section 6) |

Why these bounds are enough.  Breaker: backends do not influence each other, so
two already include every pair of interleavings; threshold 3 tells "the first
failure", "one in the middle" and "the last" apart, and 2 probes tell the last
from the others.  Pool: two requests over two shared backends contain each race
the code has (a report between another's answer and its use; two probes at
once; a target reached by fallback and another by preference), and the targets
after the first give both loops a next element.  Keys: three keys over two providers
have a mapping that one provider knows and the other does not, a wrap-around, and
a retired key; two calls suffice for a write after another's read.  Limiter:
four requests with limit 2 are the limit, one racing beyond it, and one after;
the clock runs for more than two windows.
Governance: a budget of two costs lets one request pass normally, one fill the
budget and one overshoot; each reading of the row can precede or follow each
edit.  Provider state: a reload can be overtaken by one other, and a load be torn
by one change; the starting tables have a provider that is routed to without a key
and one with a key that is not routed to, so a single command makes or breaks a
route; two names let one be renamed.  Prices: two commands overlap, a price is in
the code, one is set and one refused; each command, change and restart can fall
between any two steps of the request.  Middleware: two scripts are in an order or
in different phases, and two edits swap them, or delete and create.  Windows:
three hours have arcs that wrap and others that do not, the offset crosses the
day, and 5 is a number that wraps to a valid hour.  Most of these properties are
also proved, for all values (section 4).

Bounds that are not parameters of the code: `MaxTime` (clock of the limiter),
`SpendCap` (the spend saturates above every budget plus overshoot),
`CounterCycle` (above), saturation of the breaker's clock and histories,
`MaxChanges`, `MaxRestarts`, `MaxEdits`, and the sets of admin handlers, commands
and requests, each of which runs once.  Where these let everything come to an end
the run says `CHECK_DEADLOCK FALSE`.

Fairness.  `CircuitBreaker`: time passes, and clients keep asking about every
backend (`QuietBackendReadmitted` says nothing of a backend nobody asks about).
`TargetPool` and `TargetKeys`: the runtime polls a task that can go on, and the
HTTP client bounds each send, so each step of a started request is weakly fair;
no outcome is favoured, and neither `Drop` nor a client's next request is fair.
`KeyGovernance`: a request's next step or its drop is fair, as are the clock
and Redis' expiry; the administrator and clients are not.
`RecoveredBackendCloses` assumes that the backend keeps being called and no
longer fails, in the formula itself.

## 4. Proofs

All theorems hold for every value of the constants that the modules' named
assumptions allow: any number of requests, handlers, backends, any limits.

`UpstreamProofs`, on the breaker: the type invariant, `OpenCanRecover`,
`ClosedCountsTheRun`, `HalfOpenCountsOnlyCleanSuccesses`,
`TransitionsAreEarned`, and that every step is a step of `BreakerContract` or a
stutter.  The inductive invariant `IInv` is the conjunction of these invariants:
none is inductive alone (that a circuit which opens has a last failure needs
the type of its counters; that a closed one counts the run needs to know what a
half-open one counts when it closes).  `SuccessCases` and `FailureCases` first
say what the two methods return as whole records, so that the steps about
actions never reason about `EXCEPT`.
`OpenCanRecover`, `ClosedCountsTheRun`, `HalfOpenCountsOnlyCleanSuccesses` and
the limiter's `CountBounded` are proved and not listed in a run: they are steps
on the way.  A closed circuit that counts more than its run, for one, would open
before its threshold, which `TransitionsAreEarned` forbids.

`UpstreamProofs`, on the keys: types, `ExhaustedAfterEveryKey` and
`StickyUntilCause`.  `KeysInv` says of each call
that the preferred key is one of its provider's from the choice on (`Chosen`),
that outside of the two loops their counters are back at zero (`Reset`), that the
keys given up are those of the turns so far, from the preferred one around the
ring (`TurnsTaken`), and that the sends are bounded by the two counters
(`SendsBounded`).  `RingReaches`, arithmetic modulo the number of keys, then makes
as many turns as there are keys reach each of them.  For `StickyUntilCause` a
lookup that finds the mapping starts its loop at it, as `Reset` has the offset
at 0 and `FirstTurn` the first key; all other steps without a cause leave the
call's key alone (`KeptWith`).

`TargetPoolProofs`: types, `ExhaustedOnlyAfterAllAttempts`,
`HigherPriorityFirst`, `RequestsMoveForward` and
`OpenBackendCalledOnlyForCause`.  The invariant of a request says that its remaining targets are a sorted rest of the resolved ones
(`Sorted`, `Current`), that every target is in that rest or given up
(`Covered`), that those after the current one had no call yet (`Fresh`), and
that the failed calls of the current one are its `attempts` (`Counted`).  Only
with all five does the end of the rest mean that each target had its attempts.
`RequestsMoveForward` is the part of `RequestEnds` that needs no fairness: each
step of a request gives up a target, begins one more of the attempts that
`Counted` bounds by the candidates, or gets further in the present one, and the
steps of the others leave it where it is, whatever they do to the circuits.
The last property is about answers that grow old: `Accounted` says of every
backend that answered healthy that its circuit is not open, or is in
`outdated`.  It holds because only a reported failure opens a circuit
(`OnlyFailureOpens`), and the step that reports one puts the backend into
`outdated` for every request that is still asking.

`SlidingWindowProofs`: for every number of requests, limit, window and
concurrency.  First `CountInv`: members plus requests about to add themselves
are bounded because whoever saw room shares the moment with at most
`MaxInFlight - 1` others (`InFlightBounded`), and no request outlives its timeout
(`OnTime`).  Then, under two hypotheses that the theorems state, `TtlInv`:
every admitted request that is still recent is a member, and the TTL reaches
beyond it.  `NothingForgotten` and `AdmissionsBounded` follow from it.
`RefusedOnlyWhenFull` needs the first hypothesis and `SeesOnlyItsWindow` only.
The hypotheses:

- `RequestTimeout < Window`: true of the daily windows, and of those of a
  minute when `ZORCH_TIMEOUT_SECS` is below 60.  At its default of 60 the two
  are equal, and what the theorems leave open is a request whose last command
  runs in the very second of its timeout.
- `ExpiryOutlivesWindow`, the TTL is at least window plus request timeout:
  true of the rate limiter (window + 60), of a limit of 100 per minute (120)
  and of every limit other than 100 (86500), as long as the timeout is at most
  60 s; false of a daily limit of 100.  `daily_limit_forgotten` shows what happens without it.

`KeyGovernanceProofs`: types, `AdmittedByBothReadings` and `OvershootBounded`.
`ReadingInv` keeps what each of the two checks saw with the request that passed
it.  `OvershootInv` says that, unless a request was let through with its spend
unseen (`blind`), the spend, plus the highest cost for every request
that is past its check and has not charged yet, stays below the highest budget
plus the highest cost for every request; the bound follows, and needs the count
of the pending requests (`FS_AddElement`, `FS_RemoveElement`) in each step.

`ProviderStateProofs`: `EveryVersionWasStored`, `QuietLoadRoutesAsTables` and
`MissingBackendOnlyForCause`.  For the first, `StoredInv` gives every version an
owner, whose load, once begun, is at least as new as the versions it owns; a
pointer's newest load only grows, so when the owner stores, its versions are
settled, whoever stores after it.  For the others, `FaithfulInv` says of a
load, query by query, that what it has read is what the tables of its first
query hold *as long as they have not changed since*; both pointers and the
targets of a request inherit that.  Then routing by the two values is set
algebra over one version of the tables (`RoutedAsTables`).

`ProviderStateProofs` also has the types and foreign keys of the tables
(`TypeOK`).  The three properties above do not rest on them: they compare what
was loaded with what was stored, whatever that is.  `TypeInv` takes one lemma per statement; the deep ones are
the cascades of a delete (`DELETE` of a provider takes its keys, target models
and their routes along) and a model that is renamed onto another
(`ModelMoved`).  The lists a sync inserts from are those of the upstream,
normalised (`NormalizeModels`: without blanks, each name once, in order).

`ProxyRequestProofs`: for the engine, `EngineDiffersOnlyForCause` (a command
about to store has read the table as it is or was overtaken, and an engine that
lags without a cause has such a command); `CapturedIffAnswered`; and for the
bill `BilledForTheAnswer`, `LogAgreesWithCharge` and `TypeOK`.  These three need
`PriceInv` first (rows keep to what the database lets be sold and to one row
per provider name, so that no engine ever holds a price below nothing), then
`Ledger`, which follows a request from the answer on: its price is the one
quoted when it was reported, its row and its charge are both computed from it,
and one that is missing has a fault to its name.

`MiddlewareProofs`: types, `NothingSentPastAScript` and `AuditAgreesWithFate`.
`Covered` says that, of the scripts nobody touched while the request was served,
each that is bound to a phase whose scripts were loaded has run or is left in the
chain; `PassedAll` that a request which goes on passed all it ran; `Ordered` that
what ran and what is left are in the order of their priorities; `Written` that
the body is the one made by the last run that changed it and whose result was
applied, or the client's if there is none.  `Recorded` counts the audit rows of a
request against the scripts it ran, which takes the cardinality facts of finite
sets in the step that inserts a row.

`KeyAdminProofs`: types, for days of any number of hours and any byte;
`AdmittedOnTheArc`, from the lemma that the comparisons of the code, split at
midnight, are the arc (`BetweenIsArc`, arithmetic modulo the day);
`WindowSoundUnlessPartial`; and `UntouchedFormKeepsHours`, from the invariant that
an open page which is neither touched nor outdated still shows the row
(`ShowsTheRow`), so that what it saves is what it showed: the same hours on all
days, or, where the browser's zone was shown for a missing or an empty one, the
same hours in that zone.

Every invariant and every action property of the runs that are expected to pass
is proved, those of the limiter under the hypotheses above.  Only model-checked
are the liveness properties (`QuietBackendReadmitted`, `RequestEnds`,
`RecoveredBackendCloses`, `RetiredKeyAbandoned`, `ExhaustedKeyRecovers`,
`RevokedKeyDrains`): with the fairness they rest on they are, like `ENABLED`,
out of the prover's reach.  Three definitions are written so that the proofs can
reach them: a list that the code sorts or filters is the one member of a set
(`Sorted`, `KeysIn`, `NormalizeModels`), because the library's facts about
`SelectSeq`, sorting and the folds take an operator as a parameter and cannot be
used.

## 5. Plan

Done: the request path from authentication to the row that bills it; the
breaker, limiter, sticky keys, provider state, prices, scripts and windows it
shares; proofs of the safety properties above.  Left, in this order:

1. Proofs: the steps of the other liveness properties that need no fairness, as
   `RequestsMoveForward` is for `RequestEnds`, and abstract specifications
   of what the limiter and the budget promise, as `BreakerContract` is one of the
   breaker.
2. `ProxyRequest` with two requests and the governance of `KeyGovernance` inside
   it, so that the overshoot is stated of what was billed.
3. Several gateways: all modules have one process, with its own breaker,
   pointers and engine.  Nothing tells another process to reload, so what
   `ProviderState` and `Pricing` promise holds in the process of the handler only.

## 6. Where code and documents disagree

Checked (`PROJECT.json`, `findings`): a daily limit of 100 gets the TTL of a
minute's window; overlapping reloads leave the gateway with older tables than
Postgres has; and a streamed response is charged as if it had no tokens.

Noticed while modelling, without a run of their own:

- Breaker and failover.  When no candidate is healthy, open circuits are
  selected all the same (`zorch-shared/src/config.rs:26`;
  `A/routes/v1/proxy/mod.rs:204`).  `record_success` reaches open circuits, which
  a comment calls impossible (`G/circuit_breaker.rs:53`; harmless, see
  `RecoveredBackendCloses`).  Nothing limits the calls to a half-open backend
  (`config.rs:27` speaks of a small number).  A failover may pick the backend that
  just failed (`A/routes/v1/proxy/mod.rs:265` logs "another backend").  Backends
  that share a provider name undo each other's sticky mapping
  (`docs/provider-setup.md:101`).
- Limits and budgets are exceeded by racing requests (bounded, see
  `AdmissionsBounded` and `OvershootBounded`; README:56 says "hard").  The spend
  TTL restarts with each charge, "rolling" in README:63 but "daily reset" in
  `G/key_limits.rs:157`; a charge cut off between its two commands leaves a
  counter that never expires.  With the kill switch (README:256) the row's
  allow-list and budget still block (`G/governance.rs:72`).
- Key administration.  `null` in a patch means "left out", so the nulls of the
  edit page (`apps/admin/app/api-keys/[id]/edit/page.tsx:53`) clear nothing, and
  a window once set cannot be removed
  (`docs/plans/archived/per-key-governance-enforcement-2026-06-18.md:466` says it
  can).  The page stores the browser's zone for a window that had none
  or an empty one, which a patch of the zone alone stores unvalidated
  (`A/routes/admin/api_keys.rs:232`): a key that was refused at every hour is then
  let through at its hours.  A huge
  `expires_in_days` panics its handler.
- Middleware.  Scripts that cannot be queried, or one that panics, block the
  request whatever their failure mode (`docs/middleware.md:114`).  Runs whose row is
  refused, or whose config is gone, are not recorded (`docs/middleware.md:123`:
  "every").  The headers a script is given are always empty.
- Prices set in the table are only loaded by the admin handlers, not at start
  (README:553 says so), and a renamed provider loses its price.  The cost trends
  of the dashboard are computed with today's prices, its totals by tag from the
  log.  Captures carry no key, provider or model.

## 7. Not modelled

Request and response rewriting, URLs and headers are sequential conversions
without state.  The dashboard and analytics present data and change none; the
edit page of a key, which does, is in `KeyAdmin`.  Configuration, crypto, errors
and telemetry are helpers or I/O.  The endpoints that validate or try a script
keep nothing, nor do the two that list models.  The model cache in Redis is only
ever cleared.  The branch for streamed answers is not reached by the handler
(`NoRequestStreams` checks that).  Backoff delays, and the wording of errors, are
abstracted.
