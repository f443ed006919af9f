---------------------------- MODULE ProxyRequest ----------------------------
(***************************************************************************)
(* The life of a client request after its authentication (proxy_handler),  *)
(* with what it leaves behind: the row of requests_log, the charge on its  *)
(* key and the row of the inspector.  Composed with Pricing, whose engine  *)
(* it is billed by.                                                        *)
(*                                                                         *)
(* Every await is a step of its own, where the timeout, the client's       *)
(* disconnection or the end of the process can cut the request off.        *)
(* Middleware, KeyGovernance, TargetPool and TargetKeys model what happens *)
(* inside the steps of those names.                                        *)
(***************************************************************************)
EXTENDS Pricing

CONSTANTS
  Requests,     \* client requests, each made once (the bound)
  CaptureLevel, \* "none" or "metadata_only"
  MaxRestarts   \* bound on restarts of the process

ASSUME RequestAssumption ==
  /\ CaptureLevel \in {"none", "metadata_only"}
  /\ MaxRestarts \in Nat

VARIABLES
  rpc,       \* where each request is
  targets,   \* provider names of the targets not given up
  reply,     \* kind of the upstream response
  quote,     \* the price loaded by record_usage_async
  status,    \* what the client was answered
  log,       \* rows of requests_log, in order
  charged,   \* the increments of key_spend, one function of requests
  captured,  \* the inspector: what became of the row of each request
  restarts,  \* restarts so far
  called,    \* history: the names of the targets called, in order
  faults     \* history: the steps of the billing that failed

requests == <<rpc, targets, reply, quote, status, log, charged, captured,
              called, faults>>
vars == <<pricingVars, requests, restarts>>

Waiting == {"preGovernance", "governance", "preUpstream", "calling", "reading",
            "reporting", "inserting", "charging"}

Refusals == {"bad_request", "blocked", "rejected", "provider_error"}
NotCharged == <<>>

Init ==
  /\ PricingInit
  /\ rpc = [r \in Requests |-> "idle"]
  /\ targets = [r \in Requests |-> <<>>]
  /\ reply = [r \in Requests |-> "none"]
  /\ quote = [r \in Requests |-> Unpriced]
  /\ status = [r \in Requests |-> "none"]
  /\ log = <<>>
  /\ charged = [r \in Requests |-> NotCharged]
  /\ captured = [r \in Requests |-> "no"]
  /\ restarts = 0
  /\ called = [r \in Requests |-> <<>>]
  /\ faults = [r \in Requests |-> {}]

-----------------------------------------------------------------------------
(***************************************************************************)
(* Paths and usage                                                         *)
(***************************************************************************)

Paths == {"/v1/chat/completions", "/v1/chat/completions/stream",
          "/v1/messages", "/v1/embeddings"}

NormalizeUpstreamPath(path) ==
  CASE path \in {"/v1/chat/completions", "/v1/chat/completions/stream"} ->
         "/chat/completions"
    [] path = "/v1/messages" -> "/messages"
    [] path = "/v1/embeddings" -> "/embeddings"

IsStreamingRequest(path, stream) ==
  \/ path = "/v1/chat/completions/stream"
  \/ path = "/v1/chat/completions" /\ stream

\* proxy_handler asks is_streaming_request about the normalized path: no
\* request takes the branch that streams, so that branch is left out.
ASSUME NoRequestStreams ==
  \A path \in Paths, stream \in BOOLEAN :
    ~IsStreamingRequest(NormalizeUpstreamPath(path), stream)

\* What an upstream sends to a body that asks for a stream, or does not: a
\* stream of events with usage in its last chunk, a JSON document with usage,
\* or one without (an error that is not retried).
Replies(stream) == IF stream THEN {"events", "plain"} ELSE {"usage", "plain"}

\* parse_usage_from_response reads a JSON document.  One unit stands for the
\* tokens of a response.
Tokens(kind) == IF kind = "usage" THEN 1 ELSE 0

\* What the client has to pay for, whether the gateway finds it or not; a
\* stream says so when the client asked for its usage.
TokensUsed(kind) == IF kind \in {"usage", "events"} THEN 1 ELSE 0

-----------------------------------------------------------------------------
(***************************************************************************)
(* The end of a request                                                    *)
(***************************************************************************)

\* The response leaves the handler: the inspector layer spawns its capture.
Answer(r, s) ==
  /\ rpc' = [rpc EXCEPT ![r] = "answered"]
  /\ status' = [status EXCEPT ![r] = s]
  /\ captured' = [captured EXCEPT ![r] =
                    IF CaptureLevel = "none" THEN @ ELSE "spawned"]

FaultyDrop(r) ==
  /\ rpc[r] \in Waiting
  /\ rpc' = [rpc EXCEPT ![r] = "dropped"]
  /\ captured' = [captured EXCEPT ![r] =
                    IF CaptureLevel = "none" THEN @ ELSE "spawned"]
  /\ UNCHANGED <<pricingVars, restarts, targets, reply, quote, status, log,
                 charged, called, faults>>

\* The timeout layer, outside the inspector, drops the request at an await;
\* so does the server when the client disconnects.
Drop(r) ==
  /\ rpc[r] \in Waiting
  /\ rpc' = [rpc EXCEPT ![r] = "dropped"]
  /\ UNCHANGED <<pricingVars, restarts, targets, reply, quote, status, log,
                 charged, captured, called, faults>>

\* ClickHouseInspector::capture: errors are only logged.
StoreCapture(r) ==
  /\ captured[r] = "spawned"
  /\ \E outcome \in {"stored", "lost"} :
       captured' = [captured EXCEPT ![r] = outcome]
  /\ UNCHANGED <<pricingVars, restarts, rpc, targets, reply, quote, status,
                 log, charged, called, faults>>

\* Whatever lives in memory is gone.
Restart ==
  /\ restarts < MaxRestarts
  /\ restarts' = restarts + 1
  /\ PricingRestart
  /\ rpc' = [r \in Requests |-> IF rpc[r] \in Waiting THEN "dropped" ELSE rpc[r]]
  /\ captured' = [r \in Requests |-> IF captured[r] = "spawned" THEN "lost"
                                     ELSE captured[r]]
  /\ UNCHANGED <<targets, reply, quote, status, log, charged, called, faults>>

-----------------------------------------------------------------------------
(***************************************************************************)
(* proxy_handler                                                           *)
(***************************************************************************)

billing == <<reply, quote, log, charged, called, faults>>

\* The body is read and parsed.
Receive(r) ==
  /\ rpc[r] = "idle"
  /\ \/ Answer(r, "bad_request")
     \/ /\ rpc' = [rpc EXCEPT ![r] = "preGovernance"]
        /\ UNCHANGED <<status, captured>>
  /\ UNCHANGED <<pricingVars, restarts, targets, billing>>

Routes == {<<n>> : n \in Names} \cup {t \in Names \X Names : t[1] # t[2]}
Named(n) == \E p \in Providers : name[p] = n

\* The scripts of request.pre_governance, which may change the model; then the
\* model is extracted and resolved, without an await in between.
PreGovernance(r) ==
  /\ rpc[r] = "preGovernance"
  /\ \/ /\ \E s \in {"blocked", "bad_request"} : Answer(r, s)
        /\ UNCHANGED targets
     \/ /\ \E t \in Routes :
             /\ \A i \in DOMAIN t : Named(t[i])
             /\ targets' = [targets EXCEPT ![r] = t]
        /\ rpc' = [rpc EXCEPT ![r] = "governance"]
        /\ UNCHANGED <<status, captured>>
  /\ UNCHANGED <<pricingVars, restarts, billing>>

\* run_governance_pipeline, once per request.
Governance(r) ==
  /\ rpc[r] = "governance"
  /\ \/ Answer(r, "rejected")
     \/ /\ rpc' = [rpc EXCEPT ![r] = "preUpstream"]
        /\ UNCHANGED <<status, captured>>
  /\ UNCHANGED <<pricingVars, restarts, targets, billing>>

\* The scripts of request.pre_upstream decide the body that is sent; whether
\* it asks for a stream shows in the reply.
PreUpstream(r) ==
  /\ rpc[r] = "preUpstream"
  /\ \/ Answer(r, "blocked")
     \/ /\ rpc' = [rpc EXCEPT ![r] = "calling"]
        /\ UNCHANGED <<status, captured>>
  /\ UNCHANGED <<pricingVars, restarts, targets, billing>>

\* try_target_pool on the next target.
CallTarget(r) ==
  /\ rpc[r] = "calling"
  /\ called' = [called EXCEPT ![r] = Append(@, Head(targets[r]))]
  /\ \/ /\ \E stream \in BOOLEAN :
             \E kind \in Replies(stream) : reply' = [reply EXCEPT ![r] = kind]
        /\ rpc' = [rpc EXCEPT ![r] = "reading"]
        /\ UNCHANGED <<targets, status, captured>>
     \/ /\ Len(targets[r]) > 1
        /\ targets' = [targets EXCEPT ![r] = Tail(@)]
        /\ UNCHANGED <<reply, rpc, status, captured>>
     \/ /\ Len(targets[r]) = 1
        /\ Answer(r, "provider_error")
        /\ UNCHANGED <<reply, targets>>
  /\ UNCHANGED <<pricingVars, restarts, quote, log, charged, faults>>

\* The whole body is read before anything else.  One that breaks ends the
\* request: no other target is tried, and the breaker is told nothing.
ReadBody(r) ==
  /\ rpc[r] = "reading"
  /\ \/ Answer(r, "provider_error")
     \/ /\ rpc' = [rpc EXCEPT ![r] = "reporting"]
        /\ UNCHANGED <<status, captured>>
  /\ UNCHANGED <<pricingVars, restarts, targets, billing>>

-----------------------------------------------------------------------------
(***************************************************************************)
(* record_usage                                                            *)
(***************************************************************************)

Server(r) == Head(targets[r])

\* After record_success the engine is loaded once, for the cost and the
\* markup, and the tags of the key are asked for (errors count as none).
LoadQuote(r) ==
  /\ rpc[r] = "reporting"
  /\ quote' = [quote EXCEPT ![r] = engine[Server(r)]]
  /\ rpc' = [rpc EXCEPT ![r] = "inserting"]
  /\ UNCHANGED <<pricingVars, restarts, targets, reply, status, log, charged,
                 captured, called, faults>>

\* calculate_cost, for the provider and, in hundredths, with the markup.
ProviderCost(x, tokens) == x.cost * tokens
TotalCost(x, tokens) == ProviderCost(x, tokens) * (100 + x.markup)

\* BillingRecord::with_error, as far as it can fail.
Acceptable(x) == x.cost >= 0 /\ x.markup >= 0

BillingRecord(r, server) ==
  [request |-> r, provider |-> server,
   cost |-> ProviderCost(quote[r], Tokens(reply[r])),
   total |-> TotalCost(quote[r], Tokens(reply[r]))]

FaultyRecordRequest(r) ==
  /\ rpc[r] = "inserting"
  /\ log' = Append(log, BillingRecord(r, called[r][1]))
  /\ UNCHANGED faults
  /\ rpc' = [rpc EXCEPT ![r] = "charging"]
  /\ UNCHANGED <<pricingVars, restarts, targets, reply, quote, status,
                 charged, captured, called>>

\* The row of requests_log.  A failed insert is ignored.
RecordRequest(r) ==
  /\ rpc[r] = "inserting"
  /\ \/ /\ Acceptable(quote[r])
        /\ log' = Append(log, BillingRecord(r, Server(r)))
        /\ UNCHANGED faults
     \/ /\ faults' = [faults EXCEPT ![r] =
                        IF Acceptable(quote[r]) THEN @ \cup {"log"} ELSE @]
        /\ UNCHANGED log
  /\ rpc' = [rpc EXCEPT ![r] = "charging"]
  /\ UNCHANGED <<pricingVars, restarts, targets, reply, quote, status,
                 charged, captured, called>>

FaultyRecordSpend(r) ==
  /\ rpc[r] = "charging"
  /\ charged' = [charged EXCEPT ![r] =
                   Append(@, ProviderCost(engine[Server(r)], Tokens(reply[r])))]
  /\ UNCHANGED faults
  /\ Answer(r, "upstream")
  /\ UNCHANGED <<pricingVars, restarts, targets, reply, quote, log, called>>

\* The charge, without the markup.  A failed one is ignored too; either way
\* the response goes to the client.
RecordSpend(r) ==
  /\ rpc[r] = "charging"
  /\ \/ /\ charged' = [charged EXCEPT ![r] =
                         Append(@, ProviderCost(quote[r], Tokens(reply[r])))]
        /\ UNCHANGED faults
     \/ /\ faults' = [faults EXCEPT ![r] = @ \cup {"charge"}]
        /\ UNCHANGED charged
  /\ Answer(r, "upstream")
  /\ UNCHANGED <<pricingVars, restarts, targets, reply, quote, log, called>>

-----------------------------------------------------------------------------
Advance(r) ==
  \/ Receive(r) \/ PreGovernance(r) \/ Governance(r) \/ PreUpstream(r)
  \/ CallTarget(r) \/ ReadBody(r) \/ LoadQuote(r) \/ RecordRequest(r)
  \/ RecordSpend(r)

Next ==
  \/ \E r \in Requests : Advance(r) \/ Drop(r) \/ StoreCapture(r)
  \/ PricingNext /\ UNCHANGED <<requests, restarts>>
  \/ Restart

Spec == Init /\ [][Next]_vars

-----------------------------------------------------------------------------
(***************************************************************************)
(* Properties                                                              *)
(***************************************************************************)

\* Every variable has its type; the rows of prices keep the keys of their
\* table, and nothing is waiting for a target it does not have.
TypeOK ==
  /\ PricingTypeOK
  /\ rpc \in [Requests -> Waiting \cup {"idle", "answered", "dropped"}]
  /\ status \in [Requests -> Refusals \cup {"none", "upstream"}]
  /\ quote \in [Requests -> Prices \cup {Unpriced} \cup {Seed[n] : n \in Names}]
  /\ captured \in [Requests -> {"no", "spawned", "stored", "lost"}]
  /\ restarts \in 0 .. MaxRestarts
  /\ \A r \in Requests :
       rpc[r] \in {"governance", "preUpstream", "calling", "reading",
                   "reporting", "inserting", "charging"} => targets[r] # <<>>

\* Where the rows of r are in the log.
Rows(r) == {i \in DOMAIN log : log[i].request = r}

\* A request is billed, and its key charged, at most once and in the name of
\* the target that answered it; one that was refused, blocked, cut off before
\* the whole answer was there, or failed at every target, never.
BilledForTheAnswer ==
  \A r \in Requests :
    /\ \A i, j \in Rows(r) : i = j
    /\ \A i \in Rows(r) : log[i].provider = called[r][Len(called[r])]
    /\ Len(charged[r]) <= 1
    /\ Rows(r) # {} \/ charged[r] # NotCharged =>
         /\ status[r] \notin Refusals
         /\ rpc[r] \in {"charging", "answered", "dropped"}

\* When the client has its answer, the log and the budget of the key say the
\* same of it, unless one of the two stores failed: whatever happens to prices
\* meanwhile, the row and the charge come from one price, one that every
\* check between the administrator and the log accepts.
LogAgreesWithCharge ==
  \A r \in Requests :
    status[r] = "upstream" =>
      /\ Rows(r) = {} <=> "log" \in faults[r]
      /\ charged[r] = NotCharged <=> "charge" \in faults[r]
      /\ faults[r] = {} =>
           \A i \in Rows(r) : /\ log[i].cost = charged[r][1]
                             /\ log[i].total >= 100 * charged[r][1]

\* The inspector sees the requests that were answered and only those, the
\* refused and the blocked ones included; the ones that time out never.
CapturedIffAnswered ==
  CaptureLevel # "none" =>
    \A r \in Requests : captured[r] # "no" <=> rpc[r] = "answered"

\* While no pricing command is under way the engine holds what the table
\* holds, and the prices of the code for the rest, except for a cause: a
\* restart, since the table is not read at the start; a provider deleted with
\* its row; a command cut off, or overtaken by another one, before its store.
EngineDiffersOnlyForCause ==
  (causes = {} /\ \A c \in Commands : pc[c] \in {"idle", "insert", "done"}) =>
    engine = Engine(table)

-----------------------------------------------------------------------------
(***************************************************************************)
(* What documents say of the program, and the code does not                *)
(***************************************************************************)

\* README.md: "Streaming via SSE with usage capture".  A streamed response of
\* a provider with a price is charged for.
StreamedUsageCharged ==
  \A r \in Requests :
    (status[r] = "upstream" /\ faults[r] = {}) =>
      charged[r][1] = ProviderCost(quote[r], TokensUsed(reply[r]))

=============================================================================
