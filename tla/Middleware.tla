----------------------------- MODULE Middleware -----------------------------
(***************************************************************************)
(* The middleware engine (zorch-gateway/middleware): scripts stored in     *)
(* Postgres and bound to API keys, run in two phases of a request, and the *)
(* administrators who change them meanwhile (routes/admin/middleware.rs).  *)
(*                                                                         *)
(* A phase loads the scripts of its key once, then runs each and writes an *)
(* audit row before it acts on the result.  The module has one API key;    *)
(* names, sources, limits and contexts are left out, a script may return   *)
(* whatever the runtime accepts, fail, or panic.  The order of scripts of  *)
(* one priority is by name and id: here the order of Configs.              *)
(***************************************************************************)
EXTENDS Integers, Sequences, FiniteSets

CONSTANTS
  Configs,     \* rows of middleware_configs: 1 .. n, in the order of names
  Priorities,  \* middleware_configs.priority
  Initial,     \* Initial[c]: the row when the model starts
  Requests,    \* client requests of the key, each made once (the bound)
  MaxEdits     \* bound on what administrators do

Phases == {"request.pre_governance", "request.pre_upstream"}
FailureModes == {"fail_open", "fail_closed"}

\* A deleted row keeps its last values, unused.
Row == [exists : BOOLEAN, bound : BOOLEAN, enabled : BOOLEAN, phase : Phases,
        priority : Priorities, failure_mode : FailureModes]

\* The tables refer to a config by foreign keys, so only a row that exists is
\* bound.
ASSUME MiddlewareAssumption ==
  /\ IsFiniteSet(Configs)
  /\ Configs = 1 .. Cardinality(Configs)
  /\ Priorities \subseteq Int
  /\ Initial \in [Configs -> Row]
  /\ \A c \in Configs : Initial[c].bound => Initial[c].exists
  /\ MaxEdits \in Nat

VARIABLES
  row,      \* middleware_configs with api_key_middleware_configs
  edits,    \* edits so far
  audit,    \* middleware_runs, in order
  pc,       \* where each request is
  phase,    \* the phase it is in
  chain,    \* the configs loaded and not yet run: [id, failure_mode]
  result,   \* what execute_script returned for the first of them
  input,    \* current_input: who wrote its body and its headers last
  sent,     \* the headers merged for the upstream so far, by writer
  ran,      \* history: [id, phase, failure_mode, outcome, body] of every
            \* script run; body says whether it changed the body
  touched,  \* history: configs edited since the request began
  silent    \* history: requests of which a block or a run left no audit row

config == <<row, edits>>
history == <<ran, touched, silent>>
vars == <<config, audit, pc, phase, chain, result, input, sent, history>>

Client == 0
NoResult == [kind |-> "none"]
Active == {"load", "run", "record", "between"}

Init ==
  /\ row = Initial
  /\ edits = 0
  /\ audit = <<>>
  /\ pc = [r \in Requests |-> "idle"]
  /\ phase = [r \in Requests |-> "request.pre_governance"]
  /\ chain = [r \in Requests |-> <<>>]
  /\ result = [r \in Requests |-> NoResult]
  /\ input = [r \in Requests |-> [body |-> Client, headers |-> Client]]
  /\ sent = [r \in Requests |-> {}]
  /\ ran = [r \in Requests |-> <<>>]
  /\ touched = [r \in Requests |-> {}]
  /\ silent = {}

-----------------------------------------------------------------------------
(***************************************************************************)
(* Administrators                                                          *)
(***************************************************************************)

\* Row c becomes x.  Edits that change nothing are left out.
Edit(c, x) ==
  /\ edits < MaxEdits
  /\ x # row[c]
  /\ row' = [row EXCEPT ![c] = x]
  /\ edits' = edits + 1
  /\ touched' = [r \in Requests |-> IF pc[r] = "idle" THEN {} ELSE touched[r] \cup {c}]
  /\ UNCHANGED <<pc, phase, chain, result, input, sent, ran, silent>>

\* The rows that validate_middleware_config lets both handlers write, which
\* leave the bindings as they are.  A phase or mode of another name, or a
\* script that does not compile, is refused.
Valid(bound) == {x \in Row : x.exists /\ x.bound = bound}

CreateMiddlewareConfig(c) ==
  /\ ~row[c].exists
  /\ \E x \in Valid(FALSE) : Edit(c, x)
  /\ UNCHANGED audit

UpdateMiddlewareConfig(c) ==
  /\ row[c].exists
  /\ \E x \in Valid(row[c].bound) : Edit(c, x)
  /\ UNCHANGED audit

FaultyDeleteMiddlewareConfig(c) ==
  /\ row[c].exists
  /\ Edit(c, [row[c] EXCEPT !.exists = FALSE, !.bound = FALSE])
  /\ UNCHANGED audit

\* Bindings go with the row; audit rows stay, without the link to it.
DeleteMiddlewareConfig(c) ==
  /\ row[c].exists
  /\ Edit(c, [row[c] EXCEPT !.exists = FALSE, !.bound = FALSE])
  /\ audit' = [i \in DOMAIN audit |->
                 IF audit[i].config = c THEN [audit[i] EXCEPT !.config = Client]
                 ELSE audit[i]]

AssignToKey(c) ==
  /\ row[c].exists
  /\ Edit(c, [row[c] EXCEPT !.bound = TRUE])
  /\ UNCHANGED audit

UnassignFromKey(c) ==
  /\ row[c].bound
  /\ Edit(c, [row[c] EXCEPT !.bound = FALSE])
  /\ UNCHANGED audit

-----------------------------------------------------------------------------
(***************************************************************************)
(* load_phase_configs                                                      *)
(***************************************************************************)

Begin(r) ==
  /\ pc[r] = "idle"
  /\ pc' = [pc EXCEPT ![r] = "load"]
  /\ UNCHANGED <<config, audit, phase, chain, result, input, sent, history>>

\* ORDER BY priority, name, id
Precedes(c, d) ==
  \/ row[c].priority < row[d].priority
  \/ row[c].priority = row[d].priority /\ c < d

Bound(p) ==
  {c \in Configs : row[c].bound /\ row[c].enabled /\ row[c].phase = p}

\* The one list of them in that order.
Sorted(p) ==
  {s \in [1 .. Cardinality(Bound(p)) -> Bound(p)] :
     \A i, j \in DOMAIN s : i < j => Precedes(s[i], s[j])}

Loaded(order) ==
  [i \in DOMAIN order |->
     [id |-> order[i], failure_mode |-> row[order[i]].failure_mode]]

Load(r) ==
  /\ pc[r] = "load"
  /\ \E order \in Sorted(phase[r]) :
       chain' = [chain EXCEPT ![r] = Loaded(order)]
  /\ pc' = [pc EXCEPT ![r] = "run"]
  /\ UNCHANGED <<config, audit, phase, result, input, sent, history>>

\* The query fails: the request is answered with an error, whatever the
\* failure modes of its scripts, and no audit row says so.
LoadFails(r) ==
  /\ pc[r] = "load"
  /\ pc' = [pc EXCEPT ![r] = "blocked"]
  /\ silent' = silent \cup {r}
  /\ UNCHANGED <<config, audit, phase, chain, result, input, sent, ran, touched>>

-----------------------------------------------------------------------------
(***************************************************************************)
(* run_phase: the loop over the scripts                                    *)
(***************************************************************************)

Returned == {"same", "body", "headers", "both"}

\* parse_result: headers that come with a changed body are dropped.
MiddlewareOutput(returned) ==
  [kind |-> "continue",
   body |-> returned \in {"body", "both"},
   headers |-> returned = "headers"]

Results ==
  {MiddlewareOutput(x) : x \in Returned}
    \cup {[kind |-> "block"], [kind |-> "error"]}

\* The script returned a body that differs from the one it was given.
ChangesBody(out) == out.kind = "continue" /\ out.body

\* execute_script, in a blocking task.  A script that runs over its limits,
\* raises an error or returns something else than its contract fails.
ExecuteScript(r) ==
  /\ pc[r] = "run"
  /\ chain[r] # <<>>
  /\ \E out \in Results :
       /\ result' = [result EXCEPT ![r] = out]
       /\ ran' = [ran EXCEPT ![r] =
                    Append(@, [id |-> Head(chain[r]).id, phase |-> phase[r],
                               failure_mode |-> Head(chain[r]).failure_mode,
                               outcome |-> out.kind,
                               body |-> ChangesBody(out)])]
  /\ pc' = [pc EXCEPT ![r] = "record"]
  /\ UNCHANGED <<config, audit, phase, chain, input, sent, touched, silent>>

\* The task of the script panics: as when the load fails.
ScriptPanics(r) ==
  /\ pc[r] = "run"
  /\ chain[r] # <<>>
  /\ pc' = [pc EXCEPT ![r] = "blocked"]
  /\ silent' = silent \cup {r}
  /\ UNCHANGED <<config, audit, phase, chain, result, input, sent, ran, touched>>

FaultyBlocks(out, failure_mode) == out.kind = "block"

\* What the engine makes of a result, for the audit row and for the request.
Blocks(out, failure_mode) ==
  \/ out.kind = "block"
  \/ out.kind = "error" /\ failure_mode = "fail_closed"

RunStatus(out) ==
  CASE out.kind = "block" -> "blocked"
    [] out.kind = "continue" -> "success"
    [] out.kind = "error" -> "error"

FaultyAction(out, failure_mode) == IF out.kind = "block" THEN "block" ELSE "continue"

Action(out, failure_mode) ==
  IF Blocks(out, failure_mode) THEN "block" ELSE "continue"

\* MiddlewareAudit::record_run.  A row that cannot be inserted is only warned
\* about: a database error, or a config that has been deleted since it was
\* loaded (the row refers to it).
RecordRun(r) ==
  LET c == Head(chain[r]).id
  IN  \/ /\ row[c].exists
         /\ audit' = Append(audit,
              [request |-> r, config |-> c, phase |-> phase[r],
               status |-> RunStatus(result[r]),
               action |-> Action(result[r], Head(chain[r]).failure_mode),
               body_changed |-> ChangesBody(result[r])])
         /\ UNCHANGED silent
      \/ /\ silent' = silent \cup {r}
         /\ UNCHANGED audit

\* The result is recorded, then acted on.
FinishScript(r) ==
  LET c == Head(chain[r]).id
      out == result[r]
  IN  /\ pc[r] = "record"
      /\ RecordRun(r)
      /\ result' = [result EXCEPT ![r] = NoResult]
      /\ IF Blocks(out, Head(chain[r]).failure_mode)
         THEN /\ pc' = [pc EXCEPT ![r] = "blocked"]
              /\ UNCHANGED <<chain, input>>
         ELSE /\ pc' = [pc EXCEPT ![r] = "run"]
              /\ chain' = [chain EXCEPT ![r] = Tail(@)]
              /\ input' = [input EXCEPT ![r] =
                   IF out.kind = "error" THEN @
                   ELSE [body |-> IF out.body THEN c ELSE @.body,
                         headers |-> IF out.headers THEN c ELSE @.headers]]
      /\ UNCHANGED <<config, phase, sent, ran, touched>>

\* The phase is over: its headers are merged, and after the first the request
\* goes through governance with the new body.
FinishPhase(r) ==
  /\ pc[r] = "run"
  /\ chain[r] = <<>>
  /\ sent' = [sent EXCEPT ![r] =
                IF input[r].headers = Client THEN @
                ELSE @ \cup {input[r].headers}]
  /\ pc' = [pc EXCEPT ![r] =
              IF phase[r] = "request.pre_governance" THEN "between" ELSE "sent"]
  /\ UNCHANGED <<config, audit, phase, chain, result, input, history>>

FaultySecondPhase(r) ==
  /\ pc[r] = "between"
  /\ phase' = [phase EXCEPT ![r] = "request.pre_upstream"]
  /\ input' = [input EXCEPT ![r] = [body |-> Client, headers |-> Client]]
  /\ pc' = [pc EXCEPT ![r] = "load"]
  /\ UNCHANGED <<config, audit, chain, result, sent, history>>

\* Governance lets the request through.  The second phase starts from the
\* body of the first, and from no headers.
SecondPhase(r) ==
  /\ pc[r] = "between"
  /\ phase' = [phase EXCEPT ![r] = "request.pre_upstream"]
  /\ input' = [input EXCEPT ![r] = [body |-> @.body, headers |-> Client]]
  /\ pc' = [pc EXCEPT ![r] = "load"]
  /\ UNCHANGED <<config, audit, chain, result, sent, history>>

\* Governance rejects the request, or it is cut off at an await.  A script
\* that is running then runs on, to no effect; an audit row on its way to
\* Postgres may still arrive.
Drop(r) ==
  /\ pc[r] \in Active
  /\ pc' = [pc EXCEPT ![r] = "dropped"]
  /\ \/ pc[r] = "record" /\ RecordRun(r)
     \/ UNCHANGED <<audit, silent>>
  /\ UNCHANGED <<config, phase, chain, result, input, sent, ran, touched>>

-----------------------------------------------------------------------------
Admin(c) ==
  \/ CreateMiddlewareConfig(c) \/ UpdateMiddlewareConfig(c)
  \/ DeleteMiddlewareConfig(c) \/ AssignToKey(c) \/ UnassignFromKey(c)

RunPhase(r) ==
  \/ Begin(r) \/ Load(r) \/ LoadFails(r) \/ ExecuteScript(r)
  \/ ScriptPanics(r) \/ FinishScript(r) \/ FinishPhase(r) \/ SecondPhase(r)
  \/ Drop(r)

Next ==
  \/ \E c \in Configs : Admin(c)
  \/ \E r \in Requests : RunPhase(r)

Spec == Init /\ [][Next]_vars

-----------------------------------------------------------------------------
(***************************************************************************)
(* Properties                                                              *)
(***************************************************************************)

\* Every variable has its type: only rows that exist are bound, and an audit
\* row refers to a config that exists, or to none.
TypeOK ==
  /\ row \in [Configs -> Row]
  /\ \A c \in Configs : row[c].bound => row[c].exists
  /\ edits \in 0 .. MaxEdits
  /\ pc \in [Requests -> Active \cup {"idle", "sent", "blocked", "dropped"}]
  /\ phase \in [Requests -> Phases]
  /\ input \in [Requests -> [body : Configs \cup {Client},
                             headers : Configs \cup {Client}]]
  /\ sent \in [Requests -> SUBSET Configs]
  /\ \A i \in DOMAIN audit :
       audit[i].config = Client \/ row[audit[i].config].exists
  /\ \A r \in Requests : pc[r] = "record" => chain[r] # <<>>

Ran(r, c) == \E i \in DOMAIN ran[r] : ran[r][i].id = c

\* The body is the one that the last of these runs made, the client's if there
\* are none.
MadeByLast(runs, changes, body) ==
  \/ changes = {} /\ body = Client
  \/ \E i \in changes :
       (\A j \in changes : j <= i) /\ body = runs[i].id

\* Whatever administrators change meanwhile, a request goes upstream only past
\* every script that stood unchanged for the whole request: it ran, and let the
\* request through, or failed and was fail_open; they ran in the order of their
\* priorities; and the body that is sent is the one the last script to change
\* it made, in whichever phase, or the client's if none changed it.
NothingSentPastAScript ==
  \A r \in Requests :
    pc[r] = "sent" =>
      /\ \A c \in Configs \ touched[r] :
           row[c].bound /\ row[c].enabled => Ran(r, c)
      /\ \A i \in DOMAIN ran[r] :
           \/ ran[r][i].outcome = "continue"
           \/ ran[r][i].outcome = "error" /\ ran[r][i].failure_mode = "fail_open"
      /\ \A i, j \in DOMAIN ran[r] :
           LET c == ran[r][i].id
               d == ran[r][j].id
           IN  (i < j /\ ran[r][i].phase = ran[r][j].phase
                  /\ {c, d} \cap touched[r] = {}) => Precedes(c, d)
      /\ MadeByLast(ran[r], {i \in DOMAIN ran[r] : ran[r][i].body},
                    input[r].body)

\* Where the audit rows of request r are.
Rows(r) == {i \in DOMAIN audit : audit[i].request = r}

\* The audit log agrees with what became of the request: a blocked one has its
\* block as its last row, one that goes on has none, and there is a row for
\* every script that ran to its end.  Except for a cause: the configs could not be loaded, a
\* script panicked, or a row could not be inserted.
AuditAgreesWithFate ==
  \A r \in Requests \ silent :
    /\ pc[r] = "blocked" =>
         \E i \in Rows(r) :
           /\ \A j \in Rows(r) : j <= i
           /\ audit[i].action = "block"
    /\ pc[r] \notin {"blocked", "dropped"} =>
         \A i \in Rows(r) : audit[i].action = "continue"
    /\ pc[r] \in {"sent", "blocked"} => Cardinality(Rows(r)) = Len(ran[r])

=============================================================================
