------------------------------ MODULE KeyAdmin ------------------------------
(***************************************************************************)
(* Access windows: the hours of the day at which a client key may be used. *)
(* The commands that write them (routes/admin/api_keys.rs), the edit page  *)
(* of the dashboard that sends them, and authentication, which reads them  *)
(* (middleware/auth.rs, access_window.rs).                                 *)
(*                                                                         *)
(* One key.  Its expiry and its limits are in KeyGovernance, its name is   *)
(* left out, and of its scopes only "admin" is kept.  A zone has a fixed   *)
(* offset: its summer time is left out.                                    *)
(***************************************************************************)
EXTENDS Integers, FiniteSets

CONSTANTS
  Requests,     \* client requests with the key, each made once (the bound)
  Zones,        \* the time zones chrono_tz parses
  DefaultZone,  \* "UTC"
  BrowserZone,  \* the zone of the administrators' browsers
  Offset,       \* Offset[z]: hours from UTC to z
  BadZones,     \* texts that are no zone
  EmptyZone,    \* the empty one of them
  Tags,         \* lists of tags that validate_tags accepts
  BadTags,      \* one that it refuses
  Null,         \* SQL's NULL, a field a request leaves out, a blank input
  LastHour,     \* 23
  Byte,         \* 2^8: what a conversion to u8 wraps at
  SentHours,    \* the numbers that commands give as hours
  MaxEdits      \* bound on the commands that succeed

Hours == 0 .. LastHour
Day == LastHour + 1

ASSUME KeyAdminAssumption ==
  /\ LastHour \in Nat /\ Byte \in Nat /\ Byte > LastHour
  /\ SentHours \subseteq Int
  /\ {DefaultZone, BrowserZone} \subseteq Zones
  /\ Offset \in [Zones -> Int] /\ Offset[DefaultZone] = 0
  /\ EmptyZone \in BadZones /\ BadZones \cap Zones = {} /\ BadTags \notin Tags
  /\ Null \notin Zones \cup BadZones \cup Tags \cup SentHours \cup Hours
  /\ MaxEdits \in Nat

VARIABLES
  row,      \* the key's row in api_keys, or NoRow before it is created
  edits,    \* commands that succeeded
  form,     \* the edit page, or Closed
  hour,     \* the hour of the day, in UTC
  pc,       \* where each request is
  seen,     \* the row as the request found it, while it is checked
  refusals, \* requests of which request_logs says that they were refused
  partial   \* history: a part of the window was updated without the rest

key == <<row, edits, partial>>
request == <<pc, seen, refusals>>
vars == <<key, form, hour, request>>

NoRow == [is_active |-> FALSE]
Closed == [open |-> FALSE]

\* api_keys with its CHECK constraints on the hours.
Row == [is_active : BOOLEAN, admin : BOOLEAN, tags : Tags,
        start : Hours \cup {Null}, end : Hours \cup {Null},
        zone : Zones \cup BadZones \cup {Null}]

Init ==
  /\ row = NoRow
  /\ edits = 0
  /\ form = Closed
  /\ hour \in Hours
  /\ pc = [r \in Requests |-> "idle"]
  /\ seen = [r \in Requests |-> NoRow]
  /\ refusals = {}
  /\ partial = FALSE

-----------------------------------------------------------------------------
(***************************************************************************)
(* access_window.rs                                                        *)
(***************************************************************************)

Local(zone, h) == (h + Offset[IF zone = Null THEN DefaultZone ELSE zone]) % Day

FaultyBetween(start, end, h) == start <= h /\ h <= end

Between(start, end, h) ==
  IF start <= end THEN start <= h /\ h <= end
  ELSE h >= start \/ h <= end

\* is_within_window_at.  Half a window restricts nothing.
IsWithinWindow(w, h) ==
  IF Null \in {w.start, w.end} THEN "within"
  ELSE IF w.zone \in BadZones THEN "error"
  ELSE IF Between(w.start, w.end, Local(w.zone, h)) THEN "within"
  ELSE "outside"

-----------------------------------------------------------------------------
(***************************************************************************)
(* Commands                                                                *)
(***************************************************************************)

\* A field of a patch overwrites the row's unless it is left out: null in the
\* JSON reads as left out, so no field goes back to NULL.
Patched(new, old) == IF new = Null THEN old ELSE new

FaultyValidateAccessWindow(start, end, zone) ==
  IF Null \in {start, end} THEN {start, end, zone} = {Null}
  ELSE start <= LastHour /\ end <= LastHour

ValidateAccessWindow(start, end, zone) ==
  IF Null \in {start, end} THEN {start, end, zone} = {Null}
  ELSE start <= LastHour /\ end <= LastHour /\ zone \in Zones \cup {Null}

FaultyStore(new) ==
  /\ row' = new
  /\ edits' = edits + 1

\* The row is stored, if Postgres takes it: its CHECKs refuse the hours that
\* pass the validation of their low bytes only.
Store(new) ==
  /\ new \in Row
  /\ row' = new
  /\ edits' = edits + 1

\* create_api_key; hours that are no u8 are refused with the JSON.
CreateKey ==
  /\ row = NoRow /\ edits < MaxEdits
  /\ \E start, end \in (SentHours \cap 0 .. Byte - 1) \cup {Null},
       zone \in Zones \cup BadZones \cup {Null}, admin \in BOOLEAN,
       tags \in Tags \cup {BadTags} :
       /\ ValidateAccessWindow(start, end, zone)
       /\ tags # BadTags
       /\ Store([is_active |-> TRUE, admin |-> admin, tags |-> tags,
                 start |-> start, end |-> end, zone |-> zone])
  /\ UNCHANGED <<form, hour, request, partial>>

Editable == row # NoRow /\ edits < MaxEdits

\* update_api_key.  The window is validated when both of its hours are given,
\* as bytes; the column takes what was sent.
UpdateApiKey(start, end, zone, tags, admin) ==
  /\ {start, end, zone, tags} # {Null} \/ admin # Null
  /\ tags # BadTags
  /\ Null \notin {start, end} =>
       ValidateAccessWindow(start % Byte, end % Byte, zone)
  /\ Store([row EXCEPT !.start = Patched(start, @), !.end = Patched(end, @),
                       !.zone = Patched(zone, @), !.tags = Patched(tags, @),
                       !.admin = Patched(admin, @)])
  /\ partial' = IF Null \notin {start, end, zone} THEN FALSE
                ELSE partial \/ ({start, end, zone} # {Null} /\ Null \in {start, end})

\* An open page does not follow the row.
Outdated(page) == IF page.open THEN [page EXCEPT !.current = FALSE] ELSE page

\* A client of the admin API sends any fields.  Those of the window and the
\* others are independent of each other: a patch of both is two patches here.
PatchKey ==
  /\ Editable
  /\ \/ \E start, end \in SentHours \cup {Null},
          zone \in Zones \cup BadZones \cup {Null} :
          UpdateApiKey(start, end, zone, Null, Null)
     \/ \E tags \in Tags \cup {BadTags, Null}, admin \in BOOLEAN \cup {Null} :
          UpdateApiKey(Null, Null, Null, tags, admin)
  /\ form' = Outdated(form)
  /\ UNCHANGED <<hour, request>>

ReplaceApiKeyTags ==
  /\ Editable
  /\ \E tags \in Tags \cup {BadTags} :
       tags # BadTags /\ Store([row EXCEPT !.tags = tags])
  /\ form' = Outdated(form)
  /\ UNCHANGED <<hour, request, partial>>

RevokeApiKey ==
  /\ Editable
  /\ Store([row EXCEPT !.is_active = FALSE])
  /\ form' = Outdated(form)
  /\ UNCHANGED <<hour, request, partial>>

-----------------------------------------------------------------------------
(***************************************************************************)
(* The edit page                                                           *)
(***************************************************************************)

FaultyShown(r) == [start |-> r.start, end |-> r.end, tags |-> r.tags,
                   zone |-> BrowserZone]

\* A zone for which the page shows the browser's: `||` and `??` take it for
\* none.  A text that is no zone is shown as it is.
NoZone == {Null, EmptyZone}

\* apiKeyToFormDefaults and the initial state of ApiKeyForm.
Shown(r) == [start |-> r.start, end |-> r.end, tags |-> r.tags,
             zone |-> IF r.zone \in NoZone THEN BrowserZone ELSE r.zone]

OpenForm ==
  /\ row # NoRow
  /\ ~form.open
  /\ form' = [open |-> TRUE, fields |-> Shown(row), current |-> TRUE,
              touched |-> FALSE]
  /\ UNCHANGED <<key, hour, request>>

\* One edit stands for any number of them.
EditForm ==
  /\ form.open /\ ~form.touched
  /\ \E start, end \in SentHours \cup {Null}, zone \in Zones :
       form' = [form EXCEPT !.touched = TRUE,
                  !.fields = [@ EXCEPT !.start = start, !.end = end,
                                       !.zone = zone]]
  /\ UNCHANGED <<key, hour, request>>

\* handleSubmit: the window is sent whole, or three nulls are.
SaveForm ==
  LET f == form.fields
  IN  /\ form.open /\ Editable
      /\ IF Null \in {f.start, f.end}
         THEN UpdateApiKey(Null, Null, Null, f.tags, Null)
         ELSE UpdateApiKey(f.start, f.end, f.zone, f.tags, Null)
      /\ form' = Closed
      /\ UNCHANGED <<hour, request>>

CloseForm ==
  /\ form.open
  /\ form' = Closed
  /\ UNCHANGED <<key, hour, request>>

-----------------------------------------------------------------------------
(***************************************************************************)
(* Requests                                                                *)
(***************************************************************************)

Tick ==
  /\ hour' = (hour + 1) % Day
  /\ UNCHANGED <<key, form, request>>

\* The query of the authentication middleware, and its check of the row.
FetchKey(r) ==
  /\ pc[r] = "idle"
  /\ row # NoRow
  /\ IF row.is_active
     THEN /\ pc' = [pc EXCEPT ![r] = "fetched"]
          /\ seen' = [seen EXCEPT ![r] = row]
     ELSE /\ pc' = [pc EXCEPT ![r] = "refused"]
          /\ UNCHANGED seen
  /\ UNCHANGED <<key, form, hour, refusals>>

\* access_window_check; the clock is read when the query is back.
AccessWindowCheck(r) ==
  /\ pc[r] = "fetched"
  /\ pc' = [pc EXCEPT ![r] =
              IF seen[r].admin THEN "within" ELSE IsWithinWindow(seen[r], hour)]
  /\ seen' = [seen EXCEPT ![r] = NoRow]
  /\ UNCHANGED <<key, form, hour, refusals>>

\* A refusal is logged, whether that works or not.
RecordRefusal(r) ==
  /\ pc[r] = "outside"
  /\ refusals' \in {refusals, refusals \cup {r}}
  /\ pc' = [pc EXCEPT ![r] = "refused"]
  /\ UNCHANGED <<key, form, hour, seen>>

-----------------------------------------------------------------------------
Next ==
  \/ CreateKey \/ PatchKey \/ ReplaceApiKeyTags \/ RevokeApiKey
  \/ OpenForm \/ EditForm \/ SaveForm \/ CloseForm
  \/ Tick
  \/ \E r \in Requests :
       FetchKey(r) \/ AccessWindowCheck(r) \/ RecordRefusal(r)

Spec == Init /\ [][Next]_vars

-----------------------------------------------------------------------------
(***************************************************************************)
(* Properties                                                              *)
(***************************************************************************)

\* Every variable has its type; the edit page is open on a key there is, and
\* only a request that was refused is logged as one.
TypeOK ==
  /\ row \in Row \cup {NoRow}
  /\ edits \in 0 .. MaxEdits
  /\ form.open => row # NoRow
  /\ hour \in Hours
  /\ pc \in [Requests -> {"idle", "fetched", "within", "outside", "error",
                          "refused"}]
  /\ seen \in [Requests -> Row \cup {NoRow}]
  /\ \A r \in Requests : pc[r] = "fetched" => seen[r] \in Row
  /\ refusals \subseteq {r \in Requests : pc[r] = "refused"}

\* The hours from start around the clock to end.
Arc(start, end) == {(start + i) % Day : i \in 0 .. (end - start) % Day}

\* The hours, in UTC, at which the window lets requests through.
OpenHours(w) ==
  IF Null \in {w.start, w.end} THEN Hours
  ELSE IF w.zone \in BadZones THEN {}
  ELSE {h \in Hours : Local(w.zone, h) \in Arc(w.start, w.end)}

\* Whatever is edited meanwhile, a request is let through on the arc of hours
\* of the window it found, around midnight and in its zone, and is refused as
\* outside only off it; a key that administers is always let through.
AdmittedOnTheArc ==
  [][\A r \in Requests :
       pc[r] = "fetched" =>
         LET open == seen[r].admin \/ hour \in OpenHours(seen[r])
         IN  /\ pc'[r] = "within" => open
             /\ pc'[r] = "outside" => ~open]_vars

\* A window that is half set, or that authentication cannot evaluate and so
\* refuses at every hour, comes from an update of a part of it: neither create,
\* nor the edit page, nor a patch with both hours brings one about, although
\* hours are validated as bytes and stored as they are.
WindowSoundUnlessPartial ==
  row # NoRow /\ ~partial =>
    /\ row.start = Null <=> row.end = Null
    /\ row.start = Null => row.zone = Null
    /\ \A h \in Hours : IsWithinWindow(row, h) # "error"

\* An edit page that is saved as it was opened, with nobody else's command in
\* between, leaves the hours of the key as they were, or, when its window had
\* no zone or an empty one, makes them the same hours in the browser's zone:
\* the only way an untouched page moves or opens a window.
UntouchedFormKeepsHours ==
  [][form.open /\ ~form'.open /\ form.current /\ ~form.touched =>
       \/ OpenHours(row') = OpenHours(row)
       \/ /\ row.zone \in NoZone
          /\ OpenHours(row') = OpenHours([row EXCEPT !.zone = BrowserZone])]_vars

=============================================================================
