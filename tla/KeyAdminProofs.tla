--------------------------- MODULE KeyAdminProofs ---------------------------
(***************************************************************************)
(* Access windows, proved for days of any number of hours, zones of any    *)
(* offset, and any commands.                                               *)
(***************************************************************************)
EXTENDS KeyAdmin, TLAPS

-----------------------------------------------------------------------------
(***************************************************************************)
(* Around the clock                                                        *)
(***************************************************************************)

\* What is left of an hour that is at most a day off.
LEMMA ModuloDay ==
  ASSUME NEW d \in Nat \ {0}, NEW x \in 0 .. d - 1
  PROVE  x % d = x /\ (x + d) % d = x /\ (x - d) % d = x
<1>1. x % d = x
  BY SMT
<1>2. (x + d) % d = x
  BY SMT
<1>3. (x - d) % d = x
  BY SMT
<1> QED
  BY <1>1, <1>2, <1>3

LEMMA DayIsDay == Day \in Nat \ {0} /\ Hours = 0 .. Day - 1
  BY KeyAdminAssumption, SMT DEF Day, Hours

\* The comparisons of access_window.rs, with their case of a window around
\* midnight, tell the hours on the arc from start to end from the others.
LEMMA BetweenIsArc ==
  ASSUME NEW start \in Hours, NEW end \in Hours, NEW h \in Hours
  PROVE  Between(start, end, h) <=> h \in Arc(start, end)
<1>a. Day \in Nat \ {0} /\ Hours = 0 .. Day - 1
  BY DayIsDay
<1>b. start \in 0 .. Day - 1 /\ end \in 0 .. Day - 1 /\ h \in 0 .. Day - 1
  BY <1>a
<1>1. CASE start <= end
  <2>1. (end - start) % Day = end - start
    <3>1. end - start \in 0 .. Day - 1
      BY <1>a, <1>b, <1>1, SMT
    <3> QED
      BY <1>a, <3>1, ModuloDay
  <2>2. ASSUME NEW i \in 0 .. end - start
        PROVE  (start + i) % Day = start + i
    <3>1. start + i \in 0 .. Day - 1
      BY <1>a, <1>b, <1>1, <2>2, SMT
    <3> QED
      BY <1>a, <3>1, ModuloDay
  <2>3. ASSUME start <= h, h <= end
        PROVE  h \in Arc(start, end)
    <3>1. h - start \in 0 .. end - start /\ start + (h - start) = h
      BY <1>a, <1>b, <2>3, SMT
    <3>2. (start + (h - start)) % Day = h
      BY <2>2, <3>1
    <3> QED
      BY <2>1, <3>1, <3>2, Zenon DEF Arc
  <2>4. ASSUME h \in Arc(start, end)
        PROVE  start <= h /\ h <= end
    <3>1. PICK i \in 0 .. end - start : h = (start + i) % Day
      BY <2>1, <2>4, Zenon DEF Arc
    <3>2. h = start + i
      BY <2>2, <3>1
    <3> QED
      BY <1>a, <1>b, <3>1, <3>2, SMT
  <2> QED
    BY <1>1, <2>3, <2>4, Zenon DEF Between
<1>2. CASE ~(start <= end)
  <2>1. (end - start) % Day = end - start + Day
    <3>1. end - start + Day \in 0 .. Day - 1
          /\ (end - start + Day) - Day = end - start
      BY <1>a, <1>b, <1>2, SMT
    <3> QED
      BY <1>a, <3>1, ModuloDay
  <2>2. ASSUME NEW i \in 0 .. end - start + Day
        PROVE  (start + i) % Day = IF start + i < Day THEN start + i
                                   ELSE start + i - Day
    <3>1. CASE start + i < Day
      <4>1. start + i \in 0 .. Day - 1
        BY <1>a, <1>b, <1>2, <2>2, <3>1, SMT
      <4> QED
        BY <1>a, <3>1, <4>1, ModuloDay
    <3>2. CASE ~(start + i < Day)
      <4>1. start + i - Day \in 0 .. Day - 1
            /\ (start + i - Day) + Day = start + i
        BY <1>a, <1>b, <1>2, <2>2, <3>2, SMT
      <4> QED
        BY <1>a, <3>2, <4>1, ModuloDay
    <3> QED
      BY <3>1, <3>2
  <2>3. ASSUME h >= start PROVE h \in Arc(start, end)
    <3>1. /\ h - start \in 0 .. end - start + Day
          /\ start + (h - start) < Day /\ start + (h - start) = h
      BY <1>a, <1>b, <1>2, <2>3, SMT
    <3>2. (start + (h - start)) % Day = h
      BY <2>2, <3>1
    <3> QED
      BY <2>1, <3>1, <3>2, Zenon DEF Arc
  <2>4. ASSUME h <= end PROVE h \in Arc(start, end)
    <3> DEFINE i == h - start + Day
    <3>1. /\ i \in 0 .. end - start + Day
          /\ ~(start + i < Day) /\ start + i - Day = h
      BY <1>a, <1>b, <1>2, <2>4, SMT
    <3>2. (start + i) % Day = h
      BY <2>2, <3>1
    <3> QED
      BY <2>1, <3>1, <3>2, Zenon DEF Arc
  <2>5. ASSUME h \in Arc(start, end)
        PROVE  h >= start \/ h <= end
    <3>1. PICK i \in 0 .. end - start + Day : h = (start + i) % Day
      BY <2>1, <2>5, Zenon DEF Arc
    <3>2. h = IF start + i < Day THEN start + i ELSE start + i - Day
      BY <2>2, <3>1
    <3> QED
      BY <1>a, <1>b, <3>1, <3>2, SMT
  <2> QED
    BY <1>2, <2>3, <2>4, <2>5, Zenon DEF Between
<1> QED
  BY <1>1, <1>2

-----------------------------------------------------------------------------
(***************************************************************************)
(* Types                                                                   *)
(***************************************************************************)

\* A key that does not exist is none.
LEMMA NoRowIsNoRow == NoRow \notin Row
<1>1. ASSUME NEW k \in Row PROVE "zone" \in DOMAIN k
  BY Zenon DEF Row
<1>2. "zone" \notin DOMAIN NoRow
  BY SMT DEF NoRow
<1> QED
  BY <1>1, <1>2

Steps == {"idle", "fetched", "within", "outside", "error", "refused"}

\* What the administrators' commands and pages concern ...
AdminTypes ==
  /\ row \in Row \cup {NoRow}
  /\ edits \in 0 .. MaxEdits
  /\ form.open => row # NoRow

\* ... and what requests do.
RequestTypes ==
  /\ pc \in [Requests -> Steps]
  /\ seen \in [Requests -> Row \cup {NoRow}]
  /\ \A r \in Requests : pc[r] = "fetched" => seen[r] \in Row
  /\ refusals \subseteq {r \in Requests : pc[r] = "refused"}

LEMMA TypeParts ==
  /\ TypeOK <=> AdminTypes /\ hour \in Hours /\ RequestTypes
  /\ TypeOK' <=> AdminTypes' /\ hour' \in Hours /\ RequestTypes'
  BY Zenon DEF TypeOK, AdminTypes, RequestTypes, Steps

Command == CreateKey \/ PatchKey \/ ReplaceApiKeyTags \/ RevokeApiKey \/ SaveForm

Page == OpenForm \/ EditForm \/ CloseForm

LEMMA InitTypeOK == Init => TypeOK
<1> SUFFICES ASSUME Init PROVE TypeOK
  OBVIOUS
<1>1. AdminTypes
  BY KeyAdminAssumption, SMT DEF Init, AdminTypes, Closed
<1>2. RequestTypes
  BY SMT DEF Init, RequestTypes, Steps
<1>3. hour \in Hours
  BY DEF Init
<1> QED
  BY <1>1, <1>2, <1>3, TypeParts

\* A command that succeeds stores a row.
LEMMA CommandStores ==
  ASSUME Command
  PROVE  /\ row' \in Row /\ edits < MaxEdits /\ edits' = edits + 1
         /\ UNCHANGED <<hour, request>>
  BY Zenon DEF Command, CreateKey, PatchKey, ReplaceApiKeyTags, RevokeApiKey,
         SaveForm, UpdateApiKey, Store, Editable

LEMMA RequestStepTypes ==
  ASSUME RequestTypes, AdminTypes, NEW r \in Requests,
         FetchKey(r) \/ AccessWindowCheck(r) \/ RecordRefusal(r)
  PROVE  RequestTypes'
<1>1. CASE FetchKey(r)
  <2>1. row \in Row
    BY <1>1, Zenon DEF FetchKey, AdminTypes
  <2>2. \/ /\ pc' = [pc EXCEPT ![r] = "fetched"]
           /\ seen' = [seen EXCEPT ![r] = row]
        \/ pc' = [pc EXCEPT ![r] = "refused"] /\ seen' = seen
    BY <1>1, Zenon DEF FetchKey
  <2>3. refusals' = refusals /\ pc[r] = "idle"
    BY <1>1, Zenon DEF FetchKey
  <2>4. pc' \in [Requests -> Steps] /\ seen' \in [Requests -> Row \cup {NoRow}]
    BY <2>1, <2>2, SMT DEF RequestTypes, Steps
  <2>5. \A q \in Requests : pc'[q] = "fetched" => seen'[q] \in Row
    BY <2>1, <2>2, SMT DEF RequestTypes
  <2>6. refusals' \subseteq {q \in Requests : pc'[q] = "refused"}
    BY <2>2, <2>3, SMT DEF RequestTypes
  <2> QED
    BY <2>4, <2>5, <2>6, Zenon DEF RequestTypes
<1>2. CASE AccessWindowCheck(r)
  <2>1. PICK step \in {"within", "outside", "error"} :
          pc' = [pc EXCEPT ![r] = step]
    <3>1. IsWithinWindow(seen[r], hour) \in {"within", "outside", "error"}
      BY Zenon DEF IsWithinWindow
    <3>2. /\ seen[r].admin => pc' = [pc EXCEPT ![r] = "within"]
          /\ ~seen[r].admin =>
               pc' = [pc EXCEPT ![r] = IsWithinWindow(seen[r], hour)]
      BY <1>2, Zenon DEF AccessWindowCheck
    <3> QED
      BY <3>1, <3>2, Zenon
  <2>2. /\ seen' = [seen EXCEPT ![r] = NoRow]
        /\ refusals' = refusals /\ pc[r] = "fetched"
    BY <1>2, Zenon DEF AccessWindowCheck
  <2>3. pc' \in [Requests -> Steps] /\ seen' \in [Requests -> Row \cup {NoRow}]
    BY <2>1, <2>2, SMT DEF RequestTypes, Steps
  <2>4. \A q \in Requests : pc'[q] = "fetched" => seen'[q] \in Row
    BY <2>1, <2>2, SMT DEF RequestTypes
  <2>5. refusals' \subseteq {q \in Requests : pc'[q] = "refused"}
    BY <2>1, <2>2, SMT DEF RequestTypes
  <2> QED
    BY <2>3, <2>4, <2>5, Zenon DEF RequestTypes
<1>3. CASE RecordRefusal(r)
  <2>1. /\ pc' = [pc EXCEPT ![r] = "refused"] /\ seen' = seen
        /\ refusals' \subseteq refusals \cup {r} /\ pc[r] = "outside"
    BY <1>3, SMT DEF RecordRefusal
  <2>2. pc' \in [Requests -> Steps] /\ seen' \in [Requests -> Row \cup {NoRow}]
    BY <2>1, SMT DEF RequestTypes, Steps
  <2>3. \A q \in Requests : pc'[q] = "fetched" => seen'[q] \in Row
    BY <2>1, SMT DEF RequestTypes
  <2>4. refusals' \subseteq {q \in Requests : pc'[q] = "refused"}
    BY <2>1, SMT DEF RequestTypes
  <2> QED
    BY <2>2, <2>3, <2>4, Zenon DEF RequestTypes
<1> QED
  BY <1>1, <1>2, <1>3

LEMMA NextTypeOK == TypeOK /\ [Next]_vars => TypeOK'
<1> SUFFICES ASSUME TypeOK, [Next]_vars PROVE TypeOK'
  OBVIOUS
<1>a. AdminTypes /\ hour \in Hours /\ RequestTypes
  BY TypeParts
<1>b. UNCHANGED request => RequestTypes'
  BY <1>a, Zenon DEF request, RequestTypes
<1>1. CASE Command
  <2>1. /\ row' \in Row /\ edits < MaxEdits /\ edits' = edits + 1
        /\ UNCHANGED <<hour, request>>
    BY <1>1, CommandStores
  <2>2. edits' \in 0 .. MaxEdits
    BY <1>a, <2>1, KeyAdminAssumption, SMT DEF AdminTypes
  <2>3. AdminTypes'
    BY <2>1, <2>2, NoRowIsNoRow DEF AdminTypes
  <2> QED
    BY <1>a, <1>b, <2>1, <2>3, TypeParts
<1>2. CASE Page
  <2>1. UNCHANGED <<key, hour, request>> /\ (form'.open => row # NoRow)
    BY <1>2, <1>a, Zenon
       DEF Page, OpenForm, EditForm, CloseForm, Closed, AdminTypes
  <2>2. AdminTypes'
    BY <1>a, <2>1, Zenon DEF AdminTypes, key
  <2> QED
    BY <1>a, <1>b, <2>1, <2>2, TypeParts
<1>3. CASE Tick
  <2>1. UNCHANGED <<key, form, request>> /\ hour' = (hour + 1) % Day
    BY <1>3 DEF Tick
  <2>2. hour' \in Hours
    BY <1>a, <2>1, DayIsDay, SMT
  <2>3. AdminTypes'
    BY <1>a, <2>1, Zenon DEF AdminTypes, key
  <2> QED
    BY <1>b, <2>1, <2>2, <2>3, TypeParts
<1>4. ASSUME NEW r \in Requests,
             FetchKey(r) \/ AccessWindowCheck(r) \/ RecordRefusal(r)
      PROVE  TypeOK'
  <2>1. UNCHANGED <<key, form, hour>>
    BY <1>4, Zenon DEF FetchKey, AccessWindowCheck, RecordRefusal
  <2>2. AdminTypes'
    BY <1>a, <2>1, Zenon DEF AdminTypes, key
  <2>3. RequestTypes'
    BY <1>4, <1>a, RequestStepTypes
  <2> QED
    BY <1>a, <2>1, <2>2, <2>3, TypeParts
<1>5. CASE UNCHANGED vars
  BY <1>5, <1>a, <1>b, TypeParts, Zenon DEF vars, key, AdminTypes
<1> QED
  BY <1>1, <1>2, <1>3, <1>4, <1>5 DEF Next, Command, Page

\* Every variable has its type; a page is open only on a key there is, and
\* only refused requests are logged as such.
THEOREM KeyAdminTypeOK == Spec => []TypeOK
  BY InitTypeOK, NextTypeOK, PTL DEF Spec

-----------------------------------------------------------------------------
(***************************************************************************)
(* Who is let through                                                      *)
(***************************************************************************)

\* The local hour is one.
LEMMA LocalIsHour ==
  ASSUME NEW zone \in Zones \cup {Null}, NEW h \in Hours
  PROVE  Local(zone, h) \in Hours
<1> DEFINE z == IF zone = Null THEN DefaultZone ELSE zone
<1>1. Offset[z] \in Int
  BY KeyAdminAssumption
<1>2. (h + Offset[z]) % Day \in 0 .. Day - 1
  BY <1>1, DayIsDay, SMT
<1> QED
  BY <1>2, DayIsDay DEF Local

\* is_within_window_at says "within" on the window's hours, "outside" off
\* them, and neither when it cannot tell.
LEMMA WindowVerdict ==
  ASSUME NEW w \in Row, NEW h \in Hours
  PROVE  /\ IsWithinWindow(w, h) = "within" => h \in OpenHours(w)
         /\ IsWithinWindow(w, h) = "outside" => h \notin OpenHours(w)
<1>1. /\ w.start \in Hours \cup {Null} /\ w.end \in Hours \cup {Null}
      /\ w.zone \in Zones \cup BadZones \cup {Null}
  BY Zenon DEF Row
<1>2. CASE Null \in {w.start, w.end}
  BY <1>2, Zenon DEF IsWithinWindow, OpenHours
<1>3. CASE Null \notin {w.start, w.end} /\ w.zone \in BadZones
  BY <1>3, Zenon DEF IsWithinWindow
<1>4. CASE Null \notin {w.start, w.end} /\ w.zone \notin BadZones
  <2>1. Between(w.start, w.end, Local(w.zone, h))
          <=> Local(w.zone, h) \in Arc(w.start, w.end)
    BY <1>1, <1>4, LocalIsHour, BetweenIsArc
  <2>2. h \in OpenHours(w) <=> Local(w.zone, h) \in Arc(w.start, w.end)
    BY <1>4, Zenon DEF OpenHours
  <2> QED
    BY <1>4, <2>1, <2>2, Zenon DEF IsWithinWindow
<1> QED
  BY <1>2, <1>3, <1>4

\* Whatever is edited meanwhile, a request is let through only on the hours
\* of the window it found, and refused as outside only off them, unless its
\* key administers.
THEOREM WindowsAdmitOnTheArc == Spec => AdmittedOnTheArc
<1> DEFINE Admission ==
      \A r \in Requests :
        pc[r] = "fetched" =>
          LET open == seen[r].admin \/ hour \in OpenHours(seen[r])
          IN  /\ pc'[r] = "within" => open
              /\ pc'[r] = "outside" => ~open
<1>1. TypeOK /\ [Next]_vars => [Admission]_vars
  <2> SUFFICES ASSUME TypeOK, Next, NEW r \in Requests, pc[r] = "fetched"
               PROVE  /\ pc'[r] = "within" =>
                           seen[r].admin \/ hour \in OpenHours(seen[r])
                      /\ pc'[r] = "outside" =>
                           ~(seen[r].admin \/ hour \in OpenHours(seen[r]))
    BY Zenon
  <2>1. pc \in [Requests -> Steps] /\ seen[r] \in Row /\ hour \in Hours
    BY Zenon DEF TypeOK, Steps
  <2>2. CASE AccessWindowCheck(r)
    <3>1. pc'[r] = IF seen[r].admin THEN "within"
                   ELSE IsWithinWindow(seen[r], hour)
      BY <2>1, <2>2, Zenon DEF AccessWindowCheck
    <3> QED
      BY <2>1, <3>1, WindowVerdict, Zenon
  <2>3. CASE pc'[r] = pc[r]
    BY <2>3
  <2>4. ASSUME ~AccessWindowCheck(r) PROVE pc'[r] = pc[r]
    <3>1. \/ UNCHANGED pc
          \/ \E q \in Requests :
               FetchKey(q) \/ AccessWindowCheck(q) \/ RecordRefusal(q)
      <4>1. Command => UNCHANGED request
        BY CommandStores
      <4>2. Page \/ Tick => UNCHANGED request
        BY Zenon DEF Page, OpenForm, EditForm, CloseForm, Tick
      <4> QED
        BY <4>1, <4>2, Zenon DEF Next, Command, Page, request
    <3>2. ASSUME NEW q \in Requests,
                 FetchKey(q) \/ AccessWindowCheck(q) \/ RecordRefusal(q)
          PROVE  q # r /\ \E step : pc' = [pc EXCEPT ![q] = step]
      BY <2>4, <3>2, Zenon DEF FetchKey, AccessWindowCheck, RecordRefusal
    <3> QED
      BY <2>1, <3>1, <3>2, Zenon
  <2> QED
    BY <2>2, <2>3, <2>4
<1> QED
  BY InitTypeOK, NextTypeOK, <1>1, PTL DEF Spec, AdmittedOnTheArc

-----------------------------------------------------------------------------
(***************************************************************************)
(* Which windows come about                                                *)
(***************************************************************************)

\* A window that is whole or not there, and that can be evaluated.
Sound(k) ==
  /\ k.start = Null <=> k.end = Null
  /\ k.start = Null => k.zone = Null
  /\ k.zone \notin BadZones

SoundInv == row # NoRow /\ ~partial => Sound(row)

LEMMA SoundWindows ==
  ASSUME SoundInv
  PROVE  WindowSoundUnlessPartial
  BY Zenon DEF SoundInv, Sound, WindowSoundUnlessPartial, IsWithinWindow

\* What passes the validation of both hours and the zone is whole.
LEMMA ValidatedZone ==
  ASSUME NEW start, NEW end, NEW zone, ValidateAccessWindow(start, end, zone)
  PROVE  zone \notin BadZones
<1>1. zone \in Zones \cup {Null}
  BY Zenon DEF ValidateAccessWindow
<1> QED
  BY <1>1, KeyAdminAssumption

\* The fields of a row after a patch.
LEMMA PatchedFields ==
  ASSUME row \in Row, NEW start, NEW end, NEW zone, NEW tags, NEW admin,
         UpdateApiKey(start, end, zone, tags, admin)
  PROVE  /\ row'.start = Patched(start, row.start)
         /\ row'.end = Patched(end, row.end)
         /\ row'.zone = Patched(zone, row.zone)
<1>1. row' = [row EXCEPT
                !.start = Patched(start, @), !.end = Patched(end, @),
                !.zone = Patched(zone, @), !.tags = Patched(tags, @),
                !.admin = Patched(admin, @)]
  BY Zenon DEF UpdateApiKey, Store
<1>2. row = [is_active |-> row.is_active, admin |-> row.admin,
             tags |-> row.tags, start |-> row.start, end |-> row.end,
             zone |-> row.zone]
  BY Zenon DEF Row
<1> QED
  BY <1>1, <1>2, Zenon

LEMMA UpdateSound ==
  ASSUME row \in Row, SoundInv, NEW start, NEW end, NEW zone, NEW tags,
         NEW admin, UpdateApiKey(start, end, zone, tags, admin)
  PROVE  SoundInv'
<1> SUFFICES ASSUME ~partial' PROVE Sound(row')
  BY Zenon DEF SoundInv, Sound
<1>a. row # NoRow
  BY NoRowIsNoRow
<1>b. /\ row'.start = Patched(start, row.start)
      /\ row'.end = Patched(end, row.end)
      /\ row'.zone = Patched(zone, row.zone)
  BY PatchedFields
<1>c. partial' = IF Null \notin {start, end, zone} THEN FALSE
                 ELSE partial \/ ({start, end, zone} # {Null}
                                  /\ Null \in {start, end})
  BY Zenon DEF UpdateApiKey
<1>d. Null \notin {start, end} =>
        ValidateAccessWindow(start % Byte, end % Byte, zone)
  BY Zenon DEF UpdateApiKey
<1>e. Null \notin BadZones
  BY KeyAdminAssumption
<1>1. CASE Null \notin {start, end, zone}
  <2>1. zone \notin BadZones
    BY <1>1, <1>d, ValidatedZone
  <2> QED
    BY <1>1, <1>b, <2>1, Zenon DEF Sound, Patched
<1>2. CASE Null \in {start, end, zone} /\ Null \notin {start, end}
  <2>1. zone = Null /\ start # Null /\ end # Null
    BY <1>2
  <2>2. ~partial
    BY <1>2, <1>c
  <2>3. Sound(row)
    BY <1>a, <2>2 DEF SoundInv
  <2> QED
    BY <1>b, <2>1, <2>3, Zenon DEF Sound, Patched
<1>3. CASE Null \in {start, end}
  <2>1. ~partial /\ {start, end, zone} = {Null}
    BY <1>3, <1>c
  <2>2. start = Null /\ end = Null /\ zone = Null
    BY <2>1
  <2>3. Sound(row)
    BY <1>a, <2>1 DEF SoundInv
  <2> QED
    BY <1>b, <2>2, <2>3, Zenon DEF Sound, Patched
<1> QED
  BY <1>1, <1>2, <1>3

\* A command that concerns other columns.
LEMMA OtherColumnsSound ==
  ASSUME row \in Row, SoundInv, ReplaceApiKeyTags \/ RevokeApiKey
  PROVE  SoundInv'
<1>1. /\ \/ \E tags : row' = [row EXCEPT !.tags = tags]
         \/ row' = [row EXCEPT !.is_active = FALSE]
      /\ partial' = partial
  BY Zenon DEF ReplaceApiKeyTags, RevokeApiKey, Store
<1>2. row = [is_active |-> row.is_active, admin |-> row.admin,
             tags |-> row.tags, start |-> row.start, end |-> row.end,
             zone |-> row.zone]
  BY Zenon DEF Row
<1>3. row'.start = row.start /\ row'.end = row.end /\ row'.zone = row.zone
  BY <1>1, <1>2, Zenon
<1>4. row # NoRow
  BY NoRowIsNoRow
<1> QED
  BY <1>1, <1>3, <1>4, Zenon DEF SoundInv, Sound

LEMMA CreateSound ==
  ASSUME CreateKey
  PROVE  SoundInv'
<1>1. PICK start, end, zone, admin, tags :
        /\ ValidateAccessWindow(start, end, zone)
        /\ row' = [is_active |-> TRUE, admin |-> admin, tags |-> tags,
                   start |-> start, end |-> end, zone |-> zone]
  BY Zenon DEF CreateKey, Store
<1>2. row'.start = start /\ row'.end = end /\ row'.zone = zone
  BY <1>1, Zenon
<1>3. zone \notin BadZones
  BY <1>1, ValidatedZone
<1>4. start = Null \/ end = Null => start = Null /\ end = Null /\ zone = Null
  <2>1. Null \in {start, end} => {start, end, zone} = {Null}
    BY <1>1, Zenon DEF ValidateAccessWindow
  <2> QED
    BY <2>1
<1> QED
  BY <1>2, <1>3, <1>4, Zenon DEF SoundInv, Sound

LEMMA NextSoundInv == TypeOK /\ SoundInv /\ [Next]_vars => SoundInv'
<1> SUFFICES ASSUME TypeOK, SoundInv, [Next]_vars PROVE SoundInv'
  OBVIOUS
<1>1. CASE UNCHANGED <<row, partial>>
  BY <1>1, Zenon DEF SoundInv, Sound
<1>2. CASE CreateKey
  BY <1>2, CreateSound
<1>3. ASSUME PatchKey \/ SaveForm \/ ReplaceApiKeyTags \/ RevokeApiKey
      PROVE  SoundInv'
  <2>1. row \in Row
    <3>1. row # NoRow
      BY <1>3, Zenon DEF PatchKey, SaveForm, ReplaceApiKeyTags, RevokeApiKey,
             Editable
    <3> QED
      BY <3>1 DEF TypeOK
  <2>2. CASE ReplaceApiKeyTags \/ RevokeApiKey
    BY <2>1, <2>2, OtherColumnsSound
  <2>3. CASE PatchKey \/ SaveForm
    <3>1. PICK start, end, zone, tags, admin :
            UpdateApiKey(start, end, zone, tags, admin)
      BY <2>3, Zenon DEF PatchKey, SaveForm
    <3> QED
      BY <2>1, <3>1, UpdateSound
  <2> QED
    BY <1>3, <2>2, <2>3
<1>4. ASSUME NEW r \in Requests,
             FetchKey(r) \/ AccessWindowCheck(r) \/ RecordRefusal(r)
      PROVE  UNCHANGED <<row, partial>>
  BY <1>4, Zenon DEF FetchKey, AccessWindowCheck, RecordRefusal, key
<1>5. Page \/ Tick \/ UNCHANGED vars => UNCHANGED <<row, partial>>
  BY Zenon DEF Page, OpenForm, EditForm, CloseForm, Tick, key, vars
<1> QED
  BY <1>1, <1>2, <1>3, <1>4, <1>5 DEF Next, Page

LEMMA InitSoundInv == Init => SoundInv
  BY Zenon DEF Init, SoundInv

\* A window that is half set, or that refuses at every hour because it cannot
\* be evaluated, comes from an update of a part of it only.
THEOREM WholeCommandsKeepWindowsSound == Spec => []WindowSoundUnlessPartial
<1>1. SoundInv => WindowSoundUnlessPartial
  BY SoundWindows
<1>2. TypeOK /\ SoundInv /\ [Next]_vars => TypeOK' /\ SoundInv'
  BY NextTypeOK, NextSoundInv
<1> QED
  BY InitTypeOK, InitSoundInv, <1>1, <1>2, PTL DEF Spec

-----------------------------------------------------------------------------
(***************************************************************************)
(* What the edit page saves                                                *)
(***************************************************************************)

\* A page that is open has its four parts, and shows the row it was opened on
\* until it is edited or somebody else's command succeeds.
Parts == {"open", "fields", "current", "touched"}

PageShape == form.open => DOMAIN form = Parts

ShowsTheRow ==
  form.open /\ form.current /\ ~form.touched => form.fields = Shown(row)

PageInv == PageShape /\ ShowsTheRow

LEMMA ClosedIsNotOpen == ~Closed.open
  BY SMT DEF Closed

LEMMA ClosedPage ==
  ASSUME form' = Closed
  PROVE  PageInv'
<1>1. ~form'.open
  BY ClosedIsNotOpen
<1> QED
  BY <1>1, Zenon DEF PageInv, PageShape, ShowsTheRow

\* Somebody else's command leaves an open page behind.
LEMMA OutdatedPage ==
  ASSUME PageInv, form' = Outdated(form)
  PROVE  PageInv' /\ (form.open => form'.open)
<1>1. CASE ~form.open
  <2>1. form' = form
    BY <1>1, Zenon DEF Outdated
  <2> QED
    BY <1>1, <2>1, Zenon DEF PageInv, PageShape, ShowsTheRow
<1>2. CASE form.open
  <2>1. form' = [form EXCEPT !.current = FALSE]
    BY <1>2, Zenon DEF Outdated
  <2>2. DOMAIN form = Parts
    BY <1>2, Zenon DEF PageInv, PageShape
  <2>3. "current" \in DOMAIN form /\ "open" \in DOMAIN form
    BY <2>2, SMT DEF Parts
  <2>4. DOMAIN form' = DOMAIN form
    BY <2>1, Zenon
  <2>5. form'.current = FALSE
    BY <2>1, <2>3, Zenon
  <2>6. form'.open = form.open
    BY <2>1, <2>3, Zenon
  <2> QED
    BY <1>2, <2>2, <2>4, <2>5, <2>6, Zenon DEF PageInv, PageShape, ShowsTheRow
<1> QED
  BY <1>1, <1>2

LEMMA OpenedPage ==
  ASSUME OpenForm
  PROVE  PageInv'
<1>1. /\ form' = [open |-> TRUE, fields |-> Shown(row), current |-> TRUE,
                  touched |-> FALSE]
      /\ row' = row
  BY Zenon DEF OpenForm, key
<1>2. DOMAIN form' = Parts
  BY <1>1, SMT DEF Parts
<1>3. form'.fields = Shown(row)
  BY <1>1, Zenon
<1>4. Shown(row') = Shown(row)
  BY <1>1
<1> QED
  BY <1>2, <1>3, <1>4, Zenon DEF PageInv, PageShape, ShowsTheRow

LEMMA EditedPage ==
  ASSUME PageInv, EditForm
  PROVE  PageInv' /\ form'.open
<1>1. PICK start, end, zone :
        form' = [form EXCEPT !.touched = TRUE,
                   !.fields = [@ EXCEPT !.start = start, !.end = end,
                                        !.zone = zone]]
  BY Zenon DEF EditForm
<1>2. form.open
  BY Zenon DEF EditForm
<1>3. DOMAIN form = Parts
  BY <1>2, Zenon DEF PageInv, PageShape
<1>4. "touched" \in DOMAIN form /\ "open" \in DOMAIN form
  BY <1>3, SMT DEF Parts
<1>5. DOMAIN form' = DOMAIN form
  BY <1>1, Zenon
<1>6. form'.touched = TRUE
  BY <1>1, <1>4, Zenon
<1>7. form'.open = form.open
  BY <1>1, <1>4, Zenon
<1> QED
  BY <1>2, <1>3, <1>5, <1>6, <1>7, Zenon DEF PageInv, PageShape, ShowsTheRow

LEMMA KeptPage ==
  ASSUME PageInv, UNCHANGED <<row, form>>
  PROVE  PageInv'
<1>1. Shown(row') = Shown(row) /\ form' = form
  BY Zenon
<1> QED
  BY <1>1, Zenon DEF PageInv, PageShape, ShowsTheRow

LEMMA NextPageInv == TypeOK /\ PageInv /\ [Next]_vars => PageInv'
<1> SUFFICES ASSUME TypeOK, PageInv, [Next]_vars PROVE PageInv'
  OBVIOUS
<1>1. CASE CreateKey
  <2>1. ~form.open /\ form' = form
    BY <1>1, Zenon DEF CreateKey, TypeOK
  <2> QED
    BY <2>1, Zenon DEF PageInv, PageShape, ShowsTheRow
<1>2. CASE PatchKey \/ ReplaceApiKeyTags \/ RevokeApiKey
  <2>1. form' = Outdated(form)
    BY <1>2, Zenon DEF PatchKey, ReplaceApiKeyTags, RevokeApiKey
  <2> QED
    BY <2>1, OutdatedPage
<1>3. CASE OpenForm
  BY <1>3, OpenedPage
<1>4. CASE EditForm
  BY <1>4, EditedPage
<1>5. CASE SaveForm \/ CloseForm
  <2>1. form' = Closed
    BY <1>5, Zenon DEF SaveForm, CloseForm
  <2> QED
    BY <2>1, ClosedPage
<1>6. ASSUME NEW r \in Requests,
             FetchKey(r) \/ AccessWindowCheck(r) \/ RecordRefusal(r)
      PROVE  UNCHANGED <<row, form>>
  BY <1>6, Zenon DEF FetchKey, AccessWindowCheck, RecordRefusal, key
<1>7. Tick \/ UNCHANGED vars => UNCHANGED <<row, form>>
  BY Zenon DEF Tick, key, vars
<1> QED
  BY <1>1, <1>2, <1>3, <1>4, <1>5, <1>6, <1>7, KeptPage DEF Next

\* Who closes a page.
LEMMA PageCloses ==
  ASSUME PageInv, [Next]_vars, form.open, ~form'.open
  PROVE  SaveForm \/ CloseForm
<1>1. form' = Outdated(form) => form'.open
  BY OutdatedPage
<1>2. PatchKey \/ ReplaceApiKeyTags \/ RevokeApiKey => form'.open
  BY <1>1, Zenon DEF PatchKey, ReplaceApiKeyTags, RevokeApiKey
<1>3. CreateKey \/ Tick \/ UNCHANGED vars => form'.open
  BY Zenon DEF CreateKey, Tick, vars
<1>4. ASSUME NEW r \in Requests,
             FetchKey(r) \/ AccessWindowCheck(r) \/ RecordRefusal(r)
      PROVE  form'.open
  BY <1>4, Zenon DEF FetchKey, AccessWindowCheck, RecordRefusal
<1>5. ~OpenForm
  BY Zenon DEF OpenForm
<1>6. EditForm => form'.open
  BY EditedPage
<1> QED
  BY <1>2, <1>3, <1>4, <1>5, <1>6 DEF Next

\* A window is open at the hours its three columns say.
LEMMA SameHours ==
  ASSUME row'.start = row.start, row'.end = row.end, row'.zone = row.zone
  PROVE  OpenHours(row') = OpenHours(row)
  BY Zenon DEF OpenHours

\* What the page sends of a row that it still shows.
LEMMA SavedAsShown ==
  ASSUME row \in Row, SaveForm, form.fields = Shown(row)
  PROVE  \/ OpenHours(row') = OpenHours(row)
         \/ /\ row.zone \in NoZone
            /\ OpenHours(row') = OpenHours([row EXCEPT !.zone = BrowserZone])
<1>1. /\ form.fields.start = row.start /\ form.fields.end = row.end
      /\ form.fields.zone = IF row.zone \in NoZone THEN BrowserZone
                            ELSE row.zone
  <2>1. /\ Shown(row).start = row.start /\ Shown(row).end = row.end
        /\ Shown(row).zone = IF row.zone \in NoZone THEN BrowserZone
                            ELSE row.zone
    BY Zenon DEF Shown
  <2> QED
    BY <2>1
<1>2. CASE Null \in {row.start, row.end}
  <2>1. UpdateApiKey(Null, Null, Null, form.fields.tags, Null)
    BY <1>1, <1>2, Zenon DEF SaveForm
  <2>2. /\ row'.start = Patched(Null, row.start)
        /\ row'.end = Patched(Null, row.end)
        /\ row'.zone = Patched(Null, row.zone)
    BY <2>1, PatchedFields
  <2>3. row'.start = row.start /\ row'.end = row.end /\ row'.zone = row.zone
    BY <2>2, Zenon DEF Patched
  <2> QED
    BY <2>3, SameHours
<1>3. CASE Null \notin {row.start, row.end}
  <2>1. UpdateApiKey(form.fields.start, form.fields.end, form.fields.zone,
                     form.fields.tags, Null)
    BY <1>1, <1>3, Zenon DEF SaveForm
  <2>2. /\ row'.start = Patched(form.fields.start, row.start)
        /\ row'.end = Patched(form.fields.end, row.end)
        /\ row'.zone = Patched(form.fields.zone, row.zone)
    BY <2>1, PatchedFields
  <2>3. row'.start = row.start /\ row'.end = row.end
    BY <1>1, <2>2, Zenon DEF Patched
  <2>4. CASE row.zone \notin NoZone
    <3>1. row'.zone = row.zone
      BY <1>1, <2>2, <2>4, Zenon DEF Patched
    <3> QED
      BY <2>3, <3>1, SameHours
  <2>5. CASE row.zone \in NoZone
    <3> DEFINE browser == [row EXCEPT !.zone = BrowserZone]
    <3>1. /\ browser.start = row.start /\ browser.end = row.end
          /\ browser.zone = BrowserZone
      <4>1. row = [is_active |-> row.is_active, admin |-> row.admin,
                   tags |-> row.tags, start |-> row.start, end |-> row.end,
                   zone |-> row.zone]
        BY Zenon DEF Row
      <4> QED
        BY <4>1, Zenon
    <3>2. BrowserZone # Null
      BY KeyAdminAssumption
    <3>3. row'.zone = BrowserZone
      BY <1>1, <2>2, <2>5, <3>2, Zenon DEF Patched
    <3>4. OpenHours(row') = OpenHours(browser)
      BY <2>3, <3>1, <3>3, Zenon DEF OpenHours
    <3> QED
      BY <2>5, <3>4
  <2> QED
    BY <2>4, <2>5
<1> QED
  BY <1>2, <1>3

\* An edit page that is saved as it was opened, with nobody else's command in
\* between, leaves the hours of the key as they were, or, when its window had
\* no zone or an empty one, makes them the same hours in the browser's zone.
THEOREM SavingWhatIsShownKeepsHours == Spec => UntouchedFormKeepsHours
<1> DEFINE Closing ==
      form.open /\ ~form'.open /\ form.current /\ ~form.touched =>
        \/ OpenHours(row') = OpenHours(row)
        \/ /\ row.zone \in NoZone
           /\ OpenHours(row') = OpenHours([row EXCEPT !.zone = BrowserZone])
<1>1. TypeOK /\ PageInv /\ [Next]_vars => [Closing]_vars
  <2> SUFFICES ASSUME TypeOK, PageInv, [Next]_vars,
                      form.open, ~form'.open, form.current, ~form.touched
               PROVE  \/ OpenHours(row') = OpenHours(row)
                      \/ /\ row.zone \in NoZone
                         /\ OpenHours(row') =
                              OpenHours([row EXCEPT !.zone = BrowserZone])
    BY Zenon
  <2>1. row \in Row /\ form.fields = Shown(row)
    BY Zenon DEF TypeOK, PageInv, ShowsTheRow
  <2>2. CASE SaveForm
    BY <2>1, <2>2, SavedAsShown
  <2>3. CASE CloseForm
    BY <2>3, SameHours, Zenon DEF CloseForm, key
  <2> QED
    BY <2>2, <2>3, PageCloses
<1>2. Init => PageInv
  <2> SUFFICES ASSUME Init PROVE PageInv
    OBVIOUS
  <2>1. form = Closed /\ ~form.open
    BY ClosedIsNotOpen DEF Init
  <2> QED
    BY <2>1, Zenon DEF PageInv, PageShape, ShowsTheRow
<1>3. TypeOK /\ PageInv /\ [Next]_vars => TypeOK' /\ PageInv'
  BY NextTypeOK, NextPageInv
<1> QED
  BY InitTypeOK, <1>1, <1>2, <1>3, PTL DEF Spec, UntouchedFormKeepsHours

=============================================================================
