-------------------------- MODULE MiddlewareProofs --------------------------
(***************************************************************************)
(* What a request's scripts and its audit rows say of each other, proved   *)
(* for every number of requests, of scripts and of edits.                  *)
(***************************************************************************)
EXTENDS Middleware, FiniteSetTheorems, TLAPS

(***************************************************************************)
(* The invariant                                                           *)
(***************************************************************************)

First == "request.pre_governance"
Second == "request.pre_upstream"

\* Where a request is that has neither been blocked nor dropped.
Going == {"load", "run", "record", "between", "sent"}

Entry == [id : Configs, failure_mode : FailureModes]

Run == [id : Configs, phase : Phases, failure_mode : FailureModes,
        outcome : {"continue", "block", "error"}, body : BOOLEAN]

AuditRow == [request : Requests, config : Configs \cup {Client},
             phase : Phases, status : {"blocked", "success", "error"},
             action : {"block", "continue"}, body_changed : BOOLEAN]

Tables ==
  /\ row \in [Configs -> Row]
  /\ \A c \in Configs : row[c].bound => row[c].exists
  /\ edits \in 0 .. MaxEdits
  /\ audit \in Seq(AuditRow)
  /\ \A i \in 1 .. Len(audit) :
       audit[i].config = Client \/ row[audit[i].config].exists

Locals ==
  /\ pc \in [Requests -> Active \cup {"idle", "sent", "blocked", "dropped"}]
  /\ phase \in [Requests -> Phases]
  /\ chain \in [Requests -> Seq(Entry)]
  /\ result \in [Requests -> Results \cup {NoResult}]
  /\ input \in [Requests -> [body : Configs \cup {Client},
                             headers : Configs \cup {Client}]]
  /\ sent \in [Requests -> SUBSET Configs]
  /\ ran \in [Requests -> Seq(Run)]
  /\ touched \in [Requests -> SUBSET Configs]
  /\ silent \in SUBSET Requests

\* The scripts a request has loaded and not run: the first of its chain is
\* being recorded after it ran.
Left(r) == {j \in 1 .. Len(chain[r]) : pc[r] = "record" => j > 1}

\* What the place a request is at says of its locals.
Shape(r) ==
  /\ pc[r] = "idle" => phase[r] = First /\ ran[r] = <<>>
  /\ pc[r] \in {"idle", "load", "between", "sent"} => chain[r] = <<>>
  /\ pc[r] = "between" => phase[r] = First
  /\ pc[r] = "sent" => phase[r] = Second
  /\ pc[r] = "record" =>
       /\ chain[r] # <<>> /\ ran[r] # <<>> /\ result[r] \in Results
       /\ ran[r][Len(ran[r])] =
            [id |-> Head(chain[r]).id, phase |-> phase[r],
             failure_mode |-> Head(chain[r]).failure_mode,
             outcome |-> result[r].kind, body |-> ChangesBody(result[r])]

\* A script runs in the phase it was loaded for.
Phased(r) ==
  \A i \in 1 .. Len(ran[r]) :
    /\ phase[r] = First => ran[r][i].phase = First
    /\ pc[r] = "load" => ran[r][i].phase # phase[r]

Passed(x) ==
  x.outcome = "continue" \/ (x.outcome = "error" /\ x.failure_mode = "fail_open")

\* A request that goes on passed every script it ran, but for the one that is
\* being recorded.
PassedAll(r) ==
  pc[r] \in Going =>
    \A i \in 1 .. Len(ran[r]) :
      (pc[r] = "record" /\ i = Len(ran[r])) \/ Passed(ran[r][i])

\* The phases whose scripts a request has loaded.
Due(r) ==
  {p \in Phases :
     \/ p = First /\ (phase[r] = Second \/ pc[r] \in {"run", "record", "between"})
     \/ p = Second /\ phase[r] = Second /\ pc[r] \in {"run", "record", "sent"}}

\* Of the scripts that stood unchanged, those that were due ran or are left.
Covered(r) ==
  pc[r] \in Going =>
    \A c \in Configs \ touched[r] :
      row[c].bound /\ row[c].enabled /\ row[c].phase \in Due(r) =>
        \/ \E i \in 1 .. Len(ran[r]) : ran[r][i].id = c
        \/ \E j \in Left(r) : chain[r][j].id = c

\* Of two scripts that stood unchanged, c goes before d.
Before(r, c, d) == {c, d} \cap touched[r] = {} => Precedes(c, d)

\* What ran in one phase, then what is left of it, is in order.
RanInOrder(r) ==
  \A i, j \in 1 .. Len(ran[r]) :
    i < j /\ ran[r][i].phase = ran[r][j].phase =>
      Before(r, ran[r][i].id, ran[r][j].id)

LeftAfterRan(r) ==
  \A i \in 1 .. Len(ran[r]) : \A j \in Left(r) :
    ran[r][i].phase = phase[r] => Before(r, ran[r][i].id, chain[r][j].id)

LeftInOrder(r) ==
  \A i, j \in Left(r) :
    i < j => Before(r, chain[r][i].id, chain[r][j].id)

Ordered(r) ==
  pc[r] \in Going => RanInOrder(r) /\ LeftAfterRan(r) /\ LeftInOrder(r)

\* The runs that changed the body, but for the one that is being recorded: its
\* result has not been applied.
Applied(r) ==
  {i \in 1 .. Len(ran[r]) :
     ran[r][i].body /\ ~(pc[r] = "record" /\ i = Len(ran[r]))}

\* The body is the one the last of them made.
Written(r) ==
  pc[r] \notin {"blocked", "dropped"} =>
    MadeByLast(ran[r], Applied(r), input[r].body)

\* The rows of a request are those of the scripts that it ran to the end.
Recorded(r) ==
  r \notin silent =>
    /\ pc[r] # "dropped" =>
         Cardinality(Rows(r)) = Len(ran[r]) - (IF pc[r] = "record" THEN 1 ELSE 0)
    /\ pc[r] = "blocked" =>
         \E i \in Rows(r) :
           (\A j \in Rows(r) : j <= i) /\ audit[i].action = "block"
    /\ pc[r] \notin {"blocked", "dropped"} =>
         \A i \in Rows(r) : audit[i].action = "continue"

RequestInv(r) ==
  /\ Shape(r) /\ Phased(r) /\ PassedAll(r) /\ Covered(r) /\ Ordered(r)
  /\ Written(r) /\ Recorded(r)

Inv == Tables /\ Locals /\ \A r \in Requests : RequestInv(r)

-----------------------------------------------------------------------------
(***************************************************************************)
(* Sequences and lists of scripts                                          *)
(***************************************************************************)

\* A list that is not empty has a head, and a tail that lacks only that.
LEMMA HeadAndTail ==
  ASSUME NEW S, NEW s \in Seq(S), s # <<>>
  PROVE  /\ Len(s) \in Nat /\ 1 \in 1 .. Len(s)
         /\ Head(s) = s[1] /\ Head(s) \in S
         /\ Tail(s) \in Seq(S)
         /\ \A i \in 1 .. Len(Tail(s)) :
              Tail(s)[i] = s[i + 1] /\ i + 1 \in 1 .. Len(s)
         /\ \A i \in 1 .. Len(s) :
              i = 1 \/ (i - 1 \in 1 .. Len(Tail(s)) /\ Tail(s)[i - 1] = s[i])
  BY SMT

LEMMA Appended ==
  ASSUME NEW S, NEW s \in Seq(S), NEW x \in S, NEW t, t = Append(s, x)
  PROVE  /\ t \in Seq(S) /\ t # <<>>
         /\ Len(s) \in Nat /\ Len(t) = Len(s) + 1
         /\ \A i \in 1 .. Len(s) : t[i] = s[i]
         /\ t[Len(s) + 1] = x
         /\ 1 .. Len(t) = (1 .. Len(s)) \cup {Len(s) + 1}
         /\ Len(s) + 1 \notin 1 .. Len(s)
<1>1. /\ t \in Seq(S) /\ Len(s) \in Nat /\ Len(t) = Len(s) + 1
      /\ \A i \in 1 .. Len(s) : t[i] = s[i]
      /\ t[Len(s) + 1] = x
  BY SMT
<1>2. t # <<>>
  BY <1>1, SMT
<1>3. ASSUME NEW n \in Nat
      PROVE  1 .. (n + 1) = (1 .. n) \cup {n + 1} /\ n + 1 \notin 1 .. n
  BY SMT
<1> QED
  BY <1>1, <1>2, <1>3

LEMMA Empty ==
  ASSUME NEW S, NEW s \in Seq(S)
  PROVE  /\ DOMAIN s = 1 .. Len(s)
         /\ s = <<>> => Len(s) = 0 /\ \A i \in 1 .. Len(s) : FALSE
  BY SMT

\* What the query returns: every script that is due, in order.
LEMMA LoadedChain ==
  ASSUME Tables, NEW p \in Phases, NEW order \in Sorted(p),
         NEW l, l = Loaded(order)
  PROVE  /\ l \in Seq(Entry)
         /\ \A i, j \in 1 .. Len(l) : i < j => Precedes(l[i].id, l[j].id)
         /\ \A c \in Bound(p) : \E i \in 1 .. Len(l) : l[i].id = c
<1> DEFINE n == Cardinality(Bound(p))
<1>1. n \in Nat /\ IsFiniteSet(Bound(p))
  <2>1. Bound(p) \subseteq Configs
    BY DEF Bound
  <2> QED
    BY <2>1, MiddlewareAssumption, FS_Subset, FS_CardinalityType
<1>2. order \in [1 .. n -> Bound(p)]
  BY DEF Sorted
<1>3. /\ DOMAIN order = 1 .. n
      /\ \A i, j \in 1 .. n : i < j => Precedes(order[i], order[j])
  BY <1>2, Zenon DEF Sorted
<1> HIDE DEF n
<1>4. \A i \in 1 .. n : /\ order[i] \in Configs
                        /\ row[order[i]] \in Row
                        /\ row[order[i]].failure_mode \in FailureModes
                        /\ row[order[i]].priority \in Int
  <2> SUFFICES ASSUME NEW i \in 1 .. n
               PROVE  /\ order[i] \in Configs
                      /\ row[order[i]] \in Row
                      /\ row[order[i]].failure_mode \in FailureModes
                      /\ row[order[i]].priority \in Int
    OBVIOUS
  <2>1. order[i] \in Configs
    BY <1>2 DEF Bound
  <2>2. row[order[i]] \in Row
    BY <2>1 DEF Tables
  <2>3. /\ row[order[i]].failure_mode \in FailureModes
        /\ row[order[i]].priority \in Priorities
    BY <2>2, Zenon DEF Row
  <2> QED
    BY <2>1, <2>2, <2>3, MiddlewareAssumption, Zenon
<1>5. /\ DOMAIN l = 1 .. n
      /\ \A i \in 1 .. n : /\ l[i] = [id |-> order[i],
                                      failure_mode |-> row[order[i]].failure_mode]
                           /\ l[i].id = order[i]
  BY <1>3, Zenon DEF Loaded
<1>6. l \in [1 .. n -> Entry]
  <2>1. l = [i \in 1 .. n |-> [id |-> order[i],
                               failure_mode |-> row[order[i]].failure_mode]]
    BY <1>3, Zenon DEF Loaded
  <2>2. \A i \in 1 .. n : [id |-> order[i],
                           failure_mode |-> row[order[i]].failure_mode] \in Entry
    BY <1>4, SMT DEF Entry
  <2> QED
    BY <2>1, <2>2, Zenon
<1>7. l \in Seq(Entry) /\ Len(l) = n
  BY <1>1, <1>6, SMT
<1>8. \A i, j \in 1 .. n : order[i] = order[j] => i = j
  <2>1. ASSUME NEW c \in Configs, row[c].priority \in Int PROVE ~Precedes(c, c)
    <3>1. c \in Int
      BY MiddlewareAssumption, FS_CardinalityType, SMT
    <3> QED
      BY <2>1, <3>1, SMT DEF Precedes
  <2>2. \A i, j \in 1 .. n : i < j => order[i] # order[j]
    BY <1>3, <1>4, <2>1, Zenon
  <2> QED
    BY <1>1, <2>2, SMT
<1>9. order \in Surjection(1 .. n, Bound(p))
  <2>1. order \in Injection(1 .. n, Bound(p))
    BY <1>2, <1>8, Zenon DEF Injection, IsInjective
  <2>2. Cardinality(1 .. n) = n /\ IsFiniteSet(1 .. n)
    BY <1>1, FS_Interval, SMT
  <2> QED
    BY <1>1, <2>1, <2>2, FS_Injection DEF n
<1>10. \A c \in Bound(p) : \E i \in 1 .. n : order[i] = c
  BY <1>9, Zenon DEF Surjection
<1>11. \A i, j \in 1 .. n : i < j => Precedes(l[i].id, l[j].id)
  BY <1>3, <1>5, Zenon
<1>12. \A c \in Bound(p) : \E i \in 1 .. n : l[i].id = c
  <2> SUFFICES ASSUME NEW c \in Bound(p) PROVE \E i \in 1 .. n : l[i].id = c
    OBVIOUS
  <2>1. PICK i \in 1 .. n : order[i] = c
    BY <1>10
  <2>2. l[i].id = c
    BY <1>5, <2>1
  <2> QED
    BY <2>2
<1>13. 1 .. Len(l) = 1 .. n
  BY <1>7
<1>14. \A i, j \in 1 .. Len(l) : i < j => Precedes(l[i].id, l[j].id)
  BY <1>11, <1>13, Zenon
<1>15. \A c \in Bound(p) : \E i \in 1 .. Len(l) : l[i].id = c
  BY <1>12, <1>13, Zenon
<1> QED
  BY <1>7, <1>14, <1>15

-----------------------------------------------------------------------------
(***************************************************************************)
(* The audit rows                                                          *)
(***************************************************************************)

\* A row more, of one request.
LEMMA RowAppended ==
  ASSUME audit \in Seq(AuditRow), NEW a \in AuditRow, audit' = Append(audit, a)
  PROVE  /\ audit' \in Seq(AuditRow)
         /\ Len(audit) \in Nat /\ Len(audit') = Len(audit) + 1
         /\ \A i \in 1 .. Len(audit) : audit'[i] = audit[i]
         /\ audit'[Len(audit) + 1] = a
         /\ \A q : q # a.request => Rows(q)' = Rows(q)
         /\ Rows(a.request)' = Rows(a.request) \cup {Len(audit) + 1}
         /\ \A q : \A i \in Rows(q) : i < Len(audit) + 1 /\ audit'[i] = audit[i]
<1> DEFINE n == Len(audit) + 1
<1>1. /\ audit' \in Seq(AuditRow) /\ Len(audit) \in Nat
      /\ Len(audit') = n /\ audit'[n] = a
      /\ \A i \in 1 .. Len(audit) : audit'[i] = audit[i]
      /\ 1 .. Len(audit') = (1 .. Len(audit)) \cup {n}
  BY Appended
<1>2. DOMAIN audit = 1 .. Len(audit) /\ DOMAIN audit' = 1 .. Len(audit')
  BY <1>1, Empty
<1>3. \A i \in 1 .. Len(audit) : i < n
  BY <1>1, SMT
<1> HIDE DEF n
<1>4. \A q : q # a.request => Rows(q)' = Rows(q)
  BY <1>1, <1>2, Zenon DEF Rows
<1>5. Rows(a.request)' = Rows(a.request) \cup {n}
  BY <1>1, <1>2, Zenon DEF Rows
<1>6. \A q : \A i \in Rows(q) : i < n /\ audit'[i] = audit[i]
  BY <1>1, <1>2, <1>3, Zenon DEF Rows
<1> QED
  BY <1>1, <1>4, <1>5, <1>6 DEF n

LEMMA RowsFinite ==
  ASSUME audit \in Seq(AuditRow), NEW q
  PROVE  /\ IsFiniteSet(Rows(q)) /\ Cardinality(Rows(q)) \in Nat
         /\ Rows(q) \subseteq 1 .. Len(audit)
<1>1. Rows(q) \subseteq 1 .. Len(audit) /\ Len(audit) \in Nat
  BY Empty DEF Rows
<1>2. IsFiniteSet(1 .. Len(audit))
  BY <1>1, FS_Interval
<1> QED
  BY <1>1, <1>2, FS_Subset, FS_CardinalityType

-----------------------------------------------------------------------------
(***************************************************************************)
(* What a request keeps while others take steps                            *)
(***************************************************************************)

Kept(q) ==
  /\ pc'[q] = pc[q]
  /\ phase'[q] = phase[q]
  /\ chain'[q] = chain[q]
  /\ result'[q] = result[q]
  /\ input'[q] = input[q]
  /\ ran'[q] = ran[q]

RowsKept(q) ==
  /\ q \in silent => q \in silent'
  /\ Rows(q)' = Rows(q)
  /\ \A i \in Rows(q) : audit'[i].action = audit[i].action

\* A request whose locals and audit rows stay, and for which the scripts that
\* stand are those that stood, keeps what is known of it.
LEMMA OthersKeep ==
  ASSUME Locals, NEW q \in Requests, RequestInv(q), Kept(q), RowsKept(q),
         pc[q] # "idle" =>
           /\ touched[q] \subseteq touched'[q]
           /\ \A d \in Configs \ touched'[q] : row'[d] = row[d]
  PROVE  RequestInv(q)'
<1>1. Shape(q)'
  BY Zenon DEF RequestInv, Shape, Kept
<1>2. Phased(q)' /\ PassedAll(q)'
  BY Zenon DEF RequestInv, Phased, PassedAll, Kept
<1>3. Written(q)'
  <2>1. Applied(q)' = Applied(q)
    BY Zenon DEF Applied, Kept
  <2> QED
    BY <2>1, Zenon DEF RequestInv, Written, Kept
<1>4. Recorded(q)'
  BY Zenon DEF RequestInv, Recorded, Kept, RowsKept
<1>5. Left(q)' = Left(q) /\ Due(q)' = Due(q)
  BY Zenon DEF Kept, Left, Due
<1>6. pc[q] \in Going => pc[q] # "idle"
  BY DEF Going
<1>7. Covered(q)'
  <2> SUFFICES ASSUME pc'[q] \in Going, NEW c \in Configs \ touched'[q],
                      row'[c].bound /\ row'[c].enabled,
                      row'[c].phase \in Due(q)'
               PROVE  \/ \E i \in 1 .. Len(ran'[q]) : ran'[q][i].id = c
                      \/ \E j \in Left(q)' : chain'[q][j].id = c
    BY Zenon DEF Covered
  <2>1. pc[q] \in Going /\ pc[q] # "idle"
    BY <1>6 DEF Kept
  <2>2. row'[c] = row[c] /\ c \in Configs \ touched[q]
    BY <2>1
  <2>3. \/ \E i \in 1 .. Len(ran[q]) : ran[q][i].id = c
        \/ \E j \in Left(q) : chain[q][j].id = c
    BY <1>5, <2>1, <2>2, Zenon DEF RequestInv, Covered
  <2> QED
    BY <1>5, <2>3, Zenon DEF Kept
<1>8. ASSUME NEW c \in Configs, NEW d \in Configs, pc[q] \in Going,
             Before(q, c, d)
      PROVE  Before(q, c, d)'
  <2> SUFFICES ASSUME {c, d} \cap touched'[q] = {} PROVE Precedes(c, d)'
    BY Zenon DEF Before
  <2>1. row'[c] = row[c] /\ row'[d] = row[d] /\ {c, d} \cap touched[q] = {}
    BY <1>6, <1>8, Zenon
  <2> QED
    BY <1>8, <2>1, Zenon DEF Before, Precedes
<1>9. /\ \A i \in 1 .. Len(ran[q]) : ran[q][i].id \in Configs
      /\ \A j \in Left(q) : chain[q][j].id \in Configs
  <2>1. ran[q] \in Seq(Run) /\ chain[q] \in Seq(Entry)
    BY DEF Locals
  <2>2. /\ \A i \in 1 .. Len(ran[q]) : ran[q][i] \in Run
        /\ \A j \in 1 .. Len(chain[q]) : chain[q][j] \in Entry
    BY <2>1, SMT
  <2> QED
    BY <2>2, Zenon DEF Run, Entry, Left
<1>10. Ordered(q)'
  <2> SUFFICES ASSUME pc[q] \in Going
               PROVE  RanInOrder(q)' /\ LeftAfterRan(q)' /\ LeftInOrder(q)'
    BY DEF Ordered, Kept
  <2>1. RanInOrder(q) /\ LeftAfterRan(q) /\ LeftInOrder(q)
    BY DEF RequestInv, Ordered
  <2>2. \A c, d \in Configs : Before(q, c, d) => Before(q, c, d)'
    BY <1>8
  <2>3. ran'[q] = ran[q] /\ chain'[q] = chain[q] /\ phase'[q] = phase[q]
    BY DEF Kept
  <2>4. RanInOrder(q)'
    BY <1>9, <2>1, <2>2, <2>3, Zenon DEF RanInOrder
  <2>5. LeftAfterRan(q)'
    BY <1>5, <1>9, <2>1, <2>2, <2>3, Zenon DEF LeftAfterRan
  <2>6. LeftInOrder(q)'
    BY <1>5, <1>9, <2>1, <2>2, <2>3, Zenon DEF LeftInOrder
  <2> QED
    BY <2>4, <2>5, <2>6
<1> QED
  BY <1>1, <1>2, <1>3, <1>4, <1>7, <1>10 DEF RequestInv

-----------------------------------------------------------------------------
(***************************************************************************)
(* Administrators                                                          *)
(***************************************************************************)

\* One audit row whose config is gone.
LEMMA UnlinkedRow ==
  ASSUME NEW a \in AuditRow, NEW b, b = [a EXCEPT !.config = Client]
  PROVE  /\ b \in AuditRow /\ b.request = a.request /\ b.action = a.action
         /\ b.config = Client
<1>1. b = [request |-> a.request, config |-> Client, phase |-> a.phase,
           status |-> a.status, action |-> a.action,
           body_changed |-> a.body_changed]
  BY Zenon DEF AuditRow
<1>2. /\ a.request \in Requests /\ a.phase \in Phases
      /\ a.status \in {"blocked", "success", "error"}
      /\ a.action \in {"block", "continue"} /\ a.body_changed \in BOOLEAN
  BY Zenon DEF AuditRow
<1> QED
  BY <1>1, <1>2, SMT DEF AuditRow

\* The audit rows that DeleteMiddlewareConfig leaves: their config is gone.
LEMMA Unlinked ==
  ASSUME audit \in Seq(AuditRow), NEW c \in Configs,
         audit' = [i \in DOMAIN audit |->
                     IF audit[i].config = c
                     THEN [audit[i] EXCEPT !.config = Client] ELSE audit[i]]
  PROVE  /\ audit' \in Seq(AuditRow) /\ Len(audit') = Len(audit)
         /\ \A i \in 1 .. Len(audit) :
              /\ audit'[i].request = audit[i].request
              /\ audit'[i].action = audit[i].action
              /\ audit'[i].config = IF audit[i].config = c THEN Client
                                    ELSE audit[i].config
         /\ \A q : Rows(q)' = Rows(q)
<1> DEFINE n == Len(audit)
<1>1. n \in Nat /\ DOMAIN audit = 1 .. n
  BY Empty
<1>2. \A i \in 1 .. n : audit[i] \in AuditRow
  BY SMT
<1>3. DOMAIN audit' = 1 .. n
  BY <1>1
<1>4. ASSUME NEW i \in 1 .. n
      PROVE  /\ audit'[i] \in AuditRow
             /\ audit'[i].request = audit[i].request
             /\ audit'[i].action = audit[i].action
             /\ audit'[i].config = IF audit[i].config = c THEN Client
                                   ELSE audit[i].config
  <2>1. audit'[i] = IF audit[i].config = c
                    THEN [audit[i] EXCEPT !.config = Client] ELSE audit[i]
    BY <1>1, Zenon
  <2>2. audit[i] \in AuditRow
    BY <1>2
  <2>3. CASE audit[i].config = c
    <3>1. audit'[i] = [audit[i] EXCEPT !.config = Client]
      BY <2>1, <2>3, Zenon
    <3> QED
      BY <2>2, <2>3, <3>1, UnlinkedRow
  <2>4. CASE audit[i].config # c
    <3>1. audit'[i] = audit[i]
      BY <2>1, <2>4, Zenon
    <3> QED
      BY <2>2, <2>4, <3>1
  <2> QED
    BY <2>3, <2>4
<1>5. audit' \in Seq(AuditRow) /\ Len(audit') = n
  <2>1. audit' = [i \in 1 .. n |-> audit'[i]]
    BY <1>1, Zenon
  <2>2. audit' \in [1 .. n -> AuditRow]
    BY <1>4, <2>1, Zenon
  <2> HIDE DEF n
  <2> QED
    BY <1>1, <2>2, SMT
<1>6. \A q : Rows(q)' = Rows(q)
  BY <1>1, <1>3, <1>4, Zenon DEF Rows
<1> QED
  BY <1>4, <1>5, <1>6

\* The tables after an edit that leaves a row bound only if it exists.
LEMMA EditStep ==
  ASSUME Tables, Locals, \A q \in Requests : RequestInv(q),
         NEW c \in Configs, NEW x \in Row, Edit(c, x), x.bound => x.exists,
         \/ audit' = audit /\ (row[c].exists => x.exists)
         \/ audit' = [i \in DOMAIN audit |->
                        IF audit[i].config = c
                        THEN [audit[i] EXCEPT !.config = Client] ELSE audit[i]]
  PROVE  Inv'
<1>1. /\ row' \in [Configs -> Row] /\ row'[c] = x
      /\ \A d \in Configs : d # c => row'[d] = row[d]
  BY SMT DEF Edit, Tables
<1>2. edits' \in 0 .. MaxEdits
  BY MiddlewareAssumption, SMT DEF Edit, Tables
<1>3. UNCHANGED <<pc, phase, chain, result, input, sent, ran, silent>>
  BY DEF Edit
<1>4. touched' = [r \in Requests |-> IF pc[r] = "idle" THEN {}
                                     ELSE touched[r] \cup {c}]
  BY DEF Edit
<1>5. /\ audit' \in Seq(AuditRow) /\ Len(audit') = Len(audit)
      /\ \A q : Rows(q)' = Rows(q)
      /\ \A i \in 1 .. Len(audit) : audit'[i].action = audit[i].action
  BY Unlinked, Zenon DEF Tables, Rows
<1>6. \A i \in 1 .. Len(audit') :
        audit'[i].config = Client \/ row'[audit'[i].config].exists
  <2> SUFFICES ASSUME NEW i \in 1 .. Len(audit), audit'[i].config # Client
               PROVE  row'[audit'[i].config].exists
    BY <1>5
  <2>1. audit[i] \in AuditRow /\ audit \in Seq(AuditRow)
    BY SMT DEF Tables
  <2>2. audit[i].config \in Configs \cup {Client}
    BY <2>1, Zenon DEF AuditRow
  <2>3. CASE audit' = audit /\ (row[c].exists => x.exists)
    <3>1. row[audit[i].config].exists /\ audit[i].config \in Configs
      BY <2>2, <2>3, Zenon DEF Tables
    <3> QED
      BY <1>1, <2>3, <3>1, Zenon
  <2>4. ASSUME ~(audit' = audit /\ (row[c].exists => x.exists))
        PROVE  row'[audit'[i].config].exists
    <3>1. audit'[i].config = IF audit[i].config = c THEN Client
                             ELSE audit[i].config
      BY <2>1, <2>4, Unlinked, Zenon
    <3>2. audit[i].config # c /\ audit'[i].config = audit[i].config
      BY <3>1, Zenon
    <3>3. row[audit[i].config].exists /\ audit[i].config \in Configs
      BY <2>2, <3>2, Zenon DEF Tables
    <3> QED
      BY <1>1, <3>2, <3>3, Zenon
  <2> QED
    BY <2>3, <2>4
<1>7. Tables'
  <2>1. \A d \in Configs : row'[d].bound => row'[d].exists
    BY <1>1, Zenon DEF Tables
  <2> QED
    BY <1>1, <1>2, <1>5, <1>6, <2>1 DEF Tables
<1>8. Locals'
  <2>1. touched' \in [Requests -> SUBSET Configs]
    BY <1>4, SMT DEF Locals
  <2> QED
    BY <1>3, <2>1, Zenon DEF Locals
<1>9. ASSUME NEW q \in Requests PROVE RequestInv(q)'
  <2>1. Kept(q)
    BY <1>3, Zenon DEF Kept
  <2>2. RowsKept(q)
    <3>1. Rows(q) \subseteq 1 .. Len(audit)
      BY RowsFinite DEF Tables
    <3> QED
      BY <1>3, <1>5, <3>1, Zenon DEF RowsKept
  <2>3. ASSUME pc[q] # "idle"
        PROVE  /\ touched[q] \subseteq touched'[q]
               /\ \A d \in Configs \ touched'[q] : row'[d] = row[d]
    <3>1. touched'[q] = touched[q] \cup {c}
      BY <1>4, <2>3, Zenon
    <3> QED
      BY <1>1, <3>1, Zenon
  <2> QED
    BY <2>1, <2>2, <2>3, OthersKeep
<1> QED
  BY <1>7, <1>8, <1>9 DEF Inv

LEMMA AdminStep ==
  ASSUME Inv, NEW c \in Configs, Admin(c)
  PROVE  Inv'
<1>1. row[c] \in Row /\ (row[c].bound => row[c].exists)
  BY DEF Inv, Tables
<1>2. CASE CreateMiddlewareConfig(c)
  <2>1. PICK x \in Valid(FALSE) : Edit(c, x)
    BY <1>2 DEF CreateMiddlewareConfig
  <2>2. x \in Row /\ x.exists /\ x.bound = FALSE /\ audit' = audit
    BY <1>2, <2>1, Zenon DEF CreateMiddlewareConfig, Valid
  <2> QED
    BY <2>1, <2>2, EditStep DEF Inv
<1>3. CASE UpdateMiddlewareConfig(c)
  <2>1. PICK x \in Valid(row[c].bound) : Edit(c, x)
    BY <1>3 DEF UpdateMiddlewareConfig
  <2>2. x \in Row /\ x.exists /\ audit' = audit
    BY <1>3, <2>1, Zenon DEF UpdateMiddlewareConfig, Valid
  <2> QED
    BY <2>1, <2>2, EditStep DEF Inv
<1> DEFINE unbound == [row[c] EXCEPT !.bound = FALSE]
           gone == [row[c] EXCEPT !.exists = FALSE, !.bound = FALSE]
           bound == [row[c] EXCEPT !.bound = TRUE]
<1>4. /\ unbound \in Row /\ unbound.bound = FALSE /\ unbound.exists = row[c].exists
      /\ gone \in Row /\ gone.bound = FALSE
      /\ bound \in Row /\ bound.exists = row[c].exists
  BY <1>1, Zenon DEF Row
<1> HIDE DEF unbound, gone, bound
<1>5. CASE DeleteMiddlewareConfig(c)
  <2>1. Edit(c, gone)
    BY <1>5, Zenon DEF DeleteMiddlewareConfig, gone
  <2> QED
    BY <1>4, <1>5, <2>1, EditStep DEF Inv, DeleteMiddlewareConfig
<1>6. CASE AssignToKey(c)
  <2>1. Edit(c, bound) /\ row[c].exists /\ audit' = audit
    BY <1>6, Zenon DEF AssignToKey, bound
  <2> QED
    BY <1>4, <2>1, EditStep DEF Inv
<1>7. CASE UnassignFromKey(c)
  <2>1. Edit(c, unbound) /\ audit' = audit
    BY <1>7, Zenon DEF UnassignFromKey, unbound
  <2> QED
    BY <1>4, <2>1, EditStep DEF Inv
<1> QED
  BY <1>2, <1>3, <1>5, <1>6, <1>7 DEF Admin

-----------------------------------------------------------------------------
(***************************************************************************)
(* A result and its audit row                                              *)
(***************************************************************************)

LEMMA ResultFacts ==
  ASSUME NEW out \in Results, NEW mode
  PROVE  /\ out.kind \in {"continue", "block", "error"}
         /\ out.kind = "continue" => out.body \in BOOLEAN /\ out.headers \in BOOLEAN
         /\ ChangesBody(out) \in BOOLEAN
         /\ RunStatus(out) \in {"blocked", "success", "error"}
         /\ Action(out, mode) \in {"block", "continue"}
         /\ Blocks(out, mode) => Action(out, mode) = "block"
         /\ ~Blocks(out, mode) => Action(out, mode) = "continue"
<1>1. /\ out.kind \in {"continue", "block", "error"}
      /\ out.kind = "continue" => out.body \in BOOLEAN /\ out.headers \in BOOLEAN
  <2>1. ASSUME NEW x \in Returned, out = MiddlewareOutput(x)
        PROVE  /\ out.kind = "continue"
               /\ out.body \in BOOLEAN /\ out.headers \in BOOLEAN
    <3> DEFINE b == x \in {"body", "both"}
               h == x = "headers"
    <3>1. out = [kind |-> "continue", body |-> b, headers |-> h]
      BY <2>1, Zenon DEF MiddlewareOutput
    <3>2. b \in BOOLEAN /\ h \in BOOLEAN
      BY SMT
    <3> HIDE DEF b, h
    <3> QED
      BY <3>1, <3>2
  <2>2. CASE out = [kind |-> "block"] \/ out = [kind |-> "error"]
    <3>1. out.kind \in {"block", "error"} /\ out.kind # "continue"
      BY <2>2
    <3> QED
      BY <3>1
  <2> QED
    BY <2>1, <2>2, Zenon DEF Results
<1>2. RunStatus(out) \in {"blocked", "success", "error"}
  BY <1>1, SMT DEF RunStatus
<1>3. /\ Action(out, mode) \in {"block", "continue"}
      /\ Blocks(out, mode) => Action(out, mode) = "block"
      /\ ~Blocks(out, mode) => Action(out, mode) = "continue"
  BY Zenon DEF Action
<1>4. ChangesBody(out) \in BOOLEAN
  BY <1>1, Zenon DEF ChangesBody
<1> QED
  BY <1>1, <1>2, <1>3, <1>4

\* record_run inserts one row, of this request, or leaves the table alone.
LEMMA RunRecorded ==
  ASSUME Tables, Locals, NEW r \in Requests, Shape(r), pc[r] = "record",
         RecordRun(r)
  PROVE  \/ audit' = audit /\ silent' = silent \cup {r}
         \/ /\ silent' = silent
            /\ \E a \in AuditRow :
                 /\ audit' = Append(audit, a)
                 /\ a.request = r
                 /\ a.action = Action(result[r], Head(chain[r]).failure_mode)
                 /\ row[a.config].exists
<1> DEFINE head == Head(chain[r])
           a == [request |-> r, config |-> head.id, phase |-> phase[r],
                 status |-> RunStatus(result[r]),
                 action |-> Action(result[r], head.failure_mode),
                 body_changed |-> ChangesBody(result[r])]
<1>1. CASE silent' = silent \cup {r} /\ UNCHANGED audit
  BY <1>1
<1>2. CASE row[head.id].exists /\ audit' = Append(audit, a) /\ UNCHANGED silent
  <2>1. chain[r] \in Seq(Entry) /\ chain[r] # <<>> /\ result[r] \in Results
    BY DEF Locals, Shape
  <2>2. head \in Entry
    BY <2>1, HeadAndTail
  <2> DEFINE status == RunStatus(result[r])
             action == Action(result[r], head.failure_mode)
             changed == ChangesBody(result[r])
  <2>3. status \in {"blocked", "success", "error"} /\ action \in {"block", "continue"}
    BY <2>1, ResultFacts
  <2>4. head.id \in Configs /\ phase[r] \in Phases
    BY <2>2, Zenon DEF Entry, Locals
  <2>5. changed \in BOOLEAN
    BY <2>1, ResultFacts
  <2>6. /\ a = [request |-> r, config |-> head.id, phase |-> phase[r],
                status |-> status, action |-> action, body_changed |-> changed]
    OBVIOUS
  <2> HIDE DEF head, status, action, changed, a
  <2>7. a \in AuditRow /\ a.request = r /\ a.action = action /\ a.config = head.id
    BY <2>3, <2>4, <2>5, <2>6, SMT DEF AuditRow
  <2>8. row[a.config].exists
    BY <1>2, <2>7, Zenon
  <2>9. a.action = Action(result[r], Head(chain[r]).failure_mode)
    BY <2>7 DEF action, head
  <2> QED
    BY <1>2, <2>7, <2>8, <2>9, Zenon
<1> QED
  BY <1>1, <1>2, Zenon DEF RecordRun

\* Then the tables keep their type, and the rows of other requests stay.
LEMMA TablesRecorded ==
  ASSUME Tables, Locals, NEW r \in Requests, Shape(r), pc[r] = "record",
         RecordRun(r), row' = row, edits' = edits
  PROVE  Tables' /\ \A q \in Requests : q # r => RowsKept(q)
<1>1. CASE audit' = audit /\ silent' = silent \cup {r}
  <2>1. Tables'
    BY <1>1, Zenon DEF Tables
  <2>2. \A q \in Requests : RowsKept(q)
    BY <1>1, Zenon DEF RowsKept, Rows
  <2> QED
    BY <2>1, <2>2
<1>2. ASSUME silent' = silent, NEW a \in AuditRow, audit' = Append(audit, a),
             a.request = r, row[a.config].exists
      PROVE  Tables' /\ \A q \in Requests : q # r => RowsKept(q)
  <2>1. audit \in Seq(AuditRow)
    BY DEF Tables
  <2>2. /\ audit' \in Seq(AuditRow)
        /\ 1 .. Len(audit') = (1 .. Len(audit)) \cup {Len(audit) + 1}
        /\ \A i \in 1 .. Len(audit) : audit'[i] = audit[i]
        /\ audit'[Len(audit) + 1] = a
    BY <1>2, <2>1, Appended
  <2>3. \A i \in 1 .. Len(audit') :
          audit'[i].config = Client \/ row[audit'[i].config].exists
    BY <1>2, <2>2, Zenon DEF Tables
  <2>4. Tables'
    BY <2>2, <2>3, Zenon DEF Tables
  <2>5. ASSUME NEW q \in Requests, q # r PROVE RowsKept(q)
    <3>1. Rows(q)' = Rows(q) /\ \A i \in Rows(q) : audit'[i] = audit[i]
      BY <1>2, <2>1, <2>5, RowAppended
    <3> QED
      BY <1>2, <3>1, Zenon DEF RowsKept
  <2> QED
    BY <2>4, <2>5
<1> QED
  BY <1>1, <1>2, RunRecorded

\* The log goes on agreeing with what the request ran, when no row is added.
LEMMA NothingRecorded ==
  ASSUME NEW r \in Requests, Recorded(r), UNCHANGED <<audit, silent>>,
         pc[r] \notin {"blocked", "dropped"},
         pc'[r] \notin {"blocked", "dropped"},
         Len(ran'[r]) - (IF pc'[r] = "record" THEN 1 ELSE 0)
           = Len(ran[r]) - (IF pc[r] = "record" THEN 1 ELSE 0)
  PROVE  Recorded(r)'
<1>1. Rows(r)' = Rows(r)
  BY Zenon DEF Rows
<1> QED
  BY <1>1, Zenon DEF Recorded

\* A request that is cut off, or blocked with no row to say so.
LEMMA CutOff ==
  ASSUME NEW r \in Requests, RequestInv(r),
         \/ pc'[r] = "dropped"
         \/ pc'[r] = "blocked" /\ r \in silent',
         phase'[r] = phase[r], ran'[r] = ran[r]
  PROVE  RequestInv(r)'
<1>1. pc'[r] \notin Going /\ pc'[r] \in {"dropped", "blocked"}
  BY DEF Going
<1>2. Shape(r)' /\ Phased(r)'
  BY <1>1, Zenon DEF RequestInv, Shape, Phased
<1>3. PassedAll(r)' /\ Covered(r)' /\ Ordered(r)'
  BY <1>1, Zenon DEF PassedAll, Covered, Ordered
<1>4. Written(r)'
  BY <1>1, Zenon DEF Written
<1>5. Recorded(r)'
  BY Zenon DEF Recorded
<1> QED
  BY <1>2, <1>3, <1>4, <1>5 DEF RequestInv

-----------------------------------------------------------------------------
(***************************************************************************)
(* The steps of a request                                                  *)
(***************************************************************************)

\* The order of the scripts stays as long as the rows do.
LEMMA BeforeStays ==
  ASSUME NEW r, row' = row, touched'[r] = touched[r], NEW c, NEW d
  PROVE  /\ Before(r, c, d) => Before(r, c, d)'
         /\ Precedes(c, d) => Before(r, c, d) /\ Before(r, c, d)'
<1>1. Precedes(c, d) => Precedes(c, d)'
  BY Zenon DEF Precedes
<1> QED
  BY <1>1, Zenon DEF Before

\* A step that runs no script and applies no result.
LEMMA WrittenStays ==
  ASSUME NEW r \in Requests, RequestInv(r), pc[r] \notin {"blocked", "dropped"},
         ran'[r] = ran[r], input'[r].body = input[r].body,
         pc[r] # "record", pc'[r] # "record"
  PROVE  Written(r)'
<1>1. Applied(r)' = Applied(r)
  BY Zenon DEF Applied
<1> QED
  BY <1>1, Zenon DEF RequestInv, Written

LEMMA BeginStep ==
  ASSUME Tables, Locals, NEW r \in Requests, RequestInv(r), Begin(r)
  PROVE  Tables' /\ Locals' /\ RequestInv(r)'
<1>1. /\ UNCHANGED <<row, edits, audit, phase, chain, result, input, sent>>
      /\ UNCHANGED <<ran, touched, silent>>
      /\ pc[r] = "idle"
  BY DEF Begin, config, history
<1>2. /\ pc' \in [Requests -> Active \cup {"idle", "sent", "blocked", "dropped"}]
      /\ pc'[r] = "load"
  BY SMT DEF Begin, Locals, Active
<1>3. Tables' /\ Locals'
  BY <1>1, <1>2, Zenon DEF Tables, Locals
<1>4. phase[r] = First /\ ran[r] = <<>> /\ chain[r] = <<>>
  BY <1>1, Zenon DEF RequestInv, Shape
<1>5. /\ Len(ran[r]) = 0 /\ Len(chain[r]) = 0
      /\ (\A i \in 1 .. Len(ran[r]) : FALSE)
      /\ (\A i \in 1 .. Len(chain[r]) : FALSE)
  BY <1>4, Empty DEF Locals
<1>6. Shape(r)'
  BY <1>1, <1>2, <1>4, Zenon DEF Shape
<1>7. Phased(r)' /\ PassedAll(r)'
  BY <1>1, <1>5, Zenon DEF Phased, PassedAll
<1>8. Left(r)' = {}
  BY <1>1, <1>5, Zenon DEF Left
<1>9. Ordered(r)'
  BY <1>1, <1>5, <1>8, Zenon
     DEF Ordered, RanInOrder, LeftAfterRan, LeftInOrder
<1>10. Due(r)' = {}
  BY <1>1, <1>2, <1>4 DEF Due, First, Second
<1>11. Covered(r)'
  BY <1>10, Zenon DEF Covered
<1>12. Written(r)'
  BY <1>1, <1>2, WrittenStays
<1>13. Recorded(r)'
  BY <1>1, <1>2, NothingRecorded DEF RequestInv
<1> QED
  BY <1>3, <1>6, <1>7, <1>9, <1>11, <1>12, <1>13 DEF RequestInv

LEMMA LoadStep ==
  ASSUME Tables, Locals, NEW r \in Requests, RequestInv(r), Load(r)
  PROVE  Tables' /\ Locals' /\ RequestInv(r)'
<1>1. /\ UNCHANGED <<row, edits, audit, phase, result, input, sent>>
      /\ UNCHANGED <<ran, touched, silent>>
      /\ pc[r] = "load"
  BY DEF Load, config, history
<1>2. PICK order \in Sorted(phase[r]) :
        chain' = [chain EXCEPT ![r] = Loaded(order)]
  BY DEF Load
<1> DEFINE l == Loaded(order)
<1>3. phase[r] \in Phases
  BY DEF Locals
<1>4. /\ l \in Seq(Entry)
      /\ \A i, j \in 1 .. Len(l) : i < j => Precedes(l[i].id, l[j].id)
      /\ \A c \in Bound(phase[r]) : \E i \in 1 .. Len(l) : l[i].id = c
  BY <1>3, LoadedChain
<1> HIDE DEF l
<1>5. chain' \in [Requests -> Seq(Entry)] /\ chain'[r] = l
  BY <1>2, <1>4, SMT DEF Locals, l
<1>6. /\ pc' \in [Requests -> Active \cup {"idle", "sent", "blocked", "dropped"}]
      /\ pc'[r] = "run"
  BY SMT DEF Load, Locals, Active
<1>7. Tables' /\ Locals'
  BY <1>1, <1>5, <1>6, Zenon DEF Tables, Locals
<1>8. chain[r] = <<>> /\ \A i \in 1 .. Len(ran[r]) : ran[r][i].phase # phase[r]
  BY <1>1, Zenon DEF RequestInv, Shape, Phased
<1>9. Left(r) = {} /\ Left(r)' = 1 .. Len(l)
  <2>1. \A i \in 1 .. Len(chain[r]) : FALSE
    BY <1>8, Empty DEF Locals
  <2>2. Left(r) = {}
    BY <2>1, Zenon DEF Left
  <2>3. Left(r)' = 1 .. Len(l)
    BY <1>5, <1>6, Zenon DEF Left
  <2> QED
    BY <2>2, <2>3
<1>10. pc[r] \in Going
  BY <1>1 DEF Going
<1>11. Shape(r)'
  BY <1>6, Zenon DEF Shape
<1>12. Phased(r)' /\ PassedAll(r)'
  <2>1. \A i \in 1 .. Len(ran[r]) : /\ phase[r] = First => ran[r][i].phase = First
                                    /\ Passed(ran[r][i])
    BY <1>1, <1>10, Zenon DEF RequestInv, Phased, PassedAll
  <2> QED
    BY <1>1, <1>6, <2>1, Zenon DEF Phased, PassedAll
<1>13. Ordered(r)'
  <2>1. RanInOrder(r)'
    BY <1>1, <1>10, BeforeStays, Zenon DEF RequestInv, Ordered, RanInOrder
  <2>2. LeftAfterRan(r)'
    BY <1>1, <1>8, Zenon DEF LeftAfterRan
  <2>3. LeftInOrder(r)'
    BY <1>1, <1>4, <1>5, <1>9, BeforeStays, Zenon DEF LeftInOrder
  <2> QED
    BY <2>1, <2>2, <2>3 DEF Ordered
<1>14. Covered(r)'
  <2> SUFFICES ASSUME NEW c \in Configs \ touched[r],
                      row[c].bound /\ row[c].enabled,
                      row[c].phase \in Due(r)'
               PROVE  \/ \E i \in 1 .. Len(ran[r]) : ran[r][i].id = c
                      \/ \E j \in 1 .. Len(l) : l[j].id = c
    BY <1>1, <1>5, <1>9, Zenon DEF Covered
  <2>1. CASE row[c].phase = phase[r]
    BY <1>4, <2>1 DEF Bound
  <2>2. CASE row[c].phase # phase[r]
    <3>1. row[c].phase \in Due(r)
      BY <1>1, <1>3, <1>6, <2>2 DEF Due, Phases, First, Second
    <3> QED
      BY <1>9, <1>10, <3>1, Zenon DEF RequestInv, Covered
  <2> QED
    BY <2>1, <2>2
<1>15. Written(r)'
  BY <1>1, <1>6, WrittenStays
<1>16. Recorded(r)'
  BY <1>1, <1>6, NothingRecorded DEF RequestInv
<1> QED
  BY <1>7, <1>11, <1>12, <1>13, <1>14, <1>15, <1>16 DEF RequestInv

\* The configs could not be loaded, or a script panicked.
LEMMA FailStep ==
  ASSUME Tables, Locals, NEW r \in Requests, RequestInv(r),
         LoadFails(r) \/ ScriptPanics(r)
  PROVE  Tables' /\ Locals' /\ RequestInv(r)'
<1>1. /\ UNCHANGED <<row, edits, audit, phase, chain, result, input, sent>>
      /\ UNCHANGED <<ran, touched>>
      /\ silent' = silent \cup {r}
  BY DEF LoadFails, ScriptPanics, config
<1>2. /\ pc' \in [Requests -> Active \cup {"idle", "sent", "blocked", "dropped"}]
      /\ pc'[r] = "blocked"
  <2>1. pc' = [pc EXCEPT ![r] = "blocked"]
    BY DEF LoadFails, ScriptPanics
  <2> QED
    BY <2>1, SMT DEF Locals
<1>3. silent' \in SUBSET Requests
  BY <1>1 DEF Locals
<1>4. Tables' /\ Locals'
  BY <1>1, <1>2, <1>3, Zenon DEF Tables, Locals
<1> QED
  BY <1>1, <1>2, <1>4, CutOff

LEMMA DropStep ==
  ASSUME Tables, Locals, NEW r \in Requests, RequestInv(r), Drop(r)
  PROVE  Tables' /\ Locals' /\ RequestInv(r)'
<1>1. /\ UNCHANGED <<row, edits, phase, chain, result, input, sent>>
      /\ UNCHANGED <<ran, touched>>
  BY DEF Drop, config
<1>2. /\ pc' \in [Requests -> Active \cup {"idle", "sent", "blocked", "dropped"}]
      /\ pc'[r] = "dropped"
  BY SMT DEF Drop, Locals, Active
<1>3. CASE pc[r] = "record" /\ RecordRun(r)
  <2>1. Tables'
    BY <1>1, <1>3, TablesRecorded DEF RequestInv
  <2>2. silent' \in SUBSET Requests
    BY <1>3, SMT DEF RecordRun, Locals
  <2>3. Locals'
    BY <1>1, <1>2, <2>2, Zenon DEF Locals
  <2> QED
    BY <1>1, <1>2, <2>1, <2>3, CutOff
<1>4. CASE UNCHANGED <<audit, silent>>
  <2>1. Tables' /\ Locals'
    BY <1>1, <1>2, <1>4, Zenon DEF Tables, Locals
  <2> QED
    BY <1>1, <1>2, <2>1, CutOff
<1> QED
  BY <1>3, <1>4, Zenon DEF Drop

LEMMA ExecuteScriptStep ==
  ASSUME Tables, Locals, NEW r \in Requests, RequestInv(r), ExecuteScript(r)
  PROVE  Tables' /\ Locals' /\ RequestInv(r)'
<1> DEFINE s == ran[r]
           t == ran'[r]
           l == chain[r]
           n == Len(ran[r])
<1>1. /\ UNCHANGED <<row, edits, audit, phase, chain, input, sent>>
      /\ UNCHANGED <<touched, silent>>
      /\ pc[r] = "run" /\ l # <<>>
  BY DEF ExecuteScript, config
<1>2. PICK out \in Results :
        /\ result' = [result EXCEPT ![r] = out]
        /\ ran' = [ran EXCEPT ![r] =
                     Append(@, [id |-> Head(l).id, phase |-> phase[r],
                                failure_mode |-> Head(l).failure_mode,
                                outcome |-> out.kind,
                                body |-> ChangesBody(out)])]
  BY DEF ExecuteScript
<1> DEFINE x == [id |-> Head(l).id, phase |-> phase[r],
                 failure_mode |-> Head(l).failure_mode, outcome |-> out.kind,
                 body |-> ChangesBody(out)]
<1>3. /\ Len(l) \in Nat /\ 1 \in 1 .. Len(l) /\ Head(l) = l[1]
      /\ Head(l) \in Entry
  BY <1>1, HeadAndTail DEF Locals
<1>4. phase[r] \in Phases /\ s \in Seq(Run)
  BY DEF Locals
<1>5. x \in Run
  <2>1. out.kind \in {"continue", "block", "error"} /\ ChangesBody(out) \in BOOLEAN
    BY ResultFacts
  <2>2. Head(l).id \in Configs /\ Head(l).failure_mode \in FailureModes
    BY <1>3, Zenon DEF Entry
  <2> QED
    BY <1>4, <2>1, <2>2, SMT DEF Run
<1>6. x.id = l[1].id /\ x.phase = phase[r]
  BY <1>3
<1>7. t = Append(s, x) /\ ran' \in [Requests -> Seq(Run)]
  <2>1. ran' = [ran EXCEPT ![r] = Append(s, x)]
    BY <1>2, Zenon
  <2>2. Append(s, x) \in Seq(Run)
    BY <1>4, <1>5, Appended
  <2> HIDE DEF x
  <2> QED
    BY <2>1, <2>2, SMT DEF Locals
<1>8. result' \in [Requests -> Results \cup {NoResult}] /\ result'[r] = out
  BY <1>2, SMT DEF Locals
<1>9. /\ pc' \in [Requests -> Active \cup {"idle", "sent", "blocked", "dropped"}]
      /\ pc'[r] = "record"
  BY SMT DEF ExecuteScript, Locals, Active
<1>10. Tables' /\ Locals'
  BY <1>1, <1>7, <1>8, <1>9, Zenon DEF Tables, Locals
<1> HIDE DEF x
<1>11. /\ t \in Seq(Run) /\ t # <<>>
       /\ n \in Nat /\ Len(t) = n + 1
       /\ \A i \in 1 .. n : t[i] = s[i]
       /\ t[n + 1] = x
       /\ 1 .. Len(t) = (1 .. n) \cup {n + 1}
       /\ n + 1 \notin 1 .. n
  BY <1>4, <1>5, <1>7, Appended
<1>12. pc[r] \in Going /\ chain'[r] = l /\ phase'[r] = phase[r]
  BY <1>1 DEF Going
<1>13. Shape(r)'
  <2>1. t[Len(t)] = x
    BY <1>11
  <2>2. x = [id |-> Head(l).id, phase |-> phase[r],
             failure_mode |-> Head(l).failure_mode, outcome |-> out.kind,
             body |-> ChangesBody(out)]
    BY DEF x
  <2> QED
    BY <1>1, <1>8, <1>9, <1>11, <1>12, <2>1, <2>2, Zenon DEF Shape
<1>14. Phased(r)'
  <2>1. \A i \in 1 .. n : phase[r] = First => s[i].phase = First
    BY Zenon DEF RequestInv, Phased
  <2> QED
    BY <1>1, <1>6, <1>9, <1>11, <2>1, Zenon DEF Phased
<1>15. PassedAll(r)'
  <2>1. \A i \in 1 .. n : Passed(s[i])
    BY <1>1, <1>12, Zenon DEF RequestInv, PassedAll
  <2> QED
    BY <1>9, <1>11, <2>1, Zenon DEF PassedAll
<1>16. /\ Left(r) = 1 .. Len(l)
       /\ Left(r)' = {j \in 1 .. Len(l) : j > 1}
       /\ \A j \in 1 .. Len(l) : j = 1 \/ j > 1
  <2>1. Left(r) = 1 .. Len(l)
    BY <1>1, Zenon DEF Left
  <2>2. Left(r)' = {j \in 1 .. Len(l) : j > 1}
    BY <1>9, <1>12, Zenon DEF Left
  <2>3. \A j \in 1 .. Len(l) : j = 1 \/ j > 1
    BY <1>3, SMT
  <2> QED
    BY <2>1, <2>2, <2>3
<1>17. Ordered(r)'
  <2>1. RanInOrder(r) /\ LeftAfterRan(r) /\ LeftInOrder(r)
    BY <1>12 DEF RequestInv, Ordered
  <2>2. ASSUME NEW i \in 1 .. n, s[i].phase = phase[r]
        PROVE  Before(r, s[i].id, x.id)
    BY <1>3, <1>6, <1>16, <2>1, <2>2, Zenon DEF LeftAfterRan
  <2>3. ASSUME NEW j \in 1 .. Len(l), j > 1
        PROVE  Before(r, x.id, l[j].id)
    <3>1. 1 < j
      BY <1>3, <2>3, SMT
    <3> QED
      BY <1>3, <1>6, <1>16, <2>1, <3>1, Zenon DEF LeftInOrder
  <2>4. ASSUME NEW i \in 1 .. Len(t), NEW j \in 1 .. Len(t), i < j,
               t[i].phase = t[j].phase
        PROVE  Before(r, t[i].id, t[j].id)
    <3>1. i \in 1 .. n
      BY <1>11, <2>4, SMT
    <3>2. CASE j \in 1 .. n
      BY <1>11, <2>1, <2>4, <3>1, <3>2, Zenon DEF RanInOrder
    <3>3. CASE j = n + 1
      <4>1. t[j] = x /\ t[i] = s[i] /\ s[i].phase = phase[r]
        BY <1>6, <1>11, <2>4, <3>1, <3>3, Zenon
      <4> QED
        BY <2>2, <3>1, <4>1, Zenon
    <3> QED
      BY <1>11, <2>4, <3>2, <3>3
  <2>5. ASSUME NEW i \in 1 .. Len(t), NEW j \in Left(r)', t[i].phase = phase[r]
        PROVE  Before(r, t[i].id, l[j].id)
    <3>1. j \in 1 .. Len(l) /\ j > 1 /\ j \in Left(r)
      BY <1>16
    <3>2. CASE i \in 1 .. n
      BY <1>11, <2>1, <2>5, <3>1, <3>2, Zenon DEF LeftAfterRan
    <3>3. CASE i = n + 1
      BY <1>11, <2>3, <3>1, <3>3, Zenon
    <3> QED
      BY <1>11, <2>5, <3>2, <3>3
  <2>6. ASSUME NEW i \in Left(r)', NEW j \in Left(r)', i < j
        PROVE  Before(r, l[i].id, l[j].id)
    BY <1>16, <2>1, <2>6, Zenon DEF LeftInOrder
  <2>7. row' = row /\ touched'[r] = touched[r]
    BY <1>1
  <2>8. RanInOrder(r)'
    BY <2>4, <2>7, BeforeStays, Zenon DEF RanInOrder
  <2>9. LeftAfterRan(r)'
    BY <1>12, <2>5, <2>7, BeforeStays, Zenon DEF LeftAfterRan
  <2>10. LeftInOrder(r)'
    BY <1>12, <2>6, <2>7, BeforeStays, Zenon DEF LeftInOrder
  <2> QED
    BY <2>8, <2>9, <2>10 DEF Ordered
<1>18. Covered(r)'
  <2>1. Due(r)' = Due(r)
    BY <1>1, <1>9, Zenon DEF Due
  <2> SUFFICES ASSUME NEW c \in Configs \ touched[r],
                      row[c].bound /\ row[c].enabled, row[c].phase \in Due(r)
               PROVE  \/ \E i \in 1 .. Len(t) : t[i].id = c
                      \/ \E j \in Left(r)' : l[j].id = c
    BY <1>1, <1>12, <2>1, Zenon DEF Covered
  <2>2. \/ \E i \in 1 .. n : s[i].id = c
        \/ \E j \in Left(r) : l[j].id = c
    BY <1>12, Zenon DEF RequestInv, Covered
  <2>3. ASSUME NEW i \in 1 .. n, s[i].id = c
        PROVE  \E k \in 1 .. Len(t) : t[k].id = c
    BY <1>11, <2>3, Zenon
  <2>4. ASSUME NEW j \in Left(r), l[j].id = c, j = 1
        PROVE  \E k \in 1 .. Len(t) : t[k].id = c
    <3>1. n + 1 \in 1 .. Len(t) /\ t[n + 1].id = c
      BY <1>6, <1>11, <2>4
    <3> QED
      BY <3>1
  <2>5. ASSUME NEW j \in Left(r), l[j].id = c, j > 1
        PROVE  \E k \in Left(r)' : l[k].id = c
    BY <1>16, <2>5
  <2> QED
    BY <1>16, <2>2, <2>3, <2>4, <2>5, Zenon
<1>19. Written(r)'
  <2>1. Applied(r) = {i \in 1 .. n : s[i].body}
    BY <1>1, Zenon DEF Applied
  <2>2. Applied(r)' = {i \in 1 .. Len(t) : t[i].body /\ i # n + 1}
    BY <1>9, <1>11, Zenon DEF Applied
  <2>3. Applied(r)' = Applied(r)
    BY <1>11, <2>1, <2>2, Zenon
  <2>4. MadeByLast(s, Applied(r), input[r].body)
    BY <1>1, Zenon DEF RequestInv, Written
  <2>5. MadeByLast(t, Applied(r), input[r].body)
    BY <1>11, <2>1, <2>4, Zenon DEF MadeByLast
  <2> QED
    BY <1>1, <2>3, <2>5, Zenon DEF Written
<1>20. Recorded(r)'
  <2>1. Len(t) - 1 = n - 0
    BY <1>11, SMT
  <2> QED
    BY <1>1, <1>9, <2>1, NothingRecorded DEF RequestInv
<1> QED
  BY <1>10, <1>13, <1>14, <1>15, <1>17, <1>18, <1>19, <1>20 DEF RequestInv

\* The audit rows of a request after the row of the script it just ran.
LEMMA LastRecorded ==
  ASSUME Tables, Locals, NEW r \in Requests, RequestInv(r), pc[r] = "record",
         RecordRun(r), ran'[r] = ran[r],
         NEW mode, mode = Head(chain[r]).failure_mode,
         pc'[r] = IF Blocks(result[r], mode) THEN "blocked" ELSE "run"
  PROVE  Recorded(r)'
<1>1. /\ ran[r] \in Seq(Run) /\ Len(ran[r]) \in Nat
      /\ result[r] \in Results /\ audit \in Seq(AuditRow)
  BY Empty DEF Tables, Locals, RequestInv, Shape
<1>2. SUFFICES ASSUME r \notin silent'
               PROVE  Recorded(r)'
  BY DEF Recorded
<1>3. PICK a \in AuditRow :
        /\ silent' = silent
        /\ audit' = Append(audit, a)
        /\ a.request = r
        /\ a.action = Action(result[r], mode)
  BY <1>2, RunRecorded, Zenon DEF RequestInv
<1> DEFINE n == Len(audit) + 1
<1>4. /\ Rows(r)' = Rows(r) \cup {n}
      /\ \A i \in Rows(r) : i < n /\ audit'[i] = audit[i]
      /\ audit'[n] = a /\ n \in Nat
  <2>1. /\ Rows(a.request)' = Rows(a.request) \cup {n}
        /\ \A q : \A i \in Rows(q) : i < n /\ audit'[i] = audit[i]
        /\ audit'[n] = a /\ Len(audit) \in Nat
    BY <1>1, <1>3, RowAppended
  <2>2. n \in Nat
    BY <2>1
  <2> QED
    BY <1>3, <2>1, <2>2, Zenon
<1>5. n \notin Rows(r)
  BY <1>4, SMT
<1>6. IsFiniteSet(Rows(r)) /\ Cardinality(Rows(r)) \in Nat
      /\ Rows(r) \subseteq 1 .. Len(audit)
  BY <1>1, RowsFinite
<1> HIDE DEF n
<1>7. /\ Cardinality(Rows(r)) = Len(ran[r]) - 1
      /\ \A i \in Rows(r) : audit[i].action = "continue"
  <2>1. r \notin silent
    BY <1>2, <1>3
  <2>2. Recorded(r)
    BY DEF RequestInv
  <2> QED
    BY <2>1, <2>2, Zenon DEF Recorded
<1>8. Cardinality(Rows(r)') = Len(ran[r])
  <2>1. Cardinality(Rows(r) \cup {n}) = Cardinality(Rows(r)) + 1
    BY <1>5, <1>6, FS_AddElement
  <2> QED
    BY <1>1, <1>4, <1>6, <1>7, <2>1
<1>9. CASE Blocks(result[r], mode)
  <2>1. pc'[r] = "blocked" /\ audit'[n].action = "block"
    BY <1>1, <1>3, <1>4, <1>9, ResultFacts
  <2>2. n \in Rows(r)' /\ \A j \in Rows(r)' : j <= n
    <3>1. \A j \in Rows(r) : j <= n
      BY <1>1, <1>4, <1>6, SMT
    <3>2. n <= n
      BY <1>4, SMT
    <3> QED
      BY <1>4, <3>1, <3>2, Zenon
  <2>3. Cardinality(Rows(r)') = Len(ran[r]) - 0
    BY <1>1, <1>8
  <2> QED
    BY <1>2, <2>1, <2>2, <2>3, Zenon DEF Recorded
<1>10. CASE ~Blocks(result[r], mode)
  <2>1. pc'[r] = "run" /\ audit'[n].action = "continue"
    BY <1>1, <1>3, <1>4, <1>10, ResultFacts
  <2>2. \A i \in Rows(r)' : audit'[i].action = "continue"
    BY <1>4, <1>7, <2>1, Zenon
  <2>3. Cardinality(Rows(r)') = Len(ran[r]) - 0
    BY <1>1, <1>8
  <2> QED
    BY <1>2, <2>1, <2>2, <2>3, Zenon DEF Recorded
<1> QED
  BY <1>9, <1>10

LEMMA FinishScriptStep ==
  ASSUME Tables, Locals, NEW r \in Requests, RequestInv(r), FinishScript(r)
  PROVE  Tables' /\ Locals' /\ RequestInv(r)'
<1> DEFINE s == ran[r]
           l == chain[r]
           n == Len(ran[r])
           out == result[r]
           mode == Head(chain[r]).failure_mode
           script == Head(chain[r]).id
<1>1. /\ UNCHANGED <<row, edits, phase, sent, ran, touched>>
      /\ pc[r] = "record" /\ RecordRun(r)
      /\ result' = [result EXCEPT ![r] = NoResult]
  BY Zenon DEF FinishScript, config
<1>2. /\ l # <<>> /\ s # <<>> /\ out \in Results
      /\ s[n] = [id |-> script, phase |-> phase[r], failure_mode |-> mode,
                 outcome |-> out.kind, body |-> ChangesBody(out)]
  BY <1>1, Zenon DEF RequestInv, Shape
<1>3. /\ l \in Seq(Entry) /\ s \in Seq(Run)
  BY DEF Locals
<1>4. /\ Len(l) \in Nat /\ 1 \in 1 .. Len(l) /\ Head(l) = l[1]
      /\ Head(l) \in Entry /\ Tail(l) \in Seq(Entry)
      /\ \A i \in 1 .. Len(Tail(l)) :
           Tail(l)[i] = l[i + 1] /\ i + 1 \in 1 .. Len(l)
      /\ \A i \in 1 .. Len(l) :
           i = 1 \/ (i - 1 \in 1 .. Len(Tail(l)) /\ Tail(l)[i - 1] = l[i])
  BY <1>2, <1>3, HeadAndTail
<1>5. n \in Nat /\ n \in 1 .. n
  <2>1. Len(s) \in Nat /\ 1 \in 1 .. Len(s)
    BY <1>2, <1>3, HeadAndTail
  <2> QED
    BY <2>1, SMT
<1>6. script \in Configs /\ mode \in FailureModes /\ s[n].id = script
      /\ s[n].outcome = out.kind /\ s[n].failure_mode = mode
      /\ s[n].body = ChangesBody(out)
  <2>1. script \in Configs /\ mode \in FailureModes
    BY <1>4, Zenon DEF Entry
  <2> HIDE DEF s, n, script, mode, out
  <2> QED
    BY <1>2, <2>1
<1>7. /\ Tables'
      /\ result' \in [Requests -> Results \cup {NoResult}]
      /\ silent' \in SUBSET Requests
  <2>1. Tables'
    BY <1>1, TablesRecorded DEF RequestInv
  <2>2. result' \in [Requests -> Results \cup {NoResult}]
    BY <1>1, SMT DEF Locals
  <2>3. silent' \in SUBSET Requests
    BY <1>1, SMT DEF RecordRun, Locals
  <2> QED
    BY <2>1, <2>2, <2>3
<1>8. CASE Blocks(out, mode)
  <2>1. pc' = [pc EXCEPT ![r] = "blocked"] /\ UNCHANGED <<chain, input>>
    BY <1>8, Zenon DEF FinishScript
  <2>2. /\ pc' \in [Requests -> Active \cup {"idle", "sent", "blocked", "dropped"}]
        /\ pc'[r] = "blocked"
    BY <2>1, SMT DEF Locals
  <2>3. Locals'
    BY <1>1, <1>7, <2>1, <2>2, Zenon DEF Locals
  <2>4. Shape(r)' /\ Phased(r)'
    BY <1>1, <2>2, Zenon DEF RequestInv, Shape, Phased
  <2>5. pc'[r] \notin Going
    BY <2>2 DEF Going
  <2>6. PassedAll(r)' /\ Covered(r)' /\ Ordered(r)'
    BY <2>5, Zenon DEF PassedAll, Covered, Ordered
  <2>7. Written(r)'
    BY <2>2, Zenon DEF Written
  <2>8. Recorded(r)'
    BY <1>1, <1>8, <2>2, LastRecorded
  <2> QED
    BY <1>7, <2>3, <2>4, <2>6, <2>7, <2>8 DEF RequestInv
<1>9. CASE ~Blocks(out, mode)
  <2> DEFINE u == Tail(chain[r])
             next == IF out.kind = "error" THEN input[r]
                     ELSE [body |-> IF out.body THEN script ELSE input[r].body,
                           headers |-> IF out.headers THEN script ELSE input[r].headers]
  <2>1. /\ pc' = [pc EXCEPT ![r] = "run"]
        /\ chain' = [chain EXCEPT ![r] = Tail(@)]
        /\ input' = [input EXCEPT ![r] = next]
    BY <1>9, Zenon DEF FinishScript
  <2>2. /\ pc' \in [Requests -> Active \cup {"idle", "sent", "blocked", "dropped"}]
        /\ pc'[r] = "run"
    BY <2>1, SMT DEF Locals, Active
  <2>3. chain' \in [Requests -> Seq(Entry)] /\ chain'[r] = u
    <3>1. u \in Seq(Entry) /\ chain' = [chain EXCEPT ![r] = u]
      BY <1>4, <2>1, Zenon
    <3> HIDE DEF u
    <3> QED
      BY <3>1, SMT DEF Locals
  <2>4. /\ next \in [body : Configs \cup {Client}, headers : Configs \cup {Client}]
        /\ next.body = IF ChangesBody(out) THEN script ELSE input[r].body
    <3>1. /\ input[r].body \in Configs \cup {Client}
          /\ input[r].headers \in Configs \cup {Client}
          /\ input[r] \in [body : Configs \cup {Client},
                           headers : Configs \cup {Client}]
      BY Zenon DEF Locals
    <3> HIDE DEF script, out
    <3>2. script \in Configs
      BY <1>6
    <3>a. /\ out.kind \in {"continue", "block", "error"}
          /\ out.kind = "block" => Blocks(out, mode)
      BY <1>2, ResultFacts, Zenon DEF Blocks
    <3>3. CASE out.kind = "error"
      <4>1. ~ChangesBody(out)
        BY <3>3 DEF ChangesBody
      <4> QED
        BY <3>1, <3>3, <4>1, Zenon
    <3>4. CASE out.kind # "error"
      <4>1. ChangesBody(out) <=> out.body
        BY <1>9, <3>a, <3>4, Zenon DEF ChangesBody
      <4> QED
        BY <3>1, <3>2, <3>4, <4>1, SMT
    <3> QED
      BY <3>3, <3>4
  <2>5. /\ input' \in [Requests -> [body : Configs \cup {Client},
                                    headers : Configs \cup {Client}]]
        /\ input'[r] = next
    <3> HIDE DEF next
    <3> QED
      BY <2>1, <2>4, SMT DEF Locals
  <2> HIDE DEF next
  <2>6. Locals'
    BY <1>1, <1>7, <2>2, <2>3, <2>5, Zenon DEF Locals
  <2>7. pc[r] \in Going
    BY <1>1 DEF Going
  <2>8. Shape(r)' /\ Phased(r)'
    BY <1>1, <2>2, Zenon DEF RequestInv, Shape, Phased
  <2>9. PassedAll(r)'
    <3>1. out.kind \in {"continue", "block", "error"}
      BY <1>2, ResultFacts
    <3>2. out.kind = "continue" \/ (out.kind = "error" /\ mode = "fail_open")
      BY <1>6, <1>9, <3>1 DEF Blocks, FailureModes
    <3>3. Passed(s[n])
      BY <1>6, <3>2, Zenon DEF Passed
    <3>4. \A i \in 1 .. n : Passed(s[i])
      BY <2>7, <3>3, Zenon DEF RequestInv, PassedAll
    <3> QED
      BY <1>1, <3>4, Zenon DEF PassedAll
  <2>10. /\ Left(r)' = 1 .. Len(u)
         /\ \A i \in 1 .. Len(u) : i + 1 \in Left(r) /\ u[i] = l[i + 1]
         /\ \A j \in Left(r) : j - 1 \in 1 .. Len(u) /\ u[j - 1] = l[j]
    <3>1. Left(r)' = 1 .. Len(u)
      BY <2>2, <2>3, Zenon DEF Left
    <3>2. Left(r) = {j \in 1 .. Len(l) : j > 1}
      BY <1>1, Zenon DEF Left
    <3>3. Len(u) \in Nat
      BY <1>4, Empty
    <3>4. ASSUME NEW i \in 1 .. Len(u) PROVE i + 1 \in Left(r) /\ u[i] = l[i + 1]
      <4>1. u[i] = l[i + 1] /\ i + 1 \in 1 .. Len(l)
        BY <1>4
      <4>2. i + 1 > 1
        BY <3>3, SMT
      <4> QED
        BY <3>2, <4>1, <4>2
    <3>5. ASSUME NEW j \in Left(r) PROVE j - 1 \in 1 .. Len(u) /\ u[j - 1] = l[j]
      <4>1. j \in 1 .. Len(l) /\ j > 1
        BY <3>2
      <4>2. j # 1
        BY <1>4, <4>1, SMT
      <4> QED
        BY <1>4, <4>1, <4>2
    <3> QED
      BY <3>1, <3>4, <3>5
  <2> HIDE DEF u
  <2>11. Ordered(r)'
    <3>1. RanInOrder(r) /\ LeftAfterRan(r) /\ LeftInOrder(r)
      BY <2>7 DEF RequestInv, Ordered
    <3>2. row' = row /\ touched'[r] = touched[r] /\ ran'[r] = ran[r]
          /\ phase'[r] = phase[r]
      BY <1>1
    <3>3. RanInOrder(r)'
      BY <3>1, <3>2, BeforeStays, Zenon DEF RanInOrder
    <3>4. \A i \in 1 .. n : \A j \in 1 .. Len(u) :
            s[i].phase = phase[r] => Before(r, s[i].id, u[j].id)
      BY <2>10, <3>1, Zenon DEF LeftAfterRan
    <3>5. ASSUME NEW i \in 1 .. Len(u), NEW j \in 1 .. Len(u), i < j
          PROVE  Before(r, u[i].id, u[j].id)
      <4>1. i + 1 < j + 1
        BY <3>5, SMT
      <4> QED
        BY <2>10, <3>1, <4>1, Zenon DEF LeftInOrder
    <3>6. LeftAfterRan(r)'
      BY <2>3, <2>10, <3>2, <3>4, BeforeStays, Zenon DEF LeftAfterRan
    <3>7. LeftInOrder(r)'
      BY <2>3, <2>10, <3>2, <3>5, BeforeStays, Zenon DEF LeftInOrder
    <3> QED
      BY <3>3, <3>6, <3>7 DEF Ordered
  <2>12. Covered(r)'
    <3>1. Due(r)' = Due(r)
      BY <1>1, <2>2, Zenon DEF Due
    <3>a. row' = row /\ touched'[r] = touched[r] /\ ran'[r] = ran[r]
          /\ chain'[r] = u
      BY <1>1, <2>3
    <3> SUFFICES ASSUME NEW d \in Configs \ touched[r],
                        row[d].bound /\ row[d].enabled, row[d].phase \in Due(r)
                 PROVE  \/ \E i \in 1 .. n : s[i].id = d
                        \/ \E j \in Left(r)' : u[j].id = d
      BY <3>a, <3>1, Zenon DEF Covered
    <3>2. \/ \E i \in 1 .. n : s[i].id = d
          \/ \E j \in Left(r) : l[j].id = d
      BY <2>7, Zenon DEF RequestInv, Covered
    <3>3. ASSUME NEW j \in Left(r), l[j].id = d
          PROVE  \E k \in Left(r)' : u[k].id = d
      <4>1. j - 1 \in 1 .. Len(u) /\ u[j - 1].id = d
        BY <2>10, <3>3
      <4> QED
        BY <2>10, <4>1
    <3> QED
      BY <3>2, <3>3
  <2>13. Written(r)'
    <3>1. Applied(r) = {i \in 1 .. n : s[i].body /\ i # n}
      BY <1>1, Zenon DEF Applied
    <3>2. Applied(r)' = {i \in 1 .. n : s[i].body}
      BY <1>1, <2>2, Zenon DEF Applied
    <3>3. MadeByLast(s, Applied(r), input[r].body)
      BY <1>1, Zenon DEF RequestInv, Written
    <3>4. CASE ChangesBody(out)
      <4>1. n \in Applied(r)' /\ s[n].id = next.body
        BY <1>5, <1>6, <2>4, <3>2, <3>4
      <4>2. \A j \in Applied(r)' : j <= n
        BY <1>5, <3>2, SMT
      <4>3. MadeByLast(s, Applied(r)', next.body)
        BY <4>1, <4>2, Zenon DEF MadeByLast
      <4> QED
        BY <1>1, <2>5, <4>3, Zenon DEF Written
    <3>5. CASE ~ChangesBody(out)
      <4>1. next.body = input[r].body
        BY <2>4, <3>5
      <4>2. Applied(r)' = Applied(r)
        BY <1>6, <3>1, <3>2, <3>5, Zenon
      <4> QED
        BY <1>1, <2>5, <3>3, <4>1, <4>2, Zenon DEF Written
    <3> QED
      BY <3>4, <3>5
  <2>14. Recorded(r)'
    BY <1>1, <1>9, <2>2, LastRecorded
  <2> QED
    BY <1>7, <2>6, <2>8, <2>9, <2>11, <2>12, <2>13, <2>14 DEF RequestInv
<1> QED
  BY <1>8, <1>9

LEMMA FinishPhaseStep ==
  ASSUME Tables, Locals, NEW r \in Requests, RequestInv(r), FinishPhase(r)
  PROVE  Tables' /\ Locals' /\ RequestInv(r)'
<1> DEFINE next == IF phase[r] = First THEN "between" ELSE "sent"
<1>1. /\ UNCHANGED <<row, edits, audit, phase, chain, result, input>>
      /\ UNCHANGED <<ran, touched, silent>>
      /\ pc[r] = "run" /\ chain[r] = <<>>
      /\ pc' = [pc EXCEPT ![r] = next]
      /\ sent' = [sent EXCEPT ![r] = IF input[r].headers = Client THEN @
                                     ELSE @ \cup {input[r].headers}]
  BY Zenon DEF FinishPhase, config, history, First
<1>2. phase[r] \in {First, Second} /\ First # Second
  BY DEF Locals, Phases, First, Second
<1>3. next \in {"between", "sent"}
      /\ (next = "between" => phase[r] = First)
      /\ (next = "sent" => phase[r] = Second)
  BY <1>2
<1> HIDE DEF next
<1>4. /\ pc' \in [Requests -> Active \cup {"idle", "sent", "blocked", "dropped"}]
      /\ pc'[r] = next
  BY <1>1, <1>3, SMT DEF Locals, Active
<1>5. sent' \in [Requests -> SUBSET Configs]
  <2>1. input[r].headers \in Configs \cup {Client}
    BY Zenon DEF Locals
  <2> QED
    BY <1>1, <2>1, SMT DEF Locals
<1>6. Tables' /\ Locals'
  BY <1>1, <1>4, <1>5, Zenon DEF Tables, Locals
<1>7. pc[r] \in Going
  BY <1>1 DEF Going
<1>8. Shape(r)'
  BY <1>1, <1>3, <1>4, Zenon DEF Shape
<1>9. Phased(r)' /\ PassedAll(r)'
  <2>1. \A i \in 1 .. Len(ran[r]) : /\ phase[r] = First => ran[r][i].phase = First
                                    /\ Passed(ran[r][i])
    BY <1>1, <1>7, Zenon DEF RequestInv, Phased, PassedAll
  <2>2. pc'[r] # "load"
    BY <1>3, <1>4
  <2> QED
    BY <1>1, <2>1, <2>2, Zenon DEF Phased, PassedAll
<1>10. \A i \in 1 .. Len(chain[r]) : FALSE
  BY <1>1, Empty DEF Locals
<1>11. Left(r) = {} /\ Left(r)' = {}
  BY <1>1, <1>10, Zenon DEF Left
<1>12. Ordered(r)'
  <2>1. RanInOrder(r)'
    BY <1>1, <1>7, BeforeStays, Zenon DEF RequestInv, Ordered, RanInOrder
  <2>2. LeftAfterRan(r)' /\ LeftInOrder(r)'
    BY <1>11, Zenon DEF LeftAfterRan, LeftInOrder
  <2> QED
    BY <2>1, <2>2 DEF Ordered
<1>13. Covered(r)'
  <2>1. Due(r)' \subseteq Due(r)
    BY <1>1, <1>2, <1>3, <1>4, Zenon DEF Due
  <2> SUFFICES ASSUME NEW c \in Configs \ touched[r],
                      row[c].bound /\ row[c].enabled, row[c].phase \in Due(r)
               PROVE  \E i \in 1 .. Len(ran[r]) : ran[r][i].id = c
    BY <1>1, <2>1, Zenon DEF Covered
  <2> QED
    BY <1>7, <1>11, Zenon DEF RequestInv, Covered
<1>14. Written(r)'
  BY <1>1, <1>3, <1>4, WrittenStays
<1>15. Recorded(r)'
  <2>1. pc'[r] \notin {"blocked", "dropped", "record"}
    BY <1>3, <1>4
  <2> QED
    BY <1>1, <2>1, NothingRecorded DEF RequestInv
<1> QED
  BY <1>6, <1>8, <1>9, <1>12, <1>13, <1>14, <1>15 DEF RequestInv

LEMMA SecondPhaseStep ==
  ASSUME Tables, Locals, NEW r \in Requests, RequestInv(r), SecondPhase(r)
  PROVE  Tables' /\ Locals' /\ RequestInv(r)'
<1> DEFINE next == [body |-> input[r].body, headers |-> Client]
<1>1. /\ UNCHANGED <<row, edits, audit, chain, result, sent>>
      /\ UNCHANGED <<ran, touched, silent>>
      /\ pc[r] = "between"
      /\ pc' = [pc EXCEPT ![r] = "load"]
      /\ phase' = [phase EXCEPT ![r] = Second]
      /\ input' = [input EXCEPT ![r] = next]
  BY Zenon DEF SecondPhase, config, history, Second
<1>2. /\ pc' \in [Requests -> Active \cup {"idle", "sent", "blocked", "dropped"}]
      /\ pc'[r] = "load"
  BY <1>1, SMT DEF Locals, Active
<1>3. phase' \in [Requests -> Phases] /\ phase'[r] = Second
  <2>1. Second \in Phases
    BY DEF Phases, Second
  <2> QED
    BY <1>1, <2>1, SMT DEF Locals
<1>4. /\ next \in [body : Configs \cup {Client}, headers : Configs \cup {Client}]
      /\ next.body = input[r].body
  <2>1. input[r].body \in Configs \cup {Client}
    BY Zenon DEF Locals
  <2> QED
    BY <2>1
<1> HIDE DEF next
<1>5. /\ input' \in [Requests -> [body : Configs \cup {Client},
                                  headers : Configs \cup {Client}]]
      /\ input'[r].body = input[r].body
  BY <1>1, <1>4, SMT DEF Locals
<1>6. Tables' /\ Locals'
  BY <1>1, <1>2, <1>3, <1>5, Zenon DEF Tables, Locals
<1>7. pc[r] \in Going
  BY <1>1 DEF Going
<1>8. phase[r] = First /\ chain[r] = <<>> /\ First # Second
  BY <1>1 DEF RequestInv, Shape, First, Second
<1>9. Shape(r)'
  BY <1>1, <1>2, <1>8, Zenon DEF Shape
<1>10. Phased(r)' /\ PassedAll(r)'
  <2>1. \A i \in 1 .. Len(ran[r]) : ran[r][i].phase = First /\ Passed(ran[r][i])
    BY <1>1, <1>7, <1>8, Zenon DEF RequestInv, Phased, PassedAll
  <2> QED
    BY <1>1, <1>3, <1>8, <2>1, Zenon DEF Phased, PassedAll
<1>11. \A i \in 1 .. Len(chain[r]) : FALSE
  BY <1>8, Empty DEF Locals
<1>12. Left(r) = {} /\ Left(r)' = {}
  BY <1>1, <1>11, Zenon DEF Left
<1>13. Ordered(r)'
  <2>1. RanInOrder(r)'
    BY <1>1, <1>7, BeforeStays, Zenon DEF RequestInv, Ordered, RanInOrder
  <2>2. LeftAfterRan(r)' /\ LeftInOrder(r)'
    BY <1>12, Zenon DEF LeftAfterRan, LeftInOrder
  <2> QED
    BY <2>1, <2>2 DEF Ordered
<1>14. Covered(r)'
  <2>1. Due(r)' \subseteq Due(r)
    BY <1>1, <1>2, <1>3, <1>8, Zenon DEF Due
  <2> SUFFICES ASSUME NEW c \in Configs \ touched[r],
                      row[c].bound /\ row[c].enabled, row[c].phase \in Due(r)
               PROVE  \E i \in 1 .. Len(ran[r]) : ran[r][i].id = c
    BY <1>1, <2>1, Zenon DEF Covered
  <2> QED
    BY <1>7, <1>12, Zenon DEF RequestInv, Covered
<1>15. Written(r)'
  BY <1>1, <1>2, <1>5, WrittenStays
<1>16. Recorded(r)'
  <2>1. pc'[r] \notin {"blocked", "dropped", "record"}
    BY <1>2
  <2> QED
    BY <1>1, <2>1, NothingRecorded DEF RequestInv
<1> QED
  BY <1>6, <1>9, <1>10, <1>13, <1>14, <1>15, <1>16 DEF RequestInv

\* A request changes its own locals and rows only.
LEMMA OthersUndisturbed ==
  ASSUME Tables, Locals, NEW r \in Requests, RunPhase(r), Shape(r),
         NEW q \in Requests, q # r
  PROVE  Kept(q) /\ RowsKept(q) /\ row' = row /\ touched' = touched
<1> USE DEF Begin, Load, LoadFails, ExecuteScript, ScriptPanics, FinishScript,
            FinishPhase, SecondPhase, Drop, config, history
<1>1. pc' = pc \/ \E x : pc' = [pc EXCEPT ![r] = x]
  BY Zenon DEF RunPhase
<1>2. phase' = phase \/ \E x : phase' = [phase EXCEPT ![r] = x]
  BY Zenon DEF RunPhase
<1>3. chain' = chain \/ \E x : chain' = [chain EXCEPT ![r] = x]
  BY Zenon DEF RunPhase
<1>4. result' = result \/ \E x : result' = [result EXCEPT ![r] = x]
  BY Zenon DEF RunPhase
<1>5. input' = input \/ \E x : input' = [input EXCEPT ![r] = x]
  BY Zenon DEF RunPhase
<1>6. ran' = ran \/ \E x : ran' = [ran EXCEPT ![r] = x]
  BY Zenon DEF RunPhase
<1>7. row' = row /\ edits' = edits /\ touched' = touched
  BY Zenon DEF RunPhase
<1>8. \/ pc[r] = "record" /\ RecordRun(r)
      \/ audit' = audit /\ (silent' = silent \/ silent' = silent \cup {r})
  BY Zenon DEF RunPhase
<1>9. ASSUME NEW v, NEW T, v \in [Requests -> T], NEW w,
             w = v \/ \E x : w = [v EXCEPT ![r] = x]
      PROVE  w[q] = v[q]
  BY <1>9, Zenon
<1>10. Kept(q)
  BY <1>1, <1>2, <1>3, <1>4, <1>5, <1>6, <1>9, Zenon DEF Kept, Locals
<1>11. RowsKept(q)
  <2>1. CASE pc[r] = "record" /\ RecordRun(r)
    BY <1>7, <2>1, TablesRecorded
  <2>2. CASE audit' = audit /\ (silent' = silent \/ silent' = silent \cup {r})
    BY <2>2, Zenon DEF RowsKept, Rows
  <2> QED
    BY <1>8, <2>1, <2>2
<1> QED
  BY <1>7, <1>10, <1>11

LEMMA RequestStep ==
  ASSUME Inv, NEW r \in Requests, RunPhase(r)
  PROVE  Inv'
<1>1. Tables /\ Locals /\ RequestInv(r)
  BY DEF Inv
<1>2. Tables' /\ Locals' /\ RequestInv(r)'
  <2>1. CASE Begin(r)
    BY <1>1, <2>1, BeginStep
  <2>2. CASE Load(r)
    BY <1>1, <2>2, LoadStep
  <2>3. CASE LoadFails(r) \/ ScriptPanics(r)
    BY <1>1, <2>3, FailStep
  <2>4. CASE ExecuteScript(r)
    BY <1>1, <2>4, ExecuteScriptStep
  <2>5. CASE FinishScript(r)
    BY <1>1, <2>5, FinishScriptStep
  <2>6. CASE FinishPhase(r)
    BY <1>1, <2>6, FinishPhaseStep
  <2>7. CASE SecondPhase(r)
    BY <1>1, <2>7, SecondPhaseStep
  <2>8. CASE Drop(r)
    BY <1>1, <2>8, DropStep
  <2> QED
    BY <2>1, <2>2, <2>3, <2>4, <2>5, <2>6, <2>7, <2>8 DEF RunPhase
<1>3. ASSUME NEW q \in Requests, q # r
      PROVE  RequestInv(q)'
  <2>1. RequestInv(q) /\ Shape(r)
    BY DEF Inv, RequestInv
  <2>2. Kept(q) /\ RowsKept(q) /\ row' = row /\ touched' = touched
    BY <1>1, <1>3, <2>1, OthersUndisturbed
  <2> QED
    BY <1>1, <2>1, <2>2, OthersKeep
<1> QED
  BY <1>2, <1>3, Zenon DEF Inv

-----------------------------------------------------------------------------
(***************************************************************************)
(* The theorems                                                            *)
(***************************************************************************)

LEMMA InitInv == Init => Inv
<1> SUFFICES ASSUME Init PROVE Inv
  OBVIOUS
<1>1. Tables
  <2>1. row \in [Configs -> Row] /\ \A c \in Configs : row[c].bound => row[c].exists
    BY MiddlewareAssumption DEF Init
  <2>2. edits \in 0 .. MaxEdits
    BY MiddlewareAssumption, SMT DEF Init
  <2>3. audit \in Seq(AuditRow) /\ audit = <<>>
    BY DEF Init
  <2>4. \A i \in 1 .. Len(audit) : FALSE
    BY <2>3, Empty
  <2> QED
    BY <2>1, <2>2, <2>3, <2>4, Zenon DEF Tables
<1>2. Locals
  <2>1. First \in Phases
    BY DEF First, Phases
  <2>2. phase \in [Requests -> Phases]
    BY <2>1 DEF Init, First
  <2>3. result \in [Requests -> Results \cup {NoResult}]
    BY Zenon DEF Init
  <2>4. input \in [Requests -> [body : Configs \cup {Client},
                                headers : Configs \cup {Client}]]
    BY SMT DEF Init
  <2>5. /\ pc \in [Requests -> Active \cup {"idle", "sent", "blocked", "dropped"}]
        /\ chain \in [Requests -> Seq(Entry)] /\ ran \in [Requests -> Seq(Run)]
        /\ sent \in [Requests -> SUBSET Configs]
        /\ touched \in [Requests -> SUBSET Configs]
        /\ silent \in SUBSET Requests
    BY SMT DEF Init
  <2> QED
    BY <2>2, <2>3, <2>4, <2>5 DEF Locals
<1>3. ASSUME NEW r \in Requests PROVE RequestInv(r)
  <2>1. /\ pc[r] = "idle" /\ phase[r] = First /\ chain[r] = <<>>
        /\ ran[r] = <<>> /\ input[r].body = Client /\ audit = <<>>
    BY DEF Init, First
  <2>2. Len(ran[r]) = 0 /\ \A i \in 1 .. Len(ran[r]) : FALSE
    BY <1>2, <2>1, Empty DEF Locals
  <2>3. pc[r] \notin Going
    BY <2>1 DEF Going
  <2>4. Shape(r) /\ Phased(r) /\ PassedAll(r) /\ Covered(r) /\ Ordered(r)
    BY <2>1, <2>2, <2>3, Zenon
       DEF Shape, Phased, PassedAll, Covered, Ordered
  <2>5. Written(r)
    <3>1. Applied(r) = {}
      BY <2>2, Zenon DEF Applied
    <3> QED
      BY <2>1, <3>1, Zenon DEF Written, MadeByLast
  <2>6. Rows(r) = {} /\ Cardinality(Rows(r)) = 0
    <3>1. \A i \in DOMAIN audit : FALSE
      BY <1>1, <2>1, Empty DEF Tables
    <3>2. Rows(r) = {}
      BY <3>1, Zenon DEF Rows
    <3> QED
      BY <3>2, FS_EmptySet
  <2>7. Recorded(r)
    BY <2>1, <2>2, <2>6 DEF Recorded
  <2> QED
    BY <2>4, <2>5, <2>7 DEF RequestInv
<1> QED
  BY <1>1, <1>2, <1>3 DEF Inv

LEMMA NextInv == Inv /\ [Next]_vars => Inv'
<1> SUFFICES ASSUME Inv, [Next]_vars PROVE Inv'
  OBVIOUS
<1>1. CASE UNCHANGED vars
  <2>1. Tables' /\ Locals'
    BY <1>1, Zenon DEF Inv, Tables, Locals, vars, config, history
  <2>2. ASSUME NEW q \in Requests PROVE RequestInv(q)'
    <3>1. Kept(q) /\ RowsKept(q) /\ row' = row /\ touched' = touched
      BY <1>1, Zenon DEF Kept, RowsKept, Rows, vars, config, history
    <3> QED
      BY <3>1, OthersKeep DEF Inv
  <2> QED
    BY <2>1, <2>2 DEF Inv
<1>2. ASSUME NEW c \in Configs, Admin(c) PROVE Inv'
  BY <1>2, AdminStep
<1>3. ASSUME NEW r \in Requests, RunPhase(r) PROVE Inv'
  BY <1>3, RequestStep
<1> QED
  BY <1>1, <1>2, <1>3 DEF Next

LEMMA InductiveInvariant == Spec => []Inv
  BY InitInv, NextInv, PTL DEF Spec

\* The tables, the requests and the audit log have their types; only a row
\* that exists is bound to the key or named by an audit row.
THEOREM MiddlewareTypeOK == Spec => []TypeOK
<1>1. Inv => TypeOK
  <2> SUFFICES ASSUME Inv PROVE TypeOK
    OBVIOUS
  <2>1. DOMAIN audit = 1 .. Len(audit)
    BY Empty DEF Inv, Tables
  <2>2. \A r \in Requests : pc[r] = "record" => chain[r] # <<>>
    BY Zenon DEF Inv, RequestInv, Shape
  <2> QED
    BY <2>1, <2>2, Zenon DEF Inv, Tables, Locals, TypeOK
<1> QED
  BY <1>1, InductiveInvariant, PTL

\* A request goes upstream only past every script that stood unchanged while
\* it was served, in the order of their priorities, and with the body the last
\* of its scripts to change it made, the client's if none did; for any number of
\* scripts, requests and edits between any two of its steps.
THEOREM ScriptsAreNotSkipped == Spec => []NothingSentPastAScript
<1>1. Inv => NothingSentPastAScript
  <2> SUFFICES ASSUME Inv, NEW r \in Requests, pc[r] = "sent"
               PROVE  /\ \A c \in Configs \ touched[r] :
                           row[c].bound /\ row[c].enabled => Ran(r, c)
                      /\ \A i \in DOMAIN ran[r] : Passed(ran[r][i])
                      /\ \A i, j \in DOMAIN ran[r] :
                           i < j /\ ran[r][i].phase = ran[r][j].phase =>
                             Before(r, ran[r][i].id, ran[r][j].id)
                      /\ MadeByLast(ran[r], {i \in DOMAIN ran[r] : ran[r][i].body},
                                    input[r].body)
    BY Zenon DEF NothingSentPastAScript, Passed, Before
  <2>1. RequestInv(r) /\ pc[r] \in Going
    BY DEF Inv, Going
  <2>2. /\ DOMAIN ran[r] = 1 .. Len(ran[r])
        /\ chain[r] = <<>> /\ phase[r] = Second
        /\ \A i \in 1 .. Len(chain[r]) : FALSE
    <3>1. chain[r] = <<>> /\ phase[r] = Second
      BY <2>1, Zenon DEF RequestInv, Shape
    <3> QED
      BY <3>1, Empty DEF Inv, Locals
  <2>3. ASSUME NEW c \in Configs \ touched[r], row[c].bound /\ row[c].enabled
        PROVE  Ran(r, c)
    <3>1. row[c].phase \in Phases /\ Phases = {First, Second}
      BY DEF Inv, Tables, Row, Phases, First, Second
    <3>2. row[c].phase \in Due(r)
      BY <2>2, <3>1, Zenon DEF Due
    <3>3. Left(r) = {}
      BY <2>2, Zenon DEF Left
    <3> QED
      BY <2>1, <2>2, <2>3, <3>2, <3>3, Zenon DEF RequestInv, Covered, Ran
  <2>4. \A i \in DOMAIN ran[r] : Passed(ran[r][i])
    BY <2>1, <2>2, Zenon DEF RequestInv, PassedAll
  <2>5. RanInOrder(r)
    BY <2>1 DEF RequestInv, Ordered
  <2>6. MadeByLast(ran[r], {i \in DOMAIN ran[r] : ran[r][i].body},
                   input[r].body)
    <3>1. Applied(r) = {i \in DOMAIN ran[r] : ran[r][i].body}
      BY <2>2, Zenon DEF Applied
    <3> QED
      BY <2>1, <3>1, Zenon DEF RequestInv, Written
  <2> QED
    BY <2>2, <2>3, <2>4, <2>5, <2>6, Zenon DEF RanInOrder
<1> QED
  BY <1>1, InductiveInvariant, PTL

\* The audit log has a row for every script that a request ran to its end, and
\* its last row says whether the request was blocked; but for a request of
\* which a row was lost, a script panicked or the configs were not loaded.
THEOREM AuditTellsTheFate == Spec => []AuditAgreesWithFate
<1>1. Inv => AuditAgreesWithFate
  <2> SUFFICES ASSUME Inv, NEW r \in Requests \ silent
               PROVE  /\ pc[r] = "blocked" =>
                           \E i \in Rows(r) :
                             (\A j \in Rows(r) : j <= i)
                               /\ audit[i].action = "block"
                      /\ pc[r] \notin {"blocked", "dropped"} =>
                           \A i \in Rows(r) : audit[i].action = "continue"
                      /\ pc[r] \in {"sent", "blocked"} =>
                           Cardinality(Rows(r)) = Len(ran[r])
    BY Zenon DEF AuditAgreesWithFate
  <2>1. Recorded(r) /\ ran[r] \in Seq(Run)
    BY DEF Inv, RequestInv, Locals
  <2>2. Len(ran[r]) \in Nat
    BY <2>1, Empty
  <2>3. ASSUME pc[r] \in {"sent", "blocked"}
        PROVE  Cardinality(Rows(r)) = Len(ran[r])
    <3>1. pc[r] # "dropped" /\ pc[r] # "record"
      BY <2>3
    <3>2. Cardinality(Rows(r)) = Len(ran[r]) - 0
      BY <2>1, <3>1, Zenon DEF Recorded
    <3> QED
      BY <2>2, <3>2
  <2> QED
    BY <2>1, <2>3, Zenon DEF Recorded
<1> QED
  BY <1>1, InductiveInvariant, PTL

=============================================================================
