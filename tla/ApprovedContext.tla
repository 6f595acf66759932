---------------------------- MODULE ApprovedContext ----------------------------
(***************************************************************************)
(* Retrieval of approved context: queryApprovedContext, the projection     *)
(* projectApprovedContext and the repository that loads fact versions and  *)
(* stores content-addressed snapshots, run while owners go on approving    *)
(* and reverifying facts.  The writers are the atomic appends that         *)
(* FactLedger promises; here rows also keep their times and governance,    *)
(* and the clock is one clock that only moves forward (what differing      *)
(* clocks do to the history is FactCommands' subject).                     *)
(***************************************************************************)
EXTENDS Integers, Sequences, FiniteSets

CONSTANTS
  Queries,        \* invocations of queryApprovedContext
  Requests,       \* the queries they may carry
  Fields,         \* field keys
  TimeSensitive,  \* the fields a freshness rule governs
  Window,         \* FACT_FRESHNESS_WINDOW_DAYS
  DueSoon,        \* FACT_FRESHNESS_DUE_SOON_DAYS
  SeedFacts,      \* the approved versions at the start, in commit order
  ValuesOf,       \* the values a review may approve for each field
  TextValues,     \* those that are text or lists of text
  MaxTime,        \* bound: the clock stops here
  MaxFacts,       \* bound: no fact version is appended beyond this many
  Null

ASSUME ContextAssumption ==
  /\ TimeSensitive \subseteq Fields
  /\ Window \in Nat /\ DueSoon \in Nat /\ DueSoon < Window
  /\ MaxTime \in Nat /\ MaxFacts \in Nat
  /\ Null \notin Nat

VARIABLES
  clock,      \* the time every server reads
  facts,      \* approved_fact_version, in commit order
  snapshots,  \* verified_context_snapshot: identity, creating request
  audit,      \* audit_event of action approved_context_snapshot_created
  pc,         \* where each query is
  request,    \* what it asks
  asOf,       \* the time it captured on entry
  began,      \* how many facts were committed when it began
  records,    \* per requested field key, the rows it loaded
  reply       \* what it answers: an outcome and the snapshot's body

tables == <<facts, snapshots, audit>>
vars == <<clock, facts, snapshots, audit, pc, request, asOf, began, records, reply>>

UseCases == {"campaign_planning", "concierge_response"}
ASSUME RequestAssumption ==
  \A r \in Requests : r.fieldKeys \in Seq(Fields) /\ r.useCase \in UseCases

Governance == {"available", "restricted", "disputed"}
Values == UNION {ValuesOf[f] : f \in Fields}
FactRow ==
  [field : Fields, version : Nat \ {0}, value : Values, governance : Governance,
   uses : SUBSET UseCases, verifiedAt : Nat, expiresAt : Nat \cup {Null}]

-----------------------------------------------------------------------------
(* The owners.                                                             *)

Rows == {facts[i] : i \in DOMAIN facts}
RowsOf(f, rows) == {r \in rows : r.field = f}
Newest(rows) == {r \in rows : \A s \in rows : s.version <= r.version}

ExpiresAt(f, t) == IF f \in TimeSensitive THEN t + Window ELSE Null

\* The first n rows of a log, and what the log of fact versions keeps: of every
\* field the versions are numbered in commit order, and an expiry is the
\* policy's or, in a row from before it was stored, absent.
PrefixOf(log, n) == {log[i] : i \in 1 .. n}
Numbered(rows) == {r.version : r \in rows} = 1 .. Cardinality(rows)
FactLog(log) ==
  /\ log \in Seq(FactRow)
  /\ \A n \in 0 .. Len(log), f \in Fields : Numbered(RowsOf(f, PrefixOf(log, n)))
  /\ \A i, j \in DOMAIN log :
       log[i].field = log[j].field /\ log[i].version = log[j].version => i = j
  /\ \A i \in DOMAIN log :
       log[i].expiresAt \in {Null, ExpiresAt(log[i].field, log[i].verifiedAt)}

ASSUME SeedAssumption == FactLog(SeedFacts)

Commit(row) ==
  /\ Len(facts) < MaxFacts
  /\ facts' = Append(facts, row)
  /\ UNCHANGED <<clock, snapshots, audit, pc, request, asOf, began, records, reply>>

\* A review commits the next version of f.  The time it verifies at was
\* captured when it began; its insert leaves the governance columns to their
\* defaults, whatever those of the version before it are.
Approve ==
  \E f \in Fields, t \in 0 .. clock : \E value \in ValuesOf[f] :
    LET current == Newest(RowsOf(f, Rows)) IN
    /\ \A r \in current : r.verifiedAt <= t
    /\ Commit([field |-> f, version |-> 1 + Cardinality(RowsOf(f, Rows)),
                value |-> value, governance |-> "available", uses |-> UseCases,
                verifiedAt |-> t, expiresAt |-> ExpiresAt(f, t)])

\* When a row expires: its stored time or, for a row without one, the policy's.
EffectiveExpiry(r) == IF r.expiresAt # Null THEN r.expiresAt ELSE ExpiresAt(r.field, r.verifiedAt)

\* A reverification commits the next version of a row that is due, with its governance.
Reverify ==
  \E f \in TimeSensitive, t \in 0 .. clock : \E r \in Newest(RowsOf(f, Rows)) :
    /\ EffectiveExpiry(r) <= t + DueSoon
    /\ Commit([r EXCEPT !.version = r.version + 1, !.verifiedAt = t,
                         !.expiresAt = ExpiresAt(f, t)])

-----------------------------------------------------------------------------
(* The projection.                                                         *)

\* Variant for a mutant: the expiry is the stored one only.
MapRecordAsStored(row, current) ==
  [row |-> row, isCurrent |-> current, expiresAt |-> row.expiresAt]

\* A row as mapRecord hands it on.
MapRecord(row, current) ==
  [row |-> row, isCurrent |-> current, expiresAt |-> EffectiveExpiry(row)]

\* Variant for a mutant: one greatest version for all the fields of the query.
LoadedTogether(keys) ==
  LET newest == Newest({r \in Rows : \E i \in DOMAIN keys : r.field = keys[i]}) IN
  [i \in DOMAIN keys |-> {MapRecord(r, r \in newest) : r \in RowsOf(keys[i], Rows)}]

\* loadApprovedContextRecords: one SELECT; of each field the greatest version is current.
Loaded(keys) ==
  [i \in DOMAIN keys |->
    LET rows == RowsOf(keys[i], Rows) IN {MapRecord(r, r \in Newest(rows)) : r \in rows}]

Unavailable(f, code) == [status |-> "unavailable", fieldKey |-> f, code |-> code]
Usable(record, t) ==
  [status |-> "usable", fieldKey |-> record.row.field, citation |-> record.row,
   asOf |-> t, expiresAt |-> record.expiresAt]

\* projectField, on the one current record of a field.
ProjectCurrent(record, useCase, t) ==
  LET row == record.row
      Refuse(code) == Unavailable(row.field, code)
  IN
  CASE row.governance = "disputed" -> Refuse("DISPUTED")
    [] row.governance # "disputed"
       /\ (row.governance = "restricted" \/ useCase \notin row.uses) -> Refuse("RESTRICTED")
    [] row.governance = "available" /\ useCase \in row.uses
       /\ record.expiresAt # Null /\ record.expiresAt <= t -> Refuse("EXPIRED")
    [] OTHER -> Usable(record, t)

\* projectField: rows of one tenant and profile are loaded, all approved.
ProjectField(f, loaded, useCase, t) ==
  LET current == {record \in loaded : record.isCurrent} IN
  IF loaded = {} THEN Unavailable(f, "MISSING")
  ELSE IF current = {} THEN Unavailable(f, "NOT_CURRENT")
  ELSE IF Cardinality(current) > 1 THEN Unavailable(f, "INTEGRITY_CONFLICT")
  ELSE ProjectCurrent(CHOOSE record \in current : TRUE, useCase, t)

\* The body of a snapshot.  Its SHA-256 digest is its identity; digests of
\* different bodies are taken to differ, so the body stands for the identity.
Body(q) ==
  [useCase |-> request[q].useCase, asOf |-> asOf[q],
   items |-> [i \in DOMAIN request[q].fieldKeys |->
                ProjectField(request[q].fieldKeys[i], records[q][i],
                             request[q].useCase, asOf[q])]]

-----------------------------------------------------------------------------
(* The page.                                                               *)

\* What the page says of one item: its value with its citation, or that it is
\* blocked, or that an owner has to review a field nothing was approved for.
FactView(item) ==
  IF item.status = "usable"
  THEN [fieldKey |-> item.fieldKey, state |-> "usable", value |-> item.citation.value,
        version |-> item.citation.version, expiresAt |-> item.expiresAt]
  ELSE [fieldKey |-> item.fieldKey,
        state |-> IF item.code = "MISSING" THEN "review" ELSE "blocked"]

\* formatFactValue throws for any other value.
Displayable(item) == item.status = "usable" => item.citation.value \in TextValues

\* The pages there can be; one that is there is not Null.
ViewOfFact ==
  [fieldKey : Fields, state : {"usable"}, value : Values, version : Nat,
   expiresAt : Nat \cup {Null}] \cup [fieldKey : Fields, state : {"review", "blocked"}]
PageData == [asOf : Nat, facts : Seq(ViewOfFact)]
ASSUME PageAssumption == Null \notin PageData

\* createVerifiedApprovedContextPageData: whatever throws makes the whole page
\* unavailable, after the snapshot was stored.
Page(body) ==
  IF \A i \in DOMAIN body.items : Displayable(body.items[i])
  THEN [asOf |-> body.asOf, facts |-> [i \in DOMAIN body.items |-> FactView(body.items[i])]]
  ELSE Null

-----------------------------------------------------------------------------
(* queryApprovedContext.                                                   *)

\* page is Null for an unavailable page.
NoReply == [outcome |-> "none", snapshot |-> Null, page |-> Null]

Finish(q, outcome, snapshot, page) ==
  /\ pc' = [pc EXCEPT ![q] = "done"]
  /\ reply' = [reply EXCEPT ![q] = [outcome |-> outcome, snapshot |-> snapshot, page |-> page]]

\* authorize: an owner or staff member, or an operator under a support grant,
\* with a session that is valid at the captured time.
Authorized(r, t) == r.actorAllowed /\ r.sessionExpiresAt > t

\* validateQuery: some field keys, none of them twice.
ValidQuery(r) ==
  /\ r.fieldKeys # <<>>
  /\ \A i, j \in DOMAIN r.fieldKeys : r.fieldKeys[i] = r.fieldKeys[j] => i = j

Begin(q) ==
  /\ pc[q] = "idle"
  /\ \E r \in Requests :
       /\ request' = [request EXCEPT ![q] = r]
       /\ \/ Authorized(r, clock) /\ ValidQuery(r)
             /\ pc' = [pc EXCEPT ![q] = "load"] /\ UNCHANGED reply
          \/ ~Authorized(r, clock) /\ Finish(q, "denied", Null, Null)
          \/ Authorized(r, clock) /\ ~ValidQuery(r) /\ Finish(q, "invalid_query", Null, Null)
  /\ asOf' = [asOf EXCEPT ![q] = clock]
  /\ began' = [began EXCEPT ![q] = Len(facts)]
  /\ UNCHANGED <<clock, tables, records>>

\* Variant for a mutant: one SELECT per field key.
LoadFieldByField(q) ==
  LET keys == request[q].fieldKeys
      read == Append(records[q], Loaded(keys)[Len(records[q]) + 1])
  IN
  /\ pc[q] = "load"
  /\ records' = [records EXCEPT ![q] = read]
  /\ pc' = [pc EXCEPT ![q] = IF Len(read) = Len(keys) THEN "persist" ELSE "load"]
  /\ UNCHANGED <<clock, tables, request, asOf, began, reply>>

Load(q) ==
  /\ pc[q] = "load"
  /\ records' = [records EXCEPT ![q] = Loaded(request[q].fieldKeys)]
  /\ pc' = [pc EXCEPT ![q] = "persist"]
  /\ UNCHANGED <<clock, tables, request, asOf, began, reply>>

UsableCount(body) == Cardinality({i \in DOMAIN body.items : body.items[i].status = "usable"})

\* The audit event tells which request created the snapshot, and counts.
AuditOf(q) ==
  [target |-> Body(q), request |-> q, usable |-> UsableCount(Body(q)), occurredAt |-> asOf[q]]

\* Variant for a mutant: the audit event is written even if the snapshot exists.
PersistAndAudit(q) ==
  /\ pc[q] = "persist"
  /\ IF \E s \in snapshots : s.body = Body(q)
     THEN UNCHANGED snapshots
     ELSE snapshots' = snapshots \cup {[body |-> Body(q), request |-> q]}
  /\ audit' = audit \cup {AuditOf(q)}
  /\ pc' = [pc EXCEPT ![q] = "return"]
  /\ UNCHANGED <<clock, facts, request, asOf, began, records, reply>>

\* persistApprovedContextSnapshot: one transaction.  The insert waits for a
\* running one of the same identity and then does nothing, so that the
\* transactions of one identity take effect one after the other.
Persist(q) ==
  /\ pc[q] = "persist"
  /\ IF \E s \in snapshots : s.body = Body(q)
     THEN UNCHANGED <<snapshots, audit>>
     ELSE /\ snapshots' = snapshots \cup {[body |-> Body(q), request |-> q]}
          /\ audit' = audit \cup {AuditOf(q)}
  /\ pc' = [pc EXCEPT ![q] = "return"]
  /\ UNCHANGED <<clock, facts, request, asOf, began, records, reply>>

Return(q) ==
  /\ pc[q] = "return"
  /\ Finish(q, "snapshot", Body(q), Page(Body(q)))
  /\ UNCHANGED <<clock, tables, request, asOf, began, records>>

\* The server dies between two statements; what it committed stays.
Crash(q) ==
  /\ pc[q] \in {"load", "persist", "return"}
  /\ Finish(q, "crashed", Null, Null)
  /\ UNCHANGED <<clock, tables, request, asOf, began, records>>

Tick ==
  /\ clock < MaxTime
  /\ clock' = clock + 1
  /\ UNCHANGED <<tables, pc, request, asOf, began, records, reply>>

-----------------------------------------------------------------------------
Init ==
  /\ clock = 0
  /\ facts = SeedFacts
  /\ snapshots = {}
  /\ audit = {}
  /\ pc = [q \in Queries |-> "idle"]
  /\ request = [q \in Queries |-> Null]
  /\ asOf = [q \in Queries |-> Null]
  /\ began = [q \in Queries |-> 0]
  /\ records = [q \in Queries |-> <<>>]
  /\ reply = [q \in Queries |-> NoReply]

QueryStep(q) == Begin(q) \/ Load(q) \/ Persist(q) \/ Return(q)

Quiescent == (\A q \in Queries : pc[q] = "done") /\ UNCHANGED vars

Next ==
  \/ Tick
  \/ Approve
  \/ Reverify
  \/ \E q \in Queries : QueryStep(q) \/ Crash(q)
  \/ Quiescent

Spec == Init /\ [][Next]_vars

-----------------------------------------------------------------------------
(* Properties.                                                             *)

Codes == {"MISSING", "NOT_CURRENT", "INTEGRITY_CONFLICT", "DISPUTED", "RESTRICTED", "EXPIRED"}
Record == [row : FactRow, isCurrent : BOOLEAN, expiresAt : Nat \cup {Null}]
Item ==
  [status : {"unavailable"}, fieldKey : Fields, code : Codes] \cup
  [status : {"usable"}, fieldKey : Fields, citation : FactRow, asOf : Nat,
   expiresAt : Nat \cup {Null}]
IsBody(b) ==
  /\ DOMAIN b = {"useCase", "asOf", "items"}
  /\ b.useCase \in UseCases /\ b.asOf \in 0 .. clock
  /\ b.items \in Seq(Item)

\* Every variable has the shape the code gives it, and a query has loaded the
\* records of all of its field keys, or of none.
TypeOK ==
  /\ clock \in 0 .. MaxTime
  /\ Rows \subseteq FactRow
  /\ \A s \in snapshots : IsBody(s.body) /\ s.request \in Queries
  /\ \A a \in audit : IsBody(a.target) /\ a.request \in Queries /\ a.usable \in Nat
  /\ pc \in [Queries -> {"idle", "load", "persist", "return", "done"}]
  /\ request \in [Queries -> Requests \cup {Null}]
  /\ asOf \in [Queries -> 0 .. clock \cup {Null}]
  /\ began \in [Queries -> 0 .. Len(facts)]
  /\ \A q \in Queries :
       /\ records[q] \in Seq(SUBSET Record)
       /\ records[q] = <<>> \/ Len(records[q]) = Len(request[q].fieldKeys)
       /\ reply[q].snapshot = Null \/ IsBody(reply[q].snapshot)
       /\ reply[q].page \in PageData \cup {Null}

\* The first n fact versions to commit, and what they are worth at time t to a
\* use case: the reference for what a snapshot may say of a field.
Prefix(n) == PrefixOf(facts, n)
Assertable(f, n, useCase, t) ==
  {r \in Newest(RowsOf(f, Prefix(n))) :
     /\ r.governance = "available" /\ useCase \in r.uses
     /\ f \in TimeSensitive => t < r.verifiedAt + Window
     /\ r.expiresAt # Null => t < r.expiresAt}

\* What the body and the page of query q say is what the first n versions are
\* worth: the values, what is missing, and a page withheld only for a value that
\* it cannot display.
AssertsAt(q, n) ==
  LET body == Body(q)
      keys == request[q].fieldKeys
      page == reply[q].page
      Worth(i) == Assertable(keys[i], n, body.useCase, body.asOf)
  IN
  /\ \A i \in DOMAIN keys :
       Worth(i) = IF body.items[i].status = "usable" THEN {body.items[i].citation} ELSE {}
  /\ page # Null => \A i \in DOMAIN keys :
       /\ page.facts[i].state = "usable" <=>
            \E r \in Worth(i) : r.value = page.facts[i].value /\ r.version = page.facts[i].version
       /\ page.facts[i].state = "review" <=> RowsOf(keys[i], Prefix(n)) = {}
  /\ pc[q] = "done" /\ page = Null =>
       \E i \in DOMAIN keys : \E r \in Worth(i) : r.value \notin TextValues

\* The facts a snapshot asserts are those that could be asserted together at one
\* instant between the start of its query and now: no superseded version, no
\* expired one even if its row predates stored expiries, no mixture of two
\* instants, although owners commit new versions while the query runs; and the
\* page shows just those.
AssertsOneInstant ==
  \A q \in Queries : pc[q] = "return" \/ reply[q].outcome = "snapshot" =>
    \E n \in began[q] .. Len(facts) : AssertsAt(q, n)

\* A reason always tells the owner what to do: the codes that say the history
\* itself is broken are never given, because the versions of a field form a
\* chain and the one query that loads them marks exactly one as current.
ReasonsAreActionable ==
  \A s \in snapshots : \A i \in DOMAIN s.body.items :
    s.body.items[i].status = "unavailable" =>
      s.body.items[i].code \in {"MISSING", "DISPUTED", "RESTRICTED", "EXPIRED"}

\* A snapshot that was returned is stored, whatever crashed, and every stored
\* snapshot has one audit event, that of the request that created it: repeating
\* identical content adds neither (BRN-004B).
AuditedOnce ==
  /\ \A q \in Queries : reply[q].outcome = "snapshot" =>
       \E s \in snapshots : s.body = reply[q].snapshot
  /\ \A s, z \in snapshots : s.body = z.body => s = z
  /\ \A s \in snapshots : Cardinality({a \in audit : a.target = s.body}) = 1
  /\ \A a \in audit : \E s \in snapshots : s.body = a.target /\ s.request = a.request
=============================================================================
