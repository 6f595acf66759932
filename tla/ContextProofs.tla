----------------------------- MODULE ContextProofs -----------------------------
(***************************************************************************)
(* Theorems about approved context: what a snapshot asserts, which reasons *)
(* it gives and how it is stored, for every number of queries and every    *)
(* history of facts.                                                       *)
(***************************************************************************)
EXTENDS ApprovedContext, FiniteSetTheorems, SequenceTheorems, TLAPS

-----------------------------------------------------------------------------
(* The inductive invariant.                                                *)

\* What a query for these keys loads when the first n versions are committed.
LoadedOf(f, rows) == {MapRecord(r, r \in Newest(rows)) : r \in rows}
LoadedAt(keys, n) == [i \in DOMAIN keys |-> LoadedOf(keys[i], RowsOf(keys[i], Prefix(n)))]

\* What a query knows at its place: a request that was let in, with the records
\* of one instant since it began, and a body that is stored.
QueryInv(q) ==
  /\ IF pc[q] = "idle" THEN records[q] = <<>>
     ELSE request[q] \in Requests /\ asOf[q] \in 0 .. clock
  /\ pc[q] \in {"idle", "load", "persist", "return"} => reply[q] = NoReply
  /\ pc[q] \in {"persist", "return"} \/ reply[q].outcome = "snapshot" =>
       \E n \in began[q] .. Len(facts) : records[q] = LoadedAt(request[q].fieldKeys, n)
  /\ pc[q] = "return" \/ reply[q].outcome = "snapshot" =>
       \E s \in snapshots : s.body = Body(q)
  /\ reply[q].outcome = "snapshot" =>
       pc[q] = "done" /\ reply[q].snapshot = Body(q) /\ reply[q].page = Page(Body(q))

\* Bodies are stored once, each with one audit event, that of its creator, and
\* give no reason that would speak of a broken history.
BodiesUnique == \A s, z \in snapshots : s.body = z.body => s = z
Audited ==
  /\ \A s \in snapshots : \E a \in audit : {x \in audit : x.target = s.body} = {a}
  /\ \A a \in audit : \E s \in snapshots : s.body = a.target /\ s.request = a.request

ContextInv ==
  /\ TypeOK /\ DOMAIN reply = Queries /\ DOMAIN records = Queries
  /\ FactLog(facts)
  /\ \A q \in Queries : QueryInv(q)
  /\ BodiesUnique /\ Audited /\ ReasonsAreActionable

-----------------------------------------------------------------------------
(* The fact log.                                                           *)

LEMMA PrefixFinite ==
  ASSUME NEW log, NEW n \in Nat
  PROVE  IsFiniteSet(PrefixOf(log, n))
<1> DEFINE f == [i \in 1 .. n |-> log[i]]
<1>1. f \in Surjection(1 .. n, PrefixOf(log, n))
  BY DEF Surjection, PrefixOf
<1>2. IsFiniteSet(1 .. n)
  BY FS_Interval
<1>3. QED BY ONLY <1>1, <1>2, FS_Surjection

LEMMA RowsFinite ==
  ASSUME NEW log, NEW n \in Nat, NEW f
  PROVE  /\ IsFiniteSet(RowsOf(f, PrefixOf(log, n)))
         /\ Cardinality(RowsOf(f, PrefixOf(log, n))) \in Nat
<1> DEFINE rows == RowsOf(f, PrefixOf(log, n))
<1>1. IsFiniteSet(PrefixOf(log, n)) /\ rows \in SUBSET PrefixOf(log, n)
  BY PrefixFinite DEF RowsOf
<1>2. IsFiniteSet(rows)
  BY ONLY <1>1, FS_Subset
<1>3. Cardinality(rows) \in Nat
  BY ONLY <1>2, FS_CardinalityType
<1>4. QED BY <1>2, <1>3

\* Of a numbered history without two rows of one version exactly one row is the
\* newest, the one whose version is their number.
LEMMA NewestIsLast ==
  ASSUME NEW log, FactLog(log), NEW n \in 0 .. Len(log), NEW f \in Fields,
         RowsOf(f, PrefixOf(log, n)) # {}
  PROVE  \E r \in RowsOf(f, PrefixOf(log, n)) :
           /\ Newest(RowsOf(f, PrefixOf(log, n))) = {r}
           /\ r \in FactRow /\ r.version = Cardinality(RowsOf(f, PrefixOf(log, n)))
           /\ r.expiresAt \in {Null, ExpiresAt(f, r.verifiedAt)}
<1> DEFINE rows == RowsOf(f, PrefixOf(log, n))
           c == Cardinality(rows)
<1>1. Len(log) \in Nat /\ DOMAIN log = 1 .. Len(log) /\ n \in Nat /\ n <= Len(log)
  BY LenProperties DEF FactLog
<1>2. \A r \in rows : \E i \in 1 .. n : i \in DOMAIN log /\ r = log[i] /\ log[i] \in FactRow /\ r.field = f
  BY <1>1, ElementOfSeq DEF RowsOf, PrefixOf, FactLog
<1>3. c \in Nat
  BY <1>1, RowsFinite
<1>4. {r.version : r \in rows} = 1 .. c
  BY DEF FactLog, Numbered
<1>5. PICK last \in rows : last.version = c
  <2>1. PICK r \in rows : TRUE
    OBVIOUS
  <2>2. r.version \in 1 .. c
    BY <1>4
  <2>3. c \in 1 .. c
    BY <2>2, <1>3
  <2>4. QED BY <2>3, <1>4
<1>6. \A r \in rows : r.version <= last.version
  BY <1>3, <1>4, <1>5
<1>7. \A r \in rows : r.version = c => r = last
  BY <1>2, <1>5 DEF FactLog
<1>8. Newest(rows) = {last}
  <2>1. \A r \in Newest(rows) : r.version = c
    <3>1. TAKE r \in Newest(rows)
    <3>2. r \in rows /\ last.version <= r.version
      BY DEF Newest
    <3>3. r.version \in 1 .. c
      BY <3>2, <1>4
    <3>4. QED BY <3>2, <3>3, <1>3, <1>5
  <2>2. last \in Newest(rows)
    BY <1>6 DEF Newest
  <2>3. Newest(rows) \subseteq rows
    BY DEF Newest
  <2>4. QED BY <2>1, <2>2, <2>3, <1>7
<1>9. last \in FactRow /\ last.expiresAt \in {Null, ExpiresAt(f, last.verifiedAt)}
  BY <1>2 DEF FactLog
<1>10. QED BY <1>5, <1>8, <1>9

\* The log grows by a row that numbers on.
LEMMA LogGrows ==
  ASSUME NEW log, FactLog(log), NEW row \in FactRow,
         row.version = 1 + Cardinality(RowsOf(row.field, PrefixOf(log, Len(log)))),
         row.expiresAt \in {Null, ExpiresAt(row.field, row.verifiedAt)}
  PROVE  /\ FactLog(Append(log, row)) /\ Len(Append(log, row)) = Len(log) + 1
         /\ \A n \in 0 .. Len(log) : PrefixOf(Append(log, row), n) = PrefixOf(log, n)
<1> DEFINE new == Append(log, row)
           m == Len(log)
           c == Cardinality(RowsOf(row.field, PrefixOf(log, m)))
<1>1. /\ log \in Seq(FactRow) /\ m \in Nat /\ DOMAIN log = 1 .. m
      /\ new \in Seq(FactRow) /\ Len(new) = m + 1 /\ DOMAIN new = 1 .. m + 1
      /\ \A i \in 1 .. m : new[i] = log[i]
      /\ new[m + 1] = row
  BY LenProperties, AppendProperties DEF FactLog
<1>2. \A n \in 0 .. m : PrefixOf(new, n) = PrefixOf(log, n)
  BY <1>1 DEF PrefixOf
<1>3. PrefixOf(new, m + 1) = PrefixOf(log, m) \cup {row}
  <2>1. 1 .. m + 1 = (1 .. m) \cup {m + 1}
    BY <1>1
  <2>2. QED BY <2>1, <1>1 DEF PrefixOf
<1>4. c \in Nat
  BY <1>1, RowsFinite
<1>5. \A i \in 1 .. m : log[i].field = row.field => log[i].version \in 1 .. c
  <2>1. TAKE i \in 1 .. m
  <2>2. HAVE log[i].field = row.field
  <2>3. log[i] \in RowsOf(row.field, PrefixOf(log, m))
    BY <2>2 DEF RowsOf, PrefixOf
  <2>4. row.field \in Fields /\ m \in 0 .. m
    BY <1>1 DEF FactRow
  <2>5. Numbered(RowsOf(row.field, PrefixOf(log, m)))
    BY <2>4 DEF FactLog
  <2>6. QED BY <2>3, <2>5 DEF Numbered
<1>6. \A n \in 0 .. Len(new), f \in Fields : Numbered(RowsOf(f, PrefixOf(new, n)))
  <2>1. TAKE n \in 0 .. Len(new), f \in Fields
  <2>2. CASE n \in 0 .. m
    BY <2>2, <1>2 DEF FactLog
  <2>3. CASE n = m + 1 /\ f # row.field
    <3>1. RowsOf(f, PrefixOf(new, n)) = RowsOf(f, PrefixOf(log, m))
      BY <2>3, <1>3 DEF RowsOf
    <3>2. m \in 0 .. m
      BY <1>1
    <3>3. QED BY <3>1, <3>2 DEF FactLog
  <2>4. CASE n = m + 1 /\ f = row.field
    <3> DEFINE old == RowsOf(f, PrefixOf(log, m))
    <3>1. RowsOf(f, PrefixOf(new, n)) = old \cup {row}
      BY <2>4, <1>3 DEF RowsOf
    <3>2. IsFiniteSet(old) /\ Cardinality(old) = c
      BY <1>1, <2>4, RowsFinite
    <3>3. {r.version : r \in old} = 1 .. c
      <4>1. m \in 0 .. m
        BY <1>1
      <4>2. QED BY <4>1, <3>2 DEF FactLog, Numbered
    <3>4. row \notin old
      <4>1. row.version = c + 1
        BY <1>4
      <4>2. row \in old => row.version \in 1 .. c
        BY <3>3
      <4>3. QED BY <4>1, <4>2, <1>4
    <3>5. Cardinality(old \cup {row}) = c + 1
      BY <3>2, <3>4, FS_AddElement
    <3>6. {r.version : r \in old \cup {row}} = 1 .. c + 1
      <4>1. {r.version : r \in old \cup {row}} = {r.version : r \in old} \cup {c + 1}
        BY <1>4
      <4>2. (1 .. c) \cup {c + 1} = 1 .. c + 1
        BY <1>4
      <4>3. QED BY <4>1, <4>2, <3>3
    <3>7. QED BY <3>1, <3>5, <3>6 DEF Numbered
  <2>5. QED BY <2>2, <2>3, <2>4, <1>1
<1>7. \A i, j \in DOMAIN new : new[i].field = new[j].field /\ new[i].version = new[j].version => i = j
  <2>1. TAKE i, j \in DOMAIN new
  <2>2. HAVE new[i].field = new[j].field /\ new[i].version = new[j].version
  <2>3. CASE i \in 1 .. m /\ j \in 1 .. m
    BY <2>2, <2>3, <1>1 DEF FactLog
  <2>4. CASE i = m + 1 /\ j \in 1 .. m
    BY <2>2, <2>4, <1>1, <1>4, <1>5
  <2>5. CASE j = m + 1 /\ i \in 1 .. m
    BY <2>2, <2>5, <1>1, <1>4, <1>5
  <2>6. QED BY <2>3, <2>4, <2>5, <1>1
<1>8. \A i \in DOMAIN new : new[i].expiresAt \in {Null, ExpiresAt(new[i].field, new[i].verifiedAt)}
  <2>1. TAKE i \in DOMAIN new
  <2>2. CASE i \in 1 .. m
    BY <2>2, <1>1 DEF FactLog
  <2>3. CASE i = m + 1
    BY <2>3, <1>1
  <2>4. QED BY <2>2, <2>3, <1>1
<1>9. QED BY <1>1, <1>2, <1>6, <1>7, <1>8 DEF FactLog

-----------------------------------------------------------------------------
(* The projection.                                                         *)

\* The reasons an owner can act on, and what rows are worth: Assertable, of them.
Actionable == {"MISSING", "DISPUTED", "RESTRICTED", "EXPIRED"}
WorthOf(rows, f, useCase, t) ==
  {r \in Newest(rows) :
     /\ r.governance = "available" /\ useCase \in r.uses
     /\ f \in TimeSensitive => t < r.verifiedAt + Window
     /\ r.expiresAt # Null => t < r.expiresAt}

\* A row whose expiry is the policy's, or absent, expires when the policy says.
LEMMA ExpiryByPolicy ==
  ASSUME NEW f \in Fields, NEW r \in FactRow, r.field = f,
         r.expiresAt \in {Null, ExpiresAt(f, r.verifiedAt)}, NEW t \in Nat
  PROVE  /\ EffectiveExpiry(r) \in Nat \cup {Null}
         /\ EffectiveExpiry(r) # Null /\ EffectiveExpiry(r) <= t <=>
              \/ f \in TimeSensitive /\ ~(t < r.verifiedAt + Window)
              \/ r.expiresAt # Null /\ ~(t < r.expiresAt)
<1>1. r.verifiedAt \in Nat /\ Window \in Nat /\ Null \notin Nat
  BY ContextAssumption DEF FactRow
<1>2. r.verifiedAt + Window \in Nat
  BY <1>1
<1>3. CASE f \in TimeSensitive
  <2>1. EffectiveExpiry(r) = r.verifiedAt + Window
    BY <1>3 DEF EffectiveExpiry, ExpiresAt
  <2>2. r.expiresAt = Null \/ r.expiresAt = r.verifiedAt + Window
    BY <1>3 DEF ExpiresAt
  <2>3. EffectiveExpiry(r) # Null
    BY <2>1, <1>1, <1>2
  <2>4. EffectiveExpiry(r) <= t <=> ~(t < r.verifiedAt + Window)
    BY <2>1, <1>2
  <2>5. QED BY <1>2, <1>3, <2>1, <2>2, <2>3, <2>4
<1>4. CASE f \notin TimeSensitive
  BY <1>4 DEF EffectiveExpiry, ExpiresAt
<1>5. QED BY <1>3, <1>4

\* What the projection says of a field is what the rows it loaded are worth, and
\* it never finds their history broken.
LEMMA FieldProjected ==
  ASSUME FactLog(facts), NEW n \in 0 .. Len(facts), NEW f \in Fields,
         NEW useCase \in UseCases, NEW t \in Nat,
         NEW rows, rows = RowsOf(f, Prefix(n)),
         NEW item, item = ProjectField(f, LoadedOf(f, rows), useCase, t)
  PROVE  /\ item \in Item
         /\ item.status = "usable" => WorthOf(rows, f, useCase, t) = {item.citation}
         /\ item.status = "unavailable" =>
              /\ WorthOf(rows, f, useCase, t) = {} /\ item.code \in Actionable
              /\ item.code = "MISSING" <=> rows = {}
<1>1. CASE rows = {}
  <2>1. LoadedOf(f, rows) = {}
    BY <1>1 DEF LoadedOf
  <2>2. item = Unavailable(f, "MISSING")
    BY <2>1 DEF ProjectField
  <2>3. WorthOf(rows, f, useCase, t) = {}
    BY <1>1 DEF WorthOf, Newest
  <2>4. QED BY <1>1, <2>2, <2>3 DEF Unavailable, Item, Codes, Actionable
<1>2. CASE rows # {}
  <2>1. PICK r \in rows :
          /\ Newest(rows) = {r} /\ r \in FactRow
          /\ r.expiresAt \in {Null, ExpiresAt(f, r.verifiedAt)}
    BY <1>2, NewestIsLast DEF Prefix
  <2>2. r.field = f
    BY DEF RowsOf
  <2> DEFINE record == MapRecord(r, TRUE)
             current == {x \in LoadedOf(f, rows) : x.isCurrent}
  <2>3. current = {record}
    <3>1. \A x \in rows : x \in Newest(rows) <=> x = r
      BY <2>1
    <3>2. \A x \in LoadedOf(f, rows) : \E y \in rows :
            x = MapRecord(y, y \in Newest(rows)) /\ x.isCurrent = (y \in Newest(rows))
      BY DEF LoadedOf, MapRecord
    <3>3. record \in LoadedOf(f, rows) /\ record.isCurrent
      BY <3>1 DEF LoadedOf, MapRecord
    <3>4. \A x \in current : x = record
      <4>1. TAKE x \in current
      <4>2. PICK y \in rows : x = MapRecord(y, y \in Newest(rows)) /\ x.isCurrent = (y \in Newest(rows))
        BY <3>2
      <4>3. y = r
        BY <4>2, <3>1
      <4>4. QED BY <4>2, <4>3, <3>1 DEF MapRecord
    <3>5. QED BY <3>3, <3>4
  <2>4. /\ LoadedOf(f, rows) # {} /\ current # {}
        /\ ~(Cardinality(current) > 1) /\ (CHOOSE x \in current : TRUE) = record
    <3>1. Cardinality({record}) = 1
      BY FS_Singleton
    <3>2. current # {} /\ LoadedOf(f, rows) # {}
      BY <2>3
    <3>3. (CHOOSE x \in {record} : TRUE) = record
      <4> HIDE DEF record
      <4> QED OBVIOUS
    <3> HIDE DEF current, record
    <3>4. QED BY <2>3, <3>1, <3>2, <3>3
  <2>5. item = ProjectCurrent(record, useCase, t)
    BY <2>4 DEF ProjectField
  <2>6. record.row = r /\ record.expiresAt = EffectiveExpiry(r)
    BY DEF MapRecord
  <2>7. /\ EffectiveExpiry(r) \in Nat \cup {Null}
        /\ EffectiveExpiry(r) # Null /\ EffectiveExpiry(r) <= t <=>
             \/ f \in TimeSensitive /\ ~(t < r.verifiedAt + Window)
             \/ r.expiresAt # Null /\ ~(t < r.expiresAt)
    BY <2>1, <2>2, ExpiryByPolicy
  <2> DEFINE worth == WorthOf(rows, f, useCase, t)
  <2>8. worth = IF /\ r.governance = "available" /\ useCase \in r.uses
                   /\ ~(EffectiveExpiry(r) # Null /\ EffectiveExpiry(r) <= t)
                THEN {r} ELSE {}
    BY <2>1, <2>7 DEF WorthOf
  <2>9. r.governance \in Governance
    BY <2>1 DEF FactRow
  <2>10. CASE r.governance = "disputed"
    <3>1. item = Unavailable(f, "DISPUTED")
      BY <2>2, <2>5, <2>6, <2>10 DEF ProjectCurrent
    <3>2. QED BY <1>2, <2>8, <2>10, <3>1 DEF Unavailable, Item, Codes, Actionable
  <2>11. CASE r.governance # "disputed" /\ (r.governance = "restricted" \/ useCase \notin r.uses)
    <3>1. item = Unavailable(f, "RESTRICTED")
      BY <2>2, <2>5, <2>6, <2>11 DEF ProjectCurrent
    <3>2. QED BY <1>2, <2>8, <2>11, <3>1 DEF Unavailable, Item, Codes, Actionable
  <2>12. CASE /\ r.governance = "available" /\ useCase \in r.uses
              /\ EffectiveExpiry(r) # Null /\ EffectiveExpiry(r) <= t
    <3>1. item = Unavailable(f, "EXPIRED")
      BY <2>2, <2>5, <2>6, <2>12 DEF ProjectCurrent
    <3>2. QED BY <1>2, <2>8, <2>12, <3>1 DEF Unavailable, Item, Codes, Actionable
  <2>13. CASE /\ r.governance = "available" /\ useCase \in r.uses
              /\ ~(EffectiveExpiry(r) # Null /\ EffectiveExpiry(r) <= t)
    <3>1. item = Usable(record, t)
      BY <2>2, <2>5, <2>6, <2>13 DEF ProjectCurrent
    <3> HIDE DEF record
    <3>2. /\ item.status = "usable" /\ item.fieldKey = f /\ item.citation = r
          /\ item \in [status : {"usable"}, fieldKey : Fields, citation : FactRow, asOf : Nat,
                       expiresAt : Nat \cup {Null}]
      BY <2>1, <2>2, <2>6, <2>7, <3>1 DEF Usable
    <3>3. worth = {r}
      BY <2>8, <2>13
    <3>4. QED BY <3>2, <3>3 DEF Item
  <2>14. QED BY <2>9, <2>10, <2>11, <2>12, <2>13 DEF Governance
<1>3. QED BY <1>1, <1>2

LEMMA PrefixesAreOfLog ==
  ASSUME FactLog(facts)
  PROVE  /\ Len(facts) \in Nat /\ Rows \subseteq FactRow /\ Rows = Prefix(Len(facts))
<1>1. Len(facts) \in Nat /\ DOMAIN facts = 1 .. Len(facts)
  BY LenProperties DEF FactLog
<1>2. \A i \in DOMAIN facts : facts[i] \in FactRow
  BY <1>1, ElementOfSeq DEF FactLog
<1>3. Rows = Prefix(Len(facts)) /\ Rows \subseteq FactRow
  BY <1>1, <1>2 DEF Rows, Prefix, PrefixOf
<1>4. QED BY <1>1, <1>3

\* Item i of a body says what the first n versions are worth.
ItemTold(body, keys, n, i) ==
  LET item == body.items[i]
      worth == Assertable(keys[i], n, body.useCase, body.asOf)
  IN
  /\ item \in Item
  /\ item.status = "usable" => worth = {item.citation}
  /\ item.status = "unavailable" =>
       /\ worth = {} /\ item.code \in Actionable
       /\ item.code = "MISSING" <=> RowsOf(keys[i], Prefix(n)) = {}

\* The body made of the records of one instant is well formed, and item by item
\* says what that instant's versions are worth.
LEMMA BodyWorth ==
  ASSUME FactLog(facts), clock \in Nat, NEW q,
         request[q] \in Requests, asOf[q] \in 0 .. clock,
         NEW n \in 0 .. Len(facts), records[q] = LoadedAt(request[q].fieldKeys, n),
         NEW body, body = Body(q), NEW keys, keys = request[q].fieldKeys
  PROVE  /\ IsBody(body) /\ DOMAIN body.items = DOMAIN keys
         /\ body.useCase = request[q].useCase /\ body.asOf = asOf[q]
         /\ UsableCount(body) \in Nat
         /\ \A i \in DOMAIN keys : ItemTold(body, keys, n, i)
<1>1. keys \in Seq(Fields) /\ body.useCase \in UseCases
  BY RequestAssumption DEF Body
<1>2. /\ Len(keys) \in Nat /\ DOMAIN keys = 1 .. Len(keys)
      /\ \A i \in DOMAIN keys : keys[i] \in Fields
  BY <1>1, LenProperties, ElementOfSeq
<1>3. /\ body.useCase = request[q].useCase /\ body.asOf = asOf[q]
      /\ DOMAIN body = {"useCase", "asOf", "items"}
      /\ body.items = [i \in DOMAIN keys |->
           ProjectField(keys[i], records[q][i], request[q].useCase, asOf[q])]
  BY DEF Body
<1>4. asOf[q] \in Nat
  OBVIOUS
<1>5. ASSUME NEW i \in DOMAIN keys,
             NEW item, item = body.items[i],
             NEW worth, worth = Assertable(keys[i], n, body.useCase, body.asOf)
      PROVE  /\ item \in Item
             /\ item.status = "usable" => worth = {item.citation}
             /\ item.status = "unavailable" =>
                  /\ worth = {} /\ item.code \in Actionable
                  /\ item.code = "MISSING" <=> RowsOf(keys[i], Prefix(n)) = {}
  <2> DEFINE rows == RowsOf(keys[i], Prefix(n))
  <2>1. records[q][i] = LoadedOf(keys[i], rows)
    BY DEF LoadedAt
  <2>2. item = ProjectField(keys[i], LoadedOf(keys[i], rows), body.useCase, asOf[q])
    BY <2>1, <1>3, <1>5
  <2>3. worth = WorthOf(rows, keys[i], body.useCase, asOf[q])
    BY <1>3, <1>5 DEF Assertable, WorthOf
  <2>4. keys[i] \in Fields
    BY <1>2
  <2> HIDE DEF rows
  <2>5. QED BY <2>2, <2>3, <2>4, <1>1, <1>4, FieldProjected DEF rows
<1>6. body.items \in [1 .. Len(keys) -> Item] /\ DOMAIN body.items = DOMAIN keys
  BY <1>2, <1>3, <1>5
<1>7. body.items \in Seq(Item)
  BY <1>2, <1>6
<1>8. UsableCount(body) \in Nat
  <2> DEFINE usable == {i \in DOMAIN body.items : body.items[i].status = "usable"}
  <2>1. usable \in SUBSET (1 .. Len(keys))
    <3>1. DOMAIN body.items = 1 .. Len(keys)
      BY ONLY <1>2, <1>6
    <3>2. QED BY ONLY <3>1
  <2>2. IsFiniteSet(1 .. Len(keys))
    <3>1. 1 \in Int /\ Len(keys) \in Int
      BY <1>2
    <3>2. QED BY ONLY <3>1, FS_Interval
  <2>3. IsFiniteSet(usable)
    BY ONLY <2>1, <2>2, FS_Subset
  <2>4. QED BY <2>3, FS_CardinalityType DEF UsableCount
<1>9. IsBody(body)
  BY <1>1, <1>3, <1>7 DEF IsBody
<1>10. \A i \in DOMAIN keys : ItemTold(body, keys, n, i)
  BY ONLY <1>5 DEF ItemTold
<1>11. QED BY ONLY <1>3, <1>6, <1>8, <1>9, <1>10

\* The page of a body, unless one of its values cannot be displayed.
LEMMA PageOfBody ==
  ASSUME clock \in Nat, NEW body, IsBody(body)
  PROVE  /\ Page(body) \in PageData \cup {Null}
         /\ Page(body) # Null => \A i \in DOMAIN body.items : Page(body).facts[i] = FactView(body.items[i])
         /\ Page(body) = Null => \E i \in DOMAIN body.items : ~Displayable(body.items[i])
<1> DEFINE shown == \A i \in DOMAIN body.items : Displayable(body.items[i])
           page == [asOf |-> body.asOf, facts |-> [i \in DOMAIN body.items |-> FactView(body.items[i])]]
<1>1. /\ Len(body.items) \in Nat /\ DOMAIN body.items = 1 .. Len(body.items)
      /\ \A i \in DOMAIN body.items : body.items[i] \in Item
      /\ body.asOf \in Nat
  BY LenProperties, ElementOfSeq DEF IsBody
<1>2. \A item \in Item : FactView(item) \in ViewOfFact
  BY DEF Item, FactView, ViewOfFact, FactRow
<1>3. [i \in DOMAIN body.items |-> FactView(body.items[i])] \in Seq(ViewOfFact)
  BY <1>1, <1>2
<1>4. page \in PageData
  BY <1>1, <1>3 DEF PageData
<1>5. page # Null
  BY <1>4, PageAssumption
<1>6. CASE shown
  <2>1. Page(body) = page
    BY <1>6 DEF Page
  <2>2. \A i \in DOMAIN body.items : page.facts[i] = FactView(body.items[i])
    OBVIOUS
  <2> HIDE DEF page, shown
  <2>3. QED BY <2>1, <2>2, <1>4, <1>5
<1>7. CASE ~shown
  BY <1>7 DEF Page
<1>8. QED BY <1>6, <1>7

-----------------------------------------------------------------------------
(* The initial states, and what other steps leave of a query.              *)

LEMMA InitInv == Init => ContextInv
<1> SUFFICES ASSUME Init PROVE ContextInv
  OBVIOUS
<1> USE DEF Init
<1>1. FactLog(facts)
  BY SeedAssumption
<1>2. Rows \subseteq FactRow /\ Len(facts) \in Nat
  BY <1>1, PrefixesAreOfLog
<1>3. TypeOK
  BY <1>2, ContextAssumption DEF TypeOK, NoReply
<1>4. \A q \in Queries : QueryInv(q)
  BY DEF QueryInv, NoReply
<1>5. QED BY <1>1, <1>3, <1>4
  DEF ContextInv, BodiesUnique, Audited, ReasonsAreActionable

\* The log is as before, or longer.
LogKept ==
  /\ Len(facts) \in Nat /\ Len(facts)' \in Nat /\ Len(facts) <= Len(facts)'
  /\ \A n \in 0 .. Len(facts) : PrefixOf(facts', n) = PrefixOf(facts, n)

\* A query at which nothing happened knows what it knew.
QueryAtRest(q) ==
  /\ pc'[q] = pc[q] /\ request'[q] = request[q] /\ asOf'[q] = asOf[q]
  /\ began'[q] = began[q] /\ records'[q] = records[q] /\ reply'[q] = reply[q]

LEMMA LoadedKept ==
  ASSUME LogKept, NEW keys, NEW n \in 0 .. Len(facts)
  PROVE  LoadedAt(keys, n)' = LoadedAt(keys, n)
<1>1. Prefix(n)' = Prefix(n)
  BY DEF LogKept, Prefix
<1>2. QED BY <1>1 DEF LoadedAt

LEMMA BodyKept ==
  ASSUME NEW q, request'[q] = request[q], asOf'[q] = asOf[q], records'[q] = records[q]
  PROVE  Body(q)' = Body(q)
BY DEF Body

LEMMA QueryKept ==
  ASSUME NEW q \in Queries, QueryInv(q), QueryAtRest(q), LogKept, began[q] \in Nat,
         clock \in Nat, clock' \in Nat, clock <= clock', snapshots \subseteq snapshots'
  PROVE  QueryInv(q)'
<1>1. /\ pc'[q] = pc[q] /\ request'[q] = request[q] /\ asOf'[q] = asOf[q]
      /\ began'[q] = began[q] /\ records'[q] = records[q] /\ reply'[q] = reply[q]
  BY DEF QueryAtRest
<1>2. Body(q)' = Body(q) /\ Page(Body(q))' = Page(Body(q))
  BY <1>1, BodyKept DEF Page
<1>3. NoReply' = NoReply
  BY DEF NoReply
<1>4. ASSUME NEW n \in began[q] .. Len(facts), records[q] = LoadedAt(request[q].fieldKeys, n)
      PROVE  n \in (began[q] .. Len(facts))' /\ (records[q] = LoadedAt(request[q].fieldKeys, n))'
  <2>1. n \in 0 .. Len(facts) /\ n \in (began[q] .. Len(facts))'
    BY <1>1 DEF LogKept
  <2>2. LoadedAt(request[q].fieldKeys, n)' = LoadedAt(request[q].fieldKeys, n)
    BY <2>1, <1>1, LoadedKept DEF LoadedAt, LogKept, Prefix
  <2>3. QED BY <2>1, <2>2, <1>1, <1>4
<1>5. pc[q] # "idle" => request'[q] \in Requests /\ asOf'[q] \in 0 .. clock'
  BY <1>1 DEF QueryInv
<1>6. QED BY <1>1, <1>2, <1>3, <1>4, <1>5 DEF QueryInv

\* What was a body is one later.
LEMMA BodyStays ==
  ASSUME clock \in Nat, clock' \in Nat, clock <= clock', NEW b, IsBody(b)
  PROVE  IsBody(b)'
BY DEF IsBody

LEMMA LogUnchanged ==
  ASSUME FactLog(facts), UNCHANGED facts
  PROVE  LogKept /\ FactLog(facts)' /\ (Rows \subseteq FactRow)'
<1>1. Len(facts) \in Nat /\ Rows \subseteq FactRow
  BY PrefixesAreOfLog
<1>2. QED BY <1>1 DEF LogKept, FactLog, Rows

-----------------------------------------------------------------------------
(* The owners and the clock.                                               *)

LEMMA CommitStep ==
  ASSUME ContextInv, NEW row \in FactRow, Commit(row),
         row.version = 1 + Cardinality(RowsOf(row.field, Rows)),
         row.expiresAt \in {Null, ExpiresAt(row.field, row.verifiedAt)}
  PROVE  ContextInv'
<1>1. /\ TypeOK /\ DOMAIN reply = Queries /\ DOMAIN records = Queries /\ FactLog(facts)
      /\ BodiesUnique /\ Audited /\ ReasonsAreActionable
      /\ clock \in Nat /\ clock' = clock
  BY ContextAssumption DEF ContextInv, TypeOK, Commit
<1>2. Len(facts) \in Nat /\ Rows = PrefixOf(facts, Len(facts))
  BY <1>1, PrefixesAreOfLog DEF Prefix
<1>3. facts' = Append(facts, row)
  BY DEF Commit
<1>4. /\ FactLog(facts)' /\ Len(facts)' = Len(facts) + 1
      /\ \A n \in 0 .. Len(facts) : PrefixOf(facts', n) = PrefixOf(facts, n)
  BY <1>1, <1>2, <1>3, LogGrows DEF FactLog
<1>5. LogKept
  BY <1>2, <1>4 DEF LogKept
<1>6. (Rows \subseteq FactRow)'
  BY <1>4, PrefixesAreOfLog, PTL
<1>7. TypeOK'
  BY <1>1, <1>2, <1>4, <1>6 DEF TypeOK, Commit, IsBody
<1>8. ASSUME NEW q \in Queries PROVE QueryInv(q)'
  <2>1. QueryInv(q) /\ began[q] \in Nat
    BY <1>1, <1>2 DEF ContextInv, TypeOK
  <2>2. QueryAtRest(q) /\ snapshots \subseteq snapshots'
    BY DEF QueryAtRest, Commit
  <2>3. QED BY <1>1, <1>5, <2>1, <2>2, QueryKept
<1>9. QED BY <1>1, <1>4, <1>7, <1>8
  DEF ContextInv, Commit, BodiesUnique, Audited, ReasonsAreActionable

LEMMA ApproveStep == ContextInv /\ Approve => ContextInv'
<1> SUFFICES ASSUME ContextInv, Approve PROVE ContextInv'
  OBVIOUS
<1>0. PICK f \in Fields, t \in 0 .. clock :
        \E value \in ValuesOf[f] :
          Commit([field |-> f, version |-> 1 + Cardinality(RowsOf(f, Rows)),
                  value |-> value, governance |-> "available", uses |-> UseCases,
                  verifiedAt |-> t, expiresAt |-> ExpiresAt(f, t)])
  BY DEF Approve
<1>1. PICK value \in ValuesOf[f] :
        Commit([field |-> f, version |-> 1 + Cardinality(RowsOf(f, Rows)),
                value |-> value, governance |-> "available", uses |-> UseCases,
                verifiedAt |-> t, expiresAt |-> ExpiresAt(f, t)])
  BY <1>0
<1> DEFINE row == [field |-> f, version |-> 1 + Cardinality(RowsOf(f, Rows)),
                   value |-> value, governance |-> "available", uses |-> UseCases,
                   verifiedAt |-> t, expiresAt |-> ExpiresAt(f, t)]
<1>2. FactLog(facts) /\ clock \in Nat
  BY ContextAssumption DEF ContextInv, TypeOK
<1>3. Cardinality(RowsOf(f, Rows)) \in Nat
  BY <1>2, PrefixesAreOfLog, RowsFinite DEF Prefix
<1>4. t \in Nat /\ ExpiresAt(f, t) \in Nat \cup {Null} /\ value \in Values
  BY <1>2, ContextAssumption DEF ExpiresAt, Values
<1>5. row \in FactRow
  BY <1>3, <1>4 DEF FactRow, Governance
<1>6. /\ row.version = 1 + Cardinality(RowsOf(row.field, Rows))
      /\ row.expiresAt \in {Null, ExpiresAt(row.field, row.verifiedAt)}
  OBVIOUS
<1> HIDE DEF row
<1>7. Commit(row)
  BY <1>1 DEF row
<1>8. QED BY <1>5, <1>6, <1>7, CommitStep

\* A row with the next version and new times is a row.
Renewed(r, t, e) == [r EXCEPT !.version = r.version + 1, !.verifiedAt = t, !.expiresAt = e]

LEMMA RenewedRow ==
  ASSUME NEW r \in FactRow, NEW t \in Nat, NEW e \in Nat \cup {Null}
  PROVE  /\ Renewed(r, t, e) \in FactRow /\ Renewed(r, t, e).field = r.field
         /\ Renewed(r, t, e).version = r.version + 1
         /\ Renewed(r, t, e).verifiedAt = t /\ Renewed(r, t, e).expiresAt = e
<1> DEFINE v == r.version + 1
           row == [r EXCEPT !.version = v, !.verifiedAt = t, !.expiresAt = e]
<1>1. v \in Nat \ {0}
  BY DEF FactRow
<1>2. /\ row \in FactRow /\ row.field = r.field /\ row.version = v
      /\ row.verifiedAt = t /\ row.expiresAt = e
  <2> HIDE DEF v
  <2>1. QED BY ONLY <1>1, r \in FactRow, t \in Nat, e \in Nat \cup {Null} DEF FactRow
<1>3. Renewed(r, t, e) = row
  BY DEF Renewed
<1> HIDE DEF row
<1>4. QED BY <1>2, <1>3

LEMMA ReverifyStep == ContextInv /\ Reverify => ContextInv'
<1> SUFFICES ASSUME ContextInv, Reverify PROVE ContextInv'
  OBVIOUS
<1>0. PICK f \in TimeSensitive, t \in 0 .. clock :
        \E r \in Newest(RowsOf(f, Rows)) :
          Commit([r EXCEPT !.version = r.version + 1, !.verifiedAt = t,
                           !.expiresAt = ExpiresAt(f, t)])
  BY DEF Reverify
<1>1. PICK r \in Newest(RowsOf(f, Rows)) :
        Commit([r EXCEPT !.version = r.version + 1, !.verifiedAt = t,
                         !.expiresAt = ExpiresAt(f, t)])
  BY <1>0
<1> DEFINE row == [r EXCEPT !.version = r.version + 1, !.verifiedAt = t,
                            !.expiresAt = ExpiresAt(f, t)]
           rows == RowsOf(f, PrefixOf(facts, Len(facts)))
<1>2. /\ FactLog(facts) /\ clock \in Nat /\ f \in Fields
      /\ Len(facts) \in 0 .. Len(facts) /\ Rows = PrefixOf(facts, Len(facts))
  BY ContextAssumption, PrefixesAreOfLog DEF ContextInv, TypeOK, Prefix
<1>3. r \in Newest(rows) /\ rows # {} /\ r.field = f
  BY <1>2 DEF Newest, RowsOf
<1>4. PICK last \in rows :
        /\ Newest(rows) = {last} /\ last \in FactRow /\ last.version = Cardinality(rows)
  BY <1>2, <1>3, NewestIsLast
<1>5. r \in FactRow /\ r.version = Cardinality(rows)
  BY <1>3, <1>4
<1>6. t \in Nat /\ ExpiresAt(f, t) \in Nat \cup {Null}
  BY <1>2, ContextAssumption DEF ExpiresAt
<1>7. row \in FactRow /\ row.field = f /\ row.version = 1 + Cardinality(rows)
      /\ row.verifiedAt = t /\ row.expiresAt = ExpiresAt(f, t)
  <2> DEFINE e == ExpiresAt(f, t)
  <2>1. row = Renewed(r, t, e)
    BY DEF Renewed
  <2>2. r \in FactRow /\ t \in Nat /\ e \in Nat \cup {Null}
    BY <1>5, <1>6
  <2> HIDE DEF row, e
  <2>3. /\ row \in FactRow /\ row.field = r.field /\ row.version = r.version + 1
        /\ row.verifiedAt = t /\ row.expiresAt = e
    <3>1. /\ Renewed(r, t, e) \in FactRow /\ Renewed(r, t, e).field = r.field
          /\ Renewed(r, t, e).version = r.version + 1
          /\ Renewed(r, t, e).verifiedAt = t /\ Renewed(r, t, e).expiresAt = e
      BY <2>2, RenewedRow, Zenon
    <3>2. QED BY ONLY <2>1, <3>1
  <2>4. r.version \in Nat
    BY <1>5 DEF FactRow
  <2> HIDE DEF rows
  <2>5. row.version = 1 + Cardinality(rows)
    BY <1>5, <2>3, <2>4
  <2>6. QED BY <1>3, <2>3, <2>5 DEF e
<1> HIDE DEF row
<1>8. Commit(row)
  BY <1>1 DEF row
<1>9. QED BY <1>2, <1>7, <1>8, CommitStep

LEMMA TickStep == ContextInv /\ Tick => ContextInv'
<1> SUFFICES ASSUME ContextInv, Tick PROVE ContextInv'
  OBVIOUS
<1>1. /\ TypeOK /\ DOMAIN reply = Queries /\ DOMAIN records = Queries /\ FactLog(facts)
      /\ BodiesUnique /\ Audited /\ ReasonsAreActionable
      /\ clock \in Nat /\ clock' \in 0 .. MaxTime /\ clock <= clock'
      /\ UNCHANGED <<facts, snapshots, audit, pc, request, asOf, began, records, reply>>
  BY ContextAssumption DEF ContextInv, TypeOK, Tick, tables
<1>2. LogKept /\ FactLog(facts)' /\ (Rows \subseteq FactRow)'
  BY <1>1, LogUnchanged
<1>3. \A b : IsBody(b) => IsBody(b)'
  BY <1>1, BodyStays
<1>4. 0 .. clock \subseteq 0 .. clock'
  BY <1>1
<1>5. TypeOK'
  BY <1>1, <1>2, <1>3, <1>4 DEF TypeOK
<1>6. ASSUME NEW q \in Queries PROVE QueryInv(q)'
  <2>1. QueryInv(q) /\ began[q] \in Nat
    BY <1>1, PrefixesAreOfLog DEF ContextInv, TypeOK
  <2>2. QueryAtRest(q) /\ snapshots \subseteq snapshots'
    BY <1>1 DEF QueryAtRest
  <2>3. QED BY <1>1, <1>2, <2>1, <2>2, QueryKept
<1>7. QED BY <1>1, <1>2, <1>5, <1>6
  DEF ContextInv, BodiesUnique, Audited, ReasonsAreActionable

-----------------------------------------------------------------------------
(* The queries.                                                            *)

\* A step of one query that leaves the tables alone.
LEMMA QuietStep ==
  ASSUME ContextInv, NEW q \in Queries, UNCHANGED <<clock, tables>>,
         TypeOK', DOMAIN reply' = Queries /\ DOMAIN records' = Queries,
         QueryInv(q)',
         \A x \in Queries \ {q} : QueryAtRest(x)
  PROVE  ContextInv'
<1>1. /\ TypeOK /\ FactLog(facts)
      /\ BodiesUnique /\ Audited /\ ReasonsAreActionable
      /\ clock \in Nat /\ clock' = clock /\ UNCHANGED <<facts, snapshots, audit>>
  BY ContextAssumption DEF ContextInv, TypeOK, tables
<1>2. LogKept /\ FactLog(facts)'
  BY <1>1, LogUnchanged
<1>3. ASSUME NEW x \in Queries PROVE QueryInv(x)'
  <2>1. CASE x = q
    BY <2>1
  <2>2. CASE x # q
    <3>1. QueryInv(x) /\ began[x] \in Nat /\ QueryAtRest(x)
      BY <1>1, <2>2, PrefixesAreOfLog DEF ContextInv, TypeOK
    <3>2. QED BY <1>1, <1>2, <3>1, QueryKept
  <2>3. QED BY <2>1, <2>2
<1>4. QED BY <1>1, <1>2, <1>3
  DEF ContextInv, BodiesUnique, Audited, ReasonsAreActionable

LEMMA FactsOfInv ==
  ASSUME ContextInv
  PROVE  /\ FactLog(facts) /\ clock \in Nat /\ Len(facts) \in Nat /\ Rows \subseteq FactRow
         /\ TypeOK /\ DOMAIN reply = Queries /\ DOMAIN records = Queries
BY ContextAssumption, PrefixesAreOfLog DEF ContextInv, TypeOK

QueryTyped(q) ==
  /\ records[q] \in Seq(SUBSET Record)
  /\ records[q] = <<>> \/ Len(records[q]) = Len(request[q].fieldKeys)
  /\ reply[q].snapshot = Null \/ IsBody(reply[q].snapshot)
  /\ reply[q].page \in PageData \cup {Null}

LEMMA TypeKept ==
  ASSUME ContextInv, NEW q \in Queries, UNCHANGED <<clock, tables>>,
         pc' \in [Queries -> {"idle", "load", "persist", "return", "done"}],
         request' \in [Queries -> Requests \cup {Null}],
         asOf' \in [Queries -> 0 .. clock \cup {Null}],
         began' \in [Queries -> 0 .. Len(facts)],
         QueryTyped(q)', \A x \in Queries \ {q} : QueryAtRest(x)
  PROVE  TypeOK'
<1>1. TypeOK
  BY DEF ContextInv
<1>2. UNCHANGED <<clock, facts, snapshots, audit>>
  BY DEF tables
<1>3. \A b : IsBody(b) => IsBody(b)'
  BY <1>2 DEF IsBody
<1>4. ASSUME NEW x \in Queries PROVE QueryTyped(x)'
  <2>1. CASE x # q
    <3>1. QueryAtRest(x)
      BY <2>1
    <3>2. QueryTyped(x)
      BY <1>1 DEF TypeOK, QueryTyped
    <3>3. QED BY <1>3, <3>1, <3>2 DEF QueryAtRest, QueryTyped, IsBody
  <2>2. QED BY <2>1
<1>5. /\ clock' \in 0 .. MaxTime /\ (Rows \subseteq FactRow)'
      /\ (\A s \in snapshots : IsBody(s.body) /\ s.request \in Queries)'
      /\ (\A a \in audit : IsBody(a.target) /\ a.request \in Queries /\ a.usable \in Nat)'
  BY <1>1, <1>2 DEF TypeOK, IsBody, Rows
<1>6. (\A x \in Queries : QueryTyped(x))'
  BY <1>4
<1>7. asOf' \in [Queries -> 0 .. clock' \cup {Null}] /\ began' \in [Queries -> 0 .. Len(facts')]
  BY <1>2
<1>8. QED BY <1>5, <1>6, <1>7 DEF TypeOK, QueryTyped

\* A query ends without a snapshot.
LEMMA GivesUp ==
  ASSUME ContextInv, NEW q \in Queries, NEW outcome, outcome # "snapshot",
         Finish(q, outcome, Null, Null), pc[q] \in {"load", "persist", "return"},
         UNCHANGED <<clock, tables, request, asOf, began, records>>
  PROVE  ContextInv'
<1>1. TypeOK /\ DOMAIN reply = Queries /\ DOMAIN records = Queries /\ UNCHANGED facts
  BY FactsOfInv DEF tables
<1>2. /\ reply' = [reply EXCEPT ![q] = [outcome |-> outcome, snapshot |-> Null, page |-> Null]]
      /\ pc' = [pc EXCEPT ![q] = "done"]
  BY DEF Finish
<1>3. DOMAIN reply' = Queries /\ DOMAIN records' = Queries
  BY <1>1, <1>2
<1>4. \A x \in Queries \ {q} : QueryAtRest(x)
  BY <1>1, <1>2 DEF QueryAtRest, TypeOK
<1>5. TypeOK'
  <2>1. QueryTyped(q)'
    BY <1>1, <1>2 DEF TypeOK, QueryTyped
  <2>2. /\ pc' \in [Queries -> {"idle", "load", "persist", "return", "done"}]
        /\ request' \in [Queries -> Requests \cup {Null}]
        /\ asOf' \in [Queries -> 0 .. clock \cup {Null}]
        /\ began' \in [Queries -> 0 .. Len(facts)]
    BY <1>1, <1>2 DEF TypeOK
  <2>3. QED BY <1>4, <2>1, <2>2, TypeKept
<1>6. QueryInv(q)'
  BY <1>1, <1>2 DEF QueryInv, ContextInv, TypeOK
<1>7. QED BY <1>3, <1>4, <1>5, <1>6, QuietStep

LEMMA CrashStep == ContextInv => \A q \in Queries : Crash(q) => ContextInv'
BY GivesUp DEF Crash

LEMMA BeginStep ==
  ASSUME ContextInv, NEW q \in Queries, Begin(q)
  PROVE  ContextInv'
<1>1. /\ FactLog(facts) /\ clock \in Nat /\ Len(facts) \in Nat
      /\ TypeOK /\ DOMAIN reply = Queries /\ DOMAIN records = Queries
  BY FactsOfInv
<1>2. PICK r \in Requests :
        /\ request' = [request EXCEPT ![q] = r]
        /\ \/ pc' = [pc EXCEPT ![q] = "load"] /\ UNCHANGED reply
           \/ Finish(q, "denied", Null, Null)
           \/ Finish(q, "invalid_query", Null, Null)
  BY DEF Begin
<1>3. /\ pc[q] = "idle" /\ UNCHANGED <<clock, tables, records>> /\ UNCHANGED facts
      /\ asOf' = [asOf EXCEPT ![q] = clock] /\ began' = [began EXCEPT ![q] = Len(facts)]
  BY DEF Begin, tables
<1>4. reply[q] = NoReply /\ clock \in 0 .. clock
  BY <1>1, <1>3 DEF ContextInv, QueryInv
<1>5. \/ pc' = [pc EXCEPT ![q] = "load"] /\ reply' = reply
      \/ /\ pc' = [pc EXCEPT ![q] = "done"]
         /\ \E outcome \in {"denied", "invalid_query"} : reply' =
              [reply EXCEPT ![q] = [outcome |-> outcome, snapshot |-> Null, page |-> Null]]
  BY <1>2 DEF Finish
<1>6. DOMAIN reply' = Queries /\ DOMAIN records' = Queries
  BY <1>1, <1>3, <1>5
<1>7. records[q] = <<>> /\ records' = records
  BY <1>1, <1>3 DEF ContextInv, QueryInv
<1>8. \A x \in Queries \ {q} : QueryAtRest(x)
  BY <1>1, <1>2, <1>3, <1>5, <1>7 DEF QueryAtRest, TypeOK
<1>9. TypeOK'
  <2>1. /\ pc' \in [Queries -> {"idle", "load", "persist", "return", "done"}]
        /\ request' \in [Queries -> Requests \cup {Null}]
        /\ asOf' \in [Queries -> 0 .. clock \cup {Null}]
        /\ began' \in [Queries -> 0 .. Len(facts)]
    <3> USE <1>1 DEF TypeOK
    <3>1. pc' \in [Queries -> {"idle", "load", "persist", "return", "done"}]
      BY <1>5
    <3>2. request' \in [Queries -> Requests \cup {Null}]
      BY <1>2
    <3>3. asOf' \in [Queries -> 0 .. clock \cup {Null}]
      BY <1>3, <1>4
    <3>4. began' \in [Queries -> 0 .. Len(facts)]
      BY <1>3
    <3>5. QED BY ONLY <3>1, <3>2, <3>3, <3>4
  <2>2. records'[q] = <<>> /\ records'[q] \in Seq(SUBSET Record)
    BY <1>1, <1>7 DEF TypeOK
  <2>3. reply'[q].snapshot = Null /\ reply'[q].page = Null
    BY <1>1, <1>4, <1>5 DEF NoReply
  <2>4. QueryTyped(q)'
    BY <2>2, <2>3 DEF QueryTyped
  <2>5. QED BY <1>3, <1>8, <2>1, <2>4, TypeKept
<1>10. QueryInv(q)'
  BY <1>1, <1>2, <1>3, <1>4, <1>5 DEF QueryInv, TypeOK, NoReply
<1>11. QED BY <1>3, <1>6, <1>8, <1>9, <1>10, QuietStep

LEMMA LoadStep ==
  ASSUME ContextInv, NEW q \in Queries, Load(q)
  PROVE  ContextInv'
<1>0. PICK keys, n : keys = request[q].fieldKeys /\ n = Len(facts)
  OBVIOUS
<1>1. /\ FactLog(facts) /\ clock \in Nat /\ n \in Nat /\ Rows \subseteq FactRow
      /\ TypeOK /\ DOMAIN reply = Queries /\ DOMAIN records = Queries /\ QueryInv(q)
  BY <1>0, FactsOfInv DEF ContextInv
<1>2. /\ pc[q] = "load" /\ UNCHANGED <<clock, tables, facts, request, asOf, began, reply>>
      /\ records' = [records EXCEPT ![q] = Loaded(keys)]
      /\ pc' = [pc EXCEPT ![q] = "persist"]
  BY <1>0 DEF Load, tables
<1>3. request[q] \in Requests /\ reply[q] = NoReply /\ keys \in Seq(Fields)
  BY <1>0, <1>1, <1>2, RequestAssumption DEF QueryInv
<1>4. Loaded(keys) = LoadedAt(keys, n)
  BY <1>0, <1>1, PrefixesAreOfLog DEF Loaded, LoadedAt, LoadedOf
<1>5. Loaded(keys) \in Seq(SUBSET Record) /\ Len(Loaded(keys)) = Len(keys)
  <2>1. Len(keys) \in Nat /\ DOMAIN keys = 1 .. Len(keys) /\ \A i \in DOMAIN keys : keys[i] \in Fields
    BY <1>3, LenProperties, ElementOfSeq
  <2>2. ASSUME NEW i \in DOMAIN keys PROVE LoadedOf(keys[i], RowsOf(keys[i], Prefix(n))) \in SUBSET Record
    <3> DEFINE rows == RowsOf(keys[i], Prefix(n))
    <3>1. ASSUME NEW row \in rows PROVE MapRecord(row, row \in Newest(rows)) \in Record
      <4>1. row \in FactRow /\ row.field = keys[i] /\ keys[i] \in Fields
        BY <1>0, <1>1, <2>1, PrefixesAreOfLog DEF RowsOf
      <4>2. PICK j \in DOMAIN facts : row = facts[j]
        BY <1>0, <1>1, PrefixesAreOfLog DEF RowsOf, Rows
      <4>3. row.expiresAt \in {Null, ExpiresAt(keys[i], row.verifiedAt)}
        BY <4>1, <4>2, <1>1 DEF FactLog
      <4>4. EffectiveExpiry(row) \in Nat \cup {Null}
        BY <4>1, <4>3, <1>1, ExpiryByPolicy
      <4>5. QED BY <4>1, <4>4 DEF MapRecord, Record
    <3>2. QED BY <3>1 DEF LoadedOf
  <2>3. LoadedAt(keys, n) \in [1 .. Len(keys) -> SUBSET Record]
    BY <2>1, <2>2 DEF LoadedAt
  <2>4. QED BY <1>4, <2>1, <2>3
<1>6. \A x \in Queries \ {q} : QueryAtRest(x)
  BY <1>1, <1>2 DEF QueryAtRest, TypeOK
<1>7. pc'[q] = "persist" /\ records'[q] = Loaded(keys)
  BY <1>1, <1>2 DEF TypeOK
<1>8. TypeOK'
  <2>1. /\ pc' \in [Queries -> {"idle", "load", "persist", "return", "done"}]
        /\ request' \in [Queries -> Requests \cup {Null}]
        /\ asOf' \in [Queries -> 0 .. clock \cup {Null}]
        /\ began' \in [Queries -> 0 .. Len(facts)]
    BY <1>1, <1>2, <1>0 DEF TypeOK
  <2>2. /\ records'[q] \in Seq(SUBSET Record)
        /\ Len(records'[q]) = Len(request'[q].fieldKeys)
    BY <1>2, <1>5, <1>7, <1>0
  <2>3. QueryTyped(q)'
    BY <1>2, <1>3, <2>2 DEF QueryTyped, NoReply
  <2>4. QED BY <1>2, <1>6, <2>1, <2>3, TypeKept
<1>9. QueryInv(q)'
  <2>1. /\ request'[q] \in Requests /\ asOf'[q] \in 0 .. clock' /\ reply'[q] = NoReply
    BY <1>1, <1>2, <1>3 DEF QueryInv
  <2>2. n \in (began[q] .. Len(facts))'
    BY <1>1, <1>2, <1>0 DEF TypeOK
  <2>3. LoadedAt(keys, n)' = LoadedAt(keys, n)
    BY <1>2 DEF LoadedAt, Prefix
  <2>4. records'[q] = LoadedAt(request[q].fieldKeys, n)'
    BY <1>2, <1>4, <1>7, <2>3, <1>0 DEF LoadedAt
  <2>5. reply'[q].outcome # "snapshot" /\ NoReply' = NoReply
    BY <2>1 DEF NoReply
  <2>6. QED BY <1>7, <2>1, <2>2, <2>4, <2>5 DEF QueryInv
<1>10. DOMAIN reply' = Queries /\ DOMAIN records' = Queries
  BY <1>1, <1>2
<1>11. QED BY <1>2, <1>10, <1>6, <1>8, <1>9, QuietStep

\* What a query past its load knows of its body.
LEMMA BodyKnown ==
  ASSUME ContextInv, NEW q \in Queries,
         pc[q] \in {"persist", "return"} \/ reply[q].outcome = "snapshot"
  PROVE  \E n \in began[q] .. Len(facts) :
           /\ n \in 0 .. Len(facts)
           /\ request[q] \in Requests /\ asOf[q] \in 0 .. clock
           /\ records[q] = LoadedAt(request[q].fieldKeys, n)
<1>1. QueryInv(q) /\ began[q] \in 0 .. Len(facts) /\ Len(facts) \in Nat
  BY FactsOfInv DEF ContextInv, TypeOK
<1>2. PICK n \in began[q] .. Len(facts) : records[q] = LoadedAt(request[q].fieldKeys, n)
  BY <1>1 DEF QueryInv
<1>3. pc[q] # "idle"
  BY <1>1 DEF QueryInv, NoReply
<1>4. QED BY <1>1, <1>2, <1>3 DEF QueryInv

LEMMA ReturnStep ==
  ASSUME ContextInv, NEW q \in Queries, Return(q)
  PROVE  ContextInv'
<1>1. /\ FactLog(facts) /\ clock \in Nat /\ TypeOK
      /\ DOMAIN reply = Queries /\ DOMAIN records = Queries /\ QueryInv(q)
  BY FactsOfInv DEF ContextInv
<1>2. PICK body : body = Body(q)
  OBVIOUS
<1>3. /\ pc[q] = "return" /\ UNCHANGED <<clock, tables, snapshots, facts, request, asOf, began, records>>
      /\ pc' = [pc EXCEPT ![q] = "done"]
      /\ reply' = [reply EXCEPT ![q] =
                     [outcome |-> "snapshot", snapshot |-> body, page |-> Page(body)]]
  BY <1>2 DEF Return, Finish, tables
<1>4. PICK n \in began[q] .. Len(facts) :
        /\ n \in 0 .. Len(facts)
        /\ request[q] \in Requests /\ asOf[q] \in 0 .. clock
        /\ records[q] = LoadedAt(request[q].fieldKeys, n)
  BY <1>3, BodyKnown
<1>5. IsBody(body) /\ Page(body) \in PageData \cup {Null}
  <2>1. IsBody(body)
    BY <1>1, <1>2, <1>4, BodyWorth
  <2>2. QED BY <1>1, <2>1, PageOfBody
<1>6. \A x \in Queries \ {q} : QueryAtRest(x)
  BY <1>1, <1>3 DEF QueryAtRest, TypeOK
<1>7. /\ pc'[q] = "done" /\ reply'[q].outcome = "snapshot"
      /\ reply'[q].snapshot = body /\ reply'[q].page = Page(body)
  BY <1>1, <1>3 DEF TypeOK
<1>8. TypeOK'
  <2>1. /\ pc' \in [Queries -> {"idle", "load", "persist", "return", "done"}]
        /\ request' \in [Queries -> Requests \cup {Null}]
        /\ asOf' \in [Queries -> 0 .. clock \cup {Null}]
        /\ began' \in [Queries -> 0 .. Len(facts)]
    BY <1>1, <1>3 DEF TypeOK
  <2>2. QueryTyped(q)
    BY <1>1 DEF TypeOK, QueryTyped
  <2>3. QueryTyped(q)'
    BY <1>3, <1>5, <1>7, <2>2 DEF QueryTyped, IsBody
  <2>4. QED BY <1>3, <1>6, <2>1, <2>3, TypeKept
<1>9. QueryInv(q)'
  <2>1. /\ request'[q] \in Requests /\ asOf'[q] \in 0 .. clock'
        /\ n \in (began[q] .. Len(facts))'
    BY <1>3, <1>4
  <2>2. (records[q] = LoadedAt(request[q].fieldKeys, n))'
    BY <1>3, <1>4 DEF LoadedAt, Prefix
  <2>3. Body(q)' = body /\ Page(Body(q))' = Page(body)
    BY <1>2, <1>3, BodyKept DEF Page
  <2>4. \E s \in snapshots' : s.body = Body(q)'
    BY <1>1, <1>2, <1>3, <2>3 DEF QueryInv
  <2>5. QED BY <1>7, <2>1, <2>2, <2>3, <2>4 DEF QueryInv
<1>10. DOMAIN reply' = Queries /\ DOMAIN records' = Queries
  BY <1>1, <1>3
<1>11. QED BY <1>3, <1>6, <1>8, <1>9, <1>10, QuietStep

\* The query at its insert, whose body is stored afterwards.
LEMMA PersistedQuery ==
  ASSUME ContextInv, NEW q \in Queries, Persist(q), \E s \in snapshots' : s.body = Body(q)
  PROVE  QueryInv(q)'
<1>1. TypeOK /\ QueryInv(q)
  BY DEF ContextInv
<1>2. /\ pc[q] = "persist" /\ UNCHANGED <<clock, facts, request, asOf, began, records, reply>>
      /\ pc' = [pc EXCEPT ![q] = "return"]
  BY DEF Persist
<1>3. PICK n \in began[q] .. Len(facts) :
        /\ n \in 0 .. Len(facts)
        /\ request[q] \in Requests /\ asOf[q] \in 0 .. clock
        /\ records[q] = LoadedAt(request[q].fieldKeys, n)
  BY <1>2, BodyKnown
<1>4. pc'[q] = "return" /\ reply'[q] = NoReply /\ NoReply' = NoReply
  BY <1>1, <1>2 DEF TypeOK, QueryInv, NoReply
<1>5. /\ request'[q] \in Requests /\ asOf'[q] \in 0 .. clock'
      /\ n \in (began[q] .. Len(facts))'
  BY <1>2, <1>3
<1>6. (records[q] = LoadedAt(request[q].fieldKeys, n))'
  BY <1>2, <1>3 DEF LoadedAt, Prefix
<1>7. \E s \in snapshots' : s.body = Body(q)'
  BY <1>2, BodyKept
<1>8. reply'[q].outcome # "snapshot"
  BY <1>4 DEF NoReply
<1>9. QED BY <1>4, <1>5, <1>6, <1>7, <1>8 DEF QueryInv

LEMMA PersistStep ==
  ASSUME ContextInv, NEW q \in Queries, Persist(q)
  PROVE  ContextInv'
<1>1. /\ FactLog(facts) /\ clock \in Nat /\ TypeOK /\ Len(facts) \in Nat
      /\ DOMAIN reply = Queries /\ DOMAIN records = Queries
      /\ BodiesUnique /\ Audited /\ ReasonsAreActionable
  BY FactsOfInv DEF ContextInv
<1>2. PICK body : body = Body(q)
  OBVIOUS
<1>3. /\ pc[q] = "persist" /\ UNCHANGED <<clock, facts, request, asOf, began, records, reply>>
      /\ pc' = [pc EXCEPT ![q] = "return"]
      /\ DOMAIN reply' = Queries /\ DOMAIN records' = Queries
  BY <1>1 DEF Persist
<1>4. \A x \in Queries \ {q} : QueryAtRest(x)
  BY <1>1, <1>3 DEF QueryAtRest, TypeOK
<1>5. /\ pc' \in [Queries -> {"idle", "load", "persist", "return", "done"}]
      /\ request' \in [Queries -> Requests \cup {Null}]
      /\ asOf' \in [Queries -> 0 .. clock \cup {Null}]
      /\ began' \in [Queries -> 0 .. Len(facts)]
  BY <1>1, <1>3 DEF TypeOK
<1>6. QueryTyped(q)'
  BY <1>1, <1>3 DEF TypeOK, QueryTyped, IsBody
<1>7. CASE \E s \in snapshots : s.body = Body(q)
  <2>1. UNCHANGED <<clock, tables>> /\ UNCHANGED snapshots
    BY <1>3, <1>7 DEF Persist, tables
  <2>2. QueryInv(q)'
    BY <1>7, <2>1, PersistedQuery
  <2>3. TypeOK'
    BY <1>4, <1>5, <1>6, <2>1, TypeKept
  <2>4. QED BY <1>3, <1>4, <2>1, <2>2, <2>3, QuietStep
<1>8. CASE ~\E s \in snapshots : s.body = Body(q)
  <2> DEFINE made == [body |-> body, request |-> q]
  <2>1. PICK event : event = AuditOf(q)
    OBVIOUS
  <2>2. snapshots' = snapshots \cup {made} /\ audit' = audit \cup {event}
    BY <1>2, <1>8, <2>1 DEF Persist
  <2>3. event.target = body /\ event.request = q /\ event.usable = UsableCount(body)
    BY <1>2, <2>1 DEF AuditOf
  <2>4. PICK n \in began[q] .. Len(facts) :
          /\ n \in 0 .. Len(facts)
          /\ request[q] \in Requests /\ asOf[q] \in 0 .. clock
          /\ records[q] = LoadedAt(request[q].fieldKeys, n)
    BY <1>3, BodyKnown
  <2>5. PICK keys : keys = request[q].fieldKeys
    OBVIOUS
  <2>6. /\ IsBody(body) /\ UsableCount(body) \in Nat /\ DOMAIN body.items = DOMAIN keys
        /\ \A i \in DOMAIN keys : body.items[i].status = "unavailable" => body.items[i].code \in Actionable
    BY <1>1, <1>2, <2>4, <2>5, BodyWorth DEF ItemTold
  <2>7. made.body = body /\ made.request = q
    OBVIOUS
  <2> HIDE DEF made
  <2>8. \A s \in snapshots : s.body # body
    BY <1>2, <1>8
  <2>9. \A a \in audit : a.target # body
    BY <1>1, <2>8 DEF Audited
  <2>10. TypeOK'
    <3>1. UNCHANGED <<clock, facts>> /\ (Rows \subseteq FactRow)' /\ clock' \in 0 .. MaxTime
      BY <1>1, <1>3 DEF TypeOK, Rows
    <3>2. \A b : IsBody(b) => IsBody(b)'
      BY <3>1 DEF IsBody
    <3>3. \A s \in snapshots' : IsBody(s.body) /\ s.request \in Queries
      BY <1>1, <2>2, <2>6, <2>7 DEF TypeOK
    <3>4. \A a \in audit' : IsBody(a.target) /\ a.request \in Queries /\ a.usable \in Nat
      BY <1>1, <2>2, <2>3, <2>6 DEF TypeOK
    <3>5. ASSUME NEW x \in Queries PROVE QueryTyped(x)'
      <4>1. QueryTyped(x)
        BY <1>1 DEF TypeOK, QueryTyped
      <4>2. QED BY <1>3, <4>1 DEF QueryTyped, IsBody
    <3>6. (\A x \in Queries : QueryTyped(x))'
      BY <3>5
    <3>7. /\ (\A s \in snapshots : IsBody(s.body) /\ s.request \in Queries)'
          /\ (\A a \in audit : IsBody(a.target) /\ a.request \in Queries /\ a.usable \in Nat)'
      BY <3>1, <3>3, <3>4 DEF IsBody
    <3>8. asOf' \in [Queries -> 0 .. clock' \cup {Null}] /\ began' \in [Queries -> 0 .. Len(facts')]
      BY <1>5, <3>1
    <3>9. QED BY <1>5, <3>1, <3>6, <3>7, <3>8 DEF TypeOK, QueryTyped
  <2>11. LogKept /\ FactLog(facts)'
    BY <1>1, <1>3, LogUnchanged
  <2>12. ASSUME NEW x \in Queries PROVE QueryInv(x)'
    <3>1. CASE x = q
      <4>1. \E s \in snapshots' : s.body = Body(q)
        BY <1>2, <2>2, <2>7
      <4>2. QED BY <3>1, <4>1, PersistedQuery
    <3>2. CASE x # q
      <4>1. QueryInv(x) /\ began[x] \in Nat /\ QueryAtRest(x)
        BY <1>1, <1>4, <3>2 DEF ContextInv, TypeOK
      <4>2. clock' \in Nat /\ clock <= clock' /\ snapshots \subseteq snapshots'
        BY <1>1, <1>3, <2>2
      <4>3. QED BY <1>1, <2>11, <4>1, <4>2, QueryKept
    <3>3. QED BY <3>1, <3>2
  <2>13. BodiesUnique'
    BY <1>1, <2>2, <2>7, <2>8 DEF BodiesUnique
  <2>14. Audited'
    <3>1. ASSUME NEW s \in snapshots'
          PROVE  \E a \in audit' : {x \in audit' : x.target = s.body} = {a}
      <4>1. CASE s = made
        <5>1. {x \in audit' : x.target = s.body} = {event}
          BY <2>2, <2>3, <2>7, <2>9, <4>1
        <5>2. QED BY <2>2, <5>1
      <4>2. CASE s \in snapshots
        <5>1. PICK a \in audit : {x \in audit : x.target = s.body} = {a}
          BY <1>1, <4>2 DEF Audited
        <5>2. {x \in audit' : x.target = s.body} = {x \in audit : x.target = s.body}
          BY <2>2, <2>3, <2>8, <4>2
        <5>3. QED BY <2>2, <5>1, <5>2
      <4>3. QED BY <2>2, <4>1, <4>2
    <3>2. ASSUME NEW a \in audit'
          PROVE  \E s \in snapshots' : s.body = a.target /\ s.request = a.request
      <4>1. CASE a = event
        BY <2>2, <2>3, <2>7, <4>1
      <4>2. CASE a \in audit
        BY <1>1, <2>2, <4>2 DEF Audited
      <4>3. QED BY <2>2, <4>1, <4>2
    <3>3. QED BY <3>1, <3>2 DEF Audited
  <2>15. ReasonsAreActionable'
    BY <1>1, <2>2, <2>6, <2>7 DEF ReasonsAreActionable, Actionable
  <2>16. QED BY <1>3, <2>10, <2>11, <2>12, <2>13, <2>14, <2>15 DEF ContextInv
<1>9. QED BY <1>7, <1>8

LEMMA NextInv == ContextInv /\ [Next]_vars => ContextInv'
<1> SUFFICES ASSUME ContextInv, [Next]_vars PROVE ContextInv'
  OBVIOUS
<1>1. CASE Tick
  BY <1>1, TickStep
<1>2. CASE Approve
  BY <1>2, ApproveStep
<1>3. CASE Reverify
  BY <1>3, ReverifyStep
<1>4. ASSUME NEW q \in Queries, QueryStep(q) PROVE ContextInv'
  BY <1>4, BeginStep, LoadStep, PersistStep, ReturnStep DEF QueryStep
<1>5. ASSUME NEW q \in Queries, Crash(q) PROVE ContextInv'
  BY <1>5, CrashStep
<1>6. CASE UNCHANGED vars
  <2>1. UNCHANGED <<clock, facts, snapshots, audit, pc, request, asOf, began, records, reply>>
    BY <1>6 DEF vars
  <2>2. LogKept /\ FactLog(facts)' /\ (Rows \subseteq FactRow)'
    BY <2>1, FactsOfInv, LogUnchanged
  <2>3. TypeOK'
    BY <2>1, <2>2 DEF ContextInv, TypeOK, IsBody
  <2>4. ASSUME NEW q \in Queries PROVE QueryInv(q)'
    <3>1. QueryInv(q) /\ QueryAtRest(q) /\ began[q] \in Nat
      BY <2>1, FactsOfInv DEF ContextInv, TypeOK, QueryAtRest
    <3>2. clock \in Nat /\ clock' \in Nat /\ clock <= clock' /\ snapshots \subseteq snapshots'
      BY <2>1, FactsOfInv
    <3>3. QED BY <2>2, <3>1, <3>2, QueryKept
  <2>5. QED BY <2>1, <2>2, <2>3, <2>4
    DEF ContextInv, BodiesUnique, Audited, ReasonsAreActionable
<1>7. QED BY <1>1, <1>2, <1>3, <1>4, <1>5, <1>6 DEF Next, Quiescent

LEMMA ContextInvariance == Spec => []ContextInv
BY InitInv, NextInv, PTL DEF Spec

-----------------------------------------------------------------------------
(* Theorems.                                                               *)

\* Every variable has the shape the code gives it (TypeOK).
THEOREM TypeCorrect == Spec => []TypeOK
<1>1. ContextInv => TypeOK
  BY DEF ContextInv
<1>2. QED BY <1>1, ContextInvariance, PTL

\* No stored snapshot gives a reason that speaks of a broken history
\* (ReasonsAreActionable).
THEOREM ReasonsCorrect == Spec => []ReasonsAreActionable
<1>1. ContextInv => ReasonsAreActionable
  BY DEF ContextInv
<1>2. QED BY <1>1, ContextInvariance, PTL

\* A returned snapshot is stored, bodies are stored once, and each has the one
\* audit event of the request that created it (AuditedOnce).
THEOREM AuditCorrect == Spec => []AuditedOnce
<1>1. ContextInv => AuditedOnce
  <2> SUFFICES ASSUME ContextInv PROVE AuditedOnce
    OBVIOUS
  <2>1. \A q \in Queries : reply[q].outcome = "snapshot" =>
          \E s \in snapshots : s.body = reply[q].snapshot
    BY DEF ContextInv, QueryInv
  <2>2. \A s \in snapshots : Cardinality({a \in audit : a.target = s.body}) = 1
    BY FS_Singleton DEF ContextInv, Audited
  <2>3. QED BY <2>1, <2>2 DEF ContextInv, BodiesUnique, Audited, AuditedOnce
<1>2. QED BY <1>1, ContextInvariance, PTL

\* What a body and its page say is what the versions its query loaded are worth.
LEMMA SaysWhatItLoaded ==
  ASSUME ContextInv, NEW q \in Queries,
         pc[q] = "return" \/ reply[q].outcome = "snapshot"
  PROVE  \E n \in began[q] .. Len(facts) : AssertsAt(q, n)
<1>1. FactLog(facts) /\ clock \in Nat /\ QueryInv(q)
  BY FactsOfInv DEF ContextInv
<1>2. PICK n \in began[q] .. Len(facts) :
        /\ n \in 0 .. Len(facts)
        /\ request[q] \in Requests /\ asOf[q] \in 0 .. clock
        /\ records[q] = LoadedAt(request[q].fieldKeys, n)
  BY BodyKnown
<1> DEFINE body == Body(q)
           keys == request[q].fieldKeys
           page == reply[q].page
           Worth(i) == Assertable(keys[i], n, body.useCase, body.asOf)
<1>3. body = Body(q) /\ keys = request[q].fieldKeys /\ page = reply[q].page
  OBVIOUS
<1> HIDE DEF body, keys, page
<1>4. /\ IsBody(body) /\ DOMAIN body.items = DOMAIN keys
      /\ \A i \in DOMAIN keys :
           LET item == body.items[i] IN
           /\ item \in Item
           /\ item.status = "usable" => Worth(i) = {item.citation}
           /\ item.status = "unavailable" =>
                /\ Worth(i) = {} /\ item.code \in Actionable
                /\ item.code = "MISSING" <=> RowsOf(keys[i], Prefix(n)) = {}
  <2>1. /\ IsBody(body) /\ DOMAIN body.items = DOMAIN keys
        /\ \A i \in DOMAIN keys : ItemTold(body, keys, n, i)
    BY <1>1, <1>2, <1>3, BodyWorth
  <2>2. QED BY ONLY <2>1 DEF ItemTold
<1> HIDE DEF Worth
<1>5. \A i \in DOMAIN keys : body.items[i].status \in {"usable", "unavailable"}
  BY <1>4 DEF Item
<1>6. \A i \in DOMAIN keys :
        Worth(i) = IF body.items[i].status = "usable" THEN {body.items[i].citation} ELSE {}
  BY <1>4, <1>5
<1>7. reply[q].outcome = "snapshot" => pc[q] = "done" /\ page = Page(body)
  BY <1>1, <1>3 DEF QueryInv
<1>8. pc[q] = "return" => page = Null
  BY <1>1, <1>3 DEF QueryInv, NoReply
<1>9. ASSUME page # Null, NEW i \in DOMAIN keys
      PROVE  /\ page.facts[i].state = "usable" <=>
                  \E r \in Worth(i) : r.value = page.facts[i].value /\ r.version = page.facts[i].version
             /\ page.facts[i].state = "review" <=> RowsOf(keys[i], Prefix(n)) = {}
  <2>1. page.facts[i] = FactView(body.items[i])
    BY <1>1, <1>4, <1>7, <1>8, <1>9, PageOfBody
  <2>2. CASE body.items[i].status = "usable"
    <3>1. /\ page.facts[i].state = "usable"
          /\ page.facts[i].value = body.items[i].citation.value
          /\ page.facts[i].version = body.items[i].citation.version
      BY <2>1, <2>2 DEF FactView
    <3>2. Worth(i) = {body.items[i].citation}
      BY <1>6, <2>2
    <3>3. RowsOf(keys[i], Prefix(n)) # {}
      BY <3>2 DEF Worth, Assertable, Newest
    <3>4. QED BY <3>1, <3>2, <3>3
  <2>3. CASE body.items[i].status = "unavailable"
    <3>1. page.facts[i].state = IF body.items[i].code = "MISSING" THEN "review" ELSE "blocked"
      BY <2>1, <2>3 DEF FactView
    <3>2. Worth(i) = {} /\ (body.items[i].code = "MISSING" <=> RowsOf(keys[i], Prefix(n)) = {})
      BY <1>4, <2>3
    <3>3. QED BY <3>1, <3>2
  <2>4. QED BY <2>2, <2>3, <1>5
<1>10. ASSUME pc[q] = "done", page = Null
       PROVE  \E i \in DOMAIN keys : \E r \in Worth(i) : r.value \notin TextValues
  <2>1. Page(body) = Null
    BY <1>7, <1>10
  <2>2. PICK i \in DOMAIN keys : ~Displayable(body.items[i])
    BY <1>1, <1>4, <2>1, PageOfBody
  <2>3. body.items[i].status = "usable" /\ body.items[i].citation.value \notin TextValues
    BY <2>2 DEF Displayable
  <2>4. QED BY <1>6, <2>3
<1>11. AssertsAt(q, n)
  BY ONLY <1>6, <1>9, <1>10 DEF AssertsAt, Worth, body, keys, page
<1>12. QED BY <1>11

\* What a snapshot and its page assert could be asserted at one instant since
\* the query began (AssertsOneInstant).
THEOREM SnapshotsCorrect == Spec => []AssertsOneInstant
<1>1. ContextInv => AssertsOneInstant
  BY SaysWhatItLoaded DEF AssertsOneInstant
<1>2. QED BY <1>1, ContextInvariance, PTL
=============================================================================
