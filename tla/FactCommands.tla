----------------------------- MODULE FactCommands -----------------------------
(***************************************************************************)
(* Fact review and fact reverification running together over the same      *)
(* tables: the specification, and what it must guarantee.                  *)
(***************************************************************************)
EXTENDS FactReview, FactReverification

ASSUME CommandAssumption == Commands \subseteq ReviewCommand \cup ReverifyCommand

FactRow ==
  [id : Ids, field : Fields, version : Nat \ {0}, value : Values, candidate : Ids,
   supersedes : Ids \cup {Null}, origin : {"review", "reverification"},
   governance : {"available", "restricted", "disputed"},
   verifiedAt : Nat, expiresAt : Nat \cup {Null}]

DecisionRow ==
  [id : Ids, candidate : Candidates, version : Nat \ {0}, action : FactReviewActions,
   factId : Ids \cup {Null}, currentId : Ids \cup {Null}, decidedAt : Nat]

ASSUME RowAssumption ==
  Null \notin FactRow /\ Null \notin DecisionRow /\ Null \notin Commands

ASSUME CandidateAssumption ==
  /\ Candidates \subseteq Ids
  /\ \A k \in Candidates : CandidateRow[k].field \in Fields

\* r is version 1 of its field, or directly supersedes a row of rows.
Founded(r, rows) ==
  \/ r.version = 1 /\ r.supersedes = Null
  \/ \E s \in rows : s.field = r.field /\ s.version + 1 = r.version /\ s.id = r.supersedes

\* Rows whose versions are exactly 1 to their number.
RowsOf(rows, f) == {r \in rows : r.field = f}
DecisionsOf(rows, k) == {d \in rows : d.candidate = k}
Numbered(rows) == {r.version : r \in rows} = 1 .. Cardinality(rows)

\* The rows of approved_fact_version before the first command: reviews leave
\* them in this shape, and rows older than migration 0011 have no expiry.
ASSUME SeedAssumption ==
  /\ SeedFacts \subseteq FactRow
  /\ \A f \in Fields : IsFiniteSet(RowsOf(SeedFacts, f)) /\ Numbered(RowsOf(SeedFacts, f))
  /\ \A r \in SeedFacts :
       /\ Founded(r, SeedFacts)
       /\ r.expiresAt \in {Null, ExpiresAt(r.field, r.verifiedAt)}
       /\ \A s \in SeedFacts :
            /\ FactsClash(r, s) => r = s
            /\ r.supersedes = s.id => s.verifiedAt <= r.verifiedAt

-----------------------------------------------------------------------------
Quiescent == (\A p \in Attempts : pc[p] = "done") /\ UNCHANGED vars

AttemptStep(p) == ReviewStep(p) \/ ReverificationStep(p)

Init == StoreInit
Next == (\E p \in Attempts : AttemptStep(p) \/ Crash(p)) \/ Quiescent

Spec == Init /\ [][Next]_vars

\* A server process that is alive keeps executing its request, and PostgreSQL
\* grants a free lock to its waiter; nothing makes a process start or crash.
Progress(p) == ContinueReview(p) \/ ContinueReverification(p)
FairSpec == Spec /\ \A p \in Attempts : WF_vars(Progress(p))
-----------------------------------------------------------------------------
(* Properties.                                                             *)

Places == {"idle", "decide", "claim", "lock", "check", "insert_fact", "insert_decision",
           "commit", "done"}
HoldingPlaces == {"check", "insert_fact", "insert_decision", "commit"}
Outcomes == {"none", "denied", "not_found", "stale_version", "refused", "idempotency_conflict",
             "in_progress", "replayed", "version_conflict", "committed", "crashed",
             "invalid_request", "not_time_sensitive", "not_due"}
Scopes == {ReviewScope, ReverifyScope}
RecordOf(scope, requests) ==
  [scope : {scope}, key : Ids, hash : requests, status : {"succeeded"}, ref : Ids]
Record == RecordOf(ReviewScope, ReviewRequest) \cup RecordOf(ReverifyScope, ReverifyRequest)
AuditRow == [scope : Scopes, key : Ids, target : Ids]
Plan == [fact : FactRow \cup {Null}, decision : DecisionRow \cup {Null}]
Reply == [outcome : Outcomes, ref : Ids \cup {Null}]

\* Every variable has the shape the code gives it, no idempotency record is ever
\* committed in progress, and only an attempt inside its transaction, past the
\* lock statement, holds an advisory lock.
TypeOK ==
  /\ facts \subseteq FactRow
  /\ decisions \subseteq DecisionRow
  /\ records \subseteq Record
  /\ audit \subseteq AuditRow
  /\ lock \in [Fields -> Attempts \cup {Null}]
  /\ pc \in [Attempts -> Places]
  /\ cmd \in [Attempts -> Commands \cup {Null}]
  /\ now \in [Attempts -> Times \cup {Null}]
  /\ plan \in [Attempts -> Plan]
  /\ reply \in [Attempts -> Reply]
  /\ \A f \in Fields : lock[f] # Null => pc[lock[f]] \in HoldingPlaces

\* The approved versions of a field form one gap-free chain in which each row
\* supersedes the one before it, whoever wrote it: approvals serialized by the
\* advisory lock, and reverifications that take no lock and rely on the unique
\* index approved_fact_version_field_version_unique.
FactHistory ==
  \A r \in facts :
    /\ Founded(r, facts)
    /\ \A s \in facts : FactsClash(r, s) => r = s

\* Verification times never go back along a chain, although every server reads
\* its own clock and a reverification never compares the two times: being due
\* implies it, because the due-soon window is shorter than the validity.
VerifiedAtMonotone ==
  \A r, s \in facts : r.supersedes = s.id => s.verifiedAt <= r.verifiedAt

\* The decisions of a candidate form a gap-free history, and an approval and
\* the fact version it created point at each other, neither without the other.
DecisionHistory ==
  /\ \A d, e \in decisions : DecisionsClash(d, e) => d = e
  /\ \A d \in decisions :
       /\ d.version = 1 \/ \E e \in decisions : e.candidate = d.candidate /\ e.version + 1 = d.version
       /\ (d.factId # Null) = (d.action # "reject")
       /\ d.factId # Null =>
            \E r \in facts \ SeedFacts : r.id = d.factId /\ r.candidate = d.candidate /\ r.origin = "review"
  /\ \A r \in facts \ SeedFacts :
       r.origin = "review" => \E d \in decisions : d.factId = r.id /\ d.candidate = r.candidate

\* What the request a record was made for has to have left in the tables.
Effected(r) ==
  IF r.scope = ReverifyScope
  THEN \E s \in facts : /\ s.id = r.ref /\ s.origin = "reverification"
                        /\ s.supersedes = r.hash.factId /\ s.version = r.hash.expectedVersion + 1
  ELSE \E d \in decisions :
         /\ d.id = r.ref /\ d.id = r.hash.decisionId
         /\ d.candidate = r.hash.candidate /\ d.action = r.hash.action
         /\ d.version = r.hash.expectedDecision + 1
         /\ d.action # "reject" =>
              \E s \in facts : /\ s.id = d.factId /\ s.id = r.hash.factId
                              /\ s.version = r.hash.expectedFact + 1

\* A command leaves all of its rows or none: the idempotency record, the
\* decision, the fact version on exactly the version its owner saw, and one
\* audit event; no row exists without the record of the command that made it.
AllOrNothing ==
  /\ \A r \in records :
       /\ Effected(r)
       /\ \E a \in audit : SameKey(a, r) /\ a.target = r.ref
  /\ \A r, s \in records : SameKey(r, s) \/ (r.scope = s.scope /\ r.ref = s.ref) => r = s
  /\ \A a \in audit : \E r \in records : SameKey(a, r) /\ a.target = r.ref
  /\ \A d \in decisions : \E r \in records : r.scope = ReviewScope /\ r.ref = d.id
  /\ \A s \in facts \ SeedFacts :
       s.origin = "reverification" => \E r \in records : r.scope = ReverifyScope /\ r.ref = s.id

\* A retry never makes a second effect: of the attempts with one idempotency
\* key at most one commits, and every other one that is told success is told
\* of that effect, for the request it sent.
AnsweredOnce ==
  \A p \in Attempts : reply[p].outcome \in {"committed", "replayed"} =>
    /\ \E r \in records : /\ SameKey(r, cmd[p]) /\ r.hash = cmd[p].request
                         /\ r.ref = reply[p].ref
    /\ \A q \in Attempts \ {p} :
         reply[q].outcome = "committed" /\ reply[p].outcome = "committed" => ~SameKey(cmd[p], cmd[q])

\* Reverifying confirms a fact and changes nothing else: the value, the
\* candidate it came from and its governance are those of the superseded row,
\* even when a review of the field races with it.  And it confirms no fact
\* before that is due: a row that stores no expiry is as good for as long as
\* one that does, and its successor stores one.
ReverificationPreserves ==
  \A r \in facts \ SeedFacts : r.origin = "reverification" =>
    \E s \in facts : /\ s.id = r.supersedes
                    /\ s.value = r.value /\ s.candidate = r.candidate
                    /\ s.governance = r.governance
                    /\ r.expiresAt = r.verifiedAt + Window
                    /\ s.verifiedAt + Window <= r.verifiedAt + DueSoon

InProgress(p) == pc[p] \notin {"idle", "done"}

\* The statement p is at waits for q: for the idempotency row, the advisory lock
\* or a unique key that q holds and has not committed.
Blocks(q, p) ==
  \/ pc[p] = "claim" /\ q # p /\ InTransaction(q) /\ SameKey(cmd[q], cmd[p])
  \/ pc[p] = "lock" /\ lock[CandidateField(cmd[p].request.candidate)] = q
  \/ /\ pc[p] = "insert_fact" /\ q # p
     /\ \E r \in PendingFacts(q) : FactsClash(r, plan[p].fact)
  \/ /\ pc[p] = "insert_decision" /\ q # p
     /\ \E d \in PendingDecisions(q) : DecisionsClash(d, plan[p].decision)

\* Two kinds of transaction take idempotency rows, advisory locks and unique keys
\* in different places, and never all wait for each other: while any attempt is
\* in progress, one is in progress that waits for nobody.
NeverAllWait ==
  (\E p \in Attempts : InProgress(p)) =>
    \E p \in Attempts : InProgress(p) /\ \A q \in Attempts : ~Blocks(q, p)

\* What the persistence contract says of retries: an identical authorized
\* command replays before changed fact state causes a false stale-version
\* failure, and the claim closes concurrent retry races (BRN-003B).  The code
\* looks the key up once, before it reads the current fact: when the first
\* attempt commits in between, its retry is told the version is stale.
NoFalseStale ==
  [][\A p \in Attempts :
       pc[p] = "decide" /\ reply'[p].outcome = "stale_version" =>
         ~\E r \in records : SameKey(r, cmd[p]) /\ r.hash = cmd[p].request]_vars

\* Every attempt that began is answered: no cycle of waits on idempotency rows,
\* advisory locks and uncommitted unique keys ever forms, and a crashed holder
\* releases what it held.
EveryAttemptAnswers ==
  \A p \in Attempts : pc[p] # "idle" ~> pc[p] = "done"

-----------------------------------------------------------------------------
(* The refinement.                                                         *)

\* The rows of a field as a sequence, one set of entries per version.
Entry(r) == [id |-> r.id, origin |-> r.origin, value |-> r.value,
             candidate |-> r.candidate, governance |-> r.governance]
HistoryOf(rows) ==
  [f \in Fields |->
    [v \in 1 .. Cardinality(RowsOf(rows, f)) |->
      {Entry(r) : r \in {s \in RowsOf(rows, f) : s.version = v}}]]
Judgement(d) == [id |-> d.id, action |-> d.action]
JudgementsOf(rows) ==
  [k \in Candidates |->
    [v \in 1 .. Cardinality(DecisionsOf(rows, k)) |->
      {Judgement(d) : d \in {e \in DecisionsOf(rows, k) : e.version = v}}]]

Use(c, ref) == [key |-> <<c.scope, c.key>>, request |-> c.request, ref |-> ref]

\* The commands as the ledger knows them.
ReviewEntry(c) ==
  LET request == c.request IN
  [use |-> Use(c, request.decisionId),
   field |-> CandidateField(request.candidate), candidate |-> request.candidate,
   expectedFact |-> request.expectedFact, expectedDecision |-> request.expectedDecision,
   entry |-> Entry(ReviewedFact(request, Null, 0)),
   judgement |-> Judgement(ReviewDecision(request, Null, 0))]
KnownReviews == {c \in Commands : Reviews(c) /\ c.request.candidate \in Candidates}
Approvals == {ReviewEntry(c) : c \in {d \in KnownReviews : d.request.action # "reject"}}
Rejections == {ReviewEntry(c) : c \in {d \in KnownReviews : d.request.action = "reject"}}
Reverifications ==
  {[use |-> Use(c, c.newFactId), factId |-> c.request.factId, newFactId |-> c.newFactId,
    expectedFact |-> c.request.expectedVersion] : c \in {d \in Commands : Reverifies(d)}}

Told(p) ==
  IF reply[p].outcome = "none" THEN {}
  ELSE IF reply[p].outcome \in {"committed", "replayed"} THEN {Use(cmd[p], reply[p].ref)}
  ELSE {[refused |-> TRUE]}

Ledger == INSTANCE FactLedger WITH
  InitialHistory <- HistoryOf(SeedFacts),
  history <- HistoryOf(facts),
  judgements <- JudgementsOf(decisions),
  applied <- {[key |-> <<r.scope, r.key>>, request |-> r.hash, ref |-> r.ref] : r \in records},
  answered <- [p \in Attempts |-> Told(p)]

\* The two transactions, as interleaved and crashed as they may be, implement
\* the ledger of atomic commands.
ImplementsLedger == Ledger!Spec
=============================================================================
