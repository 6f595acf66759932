---------------------------- MODULE SourceProposals ----------------------------
(***************************************************************************)
(* Source proposals: prepareSourceProposalBatch asks an extractor for what *)
(* an approved source says, persistBatch stores the resulting graph of     *)
(* source, capture, batch and fact candidates, and                         *)
(* recordSourceProposalOwnerDecision appends an owner's decision.          *)
(*                                                                         *)
(* As in FactStore, a repository method is one READ COMMITTED transaction: *)
(* the table variables hold committed rows, what a running transaction has *)
(* inserted is a function of its pc, plan and row, and Commit publishes it.*)
(* One workspace and one (existing) profile are fixed.                     *)
(***************************************************************************)
EXTENDS Integers, Sequences, FiniteSets

CONSTANTS
  Attempts,       \* server invocations; a retry of a command is another attempt
  Commands,       \* the commands they may carry
  Extractions,    \* what the extractor may return for a source
  ProviderOwned,  \* PROVIDER_OWNED_BOOKING_FIELD_KEYS
  MaxBytes,       \* MAX_SOURCE_CAPTURE_BYTES
  SeedBatches,    \* batches stored at the start
  Null

VARIABLES
  sources,     \* approved_business_source
  captures,    \* source_capture
  batches,     \* source_proposal_batch
  candidates,  \* fact_candidate
  decisions,   \* fact_candidate_review_decision
  records,     \* idempotency_record
  audit,       \* audit_event
  pc,          \* where each attempt is
  cmd,         \* the command it carries
  plan,        \* the batch or decision it intends to store
  row,         \* how many candidate rows of its batch it has inserted
  reply        \* what it answers: an outcome, and a failure code or row id

tables == <<sources, captures, batches, candidates, decisions, records, audit>>
vars == <<tables, pc, cmd, plan, row, reply>>

-----------------------------------------------------------------------------
(* prepareSourceProposalBatch.                                             *)

Distinct(s) == \A i, j \in DOMAIN s : s[i] = s[j] => i = j
ProposedFields(e) == [i \in DOMAIN e.proposals |-> e.proposals[i].field]
ProposedIds(e) == [i \in DOMAIN e.proposals |-> e.proposals[i].id]

\* assertApprovedWebsiteRedirect: why a website's extraction may not end at origin o.
RedirectProblem(source, o) ==
  CASE o = "unsafe" -> {"UNSAFE_URL"}
    [] o # "unsafe" /\ o # source.origin -> {"REDIRECT_NOT_ALLOWED"}
    [] OTHER -> {}

\* createSourceCapture: the first problem of a capture, as mappedFailureCode names it.
CaptureProblem(source, e) ==
  IF e.capturedAt < source.approvedAt THEN {"PARSER_ERROR"}
  ELSE IF source.kind = "business_website" /\ RedirectProblem(source, e.origin) # {}
  THEN RedirectProblem(source, e.origin)
  ELSE IF source.kind = "booking_route_metadata" /\ e.reference # source.reference
  THEN {"PARSER_ERROR"}
  ELSE IF e.bytes <= 0 THEN {"PARSER_ERROR"}
  ELSE IF e.bytes > MaxBytes THEN {"CONTENT_TOO_LARGE"} ELSE {}

\* createFactCandidate and createSourceProposalBatch.
BatchProblem(e) ==
  IF e.proposals = <<>> \/ \E i \in DOMAIN e.proposals : ~e.proposals[i].valid
  THEN {"PARSER_ERROR"}
  ELSE IF ~Distinct(ProposedIds(e)) \/ ~Distinct(ProposedFields(e))
  THEN {"DUPLICATE_SOURCE_OUTPUT"} ELSE {}

\* The first reason why extraction e yields no batch: at most one failure code.
Problem(c, e) ==
  LET fields == {e.proposals[i].field : i \in DOMAIN e.proposals}
      redirected == c.source.kind = "business_website" /\ e.resolvedOrigin # Null
  IN
  IF e.status = "threw" THEN {"PARSER_ERROR"}
  ELSE IF e.status = "failure" THEN {e.code}
  ELSE IF ~(fields \subseteq c.allowedFields) THEN {"PARSER_ERROR"}
  ELSE IF c.source.kind = "booking_route_metadata" /\ fields \cap ProviderOwned # {}
  THEN {"PROVIDER_CONFLICT"}
  ELSE IF redirected /\ RedirectProblem(c.source, e.resolvedOrigin) # {}
  THEN RedirectProblem(c.source, e.resolvedOrigin)
  ELSE IF CaptureProblem(c.source, e) # {} THEN CaptureProblem(c.source, e)
  ELSE BatchProblem(e)

CaptureOf(source, e) ==
  [id |-> e.captureId, source |-> source.id, kind |-> source.kind, origin |-> e.origin,
   reference |-> e.reference, capturedAt |-> e.capturedAt, digest |-> e.digest,
   bytes |-> e.bytes]

\* The batch: each candidate with its provenance, unverified and provisional.
BatchOf(c, e) ==
  [id |-> e.batchId, source |-> c.source, capture |-> CaptureOf(c.source, e),
   candidates |-> [i \in DOMAIN e.proposals |->
     [id |-> e.proposals[i].id, field |-> e.proposals[i].field, batch |-> e.batchId,
      source |-> c.source.id, capture |-> e.captureId, shaped |-> e.proposals[i].shaped]]]

\* createFactCandidateReviewDecision: the version follows the one the owner saw.
DecisionOf(c) ==
  [id |-> c.decisionId, candidate |-> c.candidate, version |-> c.expected + 1,
   outcome |-> c.outcome, decidedAt |-> c.at]

-----------------------------------------------------------------------------
(* What commands, extractions and batches are.                             *)

Source ==
  [id : STRING, kind : STRING, origin : STRING \cup {Null}, reference : STRING, approvedAt : Nat]
Capture ==
  [id : STRING, source : STRING, kind : STRING, origin : STRING \cup {Null}, reference : STRING,
   capturedAt : Nat, digest : STRING, bytes : Int]
Candidate ==
  [id : STRING, field : STRING, batch : STRING, source : STRING, capture : STRING,
   shaped : BOOLEAN]
Batch == [id : STRING, source : Source, capture : Capture, candidates : Seq(Candidate)]
Decision ==
  [id : STRING, candidate : STRING, version : Nat \ {0}, outcome : STRING, decidedAt : Nat]

ASSUME CommandAssumption ==
  /\ Null \notin Commands \cup Batch \cup Decision
  /\ \A c \in Commands :
       \/ c.kind = "propose" /\ c.source \in Source
       \/ c.kind = "decide" /\ c.expected \in Nat /\ DecisionOf(c) \in Decision

\* A successful extraction carries what the capture and the batch are made of.
ASSUME ExtractionAssumption ==
  /\ MaxBytes \in Nat
  /\ \A e \in Extractions :
       e.status \in {"failure", "threw"} \/
         /\ e.captureId \in STRING /\ e.batchId \in STRING /\ e.digest \in STRING
         /\ e.origin \in STRING \cup {Null} /\ e.reference \in STRING
         /\ e.capturedAt \in Nat /\ e.bytes \in Int
         /\ e.proposals \in Seq([id : STRING, field : STRING, valid : BOOLEAN, shaped : BOOLEAN])

CandidatesOf(b) == {b.candidates[i] : i \in DOMAIN b.candidates}
Ids(rows) == {r.id : r \in rows}
UniqueIds(rows) == \A r, s \in rows : r.id = s.id => r = s

\* What is required of a batch before it may be stored.
Sound(b) ==
  LET s == b.source
      c == b.capture
  IN
  /\ b \in Batch /\ b.candidates # <<>>
  /\ \A i, j \in DOMAIN b.candidates : b.candidates[i].id = b.candidates[j].id => i = j
  /\ c.source = s.id /\ c.kind = s.kind
  /\ \A k \in CandidatesOf(b) : k.batch = b.id /\ k.source = s.id /\ k.capture = c.id
  /\ c.capturedAt >= s.approvedAt /\ c.bytes \in 1 .. MaxBytes
  /\ s.kind = "business_website" => c.origin = s.origin
  /\ s.kind = "booking_route_metadata" =>
       c.reference = s.reference /\ \A k \in CandidatesOf(b) : k.field \notin ProviderOwned

ASSUME SeedAssumption ==
  /\ \A b \in SeedBatches : Sound(b)
  /\ UniqueIds(SeedBatches)
  /\ UniqueIds({b.source : b \in SeedBatches}) /\ UniqueIds({b.capture : b \in SeedBatches})
  /\ UniqueIds(UNION {CandidatesOf(b) : b \in SeedBatches})

-----------------------------------------------------------------------------
(* Transactions.                                                           *)

NoReply == [outcome |-> "none", ref |-> Null]
Answer(o, ref) == [outcome |-> o, ref |-> ref]

Finish(p, answer) ==
  /\ pc' = [pc EXCEPT ![p] = "done"]
  /\ reply' = [reply EXCEPT ![p] = answer]
  /\ plan' = [plan EXCEPT ![p] = Null]
  /\ row' = [row EXCEPT ![p] = 0]
  /\ UNCHANGED cmd

Goto(p, to) ==
  /\ pc' = [pc EXCEPT ![p] = to]
  /\ UNCHANGED <<cmd, plan, row, reply>>

Working == {"claim", "source", "capture", "batch_exists", "insert_batch", "insert_candidates",
            "check_decision", "insert_decision", "commit"}
InTransaction(p) == pc[p] \in Working \ {"claim"}
Proposing(p) == pc[p] \in Working /\ cmd[p].kind = "propose"
Deciding(p) == pc[p] \in Working /\ cmd[p].kind = "decide"

\* The statements of a batch after which it holds the rows of each.
PastBatch == {"insert_candidates", "commit"}
PastCapture == {"batch_exists", "insert_batch"} \cup PastBatch
PastSource == {"capture"} \cup PastCapture

NextRow(p) == plan[p].candidates[row[p] + 1]
RequestKey(p) == <<cmd[p].kind, cmd[p].key>>
VersionKey(d) == <<d.candidate, d.version>>

\* The unique indexes, and the keys the committed rows have in them.
Stored ==
  [record |-> {<<r.scope, r.key>> : r \in records},
   source |-> Ids(sources), capture |-> Ids(captures), batch |-> Ids(batches),
   candidate |-> Ids(candidates), decision |-> Ids(decisions),
   version |-> {VersionKey(d) : d \in decisions}]
Indexes ==
  {"record", "source", "capture", "batch", "candidate", "decision", "version"}

If(condition, keys) == IF condition THEN keys ELSE {}

\* The keys of the rows a running transaction has inserted.
Held(p) ==
  [record |-> If(InTransaction(p), {RequestKey(p)}),
   source |-> If(Proposing(p) /\ pc[p] \in PastSource, {plan[p].source.id} \ Stored.source),
   capture |-> If(Proposing(p) /\ pc[p] \in PastCapture, {plan[p].capture.id} \ Stored.capture),
   batch |-> If(Proposing(p) /\ pc[p] \in PastBatch, {plan[p].id}),
   candidate |-> {plan[p].candidates[i].id : i \in 1 .. row[p]},
   decision |-> If(Deciding(p) /\ pc[p] = "commit", {plan[p].id}),
   version |-> If(Deciding(p) /\ pc[p] = "commit", {VersionKey(plan[p])})]

\* Those of the row it inserts next.
Wanted(p) ==
  [record |-> If(pc[p] = "claim", {RequestKey(p)}),
   source |-> If(pc[p] = "source", {plan[p].source.id}),
   capture |-> If(pc[p] = "capture", {plan[p].capture.id}),
   batch |-> If(pc[p] = "insert_batch", {plan[p].id}),
   candidate |-> If(pc[p] = "insert_candidates" /\ row[p] < Len(plan[p].candidates),
                    {NextRow(p).id}),
   decision |-> If(pc[p] = "insert_decision", {plan[p].id}),
   version |-> If(pc[p] = "insert_decision", {VersionKey(plan[p])})]

\* PostgreSQL: the running transactions that hold a key p wants; it waits for
\* them to end.
Blockers(p) ==
  LET wanted == Wanted(p) IN
  {q \in Attempts \ {p} :
     LET held == Held(q) IN \E index \in Indexes : wanted[index] \cap held[index] # {}}

\* PostgreSQL aborts a transaction that waits in a cycle (error 40P01).
DeadlockVictim(p) ==
  /\ Blockers(p) # {}
  /\ \E S \in SUBSET Attempts : p \in S /\ \A q \in S : Blockers(q) \cap S # {}
  /\ Finish(p, Answer("deadlock_detected", Null))
  /\ UNCHANGED tables

\* The process or its connection dies: an open transaction is rolled back.
Crash(p) ==
  /\ pc[p] \notin {"idle", "done"}
  /\ Finish(p, Answer("crashed", Null))
  /\ UNCHANGED tables

-----------------------------------------------------------------------------
(* Idempotency.                                                            *)

\* The request hash covers the batch, or the decision and the version it expects.
Hash(p) == plan[p]
RecordsFor(p) == {r \in records : r.scope = cmd[p].kind /\ r.key = cmd[p].key}

\* loadBatch finds every part of batch b.
GraphLoads(b) ==
  /\ \E s \in sources : s.id = b.source
  /\ \E c \in captures : c.id = b.capture
  /\ \E k \in candidates : k.batch = b.id

\* What a stored record lets a request answer: the row of the first attempt.
ReplayAnswer(p, r) ==
  IF r.hash # Hash(p) THEN Answer("idempotency_conflict", Null)
  ELSE IF r.status = "in_progress" THEN Answer("idempotency_in_progress", Null)
  ELSE IF r.scope = "decide"
  THEN IF \E d \in decisions : d.id = r.ref THEN Answer("replayed", r.ref)
       ELSE Answer("idempotency_conflict", Null)
  ELSE IF \A b \in batches : b.id # r.ref THEN Answer("idempotency_conflict", Null)
  ELSE IF \A b \in batches : b.id = r.ref => GraphLoads(b) THEN Answer("replayed", r.ref)
  ELSE Answer("source_conflict", Null)

AfterClaim(p) == IF cmd[p].kind = "propose" THEN "source" ELSE "check_decision"

\* Variant for a mutant: a key that was used before is not looked up.
ClaimWithoutLookup(p) ==
  /\ pc[p] = "claim"
  /\ Blockers(p) = {}
  /\ Goto(p, AfterClaim(p))
  /\ UNCHANGED tables

\* claimIdempotency: INSERT ... ON CONFLICT DO NOTHING, then a read of the record.
Claim(p) ==
  /\ pc[p] = "claim"
  /\ Blockers(p) = {}
  /\ \/ RecordsFor(p) = {} /\ Goto(p, AfterClaim(p))
     \/ \E r \in RecordsFor(p) : Finish(p, ReplayAnswer(p, r))
  /\ UNCHANGED tables

-----------------------------------------------------------------------------
(* The commands.                                                           *)

\* The session must outlast the time the command carries (its requestedAt or
\* decidedAt, not the server's clock); a decision needs a human owner.
Denied(c) ==
  IF c.sessionExpiresAt <= c.at THEN {"SESSION_EXPIRED"}
  ELSE IF ~c.sameTenant THEN {"TENANT_MISMATCH"}
  ELSE IF c.kind = "decide" /\ ~c.owner THEN {"OWNER_REQUIRED"} ELSE {}

Begin(p, c) ==
  /\ pc[p] = "idle"
  /\ cmd' = [cmd EXCEPT ![p] = c]
  /\ \/ /\ Denied(c) = {}
        /\ pc' = [pc EXCEPT ![p] = IF c.kind = "propose" THEN "extract" ELSE "claim"]
        /\ plan' = [plan EXCEPT ![p] = IF c.kind = "propose" THEN Null ELSE DecisionOf(c)]
        /\ UNCHANGED reply
     \/ \E code \in Denied(c) :
        /\ pc' = [pc EXCEPT ![p] = "done"]
        /\ reply' = [reply EXCEPT ![p] = Answer("denied", code)]
        /\ UNCHANGED plan
  /\ UNCHANGED <<tables, row>>

\* The extractor answers; a retry of the request may be given another answer.
Extract(p) ==
  /\ pc[p] = "extract"
  /\ \E e \in {x \in Extractions : x.source = cmd[p].source.id} :
       \/ \E code \in Problem(cmd[p], e) : Finish(p, Answer("failed", code))
       \/ /\ Problem(cmd[p], e) = {}
          /\ pc' = [pc EXCEPT ![p] = "claim"]
          /\ plan' = [plan EXCEPT ![p] = BatchOf(cmd[p], e)]
          /\ UNCHANGED <<cmd, row, reply>>
  /\ UNCHANGED tables

\* Variant for a mutant: a source that exists is taken as it is.
EnsureAnySource(p) ==
  /\ pc[p] = "source"
  /\ Blockers(p) = {}
  /\ Goto(p, "capture")
  /\ UNCHANGED tables

\* INSERT ... ON CONFLICT DO NOTHING, then the row with this id must be the same.
EnsureSource(p) ==
  /\ pc[p] = "source"
  /\ Blockers(p) = {}
  /\ IF \E s \in sources : s.id = plan[p].source.id /\ s # plan[p].source
     THEN Finish(p, Answer("source_conflict", Null))
     ELSE Goto(p, "capture")
  /\ UNCHANGED tables

\* Variant for a mutant: the capture is stored in a transaction of its own.
EnsureCaptureAtOnce(p) ==
  /\ pc[p] = "capture"
  /\ Blockers(p) = {}
  /\ IF \E c \in captures : c.id = plan[p].capture.id /\ c # plan[p].capture
     THEN Finish(p, Answer("source_conflict", Null)) /\ UNCHANGED tables
     ELSE /\ Goto(p, "batch_exists")
          /\ captures' = captures \cup {plan[p].capture}
          /\ UNCHANGED <<sources, batches, candidates, decisions, records, audit>>

EnsureCapture(p) ==
  /\ pc[p] = "capture"
  /\ Blockers(p) = {}
  /\ IF \E c \in captures : c.id = plan[p].capture.id /\ c # plan[p].capture
     THEN Finish(p, Answer("source_conflict", Null))
     ELSE Goto(p, "batch_exists")
  /\ UNCHANGED tables

\* persistBatch looks for the batch's identity among the committed batches.
BatchExists(p) ==
  /\ pc[p] = "batch_exists"
  /\ IF plan[p].id \in Stored.batch
     THEN Finish(p, Answer("version_conflict", Null))
     ELSE Goto(p, "insert_batch")
  /\ UNCHANGED tables

\* Variant for a mutant: no primary key on the batch.
InsertBatchAnyId(p) ==
  /\ pc[p] = "insert_batch"
  /\ Goto(p, "insert_candidates")
  /\ UNCHANGED tables

\* The insert of the batch row; its unique violation is not mapped.
InsertBatch(p) ==
  /\ pc[p] = "insert_batch"
  /\ Blockers(p) = {}
  /\ IF plan[p].id \in Stored.batch
     THEN Finish(p, Answer("unique_violation", Null))
     ELSE Goto(p, "insert_candidates")
  /\ UNCHANGED tables

\* One INSERT of all candidates goes row by row: the CHECK on the shape of a
\* conflict (the domain lets kind none carry a detail), then the primary key.
InsertCandidate(p) ==
  /\ pc[p] = "insert_candidates"
  /\ Blockers(p) = {}
  /\ IF row[p] = Len(plan[p].candidates) THEN Goto(p, "commit")
     ELSE IF ~NextRow(p).shaped THEN Finish(p, Answer("check_violation", Null))
     ELSE IF NextRow(p).id \in Stored.candidate
     THEN Finish(p, Answer("unique_violation", Null))
     ELSE row' = [row EXCEPT ![p] = @ + 1] /\ UNCHANGED <<pc, cmd, plan, reply>>
  /\ UNCHANGED tables

\* The decision history of a candidate is read, without a lock.
LatestVersion(k, v) ==
  /\ \A d \in decisions : d.candidate = k => d.version <= v
  /\ v = 0 \/ \E d \in decisions : d.candidate = k /\ d.version = v

CheckDecision(p) ==
  /\ pc[p] = "check_decision"
  /\ IF cmd[p].candidate \notin Stored.candidate
     THEN Finish(p, Answer("not_found", Null))
     ELSE IF LatestVersion(cmd[p].candidate, cmd[p].expected) THEN Goto(p, "insert_decision")
     ELSE Finish(p, Answer("version_conflict", Null))
  /\ UNCHANGED tables

\* Variant for a mutant: no unique index on the candidate and version.
InsertDecisionAnyVersion(p) ==
  /\ pc[p] = "insert_decision"
  /\ IF plan[p].id \in Stored.decision
     THEN Finish(p, Answer("unique_violation", Null))
     ELSE Goto(p, "commit")
  /\ UNCHANGED tables

\* The insert that catches what the check missed; its error is not mapped.
InsertDecision(p) ==
  /\ pc[p] = "insert_decision"
  /\ Blockers(p) = {}
  /\ IF plan[p].id \in Stored.decision \/ VersionKey(plan[p]) \in Stored.version
     THEN Finish(p, Answer("unique_violation", Null))
     ELSE Goto(p, "commit")
  /\ UNCHANGED tables

\* A committed batch row names its source and capture.
BatchRow(b) == [id |-> b.id, source |-> b.source.id, capture |-> b.capture.id]
RowsInserted(p) == {plan[p].candidates[i] : i \in 1 .. row[p]}

\* insertAuditEvent: a batch is its own target, a decision that of a candidate.
AuditOf(c, r) ==
  [key |-> c.key, scope |-> c.kind,
   target |-> IF c.kind = "propose" THEN r.id ELSE r.candidate,
   version |-> IF c.kind = "propose" THEN 1 ELSE r.version]

\* The audit event, the completion of the idempotency record, and COMMIT.
Commit(p) ==
  /\ pc[p] = "commit"
  /\ IF cmd[p].kind = "propose"
     THEN /\ sources' = sources \cup If(Held(p).source # {}, {plan[p].source})
          /\ captures' = captures \cup If(Held(p).capture # {}, {plan[p].capture})
          /\ batches' = batches \cup {BatchRow(plan[p])}
          /\ candidates' = candidates \cup RowsInserted(p)
          /\ UNCHANGED decisions
     ELSE /\ decisions' = decisions \cup {plan[p]}
          /\ UNCHANGED <<sources, captures, batches, candidates>>
  /\ records' = records \cup
       {[scope |-> cmd[p].kind, key |-> cmd[p].key, hash |-> Hash(p),
         status |-> "succeeded", ref |-> plan[p].id]}
  /\ audit' = audit \cup {AuditOf(cmd[p], plan[p])}
  /\ Finish(p, Answer("committed", plan[p].id))

-----------------------------------------------------------------------------
Init ==
  /\ sources = {b.source : b \in SeedBatches}
  /\ captures = {b.capture : b \in SeedBatches}
  /\ batches = {BatchRow(b) : b \in SeedBatches}
  /\ candidates = UNION {CandidatesOf(b) : b \in SeedBatches}
  /\ decisions = {}
  /\ records = {[scope |-> "propose", key |-> b.id, hash |-> b, status |-> "succeeded",
                 ref |-> b.id] : b \in SeedBatches}
  /\ audit = {AuditOf([kind |-> "propose", key |-> b.id], b) : b \in SeedBatches}
  /\ pc = [p \in Attempts |-> "idle"]
  /\ cmd = [p \in Attempts |-> Null]
  /\ plan = [p \in Attempts |-> Null]
  /\ row = [p \in Attempts |-> 0]
  /\ reply = [p \in Attempts |-> NoReply]

PersistBatch(p) ==
  EnsureSource(p) \/ EnsureCapture(p) \/ BatchExists(p) \/ InsertBatch(p) \/ InsertCandidate(p)
RecordDecision(p) == CheckDecision(p) \/ InsertDecision(p)

Quiescent == (\A p \in Attempts : pc[p] = "done") /\ UNCHANGED vars

Next ==
  \/ \E p \in Attempts :
       \/ \E c \in Commands : Begin(p, c)
       \/ Extract(p) \/ Claim(p) \/ PersistBatch(p) \/ RecordDecision(p) \/ Commit(p)
       \/ DeadlockVictim(p)
       \/ Crash(p)
  \/ Quiescent

Spec == Init /\ [][Next]_vars

-----------------------------------------------------------------------------
(* Properties.                                                             *)

Steps == {"idle", "extract", "done"} \cup Working

\* Every table keeps its primary key and its foreign keys, and a running
\* attempt has the rows its step works on.
TypeOK ==
  /\ \A rows \in {sources, captures, batches, candidates, decisions} : UniqueIds(rows)
  /\ \A c \in captures : c.source \in Ids(sources)
  /\ \A b \in batches : \E c \in captures : c.id = b.capture /\ c.source = b.source
  /\ \A k \in candidates : k.batch \in Ids(batches)
  /\ \A d \in decisions : d.candidate \in Ids(candidates)
  /\ \A r, s \in records : r.scope = s.scope /\ r.key = s.key => r = s
  /\ pc \in [Attempts -> Steps]
  /\ cmd \in [Attempts -> Commands \cup {Null}]
  /\ plan \in [Attempts -> Batch \cup Decision \cup {Null}] /\ row \in [Attempts -> Nat]
  /\ \A p \in Attempts :
       /\ plan[p] = Null <=> pc[p] \in {"idle", "extract", "done"}
       /\ IF Proposing(p) /\ pc[p] \in PastBatch
          THEN row[p] \in 0 .. Len(plan[p].candidates) ELSE row[p] = 0

\* A proposal graph is stored as one thing, under one key, with one audit event:
\* whatever crashed or collided, there is no capture without its batch, no batch
\* without all of its candidates, and no decision without its record (BRN-002B).
AllOrNothing ==
  LET stored(scope) == {r.hash : r \in {x \in records : x.scope = scope}} IN
  /\ sources = {b.source : b \in stored("propose")}
  /\ captures = {b.capture : b \in stored("propose")}
  /\ batches = {BatchRow(b) : b \in stored("propose")}
  /\ candidates = UNION {CandidatesOf(b) : b \in stored("propose")}
  /\ decisions = stored("decide")
  /\ audit = {AuditOf([kind |-> r.scope, key |-> r.key], r.hash) : r \in records}
  /\ \A r, s \in records : r.scope = s.scope /\ r.hash.id = s.hash.id => r = s

\* What a stored candidate says of its origin holds of the stored rows, although
\* a source or capture may have been stored first by another batch: the capture
\* came after the owner's approval, from the approved origin or reference, within
\* the size limit, and a booking route says nothing the provider owns (BRN-002A).
ProvenanceHolds ==
  \A k \in candidates : \E s \in sources, c \in captures :
    /\ s.id = k.source /\ c.id = k.capture /\ c.source = s.id /\ c.kind = s.kind
    /\ c.capturedAt >= s.approvedAt
    /\ c.bytes \in 1 .. MaxBytes
    /\ s.kind = "business_website" => c.origin = s.origin
    /\ s.kind = "booking_route_metadata" =>
         c.reference = s.reference /\ k.field \notin ProviderOwned

\* The decisions of a candidate are numbered without a gap, however many owners
\* decide at once and although nothing is locked (BRN-002B: optimistic,
\* append-only versions).
DecisionHistory ==
  \A k \in Ids(candidates) :
    LET of == {d \in decisions : d.candidate = k} IN
    {d.version : d \in of} = 1 .. Cardinality(of)

\* An attempt is told success exactly when its own request is stored under its
\* key: a retry is never refused what its first attempt did, even when later
\* decisions have moved the history on, and no other request is passed off as it.
TruthfulAnswers ==
  [][\A p \in Attempts :
       pc'[p] = "done" /\ pc[p] # "done"
         /\ reply'[p].outcome \notin {"denied", "failed", "crashed"} =>
       /\ reply'[p].outcome \in {"committed", "replayed"} <=>
            \E r \in records' : r.scope = cmd[p].kind /\ r.key = cmd[p].key /\ r.hash = plan[p]
       /\ reply'[p].ref \in {plan[p].id, Null}]_vars

\* A decision on a version that another decision has taken is refused with the
\* code version_conflict (source-proposal.integration.test.ts).
ConflictIsTold ==
  \A p \in Attempts :
    reply[p].outcome = "unique_violation" => cmd[p].kind # "decide"
=============================================================================
