------------------------------ MODULE FactStore ------------------------------
(***************************************************************************)
(* The PostgreSQL tables that fact review and fact reverification share,   *)
(* and what one database transaction may see of another.                   *)
(*                                                                         *)
(* Every repository method runs in one READ COMMITTED transaction          *)
(* (tenant-transaction.ts).  The variables facts, decisions, records and   *)
(* audit hold committed rows only; the rows a running transaction has      *)
(* inserted are a function of its attempt's pc and plan, so a rollback is  *)
(* the attempt leaving its transaction, and a commit publishes all its     *)
(* rows in one step.  A tenant, a workspace and a profile are fixed: every *)
(* key of the schema starts with them.                                     *)
(***************************************************************************)
EXTENDS Integers, FiniteSets

CONSTANTS
  Attempts,       \* server invocations; a retry of a command is another attempt
  Commands,       \* the commands attempts may carry
  Ids,            \* names of rows, of candidates and of idempotency keys
  Fields,         \* field keys of the profile
  TimeSensitive,  \* the fields a freshness rule governs
  Window,         \* FACT_FRESHNESS_WINDOW_DAYS
  DueSoon,        \* FACT_FRESHNESS_DUE_SOON_DAYS
  Times,          \* values the servers' clocks may show (no order between attempts)
  Values,         \* fact values the review accepts
  Candidates,     \* ids of the persisted fact candidates
  CandidateRow,   \* their (immutable) rows
  SeedFacts,      \* approved_fact_version rows present at the start
  Null

ASSUME FreshnessAssumption ==
  /\ TimeSensitive \subseteq Fields
  /\ Times \subseteq Nat
  /\ Window \in Nat /\ DueSoon \in Nat /\ DueSoon < Window

ASSUME NullAssumption == Null \notin Attempts \cup Ids \cup Values \cup Nat

VARIABLES
  facts,      \* approved_fact_version
  decisions,  \* fact_review_decision
  records,    \* idempotency_record
  audit,      \* audit_event
  lock,       \* holder of the advisory lock of each field, or Null
  pc,         \* where each attempt is
  cmd,        \* the command it carries
  now,        \* the clock value it captured when it began
  plan,       \* the rows it intends to insert
  reply       \* what it answers: an outcome and the id of the row it refers to

tables == <<facts, decisions, records, audit>>
vars == <<facts, decisions, records, audit, lock, pc, cmd, now, plan, reply>>

-----------------------------------------------------------------------------
(* Rows.                                                                   *)

\* When a fact of field f verified at t expires: Null for a stable field.
ExpiresAt(f, t) == IF f \in TimeSensitive THEN t + Window ELSE Null

\* Two approved_fact_version rows the primary key or the unique index
\* approved_fact_version_field_version_unique cannot both accept.
FactsClash(r, s) == r.id = s.id \/ (r.field = s.field /\ r.version = s.version)

\* The same for fact_review_decision.
DecisionsClash(d, e) ==
  d.id = e.id \/ (d.candidate = e.candidate /\ d.version = e.version)

\* The highest version of field f (a set of at most one row).
CurrentFacts(f) ==
  {r \in facts : r.field = f /\ \A s \in facts : s.field = f => s.version <= r.version}

\* What a query for the current fact of f returns: its row or Null.
CurrentFact(f) == IF CurrentFacts(f) = {} THEN {Null} ELSE CurrentFacts(f)

VersionOf(cur) == IF cur = Null THEN 0 ELSE cur.version
IdOf(cur) == IF cur = Null THEN Null ELSE cur.id

\* A candidate's latest decision version, as a predicate: v is the highest.
LatestDecision(k, v) ==
  /\ \A d \in decisions : d.candidate = k => d.version <= v
  /\ v = 0 \/ \E d \in decisions : d.candidate = k /\ d.version = v

-----------------------------------------------------------------------------
(* Transactions.                                                           *)

NoReply == [outcome |-> "none", ref |-> Null]
NoPlan == [fact |-> Null, decision |-> Null]
Answer(o, ref) == [outcome |-> o, ref |-> ref]

\* The states of an attempt inside commitReview or commitReverification,
\* after it inserted its idempotency row.
InTransaction(p) == pc[p] \in {"lock", "check", "insert_fact", "insert_decision", "commit"}

\* Rows attempt p has inserted and not committed.
PendingFacts(p) ==
  IF pc[p] \in {"insert_decision", "commit"} /\ plan[p].fact # Null
  THEN {plan[p].fact} ELSE {}
PendingDecisions(p) ==
  IF pc[p] = "commit" /\ plan[p].decision # Null THEN {plan[p].decision} ELSE {}

SameKey(c, d) == c.scope = d.scope /\ c.key = d.key
RecordsFor(c) == {r \in records : SameKey(r, c)}

\* Variant for a mutant: a session-level lock, which the end of the transaction keeps.
StillLocked(p) == lock

\* The attempt ends: its answer is fixed and its transaction-scoped advisory
\* lock is released, whether the transaction committed or rolled back.
Released(p) == [f \in Fields |-> IF lock[f] = p THEN Null ELSE lock[f]]
Finish(p, answer) ==
  /\ pc' = [pc EXCEPT ![p] = "done"]
  /\ reply' = [reply EXCEPT ![p] = answer]
  /\ lock' = Released(p)
  /\ plan' = [plan EXCEPT ![p] = NoPlan]
  /\ UNCHANGED <<cmd, now>>

Goto(p, to) ==
  /\ pc' = [pc EXCEPT ![p] = to]
  /\ UNCHANGED <<lock, cmd, now, plan, reply>>

\* The attempt goes on with the rows it now intends to insert.
Intend(p, to, rows) ==
  /\ pc' = [pc EXCEPT ![p] = to]
  /\ plan' = [plan EXCEPT ![p] = rows]
  /\ UNCHANGED <<lock, cmd, now, reply>>

\* An attempt picks up command c when its server's clock shows t.  The
\* authorization checks read no table; the first query is the look-up of the
\* idempotency record, whose result `answer' stands for (NoReply when it finds none).
Start(p, c, t, answer, next) ==
  /\ pc[p] = "idle"
  /\ cmd' = [cmd EXCEPT ![p] = c]
  /\ now' = [now EXCEPT ![p] = t]
  /\ IF answer # NoReply
     THEN /\ pc' = [pc EXCEPT ![p] = "done"]
          /\ reply' = [reply EXCEPT ![p] = answer]
     ELSE /\ pc' = [pc EXCEPT ![p] = next]
          /\ UNCHANGED reply
  /\ UNCHANGED <<tables, lock, plan>>

\* The session's owner check, with the clock captured on entry.
Authorized(c, t) == c.owner /\ c.sessionExpiresAt > t

\* Variant for a mutant: the request hash of the record is not compared.
ReplayAnyRequest(r, hash) ==
  IF r.status = "in_progress" THEN Answer("in_progress", Null)
  ELSE Answer("replayed", r.ref)

\* What an existing record lets a transaction with this request hash answer.
ReplayAnswer(r, hash) ==
  IF r.hash # hash THEN Answer("idempotency_conflict", Null)
  ELSE IF r.status = "in_progress" THEN Answer("in_progress", Null)
  ELSE Answer("replayed", r.ref)

\* INSERT ... ON CONFLICT DO NOTHING on idempotency_record: it waits for any
\* running transaction that holds the same key, then inserts, or reads the
\* committed row.
Claim(p, hash, next) ==
  /\ pc[p] = "claim"
  /\ \A q \in Attempts \ {p} : InTransaction(q) => ~SameKey(cmd[q], cmd[p])
  /\ \/ /\ RecordsFor(cmd[p]) = {}
        /\ Goto(p, next)
     \/ \E r \in RecordsFor(cmd[p]) : Finish(p, ReplayAnswer(r, hash))
  /\ UNCHANGED tables

\* Variant for a mutant: no unique index on the field and version.
InsertFactAnyVersion(p, next) ==
  /\ pc[p] = "insert_fact"
  /\ IF \E r \in facts : r.id = plan[p].fact.id
     THEN Finish(p, Answer("version_conflict", Null))
     ELSE Goto(p, next)
  /\ UNCHANGED tables

\* INSERT into approved_fact_version: a clashing row of a running transaction
\* is waited for; a committed one is error 23505 and rolls p back.
InsertFact(p, next) ==
  /\ pc[p] = "insert_fact"
  /\ \A q \in Attempts \ {p} : \A r \in PendingFacts(q) : ~FactsClash(r, plan[p].fact)
  /\ IF \E r \in facts : FactsClash(r, plan[p].fact)
     THEN Finish(p, Answer("version_conflict", Null))
     ELSE Goto(p, next)
  /\ UNCHANGED tables

\* The row the claim inserted, completed in the same transaction.
CompletedRecord(c, hash, ref) ==
  [scope |-> c.scope, key |-> c.key, hash |-> hash, status |-> "succeeded", ref |-> ref]

\* The audit insert, the completion of the idempotency record, and COMMIT.
Commit(p, hash, ref) ==
  /\ pc[p] = "commit"
  /\ facts' = facts \cup PendingFacts(p)
  /\ decisions' = decisions \cup PendingDecisions(p)
  /\ audit' = audit \cup {[scope |-> cmd[p].scope, key |-> cmd[p].key, target |-> ref]}
  /\ records' = records \cup {CompletedRecord(cmd[p], hash, ref)}
  /\ Finish(p, Answer("committed", ref))

\* The process or its connection dies: an open transaction is rolled back.
Crash(p) ==
  /\ pc[p] \notin {"idle", "done"}
  /\ Finish(p, Answer("crashed", Null))
  /\ UNCHANGED tables

-----------------------------------------------------------------------------
StoreInit ==
  /\ facts = SeedFacts
  /\ decisions = {}
  /\ records = {}
  /\ audit = {}
  /\ lock = [f \in Fields |-> Null]
  /\ pc = [p \in Attempts |-> "idle"]
  /\ cmd = [p \in Attempts |-> Null]
  /\ now = [p \in Attempts |-> Null]
  /\ plan = [p \in Attempts |-> NoPlan]
  /\ reply = [p \in Attempts |-> NoReply]
=============================================================================
