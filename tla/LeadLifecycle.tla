----------------------------- MODULE LeadLifecycle -----------------------------
(***************************************************************************)
(* Lead lifecycles: the command service, the domain's stage machine and    *)
(* the repository over lead_lifecycle, lead_lifecycle_transition and       *)
(* audit_event.  A command reads the lead in one transaction and moves it  *)
(* in another.  The tables hold committed rows; what a running transaction *)
(* has written is a function of its worker's pc, cmd and seen.             *)
(***************************************************************************)
EXTENDS LeadStages

CONSTANT Workers  \* server processes, each handling one command at a time

VARIABLES
  leads,       \* lead_lifecycle: the row of each lead, or Null
  transitions, \* lead_lifecycle_transition
  audit,       \* audit_event, as far as it concerns leads
  pc, cmd,
  expected,    \* what the domain computed from the row the service read
  seen,        \* the row the repository's transaction read
  reply        \* how the worker's last command ended; "none" while one runs

tables == <<leads, transitions, audit>>
vars == <<leads, transitions, audit, pc, cmd, expected, seen, reply>>

-----------------------------------------------------------------------------
(* Control.                                                                *)

Goto(w, to) == pc' = [pc EXCEPT ![w] = to]

\* The command ends; its transaction, if it runs, commits or rolls back.
Finish(w, outcome) ==
  /\ pc' = [pc EXCEPT ![w] = "idle"]
  /\ reply' = [reply EXCEPT ![w] = outcome]
  /\ cmd' = [cmd EXCEPT ![w] = Null]
  /\ expected' = [expected EXCEPT ![w] = Null]
  /\ seen' = [seen EXCEPT ![w] = Null]

\* Another transaction has written the lead's row and is still running.
Held(w) == \E q \in Workers \ {w} : pc[q] = "commit" /\ cmd[q].lead = cmd[w].lead

-----------------------------------------------------------------------------
(* The service.                                                            *)

\* assertCommandContext judges the session at the time the command states.
Begin(w) ==
  /\ pc[w] = "idle"
  /\ \E c \in Commands :
       IF c.sessionExpiresAt <= c.at
       THEN Finish(w, "denied")
       ELSE /\ Goto(w, IF c.kind = "create" THEN "insert" ELSE "read")
            /\ cmd' = [cmd EXCEPT ![w] = c]
            /\ expected' = [expected EXCEPT ![w] = IF c.kind = "create" THEN NewLead(c) ELSE Null]
            /\ reply' = [reply EXCEPT ![w] = "none"]
            /\ UNCHANGED seen
  /\ UNCHANGED tables

\* findById, the service's version check and the domain's decision.
Read(w) ==
  LET row == leads[cmd[w].lead] IN
  /\ pc[w] = "read"
  /\ \/ row = Null /\ Finish(w, "not_found")
     \/ row # Null /\ row.version # cmd[w].expectedVersion /\ Finish(w, "version_conflict")
     \/ /\ row # Null /\ row.version = cmd[w].expectedVersion
        /\ IF Acceptable(row, cmd[w])
           THEN /\ Goto(w, "select")
                /\ expected' = [expected EXCEPT ![w] = Moved(row, cmd[w])]
                /\ UNCHANGED <<cmd, seen, reply>>
           ELSE Finish(w, "refused")
  /\ UNCHANGED tables

-----------------------------------------------------------------------------
(* The repository.                                                         *)

\* Variant for a mutant: an existing lead is opened again.
UpsertLead(w) ==
  /\ pc[w] = "insert" /\ ~Held(w)
  /\ Goto(w, "commit")
  /\ UNCHANGED <<tables, cmd, expected, seen, reply>>

\* create: INSERT under the primary key, which waits for a running insert.
InsertLead(w) ==
  /\ pc[w] = "insert" /\ ~Held(w)
  /\ IF leads[cmd[w].lead] = Null
     THEN Goto(w, "commit") /\ UNCHANGED <<cmd, expected, seen, reply>>
     ELSE Finish(w, "already_exists")
  /\ UNCHANGED tables

\* transition: SELECT in a new transaction, and every check once more.
Select(w) ==
  LET row == leads[cmd[w].lead] IN
  /\ pc[w] = "select"
  /\ IF row.version # cmd[w].expectedVersion
     THEN Finish(w, "version_conflict")
     ELSE IF cmd[w].at < row.updatedAt \/ ~CanTransition(row.stage, cmd[w].to)
     THEN Finish(w, "refused")
     ELSE /\ Goto(w, "update")
          /\ seen' = [seen EXCEPT ![w] = row]
          /\ UNCHANGED <<cmd, expected, reply>>
  /\ UNCHANGED tables

\* Variant for a mutant: the update names the lead alone.
MatchesAnyVersion(w, row) == TRUE

\* The WHERE clause of the update, on the row as it is when its lock is free.
Matches(w, row) == row.version = cmd[w].expectedVersion /\ row.stage = seen[w].stage

\* The trigger lead_lifecycle_validate_update.
TriggerAccepts(old, new) ==
  new.version = old.version + 1 /\ new.stage # old.stage /\ old.updatedAt <= new.updatedAt

Update(w) ==
  LET row == leads[cmd[w].lead] IN
  /\ pc[w] = "update" /\ ~Held(w)
  /\ IF ~Matches(w, row)
     THEN Finish(w, "version_conflict")
     ELSE IF TriggerAccepts(row, Written(seen[w], cmd[w]))
     THEN Goto(w, "commit") /\ UNCHANGED <<cmd, expected, seen, reply>>
     ELSE Finish(w, "database_error")
  /\ UNCHANGED tables

\* The rest of both transactions: the transition row, the audit event, COMMIT.
Commit(w) ==
  LET c == cmd[w] IN
  /\ pc[w] = "commit"
  /\ leads' = [leads EXCEPT ![c.lead] = Written(seen[w], c)]
  /\ transitions' = transitions \cup {TransitionRow(seen[w], c)}
  /\ audit' = audit \cup {AuditRow(Cardinality(audit) + 1, seen[w], c)}
  /\ Goto(w, "answer")
  /\ UNCHANGED <<cmd, expected, seen, reply>>

\* What the service compares of the returned row with its expectation.
Consistent(w) ==
  LET row == Written(seen[w], cmd[w]) IN
  /\ row.stage = expected[w].stage /\ row.version = expected[w].version
  /\ row.updatedAt = expected[w].updatedAt

AnswerCommand(w) ==
  /\ pc[w] = "answer"
  /\ Finish(w, IF Consistent(w) THEN "committed" ELSE "inconsistent")
  /\ UNCHANGED tables

\* The process or its connection dies, at any point of a command.
Crash(w) ==
  /\ pc[w] # "idle"
  /\ Finish(w, "crashed")
  /\ UNCHANGED tables

-----------------------------------------------------------------------------
Init ==
  /\ leads = [l \in Leads |-> Null]
  /\ transitions = {}
  /\ audit = {}
  /\ pc = [w \in Workers |-> "idle"]
  /\ cmd = [w \in Workers |-> Null]
  /\ expected = [w \in Workers |-> Null]
  /\ seen = [w \in Workers |-> Null]
  /\ reply = [w \in Workers |-> "none"]

Step(w) ==
  \/ Begin(w) \/ Read(w) \/ InsertLead(w) \/ Select(w) \/ Update(w) \/ Commit(w)
  \/ AnswerCommand(w) \/ Crash(w)

Next == \E w \in Workers : Step(w)

Spec == Init /\ [][Next]_vars
-----------------------------------------------------------------------------
(* Properties.                                                             *)

Outcomes == {"none", "denied", "not_found", "version_conflict", "refused", "already_exists",
             "committed", "crashed", "database_error", "inconsistent"}

\* The tables keep their column types and the shape constraint of a lead's
\* first transition.
TypeOK ==
  /\ leads \in [Leads -> LeadRow \cup {Null}]
  /\ transitions \subseteq
       [lead : Leads, version : Nat \ {0}, from : Stages \cup {Null}, to : Stages,
        reason : BOOLEAN, at : Nat]
  /\ \A t \in transitions : (t.version = 1) = (t.from = Null) /\ (t.from = Null => t.to = "new")
  /\ audit \subseteq [id : Nat, lead : Leads, version : Nat \ {0}, key : STRING]
  /\ pc \in [Workers -> {"idle", "insert", "read", "select", "update", "commit", "answer"}]
  /\ cmd \in [Workers -> Commands \cup {Null}]
  /\ expected \in [Workers -> LeadRow \cup {Null}]
  /\ seen \in [Workers -> LeadRow \cup {Null}]
  /\ reply \in [Workers -> Outcomes]

\* The transition rows of l with this version.
At(l, v) == {t \in transitions : t.lead = l /\ t.version = v}

\* Version v of lead l is in the history: one transition, which starts where the
\* one before it ended and no earlier, and one audit event.
Recorded(l, v) ==
  \E t \in transitions :
    /\ At(l, v) = {t}
    /\ Cardinality({a \in audit : a.lead = l /\ a.version = v}) = 1
    /\ v > 1 => \E s \in At(l, v - 1) : s.to = t.from /\ s.at <= t.at
    /\ v = 1 => t.at = leads[l].openedAt
    /\ v = leads[l].version => t.to = leads[l].stage /\ t.at = leads[l].updatedAt

\* The row of a lead and its append-only history never disagree: every version
\* up to the row's is recorded and no other, the last one as the row is.
HistoryMatches ==
  \A l \in Leads :
    IF leads[l] = Null THEN \A t \in transitions : t.lead # l
    ELSE /\ \A t \in transitions : t.lead = l => t.version <= leads[l].version
         /\ \A v \in 1 .. leads[l].version : Recorded(l, v)

\* However stale the row a command was decided on, the two transactions and the
\* checks they repeat amount to one atomic step: row, transition and audit event
\* are those of a command that found the lead as it then was, no update is
\* overwritten, a refusal was true when it was given, and nothing is left to
\* the update trigger or to the service's check of what was committed.
Ledger == INSTANCE LeadLedger WITH
  done <- [w \in Workers |-> pc[w] = "answer"],
  told <- reply

ImplementsLedger == Ledger!Spec

\* A command sent again never takes effect twice, although its idempotency key
\* is written to the audit trail and never looked up.
RetryTakesEffectOnce ==
  \A a, b \in audit : a.key = b.key => a = b

\* No lead is converted that was not confirmed for its latest booking, and the
\* reasons a missed or closed lead needs are on record, whatever detours
\* through rebooking and follow-up it took.
ConvertedWasConfirmed ==
  \A t \in transitions :
    /\ t.to \in ReasonRequired => t.reason
    /\ t.to = "converted" =>
         \E s \in transitions :
           /\ s.lead = t.lead /\ s.version < t.version /\ s.to = "booking_confirmed"
           /\ \A u \in transitions :
                u.lead = t.lead /\ u.to = "booking_proposed" /\ u.version < t.version =>
                  u.version < s.version
=============================================================================
