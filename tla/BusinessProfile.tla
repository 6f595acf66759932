---------------------------- MODULE BusinessProfile ----------------------------
(***************************************************************************)
(* The draft of one business profile: the draft service, the domain's      *)
(* revisions under a versioned playbook, and the repository over           *)
(* business_profile_draft, business_profile_draft_version and the          *)
(* idempotency records.  The variables of the tables hold committed rows;  *)
(* what a running transaction wrote is a function of its pc and plan.      *)
(***************************************************************************)
EXTENDS ProfileDraft

CONSTANTS
  Attempts,  \* server invocations; a retry is another attempt
  Commands,
  Times      \* values the servers' clocks may show

VARIABLES
  draft,     \* business_profile_draft: the row, or Null
  versions,  \* business_profile_draft_version
  records,   \* idempotency_record
  audit,     \* audit_event
  pc, cmd, now,
  plan,      \* the draft the domain produced, and the keys it changes
  reply

tables == <<draft, versions, records, audit>>
vars == <<draft, versions, records, audit, pc, cmd, now, plan, reply>>

-----------------------------------------------------------------------------
(* Commands and drafts.                                                    *)

\* allowed is what the authorization port decides; a creation expects version 0.
Command ==
  [kind : {"create", "revise"}, expectedVersion : Nat, changes : ChangeMaps,
   playbook : Playbooks, key : STRING, allowed : BOOLEAN]

ASSUME TimeAssumption == Times \subseteq Nat
ASSUME CommandAssumption ==
  /\ Commands \subseteq Command
  /\ Null \notin Commands
  /\ \A c \in Commands : c.kind = "create" => c.expectedVersion = 0 /\ c.changes \in ValueMaps

\* mapDraftRow: the playbook of the result is the caller's, not the row's.
Restored(row, c) == [row EXCEPT !.playbook = c.playbook]

\* changedKeys: the keys the audit event names.
ChangedKeys(old, new) ==
  {f \in DOMAIN old \cup DOMAIN new :
     f \notin DOMAIN old \/ f \notin DOMAIN new \/ old[f] # new[f]}

\* What hashRequest covers: the draft with its timestamps, and the version expected.
Hash(p) == [draft |-> plan[p].draft, expected |-> cmd[p].expectedVersion]

-----------------------------------------------------------------------------
(* Control.                                                                *)

NoPlan == [draft |-> Null, changed |-> {}]
NoReply == [outcome |-> "none", version |-> 0]

Finish(p, outcome, version) ==
  /\ pc' = [pc EXCEPT ![p] = "done"]
  /\ reply' = [reply EXCEPT ![p] = [outcome |-> outcome, version |-> version]]
  /\ plan' = [plan EXCEPT ![p] = NoPlan]
  /\ UNCHANGED <<cmd, now>>
Fail(p, outcome) == Finish(p, outcome, 0)

Intend(p, to, d, changed) ==
  /\ pc' = [pc EXCEPT ![p] = to]
  /\ plan' = [plan EXCEPT ![p] = [draft |-> d, changed |-> changed]]
  /\ UNCHANGED <<cmd, now, reply>>

InTransaction(p) == pc[p] \in {"check", "write", "commit"}
SameKey(c, d) == c.kind = d.kind /\ c.key = d.key
RecordsFor(c) == {r \in records : SameKey(r, c)}

\* A running transaction has written the draft's row.
DraftHeld(p) == \E q \in Attempts \ {p} : pc[q] = "commit"

-----------------------------------------------------------------------------
(* The service.                                                            *)

\* create and revise read the clock, then ask the authorization port.
Start(p) ==
  /\ pc[p] = "idle"
  /\ \E c \in Commands, t \in Times :
       /\ cmd' = [cmd EXCEPT ![p] = c]
       /\ now' = [now EXCEPT ![p] = t]
       /\ IF c.allowed
          THEN pc' = [pc EXCEPT ![p] = IF c.kind = "create" THEN "draft" ELSE "find"]
               /\ UNCHANGED reply
          ELSE /\ pc' = [pc EXCEPT ![p] = "done"]
               /\ reply' = [reply EXCEPT ![p] = [outcome |-> "denied", version |-> 0]]
  /\ UNCHANGED <<tables, plan>>

\* createBusinessProfileDraft.
DraftProfile(p) ==
  /\ pc[p] = "draft"
  /\ IF Known(cmd[p].changes, cmd[p].playbook)
     THEN Intend(p, "claim", NewDraft(cmd[p], now[p]), {})
     ELSE Fail(p, "refused")
  /\ UNCHANGED tables

\* findById in a transaction of its own, then reviseBusinessProfileDraft.
FindDraft(p) ==
  LET current == Restored(draft, cmd[p]) IN
  /\ pc[p] = "find"
  /\ \/ draft = Null /\ Fail(p, "not_found")
     \/ /\ draft # Null
        /\ IF ~Known(current.values, cmd[p].playbook) THEN Fail(p, "refused")
           ELSE IF current.version # cmd[p].expectedVersion THEN Fail(p, "version_conflict")
           ELSE IF Revisable(current, cmd[p], now[p])
           THEN Intend(p, "claim", Revised(current, cmd[p], now[p]), {})
           ELSE Fail(p, "refused")
  /\ UNCHANGED tables

-----------------------------------------------------------------------------
(* The repository: one transaction.                                        *)

\* The version a succeeded record refers to, when it can be restored.
Replay(p, r) ==
  \E v \in {w \in versions : w.version = r.version} :
    IF Known(v.values, cmd[p].playbook) THEN Finish(p, "replayed", r.version)
    ELSE Fail(p, "refused")

\* Variant for a mutant: the claim never finds an earlier record.
ClaimAgain(p) ==
  /\ pc[p] = "claim"
  /\ Intend(p, "check", plan[p].draft, {})
  /\ UNCHANGED tables

\* claimIdempotency waits for a transaction that inserted the same key.
Claim(p) ==
  /\ pc[p] = "claim"
  /\ \A q \in Attempts \ {p} : InTransaction(q) => ~SameKey(cmd[q], cmd[p])
  /\ \/ RecordsFor(cmd[p]) = {} /\ Intend(p, "check", plan[p].draft, {})
     \/ \E r \in RecordsFor(cmd[p]) :
          IF r.hash = Hash(p) THEN Replay(p, r) ELSE Fail(p, "idempotency_conflict")
  /\ UNCHANGED tables

\* The SELECT of the transaction and what it decides.
Check(p) ==
  LET c == cmd[p] IN
  /\ pc[p] = "check"
  /\ \/ /\ c.kind = "create"
        /\ IF draft = Null THEN Intend(p, "write", plan[p].draft, {})
           ELSE Fail(p, "version_conflict")
     \/ /\ c.kind = "revise"
        /\ IF draft.version = c.expectedVersion /\ plan[p].draft.version = c.expectedVersion + 1
           THEN Intend(p, "write", plan[p].draft, ChangedKeys(draft.values, plan[p].draft.values))
           ELSE Fail(p, "version_conflict")
  /\ UNCHANGED tables

\* Variant for a mutant: the update has no version in its WHERE clause.
MatchesAnyVersion(p) == draft # Null

\* The WHERE clause of the update, on the row as it is when its lock is free.
VersionMatches(p) == draft.version = cmd[p].expectedVersion

\* INSERT of the row; a second creation gets the driver's error as it is.
WriteCreated(p) ==
  /\ cmd[p].kind = "create"
  /\ IF draft = Null THEN Intend(p, "commit", plan[p].draft, plan[p].changed)
     ELSE Fail(p, "database_error")

\* UPDATE of the row, then INSERT of the version row under its unique index.
WriteRevised(p) ==
  /\ cmd[p].kind = "revise"
  /\ IF ~VersionMatches(p) THEN Fail(p, "version_conflict")
     ELSE IF \E v \in versions : v.version = plan[p].draft.version
     THEN Fail(p, "database_error")
     ELSE Intend(p, "commit", plan[p].draft, plan[p].changed)

Write(p) ==
  /\ pc[p] = "write" /\ ~DraftHeld(p)
  /\ WriteCreated(p) \/ WriteRevised(p)
  /\ UNCHANGED tables

\* Variant for a mutant: the history keeps the changes, not the draft.
PatchRow(d, c) ==
  [playbook |-> d.playbook, values |-> Replaced(d.values, c.changes), version |-> d.version,
   key |-> c.key, createdAt |-> d.createdAt, occurredAt |-> d.updatedAt]

VersionRow(d, c) ==
  [playbook |-> d.playbook, values |-> d.values, version |-> d.version,
   key |-> c.key, createdAt |-> d.createdAt, occurredAt |-> d.updatedAt]

\* The row the update leaves: values, version and time are set, nothing else.
Stored(p) ==
  IF cmd[p].kind = "create" THEN plan[p].draft
  ELSE [draft EXCEPT !.values = plan[p].draft.values, !.version = plan[p].draft.version,
                     !.updatedAt = plan[p].draft.updatedAt]

\* The audit event, the completed idempotency record, and COMMIT.
Commit(p) ==
  LET d == plan[p].draft IN
  /\ pc[p] = "commit"
  /\ draft' = Stored(p)
  /\ versions' = versions \cup {VersionRow(d, cmd[p])}
  /\ audit' = audit \cup {[version |-> d.version, key |-> cmd[p].key, changed |-> plan[p].changed]}
  /\ records' = records \cup {[kind |-> cmd[p].kind, key |-> cmd[p].key, hash |-> Hash(p),
                               version |-> d.version]}
  /\ Finish(p, "committed", d.version)

Crash(p) ==
  /\ pc[p] \notin {"idle", "done"}
  /\ Fail(p, "crashed")
  /\ UNCHANGED tables

-----------------------------------------------------------------------------
Init ==
  /\ draft = Null
  /\ versions = {} /\ records = {} /\ audit = {}
  /\ pc = [p \in Attempts |-> "idle"]
  /\ cmd = [p \in Attempts |-> Null]
  /\ now = [p \in Attempts |-> Null]
  /\ plan = [p \in Attempts |-> NoPlan]
  /\ reply = [p \in Attempts |-> NoReply]

Step(p) ==
  \/ Start(p) \/ DraftProfile(p) \/ FindDraft(p)
  \/ Claim(p) \/ Check(p) \/ Write(p) \/ Commit(p)
  \/ Crash(p)

Quiescent == (\A p \in Attempts : pc[p] = "done") /\ UNCHANGED vars

Next == (\E p \in Attempts : Step(p)) \/ Quiescent

Spec == Init /\ [][Next]_vars
-----------------------------------------------------------------------------
(* Properties.                                                             *)

Outcomes == {"none", "denied", "refused", "not_found", "version_conflict",
             "idempotency_conflict", "replayed", "committed", "database_error", "crashed"}

\* The tables keep their types and their time order, for which the columns have
\* CHECK constraints that never have to fire.
TypeOK ==
  /\ draft \in Draft \cup {Null}
  /\ versions \subseteq
       [playbook : Playbooks, values : ValueMaps, version : Nat \ {0}, key : STRING,
        createdAt : Nat, occurredAt : Nat]
  /\ \A v \in versions : v.createdAt <= v.occurredAt
  /\ records \subseteq
       [kind : {"create", "revise"}, key : STRING, version : Nat \ {0},
        hash : [draft : Draft, expected : Nat]]
  /\ audit \subseteq [version : Nat \ {0}, key : STRING, changed : SUBSET Fields]
  /\ pc \in [Attempts -> {"idle", "draft", "find", "claim", "check", "write", "commit", "done"}]
  /\ cmd \in [Attempts -> Commands \cup {Null}]
  /\ now \in [Attempts -> Times \cup {Null}]
  /\ plan \in [Attempts -> [draft : Draft \cup {Null}, changed : SUBSET Fields]]
  /\ reply \in [Attempts -> [outcome : Outcomes, version : Nat]]

\* The draft is the last of its versions, which are gap-free, differ only as
\* time goes on, and all name the creation of the same draft.
DraftIsLastVersion ==
  IF draft = Null THEN versions = {}
  ELSE /\ \A v \in versions : v.version <= draft.version /\ v.createdAt = draft.createdAt
       /\ \A n \in 1 .. draft.version : \E v \in versions :
            /\ v.version = n
            /\ \A w \in versions : w.version = n => w = v
            /\ \A w \in versions : w.version = n - 1 => w.occurredAt <= v.occurredAt
            /\ n = draft.version => v.values = draft.values /\ v.occurredAt = draft.updatedAt

\* Concurrent owners never overwrite each other's fields: a revision differs
\* from the version before it in exactly the fields its command changed.
NoLostChange ==
  \A p \in Attempts :
    reply[p].outcome = "committed" /\ cmd[p].kind = "revise" =>
      \E v, w \in versions :
        /\ v.version = cmd[p].expectedVersion /\ w.version = v.version + 1
        /\ w.key = cmd[p].key
        /\ \A f \in Fields :
             FieldValue(w, f) = IF f \in DOMAIN cmd[p].changes THEN cmd[p].changes[f]
                                ELSE FieldValue(v, f)

\* The keys an audit event names are those in which the two versions differ,
\* although they are computed before the update that may wait for another.
AuditTellsChanges ==
  \A a \in audit : \A v, w \in versions :
    w.version = a.version /\ v.version = a.version - 1 =>
      a.changed = {f \in Fields : FieldValue(v, f) # FieldValue(w, f)}

\* Each key makes one version and each version is owed to one key; whoever is
\* told a version was made or replayed is told the one its key made.
AcceptedOnce ==
  /\ \A r, s \in records : SameKey(r, s) \/ r.version = s.version => r = s
  /\ \A v \in versions : \E r \in records :
       r.version = v.version /\ r.key = v.key /\ r.hash.draft.values = v.values
  /\ \A p \in Attempts : reply[p].outcome \in {"committed", "replayed"} =>
       \E r \in RecordsFor(cmd[p]) : r.version = reply[p].version

\* The service, its transactions and its crashes implement an atomic register of
\* the draft: what is written is what one command makes of the draft as it then
\* was, each refusal is true when it is given, and neither the unique key of the
\* versions nor the restoring of a replayed version ever fails.
Ledger == INSTANCE DraftLedger WITH
  used <- {[use |-> <<r.kind, r.key>>, version |-> r.version] : r \in records},
  told <- reply

ImplementsLedger == Ledger!Spec

\* What the execution record says of BRN-001B: commands are replayed
\* idempotently.  The service's request hash covers the clock, and a revision
\* checks the version before it looks its key up, so the retry of a committed
\* command is told a conflict.
RetryReplays ==
  [][\A p, q \in Attempts :
       reply[q].outcome = "committed" /\ cmd[p] = cmd[q] /\ pc[p] \notin {"idle", "done"} =>
         reply'[p].outcome \notin {"idempotency_conflict", "version_conflict"}]_vars

\* What assertDraftMatchesPlaybook is for: a draft is only revised under the
\* playbook version it belongs to.  The repository restores a row under the
\* playbook of the caller, so the test compares the caller with itself.
PlaybookKept ==
  \A v \in versions : v.playbook = draft.playbook
=============================================================================
