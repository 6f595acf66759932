----------------------------- MODULE ProfileProofs -----------------------------
(***************************************************************************)
(* Theorems about the draft of a business profile: its history, its audit  *)
(* trail and its answers, for every set of attempts, commands, playbooks   *)
(* and clock values.                                                       *)
(***************************************************************************)
EXTENDS BusinessProfile, TLAPS

-----------------------------------------------------------------------------
(* The inductive invariant.                                                *)

Begun(p) == IF pc[p] = "idle" THEN cmd[p] = Null ELSE cmd[p] \in Commands /\ now[p] \in Times

\* An attempt that has not ended has told nothing.
Unanswered(p) == pc[p] # "done" => reply[p] = NoReply

\* What a revision makes of version v, whatever the draft is by now.
RevisionOf(v, c, t) ==
  [playbook |-> c.playbook, values |-> Changed(v.values, c.changes), version |-> v.version + 1,
   createdAt |-> v.createdAt, updatedAt |-> t]

\* A revision carries the successor of the version its owner saw, of which the
\* caller's playbook declares every field, and once it has been checked, the keys
\* in which the two differ.
RevisionFits(p) ==
  \E v \in versions :
    /\ v.version = cmd[p].expectedVersion /\ v.occurredAt <= now[p]
    /\ Known(v.values, cmd[p].playbook)
    /\ plan[p].draft = RevisionOf(v, cmd[p], now[p])
    /\ pc[p] \in {"write", "commit"} =>
         plan[p].changed = ChangedKeys(v.values, plan[p].draft.values)

Planned == {"claim", "check", "write", "commit"}
PlanFits(p) ==
  /\ pc[p] = "draft" => cmd[p].kind = "create"
  /\ pc[p] = "find" => cmd[p].kind = "revise"
  /\ pc[p] \in Planned =>
       /\ Known(cmd[p].changes, cmd[p].playbook)
       /\ cmd[p].kind = "create" =>
            plan[p].draft = NewDraft(cmd[p], now[p]) /\ plan[p].changed = {}
       /\ cmd[p].kind = "revise" => RevisionFits(p)

\* An attempt that has written the row is alone with it, and has written it on
\* the version it expected.
RowHeld(p) ==
  pc[p] = "commit" =>
    /\ \A q \in Attempts \ {p} : pc[q] # "commit"
    /\ cmd[p].kind = "create" => draft = Null
    /\ cmd[p].kind = "revise" => draft.version = cmd[p].expectedVersion

\* Inside its transaction an attempt is alone with its idempotency key.
KeyHeld(p) ==
  InTransaction(p) =>
    /\ RecordsFor(cmd[p]) = {}
    /\ \A q \in Attempts \ {p} : InTransaction(q) => ~SameKey(cmd[q], cmd[p])

AttemptInv(p) == Begun(p) /\ Unanswered(p) /\ PlanFits(p) /\ RowHeld(p) /\ KeyHeld(p)

\* Every record and every audit event is of a version in the history; a record's
\* hash is of a request for that version.
Recorded ==
  /\ \A r \in records : \E v \in versions :
       /\ v.version = r.version /\ v.version = r.hash.draft.version
       /\ v.values = r.hash.draft.values /\ v.occurredAt = r.hash.draft.updatedAt
  /\ \A a \in audit : \E v \in versions : v.version = a.version

DraftInv ==
  /\ TypeOK
  /\ \A p \in Attempts : AttemptInv(p)
  /\ Recorded
  /\ DraftIsLastVersion /\ NoLostChange /\ AuditTellsChanges /\ AcceptedOnce

-----------------------------------------------------------------------------
(* Values, drafts and their types.                                         *)

LEMMA ChangedType ==
  ASSUME NEW values \in ValueMaps, NEW changes \in ChangeMaps
  PROVE  Changed(values, changes) \in ValueMaps
<1> DEFINE D == {g \in DOMAIN values \cup DOMAIN changes : g \in DOMAIN changes => changes[g] # Null}
<1>1. PICK S \in SUBSET Fields : values \in [S -> Values]
  BY DEF ValueMaps
<1>2. PICK T \in SUBSET Fields : changes \in [T -> Values \cup {Null}]
  BY DEF ChangeMaps
<1>3. D \in SUBSET Fields
  BY <1>1, <1>2
<1>4. Changed(values, changes) \in [D -> Values]
  BY <1>1, <1>2 DEF Changed
<1>5. QED BY <1>3, <1>4 DEF ValueMaps

\* The value of a field after the changes.
LEMMA ChangedValue ==
  ASSUME NEW values \in ValueMaps, NEW changes \in ChangeMaps, NEW f
  PROVE  (IF f \in DOMAIN Changed(values, changes) THEN Changed(values, changes)[f] ELSE Null)
           = IF f \in DOMAIN changes THEN changes[f]
             ELSE IF f \in DOMAIN values THEN values[f] ELSE Null
BY DEF Changed

\* The keys that changed are the fields in which two drafts differ.
LEMMA ChangedKeysDiffer ==
  ASSUME NEW v, NEW w, v.values \in ValueMaps, w.values \in ValueMaps
  PROVE  ChangedKeys(v.values, w.values) = {f \in Fields : FieldValue(v, f) # FieldValue(w, f)}
<1>1. PICK S \in SUBSET Fields : v.values \in [S -> Values]
  BY DEF ValueMaps
<1>2. PICK T \in SUBSET Fields : w.values \in [T -> Values]
  BY DEF ValueMaps
<1>3. \A f \in S : v.values[f] # Null
  BY <1>1, ValueAssumption
<1>4. \A f \in T : w.values[f] # Null
  BY <1>2, ValueAssumption
<1>5. QED BY <1>1, <1>2, <1>3, <1>4 DEF ChangedKeys, FieldValue

LEMMA NewDraftType ==
  ASSUME NEW c \in Commands, c.kind = "create", NEW t \in Nat
  PROVE  /\ NewDraft(c, t) \in Draft
         /\ NewDraft(c, t).version = 1 /\ NewDraft(c, t).values = c.changes
         /\ NewDraft(c, t).createdAt = t /\ NewDraft(c, t).updatedAt = t
BY CommandAssumption DEF NewDraft, Draft, Command

VersionRows ==
  [playbook : Playbooks, values : ValueMaps, version : Nat \ {0}, key : STRING,
   createdAt : Nat, occurredAt : Nat]

LEMMA RevisionType ==
  ASSUME NEW v \in VersionRows, NEW c \in Commands, NEW t \in Nat
  PROVE  RevisionOf(v, c, t) \in Draft
<1>1. c.changes \in ChangeMaps /\ c.playbook \in Playbooks
  BY CommandAssumption DEF Command
<1>2. v.values \in ValueMaps /\ v.version + 1 \in Nat \ {0} /\ v.createdAt \in Nat
  BY DEF VersionRows
<1>3. Changed(v.values, c.changes) \in ValueMaps
  BY <1>1, <1>2, ChangedType
<1>4. QED BY <1>1, <1>2, <1>3 DEF RevisionOf, Draft

\* The versions have unique numbers, from 1 to the draft's.
LEMMA OneVersion ==
  ASSUME TypeOK, DraftIsLastVersion, NEW v \in versions, NEW w \in versions
  PROVE  /\ draft # Null /\ draft \in Draft
         /\ v.version \in 1 .. draft.version /\ v.createdAt = draft.createdAt
         /\ v.version = w.version => v = w
         /\ v.version + 1 = w.version => v.occurredAt <= w.occurredAt
         /\ v.version = draft.version => v.values = draft.values /\ v.occurredAt = draft.updatedAt
<1>1. draft # Null /\ draft \in Draft /\ draft.version \in Nat
  BY DEF TypeOK, DraftIsLastVersion, Draft
<1>2. /\ v.version \in Nat \ {0} /\ v.version <= draft.version /\ v.createdAt = draft.createdAt
      /\ w.version \in Nat \ {0} /\ w.version <= draft.version
  BY <1>1 DEF TypeOK, DraftIsLastVersion
<1>3. v.version \in 1 .. draft.version /\ w.version \in 1 .. draft.version
  BY <1>1, <1>2
<1>4. \A n \in 1 .. draft.version : \E x \in versions :
        /\ x.version = n
        /\ \A y \in versions : y.version = n => y = x
        /\ \A y \in versions : y.version = n - 1 => y.occurredAt <= x.occurredAt
        /\ n = draft.version => x.values = draft.values /\ x.occurredAt = draft.updatedAt
  BY <1>1 DEF DraftIsLastVersion
<1>5. PICK x \in versions :
        /\ \A y \in versions : y.version = v.version => y = x
        /\ v.version = draft.version => x.values = draft.values /\ x.occurredAt = draft.updatedAt
  BY <1>3, <1>4
<1>6. PICK z \in versions :
        /\ \A y \in versions : y.version = w.version => y = z
        /\ \A y \in versions : y.version = w.version - 1 => y.occurredAt <= z.occurredAt
  BY <1>3, <1>4
<1>7. v.version + 1 = w.version => v.version = w.version - 1
  BY <1>2
<1>8. QED BY <1>1, <1>2, <1>3, <1>5, <1>6, <1>7

\* What a planned attempt intends to write.
LEMMA PlannedDraft ==
  ASSUME TypeOK, NEW p \in Attempts, AttemptInv(p), pc[p] \in Planned
  PROVE  /\ cmd[p] \in Commands /\ cmd[p] \in Command /\ now[p] \in Nat
         /\ cmd[p].kind \in {"create", "revise"} /\ cmd[p].expectedVersion \in Nat
         /\ plan[p].draft \in Draft /\ plan[p].draft.updatedAt = now[p]
         /\ plan[p].draft.version = cmd[p].expectedVersion + 1
         /\ plan[p].draft.createdAt <= plan[p].draft.updatedAt
<1>1. /\ cmd[p] \in Commands /\ now[p] \in Nat /\ cmd[p] \in Command
      /\ cmd[p].kind \in {"create", "revise"} /\ cmd[p].expectedVersion \in Nat
  BY CommandAssumption, TimeAssumption DEF AttemptInv, Begun, Planned, Command
<1>2. CASE cmd[p].kind = "create"
  BY <1>1, <1>2, NewDraftType, CommandAssumption DEF AttemptInv, PlanFits
<1>3. CASE cmd[p].kind = "revise"
  <2>1. PICK v \in versions :
          /\ v.version = cmd[p].expectedVersion /\ v.occurredAt <= now[p]
          /\ plan[p].draft = RevisionOf(v, cmd[p], now[p])
    BY <1>3 DEF AttemptInv, PlanFits, RevisionFits
  <2>2. v \in VersionRows /\ v.createdAt <= v.occurredAt
    BY DEF TypeOK, VersionRows
  <2>3. RevisionOf(v, cmd[p], now[p]) \in Draft
    BY <1>1, <2>2, RevisionType
  <2>4. v.createdAt <= now[p]
    BY <1>1, <2>1, <2>2 DEF VersionRows
  <2>5. QED BY <1>1, <2>1, <2>3, <2>4 DEF RevisionOf
<1>4. QED BY <1>1, <1>2, <1>3

-----------------------------------------------------------------------------
(* Steps that change no table.                                             *)

Places == {"idle", "draft", "find", "claim", "check", "write", "commit", "done"}

OthersKept(p) ==
  \A q \in Attempts \ {p} :
    /\ pc'[q] = pc[q] /\ cmd'[q] = cmd[q] /\ now'[q] = now[q]
    /\ plan'[q] = plan[q] /\ reply'[q] = reply[q]

LEMMA FinishType ==
  ASSUME TypeOK, NEW p \in Attempts, UNCHANGED tables,
         NEW o \in Outcomes, NEW n \in Nat, Finish(p, o, n)
  PROVE  /\ TypeOK' /\ OthersKept(p)
         /\ pc'[p] = "done" /\ reply'[p] = [outcome |-> o, version |-> n] /\ cmd' = cmd /\ now' = now
<1> USE DEF TypeOK, Finish, NoPlan, tables
<1>1. /\ pc' \in [Attempts -> Places] /\ plan' \in [Attempts -> [draft : Draft \cup {Null}, changed : SUBSET Fields]]
  BY DEF Places
<1>2. reply' \in [Attempts -> [outcome : Outcomes, version : Nat]]
  OBVIOUS
<1>3. OthersKept(p)
  BY DEF OthersKept
<1>4. QED BY <1>1, <1>2, <1>3 DEF Places

LEMMA IntendType ==
  ASSUME TypeOK, NEW p \in Attempts, UNCHANGED tables, NEW to \in Places,
         NEW d \in Draft, NEW changed \in SUBSET Fields, Intend(p, to, d, changed)
  PROVE  /\ TypeOK' /\ OthersKept(p)
         /\ pc'[p] = to /\ plan'[p] = [draft |-> d, changed |-> changed]
         /\ reply' = reply /\ cmd' = cmd /\ now' = now
<1> USE DEF TypeOK, Intend, tables
<1>1. /\ pc' \in [Attempts -> Places] /\ plan' \in [Attempts -> [draft : Draft \cup {Null}, changed : SUBSET Fields]]
  BY DEF Places
<1>2. OthersKept(p)
  BY DEF OthersKept
<1>3. QED BY <1>1, <1>2 DEF Places

\* What p was told of a version is on record.
Truthful(p) ==
  reply[p].outcome \in {"committed", "replayed"} =>
    \E r \in RecordsFor(cmd[p]) : r.version = reply[p].version

\* While no table changes, what holds of p's own state holds for all.
LEMMA QuietStep ==
  ASSUME DraftInv, NEW p \in Attempts, OthersKept(p), UNCHANGED tables,
         TypeOK', AttemptInv(p)', Truthful(p)', reply'[p].outcome # "committed"
  PROVE  DraftInv'
<1> USE DEF tables
<1>1. ASSUME NEW q \in Attempts \ {p} PROVE AttemptInv(q)'
  <2>0. AttemptInv(q)
    BY DEF DraftInv
  <2>1. /\ pc'[q] = pc[q] /\ cmd'[q] = cmd[q] /\ now'[q] = now[q]
        /\ plan'[q] = plan[q] /\ reply'[q] = reply[q]
    BY DEF OthersKept
  <2>2. Begun(q)' /\ Unanswered(q)' /\ PlanFits(q)'
    BY <2>0, <2>1 DEF AttemptInv, Begun, Unanswered, PlanFits, RevisionFits
  <2>3. RowHeld(q)'
    BY <2>0, <2>1 DEF AttemptInv, RowHeld, OthersKept
  <2>4. KeyHeld(q)'
    BY <2>0, <2>1 DEF AttemptInv, KeyHeld, InTransaction, RecordsFor, SameKey, OthersKept
  <2>5. QED BY <2>2, <2>3, <2>4 DEF AttemptInv
<1>2. Recorded' /\ DraftIsLastVersion' /\ AuditTellsChanges'
  BY DEF DraftInv, Recorded, DraftIsLastVersion, AuditTellsChanges, FieldValue
<1>3. NoLostChange'
  BY DEF DraftInv, NoLostChange, OthersKept, FieldValue
<1>4. AcceptedOnce'
  BY DEF DraftInv, AcceptedOnce, OthersKept, Truthful, RecordsFor
<1>5. QED BY <1>1, <1>2, <1>3, <1>4 DEF DraftInv

\* An attempt that ends without an effect.
LEMMA FinishQuiet ==
  ASSUME DraftInv, NEW p \in Attempts, UNCHANGED tables, pc[p] # "idle",
         NEW o \in Outcomes \ {"committed"}, NEW n \in Nat, Finish(p, o, n),
         o = "replayed" => \E r \in RecordsFor(cmd[p]) : r.version = n
  PROVE  DraftInv'
<1>1. /\ TypeOK' /\ OthersKept(p) /\ cmd' = cmd /\ now' = now
      /\ pc'[p] = "done" /\ reply'[p] = [outcome |-> o, version |-> n]
  BY FinishType DEF DraftInv
<1>2. AttemptInv(p)'
  BY <1>1 DEF DraftInv, AttemptInv, Begun, Unanswered, PlanFits, Planned, RowHeld, KeyHeld,
     InTransaction
<1>3. Truthful(p)'
  BY <1>1 DEF Truthful, RecordsFor, tables
<1>4. QED BY <1>1, <1>2, <1>3, QuietStep

LEMMA FailQuiet ==
  ASSUME DraftInv, NEW p \in Attempts, UNCHANGED tables, pc[p] # "idle",
         NEW o \in Outcomes \ {"committed", "replayed"}, Fail(p, o)
  PROVE  DraftInv'
BY FinishQuiet DEF Fail

\* An attempt that goes on with a plan that fits it.
LEMMA IntendQuiet ==
  ASSUME DraftInv, NEW p \in Attempts, UNCHANGED tables, pc[p] \notin {"idle", "done"},
         NEW to \in Planned, NEW d \in Draft, NEW changed \in SUBSET Fields,
         Intend(p, to, d, changed),
         Known(cmd[p].changes, cmd[p].playbook),
         cmd[p].kind = "create" => d = NewDraft(cmd[p], now[p]) /\ changed = {},
         cmd[p].kind = "revise" =>
           \E v \in versions :
             /\ v.version = cmd[p].expectedVersion /\ v.occurredAt <= now[p]
             /\ Known(v.values, cmd[p].playbook)
             /\ d = RevisionOf(v, cmd[p], now[p])
             /\ to \in {"write", "commit"} => changed = ChangedKeys(v.values, d.values),
         RowHeld(p)', KeyHeld(p)'
  PROVE  DraftInv'
<1>1. /\ TypeOK' /\ OthersKept(p) /\ cmd' = cmd /\ now' = now /\ reply' = reply
      /\ pc'[p] = to /\ plan'[p] = [draft |-> d, changed |-> changed]
  BY IntendType DEF DraftInv, Planned, Places
<1>2. Begun(p)' /\ Unanswered(p)' /\ reply[p] = NoReply
  BY <1>1 DEF DraftInv, AttemptInv, Begun, Unanswered, Planned
<1>3. plan'[p].draft = d /\ plan'[p].changed = changed
  BY <1>1
<1>4. PlanFits(p)'
  BY <1>1, <1>3 DEF PlanFits, RevisionFits, Planned, tables
<1>5. AttemptInv(p)' /\ Truthful(p)' /\ reply'[p].outcome # "committed"
  BY <1>1, <1>2, <1>4 DEF AttemptInv, Truthful, NoReply
<1>6. QED BY <1>1, <1>5, QuietStep

-----------------------------------------------------------------------------
(* The actions that change no table.                                       *)

LEMMA StartQuiet ==
  ASSUME DraftInv, NEW p \in Attempts, Start(p)
  PROVE  DraftInv'
<1> USE DEF DraftInv
<1>1. PICK c \in Commands, t \in Times :
        /\ pc[p] = "idle"
        /\ cmd' = [cmd EXCEPT ![p] = c] /\ now' = [now EXCEPT ![p] = t]
        /\ \/ /\ pc' = [pc EXCEPT ![p] = IF c.kind = "create" THEN "draft" ELSE "find"]
              /\ reply' = reply
           \/ /\ pc' = [pc EXCEPT ![p] = "done"]
              /\ reply' = [reply EXCEPT ![p] = [outcome |-> "denied", version |-> 0]]
        /\ UNCHANGED <<tables, plan>>
  BY DEF Start
<1>2. TypeOK'
  <2>1. [outcome |-> "denied", version |-> 0] \in [outcome : Outcomes, version : Nat]
    BY DEF Outcomes
  <2>2. reply' \in [Attempts -> [outcome : Outcomes, version : Nat]]
    <3> HIDE DEF Outcomes
    <3>1. reply \in [Attempts -> [outcome : Outcomes, version : Nat]]
      BY DEF TypeOK
    <3>2. QED BY <1>1, <2>1, <3>1
  <2>3. pc' \in [Attempts -> Places]
    BY <1>1 DEF TypeOK, Places
  <2>4. cmd' \in [Attempts -> Commands \cup {Null}] /\ now' \in [Attempts -> Times \cup {Null}]
    BY <1>1 DEF TypeOK
  <2>5. QED BY <1>1, <2>2, <2>3, <2>4 DEF TypeOK, Places, tables
<1>3. OthersKept(p)
  BY <1>1 DEF OthersKept, TypeOK
<1>4. /\ cmd'[p] = c /\ now'[p] = t /\ reply[p] = NoReply /\ c.kind \in {"create", "revise"}
      /\ \/ pc'[p] = "draft" /\ c.kind = "create" /\ reply'[p] = NoReply
         \/ pc'[p] = "find" /\ c.kind = "revise" /\ reply'[p] = NoReply
         \/ pc'[p] = "done" /\ reply'[p].outcome = "denied"
  BY <1>1, CommandAssumption DEF TypeOK, AttemptInv, Unanswered, Command
<1>5. AttemptInv(p)'
  BY <1>4 DEF AttemptInv, Begun, Unanswered, PlanFits, Planned, RowHeld, KeyHeld, InTransaction
<1>6. Truthful(p)' /\ reply'[p].outcome # "committed"
  BY <1>4 DEF Truthful, NoReply
<1>7. QED BY <1>1, <1>2, <1>3, <1>5, <1>6, QuietStep

\* An attempt outside its transaction holds neither key nor row.
LEMMA OutsideHoldsNothing ==
  ASSUME NEW p, pc'[p] = "claim"
  PROVE  RowHeld(p)' /\ KeyHeld(p)'
BY DEF RowHeld, KeyHeld, InTransaction

LEMMA DraftProfileQuiet ==
  ASSUME DraftInv, NEW p \in Attempts, DraftProfile(p)
  PROVE  DraftInv'
<1>1. pc[p] = "draft" /\ UNCHANGED tables /\ pc[p] # "idle"
  BY DEF DraftProfile
<1>2. cmd[p] \in Commands /\ cmd[p].kind = "create" /\ now[p] \in Nat
  BY <1>1, TimeAssumption DEF DraftInv, AttemptInv, Begun, PlanFits
<1>3. CASE Fail(p, "refused")
  BY <1>1, <1>3, FailQuiet DEF Outcomes
<1>4. CASE /\ Known(cmd[p].changes, cmd[p].playbook)
           /\ Intend(p, "claim", NewDraft(cmd[p], now[p]), {})
  <2>1. NewDraft(cmd[p], now[p]) \in Draft
    BY <1>2, NewDraftType
  <2>2. pc'[p] = "claim"
    BY <1>4 DEF Intend, DraftInv, TypeOK
  <2>3. QED BY <1>1, <1>2, <1>4, <2>1, <2>2, OutsideHoldsNothing, IntendQuiet DEF Planned
<1>5. QED BY <1>3, <1>4 DEF DraftProfile

LEMMA RevisedIs ==
  ASSUME NEW b, NEW d \in [playbook : {b}, values : ValueMaps, version : Nat \ {0},
                           createdAt : Nat, updatedAt : Nat], NEW c, NEW t
  PROVE  Revised(d, c, t) =
           [playbook |-> b, values |-> Changed(d.values, c.changes), version |-> d.version + 1,
            createdAt |-> d.createdAt, updatedAt |-> t]
<1> DEFINE new == Revised(d, c, t)
           row == [playbook |-> b, values |-> Changed(d.values, c.changes),
                   version |-> d.version + 1, createdAt |-> d.createdAt, updatedAt |-> t]
           names == {"playbook", "values", "version", "createdAt", "updatedAt"}
<1>1. /\ DOMAIN d = names /\ DOMAIN new = names
      /\ new = [x \in names |-> new[x]] /\ row = [x \in names |-> row[x]]
  BY DEF Revised
<1>2. /\ new.playbook = b /\ new.values = Changed(d.values, c.changes)
      /\ new.version = d.version + 1 /\ new.createdAt = d.createdAt /\ new.updatedAt = t
  BY <1>1 DEF Revised
<1>3. \A x \in names : new[x] = row[x]
  BY <1>2
<1> HIDE DEF new, row, names
<1>4. QED BY <1>1, <1>3 DEF new, row

LEMMA FindDraftQuiet ==
  ASSUME DraftInv, NEW p \in Attempts, FindDraft(p)
  PROVE  DraftInv'
<1> DEFINE current == Restored(draft, cmd[p])
<1>1. pc[p] = "find" /\ UNCHANGED tables /\ pc[p] # "idle"
  BY DEF FindDraft
<1>2. cmd[p] \in Commands /\ cmd[p].kind = "revise" /\ now[p] \in Nat
  BY <1>1, TimeAssumption DEF DraftInv, AttemptInv, Begun, PlanFits
<1>3. ASSUME NEW o \in {"not_found", "refused", "version_conflict"}, Fail(p, o)
      PROVE  DraftInv'
  BY <1>1, <1>3, FailQuiet DEF Outcomes
<1>4. CASE /\ draft # Null /\ Known(current.values, cmd[p].playbook)
           /\ current.version = cmd[p].expectedVersion
           /\ Revisable(current, cmd[p], now[p])
           /\ Intend(p, "claim", Revised(current, cmd[p], now[p]), {})
  <2>1. draft \in Draft
    BY <1>4 DEF DraftInv, TypeOK
  <2>2. /\ current.version = draft.version /\ current.updatedAt = draft.updatedAt
        /\ current.values = draft.values /\ current.createdAt = draft.createdAt
        /\ current.playbook = cmd[p].playbook
        /\ current \in [playbook : {cmd[p].playbook}, values : ValueMaps, version : Nat \ {0},
                        createdAt : Nat, updatedAt : Nat]
    BY <2>1 DEF Restored, Draft
  <2>3. PICK v \in versions :
          v.version = draft.version /\ v.values = draft.values /\ v.occurredAt = draft.updatedAt
    <3>1. draft.version \in 1 .. draft.version
      BY <2>1 DEF Draft
    <3>2. QED BY <1>4, <3>1 DEF DraftInv, DraftIsLastVersion
  <2>4. v.createdAt = draft.createdAt /\ v \in VersionRows
    BY <1>4 DEF DraftInv, DraftIsLastVersion, TypeOK, VersionRows
  <2>5. /\ v.version = cmd[p].expectedVersion /\ v.occurredAt <= now[p]
        /\ Known(v.values, cmd[p].playbook) /\ Known(cmd[p].changes, cmd[p].playbook)
    BY <1>4, <2>2, <2>3 DEF Revisable
  <2> HIDE DEF current
  <2>6. Revised(current, cmd[p], now[p]) = RevisionOf(v, cmd[p], now[p])
    <3>1. RevisionOf(v, cmd[p], now[p]) =
            [playbook |-> cmd[p].playbook, values |-> Changed(draft.values, cmd[p].changes),
             version |-> draft.version + 1, createdAt |-> draft.createdAt, updatedAt |-> now[p]]
      BY <2>3, <2>4 DEF RevisionOf
    <3>2. QED BY <2>2, <3>1, RevisedIs
  <2>7. RevisionOf(v, cmd[p], now[p]) \in Draft
    BY <1>2, <2>4, RevisionType
  <2>8. pc'[p] = "claim"
    BY <1>4 DEF Intend, DraftInv, TypeOK
  <2>9. QED
    BY <1>1, <1>2, <1>4, <2>5, <2>6, <2>7, <2>8, OutsideHoldsNothing, IntendQuiet DEF Planned
<1>5. QED BY <1>3, <1>4 DEF FindDraft

LEMMA KeyStaysHeld ==
  ASSUME DraftInv, NEW p \in Attempts, InTransaction(p), UNCHANGED tables,
         OthersKept(p), cmd' = cmd
  PROVE  KeyHeld(p)'
BY DEF DraftInv, AttemptInv, KeyHeld, InTransaction, RecordsFor, OthersKept, tables

LEMMA ClaimQuiet ==
  ASSUME DraftInv, NEW p \in Attempts, Claim(p)
  PROVE  DraftInv'
<1>1. /\ pc[p] = "claim" /\ UNCHANGED tables /\ pc[p] \notin {"idle", "done"}
      /\ TypeOK /\ AttemptInv(p) /\ pc[p] \in Planned
  BY DEF Claim, DraftInv, Planned
<1>2. CASE RecordsFor(cmd[p]) = {} /\ Intend(p, "check", plan[p].draft, {})
  <2>1. plan[p].draft \in Draft
    BY <1>1, PlannedDraft
  <2>2. OthersKept(p) /\ cmd' = cmd /\ pc'[p] = "check"
    BY <1>1, <1>2, <2>1, IntendType DEF Places
  <2>3. KeyHeld(p)' /\ RowHeld(p)'
    BY <1>1, <1>2, <2>2 DEF Claim, KeyHeld, RowHeld, InTransaction, RecordsFor, OthersKept, tables
  <2>4. QED
    BY <1>1, <1>2, <2>1, <2>3, IntendQuiet DEF AttemptInv, PlanFits, RevisionFits, Planned
<1>3. ASSUME NEW r \in RecordsFor(cmd[p]), Replay(p, r)
      PROVE  DraftInv'
  <2>1. r.version \in Nat
    BY <1>1 DEF TypeOK, RecordsFor
  <2>2. CASE Finish(p, "replayed", r.version)
    BY <1>1, <2>1, <2>2, FinishQuiet DEF Outcomes
  <2>3. CASE Fail(p, "refused")
    BY <1>1, <2>3, FailQuiet DEF Outcomes
  <2>4. QED BY <1>3, <2>2, <2>3 DEF Replay
<1>4. CASE Fail(p, "idempotency_conflict")
  BY <1>1, <1>4, FailQuiet DEF Outcomes
<1>5. QED BY <1>2, <1>3, <1>4 DEF Claim

LEMMA CheckQuiet ==
  ASSUME DraftInv, NEW p \in Attempts, Check(p)
  PROVE  DraftInv'
<1> DEFINE c == cmd[p]
           d == plan[p].draft
<1>1. /\ pc[p] = "check" /\ UNCHANGED tables /\ pc[p] \notin {"idle", "done"}
      /\ TypeOK /\ AttemptInv(p) /\ pc[p] \in Planned /\ InTransaction(p)
  BY DEF Check, DraftInv, Planned, InTransaction
<1>2. d \in Draft /\ c \in Command
  BY <1>1, PlannedDraft
<1>3. ASSUME NEW changed \in SUBSET Fields, Intend(p, "write", d, changed)
      PROVE  KeyHeld(p)' /\ RowHeld(p)'
  <2>1. OthersKept(p) /\ cmd' = cmd /\ pc'[p] = "write"
    BY <1>1, <1>2, <1>3, IntendType DEF Places
  <2>2. QED BY <1>1, <2>1, KeyStaysHeld DEF RowHeld
<1>4. CASE c.kind = "create" /\ Intend(p, "write", d, {})
  BY <1>1, <1>2, <1>3, <1>4, IntendQuiet DEF AttemptInv, PlanFits, Planned
<1>5. CASE /\ c.kind = "revise" /\ draft.version = c.expectedVersion
           /\ Intend(p, "write", d, ChangedKeys(draft.values, d.values))
  <2>0. Known(c.changes, c.playbook)
    BY <1>1 DEF AttemptInv, PlanFits
  <2>1. PICK v \in versions :
          /\ v.version = c.expectedVersion /\ v.occurredAt <= now[p]
          /\ d = RevisionOf(v, c, now[p]) /\ Known(v.values, c.playbook)
    BY <1>1, <1>5 DEF AttemptInv, PlanFits, RevisionFits
  <2>2. v.values = draft.values
    BY <1>1, <1>5, <2>1, OneVersion DEF DraftInv
  <2>3. ChangedKeys(v.values, d.values) \in SUBSET Fields
    <3>1. v.values \in ValueMaps /\ d.values \in ValueMaps
      BY <1>1, <1>2 DEF TypeOK, Draft
    <3>2. QED BY <3>1, ChangedKeysDiffer
  <2>4. QED
    BY <1>1, <1>2, <1>3, <1>5, <2>0, <2>1, <2>2, <2>3, IntendQuiet DEF Planned
<1>6. CASE Fail(p, "version_conflict")
  BY <1>1, <1>6, FailQuiet DEF Outcomes
<1>7. QED BY <1>4, <1>5, <1>6 DEF Check

LEMMA WriteQuiet ==
  ASSUME DraftInv, NEW p \in Attempts, Write(p)
  PROVE  DraftInv'
<1> DEFINE c == cmd[p]
           d == plan[p].draft
<1>1. /\ pc[p] = "write" /\ UNCHANGED tables /\ pc[p] \notin {"idle", "done"}
      /\ TypeOK /\ AttemptInv(p) /\ pc[p] \in Planned /\ InTransaction(p) /\ ~DraftHeld(p)
  BY DEF Write, DraftInv, Planned, InTransaction
<1>2. d \in Draft /\ c.kind \in {"create", "revise"} /\ plan[p].changed \in SUBSET Fields
  BY <1>1, PlannedDraft DEF TypeOK
<1>3. CASE /\ Intend(p, "commit", d, plan[p].changed)
           /\ c.kind = "create" => draft = Null
           /\ c.kind = "revise" => draft.version = c.expectedVersion
  <2>1. OthersKept(p) /\ cmd' = cmd /\ pc'[p] = "commit"
    BY <1>1, <1>2, <1>3, IntendType DEF Places
  <2>2. KeyHeld(p)'
    BY <1>1, <2>1, KeyStaysHeld
  <2>3. RowHeld(p)'
    BY <1>1, <1>3, <2>1 DEF RowHeld, DraftHeld, OthersKept, tables
  <2>4. QED
    BY <1>1, <1>2, <1>3, <2>2, <2>3, IntendQuiet DEF AttemptInv, PlanFits, RevisionFits, Planned
<1>4. ASSUME NEW o \in {"version_conflict", "database_error"}, Fail(p, o)
      PROVE  DraftInv'
  BY <1>1, <1>4, FailQuiet DEF Outcomes
<1>5. QED
  BY <1>3, <1>4 DEF Write, WriteCreated, WriteRevised, VersionMatches

LEMMA CrashQuiet ==
  ASSUME DraftInv, NEW p \in Attempts, Crash(p)
  PROVE  DraftInv'
BY FailQuiet DEF Crash, Outcomes

-----------------------------------------------------------------------------
(* The commit.                                                             *)

\* The version a commit adds is the next one, of the same draft, later in time,
\* and differs from the last one in what its command changes.
LEMMA CommitShape ==
  ASSUME DraftInv, NEW p \in Attempts, Commit(p)
  PROVE  LET d == plan[p].draft
             n == cmd[p].expectedVersion
             w == VersionRow(d, cmd[p])
         IN  /\ d \in Draft /\ n \in Nat /\ cmd[p] \in Command /\ d.version = n + 1
             /\ w \in VersionRows /\ w.version = n + 1 /\ w.values = d.values
             /\ w.key = cmd[p].key /\ w.occurredAt = d.updatedAt
             /\ w.createdAt = d.createdAt /\ w.createdAt <= w.occurredAt
             /\ versions' = versions \cup {w}
             /\ draft' \in Draft /\ draft'.version = n + 1 /\ draft'.values = d.values
             /\ draft'.updatedAt = d.updatedAt /\ draft'.createdAt = d.createdAt
             /\ \A v \in versions :
                  /\ v.version \in 1 .. n /\ v.createdAt = d.createdAt
                  /\ v.version = n => /\ v.occurredAt <= w.occurredAt
                                      /\ d.values = Changed(v.values, cmd[p].changes)
                                      /\ plan[p].changed = ChangedKeys(v.values, d.values)
             /\ n # 0 => draft # Null /\ draft.version = n
             /\ n = 0 => draft = Null
             /\ cmd[p].kind = "revise" => \E v \in versions : v.version = n
<1> DEFINE d == plan[p].draft
           n == cmd[p].expectedVersion
           w == VersionRow(d, cmd[p])
<1>1. /\ pc[p] = "commit" /\ draft' = Stored(p) /\ versions' = versions \cup {w}
      /\ TypeOK /\ DraftIsLastVersion /\ AttemptInv(p) /\ pc[p] \in Planned
  BY DEF Commit, DraftInv, Planned
<1>2. /\ d \in Draft /\ n \in Nat /\ cmd[p] \in Command /\ d.version = n + 1
      /\ d.createdAt <= d.updatedAt /\ cmd[p] \in Commands
      /\ d.updatedAt = now[p] /\ cmd[p].kind \in {"create", "revise"}
  BY <1>1, PlannedDraft
<1>3. /\ w \in VersionRows /\ w.version = n + 1 /\ w.values = d.values
      /\ w.key = cmd[p].key /\ w.occurredAt = d.updatedAt
      /\ w.createdAt = d.createdAt /\ w.createdAt <= w.occurredAt
  BY <1>2 DEF VersionRow, VersionRows, Draft, Command
<1>4. CASE cmd[p].kind = "create"
  <2>1. n = 0 /\ draft = Null /\ versions = {}
    BY <1>1, <1>2, <1>4, CommandAssumption DEF AttemptInv, RowHeld, DraftIsLastVersion
  <2>2. draft' = d
    BY <1>1, <1>4 DEF Stored
  <2>3. QED BY <1>1, <1>2, <1>3, <1>4, <2>1, <2>2
<1>5. CASE cmd[p].kind = "revise"
  <2>1. draft.version = n /\ RevisionFits(p)
    BY <1>1, <1>5 DEF AttemptInv, RowHeld, PlanFits
  <2>2. PICK v \in versions :
          /\ v.version = n /\ v.occurredAt <= now[p] /\ d = RevisionOf(v, cmd[p], now[p])
          /\ plan[p].changed = ChangedKeys(v.values, d.values)
    BY <1>1, <2>1 DEF RevisionFits
  <2>3. /\ d.createdAt = v.createdAt /\ d.values = Changed(v.values, cmd[p].changes)
    BY <2>2 DEF RevisionOf
  <2>4. /\ draft # Null /\ draft \in Draft /\ v.createdAt = draft.createdAt
        /\ v.version \in 1 .. draft.version
    BY <1>1, OneVersion
  <2>5. n # 0
    BY <1>2, <2>1, <2>2, <2>4
  <2>6. \A u \in versions :
          u.version \in 1 .. n /\ u.createdAt = d.createdAt /\ (u.version = n => u = v)
    BY <1>1, <2>1, <2>2, <2>3, <2>4, OneVersion
  <2>7. draft' = [draft EXCEPT !.values = d.values, !.version = d.version, !.updatedAt = d.updatedAt]
    BY <1>1, <1>5 DEF Stored
  <2>8. /\ draft' \in Draft /\ draft'.version = d.version /\ draft'.values = d.values
        /\ draft'.updatedAt = d.updatedAt /\ draft'.createdAt = draft.createdAt
    <3> HIDE DEF d
    <3>1. QED BY <1>2, <2>4, <2>7 DEF Draft
  <2>9. QED BY <1>1, <1>2, <1>3, <2>1, <2>2, <2>3, <2>4, <2>5, <2>6, <2>8
<1>6. QED BY <1>2, <1>4, <1>5

LEMMA CommitHistory ==
  ASSUME DraftInv, NEW p \in Attempts, Commit(p)
  PROVE  DraftIsLastVersion'
<1> DEFINE d == plan[p].draft
           n == cmd[p].expectedVersion
           w == VersionRow(d, cmd[p])
<1>1. /\ n \in Nat /\ w.version = n + 1 /\ w.values = d.values /\ w.occurredAt = d.updatedAt
      /\ w.createdAt = d.createdAt /\ versions' = versions \cup {w}
      /\ draft' # Null /\ draft'.version = n + 1 /\ draft'.values = d.values
      /\ draft'.updatedAt = d.updatedAt /\ draft'.createdAt = d.createdAt
      /\ \A v \in versions : /\ v.version \in 1 .. n /\ v.createdAt = d.createdAt
                             /\ v.version = n => v.occurredAt <= w.occurredAt
      /\ n # 0 => draft # Null /\ draft.version = n
  BY CommitShape, DraftAssumption
<1> HIDE DEF d, n, w
<1>2. \A v \in versions' : v.version <= draft'.version /\ v.createdAt = draft'.createdAt
  BY <1>1
<1>3. ASSUME NEW m \in 1 .. n + 1
      PROVE  \E v \in versions' :
               /\ v.version = m
               /\ \A u \in versions' : u.version = m => u = v
               /\ \A u \in versions' : u.version = m - 1 => u.occurredAt <= v.occurredAt
               /\ m = n + 1 => v.values = d.values /\ v.occurredAt = d.updatedAt
  <2>1. CASE m = n + 1
    BY <1>1, <2>1
  <2>2. CASE m # n + 1
    <3>1. m \in 1 .. n /\ n # 0
      BY <1>1, <2>2
    <3>2. PICK v \in versions :
            /\ v.version = m
            /\ \A u \in versions : u.version = m => u = v
            /\ \A u \in versions : u.version = m - 1 => u.occurredAt <= v.occurredAt
      BY <1>1, <3>1 DEF DraftInv, DraftIsLastVersion
    <3>3. w.version # m /\ w.version # m - 1
      BY <1>1, <3>1
    <3>4. QED BY <1>1, <2>2, <3>2, <3>3
  <2>3. QED BY <2>1, <2>2
<1>4. QED BY <1>1, <1>2, <1>3 DEF DraftIsLastVersion

\* What a commit records of its command, and what it leaves of the others.
LEMMA CommitRecords ==
  ASSUME DraftInv, NEW p \in Attempts, Commit(p)
  PROVE  LET d == plan[p].draft
             rec == [kind |-> cmd[p].kind, key |-> cmd[p].key, hash |-> Hash(p), version |-> d.version]
             event == [version |-> d.version, key |-> cmd[p].key, changed |-> plan[p].changed]
         IN  /\ records' = records \cup {rec} /\ audit' = audit \cup {event}
             /\ rec.version = d.version /\ rec.key = cmd[p].key /\ rec.hash.draft = d
             /\ SameKey(rec, cmd[p]) /\ \A r \in records : ~SameKey(r, rec) /\ ~SameKey(rec, r)
             /\ event.version = d.version /\ event.changed = plan[p].changed
             /\ OthersKept(p) /\ cmd' = cmd /\ now' = now /\ pc'[p] = "done"
             /\ plan'[p] = NoPlan /\ reply'[p] = [outcome |-> "committed", version |-> d.version]
<1>1. \A r \in records : ~SameKey(r, cmd[p])
  BY DEF Commit, DraftInv, AttemptInv, KeyHeld, InTransaction, RecordsFor
<1>2. /\ OthersKept(p) /\ cmd' = cmd /\ now' = now /\ pc'[p] = "done" /\ plan'[p] = NoPlan
      /\ reply'[p] = [outcome |-> "committed", version |-> plan[p].draft.version]
  BY DEF Commit, Finish, OthersKept, DraftInv, TypeOK
<1>3. QED BY <1>1, <1>2 DEF Commit, Hash, SameKey

LEMMA CommitType ==
  ASSUME DraftInv, NEW p \in Attempts, Commit(p)
  PROVE  TypeOK'
<1> DEFINE d == plan[p].draft
           w == VersionRow(d, cmd[p])
           rec == [kind |-> cmd[p].kind, key |-> cmd[p].key, hash |-> Hash(p), version |-> d.version]
           event == [version |-> d.version, key |-> cmd[p].key, changed |-> plan[p].changed]
<1>1. /\ d \in Draft /\ cmd[p] \in Command /\ w \in VersionRows /\ w.createdAt <= w.occurredAt
      /\ versions' = versions \cup {w} /\ draft' \in Draft
  BY CommitShape
<1>2. records' = records \cup {rec} /\ audit' = audit \cup {event}
  BY CommitRecords
<1>3. /\ rec \in [kind : {"create", "revise"}, key : STRING, version : Nat \ {0},
                  hash : [draft : Draft, expected : Nat]]
      /\ event \in [version : Nat \ {0}, key : STRING, changed : SUBSET Fields]
  <2>1. d.version \in Nat \ {0} /\ plan[p].changed \in SUBSET Fields
    BY <1>1 DEF Draft, DraftInv, TypeOK
  <2>2. Hash(p) \in [draft : Draft, expected : Nat]
    BY <1>1 DEF Hash, Command
  <2>3. cmd[p].kind \in {"create", "revise"} /\ cmd[p].key \in STRING
    BY <1>1 DEF Command
  <2> HIDE DEF d
  <2>4. QED BY <2>1, <2>2, <2>3
<1>4. /\ pc' \in [Attempts -> Places] /\ cmd' = cmd /\ now' = now
      /\ plan' \in [Attempts -> [draft : Draft \cup {Null}, changed : SUBSET Fields]]
  BY DEF Commit, Finish, NoPlan, DraftInv, TypeOK, Places
<1>5. reply' \in [Attempts -> [outcome : Outcomes, version : Nat]]
  <2>1. reply' = [reply EXCEPT ![p] = [outcome |-> "committed", version |-> d.version]]
    BY DEF Commit, Finish
  <2>2. "committed" \in Outcomes /\ d.version \in Nat
    BY <1>1 DEF Outcomes, Draft
  <2>3. reply \in [Attempts -> [outcome : Outcomes, version : Nat]]
    BY DEF DraftInv, TypeOK
  <2> HIDE DEF d
  <2>4. QED BY <2>1, <2>2, <2>3
<1> HIDE DEF w, rec, event
<1>6. /\ versions' \subseteq VersionRows /\ \A v \in versions' : v.createdAt <= v.occurredAt
  BY <1>1 DEF DraftInv, TypeOK, VersionRows
<1>7. /\ records' \subseteq [kind : {"create", "revise"}, key : STRING, version : Nat \ {0},
                             hash : [draft : Draft, expected : Nat]]
      /\ audit' \subseteq [version : Nat \ {0}, key : STRING, changed : SUBSET Fields]
  BY <1>2, <1>3 DEF DraftInv, TypeOK
<1>8. cmd \in [Attempts -> Commands \cup {Null}] /\ now \in [Attempts -> Times \cup {Null}]
  BY DEF DraftInv, TypeOK
<1>9. QED BY <1>1, <1>4, <1>5, <1>6, <1>7, <1>8 DEF TypeOK, VersionRows, Places

LEMMA CommitAttempts ==
  ASSUME DraftInv, NEW p \in Attempts, Commit(p)
  PROVE  \A q \in Attempts : AttemptInv(q)'
<1>1. /\ OthersKept(p) /\ cmd' = cmd /\ now' = now /\ pc'[p] = "done"
      /\ reply'[p].outcome = "committed" /\ versions \subseteq versions'
      /\ \A r \in records' : r \in records \/ SameKey(r, cmd[p])
  <2>1. /\ OthersKept(p) /\ cmd' = cmd /\ now' = now /\ pc'[p] = "done"
        /\ reply'[p] = [outcome |-> "committed", version |-> plan[p].draft.version]
    BY CommitRecords
  <2>2. versions \subseteq versions'
    BY CommitShape
  <2>3. \A r \in records' : r \in records \/ SameKey(r, cmd[p])
    <3> DEFINE rec == [kind |-> cmd[p].kind, key |-> cmd[p].key, hash |-> Hash(p),
                       version |-> plan[p].draft.version]
    <3>1. records' = records \cup {rec} /\ SameKey(rec, cmd[p])
      BY CommitRecords
    <3> HIDE DEF rec
    <3>2. QED BY <3>1
  <2>4. QED BY <2>1, <2>2, <2>3
<1>2. pc[p] = "commit" /\ AttemptInv(p) /\ InTransaction(p)
  BY DEF Commit, DraftInv, InTransaction
<1>3. AttemptInv(p)'
  BY <1>1, <1>2 DEF AttemptInv, Begun, Unanswered, PlanFits, Planned, RowHeld, KeyHeld, InTransaction
<1>4. ASSUME NEW q \in Attempts \ {p} PROVE AttemptInv(q)'
  <2>0. AttemptInv(q)
    BY DEF DraftInv
  <2>1. /\ pc'[q] = pc[q] /\ cmd'[q] = cmd[q] /\ now'[q] = now[q]
        /\ plan'[q] = plan[q] /\ reply'[q] = reply[q]
    BY <1>1 DEF OthersKept
  <2>2. Begun(q)' /\ Unanswered(q)' /\ PlanFits(q)'
    BY <1>1, <2>0, <2>1 DEF AttemptInv, Begun, Unanswered, PlanFits, RevisionFits
  <2>3. RowHeld(q)'
    BY <1>2, <2>1 DEF AttemptInv, RowHeld
  <2>4. KeyHeld(q)'
    BY <1>1, <1>2, <2>0, <2>1 DEF AttemptInv, KeyHeld, InTransaction, RecordsFor, SameKey, OthersKept
  <2>5. QED BY <2>2, <2>3, <2>4 DEF AttemptInv
<1>5. QED BY <1>3, <1>4

LEMMA CommitAnswers ==
  ASSUME DraftInv, NEW p \in Attempts, Commit(p)
  PROVE  Recorded' /\ AcceptedOnce'
<1> DEFINE d == plan[p].draft
           w == VersionRow(d, cmd[p])
           rec == [kind |-> cmd[p].kind, key |-> cmd[p].key, hash |-> Hash(p), version |-> d.version]
           event == [version |-> d.version, key |-> cmd[p].key, changed |-> plan[p].changed]
<1>1. /\ records' = records \cup {rec} /\ audit' = audit \cup {event}
      /\ rec.version = d.version /\ rec.key = cmd[p].key /\ rec.hash.draft = d
      /\ SameKey(rec, cmd[p]) /\ \A r \in records : ~SameKey(r, rec) /\ ~SameKey(rec, r)
      /\ event.version = d.version /\ OthersKept(p) /\ cmd' = cmd
      /\ reply'[p] = [outcome |-> "committed", version |-> d.version]
  BY CommitRecords
<1>2. /\ versions' = versions \cup {w} /\ w.version = d.version /\ w.key = cmd[p].key
      /\ w.values = d.values /\ w.occurredAt = d.updatedAt
      /\ \A v \in versions : v.version # d.version
  BY CommitShape
<1> HIDE DEF d, w, rec, event
<1>3. Recorded'
  BY <1>1, <1>2 DEF DraftInv, Recorded
<1>4. \A r \in records : r.version # rec.version
  <2>1. \A r \in records : \E v \in versions : v.version = r.version
    BY DEF DraftInv, Recorded
  <2>2. QED BY <1>1, <1>2, <2>1
<1>5. \A r, s \in records' : SameKey(r, s) \/ r.version = s.version => r = s
  BY <1>1, <1>4 DEF DraftInv, AcceptedOnce
<1>6. \A v \in versions' : \E r \in records' :
        r.version = v.version /\ r.key = v.key /\ r.hash.draft.values = v.values
  BY <1>1, <1>2 DEF DraftInv, AcceptedOnce
<1>7. ASSUME NEW q \in Attempts, reply'[q].outcome \in {"committed", "replayed"}
      PROVE  \E r \in records' : SameKey(r, cmd'[q]) /\ r.version = reply'[q].version
  <2>1. CASE q = p
    BY <1>1, <2>1
  <2>2. CASE q # p
    BY <1>1, <1>7, <2>2 DEF DraftInv, AcceptedOnce, RecordsFor, OthersKept
  <2>3. QED BY <2>1, <2>2
<1>8. QED BY <1>3, <1>5, <1>6, <1>7 DEF AcceptedOnce, RecordsFor

\* The values of the fields in the version a revision adds.
LEMMA CommitChanges ==
  ASSUME DraftInv, NEW p \in Attempts, Commit(p)
  PROVE  NoLostChange' /\ AuditTellsChanges'
<1> DEFINE d == plan[p].draft
           n == cmd[p].expectedVersion
           w == VersionRow(d, cmd[p])
           event == [version |-> d.version, key |-> cmd[p].key, changed |-> plan[p].changed]
<1>1. /\ n \in Nat /\ cmd[p] \in Command /\ d \in Draft /\ d.version = n + 1
      /\ w.version = n + 1 /\ w.values = d.values /\ w.key = cmd[p].key
      /\ versions' = versions \cup {w}
      /\ \A v \in versions :
           /\ v.version \in 1 .. n
           /\ v.version = n => /\ d.values = Changed(v.values, cmd[p].changes)
                               /\ plan[p].changed = ChangedKeys(v.values, d.values)
      /\ cmd[p].kind = "revise" => \E v \in versions : v.version = n
  BY CommitShape
<1>2. /\ audit' = audit \cup {event} /\ event.version = n + 1 /\ event.changed = plan[p].changed
      /\ OthersKept(p) /\ cmd' = cmd
  BY <1>1, CommitRecords
<1>3. /\ cmd[p].changes \in ChangeMaps /\ d.values \in ValueMaps
      /\ \A v \in versions : v.values \in ValueMaps /\ v.version \in Nat
  BY <1>1 DEF Command, Draft, DraftInv, TypeOK
<1> HIDE DEF d, n, w, event
<1>4. NoLostChange'
  <2> SUFFICES ASSUME NEW q \in Attempts, reply'[q].outcome = "committed", cmd[q].kind = "revise"
               PROVE  \E v, x \in versions' :
                        /\ v.version = cmd[q].expectedVersion /\ x.version = v.version + 1
                        /\ x.key = cmd[q].key
                        /\ \A f \in Fields :
                             FieldValue(x, f) = IF f \in DOMAIN cmd[q].changes THEN cmd[q].changes[f]
                                                ELSE FieldValue(v, f)
    BY <1>2 DEF NoLostChange, FieldValue
  <2>1. CASE q = p
    <3>1. PICK v \in versions : v.version = n
      BY <1>1, <2>1
    <3>2. w.values = Changed(v.values, cmd[p].changes) /\ v.values \in ValueMaps
      BY <1>1, <1>3, <3>1
    <3>3. \A f \in Fields :
            FieldValue(w, f) = IF f \in DOMAIN cmd[p].changes THEN cmd[p].changes[f]
                               ELSE FieldValue(v, f)
      BY <1>3, <3>2, ChangedValue DEF FieldValue
    <3>4. QED BY <1>1, <2>1, <3>1, <3>3 DEF n
  <2>2. CASE q # p
    <3>1. reply[q].outcome = "committed"
      BY <1>2, <2>2 DEF OthersKept
    <3>2. QED BY <1>1, <3>1 DEF DraftInv, NoLostChange
  <2>3. QED BY <2>1, <2>2
<1>5. AuditTellsChanges'
  <2> SUFFICES ASSUME NEW a \in audit', NEW v \in versions', NEW x \in versions',
                      x.version = a.version, v.version = a.version - 1
               PROVE  a.changed = {f \in Fields : FieldValue(v, f) # FieldValue(x, f)}
    BY DEF AuditTellsChanges, FieldValue
  <2>1. CASE a = event
    <3>1. x = w /\ v \in versions /\ v.version = n
      BY <1>1, <1>2, <1>3, <2>1
    <3>2. a.changed = ChangedKeys(v.values, x.values) /\ v.values \in ValueMaps /\ x.values \in ValueMaps
      BY <1>1, <1>2, <1>3, <2>1, <3>1
    <3>3. QED BY <3>2, ChangedKeysDiffer
  <2>2. CASE a \in audit
    <3>1. a.version \in 1 .. n
      BY <1>1, <2>2 DEF DraftInv, Recorded
    <3>2. x \in versions /\ v \in versions
      BY <1>1, <3>1
    <3>3. QED BY <2>2, <3>2 DEF DraftInv, AuditTellsChanges
  <2>3. QED BY <1>2, <2>1, <2>2
<1>6. QED BY <1>4, <1>5

-----------------------------------------------------------------------------
(* The theorems.                                                           *)

LEMMA InitDraft == Init => DraftInv
<1> SUFFICES ASSUME Init PROVE DraftInv
  OBVIOUS
<1> USE DEF Init
<1>1. TypeOK
  BY DEF TypeOK, NoPlan, NoReply, Outcomes
<1>2. \A p \in Attempts : AttemptInv(p)
  BY DEF AttemptInv, Begun, Unanswered, PlanFits, Planned, RowHeld, KeyHeld, InTransaction
<1>3. Recorded /\ DraftIsLastVersion /\ NoLostChange /\ AuditTellsChanges /\ AcceptedOnce
  BY DEF Recorded, DraftIsLastVersion, NoLostChange, AuditTellsChanges, AcceptedOnce, NoReply
<1>4. QED BY <1>1, <1>2, <1>3 DEF DraftInv

LEMMA DraftStep == DraftInv /\ [Next]_vars => DraftInv'
<1> SUFFICES ASSUME DraftInv, [Next]_vars PROVE DraftInv'
  OBVIOUS
<1>1. ASSUME NEW p \in Attempts, Commit(p) PROVE DraftInv'
  BY <1>1, CommitType, CommitAttempts, CommitHistory, CommitAnswers, CommitChanges DEF DraftInv
<1>2. ASSUME NEW p \in Attempts, Step(p) PROVE DraftInv'
  BY <1>1, <1>2, StartQuiet, DraftProfileQuiet, FindDraftQuiet, ClaimQuiet, CheckQuiet, WriteQuiet,
     CrashQuiet DEF Step
<1>3. CASE UNCHANGED vars
  <2> USE <1>3 DEF vars
  <2>1. TypeOK'
    BY DEF DraftInv, TypeOK
  <2>2. \A p \in Attempts : AttemptInv(p)'
    BY DEF DraftInv, AttemptInv, Begun, Unanswered, PlanFits, RevisionFits, RowHeld, KeyHeld,
       InTransaction, RecordsFor
  <2>3. Recorded' /\ DraftIsLastVersion' /\ NoLostChange' /\ AuditTellsChanges' /\ AcceptedOnce'
    BY DEF DraftInv, Recorded, DraftIsLastVersion, NoLostChange, AuditTellsChanges, AcceptedOnce,
       FieldValue, RecordsFor
  <2>4. QED BY <2>1, <2>2, <2>3 DEF DraftInv
<1>4. QED BY <1>2, <1>3 DEF Next, Quiescent

LEMMA DraftInvariance == Spec => []DraftInv
BY InitDraft, DraftStep, PTL DEF Spec

\* The tables keep their types, and no version is older than its draft.
THEOREM TypeCorrect == Spec => []TypeOK
<1>1. DraftInv => TypeOK
  BY DEF DraftInv
<1>2. QED BY <1>1, DraftInvariance, PTL

\* The draft is the last version of one gap-free history in which time only
\* goes forward.
THEOREM HistoryCorrect == Spec => []DraftIsLastVersion
<1>1. DraftInv => DraftIsLastVersion
  BY DEF DraftInv
<1>2. QED BY <1>1, DraftInvariance, PTL

\* Owners who edit at once never overwrite each other's fields.
THEOREM ChangesKept == Spec => []NoLostChange
<1>1. DraftInv => NoLostChange
  BY DEF DraftInv
<1>2. QED BY <1>1, DraftInvariance, PTL

\* An audit event names exactly the fields its version changed, although the
\* service computes them before its update has the row.
THEOREM AuditCorrect == Spec => []AuditTellsChanges
<1>1. DraftInv => AuditTellsChanges
  BY DEF DraftInv
<1>2. QED BY <1>1, DraftInvariance, PTL

\* A key makes one version, and nobody is told another one.
THEOREM AcceptanceCorrect == Spec => []AcceptedOnce
<1>1. DraftInv => AcceptedOnce
  BY DEF DraftInv
<1>2. QED BY <1>1, DraftInvariance, PTL

-----------------------------------------------------------------------------
(* The refinement.                                                         *)

Used == {[use |-> <<r.kind, r.key>>, version |-> r.version] : r \in records}

\* The ledger's domain is this one.
LEMMA SameDomain ==
  ASSUME NEW c, NEW t, NEW values, NEW d
  PROVE  /\ Ledger!Known(values, c.playbook) = Known(values, c.playbook)
         /\ Ledger!NewDraft(c, t) = NewDraft(c, t)
         /\ Ledger!Changed(values, c.changes) = Changed(values, c.changes)
         /\ Ledger!Revised(d, c, t) = Revised(d, c, t)
         /\ \A f : Ledger!FieldValue(d, f) = FieldValue(d, f)
         /\ Ledger!Fields = Fields
<1>1. \A vs : Ledger!Changed(vs, c.changes) = Changed(vs, c.changes)
  BY DEF Ledger!Changed, Changed
<1>2. Ledger!Revised(d, c, t) = Revised(d, c, t)
  BY <1>1 DEF Ledger!Revised, Revised
<1>3. Ledger!Known(values, c.playbook) = Known(values, c.playbook)
  BY DEF Ledger!Known, Known
<1>4. Ledger!NewDraft(c, t) = NewDraft(c, t)
  BY DEF Ledger!NewDraft, NewDraft
<1>5. \A f : Ledger!FieldValue(d, f) = FieldValue(d, f)
  BY DEF Ledger!FieldValue, FieldValue
<1>6. Ledger!Fields = Fields
  BY DEF Ledger!Fields, Fields
<1>7. QED BY <1>1, <1>2, <1>3, <1>4, <1>5, <1>6

LEMMA KeyUsed ==
  ASSUME NEW c
  PROVE  Ledger!Unused(c) <=> RecordsFor(c) = {}
<1>1. Ledger!Unused(c) <=> \A u \in Used : u.use # <<c.kind, c.key>>
  BY DEF Ledger!Unused, Used
<1>2. \A u \in Used : \E r \in records : u.use = <<r.kind, r.key>>
  BY DEF Used
<1>3. ASSUME NEW r \in records
      PROVE  \E u \in Used : u.use = <<r.kind, r.key>>
  <2> DEFINE u == [use |-> <<r.kind, r.key>>, version |-> r.version]
  <2>1. u \in Used
    BY DEF Used
  <2>2. u.use = <<r.kind, r.key>>
    OBVIOUS
  <2>3. QED BY <2>1, <2>2
<1>4. \A r : <<r.kind, r.key>> = <<c.kind, c.key>> <=> SameKey(r, c)
  <2>1. \A k, l, m, n : <<k, l>> = <<m, n>> <=> k = m /\ l = n
    OBVIOUS
  <2>2. QED BY <2>1 DEF SameKey
<1>5. QED BY <1>1, <1>2, <1>3, <1>4 DEF RecordsFor

LEMMA InProgress ==
  ASSUME DraftInv, NEW p \in Attempts, pc[p] \notin {"idle", "done"}
  PROVE  /\ Ledger!Pending(p) /\ TypeOK /\ AttemptInv(p)
         /\ cmd[p] \in Commands /\ cmd[p] \in Command /\ now[p] \in Nat
         /\ cmd[p].kind \in {"create", "revise"}
         /\ cmd[p].kind = "create" => cmd[p].expectedVersion = 0
<1>1. TypeOK /\ AttemptInv(p)
  BY DEF DraftInv
<1>2. cmd[p] \in Commands /\ now[p] \in Times /\ reply[p] = NoReply
  BY <1>1 DEF AttemptInv, Begun, Unanswered
<1>3. /\ cmd[p] \in Command /\ cmd[p] # Null /\ now[p] \in Nat
      /\ cmd[p].kind = "create" => cmd[p].expectedVersion = 0
  BY <1>2, CommandAssumption, TimeAssumption
<1>4. cmd[p].kind \in {"create", "revise"}
  BY <1>3 DEF Command
<1>5. Ledger!Pending(p)
  BY <1>2, <1>3 DEF NoReply, Ledger!Pending
<1>6. QED BY <1>1, <1>2, <1>3, <1>4, <1>5

\* An attempt that ends is told so in the ledger, too.
LEMMA FinishTells ==
  ASSUME TypeOK, NEW p \in Attempts, NEW o, NEW n, Finish(p, o, n)
  PROVE  Ledger!Tell(p, o, n)
BY DEF Finish, Ledger!Tell

LEMMA IntendStutters ==
  ASSUME NEW p \in Attempts, NEW to, NEW d, NEW changed, Intend(p, to, d, changed), UNCHANGED tables
  PROVE  UNCHANGED Ledger!ledgerVars
BY DEF Intend, Ledger!ledgerVars, tables

\* The draft as it is does not take the command.
LEMMA RefusalRefines ==
  ASSUME DraftInv, NEW p \in Attempts, pc[p] \notin {"idle", "done"}, UNCHANGED tables,
         NEW o, Fail(p, o),
         \/ o = "version_conflict" /\ draft # Null /\ draft.version # cmd[p].expectedVersion
         \/ o = "database_error" /\ draft # Null /\ cmd[p].kind = "create"
         \/ o = "not_found" /\ draft = Null /\ cmd[p].kind = "revise"
         \/ o = "idempotency_conflict" /\ RecordsFor(cmd[p]) # {}
         \/ /\ o = "refused"
            /\ \/ ~Known(cmd[p].changes, cmd[p].playbook)
               \/ /\ draft # Null
                  /\ ~Known(draft.values, cmd[p].playbook) \/ ~(draft.updatedAt <= now[p])
  PROVE  Ledger!Refuse(p)
<1>1. Ledger!Pending(p) /\ Ledger!Tell(p, o, 0) /\ UNCHANGED <<draft, versions, audit, Used>>
  BY InProgress, FinishTells DEF Fail, tables, Used
<1>2. o = "idempotency_conflict" => ~Ledger!Unused(cmd[p])
  BY KeyUsed
<1>3. o = "refused" => ~Ledger!Suits(cmd[p], now[p])
  BY SameDomain DEF Ledger!Suits
<1>4. QED BY <1>1, <1>2, <1>3 DEF Ledger!Refuse, Used

LEMMA StartRefines ==
  ASSUME DraftInv, NEW p \in Attempts, Start(p)
  PROVE  Ledger!Take(p)
<1>1. cmd[p] = Null
  BY DEF Start, DraftInv, AttemptInv, Begun
<1>2. UNCHANGED <<draft, versions, audit, Used>>
  BY DEF Start, tables, Used
<1>3. QED BY <1>1, <1>2 DEF Start, Ledger!Take, Used

LEMMA DraftProfileRefines ==
  ASSUME DraftInv, NEW p \in Attempts, DraftProfile(p)
  PROVE  Ledger!Refuse(p) \/ UNCHANGED Ledger!ledgerVars
<1>1. pc[p] \notin {"idle", "done"} /\ UNCHANGED tables
  BY DEF DraftProfile
<1>2. CASE ~Known(cmd[p].changes, cmd[p].playbook) /\ Fail(p, "refused")
  BY <1>1, <1>2, RefusalRefines
<1>3. CASE Intend(p, "claim", NewDraft(cmd[p], now[p]), {})
  BY <1>1, <1>3, IntendStutters
<1>4. QED BY <1>2, <1>3 DEF DraftProfile

LEMMA FindDraftRefines ==
  ASSUME DraftInv, NEW p \in Attempts, FindDraft(p)
  PROVE  Ledger!Refuse(p) \/ UNCHANGED Ledger!ledgerVars
<1> DEFINE c == cmd[p]
           current == Restored(draft, c)
<1>1. /\ pc[p] = "find" /\ pc[p] \notin {"idle", "done"} /\ UNCHANGED tables
      /\ c.kind = "revise"
  BY DEF FindDraft, DraftInv, AttemptInv, PlanFits
<1>2. CASE draft = Null /\ Fail(p, "not_found")
  BY <1>1, <1>2, RefusalRefines
<1>3. CASE draft # Null
  <2>1. /\ current.version = draft.version /\ current.updatedAt = draft.updatedAt
        /\ current.values = draft.values /\ current.playbook = c.playbook
    BY <1>3 DEF Restored, DraftInv, TypeOK, Draft
  <2> HIDE DEF current
  <2>2. CASE ~Known(current.values, c.playbook) /\ Fail(p, "refused")
    BY <1>1, <1>3, <2>1, <2>2, RefusalRefines
  <2>3. CASE current.version # c.expectedVersion /\ Fail(p, "version_conflict")
    BY <1>1, <1>3, <2>1, <2>3, RefusalRefines
  <2>4. CASE ~Revisable(current, c, now[p]) /\ Fail(p, "refused")
    BY <1>1, <1>3, <2>1, <2>4, RefusalRefines DEF Revisable
  <2>5. CASE Intend(p, "claim", Revised(current, c, now[p]), {})
    BY <1>1, <2>5, IntendStutters
  <2>6. QED BY <1>3, <2>2, <2>3, <2>4, <2>5 DEF FindDraft, current
<1>4. QED BY <1>2, <1>3 DEF FindDraft

LEMMA CrashRefines ==
  ASSUME DraftInv, NEW p \in Attempts, Crash(p)
  PROVE  Ledger!Fail(p)
<1>1. Ledger!Pending(p) /\ Ledger!Tell(p, "crashed", 0)
  BY InProgress, FinishTells DEF Crash, Fail, DraftInv
<1>2. QED BY <1>1 DEF Ledger!Fail, Crash, tables

\* A replayed version is one the playbook of the caller can show, since the
\* hashes are equal and the request was checked.
LEMMA ReplayedVersion ==
  ASSUME DraftInv, NEW p \in Attempts, pc[p] = "claim",
         NEW r \in RecordsFor(cmd[p]), r.hash = Hash(p),
         NEW v \in versions, v.version = r.version
  PROVE  /\ Ledger!Made(v, cmd[p], now[p]) /\ Known(v.values, cmd[p].playbook)
         /\ [use |-> <<cmd[p].kind, cmd[p].key>>, version |-> v.version] \in Used
<1> DEFINE c == cmd[p]
           d == plan[p].draft
<1>1. /\ TypeOK /\ AttemptInv(p) /\ pc[p] \in Planned /\ DraftIsLastVersion
      /\ c.kind \in {"create", "revise"} /\ c.expectedVersion \in Nat
      /\ d.updatedAt = now[p] /\ d.version = c.expectedVersion + 1
  BY InProgress, PlannedDraft DEF DraftInv, Planned
<1>2. r.hash.draft = d
  BY DEF Hash
<1>3. PICK u \in versions :
        /\ u.version = r.version /\ u.version = r.hash.draft.version
        /\ u.values = r.hash.draft.values /\ u.occurredAt = r.hash.draft.updatedAt
  BY DEF DraftInv, Recorded, RecordsFor
<1>4. u = v
  BY <1>1, <1>3, OneVersion
<1>5. v.version = c.expectedVersion + 1 /\ v.values = d.values /\ v.occurredAt = now[p]
  BY <1>1, <1>2, <1>3, <1>4
<1>6. [use |-> <<c.kind, c.key>>, version |-> v.version] \in Used
  BY DEF RecordsFor, SameKey, Used
<1>7. CASE c.kind = "create"
  <2>1. d.values = c.changes /\ Known(c.changes, c.playbook)
    BY <1>1, <1>7 DEF AttemptInv, PlanFits, NewDraft
  <2>2. QED BY <1>5, <1>6, <1>7, <2>1 DEF Ledger!Made
<1>8. CASE c.kind = "revise"
  <2>1. PICK w \in versions :
          /\ w.version = c.expectedVersion /\ Known(w.values, c.playbook)
          /\ d = RevisionOf(w, c, now[p])
    BY <1>1, <1>8 DEF AttemptInv, PlanFits, RevisionFits
  <2>2. d.values = Changed(w.values, c.changes) /\ Known(c.changes, c.playbook)
    BY <1>1, <2>1 DEF RevisionOf, AttemptInv, PlanFits
  <2>3. Ledger!Made(v, c, now[p])
    BY <1>5, <1>8, <2>1, <2>2, SameDomain DEF Ledger!Made
  <2>4. Known(d.values, c.playbook)
    BY <2>1, <2>2 DEF Known, Changed
  <2>5. QED BY <1>5, <1>6, <2>3, <2>4
<1>9. QED BY <1>1, <1>7, <1>8

LEMMA ClaimRefines ==
  ASSUME DraftInv, NEW p \in Attempts, Claim(p)
  PROVE  Ledger!Replay(p) \/ Ledger!Refuse(p) \/ UNCHANGED Ledger!ledgerVars
<1>1. pc[p] = "claim" /\ pc[p] \notin {"idle", "done"} /\ UNCHANGED tables
  BY DEF Claim
<1>2. CASE Intend(p, "check", plan[p].draft, {})
  BY <1>1, <1>2, IntendStutters
<1>3. ASSUME NEW r \in RecordsFor(cmd[p]), r.hash = Hash(p), Replay(p, r)
      PROVE  Ledger!Replay(p)
  <2>1. PICK v \in versions :
          /\ v.version = r.version
          /\ IF Known(v.values, cmd[p].playbook) THEN Finish(p, "replayed", r.version)
             ELSE Fail(p, "refused")
    BY <1>3 DEF Replay
  <2>2. /\ Ledger!Made(v, cmd[p], now[p]) /\ Known(v.values, cmd[p].playbook)
        /\ [use |-> <<cmd[p].kind, cmd[p].key>>, version |-> v.version] \in Used
    BY <1>1, <1>3, <2>1, ReplayedVersion
  <2>3. Ledger!Tell(p, "replayed", v.version)
    BY <2>1, <2>2, FinishTells DEF DraftInv
  <2>4. Ledger!Pending(p) /\ UNCHANGED <<draft, versions, audit, Used>>
    BY <1>1, InProgress DEF tables, Used
  <2>5. QED BY <2>2, <2>3, <2>4 DEF Ledger!Replay, Used
<1>4. CASE RecordsFor(cmd[p]) # {} /\ Fail(p, "idempotency_conflict")
  BY <1>1, <1>4, RefusalRefines
<1>5. QED BY <1>2, <1>3, <1>4 DEF Claim

\* A planned revision has a version to revise, so there is a draft.
LEMMA RevisedDraft ==
  ASSUME DraftInv, NEW p \in Attempts, pc[p] \in Planned, cmd[p].kind = "revise"
  PROVE  draft # Null
<1>1. PICK v \in versions : v.version = cmd[p].expectedVersion
  BY DEF DraftInv, AttemptInv, PlanFits, RevisionFits
<1>2. QED BY <1>1, OneVersion DEF DraftInv

LEMMA CheckRefines ==
  ASSUME DraftInv, NEW p \in Attempts, Check(p)
  PROVE  Ledger!Refuse(p) \/ UNCHANGED Ledger!ledgerVars
<1> DEFINE c == cmd[p]
<1>1. /\ pc[p] = "check" /\ pc[p] \notin {"idle", "done"} /\ UNCHANGED tables
      /\ pc[p] \in Planned
  BY DEF Check, Planned
<1>2. \A to, d, changed : Intend(p, to, d, changed) => UNCHANGED Ledger!ledgerVars
  BY <1>1, IntendStutters
<1>3. CASE c.kind = "create" /\ draft # Null /\ Fail(p, "version_conflict")
  <2>1. c.expectedVersion = 0 /\ draft.version # 0
    BY <1>1, <1>3, InProgress DEF TypeOK, Draft
  <2>2. QED BY <1>1, <1>3, <2>1, RefusalRefines
<1>4. CASE /\ c.kind = "revise" /\ Fail(p, "version_conflict")
           /\ ~(draft.version = c.expectedVersion /\ plan[p].draft.version = c.expectedVersion + 1)
  <2>1. draft # Null /\ plan[p].draft.version = c.expectedVersion + 1
    BY <1>1, <1>4, RevisedDraft, PlannedDraft, InProgress
  <2>2. QED BY <1>1, <1>4, <2>1, RefusalRefines
<1>5. QED BY <1>2, <1>3, <1>4 DEF Check

\* A revision that finds the row as its owner saw it finds its version free.
LEMMA WriteRefines ==
  ASSUME DraftInv, NEW p \in Attempts, Write(p)
  PROVE  Ledger!Refuse(p) \/ UNCHANGED Ledger!ledgerVars
<1> DEFINE c == cmd[p]
<1>1. /\ pc[p] = "write" /\ pc[p] \notin {"idle", "done"} /\ UNCHANGED tables
      /\ pc[p] \in Planned
  BY DEF Write, Planned
<1>2. CASE Intend(p, "commit", plan[p].draft, plan[p].changed)
  BY <1>1, <1>2, IntendStutters
<1>3. CASE c.kind = "create" /\ draft # Null /\ Fail(p, "database_error")
  BY <1>1, <1>3, RefusalRefines
<1>4. CASE c.kind = "revise" /\ draft.version # c.expectedVersion /\ Fail(p, "version_conflict")
  BY <1>1, <1>4, RevisedDraft, RefusalRefines
<1>5. ~ /\ c.kind = "revise" /\ draft.version = c.expectedVersion
        /\ \E v \in versions : v.version = plan[p].draft.version
  <2> SUFFICES ASSUME c.kind = "revise", draft.version = c.expectedVersion,
                      NEW v \in versions, v.version = plan[p].draft.version
               PROVE  FALSE
    OBVIOUS
  <2>1. plan[p].draft.version = draft.version + 1 /\ c.expectedVersion \in Nat
    BY <1>1, InProgress, PlannedDraft
  <2>2. v.version \in 1 .. draft.version
    BY OneVersion DEF DraftInv
  <2>3. QED BY <2>1, <2>2
<1>6. QED BY <1>2, <1>3, <1>4, <1>5 DEF Write, WriteCreated, WriteRevised, VersionMatches

\* What is committed is what the ledger makes of the draft as it is.
LEMMA CommitRefines ==
  ASSUME DraftInv, NEW p \in Attempts, Commit(p)
  PROVE  Ledger!Apply(p)
<1> DEFINE c == cmd[p]
           d == plan[p].draft
           rec == [kind |-> c.kind, key |-> c.key, hash |-> Hash(p), version |-> d.version]
<1>1. /\ pc[p] = "commit" /\ pc[p] \notin {"idle", "done"} /\ pc[p] \in Planned
      /\ InTransaction(p) /\ Ledger!Pending(p) /\ TypeOK /\ AttemptInv(p)
      /\ c \in Command /\ c.kind \in {"create", "revise"} /\ now[p] \in Nat
  BY InProgress DEF Commit, Planned, InTransaction
<1>2. Ledger!Tell(p, "committed", d.version)
  BY <1>1, FinishTells DEF Commit
<1>3. Ledger!Unused(c)
  BY <1>1, KeyUsed DEF AttemptInv, KeyHeld
<1>4. Used' = Used \cup {[use |-> <<c.kind, c.key>>, version |-> d.version]}
  <2>1. records' = records \cup {rec}
    BY DEF Commit
  <2>2. rec.kind = c.kind /\ rec.key = c.key /\ rec.version = d.version
    OBVIOUS
  <2> HIDE DEF rec, d
  <2>3. QED BY <2>1, <2>2 DEF Used
<1>5. Known(c.changes, c.playbook)
  BY <1>1 DEF AttemptInv, PlanFits
<1>6. d \in Draft
  BY <1>1, PlannedDraft
<1> DEFINE s == Ledger!Successor(c, now[p])
<1>7. /\ Ledger!Fits(c) /\ Ledger!Suits(c, now[p]) /\ draft' = s
      /\ d.playbook = c.playbook /\ d.values = s.values /\ d.version = s.version
      /\ d.createdAt = s.createdAt /\ d.updatedAt = s.updatedAt
      /\ plan[p].changed = Ledger!Changes(s)
  <2>1. CASE c.kind = "create"
    <3>1. draft = Null /\ d = NewDraft(c, now[p]) /\ draft' = d /\ plan[p].changed = {}
      BY <1>1, <2>1 DEF AttemptInv, RowHeld, PlanFits, Commit, Stored
    <3>2. s = d /\ Ledger!Changes(s) = {}
      BY <2>1, <3>1, SameDomain DEF Ledger!Successor, Ledger!Changes
    <3>3. Ledger!Fits(c) /\ Ledger!Suits(c, now[p])
      BY <1>5, <2>1, <3>1, SameDomain DEF Ledger!Fits, Ledger!Suits
    <3>4. d.playbook = c.playbook
      BY <3>1 DEF NewDraft
    <3>5. QED BY <3>1, <3>2, <3>3, <3>4
  <2>2. CASE c.kind = "revise"
    <3>1. /\ draft.version = c.expectedVersion /\ draft # Null /\ draft \in Draft
          /\ draft' = [draft EXCEPT !.values = d.values, !.version = d.version,
                                    !.updatedAt = d.updatedAt]
      BY <1>1, <2>2, RevisedDraft DEF AttemptInv, RowHeld, Commit, Stored, TypeOK
    <3>2. PICK v \in versions :
            /\ v.version = c.expectedVersion /\ v.occurredAt <= now[p]
            /\ Known(v.values, c.playbook) /\ d = RevisionOf(v, c, now[p])
            /\ plan[p].changed = ChangedKeys(v.values, d.values)
      BY <1>1, <2>2 DEF AttemptInv, PlanFits, RevisionFits
    <3>3. /\ v.values = draft.values /\ v.occurredAt = draft.updatedAt
          /\ v.createdAt = draft.createdAt /\ v.values \in ValueMaps
      BY <1>1, <3>1, <3>2, OneVersion DEF DraftInv, TypeOK
    <3>4. /\ d.playbook = c.playbook /\ d.values = Changed(draft.values, c.changes)
          /\ d.version = draft.version + 1 /\ d.createdAt = draft.createdAt
          /\ d.updatedAt = now[p]
      BY <3>1, <3>2, <3>3 DEF RevisionOf
    <3> HIDE DEF d
    <3>5. draft' = Revised(draft, c, now[p])
      BY <3>1, <3>4 DEF Revised
    <3>6. s = draft'
      BY <2>2, <3>5, SameDomain DEF Ledger!Successor
    <3>7. /\ draft'.values = d.values /\ draft'.version = d.version
          /\ draft'.createdAt = d.createdAt /\ draft'.updatedAt = d.updatedAt
      BY <3>1, <3>4 DEF Draft
    <3>8. plan[p].changed = {f \in Fields : FieldValue(draft, f) # FieldValue(draft', f)}
      <4>1. draft.values \in ValueMaps /\ draft'.values \in ValueMaps
        BY <1>6, <3>3, <3>7 DEF Draft
      <4>2. QED BY <3>2, <3>3, <3>7, <4>1, ChangedKeysDiffer
    <3>9. Ledger!Changes(s) = {f \in Fields : FieldValue(draft, f) # FieldValue(draft', f)}
      BY <3>1, <3>6, SameDomain DEF Ledger!Changes
    <3>10. Ledger!Fits(c) /\ Ledger!Suits(c, now[p])
      BY <1>5, <2>2, <3>1, <3>2, <3>3, SameDomain DEF Ledger!Fits, Ledger!Suits
    <3>11. QED BY <3>4, <3>6, <3>7, <3>8, <3>9, <3>10
  <2>3. QED BY <1>1, <2>1, <2>2
<1>8. VersionRow(d, c) = Ledger!Version(s, c)
  BY <1>7 DEF VersionRow, Ledger!Version
<1> HIDE DEF d, s
<1>9. /\ draft' = s /\ versions' = versions \cup {Ledger!Version(s, c)}
      /\ audit' = audit \cup {[version |-> s.version, key |-> c.key, changed |-> Ledger!Changes(s)]}
  BY <1>7, <1>8 DEF Commit, d
<1>10. QED
  BY <1>1, <1>2, <1>3, <1>4, <1>7, <1>9 DEF Ledger!Apply, Used, s

-----------------------------------------------------------------------------
LEMMA StepRefines ==
  ASSUME DraftInv, [Next]_vars
  PROVE  [Ledger!Next]_(Ledger!ledgerVars)
<1>1. ASSUME NEW p \in Attempts, Step(p)
      PROVE  \/ Ledger!Take(p) \/ Ledger!Apply(p) \/ Ledger!Replay(p)
             \/ Ledger!Refuse(p) \/ Ledger!Fail(p) \/ UNCHANGED Ledger!ledgerVars
  BY <1>1, StartRefines, DraftProfileRefines, FindDraftRefines, ClaimRefines, CheckRefines,
     WriteRefines, CommitRefines, CrashRefines DEF Step
<1>2. CASE UNCHANGED vars
  BY <1>2 DEF vars, Ledger!ledgerVars
<1>3. QED BY <1>1, <1>2 DEF Next, Quiescent, Ledger!Next

\* Whatever the interleaving and the crashes, owners see an atomic register of
\* the draft: each command takes effect whole on the draft as it then is, or is
\* refused for a reason that holds.
THEOREM LedgerImplemented == Spec => ImplementsLedger
<1>1. Init => Ledger!Init
  BY DEF Init, Ledger!Init, NoReply
<1>2. DraftInv /\ [Next]_vars => [Ledger!Next]_(Ledger!ledgerVars)
  BY StepRefines
<1>3. QED BY <1>1, <1>2, DraftInvariance, PTL DEF Spec, ImplementsLedger, Ledger!Spec
=============================================================================
