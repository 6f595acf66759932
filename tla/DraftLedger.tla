----------------------------- MODULE DraftLedger -----------------------------
(***************************************************************************)
(* What the draft service promises the owners of one profile, whatever the *)
(* interleaving: a command takes effect in one step on the draft as it is, *)
(* with its version, its audit event and its key, or is refused for a      *)
(* reason that holds of the draft as it is.                                *)
(***************************************************************************)
EXTENDS ProfileDraft

CONSTANTS Attempts, Commands, Times

VARIABLES
  draft,     \* the draft, or Null
  versions,  \* its history
  audit,     \* what each version changed
  used,      \* the idempotency keys in use, and the version each has made
  cmd, now,  \* the command each attempt was sent, and its server's clock
  told       \* what it was told

ledgerVars == <<draft, versions, audit, used, cmd, now, told>>

-----------------------------------------------------------------------------
Pending(p) == cmd[p] # Null /\ told[p].outcome = "none"

Tell(p, outcome, version) ==
  /\ told' = [told EXCEPT ![p] = [outcome |-> outcome, version |-> version]]
  /\ UNCHANGED <<cmd, now>>

\* A command is sent; without permission it is denied whatever the draft is.
Take(p) ==
  /\ cmd[p] = Null
  /\ \E c \in Commands, t \in Times :
       /\ cmd' = [cmd EXCEPT ![p] = c]
       /\ now' = [now EXCEPT ![p] = t]
       /\ told' = IF c.allowed THEN told
                  ELSE [told EXCEPT ![p] = [outcome |-> "denied", version |-> 0]]
  /\ UNCHANGED <<draft, versions, audit, used>>

-----------------------------------------------------------------------------
Unused(c) == \A u \in used : u.use # <<c.kind, c.key>>

\* The caller's playbook declares every field of the draft and of the changes,
\* and time does not go back.
Suits(c, t) ==
  /\ Known(c.changes, c.playbook)
  /\ draft # Null => Known(draft.values, c.playbook) /\ draft.updatedAt <= t

\* A draft is created once, and revised from exactly the version its owner saw.
Fits(c) ==
  \/ c.kind = "create" /\ draft = Null
  \/ c.kind = "revise" /\ draft # Null /\ draft.version = c.expectedVersion

Successor(c, t) == IF c.kind = "create" THEN NewDraft(c, t) ELSE Revised(draft, c, t)

Version(d, c) ==
  [playbook |-> c.playbook, values |-> d.values, version |-> d.version,
   key |-> c.key, createdAt |-> d.createdAt, occurredAt |-> d.updatedAt]

\* The fields in which the draft differs from its successor; a creation names none.
Changes(d) ==
  IF draft = Null THEN {} ELSE {f \in Fields : FieldValue(draft, f) # FieldValue(d, f)}

Apply(p) ==
  LET c == cmd[p]
      d == Successor(c, now[p]) IN
  /\ Pending(p) /\ Fits(c) /\ Suits(c, now[p]) /\ Unused(c)
  /\ Tell(p, "committed", d.version)
  /\ draft' = d
  /\ versions' = versions \cup {Version(d, c)}
  /\ audit' = audit \cup {[version |-> d.version, key |-> c.key, changed |-> Changes(d)]}
  /\ used' = used \cup {[use |-> <<c.kind, c.key>>, version |-> d.version]}

\* The version an earlier attempt has made, when this one asks for the same.
Made(v, c, t) ==
  /\ v.occurredAt = t /\ v.version = c.expectedVersion + 1
  /\ \/ c.kind = "create" /\ v.values = c.changes
     \/ /\ c.kind = "revise"
        /\ \E u \in versions : /\ u.version = c.expectedVersion
                               /\ v.values = Changed(u.values, c.changes)

\* A retry is told the version its key made.
Replay(p) ==
  /\ Pending(p)
  /\ \E v \in versions :
       /\ [use |-> <<cmd[p].kind, cmd[p].key>>, version |-> v.version] \in used
       /\ Made(v, cmd[p], now[p])
       /\ Tell(p, "replayed", v.version)
  /\ UNCHANGED <<draft, versions, audit, used>>

\* A second creation that was checked before the first committed gets the
\* database's own words for a conflict.
Refuse(p) ==
  LET c == cmd[p] IN
  /\ Pending(p)
  /\ \/ draft # Null /\ draft.version # c.expectedVersion /\ Tell(p, "version_conflict", 0)
     \/ draft # Null /\ c.kind = "create" /\ Tell(p, "database_error", 0)
     \/ draft = Null /\ c.kind = "revise" /\ Tell(p, "not_found", 0)
     \/ ~Unused(c) /\ Tell(p, "idempotency_conflict", 0)
     \/ ~Suits(c, now[p]) /\ Tell(p, "refused", 0)
  /\ UNCHANGED <<draft, versions, audit, used>>

\* The attempt dies, and has had no effect.
Fail(p) == Pending(p) /\ Tell(p, "crashed", 0) /\ UNCHANGED <<draft, versions, audit, used>>

-----------------------------------------------------------------------------
Init ==
  /\ draft = Null
  /\ versions = {} /\ audit = {} /\ used = {}
  /\ cmd = [p \in Attempts |-> Null]
  /\ now = [p \in Attempts |-> Null]
  /\ told = [p \in Attempts |-> [outcome |-> "none", version |-> 0]]

Next == \E p \in Attempts : Take(p) \/ Apply(p) \/ Replay(p) \/ Refuse(p) \/ Fail(p)

Spec == Init /\ [][Next]_ledgerVars
=============================================================================
