----------------------------- MODULE ProfileDraft -----------------------------
(***************************************************************************)
(* The domain of a business profile's draft: its values under a versioned  *)
(* playbook, and its revisions.  The server keeps drafts in its tables,    *)
(* the profile page keeps one in the browser.                              *)
(***************************************************************************)
EXTENDS Integers, FiniteSets

CONSTANTS
  Playbooks,  \* playbook versions deployed
  FieldsOf,   \* the field keys each of them declares
  Values,
  Null

ASSUME ValueAssumption == Null \notin Values

Fields == UNION {FieldsOf[b] : b \in Playbooks}
ValueMaps == UNION {[S -> Values] : S \in SUBSET Fields}
ChangeMaps == UNION {[S -> Values \cup {Null}] : S \in SUBSET Fields}

Draft == [playbook : Playbooks, values : ValueMaps, version : Nat \ {0},
          createdAt : Nat, updatedAt : Nat]

ASSUME DraftAssumption == Null \notin Draft

NewDraft(c, t) ==
  [playbook |-> c.playbook, values |-> c.changes, version |-> 1, createdAt |-> t, updatedAt |-> t]

\* Variant for a mutant: the changes replace the draft's values.
Replaced(values, changes) ==
  [f \in {g \in DOMAIN changes : changes[g] # Null} |-> changes[f]]

\* The values after the changes: Null deletes a field, others stay.
Changed(values, changes) ==
  [f \in {g \in DOMAIN values \cup DOMAIN changes : g \in DOMAIN changes => changes[g] # Null} |->
     IF f \in DOMAIN changes THEN changes[f] ELSE values[f]]

Revised(current, c, t) ==
  [current EXCEPT !.values = Changed(current.values, c.changes),
                  !.version = current.version + 1, !.updatedAt = t]

FieldValue(d, f) == IF f \in DOMAIN d.values THEN d.values[f] ELSE Null

Known(values, playbook) == DOMAIN values \subseteq FieldsOf[playbook]

\* Variant for a mutant: the clock is not compared with the draft's.
RevisableAnyTime(current, c, t) ==
  current.playbook = c.playbook /\ Known(c.changes, c.playbook)

\* assertDraftMatchesPlaybook, the timestamp and the changed keys.
Revisable(current, c, t) ==
  /\ current.playbook = c.playbook
  /\ current.updatedAt <= t
  /\ Known(c.changes, c.playbook)
=============================================================================
