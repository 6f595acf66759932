---------------------------- MODULE BrowserProofs ----------------------------
(***************************************************************************)
(* Theorems about the profile page: what its status line claims, and what  *)
(* becomes of a saved draft, for every set of releases, fields, values and *)
(* clock times.                                                            *)
(***************************************************************************)
EXTENDS ProfileBrowser, TLAPS

-----------------------------------------------------------------------------
(* The inductive invariant.                                                *)

\* A draft whose times are in order.
Sound(d) == d \in Draft /\ d.createdAt <= d.updatedAt

\* Draft d came from the saved draft s by edits of touched fields.
ContinuesFrom(d, s) ==
  /\ s.version <= d.version /\ s.createdAt = d.createdAt
  /\ \A f \in Fields : FieldValue(d, f) # FieldValue(s, f) => f \in touched

\* Before the timer the page knows nothing of what is stored; it may only have
\* saved over it.
BeforeTimer ==
  /\ status \in {"not saved yet", "unsaved", "saved"}
  /\ status = "saved" => storage = draft
  /\ status = "not saved yet" => draft = EmptyDraft(loaded)

\* After it the stored draft, if there is one, is what the draft came from.
AfterTimer ==
  /\ StatusTellsTruth
  /\ storage # Null => ContinuesFrom(draft, storage)
  /\ storage # Null /\ status = "unsaved" => storage.version < draft.version

BrowserInv ==
  /\ TypeOK
  /\ storage # Null => Sound(storage)
  /\ page = "open" => IF hydrated THEN AfterTimer ELSE BeforeTimer

-----------------------------------------------------------------------------
(* Drafts.                                                                 *)

LEMMA EmptyIsSound ==
  ASSUME NEW b \in Playbooks
  PROVE  /\ Sound(EmptyDraft(b)) /\ EmptyDraft(b).playbook = b
         /\ Known(EmptyDraft(b).values, b)
<1> DEFINE none == [f \in {} |-> Null]
<1>1. none \in [{} -> Values] /\ {} \in SUBSET Fields /\ DOMAIN none = {}
  OBVIOUS
<1>2. none \in ValueMaps
  BY <1>1 DEF ValueMaps
<1>3. InitialTime \in Nat
  BY BrowserAssumption
<1> HIDE DEF none
<1>4. EmptyDraft(b) = [playbook |-> b, values |-> none, version |-> 1,
                       createdAt |-> InitialTime, updatedAt |-> InitialTime]
  BY DEF EmptyDraft, NewDraft, none
<1>5. QED BY <1>1, <1>2, <1>3, <1>4 DEF Sound, Draft, Known

\* The change of one field leaves the values of all others as they were.
LEMMA OneFieldChanged ==
  ASSUME NEW b \in Playbooks, NEW values \in ValueMaps, Known(values, b),
         NEW f \in FieldsOf[b], NEW changes, DOMAIN changes = {f},
         changes[f] \in Values \cup {Null}, NEW new, new = Changed(values, changes)
  PROVE  /\ new \in ValueMaps /\ Known(new, b)
         /\ \A g \in Fields \ {f} : /\ g \in DOMAIN new <=> g \in DOMAIN values
                                    /\ g \in DOMAIN new => new[g] = values[g]
<1> DEFINE D == {g \in DOMAIN values \cup {f} : g \in {f} => changes[g] # Null}
<1>2. new = [g \in D |-> IF g \in {f} THEN changes[g] ELSE values[g]]
  BY DEF Changed
<1>3. PICK S \in SUBSET Fields : values \in [S -> Values]
  BY DEF ValueMaps
<1>4. f \in Fields /\ D \subseteq Fields
  BY <1>3 DEF Fields
<1>5. new \in [D -> Values]
  <2>1. ASSUME NEW g \in D PROVE (IF g \in {f} THEN changes[g] ELSE values[g]) \in Values
    BY <1>3, <2>1
  <2>2. QED BY <1>2, <2>1
<1>6. new \in ValueMaps
  BY <1>4, <1>5 DEF ValueMaps
<1>7. Known(new, b)
  BY <1>5 DEF Known
<1>8. QED BY <1>2, <1>6, <1>7

\* What an edit that does not throw makes of the draft.
LEMMA EditedDraft ==
  ASSUME NEW b \in Playbooks, NEW d, Sound(d), d.playbook = b, Known(d.values, b),
         NEW f \in FieldsOf[b], NEW input \in Values \cup {Null}, NEW t \in Times,
         NEW c, c = [playbook |-> b, changes |-> [g \in {f} |-> input]],
         Revisable(d, c, t), NEW e, e = Revised(d, c, t)
  PROVE  /\ Sound(e) /\ e.playbook = b /\ Known(e.values, b)
         /\ e.version = d.version + 1 /\ e.createdAt = d.createdAt
         /\ \A g \in Fields \ {f} : FieldValue(e, g) = FieldValue(d, g)
<1>1. d \in Draft /\ d.values \in ValueMaps /\ t \in Nat /\ d.updatedAt <= t
  BY BrowserAssumption DEF Sound, Draft, Revisable
<1> DEFINE new == Changed(d.values, c.changes)
<1>2. /\ new \in ValueMaps /\ Known(new, b)
      /\ \A g \in Fields \ {f} : /\ g \in DOMAIN new <=> g \in DOMAIN d.values
                                 /\ g \in DOMAIN new => new[g] = d.values[g]
  <2>1. DOMAIN c.changes = {f} /\ c.changes[f] \in Values \cup {Null}
    OBVIOUS
  <2> HIDE DEF new
  <2>2. new = Changed(d.values, c.changes)
    BY DEF new
  <2>3. QED BY ONLY <1>1, <2>1, <2>2, Known(d.values, b), b \in Playbooks,
                    f \in FieldsOf[b], OneFieldChanged
<1> HIDE DEF new
<1>3. e = [d EXCEPT !.values = new, !.version = d.version + 1, !.updatedAt = t]
  BY DEF Revised, new
<1>4. /\ e.values = new /\ e.version = d.version + 1 /\ e.updatedAt = t
      /\ e.playbook = b /\ e.createdAt = d.createdAt
  BY <1>1, <1>3 DEF Draft
<1>5. e \in Draft
  <2>1. new \in ValueMaps /\ d.version + 1 \in Nat \ {0}
    BY <1>1, <1>2 DEF Draft
  <2>2. QED BY ONLY <1>1, <1>3, <2>1 DEF Draft
<1>6. e.createdAt <= e.updatedAt
  BY <1>1, <1>4 DEF Sound, Draft
<1>7. \A g \in Fields \ {f} : FieldValue(e, g) = FieldValue(d, g)
  <2>1. TAKE g \in Fields \ {f}
  <2>2. FieldValue(e, g) = IF g \in DOMAIN new THEN new[g] ELSE Null
    BY ONLY <1>4 DEF FieldValue
  <2>3. FieldValue(d, g) = IF g \in DOMAIN d.values THEN d.values[g] ELSE Null
    BY ONLY DEF FieldValue
  <2>4. QED BY ONLY <1>2, <2>1, <2>2, <2>3
<1>8. QED BY <1>2, <1>4, <1>5, <1>6, <1>7 DEF Sound

-----------------------------------------------------------------------------
(* The actions.                                                            *)

LEMMA InitInv == Init => BrowserInv
<1> SUFFICES ASSUME Init PROVE BrowserInv
  OBVIOUS
<1>1. release \in Playbooks /\ "business" \in Sections
  BY BrowserAssumption DEF Init
<1>2. QED BY <1>1, EmptyIsSound DEF Init, BrowserInv, TypeOK, Sound

LEMMA OpenStep ==
  ASSUME BrowserInv, Open
  PROVE  BrowserInv'
<1>1. release \in Playbooks /\ "business" \in Sections
  BY BrowserAssumption DEF BrowserInv, TypeOK
<1>2. TypeOK'
  BY <1>1, EmptyIsSound DEF BrowserInv, TypeOK, Open, Sound
<1>3. BeforeTimer'
  BY DEF Open, BeforeTimer, EmptyDraft
<1>4. QED BY <1>2, <1>3 DEF BrowserInv, Open, Sound

LEMMA DeployStep ==
  ASSUME BrowserInv, Deploy
  PROVE  BrowserInv'
BY DEF BrowserInv, Deploy, TypeOK, Sound, AfterTimer, BeforeTimer, StatusTellsTruth,
       ContinuesFrom, EmptyDraft

LEMMA CloseStep ==
  ASSUME BrowserInv, CloseTab
  PROVE  BrowserInv'
BY DEF BrowserInv, CloseTab, TypeOK, Sound

LEMMA HydrateStep ==
  ASSUME BrowserInv, Hydrate
  PROVE  BrowserInv'
<1>1. /\ page = "open" /\ ~hydrated /\ hydrated' = TRUE
      /\ UNCHANGED <<release, page, loaded, section, touched>>
      /\ TypeOK /\ BeforeTimer /\ draft # Null
  BY DraftAssumption DEF Hydrate, BrowserInv, TypeOK
<1>2. EmptyDraft(loaded)' = EmptyDraft(loaded)
  BY <1>1 DEF EmptyDraft
<1>3. CASE storage = Null /\ UNCHANGED <<storage, draft, status>>
  BY <1>1, <1>2, <1>3 DEF BrowserInv, TypeOK, AfterTimer, BeforeTimer, StatusTellsTruth, Sound
<1>4. CASE storage # Null /\ Readable(storage) /\ Restore
  <2>1. draft' = storage /\ storage' = storage /\ status' = "restored" /\ Sound(storage)
    BY <1>4 DEF BrowserInv, Restore
  <2>2. TypeOK'
    BY <1>1, <1>4, <2>1 DEF TypeOK, Sound, Readable
  <2>3. AfterTimer'
    BY <1>1, <1>4, <2>1 DEF AfterTimer, StatusTellsTruth, ContinuesFrom, Sound, Draft
  <2>4. QED BY <1>1, <2>1, <2>2, <2>3 DEF BrowserInv, Sound
<1>5. CASE storage # Null /\ ~Readable(storage) /\ Discard
  BY <1>1, <1>2, <1>5 DEF BrowserInv, TypeOK, Discard, AfterTimer, StatusTellsTruth, Sound
<1>6. QED BY <1>3, <1>4, <1>5 DEF Hydrate

LEMMA EditStep ==
  ASSUME BrowserInv, Edit
  PROVE  BrowserInv'
<1>1. /\ page = "open" /\ TypeOK /\ Sound(draft)
      /\ UNCHANGED <<release, storage, loaded, hydrated, section>>
  BY DEF BrowserInv, Edit, TypeOK, Sound
<1>2. PICK f \in FieldsOf[loaded], input \in Values \cup {Null}, t \in Times :
        LET change == [playbook |-> loaded, changes |-> [g \in {f} |-> input]] IN
        IF Revisable(draft, change, t)
        THEN /\ draft' = Revised(draft, change, t)
             /\ status' = "unsaved"
             /\ touched' = touched \cup {f}
             /\ UNCHANGED page
        ELSE page' = "crashed" /\ UNCHANGED <<draft, status, touched>>
  BY DEF Edit
<1> DEFINE change == [playbook |-> loaded, changes |-> [g \in {f} |-> input]]
<1>3. CASE Revisable(draft, change, t)
  <2>1. /\ draft' = Revised(draft, change, t) /\ status' = "unsaved"
        /\ touched' = touched \cup {f} /\ page' = "open"
    BY <1>1, <1>2, <1>3
  <2>2. loaded \in Playbooks /\ draft.playbook = loaded /\ Known(draft.values, loaded)
    BY <1>1 DEF TypeOK
  <2>3. /\ Sound(draft') /\ draft'.playbook = loaded /\ Known(draft'.values, loaded)
        /\ draft'.version = draft.version + 1 /\ draft'.createdAt = draft.createdAt
        /\ \A g \in Fields \ {f} : FieldValue(draft', g) = FieldValue(draft, g)
    BY <1>1, <1>3, <2>1, <2>2, EditedDraft
  <2>4. TypeOK'
    BY <1>1, <1>2, <2>1, <2>3 DEF TypeOK, Sound
  <2>5. draft.version \in Nat
    BY <1>1 DEF Sound, Draft
  <2>6. CASE ~hydrated
    BY <1>1, <2>1, <2>4, <2>6 DEF BrowserInv, BeforeTimer, Sound
  <2>7. CASE hydrated
    <3>1. ASSUME storage # Null
          PROVE  ContinuesFrom(draft, storage)' /\ storage.version < draft'.version
      <4>1. Sound(storage) /\ ContinuesFrom(draft, storage) /\ storage.version \in Nat
        BY <1>1, <2>7, <3>1 DEF BrowserInv, AfterTimer, Sound, Draft
      <4>2. storage.version < draft'.version /\ storage.createdAt = draft'.createdAt
        BY <2>3, <2>5, <4>1 DEF ContinuesFrom
      <4>3. \A g \in Fields : FieldValue(draft', g) # FieldValue(storage, g) => g \in touched'
        BY <2>1, <2>3, <4>1 DEF ContinuesFrom
      <4>4. \A g \in Fields : FieldValue(storage', g) = FieldValue(storage, g)
        BY <1>1
      <4>5. QED BY <1>1, <2>3, <2>5, <4>1, <4>2, <4>3, <4>4 DEF ContinuesFrom, Sound, Draft, FieldValue
    <3>2. draft' # Null /\ storage' # draft'
      <4>1. draft' # Null
        BY <2>3, DraftAssumption DEF Sound
      <4>2. storage # Null => storage.version \in Nat
        BY <1>1, <2>7 DEF BrowserInv, Sound, Draft
      <4>3. QED BY <1>1, <3>1, <4>1, <4>2
    <3>3. StatusTellsTruth'
      BY <2>1, <3>2 DEF StatusTellsTruth
    <3>4. AfterTimer'
      BY <1>1, <3>1, <3>3 DEF AfterTimer
    <3>5. QED BY <1>1, <2>4, <2>7, <3>4 DEF BrowserInv, Sound
  <2>8. QED BY <2>6, <2>7
<1>4. CASE ~Revisable(draft, change, t)
  BY <1>1, <1>2, <1>4 DEF BrowserInv, TypeOK, Sound
<1>5. QED BY <1>3, <1>4

LEMMA SaveStep ==
  ASSUME BrowserInv, Save
  PROVE  BrowserInv'
<1>1. /\ page = "open" /\ storage' = draft /\ status' = "saved"
      /\ UNCHANGED <<release, page, loaded, draft, hydrated, section, touched>>
      /\ TypeOK /\ Sound(draft)
  BY DEF Save, BrowserInv, TypeOK, Sound
<1>2. TypeOK'
  BY <1>1 DEF TypeOK
<1>3. AfterTimer' /\ BeforeTimer'
  BY <1>1 DEF AfterTimer, BeforeTimer, StatusTellsTruth, ContinuesFrom, Sound, Draft
<1>4. QED BY <1>1, <1>2, <1>3 DEF BrowserInv, Sound

LEMMA MoveStep ==
  ASSUME BrowserInv, Move
  PROVE  BrowserInv'
BY DEF BrowserInv, Move, TypeOK, Sound, AfterTimer, BeforeTimer, StatusTellsTruth,
       ContinuesFrom, EmptyDraft

LEMMA NextInv == BrowserInv /\ [Next]_vars => BrowserInv'
<1>1. CASE UNCHANGED vars
  BY <1>1 DEF vars, BrowserInv, TypeOK, Sound, AfterTimer, BeforeTimer, StatusTellsTruth,
              ContinuesFrom, EmptyDraft
<1>2. QED BY <1>1, OpenStep, DeployStep, CloseStep, HydrateStep, EditStep, SaveStep, MoveStep
             DEF Next

LEMMA BrowserInvariance == Spec => []BrowserInv
BY InitInv, NextInv, PTL DEF Spec

-----------------------------------------------------------------------------
(* Theorems.                                                               *)

\* React state and storage keep their types, and the draft on the page is always
\* one its own code can render and revise (TypeOK).
THEOREM TypeCorrect == Spec => []TypeOK
<1>1. BrowserInv => TypeOK
  BY DEF BrowserInv
<1>2. QED BY <1>1, BrowserInvariance, PTL

\* The status line, once it is shown, claims neither a saved draft that is not
\* stored nor work to save when there is none (StatusTellsTruth).
THEOREM StatusCorrect == Spec => []StatusTellsTruth
<1>1. BrowserInv => StatusTellsTruth
  BY DEF BrowserInv, AfterTimer, StatusTellsTruth
<1>2. QED BY <1>1, BrowserInvariance, PTL

\* A saved draft is only replaced by a later version of itself that differs in
\* touched fields, and only removed when the release cannot read it
\* (SavedDraftSurvives).
THEOREM SavedDraftKept == Spec => SavedDraftSurvives
<1> DEFINE Kept ==
      storage # Null /\ storage' # storage /\ page' = "open" =>
       \/ ~hydrated /\ (storage' = Null => ~Readable(storage))
       \/ /\ hydrated /\ storage' # Null
          /\ storage'.version > storage.version
          /\ storage'.createdAt = storage.createdAt
          /\ \A f \in Fields : FieldValue(storage', f) # FieldValue(storage, f) => f \in touched
<1>1. BrowserInv /\ [Next]_vars => [Kept]_vars
  <2> SUFFICES ASSUME BrowserInv, Next, storage # Null, storage' # storage, page' = "open"
               PROVE  \/ ~hydrated /\ (storage' = Null => ~Readable(storage))
                      \/ /\ hydrated /\ storage' # Null
                         /\ storage'.version > storage.version
                         /\ storage'.createdAt = storage.createdAt
                         /\ \A f \in Fields :
                              FieldValue(storage', f) # FieldValue(storage, f) => f \in touched
    OBVIOUS
  <2>1. CASE Hydrate
    BY <2>1 DEF Hydrate, Restore
  <2>2. CASE Save
    <3>1. /\ page = "open" /\ storage' = draft /\ draft # Null /\ Sound(draft)
      BY <2>2, DraftAssumption DEF Save, BrowserInv, TypeOK, Sound
    <3>2. CASE hydrated
      <4>1. ContinuesFrom(draft, storage) /\ StatusTellsTruth /\ Sound(storage)
        BY <3>1, <3>2 DEF BrowserInv, AfterTimer
      <4>2. status = "unsaved"
        BY <3>1, <3>2, <4>1 DEF StatusTellsTruth, BrowserInv, TypeOK
      <4>3. storage.version < draft.version
        BY <3>1, <3>2, <4>2 DEF BrowserInv, AfterTimer
      <4>4. QED BY <3>1, <3>2, <4>1, <4>3 DEF ContinuesFrom, Sound, Draft
    <3>3. QED BY <3>1, <3>2
  <2>3. ASSUME Open \/ Deploy \/ CloseTab \/ Edit \/ Move PROVE FALSE
    BY <2>3 DEF Open, Deploy, CloseTab, Edit, Move
  <2>4. QED BY <2>1, <2>2, <2>3 DEF Next
<1>2. QED BY <1>1, BrowserInvariance, PTL DEF Spec, SavedDraftSurvives
=============================================================================
