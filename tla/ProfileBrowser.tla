---------------------------- MODULE ProfileBrowser ----------------------------
(***************************************************************************)
(* The guided profile page in one browser tab: a draft in memory, an item  *)
(* of the tab's sessionStorage, and a timer that restores the one from the *)
(* other after the page is already there to be edited.  New releases are   *)
(* deployed meanwhile, and a page keeps the code it was loaded with.       *)
(***************************************************************************)
EXTENDS ProfileDraft

CONSTANTS
  Sections,
  SectionOf,    \* the section each field is edited in
  Times,        \* what the browser's clock may show; its owner may set it back
  InitialTime,  \* INITIAL_TIME, the creation time of every empty draft
  MaxVersion    \* bound: the versions a draft is edited up to

ASSUME BrowserAssumption ==
  /\ Times \subseteq Nat /\ InitialTime \in Nat /\ MaxVersion \in Nat \ {0}
  /\ SectionOf \in [Fields -> Sections] /\ "business" \in Sections

VARIABLES
  release,   \* the playbook version of the code that is deployed
  storage,   \* the item of sessionStorage: a draft, or Null
  page,      \* "closed", "open", or "crashed" after an error while rendering
  loaded,    \* the playbook version of the code the page runs
  draft,     \* React state: the draft in memory
  status,    \* React state: the save status
  hydrated,  \* React state: hasLoadedStorage
  section,   \* React state: activeSection
  touched    \* React state: touchedFields

vars == <<release, storage, page, loaded, draft, status, hydrated, section, touched>>

-----------------------------------------------------------------------------
(* The page's life.                                                        *)

\* createEmptyDraft.
EmptyDraft(playbook) ==
  NewDraft([playbook |-> playbook, changes |-> [f \in {} |-> Null]], InitialTime)

\* The first render: every piece of state at its initial value.
Open ==
  /\ page' = "open"
  /\ loaded' = release
  /\ draft' = EmptyDraft(release)
  /\ status' = "not saved yet"
  /\ hydrated' = FALSE
  /\ section' = "business"
  /\ touched' = {}
  /\ UNCHANGED <<release, storage>>

Deploy ==
  /\ release' \in Playbooks \ {release}
  /\ UNCHANGED <<storage, page, loaded, draft, status, hydrated, section, touched>>

\* The tab goes, and its sessionStorage with it.
CloseTab ==
  /\ page' = "closed"
  /\ storage' = Null
  /\ UNCHANGED <<release, loaded, draft, status, hydrated, section, touched>>

-----------------------------------------------------------------------------
(* The hydration timer.                                                    *)

\* Variant for a mutant: the version of the playbook is not compared.
ReadableUnderAny(item) == TRUE

\* parseStoredDraft accepts the item: it belongs to the playbook version of
\* this code, whose fields are the only ones it has.
Readable(item) == item.playbook = loaded /\ Known(item.values, loaded)

\* Variant for a mutant: a draft that was edited meanwhile is not replaced.
RestoreUntouched ==
  /\ draft' = IF touched = {} THEN storage ELSE draft
  /\ status' = IF touched = {} THEN "restored" ELSE status
  /\ UNCHANGED storage

Restore == draft' = storage /\ status' = "restored" /\ UNCHANGED storage

Discard == storage' = Null /\ status' = "removed" /\ UNCHANGED draft

\* The timer's setState calls and the render that follows them are one step: React
\* is taken to render what the timer set before the owner's next event, so that
\* saveDraft, which writes the draft of the last render, writes the restored one.
Hydrate ==
  /\ page = "open" /\ ~hydrated
  /\ hydrated' = TRUE
  /\ \/ storage = Null /\ UNCHANGED <<storage, draft, status>>
     \/ storage # Null /\ Readable(storage) /\ Restore
     \/ storage # Null /\ ~Readable(storage) /\ Discard
  /\ UNCHANGED <<release, page, loaded, section, touched>>

-----------------------------------------------------------------------------
(* What the owner does; none of it waits for the timer.                    *)

\* changeField: an input that is blank deletes the field.  A revision that
\* throws inside the state update takes the page down.
Edit ==
  /\ page = "open" /\ draft.version < MaxVersion
  /\ \E f \in {g \in FieldsOf[loaded] : SectionOf[g] = section},
        input \in Values \cup {Null}, t \in Times :
       LET change == [playbook |-> loaded, changes |-> [g \in {f} |-> input]] IN
       IF Revisable(draft, change, t)
       THEN /\ draft' = Revised(draft, change, t)
            /\ status' = "unsaved"
            /\ touched' = touched \cup {f}
            /\ UNCHANGED page
       ELSE /\ page' = "crashed"
            /\ UNCHANGED <<draft, status, touched>>
  /\ UNCHANGED <<release, storage, loaded, hydrated, section>>

\* Variant for a mutant: the status is set although the write may be refused.
SaveMaybe ==
  /\ page = "open"
  /\ storage' \in {storage, draft}
  /\ status' = "saved"
  /\ UNCHANGED <<release, page, loaded, draft, hydrated, section, touched>>

\* saveDraft.  When setItem throws (a full or forbidden storage), the click
\* handler ends before any state is set.
Save ==
  /\ page = "open"
  /\ storage' = draft
  /\ status' = "saved"
  /\ UNCHANGED <<release, page, loaded, draft, hydrated, section, touched>>

\* moveSection and the section rail.
Move ==
  /\ page = "open"
  /\ section' \in Sections \ {section}
  /\ UNCHANGED <<release, storage, page, loaded, draft, status, hydrated, touched>>

-----------------------------------------------------------------------------
Init ==
  /\ release \in Playbooks
  /\ storage = Null
  /\ page = "closed"
  /\ loaded = release
  /\ draft = EmptyDraft(release)
  /\ status = "not saved yet"
  /\ hydrated = FALSE
  /\ section = "business"
  /\ touched = {}

Next == Open \/ Deploy \/ CloseTab \/ Hydrate \/ Edit \/ Save \/ Move

Spec == Init /\ [][Next]_vars
-----------------------------------------------------------------------------
(* Properties.                                                             *)

\* React state and storage keep their types, and whatever an older or newer
\* release has stored, the draft on the page is one its own code can render
\* and revise: validation never throws.
TypeOK ==
  /\ release \in Playbooks /\ loaded \in Playbooks
  /\ storage \in Draft \cup {Null}
  /\ page \in {"closed", "open", "crashed"}
  /\ draft \in Draft /\ draft.createdAt <= draft.updatedAt
  /\ draft.playbook = loaded /\ Known(draft.values, loaded)
  /\ status \in {"not saved yet", "unsaved", "saved", "restored", "removed"}
  /\ hydrated \in BOOLEAN
  /\ section \in Sections
  /\ touched \subseteq FieldsOf[loaded]

\* The status line, once it is shown, never claims a saved draft that the
\* storage does not hold, nor work to save when there is none: saved and
\* restored mean that the item is the draft on the page, whatever was edited,
\* saved or deployed before the timer ran.
StatusTellsTruth ==
  page = "open" /\ hydrated =>
    /\ status \in {"saved", "restored"} <=> storage = draft
    /\ status \in {"not saved yet", "removed"} => storage = Null
    /\ status = "not saved yet" => draft = EmptyDraft(loaded)

\* A saved draft is only replaced by a later version of itself that differs in
\* fields its owner has touched, and only removed when this release cannot read
\* it.  The exception is the code's: until the timer has run, the save button
\* stores a draft that started empty.
SavedDraftSurvives ==
  [][storage # Null /\ storage' # storage /\ page' = "open" =>
       \/ ~hydrated /\ (storage' = Null => ~Readable(storage))
       \/ /\ hydrated /\ storage' # Null
          /\ storage'.version > storage.version
          /\ storage'.createdAt = storage.createdAt
          /\ \A f \in Fields : FieldValue(storage', f) # FieldValue(storage, f) => f \in touched]_vars
=============================================================================
