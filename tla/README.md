# NovusSync in TLA+

NovusSync keeps what a small business has approved about itself (prices,
policies, claims) and lets campaigns and a concierge use nothing else. Its core
is a set of owner commands over PostgreSQL: each is a stateless invocation that
reads, decides in a pure domain function and commits in one transaction. What
can go wrong lies between those steps: two owners at once, a retry after a lost
answer, a crash before COMMIT, a value that changed since it was read.

## The system

| Part | State | Operations | Talks to |
|---|---|---|---|
| Fact review (`packages/application`, `domain`, `db`: `fact-review*`) | `approved_fact_version`, `fact_review_decision`, `idempotency_record`, `audit_event`; an advisory lock per field | `executeFactReview`: look the key up, read candidate and current fact, decide, `commitReview` | shares the fact table, the records and the audit trail with reverification |
| Fact reverification (`fact-reverification*`, `fact-freshness.ts`) | the same tables, no lock | `executeFactReverification`, `commitReverification`, the read-only due queue | races with reviews for the next version of a field |
| Approved context (`approved-context*`) | `verified_context_snapshot`, `audit_event` | `queryApprovedContext`: authorize, load, project, persist | reads the fact table while owners write it |
| Lead lifecycle (`lead-lifecycle-*`, `domain/src/index.ts`) | `lead_lifecycle`, `lead_lifecycle_transition`, `audit_event`; an update trigger | create, transition | - |
| Business profile drafts (`business-profile*`) | `business_profile_draft`, its versions, records, audit trail | create, revise | the playbook in `vertical-yoga` |
| Source proposals (`source-proposal*`) | sources, captures, batches, candidates, proposal decisions | persist a batch, record a decision | its candidates are what a review decides on |
| Authorization, workspace directory (`authorization.ts`, `workspace-access-*`, `workspace-directory*`, migrations 0005 and 0012) | actors, workspaces, memberships, support grants | verify the session, resolve access; list workspaces | every command starts with it |
| Tenant transactions, RLS | the transaction's role and settings | one READ COMMITTED transaction per repository method | all repositories |
| Outbox, webhook inbox, effect policy, jobs | tables without code; a constant denial; a bootstrap | - | - |
| Freshness pages (`apps/web`: `fact-reverification/*`, `reverification/actions.ts`) | what each open tab shows; the form a request came from | load the queue, submit a form, follow the redirect, show its notice | call reverification; reviews run meanwhile |
| Profile editor (`apps/web`: `profile-client.tsx`) | React state, one item of the tab's `sessionStorage` | edit, save, change section, restore by a timer | the domain of profile drafts; nothing on the server |
| The rest of the web application, UI kit, configuration, credential envelope, playbook | none that a model could follow | pages, validation, encryption | call the commands |

What is hard here, and which property is for it, is the list `hazards` of
`PROJECT.json`, each at its line. In short: reviews take a lock and
reverifications do not; replay is looked up before, and claimed inside, the
transaction; every server has its own clock; leads have no idempotency records
at all; a profile revision may wait between reading a row and updating it; a
snapshot is loaded after the time it is as of; proposals take no lock at all;
access can be revoked between being looked up and being used; a page shows what
was true when it was loaded, and its timer restores a draft after the owner may
have edited another one.

What makes each part correct: facts and decisions are gap-free histories with
rising verification times, a command has all of its effects or none and at most
once per key, and every attempt is answered; a lead's row, history and audit
trail agree and follow the stage machine; a draft equals its last version and
loses no owner's change; a snapshot asserts only what one instant of the
approved history allows, and is stored and audited once; a proposal graph is
stored whole under one key, with provenance that holds of the stored rows; a
request is let in on access that was held while it ran, and only then; what a
page says happened did happen, and what it offers is done.

## Modules

| Module | Models | Extends / uses |
|---|---|---|
| `FactStore` | the tables review and reverification share, and what one transaction sees of another: claim, unique keys, commit, crash | - |
| `FactReview` | `executeFactReview`, `reviewFactCandidate`, `commitReview` | `FactStore` |
| `FactReverification` | `executeFactReverification`, `commitReverification`, the freshness policy | `FactStore` |
| `FactCommands` | both together, their properties and the refinement mapping | the two above; `Ledger == INSTANCE FactLedger` |
| `FactLedger` | the abstract specification: commands that take effect atomically, once per key | - |
| `ReverificationPages` | the queue, the page, its forms, the server action and its notice, in several tabs | `FactCommands` |
| `ApprovedContext` | `queryApprovedContext` and the page that shows its snapshot, beside the owners' commits | - |
| `LeadStages` | the stage machine, commands and rows of a lead | - |
| `LeadLifecycle` | the lead service and repository, with the database trigger | `LeadStages`; `Ledger == INSTANCE LeadLedger` |
| `LeadLedger` | the abstract specification: one atomic move per command, or a truthful refusal | `LeadStages` |
| `ProfileDraft` | the domain of a draft: values, revisions, when one is refused | - |
| `BusinessProfile` | the draft service and repository | `ProfileDraft`; `Ledger == INSTANCE DraftLedger` |
| `DraftLedger` | the abstract specification: an atomic draft, its history and its audit trail | `ProfileDraft` |
| `ProfileBrowser` | the profile editor of one tab, its stored draft, and releases | `ProfileDraft` |
| `SourceProposals` | `prepareSourceProposalBatch`, `persistBatch`, `recordDecision` | - |
| `WorkspaceAccess` | `resolveAuthenticatedActor`, the commands' own check, `queryWorkspaceDirectory`, the two SQL functions | - |
| `FactProofs` | theorems about facts: history; effects, decisions and answers; waiting; the refinement | `FactCommands` |
| `PagesProofs`, `BrowserProofs` | theorems about the freshness pages and the profile editor | `ReverificationPages` and `FactProofs`; `ProfileBrowser` |
| `LeadProofs`, `ProfileProofs`, `ProposalProofs`, `AccessProofs`, `ContextProofs` | theorems about leads, drafts, proposals, access and snapshots | `LeadLifecycle`, `BusinessProfile`, `SourceProposals`, `WorkspaceAccess`, `ApprovedContext` |
| `MC*` | constants for TLC | the module they are named after |

### How code becomes actions

Every statement of a repository transaction at which another transaction can be
seen is an action; statements between which nothing can be observed are one.
For a review (`pc` in brackets):

- `StartReview` [idle]: `assertContext` and `findReviewByIdempotency`;
- `DecideReview` [decide]: `findCandidate`, `findCurrentFact`, the domain verdict in its order;
- `ClaimReview` [claim]: `INSERT ... ON CONFLICT DO NOTHING` of the idempotency
  record, which waits for a running transaction with the same key;
- `LockReviewedField` [lock], `CheckReview` [check]: `pg_advisory_xact_lock`,
  then the candidate, the decision version and the current fact once more;
- `InsertReviewedFact`, `InsertDecision` [insert_fact, insert_decision]: unique
  keys wait for uncommitted rows and fail on committed ones;
- `CommitReview` [commit]: audit event, completion of the record, COMMIT;
- `Crash`, anywhere: rollback.

A reverification goes idle, decide, claim, check, insert_fact, commit, without
a lock. The table variables hold committed rows; the rows a running transaction
has inserted are a function of its `pc` and `plan` (`PendingFacts`), so rolling
back is leaving the transaction and nothing has to be undone. A retry is
another attempt with the same command. Two reads of the candidate are one
because candidate rows are immutable. A process that dies after COMMIT and
before its answer is sent is covered as well: whoever retries is a further
attempt, and no action looks at another attempt's `reply`.

In `LeadLifecycle` and `BusinessProfile` a second transaction's UPDATE waits
while an uncommitted one holds the row (`Held`, `DraftHeld`) and then evaluates
its WHERE clause on the committed row, as READ COMMITTED does. Leads have no
idempotency records, so a worker goes back to idle and may be sent the same
command for ever; in the other modules each attempt runs once.

`ApprovedContext` takes the owners' commands as the atomic appends that
`ImplementsLedger` shows them to be, keeps the fact table as the sequence of its
commits so that an instant is a prefix, and lets a review verify at any time up
to the clock, since a review captures its time before it commits. Query steps
are `Begin` (clock, `authorize`, `validateQuery`), `Load` (the one SELECT),
`Persist` (the projection, the insert and its audit event, one transaction),
`Return`, which also makes the page: a value that is neither text nor a list of
texts makes `formatFactValue` throw, and the whole page unavailable, after the
snapshot was stored.

`ReverificationPages` puts a browser in front of `FactCommands`. A tab holds the
items it was loaded with (`Open`, at some server's clock), so its forms grow
stale; `Submit` is the server action's POST, which starts a reverification whose
key is a function of the fact and version the form shows; the redirect is
another request, so `ShowAnswer` loads the page anew, on another clock, with the
notice in its address. Reloading keeps the notice, submitting twice leaves the
first invocation running on its own, and every other command of `FactCommands`
may run in between.

`ProfileBrowser` is one tab: `Open` is the first render with React's initial
state, `Hydrate` the `setTimeout` of the effect, which the owner's `Edit`, `Save`
and `Move` do not wait for; `Deploy` changes the code the next load gets, not that
of the page that is open. `Hydrate` is the timer together with the render its
`setState` calls lead to: `saveDraft` (`profile-client.tsx`) writes the draft of the
last render, so a click handled between the two would still write the old draft.
That React renders the timer's updates before the owner's next event is an
assumption on its scheduler, under which `StatusTellsTruth` and
`SavedDraftSurvives`, and their theorems, hold. The clock may be set back, which makes
`reviseBusinessProfile` throw inside a state update: the page is then `crashed`
until it is opened again, and what was saved is still there. `sessionStorage` is
the tab's, so there is no second tab to race with, and `CloseTab` loses it.

In `SourceProposals` a batch goes extract, claim, source, capture, batch_exists,
insert_batch, insert_candidates (a row at a time), commit, and a decision claim,
check_decision, insert_decision, commit. `plan` is the batch or decision, `row`
counts the candidates inserted. The unique indexes are said once: `Stored` are the
keys of committed rows, `Held(p)` those of the rows a running transaction has
inserted, `Wanted(p)` those of the row it inserts next; `Blockers`, the
transactions an insert waits for, follows from them. `DeadlockVictim` is
PostgreSQL's abort of one that waits in a cycle, which two batches naming the
same candidates in opposite orders can form. The extractor is an environment: a
retry may be given another extraction, and so another request under the same
key. Confidence values, the `retryable` flag and the texts of URLs are left out.

`WorkspaceAccess` has one action per await of a request: `Begin` (the server's
clock), `Verify` (the identity provider), `Resolve` or `List` (one statement at the
database's clock), `Command` (the clock once more, role and session). No code of
the repository changes access yet, so `ChangeAccess` is what keys and CHECKs
allow. `Entitlements` says what access means without the joins; the observer
`seen` keeps, while a request runs, each of its instants: the access there was and
the time.

Data is abstracted: field keys, values and ids are strings compared for
equality; a SHA-256 digest is the digested record; time is a small number; whether a
field is time-sensitive, which `fact-freshness.ts` reads off the tokens of its
key, is a set. Tenant, workspace and profile are fixed (but in `WorkspaceAccess`), since every key and every
policy starts with them.

## Runs

| Run | Shows | States, time |
|---|---|---|
| `fact_commands` | with three attempts at eight competing commands (two approvals, three rejections or later reviews, three reverifications, one key reused for another request), crashes anywhere and clocks that disagree: `FactHistory`, `VerifiedAtMonotone`, `DecisionHistory`, `AllOrNothing`, `AnsweredOnce`, `ReverificationPreserves` (the same content, and none confirmed before it is due, with a stored expiry or without), and that the transactions implement `FactLedger`; and that the claims, the lock and the unique indexes never leave everyone waiting (`NeverAllWait`) | 221 thousand, 90 s |
| `fact_retry` | expected violation: a retry is told a stale version (below) | seconds |
| `reverification_pages` | two server invocations, a tab and every command, refused ones included: a notice tells the truth (`NoticeIsTrue`), a form that was offered is not refused for a reason its owner could have seen (`OfferHonoured`), and each attempt that began is answered (`EveryAttemptAnswers`) | 70 thousand, 40 s |
| `lead_race` | two workers race, crash and retry for ever for each of the nine versions up to a conversion, rebooking and follow-up included, with times that go back, a missing reason and an expired session: history, row and audit trail agree, a retry takes effect once, a converted lead was confirmed for its latest booking, and the transactions implement `LeadLedger` | 76 thousand, 30 s |
| `profile_drafts` | three attempts, nine commands, two playbook versions, reused keys, crashes: the draft is its last version (`DraftIsLastVersion`), no owner's change is lost (`NoLostChange`), a key makes one version (`AcceptedOnce`), and the transactions implement `DraftLedger` (which an audit event that tells other changes than were made would refute, `AuditTellsChanges`) | 56 thousand, 12 s |
| `profile_retry`, `profile_playbook` | expected violations (below) | seconds |
| `profile_browser` | one tab over two releases, the second without one of the fields, three clock values, up to four versions: the status line tells the truth, and a saved draft is replaced only by its own later version | 18 thousand, seconds |
| `source_proposals` | three attempts to propose or decide, thirteen extractions (redirected, other digest, too large, before approval, duplicate fields, provider-owned, failed), batches that share sources, captures and candidates, crashes and deadlocks: `AllOrNothing`, `ProvenanceHolds`, `DecisionHistory`, `TruthfulAnswers` | 283 thousand, 50 s |
| `proposal_conflict` | expected violation (below) | seconds |
| `workspace_access` | two requests (five kinds) while access changes twice, sessions and grants end and servers lag: `DirectoryAgrees`, `AdmittedAccessWasHeld` (this access at an instant of the request and the session at every one), `DenialsAreWarranted` | 661 thousand, 90 s |
| `context_snapshots` | two queries over two fields while up to two versions are committed and the clock passes an expiry and a session's end; a row without stored expiry, a disputed one and a value that is no text: a snapshot, and the page that shows it, assert what one instant of the query allows, with reasons an owner can act on, and are stored and audited once | 1.1 million, 80 s |

Why the bounds are enough. A conflict in this code is between two transactions,
and the third attempt is the retry of one of them, which is where a replay can
go wrong; a field has versions 1 to 4, so that a version can be superseded
twice, once by each kind of command. `Times = {1, 2, 4}` with `Window = 3` and
`DueSoon = 1` makes a row fresh, due soon and expired, the seed row without a
stored expiry too (`reverification_pages` needs the last two times only); the theorem that needs
the exact relation is proved for all values. Attempts are model values
compared only for equality, so runs over safety properties use symmetry;
`reverification_pages`, where an invocation is named by the row id it draws, does
not. In `ApprovedContext` a snapshot is wrong because of one commit inside its
query, and the second one separates "newest" from "next".

One tab is enough for the pages: a second submission from it replaces the first
in the tab and not on the server, which is what another tab would do, and every
command another owner could send may run besides. Two invocations are the two
clicks of a double click. `FormKeys` gives each fact and version its own key, as
the text `fact-reverification:<id>:<version>` does; its domain in the run is the
rows that two invocations can leave due. Of the other commands it is assumed that
their keys are not a form's and that the row ids they draw are fresh
(`OtherAssumption`): a form's key is the page's own text, and every row id carries
a random UUID.

A proposal conflict is between two transactions as well, and the third retries or
decides again; `MaxBytes` is small because only the comparison counts. An access
decision is wrong because of one change inside or before the request, and a
second change lets access come back. A saved draft goes wrong through one edit or
save before the timer and one release; versions up to four allow a save, a
reload and a further edit.

`WorkspaceAccess` bounds the clock (`MaxTime`) and the changes (`MaxChanges`);
`ApprovedContext` bounds the clock (`MaxTime`) and the commits (`MaxFacts`);
`ProfileBrowser` bounds the versions (`MaxVersion`); leads are bounded by their
set of commands, each for one version. No run disables the deadlock check: where
a system may come to rest, `Quiescent` stutters when all is answered.

### Fairness

Only `EveryAttemptAnswers` is a liveness property; `reverification_pages` checks
it under `PagesFairSpec`. It assumes weak fairness of each attempt's next step
once it began: a live server goes on executing its request, and PostgreSQL wakes
a waiter when the lock or row it waits for is free. Weak fairness is enough, and
is all that is justified, because a waiting step stays enabled once its holder is
gone: no attempt can take the same key again after it is committed, and a claim
that finds a committed row answers. Nothing forces an attempt to start or to
crash, or an owner to open, submit or reload a page. What the property excludes
is a cycle of waits, and that part of it is also an invariant, `NeverAllWait`,
which is proved for every number of attempts (`NoWaitCycle`): the states claim,
lock, check, insert_fact, insert_decision, commit are passed in that order, and
whoever holds a later resource never waits for an earlier one. What remains
model-checked only is that weak fairness then answers every attempt.

### Refinements

`FactCommands` implements `FactLedger`, `LeadLifecycle` implements `LeadLedger`,
and `BusinessProfile` implements `DraftLedger`; all three are checked by TLC and
proved by TLAPS. In each, a command takes effect at its COMMIT, and every earlier step is invisible unless it gives
an answer. For facts the ledger is, per field, a log of approved versions and,
per candidate, a log of decisions, which the mapping reads off the unordered
tables by version. A key is applied to it once, on exactly the version its owner
saw, and only what was applied is ever replayed; it may refuse at any time, which
is all that `NoFalseStale` (below) leaves true of the code. The ledger of leads
is stricter: it refuses only for a reason that is true of the lead as it is.
For leads the mapping hides `expected` and `seen`, what service and
repository have read, and `done` is "past the commit": that neither the trigger
nor the service's check after the commit ever fails is part of what is shown,
since the ledger has no step for either.

For drafts the mapping keeps the three tables and forgets the hashes of the
records. `DraftLedger` applies a command to the draft *as it is at the COMMIT*,
computes the version row and the changed keys from it, and refuses only for a
reason that holds of it then: so a plan made from an older read, an audit event
computed before the guarded update, and a version number chosen before the
UPDATE waited are all shown to come out as if there had been no interleaving. The
ledger has no step for a unique violation of `business_profile_draft_version` nor
for a replayed version that cannot be restored, so neither branch of the code is
ever taken. Its one `database_error` is the second of two creations, whose
conflict reaches the caller in the driver's words.

### Where the code and its documents disagree

- `fact_retry` / `NoFalseStale`: BRN-003B promises that an identical command
  replays before changed state causes a false stale version and that the claim
  closes concurrent races. `executeFactReview` looks the key up once, before it
  reads the current fact; when the first attempt commits in between, the retry
  fails the version check and never reaches the claim. The effect still happens
  once (`AnsweredOnce`); the answer is wrong.
- `profile_retry` / `RetryReplays`: profile commands are said to replay
  idempotently. The request hash covers the clock of the invocation, and a
  revision compares versions before it looks its key up, so the retry of a
  committed command is told a conflict unless it falls into the same
  millisecond, and a revision even then.
- `profile_playbook` / `PlaybookKept`: the repository restores a draft under
  the caller's playbook version, so the check that the draft belongs to it
  compares the caller with itself.
- `proposal_conflict` / `ConflictIsTold`: an integration test expects a decision on
  a taken version to fail with `version_conflict`. The version is read without a
  lock; of two decisions at once the loser passes the check, fails at the
  unique index and gets PostgreSQL's raw error 23505.

One more was found by reading and needs no run: the directory counts facts of
governance status `approved` (0012:71), which the CHECK of 0011 allows no row to
have, so every profile is listed with no approved facts.

Some behaviour of the pages is worth knowing though no document denies it. Setting
the clock back makes the next edit throw and the profile editor disappear. A
release with a new playbook version removes the stored draft. The texts say that
a draft is kept "in this browser", while `sessionStorage` belongs to the tab.
Edits made before an unreadable item is removed stay on the page, whose status
says it starts empty. Until the timer has run, the save button overwrites the
stored draft with one that started empty, the exception `SavedDraftSurvives`
names. Of a double click on a reverification form the second request may be
answered "not saved" although its first succeeded, by the race of `NoFalseStale`.

## Proofs

Eight modules prove forty theorems with `tlapm` down to the last leaf, for every
set of servers, commands, fields, candidates and seed rows and all times. They
rest on the assumptions the modules state and TLC evaluates, and on nothing else.

**Fact history** (`FactProofs`): `TypeCorrect`, `HistoryCorrect`
(`FactHistory`), `VerificationMonotone` (`VerifiedAtMonotone`). Assumptions:
`FreshnessAssumption` (a due-soon window shorter than the validity),
`NullAssumption`, `CommandAssumption`, `CandidateAssumption` and `SeedAssumption`
(the seed rows are themselves numbered chains; their expiry is absent or the
policy's). `TypeInv` adds to `TypeOK` that an attempt that began has a clock value
and a command (`Begun`) and that a reverification past its decision has a row to
insert (`ReverificationPlanned`); it is inductive alone. `FactHistory` is not
inductive, since a commit publishes a row that was checked several steps before.
`HistoryInv` adds why that row still fits:

- `PlansGrounded`: a planned row is version 1 or extends a *committed* row in
  version and in time. Committed rows never go away, so this stays true however
  stale the plan is.
- `PendingReserved`: an *inserted* row clashes with no committed and no other
  inserted row. This is what the unique index gives, and why reverification
  needs no lock: a stale plan fails at its insert.
- `ExpiriesByPolicy`: an expiry is absent or the policy's. A reverification
  never compares times; being due means `verifiedAt + Window <= t + DueSoon`,
  and `DueSoon < Window` gives `verifiedAt < t` (`DueLater`); the first of the two is
  also what `ReverificationPreserves` says of a confirmed row.

The steps fall into five shapes (idle, gives up, plans, inserts, publishes), one
lemma each, and `ReviewStepCases` and `ReverificationStepCases` sort the actions
into them. The advisory lock is used nowhere in these three.

**Effects and answers** (`FactProofs`): `DecisionsCorrect`
(`DecisionHistory`), `EffectsAtomic` (`AllOrNothing`), `AnswersCorrect`
(`AnsweredOnce`), `ContentPreserved` (`ReverificationPreserves`). None of them is
inductive; `EffectInv` carries what an attempt may rely on at its place:

- `KeyHeld`: inside its transaction it is alone with its idempotency key, which
  has no committed record. This is the claim's `ON CONFLICT DO NOTHING`.
- `PlanFits`: its plan is what its command makes of a *committed* row of the
  version its owner saw, current or not.
- `LockHeld`, `DecisionReserved`, `DecisionFounded`: past the lock statement a
  review holds its field; an inserted decision owns its keys; a checked decision
  extends committed ones.
- `RejectionStands`: while a checked rejection runs, only reverifications add
  versions to its field. A rejection inserts no fact row, so no unique index
  protects what it saw: this, and nothing before it, needs the advisory lock.
- `Counted`: versions are numbered without gaps from one, so that a history of
  n rows ends at version n.

Every step but the two commits is *quiet*: it leaves the tables alone, and an
answer it gives is truthful. One lemma per action says so, `QuietStep` draws the
consequence once, and only the commits are argued about at length.

**Waiting** (`FactProofs`): `NoWaitCycle` (`NeverAllWait`). `Ahead` says where the
attempts may be that one at a given statement waits for, and `WaitsLeadForward`
that they are there: from a claim to any later statement, from the lock to the
ones after it, from an insert of a fact to that of a decision or the commit, from
an insert of a decision to the commit. It needs `LockHeld` (a lock that is taken
is held by a review past its lock statement) and `PlacesFit` (only reviews are at
statements a reverification does not have). The attempt that has come furthest
therefore waits for nobody.

**Fact ledger** (`FactProofs`): `LedgerImplemented` (`ImplementsLedger`). A
quiet step maps to a refusal, a replay or a stutter (`QuietRefines`). A commit
maps to an approval, a rejection or a reverification: `Counted` makes the new row
the one with the next number, so the log the mapping reads off the table grows by
`Append` (`FieldLogAppends`, `DecisionLogAppends`), and `RejectionStands` makes a
rejection name the value its owner saw.

**Pages** (`PagesProofs`): `PagesUseCommands`, `PagesTypeCorrect` (`PagesTypeOK`),
`NoticeCorrect` (`NoticeIsTrue`), `OfferCorrect` (`OfferHonoured`). Assumptions:
`FormAssumption` (forms have commands, and keys of their own),
`OtherAssumption` (other commands use none of these keys and draw fresh row ids),
`PageAssumption`. `PagesUseCommands` shows that every step of the pages is a
step of `FactCommands` or leaves it alone, so the three invariants above hold
under the pages. `PagesInv` adds:

- `ShowsFacts`: an item a tab shows is a row of the table, due or not as of the
  time the page was loaded. Rows are never changed, so this survives staleness.
- `Sent`: a posted invocation carries the command of the form it came from.
- `FormRecords`: a record under a form's key was made by that form's request,
  whichever tab sent it, so that a form is never refused for a reused key.
- `DrawnIdsFresh`: the row id an invocation drew is not in the table before it
  ends, so that its insert cannot fail on its primary key.

A fact that is current no longer has a row that supersedes it
(`SupersededByNewer`, from `Counted` and `FactHistory`); this is what turns a
stale version into the reason `OfferHonoured` allows, and a replay or a commit
into the row that `NoticeIsTrue` asks for. `FormHonoured` puts the places
together at which a form's invocation can be answered.

**Profile editor** (`BrowserProofs`): `TypeCorrect`, `StatusCorrect`
(`StatusTellsTruth`), `SavedDraftKept` (`SavedDraftSurvives`, an action property).
Assumptions: `BrowserAssumption`, `ValueAssumption`, `DraftAssumption`.
`StatusTellsTruth` speaks of the page after its timer only and is not inductive,
because `Hydrate` has to find what the page did before. `BrowserInv` has one part
for each side: `BeforeTimer` (the page may have saved over the storage but knows
nothing of it) and `AfterTimer` (a stored draft is the one the page's draft
continues from, by edits of touched fields, and is older whenever there is work
to save); `Sound` drafts have their times in order, which the domain asks for.

**Leads** (`LeadProofs`): `TypeCorrect`, `LedgerImplemented`, `HistoryCorrect`
(`HistoryMatches`), `RetryOnce` (`RetryTakesEffectOnce`, for commands with
distinct keys), `ConversionConfirmed` (`ConvertedWasConfirmed`). Assumptions:
`CommandAssumption`, `NullAssumption`. `TypeInv` says for each place what a worker
knows: what it decided or re-read still holds unless the lead has moved on to a
later version (`Decided`, `Reread`), a worker about to commit writes on the row as
it is (`Grounded`), and only one does per lead (`Exclusive`). On it rest the
refinement and three further invariants: `HistoryInv` (no audit event is ahead of
its lead's row), `TrailInv` (an audit event's version is the one its
command asks for, so that a command cannot be applied at two), and `ConfirmInv`,
which follows the stage machine: every way to a conversion passes a confirmation
after the last booking.

**Drafts** (`ProfileProofs`): `TypeCorrect`, `HistoryCorrect`
(`DraftIsLastVersion`), `ChangesKept` (`NoLostChange`), `AuditCorrect`
(`AuditTellsChanges`), `AcceptanceCorrect` (`AcceptedOnce`), `LedgerImplemented`
(`ImplementsLedger`). Assumptions:
`ValueAssumption`, `DraftAssumption`, and those on commands and clocks.
`DraftInv` adds, per attempt, that a planned revision is what its command makes
of the committed version its owner saw, with the keys in which they differ
(`RevisionFits`); that who has written the row is alone with it and wrote on the
version it expected (`RowHeld`, the UPDATE's WHERE clause on the committed row);
and `KeyHeld` as above. The read that gives an audit event its keys is older than
the update; it is right because versions are never changed, and the guarded
update fixes which one it was. For the refinement `RevisionFits` also remembers
that the caller's playbook declares every field of that version, and `Recorded`
that the hash of a record is of the version it names: a request with the same
hash therefore asks for that very version, and can be shown it
(`ReplayedVersion`). `CommitRefines` is the step in which the plan, made earlier,
equals what the ledger computes from the row as it is; every other step is a
refusal (`RefusalRefines`), a replay or a stutter.

**Proposals** (`ProposalProofs`): `TypeCorrect`, `StoredWhole` (`AllOrNothing`),
`ProvenanceCorrect` (`ProvenanceHolds`), `DecisionsCorrect` (`DecisionHistory`),
`AnswersCorrect` (`TruthfulAnswers`). Assumptions: `CommandAssumption` and
`ExtractionAssumption` say what fields a command and an extraction carry (nothing
of their content: redirected, oversized, contradictory ones are among them), and
`SeedAssumption` that the batches stored at first are sound and distinct.
`ProposalInv` adds to `TypeOK` and `AllOrNothing`, per attempt:

- `PlanFits`: its batch has passed every check (`Sound`, by `ExtractedIsSound`),
  its decision is its command's, and a batch about to commit has all its rows.
- `KeysHeld`: no key it holds is committed or held by another transaction. This
  one conjunct is what the unique indexes give; each insert keeps it because
  it waits for its blockers and then looks.
- `OriginFits`: a source or capture that was stored before is the one its batch
  names, so that what was checked of the batch's own holds of the stored row.
- `DecisionFits`: a checked decision follows a committed version. That version
  may be the last no longer; the unique index (`KeysHeld`) is what keeps the
  numbering then, and `Counted` draws the conclusion.

`RecordsTell` says what a record names, which makes an answer from it truthful.

**Access** (`AccessProofs`): `TypeCorrect`, `DirectoryCorrect` (`DirectoryAgrees`),
`AdmissionHeld` (`AdmittedAccessWasHeld`),
`DenialWarranted` (`DenialsAreWarranted`). Assumptions: `SeedAssumption` and
`ChangeAssumption` (rows keep keys and CHECKs), `CallAssumption`,
`ClockAssumption`. The joins of the resolver are shown to select only what
`Entitlements` grants (`ResolvedAreHeld`) and to select something whenever it
grants anything (`HeldIsResolved`), for which one of the running grants has to
expire first (`SomeGrantFirst`, by well-foundedness of the naturals; ties select
several, and any of them will do). `AccessInv` adds to `TypeOK`, per request, that
the observer has seen the present instant and none later, and that a resolved actor
is of an access it has seen and has the shape the later checks ask for. A session
is compared with one clock at the start of a request and with a later one in the
command; because time goes on and no instant seen is later than the command's, the
last comparison covers all of them. With the time of the start in its place, TLC
finds `AdmittedAccessWasHeld` violated, as it does when an access is remembered from
an earlier request.

**Snapshots** (`ContextProofs`): `TypeCorrect`, `SnapshotsCorrect`
(`AssertsOneInstant`), `ReasonsCorrect` (`ReasonsAreActionable`), `AuditCorrect`
(`AuditedOnce`). Assumptions: `ContextAssumption`, `RequestAssumption`,
`PageAssumption` (a page that is there is not `Null`) and `SeedAssumption`, that
the rows there are at first form a `FactLog`: numbered per field in commit order,
with expiries that are absent or the policy's. `FactCommands` shows that the
owners' commands keep it so (`FactHistory`, `ImplementsLedger`); here `LogGrows`
shows it of `Approve` and `Reverify`. `ContextInv` adds to `TypeOK`:

- `FactLog`: so of every prefix exactly one row of a field is the newest
  (`NewestIsLast`), and no load can meet a broken history.
- `QueryInv`: the records a query holds are those of *one* prefix since it began
  (`LoadedAt`). Committed rows stay where they are, so this remains true however
  many versions follow, and its body, a function of the records, does not change.
- `BodiesUnique`, `Audited`: who inserts a body inserts its event.

`FieldProjected` compares the projection with the reference `Assertable`, and
`ExpiryByPolicy` shows that the expiry `mapRecord` hands on is the one the policy
asks for, also of a row that stores none.

Only model-checked: the liveness property `EveryAttemptAnswers` (fairness and
ENABLED are out of the prover's reach), and the four expected violations, which
are behaviours and not theorems. Every other property of a run is a theorem.

## Not modelled

- The profiles and fact counts the directory lists with a workspace.
- Administration of access: no code yet; its effects are the environment of
  `WorkspaceAccess`.
- The proposal queries (`find`, `list`) and the listings: they write nothing.
- Row-level security, grants and append-only triggers of single tables: a
  matter of SQL for one row, covered by the repository's integration tests. The
  one trigger with a rule across versions, `validate_lead_lifecycle_update`, is
  modelled.
- Outbox, webhook inbox, jobs, effect policy: there is no behaviour yet.
- The fact review workbench and the source proposal panel: demonstrations on
  fixed records without a server behind them.
- The dashboard, the sign-in pages and their redirects, error boundaries and
  layout: each request computes its page and keeps nothing.
- Configuration, credential envelope, playbook data, UI kit, prototype: pure
  functions of strings, or data.
- How a driver error reaches `mapPersistenceError`. The repositories read `code` at
  the top of the error; drizzle-orm 0.45, which `packages/db` pins, wraps a driver's
  error and leaves its code in `cause`. The models take a unique violation as
  recognized, as the branches intend: with the wrapping, the caller of such a branch
  gets the wrapped error in place of the mapped one, and the tables are the same.
- The integrity branch of the snapshot store: it needs two bodies with one digest.
- Liveness of proposals: a batch may wait for another's candidates, and only the
  database's deadlock detection ends a cycle, so that progress would restate the
  fairness assumed of it; it would also need the run without its symmetry.

## Plan

1. Done: facts, leads, profile drafts, approved context, source proposals,
   workspace access; the pages of freshness and approved context and the profile
   editor; abstract ledgers of facts, leads and drafts with their refinements;
   a theorem for every safety property the passing runs check.
2. Composition: `SourceProposals` as the origin of the candidates `FactReview`
   decides on, once the repository connects the two (today a review reads no
   proposal decision).
3. An abstract "authorized at some instant of the request" for `WorkspaceAccess`,
   and its refinement.
