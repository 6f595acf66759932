----------------------------- MODULE PagesProofs -----------------------------
(***************************************************************************)
(* Theorems about the fact freshness pages, for every set of tabs, forms,  *)
(* sessions and concurrent commands: what a notice claims has happened,    *)
(* and what a button offered is honoured.  They rest on the theorems about *)
(* the commands, which hold under the pages because the pages only start   *)
(* commands and read facts.                                                *)
(***************************************************************************)
EXTENDS ReverificationPages, FactProofs

-----------------------------------------------------------------------------
(* The inductive invariant.                                                *)

\* The item shows a fact that is, or was, approved, as it was due at time t.
Shown(item, t) ==
  \E row \in facts :
    /\ row.id = item.id /\ row.version = item.version /\ row.field \in TimeSensitive
    /\ item.canReverify <=> Due(row, t)

\* A page that lists items has the time it was loaded at; a tab that waits for
\* an answer waits for that of a form.
ShowsFacts(page) ==
  /\ page.items # {} => page.asOf \in Times
  /\ \A i \in page.items : Shown(i, page.asOf)
  /\ page.waitsFor # Null => posted[page.waitsFor] # Null

\* An invocation was started by a form, which offered its button, or otherwise.
Sent(p) ==
  IF posted[p] = Null
  THEN pc[p] # "idle" => cmd[p] \in OtherCommands
  ELSE LET item == posted[p].item IN
       /\ pc[p] # "idle"
       /\ item.canReverify /\ Shown(item, posted[p].asOf)
       /\ <<item.id, item.version>> \in DOMAIN FormKeys
       /\ cmd[p] = FormCommand(item.id, item.version, p)

\* A record under a form's key was made for that form's request.
FormRecords ==
  \A r \in records : \A x \in DOMAIN FormKeys :
    r.scope = ReverifyScope /\ r.key = FormKeys[x] =>
      r.hash = [factId |-> x[1], expectedVersion |-> x[2]]

\* The row id an invocation drew is in the table only once it has ended.
DrawnIdsFresh == \A r \in facts : r.id \in Attempts => pc[r.id] = "done"

\* NoticeIsTrue and OfferHonoured, for one page and for one invocation.
TrueNotice(page) ==
  page.notice = "reverified" =>
    /\ \E r \in facts : /\ r.origin = "reverification" /\ r.supersedes = page.form.id
                       /\ r.version = page.form.version + 1
    /\ \A i \in page.items : i.id # page.form.id

Honoured(p) ==
  \/ reply[p].outcome \in {"committed", "replayed", "denied", "crashed"}
  \/ \E r \in facts : r.supersedes = posted[p].item.id
  \/ reply[p].outcome = "not_due" /\ now[p] < posted[p].asOf

PagesInv ==
  /\ PagesTypeOK
  /\ \A b \in Tabs : ShowsFacts(tab[b])
  /\ \A p \in Attempts : Sent(p)
  /\ FormRecords /\ DrawnIdsFresh
  /\ NoticeIsTrue /\ OfferHonoured

\* What is known of the commands.
CommandInv == TypeInv /\ HistoryInv /\ EffectInv

-----------------------------------------------------------------------------
(* The pages only start commands.                                          *)

LEMMA FormIsReverification ==
  ASSUME NEW x \in DOMAIN FormKeys, NEW p \in Attempts
  PROVE  LET c == FormCommand(x[1], x[2], p) IN
         /\ c \in Commands /\ c # Null /\ Reverifies(c) /\ ~Reviews(c)
         /\ c.scope = ReverifyScope /\ c.key = FormKeys[x] /\ c.newFactId = p
         /\ c.request = [factId |-> x[1], expectedVersion |-> x[2]]
<1>1. x = <<x[1], x[2]>>
  BY FormAssumption
<1>2. FormCommand(x[1], x[2], p) \in Commands
  BY FormAssumption
<1>3. QED BY <1>1, <1>2, RowAssumption
             DEF FormCommand, Reverifies, Reviews, ReviewScope, ReverifyScope

LEMMA SubmitStarts ==
  ASSUME NEW b \in Tabs, NEW p \in Attempts, Submit(b, p)
  PROVE  \E item \in Offered(b), t \in Times :
           /\ <<item.id, item.version>> \in DOMAIN FormKeys
           /\ posted' = [posted EXCEPT ![p] = [item |-> item, asOf |-> tab[b].asOf]]
           /\ LET c == FormCommand(item.id, item.version, p) IN
              \/ ~Authorized(c, t) /\ Start(p, c, t, Answer("denied", Null), "done")
              \/ /\ Authorized(c, t)
                 /\ \E answer \in FoundReverification(c) : Start(p, c, t, answer, "decide")
<1>1. PICK item \in Offered(b), t \in Times :
        LET c == FormCommand(item.id, item.version, p) IN
        /\ <<item.id, item.version>> \in DOMAIN FormKeys
        /\ \E answer \in IF Authorized(c, t) THEN FoundReverification(c)
                         ELSE {Answer("denied", Null)} : Start(p, c, t, answer, "decide")
        /\ posted' = [posted EXCEPT ![p] = [item |-> item, asOf |-> tab[b].asOf]]
  BY DEF Submit
<1> DEFINE c == FormCommand(item.id, item.version, p)
<1>2. ASSUME ~Authorized(c, t) PROVE Start(p, c, t, Answer("denied", Null), "done")
  <2>1. Start(p, c, t, Answer("denied", Null), "decide")
    BY <1>1, <1>2
  <2>2. Answer("denied", Null) # NoReply
    BY DEF Answer, NoReply
  <2>3. QED BY <2>1, <2>2 DEF Start
<1>3. QED BY <1>1, <1>2

LEMMA SubmitIsCommand ==
  ASSUME NEW b \in Tabs, NEW p \in Attempts, Submit(b, p)
  PROVE  StartReverification(p)
<1>1. PICK item \in Offered(b), t \in Times :
        /\ <<item.id, item.version>> \in DOMAIN FormKeys
        /\ LET c == FormCommand(item.id, item.version, p) IN
           \/ ~Authorized(c, t) /\ Start(p, c, t, Answer("denied", Null), "done")
           \/ /\ Authorized(c, t)
              /\ \E answer \in FoundReverification(c) : Start(p, c, t, answer, "decide")
  BY SubmitStarts
<1> DEFINE x == <<item.id, item.version>>
           c == FormCommand(item.id, item.version, p)
<1>2. c \in Commands /\ Reverifies(c)
  <2>1. x \in DOMAIN FormKeys /\ x[1] = item.id /\ x[2] = item.version
    BY <1>1
  <2>2. QED BY <2>1, FormIsReverification
<1>3. QED BY <1>1, <1>2 DEF StartReverification

LEMMA PagesStep == [PagesNext]_allVars => [Next]_vars
<1>1. ASSUME NEW b \in Tabs, Open(b) \/ ShowAnswer(b) PROVE UNCHANGED vars
  BY <1>1 DEF Open, ShowAnswer
<1>2. ASSUME NEW b \in Tabs, NEW p \in Attempts, Submit(b, p) PROVE Next
  BY <1>2, SubmitIsCommand DEF Next, AttemptStep, ReverificationStep
<1>3. ASSUME NEW p \in Attempts, Elsewhere(p) PROVE Next
  BY <1>3 DEF Elsewhere, Next
<1>4. ASSUME UNCHANGED allVars PROVE UNCHANGED vars
  BY <1>4 DEF allVars
<1>5. QED BY <1>1, <1>2, <1>3, <1>4 DEF PagesNext

\* Whatever the pages do, the commands behave as specified: all that is shown of
\* them holds under the pages, too.
THEOREM PagesUseCommands == PagesSpec => Spec
BY PagesStep, PTL DEF PagesSpec, PagesInit, Spec

LEMMA CommandsHold == PagesSpec => []CommandInv
<1>1. TypeInv /\ HistoryInv /\ EffectInv => CommandInv
  BY DEF CommandInv
<1>2. QED BY <1>1, PagesUseCommands, TypeInvariance, HistoryInvariance, EffectInvariance, PTL

-----------------------------------------------------------------------------
(* What the facts say of an item.                                          *)

LEMMA RowsAreTyped ==
  ASSUME CommandInv, NEW r \in facts
  PROVE  /\ r \in FactRow /\ r.id \in Ids /\ r.id # Null /\ r.field \in Fields
         /\ r.version \in Nat \ {0}
BY NullAssumption DEF CommandInv, TypeInv, TypeOK, FactRow

LEMMA OneRow ==
  ASSUME CommandInv, NEW r \in facts, NEW s \in facts, FactsClash(r, s)
  PROVE  r = s
BY DEF CommandInv, HistoryInv, FactHistory

\* Between a row and a newer one of its field is the row that supersedes it.
LEMMA SupersededByNewer ==
  ASSUME CommandInv, NEW row \in facts, NEW s \in facts,
         s.field = row.field, row.version < s.version
  PROVE  \E t \in facts : t.supersedes = row.id
<1> DEFINE S == RowsOf(facts, row.field)
           n == Cardinality(S)
<1>1. Numbered(S) /\ n \in Nat
  BY RowsAreTyped, FS_CardinalityType DEF CommandInv, EffectInv, Counted
<1>2. row.version \in Nat \ {0} /\ s.version \in 1 .. n
  BY <1>1, RowsAreTyped DEF Numbered, RowsOf
<1>3. row.version + 1 \in 1 .. n
  BY <1>1, <1>2
<1>4. PICK t \in facts : t.field = row.field /\ t.version = row.version + 1
  BY <1>1, <1>3 DEF Numbered, RowsOf
<1>5. Founded(t, facts)
  BY DEF CommandInv, HistoryInv, FactHistory
<1>6. PICK u \in facts : u.field = t.field /\ u.version + 1 = t.version /\ u.id = t.supersedes
  BY <1>2, <1>4, <1>5 DEF Founded
<1>7. u.version = row.version
  BY <1>2, <1>4, <1>6, RowsAreTyped
<1>8. u = row
  BY <1>4, <1>6, <1>7, OneRow DEF FactsClash
<1>9. QED BY <1>6, <1>8

LEMMA SupersededNotCurrent ==
  ASSUME CommandInv, NEW row \in facts, NEW s \in facts, s.supersedes = row.id
  PROVE  row \notin CurrentFacts(row.field)
<1>1. Founded(s, facts) /\ row.id # Null
  BY RowsAreTyped DEF CommandInv, HistoryInv, FactHistory
<1>2. PICK u \in facts : u.field = s.field /\ u.version + 1 = s.version /\ u.id = s.supersedes
  BY <1>1 DEF Founded
<1>3. u = row
  BY <1>2, OneRow DEF FactsClash
<1>4. row.version \in Nat /\ s.version = row.version + 1
  BY <1>2, <1>3, RowsAreTyped
<1>5. QED BY <1>2, <1>3, <1>4 DEF CurrentFacts
-----------------------------------------------------------------------------
(* Pages.                                                                  *)

Page ==
  [page : {"closed", "ready", "unavailable"}, asOf : Times \cup {Null}, items : SUBSET Item,
   notice : {"reverified", "failed", Null}, form : Item \cup {Null},
   waitsFor : Attempts \cup {Null}]

\* The queue lists facts as they are, and none that was superseded.
LEMMA QueueIsTrue ==
  ASSUME CommandInv, NEW t, NEW i \in Queue(t)
  PROVE  /\ i \in Item /\ Shown(i, t)
         /\ \A s \in facts : s.supersedes # i.id
<1>0. PICK f \in TimeSensitive : \E row \in CurrentFacts(f) : i = QueueItem(row, t)
  BY DEF Queue
<1>1. PICK row \in CurrentFacts(f) : i = QueueItem(row, t)
  BY <1>0
<1>2. row \in facts /\ row.field = f
  BY DEF CurrentFacts
<1>3. Due(row, t) \in BOOLEAN
  BY DEF Due
<1>4. i = [id |-> row.id, version |-> row.version, canReverify |-> Due(row, t)]
  BY <1>1 DEF QueueItem
<1>5. i \in Item
  BY <1>2, <1>3, <1>4, RowsAreTyped DEF Item
<1>6. Shown(i, t)
  BY <1>2, <1>4 DEF Shown
<1>7. \A s \in facts : s.supersedes # i.id
  BY <1>1, <1>2, <1>4, SupersededNotCurrent
<1>8. QED BY <1>5, <1>6, <1>7

\* What any page that can be loaded shows.
LEMMA PagesAreTrue ==
  ASSUME CommandInv, NEW notice \in {"reverified", "failed", Null},
         NEW form \in Item \cup {Null}, NEW page \in Pages(notice, form),
         notice = "reverified" =>
           \E r \in facts : /\ r.origin = "reverification" /\ r.supersedes = form.id
                           /\ r.version = form.version + 1
  PROVE  page \in Page /\ ShowsFacts(page) /\ TrueNotice(page)
<1>1. CASE page = Blank("unavailable", notice, form)
  BY <1>1 DEF Blank, Page, ShowsFacts, TrueNotice
<1>2. ASSUME NEW t \in Times, page = Ready(t, notice, form)
      PROVE  page \in Page /\ ShowsFacts(page) /\ TrueNotice(page)
  <2>1. page = [page |-> "ready", asOf |-> t, items |-> Queue(t), notice |-> notice,
                form |-> form, waitsFor |-> Null]
    BY <1>2 DEF Ready, Blank
  <2>2. \A i \in Queue(t) : i \in Item /\ Shown(i, t) /\ \A s \in facts : s.supersedes # i.id
    BY QueueIsTrue
  <2>3. page \in Page /\ ShowsFacts(page)
    BY <2>1, <2>2 DEF Page, ShowsFacts
  <2>4. TrueNotice(page)
    BY <2>1, <2>2 DEF TrueNotice
  <2>5. QED BY <2>3, <2>4
<1>3. QED BY <1>1, <1>2 DEF Pages

\* A tab that shows a page leaves the rest of the invariant alone.
LEMMA NewPage ==
  ASSUME PagesInv, UNCHANGED <<vars, posted>>, NEW b \in Tabs, NEW page \in Page,
         ShowsFacts(page), TrueNotice(page), tab' = [tab EXCEPT ![b] = page]
  PROVE  PagesInv'
<1>1. PagesTypeOK'
  BY DEF PagesInv, PagesTypeOK, Page
<1>2. \A c \in Tabs : tab'[c] = IF c = b THEN page ELSE tab[c]
  BY DEF PagesInv, PagesTypeOK
<1>3. \A c \in Tabs : ShowsFacts(tab'[c])
  BY <1>2 DEF PagesInv
<1>4. \A c \in Tabs : ShowsFacts(tab[c])'
  BY <1>3 DEF ShowsFacts, Shown, vars
<1>5. NoticeIsTrue'
  BY <1>2 DEF PagesInv, NoticeIsTrue, TrueNotice, vars
<1>6. (\A p \in Attempts : Sent(p))' /\ FormRecords' /\ DrawnIdsFresh' /\ OfferHonoured'
  BY DEF PagesInv, Sent, Shown, FormRecords, DrawnIdsFresh, OfferHonoured, vars
<1>7. QED BY <1>1, <1>4, <1>5, <1>6 DEF PagesInv

LEMMA OpenStep ==
  ASSUME CommandInv, PagesInv, NEW b \in Tabs, Open(b)
  PROVE  PagesInv'
<1>1. PICK page \in Pages(Null, Null) \cup Pages(tab[b].notice, tab[b].form) :
        tab' = [tab EXCEPT ![b] = page]
  BY DEF Open
<1>2. ASSUME page \in Pages(Null, Null)
      PROVE  page \in Page /\ ShowsFacts(page) /\ TrueNotice(page)
  <2>1. Null # "reverified"
    BY PageAssumption
  <2>2. QED BY <1>2, <2>1, PagesAreTrue
<1>3. ASSUME page \in Pages(tab[b].notice, tab[b].form)
      PROVE  page \in Page /\ ShowsFacts(page) /\ TrueNotice(page)
  <2>1. tab[b].notice \in {"reverified", "failed", Null} /\ tab[b].form \in Item \cup {Null}
    BY DEF PagesInv, PagesTypeOK
  <2>2. tab[b].notice = "reverified" =>
          \E r \in facts : /\ r.origin = "reverification" /\ r.supersedes = tab[b].form.id
                          /\ r.version = tab[b].form.version + 1
    BY DEF PagesInv, NoticeIsTrue
  <2>3. QED BY <1>3, <2>1, <2>2, PagesAreTrue
<1>4. page \in Page /\ ShowsFacts(page) /\ TrueNotice(page)
  BY <1>2, <1>3
<1>5. QED BY <1>1, <1>4, NewPage DEF Open

LEMMA ShowAnswerStep ==
  ASSUME CommandInv, PagesInv, NEW b \in Tabs, ShowAnswer(b)
  PROVE  PagesInv'
<1> DEFINE p == tab[b].waitsFor
<1>1. p # Null /\ p \in Attempts /\ posted[p] # Null
  <2>1. p # Null /\ p \in Attempts \cup {Null}
    BY DEF ShowAnswer, PagesInv, PagesTypeOK
  <2>2. ShowsFacts(tab[b])
    BY DEF PagesInv
  <2>3. QED BY <2>1, <2>2 DEF ShowsFacts
<1>2. PICK page \in IF reply[p].outcome = "crashed" THEN {Blank("unavailable", Null, Null)}
                    ELSE Pages(NoticeOf(reply[p].outcome), posted[p].item) :
        tab' = [tab EXCEPT ![b] = page]
  BY DEF ShowAnswer
<1> DEFINE item == posted[p].item
<1>3. item \in Item
  BY <1>1 DEF PagesInv, PagesTypeOK, Form
<1>4. ASSUME page = Blank("unavailable", Null, Null)
      PROVE  page \in Page /\ ShowsFacts(page) /\ TrueNotice(page)
  BY <1>4, PageAssumption DEF Blank, Page, ShowsFacts, TrueNotice
<1>5. ASSUME page \in Pages(NoticeOf(reply[p].outcome), item)
      PROVE  page \in Page /\ ShowsFacts(page) /\ TrueNotice(page)
  <2>1. NoticeOf(reply[p].outcome) \in {"reverified", "failed", Null}
    BY DEF NoticeOf
  <2>2. ASSUME NoticeOf(reply[p].outcome) = "reverified"
        PROVE  \E r \in facts : /\ r.origin = "reverification" /\ r.supersedes = item.id
                               /\ r.version = item.version + 1
    <3>1. reply[p].outcome \in {"committed", "replayed"}
      BY <2>2 DEF NoticeOf
    <3>2. cmd[p] = FormCommand(item.id, item.version, p)
      BY <1>1 DEF PagesInv, Sent
    <3>3. cmd[p].scope = ReverifyScope
          /\ cmd[p].request = [factId |-> item.id, expectedVersion |-> item.version]
      BY <3>2 DEF FormCommand
    <3>4. PICK r \in records : SameKey(r, cmd[p]) /\ r.hash = cmd[p].request
      BY <1>1, <3>1 DEF CommandInv, EffectInv, AnsweredOnce
    <3>5. Effected(r) /\ r.scope = ReverifyScope
      BY <3>3, <3>4 DEF CommandInv, EffectInv, AllOrNothing, SameKey
    <3>6. QED BY <3>3, <3>4, <3>5 DEF Effected
  <2>3. QED BY <1>3, <1>5, <2>1, <2>2, PagesAreTrue
<1>6. page \in Page /\ ShowsFacts(page) /\ TrueNotice(page)
  BY <1>2, <1>4, <1>5
<1>7. QED BY <1>2, <1>6, NewPage DEF ShowAnswer
-----------------------------------------------------------------------------
(* What the commands do to the forms' records and rows.                    *)

\* The rows a step of p adds are those of its own commit.
LEMMA FactsGrow ==
  ASSUME CommandInv, NEW p \in Attempts, AttemptStep(p) \/ Crash(p)
  PROVE  /\ facts \subseteq facts' /\ pc[p] # "done"
         /\ \A q \in Attempts \ {p} : /\ pc'[q] = pc[q] /\ cmd'[q] = cmd[q]
                                     /\ now'[q] = now[q] /\ reply'[q] = reply[q]
<1>1. OthersKept(p) /\ pc[p] # "done"
  BY StepKeepsOthers, NotDone DEF CommandInv
<1>2. facts \subseteq facts'
  BY TablesKept DEF tables, CommitReview, CommitReverification, Commit
<1>3. QED BY <1>1, <1>2 DEF OthersKept

\* An attempt that makes a step is no longer idle.
LEMMA StepBegins ==
  ASSUME CommandInv, NEW p \in Attempts, AttemptStep(p) \/ Crash(p)
  PROVE  pc'[p] # "idle"
<1>0. pc \in [Attempts -> Places]
  BY DEF CommandInv, TypeInv, TypeOK
<1>1. CASE ReviewStep(p)
  BY <1>0, <1>1 DEF ReviewStep, ContinueReview, StartReview, Start, DecideReview, ClaimReview,
     Claim, LockReviewedField, CheckReview, InsertReviewedFact, InsertFact, InsertDecision,
     CommitReview, Commit, Goto, Intend, Finish
<1>2. CASE ReverificationStep(p)
  BY <1>0, <1>2 DEF ReverificationStep, ContinueReverification, StartReverification, Start,
     DecideReverification, ClaimReverification, Claim, CheckReverification,
     InsertReverifiedFact, InsertFact, CommitReverification, Commit, Goto, Intend, Finish
<1>3. CASE Crash(p)
  BY <1>0, <1>3 DEF Crash, Finish
<1>4. QED BY <1>1, <1>2, <1>3 DEF AttemptStep

\* A form's command is a reverification: only its own parts describe it.
LEMMA SentForm ==
  ASSUME NEW p \in Attempts, Sent(p), posted[p] # Null
  PROVE  LET item == posted[p].item
             x == <<item.id, item.version>> IN
         /\ pc[p] # "idle" /\ x \in DOMAIN FormKeys
         /\ cmd[p] \in Commands /\ Reverifying(p) /\ ~Reviewing(p)
         /\ cmd[p].scope = ReverifyScope /\ cmd[p].key = FormKeys[x] /\ cmd[p].newFactId = p
         /\ cmd[p].request = [factId |-> item.id, expectedVersion |-> item.version]
<1> DEFINE x == <<posted[p].item.id, posted[p].item.version>>
<1>1. /\ pc[p] # "idle" /\ x \in DOMAIN FormKeys /\ cmd[p] = FormCommand(x[1], x[2], p)
  BY DEF Sent
<1>2. QED BY <1>1, FormIsReverification DEF Reverifying, Reviewing

LEMMA CommitsKeepForms ==
  ASSUME CommandInv, PagesInv, NEW p \in Attempts, pc[p] # "idle",
         CommitReview(p) \/ CommitReverification(p)
  PROVE  FormRecords' /\ DrawnIdsFresh'
<1>0. OthersKept(p) /\ Sent(p) /\ TypeInv /\ HistoryInv /\ EffectInv
  BY StepKeepsOthers
     DEF CommandInv, PagesInv, AttemptStep, ReviewStep, ContinueReview, ReverificationStep,
         ContinueReverification
<1>1. PICK ref : Commit(p, cmd[p].request, ref)
  BY DEF CommitReview, CommitReverification
<1>2. /\ pc[p] = "commit" /\ facts' = facts \cup PendingFacts(p) /\ pc'[p] = "done"
      /\ records' = records \cup {CompletedRecord(cmd[p], cmd[p].request, ref)}
  BY <1>0, <1>1 DEF Commit, Finish, TypeInv, TypeOK
<1>3. \/ Reviewing(p) /\ ~Reverifying(p)
      \/ Reverifying(p) /\ ~Reviewing(p)
  BY KindsDiffer DEF CommitReview, CommitReverification
<1>4. posted[p] = Null => cmd[p] \in OtherCommands
  BY <1>0, <1>2 DEF Sent
<1>5. FormRecords'
  <2> SUFFICES ASSUME NEW x \in DOMAIN FormKeys, Reverifying(p), cmd[p].key = FormKeys[x]
               PROVE  cmd[p].request = [factId |-> x[1], expectedVersion |-> x[2]]
    BY <1>2, <1>3 DEF PagesInv, FormRecords, CompletedRecord, Reverifying, Reviewing,
                      Reverifies, Reviews, ReviewScope, ReverifyScope
  <2>1. posted[p] # Null
    BY <1>4, OtherAssumption DEF Reverifying
  <2> DEFINE y == <<posted[p].item.id, posted[p].item.version>>
  <2>2. /\ y \in DOMAIN FormKeys /\ cmd[p].key = FormKeys[y]
        /\ cmd[p].request = [factId |-> y[1], expectedVersion |-> y[2]]
    BY <1>0, <2>1, SentForm
  <2>3. x = y
    BY <2>2, FormAssumption
  <2>4. QED BY <2>2, <2>3
<1>6. \A r \in PendingFacts(p) : r.id \in Attempts => r.id = p
  <2>1. CASE Reviewing(p)
    <3>1. cmd[p] \in OtherCommands
      BY <1>0, <1>4, <2>1, SentForm
    <3>2. ReviewFits(p)
      BY <1>0, <1>2, <2>1, ReviewCarries DEF Working
    <3>3. plan[p].fact # Null => plan[p].fact.id = cmd[p].request.factId
      BY <3>2 DEF ReviewFits, ReviewPlan, ReviewedFact
    <3>4. QED BY <2>1, <3>1, <3>3, OtherAssumption DEF PendingFacts, Reviewing
  <2>2. CASE Reverifying(p)
    <3>1. \A r \in PendingFacts(p) : r.id = cmd[p].newFactId
      BY <1>0, <1>2, <2>2, ReverificationRows
    <3>2. posted[p] # Null => cmd[p].newFactId = p
      BY <1>0, SentForm
    <3>3. posted[p] = Null => cmd[p].newFactId \notin Attempts
      BY <1>3, <1>4, <2>2, OtherAssumption DEF Reviewing, Reverifying
    <3>4. QED BY <3>1, <3>2, <3>3
  <2>3. QED BY <1>3, <2>1, <2>2
<1>7. DrawnIdsFresh'
  BY <1>0, <1>2, <1>6 DEF PagesInv, DrawnIdsFresh, OthersKept
<1>8. QED BY <1>5, <1>7

LEMMA StepsKeepForms ==
  ASSUME CommandInv, PagesInv, NEW p \in Attempts, AttemptStep(p) \/ Crash(p)
  PROVE  FormRecords' /\ DrawnIdsFresh'
<1>1. CASE CommitReview(p) \/ CommitReverification(p)
  <2>1. pc[p] # "idle"
    BY <1>1 DEF CommitReview, CommitReverification, Commit
  <2>2. QED BY <1>1, <2>1, CommitsKeepForms
<1>2. CASE UNCHANGED tables
  BY <1>2, FactsGrow DEF PagesInv, FormRecords, DrawnIdsFresh, tables
<1>3. QED BY <1>1, <1>2, TablesKept

-----------------------------------------------------------------------------
(* What a form is answered.                                                *)

\* A record under a form's key stands for a row that superseded the item.
LEMMA RecordMeansSuperseded ==
  ASSUME CommandInv, FormRecords, NEW x \in DOMAIN FormKeys, NEW r \in records,
         r.scope = ReverifyScope, r.key = FormKeys[x]
  PROVE  \E s \in facts : s.supersedes = x[1]
<1>1. r.hash = [factId |-> x[1], expectedVersion |-> x[2]]
  BY DEF FormRecords
<1>2. Effected(r)
  BY DEF CommandInv, EffectInv, AllOrNothing
<1>3. QED BY <1>1, <1>2 DEF Effected

LEMMA DecisionHonours ==
  ASSUME CommandInv, NEW p \in Attempts, Sent(p), posted[p] # Null, posted[p] \in Form,
         DecideReverification(p), pc'[p] = "done", UNCHANGED posted
  PROVE  Honoured(p)'
<1> DEFINE item == posted[p].item
           request == cmd[p].request
<1>1. /\ request = [factId |-> item.id, expectedVersion |-> item.version]
      /\ item.canReverify /\ Shown(item, posted[p].asOf)
  BY SentForm DEF Sent
<1>2. PICK row \in facts : /\ row.id = item.id /\ row.version = item.version
                          /\ row.field \in TimeSensitive /\ Due(row, posted[p].asOf)
  BY <1>1 DEF Shown
<1>3. TypeInv /\ facts' = facts /\ cmd' = cmd /\ now' = now
  BY DEF CommandInv, DecideReverification, tables, Finish, Intend
<1>4. CASE CurrentById(request.factId) = {}
  <2>1. row \notin CurrentFacts(row.field)
    BY <1>1, <1>2, <1>4 DEF CurrentById
  <2>2. PICK s \in facts : s.field = row.field /\ ~(s.version <= row.version)
    BY <2>1 DEF CurrentFacts
  <2>3. row.version < s.version
    BY <2>2, RowsAreTyped
  <2>4. \E t \in facts : t.supersedes = item.id
    BY <1>2, <2>2, <2>3, SupersededByNewer
  <2>5. QED BY <1>3, <2>4 DEF Honoured
<1>5. ASSUME NEW cur \in CurrentById(request.factId),
             ReverifyVerdict(request, cur, now[p]) # "accepted",
             Finish(p, Answer(ReverifyVerdict(request, cur, now[p]), Null))
      PROVE  Honoured(p)'
  <2>1. cur \in facts /\ cur.id = row.id
    BY <1>1, <1>2 DEF CurrentById
  <2>2. cur = row
    BY <2>1, OneRow DEF FactsClash
  <2>3. ReverifyVerdict(request, cur, now[p]) = "not_due" /\ ~Due(row, now[p])
    BY <1>1, <1>2, <1>5, <2>2 DEF ReverifyVerdict
  <2>4. reply'[p].outcome = "not_due"
    BY <1>3, <1>5, <2>3 DEF Finish, Answer, TypeInv, TypeOK
  <2>5. now[p] \in Nat /\ posted[p].asOf \in Nat
    BY <1>3, FreshnessAssumption DEF DecideReverification, TypeInv, Begun, Form
  <2>6. now[p] < posted[p].asOf
    <3>1. row.verifiedAt \in Nat /\ row.expiresAt \in Nat \cup {Null}
      BY RowsAreTyped DEF FactRow
    <3>2. CASE row.expiresAt = Null
      BY <1>2, <2>3, <2>5, <3>1, <3>2, FreshnessAssumption DEF Due
    <3>3. CASE row.expiresAt \in Nat
      BY <1>2, <2>3, <2>5, <3>1, <3>3, FreshnessAssumption, NullAssumption DEF Due
    <3>4. QED BY <3>1, <3>2, <3>3
  <2>7. QED BY <1>3, <2>4, <2>6 DEF Honoured
<1>6. ASSUME NEW rows PROVE ~Intend(p, "claim", rows)
  BY <1>3 DEF Intend, TypeInv, TypeOK
<1>7. QED BY <1>4, <1>5, <1>6 DEF DecideReverification

LEMMA ClaimHonours ==
  ASSUME CommandInv, FormRecords, NEW p \in Attempts, Sent(p), posted[p] # Null,
         ClaimReverification(p), pc'[p] = "done", UNCHANGED posted
  PROVE  Honoured(p)'
<1> DEFINE item == posted[p].item
           x == <<item.id, item.version>>
<1>1. x \in DOMAIN FormKeys /\ cmd[p].scope = ReverifyScope /\ cmd[p].key = FormKeys[x]
  BY SentForm
<1>2. RecordsFor(cmd[p]) # {} /\ facts' = facts
  BY DEF ClaimReverification, Claim, Goto, CommandInv, TypeInv, TypeOK, tables
<1>3. PICK r \in records : r.scope = ReverifyScope /\ r.key = FormKeys[x]
  BY <1>1, <1>2 DEF RecordsFor, SameKey
<1>4. \E s \in facts : s.supersedes = x[1]
  BY <1>1, <1>3, RecordMeansSuperseded
<1>5. QED BY <1>2, <1>4 DEF Honoured

\* A reverification in its transaction plans the successor of the item's row.
LEMMA PlansSuccessor ==
  ASSUME CommandInv, NEW p \in Attempts, Sent(p), posted[p] # Null,
         pc[p] \in {"check", "insert_fact"}
  PROVE  \E row \in facts :
           /\ row.id = posted[p].item.id
           /\ plan[p].fact.id = p /\ plan[p].fact.field = row.field
           /\ plan[p].fact.version = row.version + 1 /\ plan[p].fact.supersedes = row.id
<1>1. Reverifying(p) /\ cmd[p].newFactId = p
      /\ cmd[p].request = [factId |-> posted[p].item.id,
                           expectedVersion |-> posted[p].item.version]
  BY SentForm
<1>2. ReverificationFits(p)
  BY <1>1 DEF CommandInv, EffectInv, AttemptInv, PlanFits, Working
<1>3. PICK row \in facts :
        /\ row.id = cmd[p].request.factId
        /\ plan[p] = [fact |-> Reverified(row, cmd[p].newFactId, now[p]), decision |-> Null]
  BY <1>2 DEF ReverificationFits
<1>4. row \in FactRow
  BY RowsAreTyped
<1>5. plan[p].fact = Reverified(row, p, now[p])
  BY <1>1, <1>3
<1>6. QED BY <1>1, <1>3, <1>4, <1>5, ReverifiedFields

LEMMA CheckHonours ==
  ASSUME CommandInv, NEW p \in Attempts, Sent(p), posted[p] # Null,
         CheckReverification(p), pc'[p] = "done", UNCHANGED posted
  PROVE  Honoured(p)'
<1>1. pc[p] = "check" /\ facts' = facts /\ TypeInv
  BY DEF CheckReverification, CommandInv, tables
<1>2. PICK row \in facts :
        /\ row.id = posted[p].item.id /\ plan[p].fact.field = row.field
        /\ plan[p].fact.version = row.version + 1 /\ plan[p].fact.supersedes = row.id
  BY <1>1, PlansSuccessor
<1>3. PICK cur \in CurrentFact(row.field) :
        ~(cur # Null /\ IdOf(cur) = row.id /\ VersionOf(cur) + 1 = row.version + 1)
  BY <1>1, <1>2 DEF CheckReverification, Intend, TypeInv, TypeOK
<1>4. row.field \in Fields /\ row.version \in Nat /\ CurrentFacts(row.field) # {}
  BY RowsAreTyped, CurrentExists DEF CommandInv
<1>5. cur \in facts /\ cur # Null /\ cur.field = row.field /\ row.version <= cur.version
  BY <1>4, RowsAreTyped, CurrentType, RowAssumption, <1>1 DEF CurrentFact, CurrentFacts
<1>6. cur # row
  BY <1>3, <1>4, <1>5 DEF IdOf, VersionOf
<1>7. row.version < cur.version
  BY <1>4, <1>5, <1>6, RowsAreTyped, OneRow DEF FactsClash
<1>8. \E t \in facts : t.supersedes = row.id
  BY <1>5, <1>7, SupersededByNewer
<1>9. QED BY <1>1, <1>2, <1>8 DEF Honoured

LEMMA InsertHonours ==
  ASSUME CommandInv, DrawnIdsFresh, NEW p \in Attempts, Sent(p), posted[p] # Null,
         InsertReverifiedFact(p), pc'[p] = "done", UNCHANGED posted
  PROVE  Honoured(p)'
<1>1. /\ pc[p] = "insert_fact" /\ facts' = facts
      /\ \E r \in facts : FactsClash(r, plan[p].fact)
  BY DEF InsertReverifiedFact, InsertFact, Goto, CommandInv, TypeInv, TypeOK, tables
<1>2. PICK row \in facts :
        /\ row.id = posted[p].item.id
        /\ plan[p].fact.id = p /\ plan[p].fact.field = row.field
        /\ plan[p].fact.version = row.version + 1 /\ plan[p].fact.supersedes = row.id
  BY <1>1, PlansSuccessor
<1>3. PICK r \in facts : FactsClash(r, plan[p].fact)
  BY <1>1
<1>4. r.id # p
  BY <1>1 DEF DrawnIdsFresh
<1>5. r.field = row.field /\ row.version < r.version
  BY <1>2, <1>3, <1>4, RowsAreTyped DEF FactsClash
<1>6. \E t \in facts : t.supersedes = row.id
  BY <1>5, SupersededByNewer
<1>7. QED BY <1>1, <1>2, <1>6 DEF Honoured

\* Whatever ends an invocation that a form started, the form was honoured.
LEMMA FormHonoured ==
  ASSUME CommandInv, PagesInv, NEW p \in Attempts, posted[p] # Null,
         AttemptStep(p) \/ Crash(p), pc'[p] = "done", UNCHANGED posted
  PROVE  Honoured(p)'
<1>1. Sent(p) /\ FormRecords /\ DrawnIdsFresh /\ posted[p] \in Form /\ TypeInv
  BY DEF PagesInv, PagesTypeOK, CommandInv
<1>2. pc[p] # "idle" /\ Reverifying(p) /\ ~Reviewing(p)
  BY <1>1, SentForm
<1>3. CASE Crash(p)
  BY <1>1, <1>3 DEF Crash, Finish, Answer, Honoured, TypeInv, TypeOK
<1>4. CASE ContinueReverification(p)
  <2>1. CASE CommitReverification(p)
    BY <1>1, <2>1 DEF CommitReverification, Commit, Finish, Answer, Honoured, TypeInv, TypeOK
  <2>2. QED BY <1>1, <1>4, <2>1, DecisionHonours, ClaimHonours, CheckHonours, InsertHonours
               DEF ContinueReverification
<1>5. ~ContinueReview(p)
  BY <1>2 DEF ContinueReview, DecideReview, ClaimReview, LockReviewedField, CheckReview,
              InsertReviewedFact, InsertDecision, CommitReview
<1>6. ~StartReview(p) /\ ~StartReverification(p)
  BY <1>2 DEF StartReview, StartReverification, Start
<1>7. QED BY <1>3, <1>4, <1>5, <1>6 DEF AttemptStep, ReviewStep, ReverificationStep
-----------------------------------------------------------------------------
(* The steps.                                                              *)

\* Facts only grow, so what was shown, and what a notice said, stays true.
LEMMA TruthStays ==
  ASSUME facts \subseteq facts'
  PROVE  /\ \A item, t : Shown(item, t) => Shown(item, t)'
         /\ \A page : TrueNotice(page) => TrueNotice(page)'
         /\ \A p \in Attempts : /\ Honoured(p) /\ reply'[p] = reply[p] /\ now'[p] = now[p]
                                /\ posted'[p] = posted[p]
                                => Honoured(p)'
BY DEF Shown, TrueNotice, Honoured, Due

LEMMA InitPages == PagesInit => PagesInv
<1> SUFFICES ASSUME PagesInit PROVE PagesInv
  OBVIOUS
<1>1. Blank("closed", Null, Null) = [page |-> "closed", asOf |-> Null, items |-> {},
                                     notice |-> Null, form |-> Null, waitsFor |-> Null]
  BY DEF Blank
<1>2. \A b \in Tabs : tab[b] = Blank("closed", Null, Null)
  BY DEF PagesInit
<1>3. PagesTypeOK /\ NoticeIsTrue /\ OfferHonoured
  BY <1>1, <1>2, PageAssumption DEF PagesInit, PagesTypeOK, NoticeIsTrue, OfferHonoured
<1>4. \A b \in Tabs : ShowsFacts(tab[b])
  BY <1>1, <1>2 DEF ShowsFacts
<1>5. (\A p \in Attempts : Sent(p)) /\ FormRecords
  BY DEF PagesInit, Init, StoreInit, Sent, FormRecords
<1>6. DrawnIdsFresh
  BY OtherAssumption DEF PagesInit, Init, StoreInit, DrawnIdsFresh
<1>7. QED BY <1>3, <1>4, <1>5, <1>6 DEF PagesInv

LEMMA ElsewhereStep ==
  ASSUME CommandInv, PagesInv, NEW p \in Attempts, Elsewhere(p)
  PROVE  PagesInv'
<1>1. /\ AttemptStep(p) \/ Crash(p)
      /\ tab' = tab /\ posted' = posted
      /\ pc[p] = "idle" => cmd'[p] \in OtherCommands
  BY DEF Elsewhere, pageVars
<1>2. /\ facts \subseteq facts' /\ pc[p] # "done"
      /\ \A q \in Attempts \ {p} : /\ pc'[q] = pc[q] /\ cmd'[q] = cmd[q]
                                  /\ now'[q] = now[q] /\ reply'[q] = reply[q]
  BY <1>1, FactsGrow DEF Elsewhere
<1>3. PagesTypeOK'
  BY <1>1 DEF PagesInv, PagesTypeOK
<1>4. \A b \in Tabs : ShowsFacts(tab[b])'
  BY <1>1, <1>2, TruthStays DEF PagesInv, ShowsFacts
<1>5. \A q \in Attempts : Sent(q)'
  <2>1. ASSUME NEW q \in Attempts \ {p} PROVE Sent(q)'
    BY <1>1, <1>2, TruthStays DEF PagesInv, Sent
  <2>2. (pc[p] # "idle" => cmd'[p] = cmd[p]) /\ pc'[p] # "idle"
    BY <1>1, StepShape, StepBegins DEF CommandInv, Shape, Start, Finish, Goto, Intend,
       LockReviewedField
  <2>3. Sent(p)'
    BY <1>1, <1>2, <2>2, TruthStays DEF PagesInv, Sent
  <2>4. QED BY <2>1, <2>3
<1>6. FormRecords' /\ DrawnIdsFresh'
  BY StepsKeepForms DEF Elsewhere
<1>7. NoticeIsTrue'
  <2>1. \A b \in Tabs : TrueNotice(tab[b])
    BY DEF PagesInv, NoticeIsTrue, TrueNotice
  <2>2. \A b \in Tabs : TrueNotice(tab[b])'
    BY <1>1, <1>2, <2>1, TruthStays
  <2>3. QED BY <1>1, <2>2 DEF NoticeIsTrue, TrueNotice
<1>8. OfferHonoured'
  <2>1. ASSUME NEW q \in Attempts, posted[q] # Null, pc'[q] = "done"
        PROVE  Honoured(q)'
    <3>1. CASE q = p
      BY <1>1, <2>1, <3>1, FormHonoured DEF Elsewhere
    <3>2. CASE q # p
      <4>1. Honoured(q)
        BY <1>2, <2>1, <3>2 DEF PagesInv, OfferHonoured, Honoured
      <4>2. QED BY <1>1, <1>2, <3>2, <4>1, TruthStays
    <3>3. QED BY <3>1, <3>2
  <2>2. QED BY <1>1, <2>1 DEF OfferHonoured, Honoured
<1>9. QED BY <1>3, <1>4, <1>5, <1>6, <1>7, <1>8 DEF PagesInv

LEMMA SubmitStep ==
  ASSUME CommandInv, PagesInv, NEW b \in Tabs, NEW p \in Attempts, Submit(b, p)
  PROVE  PagesInv'
<1>1. PICK item \in Offered(b), t \in Times :
        /\ <<item.id, item.version>> \in DOMAIN FormKeys
        /\ posted' = [posted EXCEPT ![p] = [item |-> item, asOf |-> tab[b].asOf]]
        /\ LET c == FormCommand(item.id, item.version, p) IN
           \/ ~Authorized(c, t) /\ Start(p, c, t, Answer("denied", Null), "done")
           \/ /\ Authorized(c, t)
              /\ \E answer \in FoundReverification(c) : Start(p, c, t, answer, "decide")
  BY SubmitStarts
<1> DEFINE c == FormCommand(item.id, item.version, p)
           x == <<item.id, item.version>>
           form == [item |-> item, asOf |-> tab[b].asOf]
<1>2. tab' = [tab EXCEPT ![b].waitsFor = p] /\ AttemptStep(p)
  BY SubmitIsCommand DEF Submit, AttemptStep, ReverificationStep
<1>3. /\ facts' = facts /\ records' = records /\ pc[p] = "idle"
      /\ cmd'[p] = c /\ pc'[p] # "idle" /\ TypeInv
  BY <1>1 DEF Start, CommandInv, TypeInv, TypeOK, tables
<1>4. \A q \in Attempts \ {p} : /\ pc'[q] = pc[q] /\ cmd'[q] = cmd[q]
                                /\ now'[q] = now[q] /\ reply'[q] = reply[q]
  BY <1>2, FactsGrow
<1>5. item \in tab[b].items /\ item.canReverify /\ item \in Item /\ tab[b].asOf \in Times
      /\ Shown(item, tab[b].asOf)
  <2>1. item \in tab[b].items /\ item.canReverify /\ ShowsFacts(tab[b])
    BY DEF Offered, PagesInv
  <2>2. item \in Item
    BY <2>1 DEF PagesInv, PagesTypeOK
  <2>3. QED BY <2>1, <2>2 DEF ShowsFacts
<1>6. form \in Form /\ form # Null /\ posted'[p] = form
      /\ \A q \in Attempts \ {p} : posted'[q] = posted[q]
  BY <1>1, <1>5, PageAssumption DEF Form, PagesInv, PagesTypeOK
<1>7. \A d \in Tabs : tab'[d] = IF d = b THEN [tab[b] EXCEPT !.waitsFor = p] ELSE tab[d]
  BY <1>2 DEF PagesInv, PagesTypeOK
<1>8. PagesTypeOK'
  <2>1. [tab[b] EXCEPT !.waitsFor = p] \in Page
    BY DEF PagesInv, PagesTypeOK, Page
  <2>2. tab' \in [Tabs -> Page]
    BY <1>2, <2>1 DEF PagesInv, PagesTypeOK, Page
  <2>3. posted' \in [Attempts -> Form \cup {Null}]
    BY <1>1, <1>6 DEF PagesInv, PagesTypeOK
  <2>4. QED BY <2>2, <2>3 DEF PagesTypeOK, Page
<1>9. \A d \in Tabs : /\ tab'[d].items = tab[d].items /\ tab'[d].asOf = tab[d].asOf
                      /\ tab'[d].notice = tab[d].notice /\ tab'[d].form = tab[d].form
                      /\ tab'[d].waitsFor \in {p, tab[d].waitsFor}
  BY <1>7 DEF PagesInv, PagesTypeOK
<1>10. \A d \in Tabs : ShowsFacts(tab[d])'
  <2> SUFFICES ASSUME NEW d \in Tabs PROVE ShowsFacts(tab[d])'
    OBVIOUS
  <2>1. ShowsFacts(tab[d]) /\ tab[d].waitsFor \in Attempts \cup {Null}
    BY DEF PagesInv, PagesTypeOK
  <2>2. tab'[d].waitsFor # Null => posted'[tab'[d].waitsFor] # Null
    BY <1>6, <1>9, <2>1 DEF ShowsFacts
  <2>3. \A i \in tab'[d].items : Shown(i, tab[d].asOf)'
    BY <1>3, <1>9, <2>1, TruthStays DEF ShowsFacts, Shown, Due
  <2>4. QED BY <1>9, <2>1, <2>2, <2>3 DEF ShowsFacts, Shown, Due
<1>11. \A q \in Attempts : Sent(q)'
  <2>1. ASSUME NEW q \in Attempts \ {p} PROVE Sent(q)'
    BY <1>3, <1>4, <1>6 DEF PagesInv, Sent, Shown, Due
  <2>2. Sent(p)'
    BY <1>1, <1>3, <1>5, <1>6 DEF Sent, Shown, Due
  <2>3. QED BY <2>1, <2>2
<1>12. FormRecords' /\ DrawnIdsFresh'
  BY <1>2, StepsKeepForms
<1>13. NoticeIsTrue'
  BY <1>3, <1>9 DEF PagesInv, NoticeIsTrue
<1>14. ASSUME pc'[p] = "done" PROVE Honoured(p)'
  <2>1. CASE Start(p, c, t, Answer("denied", Null), "done")
    <3>1. Answer("denied", Null) # NoReply
      BY DEF Answer, NoReply
    <3>2. reply'[p].outcome = "denied"
      BY <1>3, <2>1, <3>1 DEF Start, Answer, TypeInv, TypeOK
    <3>3. QED BY <3>2 DEF Honoured
  <2>2. ASSUME NEW answer \in FoundReverification(c), Start(p, c, t, answer, "decide")
        PROVE  Honoured(p)'
    <3>1. answer # NoReply
      BY <1>3, <1>14, <2>2 DEF Start, TypeInv, TypeOK
    <3>2. PICK r \in RecordsFor(c) : TRUE
      BY <2>2, <3>1 DEF FoundReverification
    <3>3. x \in DOMAIN FormKeys /\ c.scope = ReverifyScope /\ c.key = FormKeys[x]
      BY <1>1 DEF FormCommand
    <3>4. r \in records /\ r.scope = ReverifyScope /\ r.key = FormKeys[x]
      BY <3>2, <3>3 DEF RecordsFor, SameKey
    <3>5. \E s \in facts : s.supersedes = x[1]
      BY <3>3, <3>4, RecordMeansSuperseded DEF PagesInv
    <3>6. QED BY <1>3, <1>6, <3>5 DEF Honoured
  <2>3. QED BY <1>1, <2>1, <2>2
<1>15. OfferHonoured'
  BY <1>3, <1>4, <1>6, <1>14 DEF PagesInv, OfferHonoured, Honoured
<1>16. QED BY <1>8, <1>10, <1>11, <1>12, <1>13, <1>15 DEF PagesInv

LEMMA PagesInvStep == CommandInv /\ PagesInv /\ [PagesNext]_allVars => PagesInv'
<1> SUFFICES ASSUME CommandInv, PagesInv, [PagesNext]_allVars PROVE PagesInv'
  OBVIOUS
<1>1. CASE PagesNext
  BY <1>1, OpenStep, ShowAnswerStep, SubmitStep, ElsewhereStep DEF PagesNext
<1>2. CASE UNCHANGED allVars
  <2>1. UNCHANGED <<facts, records, pc, cmd, now, reply, tab, posted>>
    BY <1>2 DEF allVars, vars, pageVars
  <2>2. PagesTypeOK' /\ FormRecords' /\ DrawnIdsFresh' /\ NoticeIsTrue' /\ OfferHonoured'
    BY <2>1 DEF PagesInv, PagesTypeOK, FormRecords, DrawnIdsFresh, NoticeIsTrue, OfferHonoured
  <2>3. (\A b \in Tabs : ShowsFacts(tab[b]))' /\ (\A p \in Attempts : Sent(p))'
    BY <2>1 DEF PagesInv, ShowsFacts, Sent, Shown, Due
  <2>4. QED BY <2>2, <2>3 DEF PagesInv
<1>3. QED BY <1>1, <1>2

LEMMA PagesInvariance == PagesSpec => []PagesInv
BY CommandsHold, InitPages, PagesInvStep, PTL DEF PagesSpec

-----------------------------------------------------------------------------
(* Theorems.                                                               *)

\* Tabs and forms keep their types: a card shows an approved fact's id and
\* version, and a submitted form knows when its queue was loaded (PagesTypeOK).
THEOREM PagesTypeCorrect == PagesSpec => []PagesTypeOK
<1>1. PagesInv => PagesTypeOK
  BY DEF PagesInv
<1>2. QED BY <1>1, PagesInvariance, PTL

\* "Fact reverified" is shown only when a reverification on top of the very
\* version the form showed is there, above a queue without it (NoticeIsTrue).
THEOREM NoticeCorrect == PagesSpec => []NoticeIsTrue
<1>1. PagesInv => NoticeIsTrue
  BY DEF PagesInv
<1>2. QED BY <1>1, PagesInvariance, PTL

\* A button the queue offered fails only for lost authority, a crash, a version
\* superseded meanwhile, or a server's clock that is behind (OfferHonoured).
THEOREM OfferCorrect == PagesSpec => []OfferHonoured
<1>1. PagesInv => OfferHonoured
  BY DEF PagesInv
<1>2. QED BY <1>1, PagesInvariance, PTL
=============================================================================
