-------------------------- MODULE ReverificationPages --------------------------
(***************************************************************************)
(* The fact freshness pages over the commands: an owner with several tabs, *)
(* each showing a queue loaded some time ago, whose forms start            *)
(* reverifications, while reviews of the same fields run.  A server action *)
(* answers with a redirect, and the page it leads to is another request,   *)
(* on another server clock.                                                *)
(***************************************************************************)
EXTENDS FactCommands

CONSTANTS
  Tabs,
  FormKeys,       \* the idempotency key a form carries for a fact id and version
  Session,        \* the owner's session: [owner, sessionExpiresAt]
  OtherCommands   \* the commands that are sent without a form of these pages

VARIABLES
  tab,    \* what each tab shows, and the invocation whose answer it waits for
  posted  \* the form each invocation was started from, with the queue's time, or Null

pageVars == <<tab, posted>>
allVars == <<vars, pageVars>>

-----------------------------------------------------------------------------
(* The queue.                                                              *)

\* Variant for a mutant: the row is sent to the browser as it is.
WholeRow(row, t) == row

Item == [id : Ids, version : Nat \ {0}, canReverify : BOOLEAN]

\* toQueueItem, for a field with a freshness rule.
QueueItem(row, t) == [id |-> row.id, version |-> row.version, canReverify |-> Due(row, t)]

\* queryFactReverificationQueue when the server's clock shows t.
Queue(t) ==
  {QueueItem(r, t) : r \in UNION {CurrentFacts(f) : f \in TimeSensitive}}

-----------------------------------------------------------------------------
(* The page.                                                               *)

\* A tab whose address carries a notice and whose page shows no queue.
Blank(page, notice, form) ==
  [page |-> page, asOf |-> Null, items |-> {}, notice |-> notice, form |-> form,
   waitsFor |-> Null]

\* FactReverificationPage for an address with this notice, loaded when the
\* server's clock shows t; any failure of the load is an unavailable page.
Ready(t, notice, form) ==
  [Blank("ready", notice, form) EXCEPT !.asOf = t, !.items = Queue(t)]
Pages(notice, form) ==
  {Ready(t, notice, form) : t \in {u \in Times : Authorized(Session, u)}}
  \cup {Blank("unavailable", notice, form)}

\* The owner follows a link to the page, or reloads the one the tab shows.
Open(b) ==
  /\ \E shown \in Pages(Null, Null) \cup Pages(tab[b].notice, tab[b].form) :
       tab' = [tab EXCEPT ![b] = shown]
  /\ UNCHANGED <<vars, posted>>

-----------------------------------------------------------------------------
(* The form and its server action.                                         *)

\* The command a form's POST carries when invocation p handles it; p is also the
\* name of the row id it draws (randomUUID).
FormCommand(id, version, p) ==
  [scope |-> ReverifyScope, key |-> FormKeys[<<id, version>>],
   owner |-> Session.owner, sessionExpiresAt |-> Session.sessionExpiresAt,
   request |-> [factId |-> id, expectedVersion |-> version],
   newFactId |-> p]

\* A key is made of the fact's id and version and of nothing else, and no other
\* command uses it; an id that is drawn is fresh.  DOMAIN FormKeys bounds the
\* facts and versions a form is sent for.
ASSUME FormAssumption ==
  /\ DOMAIN FormKeys \subseteq Ids \X (Nat \ {0})
  /\ \A x, y \in DOMAIN FormKeys : FormKeys[x] = FormKeys[y] => x = y
  /\ \A x \in DOMAIN FormKeys, p \in Attempts : FormCommand(x[1], x[2], p) \in Commands

ASSUME OtherAssumption ==
  /\ OtherCommands \subseteq Commands
  /\ \A c \in OtherCommands :
       /\ Reverifies(c) => c.key \notin {FormKeys[x] : x \in DOMAIN FormKeys}
       /\ (IF Reviews(c) THEN c.request.factId ELSE c.newFactId) \notin Attempts
  /\ \A r \in SeedFacts : r.id \notin Attempts

\* Variant for a mutant: the card of a fact that is not due has a form, too.
OfferedAlways(b) == tab[b].items

\* The items whose card has a form.
Offered(b) == {i \in tab[b].items : i.canReverify}

\* The owner submits a form.  Nothing disables the button while an answer is
\* awaited: a second submission replaces the first in the tab, not on the server.
Submit(b, p) ==
  /\ \E item \in Offered(b), t \in Times :
       LET c == FormCommand(item.id, item.version, p) IN
       /\ <<item.id, item.version>> \in DOMAIN FormKeys
       /\ \E answer \in IF Authorized(c, t) THEN FoundReverification(c)
                        ELSE {Answer("denied", Null)} : Start(p, c, t, answer, "decide")
       /\ posted' = [posted EXCEPT ![p] = [item |-> item, asOf |-> tab[b].asOf]]
  /\ tab' = [tab EXCEPT ![b].waitsFor = p]

\* Variant for a mutant: only an authorization error is caught.
NoticeUnlessDenied(outcome) == IF outcome = "denied" THEN "failed" ELSE "reverified"

\* reverifyFactAction: any error is the notice "failed".
NoticeOf(outcome) == IF outcome \in {"committed", "replayed"} THEN "reverified" ELSE "failed"

\* The browser follows the redirect; a process that died sent none.
ShowAnswer(b) ==
  LET p == tab[b].waitsFor IN
  /\ p # Null /\ pc[p] = "done"
  /\ \E shown \in IF reply[p].outcome = "crashed" THEN {Blank("unavailable", Null, Null)}
                  ELSE Pages(NoticeOf(reply[p].outcome), posted[p].item) :
       tab' = [tab EXCEPT ![b] = shown]
  /\ UNCHANGED <<vars, posted>>

-----------------------------------------------------------------------------
Form == [item : Item, asOf : Times]

ASSUME PageAssumption == Null \notin {"reverified", "failed"} \cup Form

PagesInit ==
  /\ Init
  /\ tab = [b \in Tabs |-> Blank("closed", Null, Null)]
  /\ posted = [p \in Attempts |-> Null]

\* What goes on behind the pages: the invocations run, and others are started.
Elsewhere(p) ==
  /\ AttemptStep(p) \/ Crash(p)
  /\ pc[p] = "idle" => cmd'[p] \in OtherCommands
  /\ UNCHANGED pageVars

PagesNext ==
  \/ \E b \in Tabs : Open(b) \/ ShowAnswer(b) \/ \E p \in Attempts : Submit(b, p)
  \/ \E p \in Attempts : Elsewhere(p)

PagesSpec == PagesInit /\ [][PagesNext]_allVars

\* As for the commands.  The owner need not do anything.
PagesFairSpec ==
  PagesSpec /\ \A p \in Attempts : WF_allVars(Progress(p) /\ UNCHANGED pageVars)
-----------------------------------------------------------------------------
(* Properties.                                                             *)

PagesTypeOK ==
  /\ tab \in [Tabs -> [page : {"closed", "ready", "unavailable"}, asOf : Times \cup {Null},
                       items : SUBSET Item, notice : {"reverified", "failed", Null},
                       form : Item \cup {Null}, waitsFor : Attempts \cup {Null}]]
  /\ posted \in [Attempts -> Form \cup {Null}]

\* "Fact reverified. A new immutable version is now current": a reverification
\* on top of exactly the version the form showed is there, and the queue below
\* the notice no longer lists that version, whichever invocation answered the
\* form and however often it was sent.
NoticeIsTrue ==
  \A b \in Tabs : tab[b].notice = "reverified" =>
    /\ \E r \in facts : /\ r.origin = "reverification" /\ r.supersedes = tab[b].form.id
                       /\ r.version = tab[b].form.version + 1
    /\ \A i \in tab[b].items : i.id # tab[b].form.id

\* A button the queue offered is not refused for a reason the owner could have
\* been shown: apart from lost authority and a crash, it fails only because the
\* version was superseded meanwhile, or because the answering server's clock is
\* behind the one that offered it.
OfferHonoured ==
  \A p \in Attempts : posted[p] # Null /\ pc[p] = "done" =>
    \/ reply[p].outcome \in {"committed", "replayed", "denied", "crashed"}
    \/ \E r \in facts : r.supersedes = posted[p].item.id
    \/ reply[p].outcome = "not_due" /\ now[p] < posted[p].asOf
=============================================================================
