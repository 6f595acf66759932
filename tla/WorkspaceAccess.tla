---------------------------- MODULE WorkspaceAccess ----------------------------
(***************************************************************************)
(* How a request gets its authority: the session is verified at the        *)
(* provider, resolve_workspace_access looks the access up in one           *)
(* statement, and the command checks role and session once more at a clock *)
(* of its own; the workspace directory lists what could be opened.         *)
(* Meanwhile people are disabled, memberships and support grants change    *)
(* and time passes.                                                        *)
(*                                                                         *)
(* A request is one page load or server action. The tables hold committed  *)
(* rows, and each query is one statement at the database's clock; servers  *)
(* have clocks that may lag behind it.                                     *)
(***************************************************************************)
EXTENDS Integers, FiniteSets

CONSTANTS
  Requests,      \* page loads and server actions
  Calls,         \* what they may ask: kind, workspace and session token
  SeedActors, SeedWorkspaces, SeedMemberships, SeedGrants,
  NewMemberships,  \* memberships that may be written later
  NewGrants,     \* support grants that may be given later
  Lags,          \* how far a server's clock may be behind the database's
  Tolerance,     \* the 60 s by which a session may seem issued in the future
  MaxTime,       \* bound on the clock
  MaxChanges,    \* bound on the changes to access
  Null

VARIABLES
  actors,        \* app_actor
  workspaces,    \* workspace: its status
  memberships,   \* workspace_membership
  grants,        \* support_grant
  changes,       \* how many of them were changed
  clock,         \* the database's clock
  pc,            \* where each request is
  call,          \* what it asks
  lag,           \* how far its server's clock is behind
  now,           \* the time it captured when it began
  access,        \* the actor it was resolved to
  reply,         \* what it answers
  seen           \* observer: the instants of the request, with the access there was

tables == <<actors, workspaces, memberships, grants, changes>>
requests == <<pc, call, lag, now, access, reply>>
vars == <<tables, clock, requests, seen>>

-----------------------------------------------------------------------------
(* Rows and records, as columns and CHECKs allow them.                     *)

Roles == {"owner", "staff", "internal_operator"}

\* app_actor_identity_shape: people have a subject at the provider, nobody else.
ActorRow ==
  {a \in [id : STRING, type : {"human", "system"}, subject : STRING \cup {Null},
          status : {"active", "disabled"}] : a.type = "human" <=> a.subject # Null}

MembershipRow ==
  [actor : STRING, workspace : DOMAIN SeedWorkspaces, role : Roles, status : {"active", "revoked"}]

GrantRow ==
  [id : STRING, actor : STRING, workspace : DOMAIN SeedWorkspaces,
   startsAt : Nat, expiresAt : Nat, revoked : BOOLEAN]

\* WorkspaceAccessRecord.
AccessRow ==
  [actor : STRING, role : Roles, kind : {"membership", "support_grant"},
   grant : STRING \cup {Null}]

\* A request, with the claims its session token is verified to.
CallRecord ==
  [kind : {"directory", "reverify", "context"}, workspace : DOMAIN SeedWorkspaces,
   token : [subject : STRING, aal : {"aal1", "aal2"}, issuedAt : Nat, expiresAt : Nat]]

\* The primary keys, and app_actor_provider_subject_unique.
KeysHold(as, ms, gs) ==
  /\ \A a, b \in as : a.id = b.id \/ (a.subject = b.subject /\ a.subject # Null) => a = b
  /\ \A m, n \in ms : m.actor = n.actor /\ m.workspace = n.workspace => m = n
  /\ \A g, h \in gs : g.id = h.id => g = h

ASSUME SeedAssumption ==
  /\ SeedActors \subseteq ActorRow /\ SeedMemberships \subseteq MembershipRow
  /\ SeedGrants \subseteq GrantRow /\ KeysHold(SeedActors, SeedMemberships, SeedGrants)
  /\ SeedWorkspaces \in [DOMAIN SeedWorkspaces -> {"active", "suspended"}]

ASSUME ChangeAssumption ==
  NewMemberships \subseteq MembershipRow /\ NewGrants \subseteq GrantRow

ASSUME CallAssumption ==
  /\ Calls \subseteq CallRecord /\ Null \notin CallRecord
  /\ Null \notin STRING /\ Null \notin AccessRow

ASSUME ClockAssumption ==
  Lags \subseteq Nat /\ Tolerance \in Nat /\ MaxTime \in Nat /\ MaxChanges \in Nat

-----------------------------------------------------------------------------
(* What the migrations' two functions select.                              *)

\* app_actor_provider_subject_unique: at most one actor.
ActorsOf(subject) == {a \in actors : a.subject = subject /\ a.status = "active"}
ActiveMemberships(a) == {m \in memberships : m.actor = a.id /\ m.status = "active"}

\* Variant for a mutant: the grant is chosen before it is checked.
FirstGrantIfActive(a, w) ==
  LET of == {g \in grants : g.actor = a.id /\ g.workspace = w}
      first == {g \in of : \A h \in of : g.expiresAt <= h.expiresAt}
  IN  {g \in first : g.startsAt <= clock /\ g.expiresAt > clock /\ ~g.revoked}

\* The lateral join: the active grants that expire first.
ActiveGrants(a, w) ==
  LET of == {g \in grants : /\ g.actor = a.id /\ g.workspace = w
                            /\ g.startsAt <= clock /\ g.expiresAt > clock
                            /\ ~g.revoked}
  IN  {g \in of : \A h \in of : g.expiresAt <= h.expiresAt}

Direct(a, m) == [actor |-> a.id, role |-> m.role, kind |-> "membership", grant |-> Null]
Granted(a, g) ==
  [actor |-> a.id, role |-> "internal_operator", kind |-> "support_grant", grant |-> g.id]

\* resolve_workspace_access.
ResolveWorkspaceAccess(subject, w, aal) ==
  LET people == {a \in ActorsOf(subject) : a.type = "human" /\ workspaces[w] = "active"}
      joined(a) == {m \in ActiveMemberships(a) : m.workspace = w}
      found(a, m) == IF m.role \in {"owner", "staff"} THEN {Direct(a, m)}
                     ELSE {Granted(a, g) : g \in {x \in ActiveGrants(a, w) : aal = "aal2"}}
  IN  UNION {UNION {found(a, m) : m \in joined(a)} : a \in people}

\* Variant for a mutant: a closed workspace stays in the directory.
ListClosedWorkspaces(subject) ==
  {[workspace |-> m.workspace, role |-> m.role] :
     m \in {x \in UNION {ActiveMemberships(a) : a \in ActorsOf(subject)} :
              x.role \in {"owner", "staff"}}}

\* list_workspace_directory, its rows grouped by workspace.
ListWorkspaceDirectory(subject) ==
  {[workspace |-> m.workspace, role |-> m.role] :
     m \in {x \in UNION {ActiveMemberships(a) : a \in ActorsOf(subject)} :
              x.role \in {"owner", "staff"} /\ workspaces[x.workspace] = "active"}}

-----------------------------------------------------------------------------
(* A request.                                                              *)

NoReply == [outcome |-> "none", ref |-> Null]
Answer(o, ref) == [outcome |-> o, ref |-> ref]

\* An answered request keeps nothing but its answer.
Finish(q, answer) ==
  /\ pc' = [pc EXCEPT ![q] = "done"]
  /\ reply' = [reply EXCEPT ![q] = answer]
  /\ call' = [call EXCEPT ![q] = Null]
  /\ lag' = [lag EXCEPT ![q] = 0]
  /\ now' = [now EXCEPT ![q] = 0]
  /\ access' = [access EXCEPT ![q] = Null]
Refuse(q, code) == Finish(q, Answer("refused", code))

Goto(q, to) ==
  /\ pc' = [pc EXCEPT ![q] = to]
  /\ UNCHANGED <<call, lag, now, access, reply>>

\* The token was read from the cookie, so the provider had issued it.
Begin(q, c) ==
  /\ pc[q] = "idle"
  /\ c.token.issuedAt <= clock
  /\ \E l \in Lags :
       /\ lag' = [lag EXCEPT ![q] = l]
       /\ now' = [now EXCEPT ![q] = clock - l]
  /\ call' = [call EXCEPT ![q] = c]
  /\ pc' = [pc EXCEPT ![q] = "verify"]
  /\ UNCHANGED <<access, reply>>

\* What resolveAuthenticatedActor or validatePrincipal objects to in verified
\* claims, at the time the request began.
SessionProblem(q) ==
  LET t == call[q].token IN
  IF call[q].kind = "directory"
  THEN IF \/ t.issuedAt > now[q] + Tolerance
          \/ t.issuedAt >= t.expiresAt
          \/ t.expiresAt <= now[q] THEN {"SESSION_INVALID"} ELSE {}
  ELSE IF t.issuedAt > now[q] + Tolerance THEN {"AUTHENTICATION_REQUIRED"}
  ELSE IF t.expiresAt <= now[q] THEN {"SESSION_EXPIRED"} ELSE {}

\* sessionVerifier.verify: the provider may reject the token or be out of
\* reach, and parseClaims rejects claims of another shape: all told the same.
Verify(q) ==
  /\ pc[q] = "verify"
  /\ \/ Refuse(q, "AUTHENTICATION_REQUIRED")
     \/ \E code \in SessionProblem(q) : Refuse(q, code)
     \/ /\ SessionProblem(q) = {}
        /\ Goto(q, IF call[q].kind = "directory" THEN "list" ELSE "resolve")

List(q) ==
  /\ pc[q] = "list"
  /\ Finish(q, Answer("listed", ListWorkspaceDirectory(call[q].token.subject)))

\* resolveAuthenticatedActor: why an access record the database returned is refused.
AccessProblem(r, aal) ==
  IF r.role = "internal_operator"
  THEN IF aal # "aal2" THEN {"MFA_REQUIRED"}
       ELSE IF r.kind # "support_grant" \/ r.grant = Null
       THEN {"SUPPORT_GRANT_REQUIRED"} ELSE {}
  ELSE IF r.kind # "membership" \/ r.grant # Null THEN {"WORKSPACE_ACCESS_DENIED"} ELSE {}

ResolvedFor(q) ==
  ResolveWorkspaceAccess(call[q].token.subject, call[q].workspace, call[q].token.aal)

ResolveProblem(q) ==
  IF ResolvedFor(q) = {} THEN {"WORKSPACE_ACCESS_DENIED"}
  ELSE UNION {AccessProblem(r, call[q].token.aal) : r \in ResolvedFor(q)}

Admit(q, r) ==
  /\ pc' = [pc EXCEPT ![q] = "command"]
  /\ access' = [access EXCEPT ![q] = r]
  /\ UNCHANGED <<call, lag, now, reply>>

\* Variant for a mutant: who needs no grant is not looked up again.
ResolveRemembered(q) ==
  /\ pc[q] = "resolve"
  /\ LET known == {access[o] : o \in {x \in Requests : /\ access[x] # Null
                                                        /\ access[x].kind = "membership"
                                                        /\ call[x] = call[q]}}
         found == IF known # {} THEN known ELSE ResolvedFor(q)
     IN  \/ found = {} /\ Refuse(q, "WORKSPACE_ACCESS_DENIED")
         \/ \E r \in found : Admit(q, r)

\* Variant for a mutant: a missing access record is left to the command.
ResolveLeniently(q) ==
  /\ pc[q] = "resolve"
  /\ IF ResolvedFor(q) = {} THEN Goto(q, "command")
     ELSE \E r \in ResolvedFor(q) : Admit(q, r)

\* workspaceAccess.resolveWorkspaceAccess, then the shape of what it returned.
Resolve(q) ==
  /\ pc[q] = "resolve"
  /\ \/ \E code \in ResolveProblem(q) : Refuse(q, code)
     \/ \E r \in ResolvedFor(q) : ResolveProblem(q) = {} /\ Admit(q, r)

\* assertOwnerContext: what a reverification objects to at time t.
OwnerProblem(q, t) ==
  IF ~(access[q].role = "owner" /\ access[q].kind = "membership")
  THEN {"FACT_REVERIFICATION_ACCESS_DENIED"}
  ELSE IF call[q].token.expiresAt > t THEN {} ELSE {"FACT_REVERIFICATION_SESSION_INVALID"}

\* actorShapeIsAuthorized and authorize: what a query of the approved context objects to.
QueryProblem(q, t) ==
  IF AccessProblem(access[q], "aal2") # {} THEN {"APPROVED_CONTEXT_UNAUTHORIZED"}
  ELSE IF call[q].token.expiresAt > t THEN {} ELSE {"APPROVED_CONTEXT_SESSION_EXPIRED"}

CommandProblem(q, t) ==
  IF call[q].kind = "reverify" THEN OwnerProblem(q, t) ELSE QueryProblem(q, t)

\* executeFactReverification and queryApprovedContext read the clock anew.
Command(q) ==
  LET problem == CommandProblem(q, clock - lag[q]) IN
  /\ pc[q] = "command"
  /\ \/ \E code \in problem : Refuse(q, code)
     \/ problem = {} /\ Finish(q, Answer("admitted", access[q]))

-----------------------------------------------------------------------------
(* Changes to access. No code of the repository makes them yet; they are   *)
(* what the schema's keys and checks allow an administrator.               *)

Changing == changes < MaxChanges /\ changes' = changes + 1

SetActor(a, status) ==
  /\ Changing /\ status # a.status
  /\ actors' = (actors \ {a}) \cup {[a EXCEPT !.status = status]}
  /\ UNCHANGED <<workspaces, memberships, grants>>

SetWorkspace(w, status) ==
  /\ Changing /\ status # workspaces[w]
  /\ workspaces' = [workspaces EXCEPT ![w] = status]
  /\ UNCHANGED <<actors, memberships, grants>>

\* workspace_membership_primary: a person has one membership of a workspace.
SetMembership(m) ==
  /\ Changing /\ m \notin memberships
  /\ memberships' = {x \in memberships : x.actor # m.actor \/ x.workspace # m.workspace} \cup {m}
  /\ UNCHANGED <<actors, workspaces, grants>>

AddGrant(g) ==
  /\ Changing /\ \A h \in grants : h.id # g.id
  /\ grants' = grants \cup {g}
  /\ UNCHANGED <<actors, workspaces, memberships>>

\* support_grant_revoked_after_start.
RevokeGrant(g) ==
  /\ Changing /\ ~g.revoked /\ g.startsAt <= clock
  /\ grants' = (grants \ {g}) \cup {[g EXCEPT !.revoked = TRUE]}
  /\ UNCHANGED <<actors, workspaces, memberships>>

ChangeAccess ==
  /\ \/ \E a \in actors, s \in {"active", "disabled"} : SetActor(a, s)
     \/ \E w \in DOMAIN workspaces, s \in {"active", "suspended"} : SetWorkspace(w, s)
     \/ \E m \in NewMemberships : SetMembership(m)
     \/ \E g \in NewGrants : AddGrant(g)
     \/ \E g \in grants : RevokeGrant(g)
  /\ UNCHANGED <<clock, requests>>

Tick == clock < MaxTime /\ clock' = clock + 1 /\ UNCHANGED <<tables, requests>>

-----------------------------------------------------------------------------
\* What being an active member of an open workspace means, said once and without joins.
ActiveMember(a, role, subject, w) ==
  /\ workspaces[w] = "active"
  /\ a.type = "human" /\ a.subject = subject /\ a.status = "active"
  /\ [actor |-> a.id, workspace |-> w, role |-> role, status |-> "active"] \in memberships

\* A grant by which an operator with a second factor assists now.
Assists(a, g, subject, w, aal) ==
  /\ ActiveMember(a, "internal_operator", subject, w) /\ aal = "aal2"
  /\ g.actor = a.id /\ g.workspace = w
  /\ clock \in g.startsAt .. g.expiresAt - 1 /\ ~g.revoked

HeldBy(a, subject, w, aal) ==
  {[actor |-> a.id, role |-> r, kind |-> "membership", grant |-> Null] :
     r \in {x \in {"owner", "staff"} : ActiveMember(a, x, subject, w)}}
  \cup
  {[actor |-> a.id, role |-> "internal_operator", kind |-> "support_grant", grant |-> g.id] :
     g \in {x \in grants : Assists(a, x, subject, w, aal)}}

\* The access a person has at this instant.
Entitlements(subject, w, aal) == UNION {HeldBy(a, subject, w, aal) : a \in actors}

Held ==
  [q \in Requests |->
     IF call[q] = Null \/ pc[q] = "list" THEN {}
     ELSE Entitlements(call[q].token.subject, call[q].workspace, call[q].token.aal)]

\* The observer records what there was to be seen since a request began, and when.
Observe ==
  seen' = [q \in Requests |->
             IF pc'[q] \in {"idle", "done"} THEN {}
             ELSE seen[q] \cup {[held |-> Held'[q], time |-> clock']}]

Init ==
  /\ actors = SeedActors
  /\ workspaces = SeedWorkspaces
  /\ memberships = SeedMemberships
  /\ grants = SeedGrants
  /\ changes = 0
  /\ clock = 0
  /\ pc = [q \in Requests |-> "idle"]
  /\ call = [q \in Requests |-> Null]
  /\ lag = [q \in Requests |-> 0]
  /\ now = [q \in Requests |-> 0]
  /\ access = [q \in Requests |-> Null]
  /\ reply = [q \in Requests |-> NoReply]
  /\ seen = [q \in Requests |-> {}]

RequestStep(q) ==
  /\ (\E c \in Calls : Begin(q, c)) \/ Verify(q) \/ List(q) \/ Resolve(q) \/ Command(q)
  /\ UNCHANGED <<tables, clock>>

Quiescent == (\A q \in Requests : pc[q] = "done") /\ UNCHANGED vars

Next ==
  \/ ((\E q \in Requests : RequestStep(q)) \/ ChangeAccess \/ Tick) /\ Observe
  \/ Quiescent

Spec == Init /\ [][Next]_vars

-----------------------------------------------------------------------------
(* Properties.                                                             *)

\* The tables keep their keys, and a request knows its actor exactly between
\* being resolved and being answered.
TypeOK ==
  /\ actors \subseteq ActorRow /\ memberships \subseteq MembershipRow /\ grants \subseteq GrantRow
  /\ KeysHold(actors, memberships, grants)
  /\ workspaces \in [DOMAIN SeedWorkspaces -> {"active", "suspended"}]
  /\ changes \in Nat /\ clock \in Nat
  /\ pc \in [Requests -> {"idle", "verify", "list", "resolve", "command", "done"}]
  /\ call \in [Requests -> Calls \cup {Null}]
  /\ lag \in [Requests -> Lags \cup {0}] /\ now \in [Requests -> Int]
  /\ access \in [Requests -> AccessRow \cup {Null}]
  /\ \A q \in Requests :
       /\ pc[q] \in {"idle", "done"} <=> call[q] = Null
       /\ pc[q] = "command" <=> access[q] # Null
       /\ pc[q] = "done" <=> reply[q] # NoReply

\* The directory lists exactly what its reader could open as a customer: the two
\* functions, in two migrations, agree whatever was changed, although only one
\* of them asks for a human actor (FND-002C).
DirectoryAgrees ==
  \A a \in actors : a.subject # Null => \A aal \in {"aal1", "aal2"} :
    ListWorkspaceDirectory(a.subject) =
      {x \in [workspace : DOMAIN workspaces, role : {"owner", "staff"}] :
         \E e \in ResolveWorkspaceAccess(a.subject, x.workspace, aal) : e.role = x.role}

\* Who is admitted had this very access at an instant of the request, so an access
\* revoked or a grant expired before it began counts for nothing (FND-002: current
\* membership and grant are resolved for every command); the session was valid at
\* every instant of the request by its server's clock, however long verification
\* and look-up took; and facts are reverified by owners only.
AdmittedAccessWasHeld ==
  [][\A q \in Requests :
       reply'[q].outcome = "admitted" /\ reply[q].outcome # "admitted" =>
         /\ \E i \in seen[q] : reply'[q].ref \in i.held
         /\ \A i \in seen[q] : call[q].token.expiresAt > i.time - lag[q]
         /\ call[q].kind = "reverify" => reply'[q].ref.role = "owner"]_vars

\* Who had access at every instant of the request is not told there is none, whatever
\* other grants have expired or were revoked; and nobody who is let in by
\* the database is turned away for the shape of that access.
DenialsAreWarranted ==
  [][\A q \in Requests :
       reply'[q].outcome = "refused" /\ reply[q].outcome # "refused" =>
         /\ reply'[q].ref = "WORKSPACE_ACCESS_DENIED" => \E i \in seen[q] : i.held = {}
         /\ reply'[q].ref \notin {"MFA_REQUIRED", "SUPPORT_GRANT_REQUIRED",
                                  "APPROVED_CONTEXT_UNAUTHORIZED"}]_vars
=============================================================================
