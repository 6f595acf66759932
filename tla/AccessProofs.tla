------------------------------ MODULE AccessProofs ------------------------------
(***************************************************************************)
(* Theorems about the authority of requests, for every number of them and  *)
(* every history of people, workspaces, memberships and grants.            *)
(***************************************************************************)
EXTENDS WorkspaceAccess, WellFoundedInduction, TLAPS

-----------------------------------------------------------------------------
(* The inductive invariant.                                                *)

\* The shape of what the resolver selects.
Resolvable(r, aal) ==
  /\ r \in AccessRow
  /\ r.role = "internal_operator" => aal = "aal2" /\ r.kind = "support_grant" /\ r.grant # Null
  /\ r.role # "internal_operator" => r.kind = "membership" /\ r.grant = Null

\* What there is to be seen of a request now.
Instant(q) == [held |-> Held[q], time |-> clock]

\* A request that runs has seen this instant and none after it, and a resolved
\* one is the actor of an access it has seen.
RequestInv(q) ==
  /\ pc[q] \notin {"idle", "done"} => Instant(q) \in seen[q]
  /\ \A i \in seen[q] : i.time \in Nat /\ i.time <= clock
  /\ pc[q] = "command" =>
       /\ Resolvable(access[q], call[q].token.aal)
       /\ \E i \in seen[q] : access[q] \in i.held

AccessInv ==
  /\ TypeOK /\ DOMAIN reply = Requests
  /\ \A q \in Requests : RequestInv(q)

-----------------------------------------------------------------------------
(* What the resolver selects is what there is.                             *)

LEMMA ResolvedShape ==
  ASSUME TypeOK, NEW subject, NEW w, NEW aal, NEW r \in ResolveWorkspaceAccess(subject, w, aal)
  PROVE  /\ Resolvable(r, aal) /\ workspaces[w] = "active"
         /\ \E a \in ActorsOf(subject) : a.type = "human" /\ \E m \in ActiveMemberships(a) :
              /\ m.workspace = w
              /\ \/ m.role \in {"owner", "staff"} /\ r = Direct(a, m)
                 \/ /\ m.role = "internal_operator" /\ aal = "aal2"
                    /\ \E g \in ActiveGrants(a, w) : r = Granted(a, g)
<1>0. PICK a \in ActorsOf(subject) :
        /\ a.type = "human" /\ workspaces[w] = "active"
        /\ \E m \in ActiveMemberships(a) :
             /\ m.workspace = w
             /\ r \in IF m.role \in {"owner", "staff"} THEN {Direct(a, m)}
                      ELSE {Granted(a, g) : g \in {x \in ActiveGrants(a, w) : aal = "aal2"}}
  BY DEF ResolveWorkspaceAccess
<1>1. PICK m \in ActiveMemberships(a) :
        /\ m.workspace = w
        /\ r \in IF m.role \in {"owner", "staff"} THEN {Direct(a, m)}
                 ELSE {Granted(a, g) : g \in {x \in ActiveGrants(a, w) : aal = "aal2"}}
  BY <1>0
<1>2. /\ a \in actors /\ a.id \in STRING /\ m \in memberships /\ m.role \in Roles
  BY <1>0, <1>1 DEF TypeOK, ActorsOf, ActiveMemberships, ActorRow, MembershipRow
<1>3. CASE m.role \in {"owner", "staff"}
  <2>1. r = Direct(a, m)
    BY <1>1, <1>3
  <2>2. Resolvable(r, aal)
    BY <2>1, <1>2, <1>3 DEF Resolvable, Direct, AccessRow, Roles
  <2>3. QED BY <2>1, <2>2, <1>0, <1>1, <1>3
<1>4. CASE m.role \notin {"owner", "staff"}
  <2>1. m.role = "internal_operator" /\ aal = "aal2"
        /\ \E g \in ActiveGrants(a, w) : r = Granted(a, g)
    BY <1>1, <1>2, <1>4 DEF Roles
  <2>2. PICK g \in ActiveGrants(a, w) : r = Granted(a, g)
    BY <2>1
  <2>3. g.id \in STRING
    BY DEF ActiveGrants, TypeOK, GrantRow
  <2>4. Resolvable(r, aal)
    BY <2>1, <2>2, <2>3, <1>2, CallAssumption DEF Resolvable, Granted, AccessRow, Roles
  <2>5. QED BY <2>1, <2>4, <1>0, <1>1
<1>5. QED BY <1>3, <1>4

\* Of the grants that run, one expires first.
LEMMA SomeGrantFirst ==
  ASSUME TypeOK, NEW a, NEW w, NEW g \in grants, g.actor = a.id, g.workspace = w,
         g.startsAt <= clock, g.expiresAt > clock, ~g.revoked
  PROVE  ActiveGrants(a, w) # {}
<1> DEFINE of == {x \in grants : /\ x.actor = a.id /\ x.workspace = w
                                /\ x.startsAt <= clock /\ x.expiresAt > clock
                                /\ ~x.revoked}
           ends == {x.expiresAt : x \in of}
<1>1. ends \subseteq Nat /\ ends # {}
  <2>1. g \in of
    OBVIOUS
  <2>2. \A x \in of : x.expiresAt \in Nat
    BY DEF TypeOK, GrantRow
  <2>3. QED BY <2>1, <2>2
<1>2. PICK n \in ends : \A m \in ends : n <= m
  <2> DEFINE less == OpToRel(<, Nat)
  <2>1. PICK n \in ends : \A m \in ends : <<m, n>> \notin less
    BY <1>1, NatLessThanWellFounded, WFMin
  <2>2. \A m, k \in Nat : <<m, k>> \in less <=> m < k
    BY DEF OpToRel
  <2> HIDE DEF less, ends
  <2>3. \A m \in ends : ~(m < n)
    BY <1>1, <2>1, <2>2, Zenon
  <2>4. \A m \in ends : n <= m
    BY <1>1, <2>3
  <2>5. QED BY <2>4
<1>3. PICK x \in of : x.expiresAt = n
  BY <1>2
<1>4. \A h \in of : x.expiresAt <= h.expiresAt
  BY <1>2, <1>3
<1>5. x \in ActiveGrants(a, w)
  BY <1>3, <1>4 DEF ActiveGrants
<1>6. QED BY <1>5

\* Only what is held is resolved ...
LEMMA ResolvedAreHeld ==
  ASSUME TypeOK, NEW subject, NEW w, NEW aal, NEW r \in ResolveWorkspaceAccess(subject, w, aal)
  PROVE  r \in Entitlements(subject, w, aal)
<1>1. workspaces[w] = "active"
  BY ResolvedShape
<1>2. PICK a \in ActorsOf(subject) : a.type = "human" /\ \E m \in ActiveMemberships(a) :
        /\ m.workspace = w
        /\ \/ m.role \in {"owner", "staff"} /\ r = Direct(a, m)
           \/ /\ m.role = "internal_operator" /\ aal = "aal2"
              /\ \E g \in ActiveGrants(a, w) : r = Granted(a, g)
  BY ResolvedShape
<1>3. PICK m \in ActiveMemberships(a) :
        /\ m.workspace = w
        /\ \/ m.role \in {"owner", "staff"} /\ r = Direct(a, m)
           \/ /\ m.role = "internal_operator" /\ aal = "aal2"
              /\ \E g \in ActiveGrants(a, w) : r = Granted(a, g)
  BY <1>2
<1>4. a \in actors /\ a.subject = subject /\ a.status = "active" /\ a.type = "human"
  BY <1>2 DEF ActorsOf
<1>5. m \in memberships /\ m.actor = a.id /\ m.status = "active" /\ m \in MembershipRow
  BY DEF ActiveMemberships, TypeOK
<1>6. m = [actor |-> a.id, workspace |-> w, role |-> m.role, status |-> "active"]
  BY <1>3, <1>5 DEF MembershipRow
<1>7. CASE m.role \in {"owner", "staff"} /\ r = Direct(a, m)
  <2>1. ActiveMember(a, m.role, subject, w)
    BY <1>1, <1>4, <1>5, <1>6 DEF ActiveMember
  <2>2. r \in HeldBy(a, subject, w, aal)
    BY <1>7, <2>1 DEF Direct, HeldBy
  <2>3. QED BY <1>4, <2>2 DEF Entitlements
<1>8. CASE /\ m.role = "internal_operator" /\ aal = "aal2"
           /\ \E g \in ActiveGrants(a, w) : r = Granted(a, g)
  <2>1. PICK g \in ActiveGrants(a, w) : r = Granted(a, g)
    BY <1>8
  <2>2. /\ g \in grants /\ g.actor = a.id /\ g.workspace = w /\ ~g.revoked
        /\ g.startsAt <= clock /\ g.expiresAt > clock /\ g.startsAt \in Nat /\ g.expiresAt \in Nat
    BY DEF ActiveGrants, TypeOK, GrantRow
  <2>3. clock \in g.startsAt .. g.expiresAt - 1
    BY <2>2 DEF TypeOK
  <2>4. ActiveMember(a, "internal_operator", subject, w)
    BY <1>1, <1>4, <1>5, <1>6, <1>8 DEF ActiveMember
  <2>5. r \in HeldBy(a, subject, w, aal)
    BY <1>8, <2>1, <2>2, <2>3, <2>4 DEF Granted, HeldBy, Assists
  <2>6. QED BY <1>4, <2>5 DEF Entitlements
<1>9. QED BY <1>3, <1>7, <1>8

\* A row of the join is selected.
LEMMA JoinedIsResolved ==
  ASSUME NEW subject, NEW w, NEW aal, workspaces[w] = "active",
         NEW a \in ActorsOf(subject), a.type = "human",
         NEW m \in ActiveMemberships(a), m.workspace = w,
         NEW x, x \in IF m.role \in {"owner", "staff"} THEN {Direct(a, m)}
                      ELSE {Granted(a, g) : g \in {y \in ActiveGrants(a, w) : aal = "aal2"}}
  PROVE  x \in ResolveWorkspaceAccess(subject, w, aal)
<1> DEFINE people == {b \in ActorsOf(subject) : b.type = "human" /\ workspaces[w] = "active"}
           joined(b) == {n \in ActiveMemberships(b) : n.workspace = w}
           found(b, n) == IF n.role \in {"owner", "staff"} THEN {Direct(b, n)}
                          ELSE {Granted(b, g) : g \in {y \in ActiveGrants(b, w) : aal = "aal2"}}
           all(b) == UNION {found(b, n) : n \in joined(b)}
<1>1. a \in people /\ m \in joined(a) /\ x \in found(a, m)
  OBVIOUS
<1>2. ResolveWorkspaceAccess(subject, w, aal) = UNION {all(b) : b \in people}
  BY Zenon DEF ResolveWorkspaceAccess
<1> HIDE DEF people, joined, found
<1>3. x \in all(a)
  BY <1>1
<1> HIDE DEF all
<1>4. x \in UNION {all(b) : b \in people}
  BY <1>1, <1>3
<1>5. QED BY <1>2, <1>4

\* ... and where something is held, something is resolved.
LEMMA HeldIsResolved ==
  ASSUME TypeOK, NEW subject, NEW w, NEW aal, Entitlements(subject, w, aal) # {}
  PROVE  ResolveWorkspaceAccess(subject, w, aal) # {}
<1> DEFINE row(r, a) == [actor |-> a.id, workspace |-> w, role |-> r, status |-> "active"]
<1>1. PICK a \in actors : \/ \E r \in {"owner", "staff"} : ActiveMember(a, r, subject, w)
                          \/ \E g \in grants : Assists(a, g, subject, w, aal)
  BY DEF Entitlements, HeldBy
<1>2. ASSUME NEW r \in Roles, ActiveMember(a, r, subject, w)
      PROVE  /\ a \in ActorsOf(subject) /\ a.type = "human" /\ workspaces[w] = "active"
             /\ row(r, a) \in ActiveMemberships(a)
             /\ row(r, a).workspace = w /\ row(r, a).role = r
  BY <1>2 DEF ActorsOf, ActiveMemberships, ActiveMember
<1>3. CASE \E r \in {"owner", "staff"} : ActiveMember(a, r, subject, w)
  <2>1. PICK r \in {"owner", "staff"} : ActiveMember(a, r, subject, w)
    BY <1>3
  <2>2. Direct(a, row(r, a)) \in ResolveWorkspaceAccess(subject, w, aal)
    <3>1. row(r, a) \in ActiveMemberships(a) /\ row(r, a).workspace = w /\ row(r, a).role = r
          /\ a \in ActorsOf(subject) /\ a.type = "human" /\ workspaces[w] = "active"
      BY <2>1, <1>2 DEF Roles
    <3> HIDE DEF row
    <3>2. QED BY <2>1, <3>1, JoinedIsResolved
  <2>3. QED BY <2>2
<1>4. CASE \E g \in grants : Assists(a, g, subject, w, aal)
  <2>1. PICK g \in grants : Assists(a, g, subject, w, aal)
    BY <1>4
  <2>2. g.startsAt <= clock /\ g.expiresAt > clock
    BY <2>1 DEF TypeOK, GrantRow, Assists
  <2>3. PICK h \in ActiveGrants(a, w) : TRUE
    BY <2>1, <2>2, SomeGrantFirst DEF Assists
  <2>4. ActiveMember(a, "internal_operator", subject, w) /\ aal = "aal2"
    BY <2>1 DEF Assists
  <2>5. Granted(a, h) \in ResolveWorkspaceAccess(subject, w, aal)
    <3>1. row("internal_operator", a) \in ActiveMemberships(a)
          /\ row("internal_operator", a).workspace = w
          /\ row("internal_operator", a).role = "internal_operator"
          /\ a \in ActorsOf(subject) /\ a.type = "human" /\ workspaces[w] = "active"
      BY <1>2, <2>4 DEF Roles
    <3> HIDE DEF row
    <3>2. Granted(a, h) \in {Granted(a, x) : x \in {y \in ActiveGrants(a, w) : aal = "aal2"}}
      BY <2>3, <2>4
    <3>3. QED BY <3>1, <3>2, JoinedIsResolved
  <2>6. QED BY <2>5
<1>5. QED BY <1>1, <1>3, <1>4

\* The two functions of the two migrations list and resolve the same customers.
LEMMA DirectoryHolds == TypeOK => DirectoryAgrees
<1> SUFFICES ASSUME TypeOK, NEW a \in actors, a.subject # Null, NEW aal \in {"aal1", "aal2"}
             PROVE  ListWorkspaceDirectory(a.subject) =
                      {x \in [workspace : DOMAIN workspaces, role : {"owner", "staff"}] :
                         \E e \in ResolveWorkspaceAccess(a.subject, x.workspace, aal) : e.role = x.role}
  BY DEF DirectoryAgrees
<1> DEFINE listed == ListWorkspaceDirectory(a.subject)
           open == {x \in [workspace : DOMAIN workspaces, role : {"owner", "staff"}] :
                      \E e \in ResolveWorkspaceAccess(a.subject, x.workspace, aal) : e.role = x.role}
<1>1. ASSUME NEW x \in listed PROVE x \in open
  <2>1. PICK b \in ActorsOf(a.subject) : \E m \in ActiveMemberships(b) :
          /\ m.role \in {"owner", "staff"} /\ workspaces[m.workspace] = "active"
          /\ x = [workspace |-> m.workspace, role |-> m.role]
    BY DEF ListWorkspaceDirectory
  <2>2. PICK m \in ActiveMemberships(b) :
          /\ m.role \in {"owner", "staff"} /\ workspaces[m.workspace] = "active"
          /\ x = [workspace |-> m.workspace, role |-> m.role]
    BY <2>1
  <2>3. b.type = "human"
    BY DEF ActorsOf, TypeOK, ActorRow
  <2>4. m.workspace \in DOMAIN workspaces
    BY DEF ActiveMemberships, TypeOK, MembershipRow
  <2>5. Direct(b, m) \in ResolveWorkspaceAccess(a.subject, m.workspace, aal)
    BY <2>2, <2>3 DEF ResolveWorkspaceAccess
  <2>6. Direct(b, m).role = m.role
    BY DEF Direct
  <2>7. QED BY <2>2, <2>4, <2>5, <2>6
<1>2. ASSUME NEW x \in open PROVE x \in listed
  <2>1. PICK e \in ResolveWorkspaceAccess(a.subject, x.workspace, aal) : e.role = x.role
    OBVIOUS
  <2>2. x \in [workspace : DOMAIN workspaces, role : {"owner", "staff"}]
    OBVIOUS
  <2>3. workspaces[x.workspace] = "active"
    BY <2>1, ResolvedShape
  <2>4. PICK b \in ActorsOf(a.subject) : b.type = "human" /\ \E m \in ActiveMemberships(b) :
          /\ m.workspace = x.workspace
          /\ \/ m.role \in {"owner", "staff"} /\ e = Direct(b, m)
             \/ /\ m.role = "internal_operator" /\ aal = "aal2"
                /\ \E g \in ActiveGrants(b, x.workspace) : e = Granted(b, g)
    BY <2>1, ResolvedShape
  <2>5. PICK m \in ActiveMemberships(b) :
          /\ m.workspace = x.workspace
          /\ \/ m.role \in {"owner", "staff"} /\ e = Direct(b, m)
             \/ \E g \in ActiveGrants(b, x.workspace) : e = Granted(b, g)
    BY <2>4
  <2>6. m.role \in {"owner", "staff"} /\ m.role = x.role
    BY <2>1, <2>2, <2>5 DEF Direct, Granted
  <2>7. x = [workspace |-> m.workspace, role |-> m.role]
    BY <2>2, <2>5, <2>6
  <2>8. QED BY <2>3, <2>5, <2>6, <2>7 DEF ListWorkspaceDirectory
<1>3. QED BY <1>1, <1>2

-----------------------------------------------------------------------------
(* The steps of a request.                                                 *)

OthersKept(q) ==
  \A p \in Requests \ {q} :
    /\ pc'[p] = pc[p] /\ call'[p] = call[p] /\ lag'[p] = lag[p] /\ now'[p] = now[p]
    /\ access'[p] = access[p] /\ reply'[p] = reply[p]

\* Why a request ends, and how it is told.
Ends(q, answer) ==
  \/ \E code \in {"AUTHENTICATION_REQUIRED", "SESSION_INVALID", "SESSION_EXPIRED"} :
       answer = Answer("refused", code)
  \/ \E listed : answer = Answer("listed", listed)
  \/ pc[q] = "resolve" /\ \E code \in ResolveProblem(q) : answer = Answer("refused", code)
  \/ /\ pc[q] = "command"
     /\ \/ \E code \in CommandProblem(q, clock - lag[q]) : answer = Answer("refused", code)
        \/ CommandProblem(q, clock - lag[q]) = {} /\ answer = Answer("admitted", access[q])

LEMMA StepCases ==
  ASSUME AccessInv, NEW q \in Requests, RequestStep(q)
  PROVE  /\ OthersKept(q)
         /\ \/ \E c \in Calls : Begin(q, c)
            \/ pc[q] = "verify" /\ \E to \in {"list", "resolve"} : Goto(q, to)
            \/ pc[q] = "resolve" /\ \E r \in ResolvedFor(q) : Admit(q, r)
            \/ /\ pc[q] \in {"verify", "list", "resolve", "command"}
               /\ \E answer : Ends(q, answer) /\ Finish(q, answer)
<1> USE DEF AccessInv
<1>1. CASE \E c \in Calls : Begin(q, c)
  BY <1>1 DEF Begin, OthersKept, TypeOK
<1>2. CASE Verify(q)
  <2>1. CASE \E to \in {"list", "resolve"} : Goto(q, to)
    BY <1>2, <2>1 DEF Verify, Goto, OthersKept, TypeOK
  <2>2. CASE \E code \in {"AUTHENTICATION_REQUIRED"} \cup SessionProblem(q) : Refuse(q, code)
    <3>1. SessionProblem(q) \subseteq {"AUTHENTICATION_REQUIRED", "SESSION_INVALID", "SESSION_EXPIRED"}
      BY DEF SessionProblem
    <3>2. PICK code \in {"AUTHENTICATION_REQUIRED", "SESSION_INVALID", "SESSION_EXPIRED"} :
            Finish(q, Answer("refused", code))
      BY <2>2, <3>1 DEF Refuse
    <3>3. Ends(q, Answer("refused", code))
      BY DEF Ends
    <3>4. OthersKept(q)
      BY <3>2 DEF Finish, OthersKept, TypeOK
    <3>5. QED BY <1>2, <3>2, <3>3, <3>4 DEF Verify
  <2>3. QED BY <1>2, <2>1, <2>2 DEF Verify
<1>3. CASE List(q)
  <2>1. PICK listed : Finish(q, Answer("listed", listed))
    BY <1>3 DEF List
  <2>2. Ends(q, Answer("listed", listed))
    BY DEF Ends
  <2>3. OthersKept(q)
    BY <2>1 DEF Finish, OthersKept, TypeOK
  <2>4. QED BY <1>3, <2>1, <2>2, <2>3 DEF List
<1>4. CASE Resolve(q)
  <2>1. CASE \E r \in ResolvedFor(q) : Admit(q, r)
    BY <1>4, <2>1 DEF Resolve, Admit, OthersKept, TypeOK
  <2>2. CASE \E code \in ResolveProblem(q) : Refuse(q, code)
    <3>1. PICK code \in ResolveProblem(q) : Finish(q, Answer("refused", code))
      BY <2>2 DEF Refuse
    <3>2. Ends(q, Answer("refused", code)) /\ pc[q] = "resolve"
      BY <1>4, <3>1 DEF Ends, Resolve
    <3>3. OthersKept(q)
      BY <3>1 DEF Finish, OthersKept, TypeOK
    <3>4. QED BY <3>1, <3>2, <3>3
  <2>3. QED BY <1>4, <2>1, <2>2 DEF Resolve
<1>5. CASE Command(q)
  <2>1. PICK answer : Ends(q, answer) /\ Finish(q, answer)
    BY <1>5 DEF Command, Ends, Refuse
  <2>2. OthersKept(q)
    BY <2>1 DEF Finish, OthersKept, TypeOK
  <2>3. QED BY <1>5, <2>1, <2>2 DEF Command
<1>6. QED BY <1>1, <1>2, <1>3, <1>4, <1>5 DEF RequestStep

LEMMA AnswersAreReplies == \A o, x : o # "none" => Answer(o, x) # NoReply
BY DEF Answer, NoReply

LEMMA EndsWithReply ==
  ASSUME NEW q, NEW answer, Ends(q, answer)
  PROVE  answer # NoReply /\ answer.outcome \in {"refused", "listed", "admitted"}
BY DEF Ends, Answer, NoReply

\* A request's step keeps its own variables in shape.
LEMMA StepType ==
  ASSUME AccessInv, NEW q \in Requests, RequestStep(q)
  PROVE  TypeOK' /\ DOMAIN reply' = Requests
<1> USE DEF AccessInv
<1>1. OthersKept(q)
  BY StepCases
<1>2. UNCHANGED <<tables, clock>>
  BY DEF RequestStep
<1>3. /\ pc' \in [Requests -> {"idle", "verify", "list", "resolve", "command", "done"}]
      /\ call' \in [Requests -> Calls \cup {Null}]
      /\ lag' \in [Requests -> Lags \cup {0}] /\ now' \in [Requests -> Int]
      /\ access' \in [Requests -> AccessRow \cup {Null}]
      /\ DOMAIN reply' = Requests
      /\ pc'[q] \in {"idle", "done"} <=> call'[q] = Null
      /\ pc'[q] = "command" <=> access'[q] # Null
      /\ pc'[q] = "done" <=> reply'[q] # NoReply
  <2>1. CASE \E c \in Calls : Begin(q, c)
    <3>1. PICK c \in Calls, l \in Lags :
            /\ pc[q] = "idle" /\ lag' = [lag EXCEPT ![q] = l] /\ now' = [now EXCEPT ![q] = clock - l]
            /\ call' = [call EXCEPT ![q] = c] /\ pc' = [pc EXCEPT ![q] = "verify"]
            /\ UNCHANGED <<access, reply>>
      BY <2>1 DEF Begin
    <3>2. c # Null /\ l \in Nat /\ clock - l \in Int
      BY CallAssumption, ClockAssumption DEF TypeOK
    <3>3. QED BY <3>1, <3>2 DEF TypeOK
  <2>2. CASE pc[q] = "verify" /\ \E to \in {"list", "resolve"} : Goto(q, to)
    BY <2>2 DEF Goto, TypeOK
  <2>3. CASE pc[q] = "resolve" /\ \E r \in ResolvedFor(q) : Admit(q, r)
    <3>1. PICK r \in ResolvedFor(q) : Admit(q, r)
      BY <2>3
    <3>2. r \in AccessRow /\ r # Null
      BY ResolvedShape, CallAssumption DEF ResolvedFor, Resolvable
    <3>3. QED BY <2>3, <3>1, <3>2 DEF Admit, TypeOK
  <2>4. CASE \E answer : Ends(q, answer) /\ Finish(q, answer)
    <3>1. PICK answer : answer # NoReply /\ Finish(q, answer)
      BY <2>4, EndsWithReply
    <3>2. QED BY <3>1 DEF Finish, TypeOK
  <2>5. QED BY <2>1, <2>2, <2>3, <2>4, StepCases
<1>4. QED BY <1>1, <1>2, <1>3 DEF TypeOK, OthersKept, tables

\* What is observed, and what stays of what was.
LEMMA Observed ==
  ASSUME Observe, NEW p \in Requests, pc'[p] \notin {"idle", "done"}
  PROVE  Instant(p)' \in seen'[p] /\ seen[p] \subseteq seen'[p]
BY DEF Observe, Instant

\* No instant is seen before its time.
LEMMA ObservedTimes ==
  ASSUME Observe, NEW p \in Requests, RequestInv(p), clock \in Nat, clock' \in Nat,
         clock <= clock', NEW i \in seen'[p]
  PROVE  i.time \in Nat /\ i.time <= clock'
<1>1. i \in seen[p] \/ i = [held |-> Held'[p], time |-> clock']
  BY DEF Observe
<1>2. CASE i \in seen[p]
  BY <1>2 DEF RequestInv
<1>3. CASE i = [held |-> Held'[p], time |-> clock']
  BY <1>3
<1>4. QED BY <1>1, <1>2, <1>3

\* A request that did not step still is the actor of an access it has seen.
LEMMA Bystander ==
  ASSUME Observe, NEW p \in Requests, RequestInv(p), clock \in Nat, clock' \in Nat,
         clock <= clock', pc'[p] = pc[p], call'[p] = call[p], access'[p] = access[p]
  PROVE  RequestInv(p)'
<1>1. ASSUME pc[p] \notin {"idle", "done"} PROVE Instant(p)' \in seen'[p] /\ seen[p] \subseteq seen'[p]
  BY <1>1, Observed
<1>2. \A i \in seen'[p] : i.time \in Nat /\ i.time <= clock'
  BY ObservedTimes
<1>3. QED BY <1>1, <1>2 DEF RequestInv, Resolvable

LEMMA RequestPreserves ==
  ASSUME AccessInv, NEW q \in Requests, RequestStep(q), Observe
  PROVE  AccessInv'
<1>1. TypeOK' /\ DOMAIN reply' = Requests
  BY StepType
<1>0. clock \in Nat /\ clock' \in Nat /\ clock <= clock'
  BY DEF RequestStep, AccessInv, TypeOK
<1>2. ASSUME NEW p \in Requests \ {q} PROVE RequestInv(p)'
  BY <1>0, StepCases, Bystander DEF OthersKept, AccessInv
<1>3. RequestInv(q)'
  <2>1. ASSUME pc'[q] \notin {"idle", "done"} PROVE Instant(q)' \in seen'[q] /\ seen[q] \subseteq seen'[q]
    BY <2>1, Observed
  <2>0. \A i \in seen'[q] : i.time \in Nat /\ i.time <= clock'
    BY <1>0, ObservedTimes DEF AccessInv
  <2>2. CASE pc'[q] # "command"
    BY <2>0, <2>1, <2>2 DEF RequestInv
  <2>3. CASE pc'[q] = "command"
    <3>1. PICK r \in ResolvedFor(q) : pc[q] = "resolve" /\ Admit(q, r)
      BY <2>3, StepCases DEF Begin, Goto, Finish, AccessInv, TypeOK
    <3>2. call'[q] = call[q] /\ access'[q] = r
      BY <3>1 DEF Admit, AccessInv, TypeOK
    <3>3. Resolvable(r, call[q].token.aal)
      BY ResolvedShape DEF ResolvedFor, AccessInv
    <3>4. r \in Held[q]
      <4>1. call[q] # Null
        BY <3>1 DEF AccessInv, TypeOK
      <4>2. Held[q] = Entitlements(call[q].token.subject, call[q].workspace, call[q].token.aal)
        BY <3>1, <4>1 DEF Held
      <4>3. QED BY <4>2, ResolvedAreHeld DEF ResolvedFor, AccessInv
    <3>5. Instant(q) \in seen[q] /\ Instant(q).held = Held[q]
      BY <3>1 DEF AccessInv, RequestInv, Instant
    <3>6. QED BY <2>0, <2>1, <2>3, <3>2, <3>3, <3>4, <3>5 DEF RequestInv, Resolvable
  <2>4. QED BY <2>2, <2>3
<1>4. QED BY <1>1, <1>2, <1>3 DEF AccessInv

-----------------------------------------------------------------------------
(* Changes to access, and time.                                            *)

Tables ==
  /\ actors \subseteq ActorRow /\ memberships \subseteq MembershipRow /\ grants \subseteq GrantRow
  /\ KeysHold(actors, memberships, grants)
  /\ workspaces \in [DOMAIN SeedWorkspaces -> {"active", "suspended"}]
  /\ changes \in Nat /\ clock \in Nat

LEMMA ChangeTables ==
  ASSUME TypeOK, ChangeAccess
  PROVE  Tables'
<1>1. Tables /\ clock' = clock
  BY DEF TypeOK, Tables, ChangeAccess
<1>2. CASE \E a \in actors, s \in {"active", "disabled"} : SetActor(a, s)
  <2>1. PICK a \in actors, s \in {"active", "disabled"} : SetActor(a, s)
    BY <1>2
  <2> DEFINE b == [a EXCEPT !.status = s]
  <2>2. b \in ActorRow /\ b.id = a.id /\ b.subject = a.subject
    BY <1>1 DEF Tables, ActorRow
  <2>3. actors' = (actors \ {a}) \cup {b}
    BY <2>1 DEF SetActor
  <2> HIDE DEF b
  <2>4. QED BY <1>1, <2>1, <2>2, <2>3 DEF Tables, KeysHold, SetActor, Changing
<1>3. CASE \E w \in DOMAIN workspaces, s \in {"active", "suspended"} : SetWorkspace(w, s)
  BY <1>1, <1>3 DEF Tables, SetWorkspace, Changing
<1>4. CASE \E m \in NewMemberships : SetMembership(m)
  BY <1>1, <1>4, ChangeAssumption DEF Tables, KeysHold, SetMembership, Changing
<1>5. CASE \E g \in NewGrants : AddGrant(g)
  BY <1>1, <1>5, ChangeAssumption DEF Tables, KeysHold, AddGrant, Changing
<1>6. CASE \E g \in grants : RevokeGrant(g)
  <2>1. PICK g \in grants : RevokeGrant(g)
    BY <1>6
  <2> DEFINE h == [g EXCEPT !.revoked = TRUE]
  <2>2. h \in GrantRow /\ h.id = g.id
    BY <1>1 DEF Tables, GrantRow
  <2>3. grants' = (grants \ {g}) \cup {h}
    BY <2>1 DEF RevokeGrant
  <2> HIDE DEF h
  <2>4. QED BY <1>1, <2>1, <2>2, <2>3 DEF Tables, KeysHold, RevokeGrant, Changing
<1>7. QED BY <1>2, <1>3, <1>4, <1>5, <1>6 DEF ChangeAccess

LEMMA SurroundingsPreserve ==
  ASSUME AccessInv, ChangeAccess \/ Tick, Observe
  PROVE  AccessInv'
<1>1. UNCHANGED requests
  BY DEF ChangeAccess, Tick
<1>2. Tables'
  <2>1. CASE ChangeAccess
    BY <2>1, ChangeTables DEF AccessInv
  <2>2. CASE Tick
    BY <2>2 DEF Tick, tables, AccessInv, TypeOK, Tables
  <2>3. QED BY <2>1, <2>2
<1>3. TypeOK' /\ DOMAIN reply' = Requests
  BY <1>1, <1>2 DEF AccessInv, TypeOK, Tables, requests
<1>4. ASSUME NEW p \in Requests PROVE RequestInv(p)'
  <2>1. clock \in Nat /\ clock' \in Nat /\ clock <= clock'
    BY DEF ChangeAccess, Tick, AccessInv, TypeOK
  <2>2. QED BY <1>1, <2>1, Bystander DEF requests, AccessInv
<1>5. QED BY <1>3, <1>4 DEF AccessInv

LEMMA InitAccess == Init => AccessInv
<1> SUFFICES ASSUME Init PROVE AccessInv
  OBVIOUS
<1>1. TypeOK
  BY SeedAssumption DEF Init, TypeOK, NoReply
<1>2. QED BY <1>1 DEF Init, AccessInv, RequestInv

LEMMA AccessStep == AccessInv /\ [Next]_vars => AccessInv'
<1> SUFFICES ASSUME AccessInv, [Next]_vars PROVE AccessInv'
  OBVIOUS
<1>1. ASSUME NEW q \in Requests, RequestStep(q), Observe PROVE AccessInv'
  BY <1>1, RequestPreserves
<1>2. CASE (ChangeAccess \/ Tick) /\ Observe
  BY <1>2, SurroundingsPreserve
<1>3. CASE UNCHANGED vars
  <2>1. UNCHANGED <<tables, clock, requests, seen>>
    BY <1>3 DEF vars
  <2>2. TypeOK' /\ DOMAIN reply' = Requests
    BY <2>1 DEF AccessInv, TypeOK, tables, requests
  <2>3. Held' = Held
    BY <2>1 DEF tables, requests, Held, Entitlements, HeldBy, ActiveMember, Assists
  <2>4. \A q \in Requests : RequestInv(q)'
    BY <2>1, <2>3 DEF requests, AccessInv, RequestInv, Resolvable, Instant
  <2>5. QED BY <2>2, <2>4 DEF AccessInv
<1>4. QED BY <1>1, <1>2, <1>3 DEF Next, Quiescent

LEMMA AccessInvariance == Spec => []AccessInv
BY InitAccess, AccessStep, PTL DEF Spec

-----------------------------------------------------------------------------
(* The theorems.                                                           *)

\* Tables keep their keys and CHECKs, and a request knows its actor exactly
\* between being resolved and being answered.
THEOREM TypeCorrect == Spec => []TypeOK
<1>1. AccessInv => TypeOK
  BY DEF AccessInv
<1>2. QED BY <1>1, AccessInvariance, PTL

\* The directory and the resolver, written apart, agree on who is a customer.
THEOREM DirectoryCorrect == Spec => []DirectoryAgrees
<1>1. AccessInv => DirectoryAgrees
  BY DirectoryHolds DEF AccessInv
<1>2. QED BY <1>1, AccessInvariance, PTL

\* An answer is given by a step of its own request, for the reason Ends names.
LEMMA AnswerCases ==
  ASSUME AccessInv, [Next]_vars, NEW q \in Requests, reply'[q].outcome # reply[q].outcome
  PROVE  Ends(q, reply'[q])
<1>1. CASE UNCHANGED vars
  BY <1>1 DEF vars, requests
<1>2. CASE ChangeAccess \/ Tick
  BY <1>2 DEF ChangeAccess, Tick, requests
<1>3. ASSUME NEW p \in Requests, RequestStep(p) PROVE Ends(q, reply'[q])
  <2>1. p = q
    BY <1>3, StepCases DEF OthersKept
  <2>2. PICK answer : Ends(q, answer) /\ Finish(q, answer)
    BY <1>3, <2>1, StepCases DEF Begin, Goto, Admit
  <2>3. reply'[q] = answer
    BY <2>2 DEF Finish, AccessInv
  <2>4. QED BY <2>2, <2>3
<1>4. QED BY <1>1, <1>2, <1>3 DEF Next, Quiescent

\* An admission is the command's, on the access it was resolved to.
LEMMA AdmissionCase ==
  ASSUME AccessInv, NEW q \in Requests, NEW answer, Ends(q, answer), answer.outcome = "admitted"
  PROVE  pc[q] = "command" /\ CommandProblem(q, clock - lag[q]) = {} /\ answer.ref = access[q]
BY DEF Ends, Answer

\* Who is admitted had this very access at an instant of the request, and a
\* valid session at every one.
THEOREM AdmissionHeld == Spec => AdmittedAccessWasHeld
<1> DEFINE A == \A q \in Requests :
       reply'[q].outcome = "admitted" /\ reply[q].outcome # "admitted" =>
         /\ \E i \in seen[q] : reply'[q].ref \in i.held
         /\ \A i \in seen[q] : call[q].token.expiresAt > i.time - lag[q]
         /\ call[q].kind = "reverify" => reply'[q].ref.role = "owner"
<1>1. AccessInv /\ [Next]_vars => A
  <2> SUFFICES ASSUME AccessInv, [Next]_vars, NEW q \in Requests,
                      reply'[q].outcome = "admitted", reply[q].outcome # "admitted"
               PROVE  /\ \E i \in seen[q] : reply'[q].ref \in i.held
                      /\ \A i \in seen[q] : call[q].token.expiresAt > i.time - lag[q]
                      /\ call[q].kind = "reverify" => reply'[q].ref.role = "owner"
    OBVIOUS
  <2>1. pc[q] = "command" /\ CommandProblem(q, clock - lag[q]) = {} /\ reply'[q].ref = access[q]
    BY AnswerCases, AdmissionCase
  <2>2. \E i \in seen[q] : access[q] \in i.held
    BY <2>1 DEF AccessInv, RequestInv
  <2>3. call[q].kind = "reverify" => access[q].role = "owner"
    BY <2>1 DEF CommandProblem, OwnerProblem, QueryProblem
  <2>4. ASSUME NEW i \in seen[q] PROVE call[q].token.expiresAt > i.time - lag[q]
    <3>1. i.time \in Nat /\ i.time <= clock
      BY DEF AccessInv, RequestInv
    <3>2. call[q] \in Calls /\ lag[q] \in Lags \cup {0} /\ clock \in Nat
      BY <2>1 DEF AccessInv, TypeOK
    <3>3. call[q].token.expiresAt \in Nat
      BY <3>2, CallAssumption DEF CallRecord
    <3>4. call[q].token.expiresAt > clock - lag[q]
      BY <2>1 DEF CommandProblem, OwnerProblem, QueryProblem
    <3>5. lag[q] \in Nat
      <4>1. CASE lag[q] \in Lags
        BY <4>1, ClockAssumption
      <4>2. CASE lag[q] = 0
        BY <4>2
      <4>3. QED BY <3>2, <4>1, <4>2
    <3>6. \A e, c, l, t \in Nat : t <= c /\ e > c - l => e > t - l
      OBVIOUS
    <3>7. QED BY <3>1, <3>2, <3>3, <3>4, <3>5, <3>6
  <2>5. QED BY <2>1, <2>2, <2>3, <2>4
<1>2. QED BY <1>1, AccessInvariance, PTL DEF Spec, AdmittedAccessWasHeld

\* Who had access throughout is not told there is none, and the shape of a
\* resolved access is never held against it.
THEOREM DenialWarranted == Spec => DenialsAreWarranted
<1> DEFINE A == \A q \in Requests :
       reply'[q].outcome = "refused" /\ reply[q].outcome # "refused" =>
         /\ reply'[q].ref = "WORKSPACE_ACCESS_DENIED" => \E i \in seen[q] : i.held = {}
         /\ reply'[q].ref \notin {"MFA_REQUIRED", "SUPPORT_GRANT_REQUIRED",
                                  "APPROVED_CONTEXT_UNAUTHORIZED"}
<1>1. AccessInv /\ [Next]_vars => A
  <2> SUFFICES ASSUME AccessInv, [Next]_vars, NEW q \in Requests,
                      reply'[q].outcome = "refused", reply[q].outcome # "refused"
               PROVE  /\ reply'[q].ref = "WORKSPACE_ACCESS_DENIED" => \E i \in seen[q] : i.held = {}
                      /\ reply'[q].ref \notin {"MFA_REQUIRED", "SUPPORT_GRANT_REQUIRED",
                                               "APPROVED_CONTEXT_UNAUTHORIZED"}
    OBVIOUS
  <2>1. Ends(q, reply'[q])
    BY AnswerCases
  <2>2. CASE \E code \in {"AUTHENTICATION_REQUIRED", "SESSION_INVALID", "SESSION_EXPIRED"} :
               reply'[q] = Answer("refused", code)
    BY <2>2 DEF Answer
  <2>3. CASE pc[q] = "resolve" /\ \E code \in ResolveProblem(q) : reply'[q] = Answer("refused", code)
    <3>1. ResolveProblem(q) # {} /\ \E code \in ResolveProblem(q) : reply'[q].ref = code
      BY <2>3 DEF Answer
    <3>2. \A r \in ResolvedFor(q) : AccessProblem(r, call[q].token.aal) = {}
      BY ResolvedShape DEF ResolvedFor, Resolvable, AccessProblem, AccessInv
    <3>3. ResolvedFor(q) = {} /\ reply'[q].ref = "WORKSPACE_ACCESS_DENIED"
      BY <3>1, <3>2 DEF ResolveProblem
    <3>4. call[q] # Null
      BY <2>3 DEF AccessInv, TypeOK
    <3>5. Held[q] = {}
      BY <2>3, <3>3, <3>4, HeldIsResolved DEF Held, ResolvedFor, AccessInv
    <3>6. Instant(q) \in seen[q] /\ Instant(q).held = Held[q]
      BY <2>3 DEF AccessInv, RequestInv, Instant
    <3>7. QED BY <3>3, <3>5, <3>6
  <2>4. CASE /\ pc[q] = "command"
             /\ \E code \in CommandProblem(q, clock - lag[q]) : reply'[q] = Answer("refused", code)
    <3>1. AccessProblem(access[q], "aal2") = {}
      BY <2>4 DEF AccessInv, RequestInv, Resolvable, AccessProblem
    <3>2. QED BY <2>4, <3>1 DEF CommandProblem, OwnerProblem, QueryProblem, Answer
  <2>5. /\ \A listed : reply'[q] # Answer("listed", listed)
        /\ reply'[q] # Answer("admitted", access[q])
    BY DEF Answer
  <2>6. QED BY <2>1, <2>2, <2>3, <2>4, <2>5 DEF Ends
<1>2. QED BY <1>1, AccessInvariance, PTL DEF Spec, DenialsAreWarranted
=============================================================================
