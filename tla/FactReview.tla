------------------------------ MODULE FactReview ------------------------------
(***************************************************************************)
(* An owner's review of one fact candidate: executeFactReview, the domain  *)
(* rules of reviewFactCandidate, and the repository's commitReview.        *)
(* The commands are the requests plus an idempotency key and the session   *)
(* they arrive with; the request is what the request hash covers.          *)
(***************************************************************************)
EXTENDS FactStore

ReviewScope == "fact_review.commit_review"

FactReviewActions == {"verify", "correct_and_verify", "resolve_conflict", "reject"}

ReviewRequest ==
  [candidate : Ids, expectedFact : Nat, expectedDecision : Nat,
   action : FactReviewActions, value : Values \cup {Null}, reason : BOOLEAN,
   decisionId : Ids, factId : Ids]

ReviewCommand ==
  [scope : {ReviewScope}, key : Ids, request : ReviewRequest,
   owner : BOOLEAN, sessionExpiresAt : Nat]

Reviews(c) == c.scope = ReviewScope
Reviewing(p) == cmd[p] # Null /\ Reviews(cmd[p])
CandidateField(k) == CandidateRow[k].field

-----------------------------------------------------------------------------
(* The domain rules.                                                       *)

\* resolveApprovedValue and the reason a rejection must carry.
ActionAllowed(request, candidate) ==
  \/ request.action = "reject" /\ request.reason
  \/ request.action = "verify" /\ ~candidate.conflict /\ request.value = Null
  \/ /\ request.action = "correct_and_verify"
     /\ ~candidate.conflict /\ request.reason
     /\ request.value \in Values \ {candidate.value}
  \/ /\ request.action = "resolve_conflict"
     /\ candidate.conflict /\ request.reason
     /\ request.value \in Values

\* Variant for a mutant: the verification time of the current fact is not compared.
TimelyForCapture(candidate, cur, t) == candidate.capturedAt <= t

\* A review at time t may not predate the capture or the current fact.
Timely(candidate, cur, t) ==
  candidate.capturedAt <= t /\ (cur = Null \/ cur.verifiedAt <= t)

\* What reviewFactCandidate says of a request at time t, in its order.
Verdict(request, candidate, cur, t) ==
  IF candidate.value \notin Values THEN "refused"
  ELSE IF VersionOf(cur) # request.expectedFact THEN "stale_version"
  ELSE IF Timely(candidate, cur, t) /\ ActionAllowed(request, candidate) THEN "accepted"
  ELSE "refused"

\* The fact version and the decision a review proposes on top of cur.
ReviewedFact(request, cur, t) ==
  LET candidate == CandidateRow[request.candidate] IN
  [id |-> request.factId, field |-> candidate.field, version |-> VersionOf(cur) + 1,
   value |-> IF request.action = "verify" THEN candidate.value ELSE request.value,
   candidate |-> request.candidate, supersedes |-> IdOf(cur), origin |-> "review",
   governance |-> "available", verifiedAt |-> t, expiresAt |-> ExpiresAt(candidate.field, t)]

\* Variant for a mutant: the decision keeps the version its owner expected.
SameDecisionVersion(request, cur, t) ==
  [id |-> request.decisionId, candidate |-> request.candidate,
   version |-> request.expectedDecision, action |-> request.action,
   factId |-> IF request.action = "reject" THEN Null ELSE request.factId,
   currentId |-> IF request.action = "reject" THEN IdOf(cur) ELSE Null,
   decidedAt |-> t]

ReviewDecision(request, cur, t) ==
  [id |-> request.decisionId, candidate |-> request.candidate,
   version |-> request.expectedDecision + 1, action |-> request.action,
   factId |-> IF request.action = "reject" THEN Null ELSE request.factId,
   currentId |-> IF request.action = "reject" THEN IdOf(cur) ELSE Null,
   decidedAt |-> t]

ReviewPlan(request, cur, t) ==
  [fact |-> IF request.action = "reject" THEN Null ELSE ReviewedFact(request, cur, t),
   decision |-> ReviewDecision(request, cur, t)]

-----------------------------------------------------------------------------
(* executeFactReview.                                                      *)

\* Authorization, then findReviewByIdempotency.
FoundReview(c) ==
  IF RecordsFor(c) = {} THEN {NoReply}
  ELSE {ReplayAnswer(r, c.request) : r \in RecordsFor(c)}

StartReview(p) ==
  \E c \in Commands, t \in Times :
    /\ Reviews(c)
    /\ \/ ~Authorized(c, t) /\ Start(p, c, t, Answer("denied", Null), "done")
       \/ Authorized(c, t) /\ \E answer \in FoundReview(c) : Start(p, c, t, answer, "decide")

\* findCandidate, findCurrentFact and the domain decision.  Candidates are
\* immutable, so the only table read that matters is that of the current fact.
DecideReview(p) ==
  LET request == cmd[p].request IN
  /\ pc[p] = "decide" /\ Reviewing(p)
  /\ IF request.candidate \notin Candidates
     THEN Finish(p, Answer("not_found", Null))
     ELSE LET candidate == CandidateRow[request.candidate] IN
          \E cur \in CurrentFact(candidate.field) :
            LET verdict == Verdict(request, candidate, cur, now[p]) IN
            IF verdict = "accepted"
            THEN Intend(p, "claim", ReviewPlan(request, cur, now[p]))
            ELSE Finish(p, Answer(verdict, Null))
  /\ UNCHANGED tables

-----------------------------------------------------------------------------
(* commitReview: one transaction.                                          *)

ClaimReview(p) == Reviewing(p) /\ Claim(p, cmd[p].request, "lock")

\* Variant for a mutant: the lock statement does not wait for the holder.
TryLockReviewedField(p) ==
  /\ pc[p] = "lock" /\ Reviewing(p)
  /\ lock' = [lock EXCEPT ![CandidateField(cmd[p].request.candidate)] = p]
  /\ pc' = [pc EXCEPT ![p] = "check"]
  /\ UNCHANGED <<tables, cmd, now, plan, reply>>

\* pg_advisory_xact_lock on the field: waits for its holder to end.
LockReviewedField(p) ==
  LET f == CandidateField(cmd[p].request.candidate) IN
  /\ pc[p] = "lock" /\ Reviewing(p)
  /\ lock[f] = Null
  /\ lock' = [lock EXCEPT ![f] = p]
  /\ pc' = [pc EXCEPT ![p] = "check"]
  /\ UNCHANGED <<tables, cmd, now, plan, reply>>

\* Variant for a mutant: the transaction trusts the decision version it was given.
AnyDecision(d) == TRUE

\* Whether the rows still extend the committed history.
DecisionExtends(d) == LatestDecision(d.candidate, d.version - 1)
ReviewExtends(rows, cur) ==
  IF rows.fact = Null
  THEN rows.decision.currentId = IdOf(cur)
  ELSE rows.fact.version = VersionOf(cur) + 1 /\ rows.fact.supersedes = IdOf(cur)

CheckReview(p) ==
  /\ pc[p] = "check" /\ Reviewing(p)
  /\ \E cur \in CurrentFact(CandidateField(cmd[p].request.candidate)) :
       IF DecisionExtends(plan[p].decision) /\ ReviewExtends(plan[p], cur)
       THEN Goto(p, IF plan[p].fact = Null THEN "insert_decision" ELSE "insert_fact")
       ELSE Finish(p, Answer("version_conflict", Null))
  /\ UNCHANGED tables

InsertReviewedFact(p) == Reviewing(p) /\ InsertFact(p, "insert_decision")

\* Variant for a mutant: the table has no primary key on the decision's id.
InsertDecisionAnyId(p) ==
  /\ pc[p] = "insert_decision" /\ Reviewing(p)
  /\ IF \E d \in decisions : d.candidate = plan[p].decision.candidate /\ d.version = plan[p].decision.version
     THEN Finish(p, Answer("version_conflict", Null))
     ELSE Goto(p, "commit")
  /\ UNCHANGED tables

\* INSERT into fact_review_decision, under its primary key and unique index.
InsertDecision(p) ==
  /\ pc[p] = "insert_decision" /\ Reviewing(p)
  /\ \A q \in Attempts \ {p} : \A d \in PendingDecisions(q) : ~DecisionsClash(d, plan[p].decision)
  /\ IF \E d \in decisions : DecisionsClash(d, plan[p].decision)
     THEN Finish(p, Answer("version_conflict", Null))
     ELSE Goto(p, "commit")
  /\ UNCHANGED tables

CommitReview(p) == Reviewing(p) /\ Commit(p, cmd[p].request, cmd[p].request.decisionId)

\* A review that began goes on.
ContinueReview(p) ==
  \/ DecideReview(p)
  \/ ClaimReview(p)
  \/ LockReviewedField(p)
  \/ CheckReview(p)
  \/ InsertReviewedFact(p)
  \/ InsertDecision(p)
  \/ CommitReview(p)

ReviewStep(p) == StartReview(p) \/ ContinueReview(p)
=============================================================================
