------------------------------ MODULE FactProofs ------------------------------
(***************************************************************************)
(* Theorems about fact review and reverification, for every set of         *)
(* attempts, commands, fields, candidates and seed rows, in four parts:    *)
(* the history of facts; what the commands leave behind and answer, all of *)
(* their rows or none and at most once per key; that they never all wait   *)
(* for each other; and the refinement, that the two interleaved            *)
(* transactions implement the ledger of atomic commands of FactLedger.     *)
(***************************************************************************)
EXTENDS FactCommands, FiniteSetTheorems, Sequences, SequenceTheorems, TLAPS

USE DEF ReviewScope, ReverifyScope

-----------------------------------------------------------------------------
(* The inductive invariant.                                                *)

\* An attempt that began has its clock value and one of the commands.
Begun == \A p \in Attempts : pc[p] # "idle" => now[p] \in Times /\ cmd[p] \in Commands

\* A reverification past its decision carries the row it will insert.
ReverificationPlanned ==
  \A p \in Attempts :
    Reverifying(p) /\ pc[p] \in {"claim", "check", "insert_fact", "commit"} => plan[p].fact # Null

\* Row r extends the committed rows in version and in time.
Grounded(r, rows) ==
  \/ r.version = 1 /\ r.supersedes = Null
  \/ \E s \in rows : /\ s.field = r.field /\ s.version + 1 = r.version
                     /\ s.id = r.supersedes /\ s.verifiedAt <= r.verifiedAt

PlansGrounded == \A p \in Attempts : plan[p].fact # Null => Grounded(plan[p].fact, facts)

\* An inserted row owns its keys before it is committed.
PendingReserved ==
  \A p \in Attempts : \A r \in PendingFacts(p) :
    /\ \A s \in facts : ~FactsClash(r, s)
    /\ \A q \in Attempts \ {p} : \A s \in PendingFacts(q) : ~FactsClash(r, s)

\* Whatever is due was verified before: its expiry is the policy's.
PolicyExpiry(r) == r.expiresAt \in {Null, ExpiresAt(r.field, r.verifiedAt)}
ExpiriesByPolicy ==
  /\ \A r \in facts : PolicyExpiry(r)
  /\ \A p \in Attempts : plan[p].fact # Null => PolicyExpiry(plan[p].fact)

TypeInv == TypeOK /\ Begun /\ ReverificationPlanned
HistoryInv == /\ PlansGrounded /\ PendingReserved /\ ExpiriesByPolicy
              /\ FactHistory /\ VerifiedAtMonotone

-----------------------------------------------------------------------------
(* Types.                                                                  *)

LEMMA CommandTypes ==
  ASSUME NEW c \in Commands
  PROVE  /\ Reviews(c) => c \in ReviewCommand
         /\ Reverifies(c) => c \in ReverifyCommand
         /\ Reviews(c) \/ Reverifies(c)
         /\ ~(Reviews(c) /\ Reverifies(c))
BY CommandAssumption DEF Reviews, Reverifies, ReviewCommand, ReverifyCommand

LEMMA ExpiryType ==
  ASSUME NEW f, NEW t \in Nat
  PROVE  ExpiresAt(f, t) \in Nat \cup {Null}
BY FreshnessAssumption DEF ExpiresAt

\* The row a reverification makes of a fact row is a fact row.
LEMMA ReverifiedType ==
  ASSUME NEW row \in FactRow, NEW id \in Ids, NEW t \in Nat
  PROVE  Reverified(row, id, t) \in FactRow
<1>1. ExpiresAt(row.field, t) \in Nat \cup {Null}
  BY ExpiryType
<1>2. row.version + 1 \in Nat \ {0} /\ row.id \in Ids \cup {Null}
  BY DEF FactRow
<1> DEFINE new == Reverified(row, id, t)
<1>3. QED BY <1>1, <1>2 DEF Reverified, FactRow

LEMMA ReverifiedFields ==
  ASSUME NEW row \in FactRow, NEW id, NEW t
  PROVE  /\ Reverified(row, id, t).id = id
         /\ Reverified(row, id, t).field = row.field
         /\ Reverified(row, id, t).version = row.version + 1
         /\ Reverified(row, id, t).supersedes = row.id
         /\ Reverified(row, id, t).verifiedAt = t
         /\ Reverified(row, id, t).expiresAt = ExpiresAt(row.field, t)
BY DEF Reverified, FactRow

-----------------------------------------------------------------------------
(* What the three ways an attempt moves on do to the types.                *)

LEMMA AnswerType ==
  ASSUME NEW o \in Outcomes, NEW ref \in Ids \cup {Null}
  PROVE  Answer(o, ref) \in Reply
BY DEF Answer, Reply

LEMMA FinishType ==
  ASSUME TypeOK, UNCHANGED tables, NEW p \in Attempts, NEW a \in Reply, Finish(p, a)
  PROVE  TypeOK'
<1>1. /\ facts' \subseteq FactRow /\ decisions' \subseteq DecisionRow
      /\ records' \subseteq Record /\ audit' \subseteq AuditRow
  BY DEF TypeOK, tables
<1>2. pc' \in [Attempts -> Places]
  BY DEF TypeOK, Finish, Places
<1>3. cmd' \in [Attempts -> Commands \cup {Null}] /\ now' \in [Attempts -> Times \cup {Null}]
  BY DEF TypeOK, Finish
<1>4. plan' \in [Attempts -> Plan]
  <2>1. NoPlan \in Plan
    BY DEF NoPlan, Plan
  <2>2. QED BY <2>1 DEF TypeOK, Finish
<1>5. reply' \in [Attempts -> Reply]
  BY DEF TypeOK, Finish
<1>6. lock' \in [Fields -> Attempts \cup {Null}]
  BY DEF TypeOK, Finish, Released
<1>7. ASSUME NEW f \in Fields, lock'[f] # Null
      PROVE  pc'[lock'[f]] \in HoldingPlaces
  BY <1>7 DEF TypeOK, Finish, Released
<1>8. QED BY <1>1, <1>2, <1>3, <1>4, <1>5, <1>6, <1>7 DEF TypeOK

LEMMA GotoType ==
  ASSUME TypeOK, UNCHANGED tables, NEW p \in Attempts, NEW to \in Places, Goto(p, to),
         pc[p] \in HoldingPlaces => to \in HoldingPlaces
  PROVE  TypeOK'
<1>1. pc' \in [Attempts -> Places]
  BY DEF TypeOK, Goto
<1>2. \A f \in Fields : lock'[f] # Null => pc'[lock'[f]] \in HoldingPlaces
  BY DEF TypeOK, Goto
<1>3. QED BY <1>1, <1>2 DEF TypeOK, Goto, tables

LEMMA IntendType ==
  ASSUME TypeOK, UNCHANGED tables, NEW p \in Attempts, NEW to \in Places,
         NEW rows \in Plan, Intend(p, to, rows),
         pc[p] \in HoldingPlaces => to \in HoldingPlaces
  PROVE  TypeOK'
<1>1. pc' \in [Attempts -> Places] /\ plan' \in [Attempts -> Plan]
  BY DEF TypeOK, Intend
<1>2. \A f \in Fields : lock'[f] # Null => pc'[lock'[f]] \in HoldingPlaces
  BY DEF TypeOK, Intend
<1>3. QED BY <1>1, <1>2 DEF TypeOK, Intend, tables

LEMMA StartType ==
  ASSUME TypeOK, NEW p \in Attempts, NEW c \in Commands, NEW t \in Times,
         NEW a \in Reply, NEW next \in Places, Start(p, c, t, a, next)
  PROVE  TypeOK'
<1>1. /\ pc' \in [Attempts -> Places] /\ reply' \in [Attempts -> Reply]
      /\ cmd' \in [Attempts -> Commands \cup {Null}]
      /\ now' \in [Attempts -> Times \cup {Null}]
  BY DEF TypeOK, Start, Places
<1>2. ASSUME NEW f \in Fields, lock'[f] # Null
      PROVE  pc'[lock'[f]] \in HoldingPlaces
  <2>1. lock[f] # p
    BY <1>2, NullAssumption DEF TypeOK, Start, HoldingPlaces
  <2>2. QED BY <1>2, <2>1 DEF TypeOK, Start
<1>3. QED BY <1>1, <1>2 DEF TypeOK, Start, tables

-----------------------------------------------------------------------------
(* The type invariant, action by action.                                   *)

LEMMA InitType == Init => TypeInv
<1> SUFFICES ASSUME Init PROVE TypeInv
  OBVIOUS
<1>1. TypeOK
  <2>1. NoPlan \in Plan /\ NoReply \in Reply
    BY DEF NoPlan, Plan, NoReply, Reply, Outcomes
  <2>2. QED
    BY <2>1, SeedAssumption DEF Init, StoreInit, TypeOK, Places
<1>2. Begun /\ ReverificationPlanned
  BY DEF Init, StoreInit, Begun, ReverificationPlanned
<1>3. QED BY <1>1, <1>2 DEF TypeInv

\* The rows an accepted review proposes are rows.
LEMMA ReviewRowsType ==
  ASSUME NEW request \in ReviewRequest, request.candidate \in Candidates,
         NEW cur \in FactRow \cup {Null}, NEW t \in Nat,
         Verdict(request, CandidateRow[request.candidate], cur, t) = "accepted"
  PROVE  /\ ReviewDecision(request, cur, t) \in DecisionRow
         /\ request.action # "reject" => ReviewedFact(request, cur, t) \in FactRow
         /\ ReviewDecision(request, cur, t) # Null
         /\ request.action # "reject" => ReviewedFact(request, cur, t) # Null
<1> DEFINE candidate == CandidateRow[request.candidate]
           value == IF request.action = "verify" THEN candidate.value ELSE request.value
<1>1. VersionOf(cur) \in Nat /\ IdOf(cur) \in Ids \cup {Null}
  BY DEF VersionOf, IdOf, FactRow
<1>2. ExpiresAt(candidate.field, t) \in Nat \cup {Null} /\ candidate.field \in Fields
  BY ExpiryType, CandidateAssumption
<1>3. ReviewDecision(request, cur, t) \in DecisionRow
  BY <1>1 DEF ReviewDecision, DecisionRow, ReviewRequest
<1>4. ASSUME request.action # "reject"
      PROVE  ReviewedFact(request, cur, t) \in FactRow
  <2>1. candidate.value \in Values /\ ActionAllowed(request, candidate)
    BY DEF Verdict
  <2>2. value \in Values
    BY <1>4, <2>1 DEF ActionAllowed
  <2>3. request.factId \in Ids /\ request.candidate \in Ids
    BY DEF ReviewRequest
  <2>4. VersionOf(cur) + 1 \in Nat \ {0}
    BY <1>1
  <2> HIDE DEF value
  <2>5. ReviewedFact(request, cur, t) =
          [id |-> request.factId, field |-> candidate.field, version |-> VersionOf(cur) + 1,
           value |-> value, candidate |-> request.candidate, supersedes |-> IdOf(cur),
           origin |-> "review", governance |-> "available", verifiedAt |-> t,
           expiresAt |-> ExpiresAt(candidate.field, t)]
    BY DEF ReviewedFact, value
  <2>6. QED BY <1>1, <1>2, <2>2, <2>3, <2>4, <2>5 DEF FactRow
<1>5. QED BY <1>3, <1>4, RowAssumption

LEMMA ReviewPlanType ==
  ASSUME NEW request \in ReviewRequest, request.candidate \in Candidates,
         NEW cur \in FactRow \cup {Null}, NEW t \in Nat,
         Verdict(request, CandidateRow[request.candidate], cur, t) = "accepted"
  PROVE  ReviewPlan(request, cur, t) \in Plan
BY ReviewRowsType DEF ReviewPlan, Plan

LEMMA CurrentType ==
  ASSUME TypeOK, NEW f, NEW cur \in CurrentFact(f)
  PROVE  cur \in FactRow \cup {Null} /\ (cur # Null => cur \in facts)
BY DEF TypeOK, CurrentFact, CurrentFacts

LEMMA ReplayAnswerType ==
  ASSUME NEW r \in Record, NEW hash
  PROVE  ReplayAnswer(r, hash) \in Reply
<1>1. r.ref \in Ids \cup {Null}
  BY DEF Record, RecordOf
<1>2. \A o \in Outcomes : Answer(o, r.ref) \in Reply /\ Answer(o, Null) \in Reply
  BY <1>1, AnswerType
<1>3. QED BY <1>2 DEF ReplayAnswer, Outcomes

LEMMA ClaimType ==
  ASSUME TypeOK, NEW p \in Attempts, NEW hash, NEW next \in Places, Claim(p, hash, next)
  PROVE  TypeOK'
<1>1. UNCHANGED tables /\ pc[p] \notin HoldingPlaces
  BY DEF Claim, HoldingPlaces
<1>2. CASE Goto(p, next)
  BY <1>1, <1>2, GotoType
<1>3. ASSUME NEW r \in RecordsFor(cmd[p]), Finish(p, ReplayAnswer(r, hash))
      PROVE  TypeOK'
  <2>1. ReplayAnswer(r, hash) \in Reply
    BY ReplayAnswerType DEF RecordsFor, TypeOK
  <2>2. QED BY <1>1, <1>3, <2>1, FinishType
<1>4. QED BY <1>2, <1>3 DEF Claim

LEMMA InsertFactType ==
  ASSUME TypeOK, NEW p \in Attempts, NEW next \in HoldingPlaces, InsertFact(p, next)
  PROVE  TypeOK'
<1>1. Answer("version_conflict", Null) \in Reply /\ next \in Places
  BY AnswerType DEF Outcomes, HoldingPlaces, Places
<1>2. QED BY <1>1, FinishType, GotoType DEF InsertFact

LEMMA CommitType ==
  ASSUME TypeOK, NEW p \in Attempts, NEW ref \in Ids,
         NEW hash, cmd[p].key \in Ids, Commit(p, hash, ref),
         \/ cmd[p].scope = ReviewScope /\ hash \in ReviewRequest
         \/ cmd[p].scope = ReverifyScope /\ hash \in ReverifyRequest
  PROVE  TypeOK'
<1>1. facts' \subseteq FactRow /\ decisions' \subseteq DecisionRow
  BY DEF TypeOK, Commit, PendingFacts, PendingDecisions, Plan
<1>2. records' \subseteq Record
  BY DEF TypeOK, Commit, CompletedRecord, Record, RecordOf
<1>3. audit' \subseteq AuditRow
  BY DEF TypeOK, Commit, AuditRow, Scopes
<1>4. Finish(p, Answer("committed", ref)) /\ Answer("committed", ref) \in Reply
  BY AnswerType DEF Commit, Outcomes
<1>5. /\ pc' \in [Attempts -> Places] /\ cmd' \in [Attempts -> Commands \cup {Null}]
      /\ now' \in [Attempts -> Times \cup {Null}] /\ reply' \in [Attempts -> Reply]
      /\ lock' \in [Fields -> Attempts \cup {Null}]
  BY <1>4 DEF TypeOK, Finish, Places, Released
<1>6. plan' \in [Attempts -> Plan]
  BY <1>4 DEF TypeOK, Finish, NoPlan, Plan
<1>7. ASSUME NEW f \in Fields, lock'[f] # Null
      PROVE  pc'[lock'[f]] \in HoldingPlaces
  BY <1>4, <1>7 DEF TypeOK, Finish, Released
<1>8. QED BY <1>1, <1>2, <1>3, <1>5, <1>6, <1>7 DEF TypeOK

LEMMA ReviewStepType ==
  ASSUME TypeInv, NEW p \in Attempts, ReviewStep(p)
  PROVE  TypeOK'
<1> USE DEF TypeInv
<1> DEFINE request == cmd[p].request
<1>0. \A o \in Outcomes : Answer(o, Null) \in Reply
  BY AnswerType
<1>1. Reviewing(p) /\ pc[p] # "idle" => /\ cmd[p] \in ReviewCommand
                                     /\ request \in ReviewRequest
                                     /\ now[p] \in Nat
  BY CommandTypes, FreshnessAssumption DEF Reviewing, Begun, ReviewCommand
<1>2. CASE StartReview(p)
  <2>1. PICK c \in Commands, t \in Times :
          \/ Start(p, c, t, Answer("denied", Null), "done")
          \/ \E answer \in FoundReview(c) : Start(p, c, t, answer, "decide")
    BY <1>2 DEF StartReview
  <2>2. FoundReview(c) \subseteq Reply
    <3>1. NoReply \in Reply
      BY DEF NoReply, Reply, Outcomes
    <3>2. \A r \in RecordsFor(c) : ReplayAnswer(r, c.request) \in Reply
      BY ReplayAnswerType DEF RecordsFor, TypeOK
    <3>3. QED BY <3>1, <3>2 DEF FoundReview
  <2>3. "done" \in Places /\ "decide" \in Places /\ "denied" \in Outcomes
    BY DEF Places, Outcomes
  <2>4. QED BY <1>0, <2>1, <2>2, <2>3, StartType
<1>3. CASE DecideReview(p)
  <2>1. pc[p] = "decide" /\ Reviewing(p) /\ UNCHANGED tables
    BY <1>3 DEF DecideReview
  <2>2. request \in ReviewRequest /\ now[p] \in Nat
    BY <1>1, <2>1
  <2>3. CASE \E a \in Reply : Finish(p, a)
    BY <2>1, <2>3, FinishType
  <2>4. CASE /\ request.candidate \in Candidates
             /\ \E cur \in CurrentFact(CandidateRow[request.candidate].field) :
                  /\ Verdict(request, CandidateRow[request.candidate], cur, now[p]) = "accepted"
                  /\ Intend(p, "claim", ReviewPlan(request, cur, now[p]))
    <3>1. PICK cur \in CurrentFact(CandidateRow[request.candidate].field) :
            /\ Verdict(request, CandidateRow[request.candidate], cur, now[p]) = "accepted"
            /\ Intend(p, "claim", ReviewPlan(request, cur, now[p]))
      BY <2>4
    <3>2. ReviewPlan(request, cur, now[p]) \in Plan
      BY <2>2, <2>4, <3>1, CurrentType, ReviewPlanType
    <3>3. "claim" \in Places /\ pc[p] \notin HoldingPlaces
      BY <2>1 DEF Places, HoldingPlaces
    <3>4. QED BY <2>1, <3>1, <3>2, <3>3, IntendType
  <2>5. QED
    <3>1. CASE request.candidate \notin Candidates
      BY <1>0, <1>3, <2>3, <3>1 DEF DecideReview, Outcomes
    <3>2. CASE request.candidate \in Candidates
      <4>1. PICK cur \in CurrentFact(CandidateRow[request.candidate].field) :
              LET verdict == Verdict(request, CandidateRow[request.candidate], cur, now[p]) IN
              IF verdict = "accepted"
              THEN Intend(p, "claim", ReviewPlan(request, cur, now[p]))
              ELSE Finish(p, Answer(verdict, Null))
        BY <1>3, <3>2 DEF DecideReview
      <4>2. CASE Verdict(request, CandidateRow[request.candidate], cur, now[p]) = "accepted"
        BY <2>4, <3>2, <4>1, <4>2
      <4>3. CASE Verdict(request, CandidateRow[request.candidate], cur, now[p]) # "accepted"
        <5>1. Verdict(request, CandidateRow[request.candidate], cur, now[p]) \in Outcomes
          BY <4>3 DEF Verdict, Outcomes
        <5>2. QED BY <1>0, <2>3, <4>1, <4>3, <5>1
      <4>4. QED BY <4>2, <4>3
    <3>3. QED BY <3>1, <3>2
<1>4. CASE ClaimReview(p)
  BY <1>4, ClaimType DEF ClaimReview, Places
<1>5. CASE LockReviewedField(p)
  <2>1. lock' \in [Fields -> Attempts \cup {Null}] /\ pc' \in [Attempts -> Places]
    BY <1>5 DEF LockReviewedField, TypeOK, Places
  <2>2. ASSUME NEW f \in Fields, lock'[f] # Null
        PROVE  pc'[lock'[f]] \in HoldingPlaces
    BY <1>5, <2>2 DEF LockReviewedField, TypeOK, HoldingPlaces
  <2>3. QED BY <1>5, <2>1, <2>2 DEF LockReviewedField, TypeOK, tables
<1>6. CASE CheckReview(p)
  <2>1. Answer("version_conflict", Null) \in Reply /\ UNCHANGED tables
    BY <1>0, <1>6 DEF CheckReview, Outcomes
  <2>2. \/ \E to \in {"insert_decision", "insert_fact"} : Goto(p, to)
        \/ Finish(p, Answer("version_conflict", Null))
    BY <1>6 DEF CheckReview
  <2>3. QED BY <2>1, <2>2, GotoType, FinishType DEF Places, HoldingPlaces
<1>7. CASE InsertReviewedFact(p)
  BY <1>7, InsertFactType DEF InsertReviewedFact, HoldingPlaces
<1>8. CASE InsertDecision(p)
  <2>1. Answer("version_conflict", Null) \in Reply /\ UNCHANGED tables
    BY <1>0, <1>8 DEF InsertDecision, Outcomes
  <2>2. Goto(p, "commit") \/ Finish(p, Answer("version_conflict", Null))
    BY <1>8 DEF InsertDecision
  <2>3. QED BY <2>1, <2>2, GotoType, FinishType DEF Places, HoldingPlaces
<1>9. CASE CommitReview(p)
  <2>1. Reviewing(p) /\ pc[p] = "commit" /\ Commit(p, request, request.decisionId)
    BY <1>9 DEF CommitReview, Commit
  <2>2. cmd[p] \in ReviewCommand /\ request \in ReviewRequest
    BY <1>1, <2>1
  <2>3. cmd[p].scope = ReviewScope /\ cmd[p].key \in Ids /\ request.decisionId \in Ids
    BY <2>2 DEF ReviewCommand, ReviewRequest
  <2>4. QED BY <2>1, <2>2, <2>3, CommitType
<1>10. QED
  BY <1>2, <1>3, <1>4, <1>5, <1>6, <1>7, <1>8, <1>9 DEF ReviewStep, ContinueReview

\* What an accepted reverification plans to insert.
LEMMA ReverificationPlanType ==
  ASSUME NEW row \in FactRow, NEW id \in Ids, NEW t \in Nat
  PROVE  /\ [fact |-> Reverified(row, id, t), decision |-> Null] \in Plan
         /\ Reverified(row, id, t) # Null
BY ReverifiedType, RowAssumption DEF Plan

LEMMA ReverificationStepType ==
  ASSUME TypeInv, NEW p \in Attempts, ReverificationStep(p)
  PROVE  TypeOK'
<1> USE DEF TypeInv
<1> DEFINE request == cmd[p].request
<1>0. \A o \in Outcomes : Answer(o, Null) \in Reply
  BY AnswerType
<1>1. Reverifying(p) /\ pc[p] # "idle" => /\ cmd[p] \in ReverifyCommand
                                       /\ request \in ReverifyRequest
                                       /\ now[p] \in Nat
  BY CommandTypes, FreshnessAssumption DEF Reverifying, Begun, ReverifyCommand
<1>2. CASE StartReverification(p)
  <2>1. PICK c \in Commands, t \in Times :
          \/ Start(p, c, t, Answer("denied", Null), "done")
          \/ \E answer \in FoundReverification(c) : Start(p, c, t, answer, "decide")
    BY <1>2 DEF StartReverification
  <2>2. FoundReverification(c) \subseteq Reply
    <3>1. NoReply \in Reply
      BY DEF NoReply, Reply, Outcomes
    <3>2. ASSUME NEW r \in RecordsFor(c), NEW a \in ReplayReverification(c.request, r)
          PROVE  a \in Reply
      <4>1. PICK row \in facts :
              a \in {Answer("replayed", row.id), Answer("invalid_request", Null)}
        BY <3>2 DEF ReplayReverification
      <4>2. row.id \in Ids \cup {Null}
        BY DEF TypeOK, FactRow
      <4>3. Answer("replayed", row.id) \in Reply /\ Answer("invalid_request", Null) \in Reply
        BY <1>0, <4>2, AnswerType DEF Outcomes
      <4>4. QED BY <4>1, <4>3
    <3>3. QED BY <3>1, <3>2 DEF FoundReverification
  <2>3. "done" \in Places /\ "decide" \in Places /\ "denied" \in Outcomes
    BY DEF Places, Outcomes
  <2>4. QED BY <1>0, <2>1, <2>2, <2>3, StartType
<1>3. CASE DecideReverification(p)
  <2>1. pc[p] = "decide" /\ Reverifying(p) /\ UNCHANGED tables
    BY <1>3 DEF DecideReverification
  <2>2. now[p] \in Nat /\ cmd[p].newFactId \in Ids
    BY <1>1, <2>1 DEF ReverifyCommand
  <2>3. CASE \E o \in Outcomes : Finish(p, Answer(o, Null))
    BY <1>0, <2>1, <2>3, FinishType
  <2>4. ASSUME NEW row \in CurrentById(request.factId),
               Intend(p, "claim", [fact |-> Reverified(row, cmd[p].newFactId, now[p]),
                                   decision |-> Null])
        PROVE  TypeOK'
    <3>1. row \in FactRow
      BY DEF CurrentById, TypeOK
    <3>2. "claim" \in Places /\ pc[p] \notin HoldingPlaces
      BY <2>1 DEF Places, HoldingPlaces
    <3>3. QED BY <2>1, <2>2, <2>4, <3>1, <3>2, ReverificationPlanType, IntendType
  <2>5. QED
    <3>1. CASE Finish(p, Answer("not_found", Null))
      BY <2>3, <3>1 DEF Outcomes
    <3>2. ASSUME NEW row \in CurrentById(request.factId),
                 LET verdict == ReverifyVerdict(request, row, now[p]) IN
                 IF verdict = "accepted"
                 THEN Intend(p, "claim", [fact |-> Reverified(row, cmd[p].newFactId, now[p]),
                                          decision |-> Null])
                 ELSE Finish(p, Answer(verdict, Null))
          PROVE  TypeOK'
      <4>1. ReverifyVerdict(request, row, now[p]) # "accepted"
              => ReverifyVerdict(request, row, now[p]) \in Outcomes
        BY DEF ReverifyVerdict, Outcomes
      <4>2. QED BY <2>3, <2>4, <3>2, <4>1
    <3>3. QED BY <1>3, <3>1, <3>2 DEF DecideReverification
<1>4. CASE ClaimReverification(p)
  BY <1>4, ClaimType DEF ClaimReverification, Places
<1>5. CASE CheckReverification(p)
  <2>1. pc[p] = "check" /\ Reverifying(p) /\ UNCHANGED tables
    BY <1>5 DEF CheckReverification
  <2>2. plan[p].fact \in FactRow
    BY <2>1 DEF ReverificationPlanned, TypeOK, Plan
  <2>3. CASE Finish(p, Answer("version_conflict", Null))
    BY <1>0, <2>1, <2>3, FinishType DEF Outcomes
  <2>4. ASSUME NEW cur \in CurrentFact(plan[p].fact.field), cur # Null,
               Intend(p, "insert_fact",
                      [fact |-> Reverified(cur, plan[p].fact.id, plan[p].fact.verifiedAt),
                       decision |-> Null])
        PROVE  TypeOK'
    <3>1. cur \in FactRow
      BY <2>4, CurrentType
    <3>2. plan[p].fact.id \in Ids /\ plan[p].fact.verifiedAt \in Nat
      BY <2>2 DEF FactRow
    <3>3. "insert_fact" \in Places /\ "insert_fact" \in HoldingPlaces
      BY DEF Places, HoldingPlaces
    <3>4. QED BY <2>1, <2>4, <3>1, <3>2, <3>3, ReverificationPlanType, IntendType
  <2>5. QED BY <1>5, <2>3, <2>4 DEF CheckReverification
<1>6. CASE InsertReverifiedFact(p)
  BY <1>6, InsertFactType DEF InsertReverifiedFact, HoldingPlaces
<1>7. CASE CommitReverification(p)
  <2>1. Reverifying(p) /\ pc[p] = "commit" /\ Commit(p, request, cmd[p].newFactId)
    BY <1>7 DEF CommitReverification, Commit
  <2>2. cmd[p] \in ReverifyCommand /\ request \in ReverifyRequest
    BY <1>1, <2>1
  <2>3. cmd[p].scope = ReverifyScope /\ cmd[p].key \in Ids /\ cmd[p].newFactId \in Ids
    BY <2>2 DEF ReverifyCommand
  <2>4. QED BY <2>1, <2>2, <2>3, CommitType
<1>8. QED
  BY <1>2, <1>3, <1>4, <1>5, <1>6, <1>7 DEF ReverificationStep, ContinueReverification

LEMMA CrashType ==
  ASSUME TypeOK, NEW p \in Attempts, Crash(p)
  PROVE  TypeOK'
<1>1. Answer("crashed", Null) \in Reply
  BY AnswerType DEF Outcomes
<1>2. QED BY <1>1, FinishType DEF Crash

-----------------------------------------------------------------------------
(* A step of attempt p touches only p's local variables.                   *)

\* The shapes a step of p can have, as seen by its plan and its place.
Shape(p) ==
  \/ \E c \in Commands, t \in Times : \E a, next : Start(p, c, t, a, next) /\ next \in {"decide", "done"}
  \/ \E a : Finish(p, a) /\ pc[p] # "idle"
  \/ \E to : Goto(p, to) /\ pc[p] # "idle"
              /\ (Reverifying(p) /\ to \in {"claim", "check", "insert_fact", "commit"}
                    => pc[p] \in {"claim", "check", "insert_fact", "commit"})
  \/ \E to, rows : Intend(p, to, rows) /\ pc[p] # "idle"
                    /\ (Reverifying(p) => rows.fact # Null)
  \/ LockReviewedField(p)

LEMMA StepShape ==
  ASSUME TypeInv, NEW p \in Attempts, AttemptStep(p) \/ Crash(p)
  PROVE  Shape(p)
<1> USE DEF Shape
<1>1. Reviewing(p) => ~Reverifying(p)
  BY DEF Reviewing, Reverifying, Reviews, Reverifies
<1>2. CASE ReviewStep(p)
  <2>1. CASE StartReview(p)
    BY <2>1 DEF StartReview
  <2>2. CASE DecideReview(p)
    BY <1>1, <2>2 DEF DecideReview
  <2>3. CASE ClaimReview(p)
    BY <1>1, <2>3 DEF ClaimReview, Claim
  <2>4. CASE LockReviewedField(p)
    BY <2>4
  <2>5. CASE CheckReview(p)
    BY <1>1, <2>5 DEF CheckReview
  <2>6. CASE InsertReviewedFact(p)
    BY <1>1, <2>6 DEF InsertReviewedFact, InsertFact
  <2>7. CASE InsertDecision(p)
    BY <1>1, <2>7 DEF InsertDecision
  <2>8. CASE CommitReview(p)
    BY <2>8 DEF CommitReview, Commit
  <2>9. QED
    BY <1>2, <2>1, <2>2, <2>3, <2>4, <2>5, <2>6, <2>7, <2>8 DEF ReviewStep, ContinueReview
<1>3. CASE ReverificationStep(p)
  <2>1. CASE StartReverification(p)
    BY <2>1 DEF StartReverification
  <2>2. CASE DecideReverification(p)
    <3>1. pc[p] = "decide" /\ Reverifying(p)
      BY <2>2 DEF DecideReverification
    <3>2. now[p] \in Nat /\ cmd[p].newFactId \in Ids
      BY <3>1, CommandTypes, FreshnessAssumption
      DEF Reverifying, TypeInv, Begun, ReverifyCommand
    <3>3. \A row \in CurrentById(cmd[p].request.factId) :
            Reverified(row, cmd[p].newFactId, now[p]) # Null
      BY <3>2, ReverificationPlanType DEF TypeInv, TypeOK, CurrentById
    <3>4. QED
      <4>1. CASE \E a : Finish(p, a)
        BY <3>1, <4>1
      <4>2. ASSUME NEW row \in CurrentById(cmd[p].request.factId),
                   Intend(p, "claim", [fact |-> Reverified(row, cmd[p].newFactId, now[p]),
                                       decision |-> Null])
            PROVE  Shape(p)
        BY <3>1, <3>3, <4>2
      <4>3. QED BY <2>2, <4>1, <4>2 DEF DecideReverification
  <2>3. CASE ClaimReverification(p)
    BY <2>3 DEF ClaimReverification, Claim
  <2>4. CASE CheckReverification(p)
    <3>1. pc[p] = "check" /\ Reverifying(p)
      BY <2>4 DEF CheckReverification
    <3>2. plan[p].fact \in FactRow
      BY <3>1 DEF TypeInv, ReverificationPlanned, TypeOK, Plan
    <3>3. \A cur \in CurrentFact(plan[p].fact.field) :
            cur # Null => Reverified(cur, plan[p].fact.id, plan[p].fact.verifiedAt) # Null
      <4>1. plan[p].fact.id \in Ids /\ plan[p].fact.verifiedAt \in Nat
        BY <3>2 DEF FactRow
      <4>2. \A cur \in CurrentFact(plan[p].fact.field) : cur # Null => cur \in FactRow
        BY CurrentType DEF TypeInv
      <4>3. QED BY <4>1, <4>2, ReverificationPlanType
    <3>4. QED BY <2>4, <3>1, <3>3 DEF CheckReverification
  <2>5. CASE InsertReverifiedFact(p)
    BY <2>5 DEF InsertReverifiedFact, InsertFact
  <2>6. CASE CommitReverification(p)
    BY <2>6 DEF CommitReverification, Commit
  <2>7. QED
    BY <1>3, <2>1, <2>2, <2>3, <2>4, <2>5, <2>6 DEF ReverificationStep, ContinueReverification
<1>4. CASE Crash(p)
  BY <1>4 DEF Crash
<1>5. QED BY <1>2, <1>3, <1>4 DEF AttemptStep

LEMMA ShapeBegun ==
  ASSUME TypeInv, TypeOK', NEW p \in Attempts, Shape(p)
  PROVE  Begun' /\ ReverificationPlanned'
<1> USE DEF TypeInv, Begun, ReverificationPlanned
<1>1. ASSUME NEW c \in Commands, NEW t \in Times, NEW a, NEW next,
             Start(p, c, t, a, next), next \in {"decide", "done"}
      PROVE  Begun' /\ ReverificationPlanned'
  BY <1>1 DEF Start, TypeOK, Reverifying
<1>2. ASSUME NEW a, Finish(p, a), pc[p] # "idle"
      PROVE  Begun' /\ ReverificationPlanned'
  BY <1>2 DEF Finish, TypeOK, Reverifying
<1>3. ASSUME NEW to, Goto(p, to), pc[p] # "idle",
             Reverifying(p) /\ to \in {"claim", "check", "insert_fact", "commit"}
               => pc[p] \in {"claim", "check", "insert_fact", "commit"}
      PROVE  Begun' /\ ReverificationPlanned'
  BY <1>3 DEF Goto, TypeOK, Reverifying
<1>4. ASSUME NEW to, NEW rows, Intend(p, to, rows), pc[p] # "idle",
             Reverifying(p) => rows.fact # Null
      PROVE  Begun' /\ ReverificationPlanned'
  BY <1>4 DEF Intend, TypeOK, Reverifying
<1>5. ASSUME LockReviewedField(p)
      PROVE  Begun' /\ ReverificationPlanned'
  BY <1>5 DEF LockReviewedField, TypeOK, Reverifying, Reviewing, Reviews, Reverifies
<1>6. QED BY <1>1, <1>2, <1>3, <1>4, <1>5 DEF Shape

LEMMA TypeStep == TypeInv /\ [Next]_vars => TypeInv'
<1> SUFFICES ASSUME TypeInv, [Next]_vars PROVE TypeInv'
  OBVIOUS
<1>1. ASSUME NEW p \in Attempts, AttemptStep(p) \/ Crash(p) PROVE TypeInv'
  <2>1. TypeOK'
    BY <1>1, ReviewStepType, ReverificationStepType, CrashType DEF AttemptStep, TypeInv
  <2>2. QED BY <1>1, <2>1, StepShape, ShapeBegun DEF TypeInv
<1>2. CASE UNCHANGED vars
  BY <1>2 DEF vars, TypeInv, TypeOK, Begun, ReverificationPlanned, Reverifying
<1>3. QED BY <1>1, <1>2 DEF Next, Quiescent

LEMMA TypeInvariance == Spec => []TypeInv
<1>1. QED BY InitType, TypeStep, PTL DEF Spec

\* Type correctness: in particular no idempotency record is ever left in
\* progress, and an advisory lock is held only inside a transaction.
THEOREM TypeCorrect == Spec => []TypeOK
<1>1. TypeInv => TypeOK
  BY DEF TypeInv
<1>2. QED BY <1>1, TypeInvariance, PTL

-----------------------------------------------------------------------------
(* The history of a field.  Seen from the fact rows, a step of p does one   *)
(* of five things.                                                         *)

\* Nothing the rows depend on.
Idles(p) ==
  /\ facts' = facts /\ plan' = plan
  /\ \A q \in Attempts : PendingFacts(q)' = PendingFacts(q)

\* It ends and gives up its rows.
GivesUp(p) ==
  /\ facts' = facts /\ plan' = [plan EXCEPT ![p] = NoPlan] /\ pc' = [pc EXCEPT ![p] = "done"]

\* It plans rows that extend the committed ones.
Plans(p) == \E rows, to :
  /\ facts' = facts /\ plan' = [plan EXCEPT ![p] = rows]
  /\ pc' = [pc EXCEPT ![p] = to] /\ to \in {"claim", "insert_fact"}
  /\ rows.fact # Null => Grounded(rows.fact, facts) /\ PolicyExpiry(rows.fact)

\* It inserts its fact: the unique keys were free.
Inserts(p) == \E to :
  /\ facts' = facts /\ plan' = plan /\ pc' = [pc EXCEPT ![p] = to]
  /\ \A s \in facts : ~FactsClash(plan[p].fact, s)
  /\ \A q \in Attempts \ {p} : \A s \in PendingFacts(q) : ~FactsClash(s, plan[p].fact)

\* It commits.
Publishes(p) ==
  /\ facts' = facts \cup PendingFacts(p)
  /\ plan' = [plan EXCEPT ![p] = NoPlan] /\ pc' = [pc EXCEPT ![p] = "done"]

LEMMA ClashSymmetric ==
  ASSUME NEW r, NEW s
  PROVE  FactsClash(r, s) <=> FactsClash(s, r)
BY DEF FactsClash

LEMMA GroundedGrows ==
  ASSUME NEW r, NEW S, NEW T, S \subseteq T, Grounded(r, S)
  PROVE  Grounded(r, T)
BY DEF Grounded

LEMMA FoundedGrows ==
  ASSUME NEW r, NEW S, NEW T, S \subseteq T, Founded(r, S)
  PROVE  Founded(r, T)
BY DEF Founded

LEMMA GroundedFounded ==
  ASSUME NEW r, NEW S, Grounded(r, S)
  PROVE  Founded(r, S)
BY DEF Grounded, Founded

LEMMA IdlesHistory ==
  ASSUME TypeOK, HistoryInv, NEW p \in Attempts, Idles(p)
  PROVE  HistoryInv'
<1>1. PlansGrounded' /\ ExpiriesByPolicy' /\ FactHistory' /\ VerifiedAtMonotone'
  BY DEF HistoryInv, Idles, PlansGrounded, ExpiriesByPolicy, FactHistory, VerifiedAtMonotone
<1>2. PendingReserved'
  BY DEF HistoryInv, Idles, PendingReserved
<1>3. QED BY <1>1, <1>2 DEF HistoryInv

LEMMA GivesUpHistory ==
  ASSUME TypeOK, HistoryInv, NEW p \in Attempts, GivesUp(p)
  PROVE  HistoryInv'
<1>1. PlansGrounded' /\ ExpiriesByPolicy' /\ FactHistory' /\ VerifiedAtMonotone'
  BY DEF HistoryInv, GivesUp, TypeOK, NoPlan,
         PlansGrounded, ExpiriesByPolicy, FactHistory, VerifiedAtMonotone
<1>2. /\ PendingFacts(p)' = {}
      /\ \A q \in Attempts \ {p} : PendingFacts(q)' = PendingFacts(q)
  BY DEF GivesUp, PendingFacts, TypeOK, NoPlan
<1>3. PendingReserved'
  BY <1>2 DEF HistoryInv, GivesUp, PendingReserved
<1>4. QED BY <1>1, <1>3 DEF HistoryInv

LEMMA PlansHistory ==
  ASSUME TypeOK, HistoryInv, NEW p \in Attempts, Plans(p)
  PROVE  HistoryInv'
<1>1. PICK rows, to :
        /\ facts' = facts /\ plan' = [plan EXCEPT ![p] = rows]
        /\ pc' = [pc EXCEPT ![p] = to] /\ to \in {"claim", "insert_fact"}
        /\ rows.fact # Null => Grounded(rows.fact, facts) /\ PolicyExpiry(rows.fact)
  BY DEF Plans
<1>2. PlansGrounded' /\ ExpiriesByPolicy' /\ FactHistory' /\ VerifiedAtMonotone'
  BY <1>1 DEF HistoryInv, TypeOK,
              PlansGrounded, ExpiriesByPolicy, FactHistory, VerifiedAtMonotone
<1>3. /\ PendingFacts(p)' = {}
      /\ \A q \in Attempts \ {p} : PendingFacts(q)' = PendingFacts(q)
  BY <1>1 DEF PendingFacts, TypeOK
<1>4. PendingReserved'
  BY <1>1, <1>3 DEF HistoryInv, PendingReserved
<1>5. QED BY <1>2, <1>4 DEF HistoryInv

LEMMA InsertsHistory ==
  ASSUME TypeOK, HistoryInv, NEW p \in Attempts, Inserts(p)
  PROVE  HistoryInv'
<1>1. PICK to :
        /\ facts' = facts /\ plan' = plan /\ pc' = [pc EXCEPT ![p] = to]
        /\ \A s \in facts : ~FactsClash(plan[p].fact, s)
        /\ \A q \in Attempts \ {p} : \A s \in PendingFacts(q) : ~FactsClash(s, plan[p].fact)
  BY DEF Inserts
<1>2. PlansGrounded' /\ ExpiriesByPolicy' /\ FactHistory' /\ VerifiedAtMonotone'
  BY <1>1 DEF HistoryInv, PlansGrounded, ExpiriesByPolicy, FactHistory, VerifiedAtMonotone
<1>3. /\ PendingFacts(p)' \subseteq {plan[p].fact}
      /\ \A q \in Attempts \ {p} : PendingFacts(q)' = PendingFacts(q)
  BY <1>1 DEF PendingFacts, TypeOK
<1>4. PendingReserved'
  BY <1>1, <1>3, ClashSymmetric DEF HistoryInv, PendingReserved
<1>5. QED BY <1>2, <1>4 DEF HistoryInv

LEMMA PublishesHistory ==
  ASSUME TypeOK, HistoryInv, NEW p \in Attempts, Publishes(p)
  PROVE  HistoryInv'
<1> USE DEF HistoryInv
<1>1. /\ PendingFacts(p)' = {}
      /\ \A q \in Attempts \ {p} : PendingFacts(q)' = PendingFacts(q)
  BY DEF Publishes, PendingFacts, TypeOK, NoPlan
<1>2. /\ facts \subseteq facts'
      /\ \A r \in facts' \ facts : r \in PendingFacts(p) /\ r = plan[p].fact /\ plan[p].fact # Null
  BY DEF Publishes, PendingFacts
<1>3. PlansGrounded'
  BY <1>2, GroundedGrows DEF PlansGrounded, Publishes, TypeOK, NoPlan
<1>4. PendingReserved'
  BY <1>1, <1>2, ClashSymmetric DEF PendingReserved
<1>5. ExpiriesByPolicy'
  BY <1>2 DEF ExpiriesByPolicy, Publishes, TypeOK, NoPlan, PolicyExpiry, ExpiresAt
<1>6. \A r \in facts', s \in facts' : FactsClash(r, s) => r = s
  BY <1>2, ClashSymmetric DEF FactHistory, PendingReserved
<1>7. FactHistory'
  <2>1. ASSUME NEW r \in facts' PROVE Founded(r, facts')
    <3>1. Founded(r, facts)
      BY <1>2, GroundedFounded DEF FactHistory, PlansGrounded
    <3>2. QED BY <1>2, <3>1, FoundedGrows
  <2>2. QED BY <1>6, <2>1 DEF FactHistory
<1>8. VerifiedAtMonotone'
  <2> SUFFICES ASSUME NEW r \in facts', NEW s \in facts', r.supersedes = s.id
               PROVE  s.verifiedAt <= r.verifiedAt
    BY DEF VerifiedAtMonotone
  <2>0. s.id \in Ids
    BY <1>2 DEF TypeOK, Plan, FactRow
  <2>1. CASE r \in facts /\ s \in facts
    BY <2>1 DEF VerifiedAtMonotone
  <2>2. CASE r \in facts /\ s \notin facts
    <3>1. PICK t \in facts : t.id = s.id
      BY <2>0, <2>2, NullAssumption DEF FactHistory, Founded
    <3>2. QED BY <1>2, <2>2, <3>1 DEF PendingReserved, FactsClash
  <2>3. CASE r \notin facts
    <3>1. Grounded(r, facts)
      BY <1>2, <2>3 DEF PlansGrounded
    <3>2. PICK t \in facts : t.id = s.id /\ t.verifiedAt <= r.verifiedAt
      BY <2>0, <3>1, NullAssumption DEF Grounded
    <3>3. t = s
      BY <1>2, <1>6, <3>2 DEF FactsClash
    <3>4. QED BY <3>2, <3>3
  <2>4. QED BY <2>1, <2>2, <2>3
<1>9. QED BY <1>3, <1>4, <1>5, <1>7, <1>8

\* The row an accepted review proposes extends the fact its author read.
LEMMA ReviewPlanGrounded ==
  ASSUME TypeOK, NEW request \in ReviewRequest, NEW t \in Nat,
         NEW cur \in CurrentFact(CandidateRow[request.candidate].field),
         Verdict(request, CandidateRow[request.candidate], cur, t) = "accepted",
         ReviewPlan(request, cur, t).fact # Null
  PROVE  /\ Grounded(ReviewPlan(request, cur, t).fact, facts)
         /\ PolicyExpiry(ReviewPlan(request, cur, t).fact)
<1> DEFINE fact == ReviewPlan(request, cur, t).fact
           f == CandidateRow[request.candidate].field
<1>1. fact = ReviewedFact(request, cur, t)
  BY DEF ReviewPlan
<1>2. /\ fact.field = f /\ fact.version = VersionOf(cur) + 1
      /\ fact.supersedes = IdOf(cur) /\ fact.verifiedAt = t
      /\ fact.expiresAt = ExpiresAt(f, t)
  BY <1>1 DEF ReviewedFact
<1>3. PolicyExpiry(fact)
  BY <1>2 DEF PolicyExpiry
<1>4. Timely(CandidateRow[request.candidate], cur, t)
  BY DEF Verdict
<1>5. Grounded(fact, facts)
  <2>1. CASE cur = Null
    BY <1>2, <2>1 DEF Grounded, VersionOf, IdOf
  <2>2. CASE cur # Null
    <3>1. cur \in facts /\ cur.field = f /\ cur.verifiedAt <= t
      BY <1>4, <2>2 DEF CurrentFact, CurrentFacts, Timely
    <3>2. QED BY <1>2, <2>2, <3>1 DEF Grounded, VersionOf, IdOf
  <2>3. QED BY <2>1, <2>2
<1>6. QED BY <1>3, <1>5

\* A row that is due at t is due by the policy, whether it stores an expiry or
\* not, and was verified before the clock shows t.
LEMMA DueLater ==
  ASSUME NEW row \in FactRow, PolicyExpiry(row), row.field \in TimeSensitive,
         NEW t \in Nat, Due(row, t)
  PROVE  row.verifiedAt + Window <= t + DueSoon /\ row.verifiedAt <= t
<1>1. row.verifiedAt \in Nat /\ Window \in Nat /\ DueSoon \in Nat /\ DueSoon < Window
  BY FreshnessAssumption DEF FactRow
<1>2. row.verifiedAt + Window <= t + DueSoon
  BY DEF Due, PolicyExpiry, ExpiresAt
<1>3. QED BY <1>1, <1>2

LEMMA ReviewStepCases ==
  ASSUME TypeInv, HistoryInv, NEW p \in Attempts, ReviewStep(p)
  PROVE  Idles(p) \/ GivesUp(p) \/ Plans(p) \/ Inserts(p) \/ Publishes(p)
<1> DEFINE request == cmd[p].request
<1>0. ASSUME NEW a, Finish(p, a), UNCHANGED tables PROVE GivesUp(p)
  BY <1>0 DEF Finish, GivesUp, tables
<1>1. CASE StartReview(p)
  BY <1>1 DEF StartReview, Start, Idles, PendingFacts, TypeInv, TypeOK, tables
<1>2. CASE DecideReview(p)
  <2>1. pc[p] = "decide" /\ Reviewing(p) /\ UNCHANGED tables
    BY <1>2 DEF DecideReview
  <2>2. request \in ReviewRequest /\ now[p] \in Nat
    BY <2>1, CommandTypes, FreshnessAssumption DEF Reviewing, TypeInv, Begun, ReviewCommand
  <2>3. ASSUME NEW cur \in CurrentFact(CandidateRow[request.candidate].field),
               Verdict(request, CandidateRow[request.candidate], cur, now[p]) = "accepted",
               Intend(p, "claim", ReviewPlan(request, cur, now[p]))
        PROVE  Plans(p)
    <3>1. ReviewPlan(request, cur, now[p]).fact # Null =>
            /\ Grounded(ReviewPlan(request, cur, now[p]).fact, facts)
            /\ PolicyExpiry(ReviewPlan(request, cur, now[p]).fact)
      BY <2>2, <2>3, ReviewPlanGrounded DEF TypeInv
    <3>2. QED BY <2>1, <2>3, <3>1 DEF Intend, Plans, tables
  <2>4. QED BY <1>0, <1>2, <2>1, <2>3 DEF DecideReview
<1>3. CASE ClaimReview(p)
  <2>1. CASE Goto(p, "lock") /\ pc[p] = "claim" /\ UNCHANGED tables
    BY <2>1 DEF Goto, Idles, PendingFacts, TypeInv, TypeOK, tables
  <2>2. QED BY <1>0, <1>3, <2>1 DEF ClaimReview, Claim
<1>4. CASE LockReviewedField(p)
  BY <1>4 DEF LockReviewedField, Idles, PendingFacts, TypeInv, TypeOK, tables
<1>5. CASE CheckReview(p)
  <2>1. CASE Goto(p, "insert_decision") /\ plan[p].fact = Null /\ pc[p] = "check" /\ UNCHANGED tables
    BY <2>1 DEF Goto, Idles, PendingFacts, TypeInv, TypeOK, tables
  <2>2. CASE Goto(p, "insert_fact") /\ pc[p] = "check" /\ UNCHANGED tables
    BY <2>2 DEF Goto, Idles, PendingFacts, TypeInv, TypeOK, tables
  <2>3. QED BY <1>0, <1>5, <2>1, <2>2 DEF CheckReview
<1>6. CASE InsertReviewedFact(p)
  BY <1>0, <1>6 DEF InsertReviewedFact, InsertFact, Goto, Inserts, FactsClash, tables
<1>7. CASE InsertDecision(p)
  <2>1. CASE Goto(p, "commit") /\ pc[p] = "insert_decision" /\ UNCHANGED tables
    BY <2>1 DEF Goto, Idles, PendingFacts, TypeInv, TypeOK, tables
  <2>2. QED BY <1>0, <1>7, <2>1 DEF InsertDecision
<1>8. CASE CommitReview(p)
  BY <1>8 DEF CommitReview, Commit, Finish, Publishes
<1>9. QED
  BY <1>1, <1>2, <1>3, <1>4, <1>5, <1>6, <1>7, <1>8 DEF ReviewStep, ContinueReview

LEMMA ReverificationStepCases ==
  ASSUME TypeInv, HistoryInv, NEW p \in Attempts, ReverificationStep(p)
  PROVE  Idles(p) \/ GivesUp(p) \/ Plans(p) \/ Inserts(p) \/ Publishes(p)
<1> DEFINE request == cmd[p].request
<1>0. ASSUME NEW a, Finish(p, a), UNCHANGED tables PROVE GivesUp(p)
  BY <1>0 DEF Finish, GivesUp, tables
<1>1. CASE StartReverification(p)
  BY <1>1 DEF StartReverification, Start, Idles, PendingFacts, TypeInv, TypeOK, tables
<1>2. CASE DecideReverification(p)
  <2>1. pc[p] = "decide" /\ Reverifying(p) /\ UNCHANGED tables
    BY <1>2 DEF DecideReverification
  <2>2. now[p] \in Nat /\ cmd[p].newFactId \in Ids
    BY <2>1, CommandTypes, FreshnessAssumption DEF Reverifying, TypeInv, Begun, ReverifyCommand
  <2>3. ASSUME NEW row \in CurrentById(request.factId),
               ReverifyVerdict(request, row, now[p]) = "accepted",
               Intend(p, "claim", [fact |-> Reverified(row, cmd[p].newFactId, now[p]),
                                   decision |-> Null])
        PROVE  Plans(p)
    <3> DEFINE fact == Reverified(row, cmd[p].newFactId, now[p])
    <3>1. row \in facts /\ row \in FactRow
      BY DEF CurrentById, TypeInv, TypeOK
    <3>2. row.verifiedAt <= now[p]
      BY <2>2, <2>3, <3>1, DueLater DEF ReverifyVerdict, HistoryInv, ExpiriesByPolicy
    <3>3. /\ fact.field = row.field /\ fact.version = row.version + 1
          /\ fact.supersedes = row.id /\ fact.verifiedAt = now[p]
          /\ fact.expiresAt = ExpiresAt(row.field, now[p])
      BY <3>1, ReverifiedFields
    <3> HIDE DEF fact
    <3>4. Grounded(fact, facts) /\ PolicyExpiry(fact)
      BY <3>1, <3>2, <3>3 DEF Grounded, PolicyExpiry
    <3> DEFINE rows == [fact |-> fact, decision |-> Null]
    <3>5. rows.fact = fact /\ Intend(p, "claim", rows)
      BY <2>3 DEF fact
    <3> HIDE DEF rows
    <3>6. QED BY <2>1, <3>4, <3>5 DEF Intend, Plans, tables
  <2>4. QED BY <1>0, <1>2, <2>1, <2>3 DEF DecideReverification
<1>3. CASE ClaimReverification(p)
  <2>1. CASE Goto(p, "check") /\ pc[p] = "claim" /\ UNCHANGED tables
    BY <2>1 DEF Goto, Idles, PendingFacts, TypeInv, TypeOK, tables
  <2>2. QED BY <1>0, <1>3, <2>1 DEF ClaimReverification, Claim
<1>4. CASE CheckReverification(p)
  <2>1. pc[p] = "check" /\ Reverifying(p) /\ UNCHANGED tables
    BY <1>4 DEF CheckReverification
  <2> DEFINE old == plan[p].fact
  <2>2. old # Null /\ old \in FactRow /\ Grounded(old, facts)
    BY <2>1 DEF TypeInv, TypeOK, Plan, ReverificationPlanned, HistoryInv, PlansGrounded
  <2>3. ASSUME NEW cur \in CurrentFact(old.field), cur # Null, IdOf(cur) = old.supersedes,
               Intend(p, "insert_fact", [fact |-> Reverified(cur, old.id, old.verifiedAt),
                                         decision |-> Null])
        PROVE  Plans(p)
    <3> DEFINE fact == Reverified(cur, old.id, old.verifiedAt)
    <3>1. cur \in facts /\ cur \in FactRow
      BY <2>3, CurrentType DEF TypeInv
    <3>2. cur.verifiedAt <= old.verifiedAt
      <4>1. cur.id = old.supersedes /\ cur.id \in Ids
        BY <2>3, <3>1 DEF IdOf, FactRow
      <4>2. PICK s \in facts : s.id = cur.id /\ s.verifiedAt <= old.verifiedAt
        BY <2>2, <4>1, NullAssumption DEF Grounded
      <4>3. s = cur
        BY <3>1, <4>2 DEF HistoryInv, FactHistory, FactsClash
      <4>4. QED BY <4>2, <4>3
    <3>3. /\ fact.field = cur.field /\ fact.version = cur.version + 1
          /\ fact.supersedes = cur.id /\ fact.verifiedAt = old.verifiedAt
          /\ fact.expiresAt = ExpiresAt(cur.field, old.verifiedAt)
      BY <3>1, ReverifiedFields
    <3> HIDE DEF fact
    <3>4. Grounded(fact, facts) /\ PolicyExpiry(fact)
      BY <3>1, <3>2, <3>3 DEF Grounded, PolicyExpiry
    <3> DEFINE rows == [fact |-> fact, decision |-> Null]
    <3>5. rows.fact = fact /\ Intend(p, "insert_fact", rows)
      BY <2>3 DEF fact
    <3> HIDE DEF rows
    <3>6. QED BY <2>1, <3>4, <3>5 DEF Intend, Plans, tables
  <2>4. QED BY <1>0, <1>4, <2>1, <2>3 DEF CheckReverification
<1>5. CASE InsertReverifiedFact(p)
  BY <1>0, <1>5 DEF InsertReverifiedFact, InsertFact, Goto, Inserts, FactsClash, tables
<1>6. CASE CommitReverification(p)
  BY <1>6 DEF CommitReverification, Commit, Finish, Publishes
<1>7. QED
  BY <1>1, <1>2, <1>3, <1>4, <1>5, <1>6 DEF ReverificationStep, ContinueReverification

LEMMA InitHistory == Init => HistoryInv
<1> SUFFICES ASSUME Init PROVE HistoryInv
  OBVIOUS
<1> USE DEF Init, StoreInit
<1>1. PlansGrounded /\ PendingReserved
  BY DEF NoPlan, PlansGrounded, PendingReserved, PendingFacts
<1>2. ExpiriesByPolicy /\ FactHistory /\ VerifiedAtMonotone
  BY SeedAssumption DEF NoPlan, ExpiriesByPolicy, PolicyExpiry, FactHistory, VerifiedAtMonotone
<1>3. QED BY <1>1, <1>2 DEF HistoryInv

LEMMA HistoryStep == TypeInv /\ HistoryInv /\ [Next]_vars => HistoryInv'
<1> SUFFICES ASSUME TypeInv, HistoryInv, [Next]_vars PROVE HistoryInv'
  OBVIOUS
<1>0. TypeOK
  BY DEF TypeInv
<1>1. ASSUME NEW p \in Attempts, AttemptStep(p) \/ Crash(p) PROVE HistoryInv'
  <2>1. CASE AttemptStep(p)
    <3>1. Idles(p) \/ GivesUp(p) \/ Plans(p) \/ Inserts(p) \/ Publishes(p)
      BY <2>1, ReviewStepCases, ReverificationStepCases DEF AttemptStep
    <3>2. QED
      BY <1>0, <3>1, IdlesHistory, GivesUpHistory, PlansHistory, InsertsHistory, PublishesHistory
  <2>2. CASE Crash(p)
    BY <1>0, <2>2, GivesUpHistory DEF Crash, Finish, GivesUp, tables
  <2>3. QED BY <1>1, <2>1, <2>2
<1>2. CASE UNCHANGED vars
  BY <1>2 DEF vars, HistoryInv, PlansGrounded, PendingReserved, PendingFacts,
              ExpiriesByPolicy, FactHistory, VerifiedAtMonotone
<1>3. QED BY <1>1, <1>2 DEF Next, Quiescent

LEMMA HistoryInvariance == Spec => []HistoryInv
<1>1. QED BY TypeInvariance, InitHistory, HistoryStep, PTL DEF Spec

\* The versions of a field form one gap-free chain without forks, whatever
\* the number of attempts, commands, fields and candidates.
THEOREM HistoryCorrect == Spec => []FactHistory
<1>1. HistoryInv => FactHistory
  BY DEF HistoryInv
<1>2. QED BY <1>1, HistoryInvariance, PTL

\* Verification times never go back along a chain, for every pair of windows
\* with DueSoon < Window and whatever the servers' clocks show.
THEOREM VerificationMonotone == Spec => []VerifiedAtMonotone
<1>1. HistoryInv => VerifiedAtMonotone
  BY DEF HistoryInv
<1>2. QED BY <1>1, HistoryInvariance, PTL

-----------------------------------------------------------------------------
(* The inductive invariant: what an attempt may rely on at its place.      *)

Working == {"claim", "lock", "check", "insert_fact", "insert_decision", "commit"}
Checked == {"insert_fact", "insert_decision", "commit"}

FieldOf(p) == CandidateField(cmd[p].request.candidate)

\* An attempt that has not ended has told nothing.
Unanswered(p) == pc[p] # "done" => reply[p] = NoReply

\* Inside its transaction an attempt is alone with its idempotency key.
KeyHeld(p) ==
  InTransaction(p) =>
    /\ RecordsFor(cmd[p]) = {}
    /\ \A q \in Attempts \ {p} : InTransaction(q) => ~SameKey(cmd[q], cmd[p])

\* A review carries what it decided on a version that is still committed.
ReviewFits(p) ==
  LET request == cmd[p].request IN
  /\ request.candidate \in Candidates
  /\ plan[p].decision # Null
  /\ request.action # "reject" => plan[p].fact # Null
  /\ \E cur \in facts \cup {Null} :
       /\ cur # Null => cur.field = FieldOf(p)
       /\ VersionOf(cur) = request.expectedFact
       /\ plan[p] = ReviewPlan(request, cur, now[p])

\* A reverification carries the successor of the row its owner saw.
ReverificationFits(p) ==
  \E row \in facts :
    /\ row.field \in TimeSensitive /\ row.verifiedAt + Window <= now[p] + DueSoon
    /\ row.id = cmd[p].request.factId /\ row.version = cmd[p].request.expectedVersion
    /\ plan[p] = [fact |-> Reverified(row, cmd[p].newFactId, now[p]), decision |-> Null]

PlanFits(p) ==
  /\ Reviewing(p) /\ pc[p] \in Working => ReviewFits(p)
  /\ Reverifying(p) /\ pc[p] \in Working \ {"lock", "insert_decision"} => ReverificationFits(p)

\* A review holds the lock of its field from the lock statement to its end.
LockHeld(p) == Reviewing(p) /\ pc[p] \in HoldingPlaces => lock[FieldOf(p)] = p

\* An inserted decision owns its keys before it is committed.
DecisionReserved(p) ==
  \A d \in PendingDecisions(p) :
    /\ \A e \in decisions : ~DecisionsClash(d, e)
    /\ \A q \in Attempts \ {p} : \A e \in PendingDecisions(q) : ~DecisionsClash(d, e)

\* A checked decision extends the candidate's committed decisions.
DecisionFounded(p) ==
  Reviewing(p) /\ pc[p] \in Checked =>
    \/ plan[p].decision.version = 1
    \/ \E e \in decisions : /\ e.candidate = plan[p].decision.candidate
                           /\ e.version + 1 = plan[p].decision.version

\* While a checked rejection runs, no review changes the value it rejects.
RejectionStands(p) ==
  Reviewing(p) /\ pc[p] \in Checked /\ cmd[p].request.action = "reject" =>
    \A r \in facts : r.field = FieldOf(p) /\ r.version > cmd[p].request.expectedFact
                       => r.origin = "reverification"

AttemptInv(p) ==
  /\ Unanswered(p) /\ KeyHeld(p) /\ PlanFits(p) /\ LockHeld(p)
  /\ DecisionReserved(p) /\ DecisionFounded(p) /\ RejectionStands(p)

\* The versions of a field, and of a candidate's decisions, are counted.
Counted ==
  /\ \A f \in Fields : IsFiniteSet(RowsOf(facts, f)) /\ Numbered(RowsOf(facts, f))
  /\ \A k \in Candidates : IsFiniteSet(DecisionsOf(decisions, k)) /\ Numbered(DecisionsOf(decisions, k))

EffectInv ==
  /\ \A p \in Attempts : AttemptInv(p)
  /\ SeedFacts \subseteq facts
  /\ Counted
  /\ DecisionHistory /\ AllOrNothing /\ ReverificationPreserves /\ AnsweredOnce

-----------------------------------------------------------------------------
(* What a step of one attempt leaves to the others.                        *)

OthersKept(p) ==
  \A q \in Attempts \ {p} :
    /\ pc'[q] = pc[q] /\ cmd'[q] = cmd[q] /\ now'[q] = now[q]
    /\ plan'[q] = plan[q] /\ reply'[q] = reply[q]
    /\ \A f \in Fields : lock[f] = q => lock'[f] = q

LEMMA StepKeepsOthers ==
  ASSUME TypeInv, NEW p \in Attempts, AttemptStep(p) \/ Crash(p)
  PROVE  OthersKept(p)
<1> USE DEF TypeInv, TypeOK, OthersKept
<1>1. ASSUME NEW c, NEW t, NEW a, NEW next, Start(p, c, t, a, next) PROVE OthersKept(p)
  BY <1>1 DEF Start
<1>2. ASSUME NEW a, Finish(p, a) PROVE OthersKept(p)
  BY <1>2, NullAssumption DEF Finish, Released
<1>3. ASSUME NEW to, Goto(p, to) PROVE OthersKept(p)
  BY <1>3 DEF Goto
<1>4. ASSUME NEW to, NEW rows, Intend(p, to, rows) PROVE OthersKept(p)
  BY <1>4 DEF Intend
<1>5. ASSUME LockReviewedField(p) PROVE OthersKept(p)
  BY <1>5, NullAssumption DEF LockReviewedField
<1>6. QED BY <1>1, <1>2, <1>3, <1>4, <1>5, StepShape DEF Shape

\* What an attempt was told of a committed effect is on record.
Truthful(p) ==
  reply[p].outcome \in {"committed", "replayed"} =>
    \E r \in records : SameKey(r, cmd[p]) /\ r.hash = cmd[p].request /\ r.ref = reply[p].ref

LEMMA SameKeySymmetric ==
  ASSUME NEW c, NEW d
  PROVE  SameKey(c, d) <=> SameKey(d, c)
BY DEF SameKey

\* While no table changes, what holds of p's own state holds for all.
LEMMA QuietStep ==
  ASSUME TypeInv, EffectInv, NEW p \in Attempts, OthersKept(p), UNCHANGED tables,
         AttemptInv(p)', Truthful(p)', reply'[p].outcome # "committed"
  PROVE  EffectInv'
<1> USE DEF tables
<1>1. ASSUME NEW q \in Attempts \ {p} PROVE AttemptInv(q)'
  <2>0. AttemptInv(q)
    BY DEF EffectInv
  <2>1. /\ pc'[q] = pc[q] /\ cmd'[q] = cmd[q] /\ now'[q] = now[q]
        /\ plan'[q] = plan[q] /\ reply'[q] = reply[q]
    BY DEF OthersKept
  <2>2. Unanswered(q)' /\ PlanFits(q)' /\ DecisionFounded(q)' /\ RejectionStands(q)'
    BY <2>0, <2>1 DEF AttemptInv, Unanswered, PlanFits, ReviewFits, ReverificationFits,
       DecisionFounded, RejectionStands, Reviewing, Reverifying, FieldOf
  <2>3. KeyHeld(q)'
    BY <2>0, <2>1, SameKeySymmetric DEF AttemptInv, KeyHeld, InTransaction, RecordsFor, OthersKept
  <2>4. LockHeld(q)'
    <3>1. CASE Reviewing(q) /\ pc[q] \in HoldingPlaces
      <4>1. FieldOf(q) \in Fields /\ lock[FieldOf(q)] = q
        BY <2>0, <3>1, CandidateAssumption
        DEF AttemptInv, LockHeld, PlanFits, ReviewFits, FieldOf, CandidateField, Working, HoldingPlaces
      <4>2. QED BY <2>1, <4>1 DEF LockHeld, FieldOf, OthersKept
    <3>2. QED BY <2>1, <3>1 DEF LockHeld, Reviewing
  <2>5. DecisionReserved(q)'
    <3>1. \A r \in Attempts \ {p} : PendingDecisions(r)' = PendingDecisions(r)
      BY DEF OthersKept, PendingDecisions
    <3>2. \A d \in PendingDecisions(q), e \in PendingDecisions(p)' : ~DecisionsClash(d, e)
      BY <3>1 DEF AttemptInv, DecisionReserved, DecisionsClash
    <3>3. QED BY <2>0, <3>1, <3>2 DEF AttemptInv, DecisionReserved
  <2>6. QED BY <2>2, <2>3, <2>4, <2>5 DEF AttemptInv
<1>2. (SeedFacts \subseteq facts)' /\ Counted'
  BY DEF EffectInv, Counted
<1>3. DecisionHistory' /\ AllOrNothing' /\ ReverificationPreserves'
  BY DEF EffectInv, DecisionHistory, AllOrNothing, Effected, ReverificationPreserves
<1>4. AnsweredOnce'
  BY DEF EffectInv, AnsweredOnce, OthersKept, Truthful
<1>5. QED BY <1>1, <1>2, <1>3, <1>4 DEF EffectInv

-----------------------------------------------------------------------------
(* The steps that change no table.                                         *)

LEMMA KindsDiffer ==
  ASSUME NEW p PROVE ~(Reviewing(p) /\ Reverifying(p))
BY DEF Reviewing, Reverifying, Reviews, Reverifies, ReviewScope, ReverifyScope

\* An attempt that only begins, or ends without an effect.
LEMMA Settles ==
  ASSUME TypeInv, EffectInv, NEW p \in Attempts, OthersKept(p), UNCHANGED tables,
         pc'[p] \in {"decide", "done"}, Unanswered(p)', Truthful(p)',
         reply'[p].outcome # "committed"
  PROVE  EffectInv'
<1>1. AttemptInv(p)'
  BY DEF AttemptInv, KeyHeld, InTransaction, PlanFits, Working, LockHeld, HoldingPlaces,
         DecisionReserved, PendingDecisions, DecisionFounded, Checked, RejectionStands
<1>2. QED BY <1>1, QuietStep

\* A replayed answer names the effect of the request's own key.
TruthfulAnswer(c, a) ==
  /\ a.outcome # "committed"
  /\ a.outcome = "replayed" =>
       \E r \in records : SameKey(r, c) /\ r.hash = c.request /\ r.ref = a.ref

LEMMA Refusals ==
  ASSUME NEW c, NEW o, NEW ref, o \notin {"committed", "replayed"}
  PROVE  TruthfulAnswer(c, Answer(o, ref))
BY DEF TruthfulAnswer, Answer

LEMMA ReplayIsTruthful ==
  ASSUME NEW c, NEW r \in RecordsFor(c)
  PROVE  TruthfulAnswer(c, ReplayAnswer(r, c.request))
BY DEF RecordsFor, TruthfulAnswer, ReplayAnswer, Answer

LEMMA FinishSettles ==
  ASSUME TypeInv, EffectInv, NEW p \in Attempts, OthersKept(p), UNCHANGED tables,
         NEW a, Finish(p, a), TruthfulAnswer(cmd[p], a)
  PROVE  EffectInv'
<1>1. pc'[p] = "done" /\ reply'[p] = a /\ cmd' = cmd
  BY DEF Finish, TypeInv, TypeOK
<1>2. Unanswered(p)' /\ Truthful(p)' /\ a.outcome # "committed"
  BY <1>1 DEF Unanswered, Truthful, TruthfulAnswer, tables
<1>3. QED BY <1>1, <1>2, Settles

LEMMA StartSettles ==
  ASSUME TypeInv, EffectInv, NEW p \in Attempts, OthersKept(p),
         NEW c, NEW t, NEW a, NEW next \in {"decide", "done"}, Start(p, c, t, a, next),
         next = "done" => a # NoReply, TruthfulAnswer(c, a)
  PROVE  EffectInv'
<1>1. UNCHANGED tables /\ cmd'[p] = c
  BY DEF Start, TypeInv, TypeOK, tables
<1>2. reply[p] = NoReply
  BY DEF Start, EffectInv, AttemptInv, Unanswered
<1>3. \/ pc'[p] = "decide" /\ reply'[p] = NoReply
      \/ pc'[p] = "done" /\ reply'[p] = a
  BY <1>2 DEF Start, TypeInv, TypeOK
<1>4. Unanswered(p)' /\ Truthful(p)' /\ reply'[p].outcome # "committed"
  BY <1>1, <1>3 DEF Unanswered, Truthful, TruthfulAnswer, NoReply, tables
<1>5. QED BY <1>1, <1>3, <1>4, Settles

LEMMA DecideQuiet ==
  ASSUME TypeInv, EffectInv, NEW p \in Attempts, OthersKept(p), UNCHANGED tables,
         NEW rows, pc[p] = "decide", Intend(p, "claim", rows),
         Reviewing(p) => ReviewFits(p)', Reverifying(p) => ReverificationFits(p)'
  PROVE  EffectInv'
<1>1. pc'[p] = "claim" /\ reply'[p] = reply[p] /\ cmd' = cmd /\ reply[p] = NoReply
  BY DEF Intend, TypeInv, TypeOK, EffectInv, AttemptInv, Unanswered
<1>2. AttemptInv(p)'
  BY <1>1 DEF AttemptInv, Unanswered, KeyHeld, InTransaction, PlanFits, LockHeld, HoldingPlaces,
     DecisionReserved, PendingDecisions, DecisionFounded, Checked, RejectionStands,
     Reviewing, Reverifying
<1>3. QED BY <1>1, <1>2, QuietStep DEF Truthful, NoReply

\* A statement that succeeds and takes p from one place to another.
LEMMA GotoQuiet ==
  ASSUME TypeInv, EffectInv, NEW p \in Attempts, OthersKept(p), UNCHANGED tables,
         NEW to \in Working, pc[p] \in Working, Goto(p, to),
         Reverifying(p) => /\ pc[p] \notin {"lock", "insert_decision"}
                           /\ to \notin {"lock", "insert_decision"},
         KeyHeld(p)', LockHeld(p)', DecisionReserved(p)', DecisionFounded(p)', RejectionStands(p)'
  PROVE  EffectInv'
<1>1. /\ pc'[p] = to /\ reply'[p] = reply[p] /\ cmd' = cmd /\ now' = now /\ plan' = plan
      /\ reply[p] = NoReply
  BY DEF Goto, TypeInv, TypeOK, EffectInv, AttemptInv, Unanswered, Working
<1>2. Unanswered(p)'
  BY <1>1 DEF Unanswered
<1>3. PlanFits(p)'
  BY <1>1 DEF EffectInv, AttemptInv, PlanFits, ReviewFits, ReverificationFits, Reviewing,
     Reverifying, FieldOf, tables
<1>4. AttemptInv(p)'
  BY <1>2, <1>3 DEF AttemptInv
<1>5. QED BY <1>1, <1>4, QuietStep DEF Truthful, NoReply

LEMMA ClaimQuiet ==
  ASSUME TypeInv, EffectInv, NEW p \in Attempts, OthersKept(p),
         NEW next, Claim(p, cmd[p].request, next),
         \/ Reviewing(p) /\ next = "lock"
         \/ Reverifying(p) /\ next = "check"
  PROVE  EffectInv'
<1>1. pc[p] = "claim" /\ UNCHANGED tables
  BY DEF Claim
<1>2. ASSUME NEW r \in RecordsFor(cmd[p]), Finish(p, ReplayAnswer(r, cmd[p].request))
      PROVE  EffectInv'
  BY <1>1, <1>2, ReplayIsTruthful, FinishSettles
<1>3. CASE RecordsFor(cmd[p]) = {} /\ Goto(p, next)
  <2>1. pc'[p] = next /\ cmd' = cmd
    BY <1>3 DEF Goto, TypeInv, TypeOK
  <2>2. KeyHeld(p)'
    BY <1>1, <1>3, <2>1 DEF Claim, KeyHeld, InTransaction, RecordsFor, OthersKept, tables
  <2>3. LockHeld(p)' /\ DecisionFounded(p)' /\ RejectionStands(p)'
    BY <2>1, KindsDiffer DEF LockHeld, HoldingPlaces, DecisionFounded, Checked, RejectionStands,
       Reviewing, Reverifying
  <2>4. DecisionReserved(p)'
    BY <2>1 DEF DecisionReserved, PendingDecisions
  <2>5. QED BY <1>1, <1>3, <2>2, <2>3, <2>4, KindsDiffer, GotoQuiet DEF Working
<1>4. QED BY <1>2, <1>3 DEF Claim

-----------------------------------------------------------------------------
(* The actions that change no table.                                       *)

LEMMA StartReviewQuiet ==
  ASSUME TypeInv, EffectInv, NEW p \in Attempts, OthersKept(p), StartReview(p)
  PROVE  EffectInv'
<1>1. TruthfulAnswer(cmd[p], NoReply) /\ Answer("denied", Null) # NoReply
  BY DEF TruthfulAnswer, Answer, NoReply
<1>2. PICK c \in Commands, t \in Times :
        \/ Start(p, c, t, Answer("denied", Null), "done")
        \/ \E answer \in FoundReview(c) : Start(p, c, t, answer, "decide")
  BY DEF StartReview
<1>3. CASE Start(p, c, t, Answer("denied", Null), "done")
  BY <1>1, <1>3, Refusals, StartSettles
<1>4. ASSUME NEW a \in FoundReview(c), Start(p, c, t, a, "decide")
      PROVE  EffectInv'
  <2>1. TruthfulAnswer(c, a)
    BY ReplayIsTruthful DEF FoundReview, TruthfulAnswer, NoReply
  <2>2. QED BY <1>4, <2>1, StartSettles
<1>5. QED BY <1>2, <1>3, <1>4

\* The row a reverification's record refers to identifies its request.
LEMMA ReverificationReplayTruthful ==
  ASSUME TypeInv, HistoryInv, EffectInv, NEW c \in Commands, Reverifies(c),
         NEW r \in RecordsFor(c), NEW a \in ReplayReverification(c.request, r)
  PROVE  TruthfulAnswer(c, a)
<1>1. PICK row \in facts :
        /\ row.id = r.ref
        /\ a = IF row.supersedes = c.request.factId /\ row.version = c.request.expectedVersion + 1
               THEN Answer("replayed", row.id) ELSE Answer("invalid_request", Null)
  BY DEF ReplayReverification
<1>2. CASE ~(row.supersedes = c.request.factId /\ row.version = c.request.expectedVersion + 1)
  BY <1>1, <1>2, Refusals
<1>3. CASE row.supersedes = c.request.factId /\ row.version = c.request.expectedVersion + 1
  <2>1. r \in records /\ r.scope = ReverifyScope /\ SameKey(r, c)
    BY DEF RecordsFor, SameKey, Reverifies
  <2>2. PICK s \in facts :
          s.id = r.ref /\ s.supersedes = r.hash.factId /\ s.version = r.hash.expectedVersion + 1
    BY <2>1 DEF EffectInv, AllOrNothing, Effected
  <2>3. s = row
    BY <1>1, <2>2 DEF HistoryInv, FactHistory, FactsClash
  <2>4. r.hash \in ReverifyRequest /\ c.request \in ReverifyRequest
    <3>1. c \in ReverifyCommand
      BY CommandTypes
    <3>2. r \in RecordOf(ReverifyScope, ReverifyRequest)
      BY <2>1 DEF TypeInv, TypeOK, Record, RecordOf, ReviewScope, ReverifyScope
    <3>3. QED BY <3>1, <3>2 DEF RecordOf, ReverifyCommand
  <2>5. r.hash = c.request
    BY <1>3, <2>2, <2>3, <2>4 DEF ReverifyRequest
  <2>6. QED BY <1>1, <1>3, <2>1, <2>5 DEF TruthfulAnswer, Answer
<1>4. QED BY <1>2, <1>3

LEMMA StartReverificationQuiet ==
  ASSUME TypeInv, HistoryInv, EffectInv, NEW p \in Attempts, OthersKept(p), StartReverification(p)
  PROVE  EffectInv'
<1>1. Answer("denied", Null) # NoReply
  BY DEF Answer, NoReply
<1>2. PICK c \in Commands, t \in Times :
        /\ Reverifies(c)
        /\ \/ Start(p, c, t, Answer("denied", Null), "done")
           \/ \E answer \in FoundReverification(c) : Start(p, c, t, answer, "decide")
  BY DEF StartReverification
<1>3. CASE Start(p, c, t, Answer("denied", Null), "done")
  BY <1>1, <1>3, Refusals, StartSettles
<1>4. ASSUME NEW a \in FoundReverification(c), Start(p, c, t, a, "decide")
      PROVE  EffectInv'
  <2>1. a = NoReply \/ \E r \in RecordsFor(c) : a \in ReplayReverification(c.request, r)
    BY DEF FoundReverification
  <2>2. TruthfulAnswer(c, a)
    BY <1>2, <2>1, ReverificationReplayTruthful DEF TruthfulAnswer, NoReply
  <2>3. QED BY <1>4, <2>2, StartSettles
<1>5. QED BY <1>2, <1>3, <1>4

LEMMA DecideReviewQuiet ==
  ASSUME TypeInv, EffectInv, NEW p \in Attempts, OthersKept(p), DecideReview(p)
  PROVE  EffectInv'
<1> DEFINE request == cmd[p].request
           f == CandidateRow[request.candidate].field
<1>1. pc[p] = "decide" /\ Reviewing(p) /\ UNCHANGED tables
  BY DEF DecideReview
<1>2. request \in ReviewRequest /\ now[p] \in Nat
  BY <1>1, CommandTypes, FreshnessAssumption DEF Reviewing, TypeInv, Begun, ReviewCommand
<1>3. ASSUME NEW o, o \notin {"committed", "replayed"}, Finish(p, Answer(o, Null))
      PROVE  EffectInv'
  BY <1>1, <1>3, Refusals, FinishSettles
<1>4. ASSUME request.candidate \in Candidates, NEW cur \in CurrentFact(f),
             Verdict(request, CandidateRow[request.candidate], cur, now[p]) = "accepted",
             Intend(p, "claim", ReviewPlan(request, cur, now[p]))
      PROVE  EffectInv'
  <2>1. cur \in facts \cup {Null} /\ (cur # Null => cur.field = f) /\ cur \in FactRow \cup {Null}
    BY CurrentType DEF CurrentFact, CurrentFacts, TypeInv
  <2>2. VersionOf(cur) = request.expectedFact
    BY <1>4 DEF Verdict
  <2>3. ReviewPlan(request, cur, now[p]) \in Plan
    BY <1>2, <1>4, <2>1, ReviewPlanType
  <2>4. plan'[p] = ReviewPlan(request, cur, now[p]) /\ cmd' = cmd /\ now' = now
    BY <1>4 DEF Intend, TypeInv, TypeOK
  <2>5. plan'[p].decision # Null /\ (request.action # "reject" => plan'[p].fact # Null)
    <3>1. ReviewPlan(request, cur, now[p]).decision = ReviewDecision(request, cur, now[p])
      BY DEF ReviewPlan
    <3>2. ReviewDecision(request, cur, now[p]) # Null
      BY <1>2, <1>4, <2>1, ReviewRowsType
    <3>3. request.action # "reject" =>
            /\ ReviewPlan(request, cur, now[p]).fact = ReviewedFact(request, cur, now[p])
            /\ ReviewedFact(request, cur, now[p]) # Null
      BY <1>2, <1>4, <2>1, ReviewRowsType DEF ReviewPlan
    <3>4. QED BY <2>4, <3>1, <3>2, <3>3
  <2>6. ReviewFits(p)'
    BY <1>1, <1>4, <2>1, <2>2, <2>4, <2>5 DEF ReviewFits, FieldOf, CandidateField, tables
  <2>7. QED BY <1>1, <1>4, <2>6, KindsDiffer, DecideQuiet DEF Reviewing, Reverifying
<1>5. QED
  <2>1. CASE request.candidate \notin Candidates
    BY <1>3, <2>1 DEF DecideReview
  <2>2. CASE request.candidate \in Candidates
    <3>1. PICK cur \in CurrentFact(f) :
            LET verdict == Verdict(request, CandidateRow[request.candidate], cur, now[p]) IN
            IF verdict = "accepted"
            THEN Intend(p, "claim", ReviewPlan(request, cur, now[p]))
            ELSE Finish(p, Answer(verdict, Null))
      BY <2>2 DEF DecideReview
    <3>2. Verdict(request, CandidateRow[request.candidate], cur, now[p])
            \in {"accepted", "refused", "stale_version"}
      BY DEF Verdict
    <3>3. QED BY <1>3, <1>4, <2>2, <3>1, <3>2
  <2>3. QED BY <2>1, <2>2

LEMMA DecideReverificationQuiet ==
  ASSUME TypeInv, HistoryInv, EffectInv, NEW p \in Attempts, OthersKept(p), DecideReverification(p)
  PROVE  EffectInv'
<1> DEFINE request == cmd[p].request
<1>1. pc[p] = "decide" /\ Reverifying(p) /\ UNCHANGED tables
  BY DEF DecideReverification
<1>2. now[p] \in Nat
  BY <1>1, FreshnessAssumption DEF TypeInv, Begun
<1>3. ASSUME NEW o, o \notin {"committed", "replayed"}, Finish(p, Answer(o, Null))
      PROVE  EffectInv'
  BY <1>1, <1>3, Refusals, FinishSettles
<1>4. ASSUME NEW row \in CurrentById(request.factId),
             ReverifyVerdict(request, row, now[p]) = "accepted",
             Intend(p, "claim", [fact |-> Reverified(row, cmd[p].newFactId, now[p]),
                                 decision |-> Null])
      PROVE  EffectInv'
  <2>1. /\ row \in facts /\ row \in FactRow /\ row.id = request.factId
        /\ row.field \in TimeSensitive /\ row.version = request.expectedVersion
        /\ Due(row, now[p])
    BY <1>4 DEF CurrentById, ReverifyVerdict, TypeInv, TypeOK
  <2>2. row.verifiedAt + Window <= now[p] + DueSoon
    BY <1>2, <2>1, DueLater DEF HistoryInv, ExpiriesByPolicy
  <2>3. /\ plan'[p] = [fact |-> Reverified(row, cmd[p].newFactId, now[p]), decision |-> Null]
        /\ cmd' = cmd /\ now' = now
    BY <1>4 DEF Intend, TypeInv, TypeOK
  <2>4. ReverificationFits(p)'
    BY <1>1, <2>1, <2>2, <2>3 DEF ReverificationFits, tables
  <2>5. QED BY <1>1, <1>4, <2>4, KindsDiffer, DecideQuiet DEF Reviewing, Reverifying
<1>5. QED
  <2>1. ASSUME NEW row \in CurrentById(request.factId)
        PROVE  ReverifyVerdict(request, row, now[p])
                 \in {"accepted", "stale_version", "not_time_sensitive", "not_due"}
    BY DEF ReverifyVerdict
  <2>2. QED BY <1>3, <1>4, <2>1 DEF DecideReverification

\* What a review carries past its decision.
LEMMA ReviewCarries ==
  ASSUME TypeInv, EffectInv, NEW p \in Attempts, Reviewing(p), pc[p] \in Working
  PROVE  /\ ReviewFits(p) /\ FieldOf(p) \in Fields
         /\ cmd[p].request \in ReviewRequest
         /\ plan[p].decision \in DecisionRow /\ plan[p].fact \in FactRow \cup {Null}
         /\ plan[p].decision.candidate = cmd[p].request.candidate
         /\ plan[p].decision.version = cmd[p].request.expectedDecision + 1
         /\ (plan[p].fact = Null) <=> (cmd[p].request.action = "reject")
<1>1. ReviewFits(p) /\ plan[p] \in Plan
  BY DEF EffectInv, AttemptInv, PlanFits, TypeInv, TypeOK
<1>2. PICK cur : plan[p] = ReviewPlan(cmd[p].request, cur, now[p])
  BY <1>1 DEF ReviewFits
<1>3. cmd[p].request \in ReviewRequest
  BY CommandTypes DEF Reviewing, TypeInv, Begun, Working, ReviewCommand
<1>4. plan[p].decision = ReviewDecision(cmd[p].request, cur, now[p])
  BY <1>2 DEF ReviewPlan
<1>5. cmd[p].request.action = "reject" => plan[p].fact = Null
  BY <1>2 DEF ReviewPlan
<1>6. FieldOf(p) \in Fields
  BY <1>1, CandidateAssumption DEF ReviewFits, FieldOf, CandidateField
<1>7. QED BY <1>1, <1>3, <1>4, <1>5, <1>6 DEF ReviewFits, ReviewDecision, Plan

LEMMA LockQuiet ==
  ASSUME TypeInv, EffectInv, NEW p \in Attempts, OthersKept(p), LockReviewedField(p)
  PROVE  EffectInv'
<1>1. /\ pc[p] = "lock" /\ Reviewing(p) /\ UNCHANGED tables /\ pc'[p] = "check"
      /\ cmd' = cmd /\ now' = now /\ plan' = plan /\ reply' = reply
  BY DEF LockReviewedField, TypeInv, TypeOK, tables
<1>2. reply[p] = NoReply /\ KeyHeld(p) /\ ReviewFits(p) /\ FieldOf(p) \in Fields
  BY <1>1, ReviewCarries DEF EffectInv, AttemptInv, Unanswered, Working
<1>3. Unanswered(p)'
  BY <1>1, <1>2 DEF Unanswered
<1>4. KeyHeld(p)'
  BY <1>1, <1>2 DEF KeyHeld, InTransaction, RecordsFor, OthersKept, tables
<1>5. PlanFits(p)'
  BY <1>1, <1>2, KindsDiffer
  DEF PlanFits, ReviewFits, Reviewing, Reverifying, FieldOf, tables
<1>6. LockHeld(p)'
  BY <1>1, <1>2 DEF LockHeld, LockReviewedField, FieldOf, TypeInv, TypeOK
<1>7. DecisionReserved(p)' /\ DecisionFounded(p)' /\ RejectionStands(p)'
  BY <1>1 DEF DecisionReserved, PendingDecisions, DecisionFounded, Checked, RejectionStands
<1>8. QED BY <1>1, <1>2, <1>3, <1>4, <1>5, <1>6, <1>7, QuietStep
          DEF AttemptInv, Truthful, NoReply

\* A field with versions has a highest one.
LEMMA CurrentExists ==
  ASSUME TypeInv, EffectInv, NEW f \in Fields, CurrentFacts(f) = {}
  PROVE  \A r \in facts : r.field # f
<1> DEFINE S == RowsOf(facts, f)
           n == Cardinality(S)
<1>1. Numbered(S) /\ IsFiniteSet(S) /\ n \in Nat
  BY FS_CardinalityType DEF EffectInv, Counted
<1>2. ASSUME NEW r \in S PROVE FALSE
  <2>1. \A s \in S : s.version \in 1 .. n
    BY <1>1 DEF Numbered
  <2>2. n \in 1 .. n
    BY <1>1, <1>2, <2>1
  <2>3. PICK s \in S : s.version = n
    BY <1>1, <2>2 DEF Numbered
  <2>4. s \in CurrentFacts(f)
    BY <1>1, <2>1, <2>3 DEF CurrentFacts, RowsOf
  <2>5. QED BY <2>4
<1>3. QED BY <1>2 DEF RowsOf

\* Under the lock, a rejection whose check passes rejects the current value.
LEMMA CheckedRejection ==
  ASSUME TypeInv, HistoryInv, EffectInv, NEW p \in Attempts, Reviewing(p), pc[p] = "check",
         cmd[p].request.action = "reject",
         NEW cur \in CurrentFact(FieldOf(p)), ReviewExtends(plan[p], cur)
  PROVE  \A r \in facts : r.field = FieldOf(p) => r.version <= cmd[p].request.expectedFact
<1>1. ReviewFits(p) /\ FieldOf(p) \in Fields /\ plan[p].fact = Null
  BY ReviewCarries DEF Working
<1>2. PICK seen \in facts \cup {Null} :
        /\ VersionOf(seen) = cmd[p].request.expectedFact
        /\ plan[p] = ReviewPlan(cmd[p].request, seen, now[p])
  BY <1>1 DEF ReviewFits
<1>3. IdOf(seen) = IdOf(cur)
  BY <1>1, <1>2 DEF ReviewExtends, ReviewPlan, ReviewDecision
<1>4. cur \in FactRow \cup {Null} /\ seen \in FactRow \cup {Null}
  BY CurrentType DEF TypeInv, TypeOK
<1>5. CASE cur = Null
  <2>1. CurrentFacts(FieldOf(p)) = {}
    BY <1>5, RowAssumption DEF CurrentFact, CurrentFacts, TypeInv, TypeOK
  <2>2. QED BY <1>1, <2>1, CurrentExists
<1>6. CASE cur # Null
  <2>1. cur \in CurrentFacts(FieldOf(p))
    BY <1>6 DEF CurrentFact
  <2>2. seen # Null /\ seen.id = cur.id
    BY <1>3, <1>4, <1>6, NullAssumption DEF IdOf, FactRow
  <2>3. seen = cur
    BY <1>2, <2>1, <2>2 DEF HistoryInv, FactHistory, FactsClash, CurrentFacts
  <2>4. QED BY <1>2, <2>1, <2>2, <2>3 DEF CurrentFacts, VersionOf
<1>7. QED BY <1>5, <1>6

LEMMA CheckReviewQuiet ==
  ASSUME TypeInv, HistoryInv, EffectInv, NEW p \in Attempts, OthersKept(p), CheckReview(p)
  PROVE  EffectInv'
<1>1. pc[p] = "check" /\ Reviewing(p) /\ ~Reverifying(p) /\ UNCHANGED tables
  BY KindsDiffer DEF CheckReview
<1>2. PICK cur \in CurrentFact(FieldOf(p)) :
        IF DecisionExtends(plan[p].decision) /\ ReviewExtends(plan[p], cur)
        THEN Goto(p, IF plan[p].fact = Null THEN "insert_decision" ELSE "insert_fact")
        ELSE Finish(p, Answer("version_conflict", Null))
  BY DEF CheckReview, FieldOf
<1>3. CASE Finish(p, Answer("version_conflict", Null))
  BY <1>1, <1>3, Refusals, FinishSettles
<1>4. CASE /\ DecisionExtends(plan[p].decision) /\ ReviewExtends(plan[p], cur)
           /\ \E to \in {"insert_decision", "insert_fact"} : Goto(p, to)
  <2>1. PICK to \in {"insert_decision", "insert_fact"} : Goto(p, to)
    BY <1>4
  <2>2. /\ pc'[p] = to /\ cmd' = cmd /\ plan' = plan /\ lock' = lock /\ now' = now
    BY <2>1 DEF Goto, TypeInv, TypeOK
  <2>3. KeyHeld(p)'
    BY <1>1, <2>2 DEF EffectInv, AttemptInv, KeyHeld, InTransaction, RecordsFor, OthersKept, tables
  <2>4. LockHeld(p)'
    BY <1>1, <2>2 DEF EffectInv, AttemptInv, LockHeld, HoldingPlaces, FieldOf
  <2>5. DecisionReserved(p)'
    BY <2>2 DEF DecisionReserved, PendingDecisions
  <2>6. DecisionFounded(p)'
    <3>1. plan[p].decision \in DecisionRow
      BY <1>1, ReviewCarries DEF Working
    <3>2. \/ plan[p].decision.version = 1
          \/ \E e \in decisions : /\ e.candidate = plan[p].decision.candidate
                                 /\ e.version + 1 = plan[p].decision.version
      BY <1>4, <3>1 DEF DecisionExtends, LatestDecision, DecisionRow
    <3>3. QED BY <2>2, <3>2, <1>1 DEF DecisionFounded, tables
  <2>7. RejectionStands(p)'
    <3>1. CASE cmd[p].request.action = "reject"
      <4>1. \A r \in facts : r.field = FieldOf(p) => r.version <= cmd[p].request.expectedFact
        BY <1>1, <1>4, <3>1, CheckedRejection
      <4>2. cmd[p].request.expectedFact \in Nat /\ \A r \in facts : r.version \in Nat
        BY <1>1, ReviewCarries DEF Working, ReviewRequest, TypeInv, TypeOK, FactRow
      <4>3. QED BY <1>1, <2>2, <4>1, <4>2 DEF RejectionStands, FieldOf, tables
    <3>2. QED BY <2>2, <3>1 DEF RejectionStands
  <2>8. QED BY <1>1, <2>1, <2>3, <2>4, <2>5, <2>6, <2>7, GotoQuiet DEF Working
<1>5. QED BY <1>2, <1>3, <1>4

\* The row a reverification reads again is the one it decided on.
LEMMA CheckReverificationQuiet ==
  ASSUME TypeInv, HistoryInv, EffectInv, NEW p \in Attempts, OthersKept(p), CheckReverification(p)
  PROVE  EffectInv'
<1>1. pc[p] = "check" /\ Reverifying(p) /\ ~Reviewing(p) /\ UNCHANGED tables
  BY KindsDiffer DEF CheckReverification
<1>2. CASE Finish(p, Answer("version_conflict", Null))
  BY <1>1, <1>2, Refusals, FinishSettles
<1>3. ASSUME NEW cur \in CurrentFact(plan[p].fact.field), cur # Null,
             IdOf(cur) = plan[p].fact.supersedes,
             Intend(p, "insert_fact",
                    [fact |-> Reverified(cur, plan[p].fact.id, plan[p].fact.verifiedAt),
                     decision |-> Null])
      PROVE  EffectInv'
  <2>1. PICK row \in facts :
          plan[p] = [fact |-> Reverified(row, cmd[p].newFactId, now[p]), decision |-> Null]
    BY <1>1 DEF EffectInv, AttemptInv, PlanFits, ReverificationFits, Working
  <2>2. row \in FactRow /\ cur \in facts
    BY <1>3, CurrentType DEF TypeInv, TypeOK
  <2>3. /\ plan[p].fact.supersedes = row.id /\ plan[p].fact.id = cmd[p].newFactId
        /\ plan[p].fact.verifiedAt = now[p]
    BY <2>1, <2>2, ReverifiedFields
  <2>4. cur = row
    BY <1>3, <2>2, <2>3 DEF IdOf, HistoryInv, FactHistory, FactsClash
  <2>5. Intend(p, "insert_fact", plan[p])
    BY <1>3, <2>1, <2>3, <2>4
  <2>6. Goto(p, "insert_fact")
    BY <2>5 DEF Intend, Goto, TypeInv, TypeOK
  <2>7. pc'[p] = "insert_fact" /\ cmd' = cmd
    BY <2>6 DEF Goto, TypeInv, TypeOK
  <2>8. KeyHeld(p)'
    BY <1>1, <2>7 DEF EffectInv, AttemptInv, KeyHeld, InTransaction, RecordsFor, OthersKept, tables
  <2>9. LockHeld(p)' /\ DecisionReserved(p)' /\ DecisionFounded(p)' /\ RejectionStands(p)'
    BY <1>1, <2>7 DEF LockHeld, DecisionReserved, PendingDecisions, DecisionFounded,
       RejectionStands, Reviewing
  <2>10. QED BY <1>1, <2>6, <2>8, <2>9, GotoQuiet DEF Working
<1>4. QED BY <1>2, <1>3 DEF CheckReverification

LEMMA InsertFactQuiet ==
  ASSUME TypeInv, EffectInv, NEW p \in Attempts, OthersKept(p), NEW next, InsertFact(p, next),
         \/ Reviewing(p) /\ next = "insert_decision"
         \/ Reverifying(p) /\ next = "commit"
  PROVE  EffectInv'
<1>1. pc[p] = "insert_fact" /\ UNCHANGED tables /\ ~(Reviewing(p) /\ Reverifying(p))
  BY KindsDiffer DEF InsertFact
<1>2. CASE Finish(p, Answer("version_conflict", Null))
  BY <1>1, <1>2, Refusals, FinishSettles
<1>3. CASE Goto(p, next)
  <2>1. /\ pc'[p] = next /\ cmd' = cmd /\ plan' = plan /\ lock' = lock
    BY <1>3 DEF Goto, TypeInv, TypeOK
  <2>2. KeyHeld(p)'
    BY <1>1, <2>1 DEF EffectInv, AttemptInv, KeyHeld, InTransaction, RecordsFor, OthersKept, tables
  <2>3. LockHeld(p)' /\ DecisionFounded(p)' /\ RejectionStands(p)'
    BY <1>1, <2>1 DEF EffectInv, AttemptInv, LockHeld, HoldingPlaces, DecisionFounded, Checked,
       RejectionStands, FieldOf, Reviewing, tables
  <2>4. DecisionReserved(p)'
    <3>1. CASE Reviewing(p)
      BY <1>1, <2>1, <3>1 DEF DecisionReserved, PendingDecisions
    <3>2. CASE Reverifying(p)
      <4>1. ReverificationFits(p)
        BY <1>1, <3>2 DEF EffectInv, AttemptInv, PlanFits, Working
      <4>2. plan[p].decision = Null
        BY <4>1 DEF ReverificationFits
      <4>3. QED BY <2>1, <4>2 DEF DecisionReserved, PendingDecisions
    <3>3. QED BY <3>1, <3>2
  <2>5. QED BY <1>1, <1>3, <2>2, <2>3, <2>4, GotoQuiet DEF Working
<1>4. QED BY <1>2, <1>3 DEF InsertFact

LEMMA InsertDecisionQuiet ==
  ASSUME TypeInv, EffectInv, NEW p \in Attempts, OthersKept(p), InsertDecision(p)
  PROVE  EffectInv'
<1>1. pc[p] = "insert_decision" /\ Reviewing(p) /\ ~Reverifying(p) /\ UNCHANGED tables
  BY KindsDiffer DEF InsertDecision
<1>2. CASE Finish(p, Answer("version_conflict", Null))
  BY <1>1, <1>2, Refusals, FinishSettles
<1>3. CASE /\ Goto(p, "commit")
           /\ \A e \in decisions : ~DecisionsClash(e, plan[p].decision)
  <2>1. /\ pc'[p] = "commit" /\ cmd' = cmd /\ plan' = plan /\ lock' = lock
    BY <1>3 DEF Goto, TypeInv, TypeOK
  <2>2. KeyHeld(p)'
    BY <1>1, <2>1 DEF EffectInv, AttemptInv, KeyHeld, InTransaction, RecordsFor, OthersKept, tables
  <2>3. LockHeld(p)' /\ DecisionFounded(p)' /\ RejectionStands(p)'
    BY <1>1, <2>1 DEF EffectInv, AttemptInv, LockHeld, HoldingPlaces, DecisionFounded, Checked,
       RejectionStands, FieldOf, Reviewing, tables
  <2>4. DecisionReserved(p)'
    <3>1. PendingDecisions(p)' \subseteq {plan[p].decision}
      BY <2>1 DEF PendingDecisions
    <3>2. \A q \in Attempts \ {p} : PendingDecisions(q)' = PendingDecisions(q)
      BY DEF OthersKept, PendingDecisions
    <3>3. \A q \in Attempts \ {p} : \A d \in PendingDecisions(q) : ~DecisionsClash(d, plan[p].decision)
      BY DEF InsertDecision
    <3>4. QED BY <1>1, <1>3, <3>1, <3>2, <3>3 DEF DecisionReserved, DecisionsClash, tables
  <2>5. QED BY <1>1, <1>3, <2>2, <2>3, <2>4, GotoQuiet DEF Working
<1>4. QED BY <1>2, <1>3 DEF InsertDecision

-----------------------------------------------------------------------------
(* The commits.                                                            *)

\* The rows a review commits.
LEMMA ReviewRows ==
  ASSUME TypeInv, EffectInv, NEW p \in Attempts, Reviewing(p), pc[p] = "commit"
  PROVE  LET request == cmd[p].request
             d == plan[p].decision
             r == plan[p].fact
         IN  /\ PendingDecisions(p) = {d}
             /\ d.id = request.decisionId /\ d.candidate = request.candidate
             /\ d.version = request.expectedDecision + 1 /\ d.action = request.action
             /\ request.action = "reject" => d.factId = Null /\ PendingFacts(p) = {}
             /\ request.action # "reject" =>
                  /\ d.factId = request.factId /\ d.factId # Null /\ PendingFacts(p) = {r}
                  /\ r.id = request.factId /\ r.field = FieldOf(p)
                  /\ r.candidate = request.candidate /\ r.origin = "review"
                  /\ r.version = request.expectedFact + 1
<1> DEFINE request == cmd[p].request
<1>1. ReviewFits(p) /\ request \in ReviewRequest
  BY ReviewCarries DEF Working
<1>2. PICK cur \in facts \cup {Null} :
        /\ VersionOf(cur) = request.expectedFact
        /\ plan[p] = ReviewPlan(request, cur, now[p])
  BY <1>1 DEF ReviewFits
<1>3. /\ plan[p].decision = ReviewDecision(request, cur, now[p])
      /\ plan[p].fact = IF request.action = "reject" THEN Null ELSE ReviewedFact(request, cur, now[p])
  BY <1>2 DEF ReviewPlan
<1>4. request.factId # Null
  BY <1>1, NullAssumption DEF ReviewRequest
<1>5. PendingDecisions(p) = {plan[p].decision}
  BY <1>1 DEF PendingDecisions, ReviewFits
<1>6. /\ request.action = "reject" => PendingFacts(p) = {}
      /\ request.action # "reject" => PendingFacts(p) = {plan[p].fact}
  BY <1>1, <1>3 DEF PendingFacts, ReviewFits
<1>7. LET d == plan[p].decision IN
        /\ d.id = request.decisionId /\ d.candidate = request.candidate
        /\ d.version = request.expectedDecision + 1 /\ d.action = request.action
        /\ d.factId = IF request.action = "reject" THEN Null ELSE request.factId
  BY <1>3 DEF ReviewDecision
<1>8. request.action # "reject" =>
        LET r == plan[p].fact IN
        /\ r.id = request.factId /\ r.field = FieldOf(p)
        /\ r.candidate = request.candidate /\ r.origin = "review"
        /\ r.version = request.expectedFact + 1
  BY <1>2, <1>3 DEF ReviewedFact, FieldOf, CandidateField
<1>9. QED BY <1>4, <1>5, <1>6, <1>7, <1>8

\* The content a reverification copies and the time it sets.
LEMMA ReverifiedContent ==
  ASSUME NEW row \in FactRow, NEW id, NEW t
  PROVE  /\ Reverified(row, id, t).value = row.value
         /\ Reverified(row, id, t).candidate = row.candidate
         /\ Reverified(row, id, t).governance = row.governance
         /\ Reverified(row, id, t).origin = "reverification"
BY DEF Reverified, FactRow

\* The row a reverification commits.
LEMMA ReverificationRows ==
  ASSUME TypeInv, EffectInv, NEW p \in Attempts, Reverifying(p), pc[p] = "commit"
  PROVE  LET r == plan[p].fact IN
         /\ PendingDecisions(p) = {} /\ PendingFacts(p) = {r}
         /\ r.id = cmd[p].newFactId /\ r.origin = "reverification"
         /\ r.supersedes = cmd[p].request.factId
         /\ r.version = cmd[p].request.expectedVersion + 1
         /\ \E s \in facts : /\ s.id = r.supersedes /\ s.field = r.field /\ s.version + 1 = r.version
                            /\ s.value = r.value /\ s.candidate = r.candidate
                            /\ s.governance = r.governance
                            /\ r.expiresAt = r.verifiedAt + Window
                            /\ s.verifiedAt + Window <= r.verifiedAt + DueSoon
<1>1. ReverificationFits(p)
  BY DEF EffectInv, AttemptInv, PlanFits, Working
<1>2. PICK row \in facts :
        /\ row.field \in TimeSensitive /\ row.verifiedAt + Window <= now[p] + DueSoon
        /\ row.id = cmd[p].request.factId /\ row.version = cmd[p].request.expectedVersion
        /\ plan[p] = [fact |-> Reverified(row, cmd[p].newFactId, now[p]), decision |-> Null]
  BY <1>1 DEF ReverificationFits
<1>3. row \in FactRow /\ now[p] \in Nat /\ plan[p].fact # Null
  BY FreshnessAssumption DEF TypeInv, TypeOK, Begun, ReverificationPlanned
<1>4. PendingDecisions(p) = {} /\ PendingFacts(p) = {plan[p].fact}
  BY <1>2, <1>3 DEF PendingDecisions, PendingFacts
<1>5. plan[p].fact = Reverified(row, cmd[p].newFactId, now[p])
  BY <1>2
<1>6. LET r == plan[p].fact IN
      /\ r.id = cmd[p].newFactId /\ r.origin = "reverification"
      /\ r.supersedes = row.id /\ r.field = row.field /\ r.version = row.version + 1
      /\ r.value = row.value /\ r.candidate = row.candidate /\ r.governance = row.governance
      /\ r.verifiedAt = now[p] /\ r.expiresAt = ExpiresAt(row.field, now[p])
  BY <1>3, <1>5, ReverifiedFields, ReverifiedContent
<1>7. ExpiresAt(row.field, now[p]) = now[p] + Window
  BY <1>2 DEF ExpiresAt
<1>8. QED BY <1>2, <1>4, <1>6, <1>7

\* r is another version, the first one or the next to one of S.
Extends(r, S) ==
  /\ r.version \in Nat
  /\ \A s \in S : s.version \in Nat /\ s.version # r.version
  /\ r.version = 1 \/ \E s \in S : s.version + 1 = r.version

\* One more version after the n there are is version n + 1.
LEMMA NumberedGrows ==
  ASSUME NEW S, IsFiniteSet(S), Numbered(S), NEW r, Extends(r, S)
  PROVE  /\ r \notin S /\ r.version = Cardinality(S) + 1
         /\ Cardinality(S \cup {r}) = Cardinality(S) + 1
         /\ IsFiniteSet(S \cup {r}) /\ Numbered(S \cup {r})
<1> DEFINE n == Cardinality(S)
<1> USE DEF Extends
<1>1. r \notin S
  OBVIOUS
<1>2. n \in Nat /\ IsFiniteSet(S \cup {r}) /\ Cardinality(S \cup {r}) = n + 1
  BY <1>1, FS_CardinalityType, FS_AddElement
<1>3. \A s \in S : s.version \in 1 .. n
  BY DEF Numbered
<1>4. \A v \in 1 .. n : \E s \in S : s.version = v
  BY DEF Numbered
<1>5. r.version = n + 1
  <2>1. r.version \notin 1 .. n
    BY <1>4
  <2>2. r.version \in 1 .. n + 1
    BY <1>2, <1>3
  <2>3. QED BY <1>2, <2>1, <2>2
<1>6. {s.version : s \in S \cup {r}} = 1 .. n + 1
  <2>1. \A s \in S \cup {r} : s.version \in 1 .. n + 1
    BY <1>2, <1>3, <1>5
  <2>2. \A v \in 1 .. n + 1 : \E s \in S \cup {r} : s.version = v
    BY <1>2, <1>4, <1>5
  <2>3. QED BY <2>1, <2>2
<1>7. QED BY <1>1, <1>2, <1>5, <1>6 DEF Numbered

\* What both commits do to the other attempts and to p itself.
LEMMA CommitAttempts ==
  ASSUME TypeInv, HistoryInv, EffectInv, NEW p \in Attempts, OthersKept(p),
         NEW hash, NEW ref, Commit(p, hash, ref),
         \A r \in PendingFacts(p) : \/ r.origin = "reverification"
                                    \/ Reviewing(p) /\ r.field = FieldOf(p)
  PROVE  \A q \in Attempts : AttemptInv(q)'
<1> DEFINE rec == CompletedRecord(cmd[p], hash, ref)
<1>1. /\ pc[p] = "commit" /\ pc'[p] = "done" /\ facts' = facts \cup PendingFacts(p)
      /\ decisions' = decisions \cup PendingDecisions(p) /\ records' = records \cup {rec}
  BY DEF Commit, Finish, TypeInv, TypeOK
<1>2. AttemptInv(p)'
  BY <1>1 DEF AttemptInv, Unanswered, KeyHeld, InTransaction, PlanFits, Working, LockHeld,
     HoldingPlaces, DecisionReserved, PendingDecisions, DecisionFounded, Checked, RejectionStands
<1>3. ASSUME NEW q \in Attempts \ {p} PROVE AttemptInv(q)'
  <2>0. AttemptInv(q) /\ AttemptInv(p)
    BY DEF EffectInv
  <2>1. /\ pc'[q] = pc[q] /\ cmd'[q] = cmd[q] /\ now'[q] = now[q]
        /\ plan'[q] = plan[q] /\ reply'[q] = reply[q]
    BY DEF OthersKept
  <2>2. Unanswered(q)'
    BY <2>0, <2>1 DEF AttemptInv, Unanswered
  <2>3. PlanFits(q)'
    BY <1>1, <2>0, <2>1 DEF AttemptInv, PlanFits, ReviewFits, ReverificationFits, Reviewing,
       Reverifying, FieldOf
  <2>4. DecisionFounded(q)'
    BY <1>1, <2>0, <2>1 DEF AttemptInv, DecisionFounded, Reviewing
  <2>5. KeyHeld(q)'
    <3>1. CASE InTransaction(q)
      <4>1. InTransaction(p) /\ ~SameKey(cmd[p], cmd[q]) /\ SameKey(rec, cmd[p])
        BY <1>1, <2>0, <3>1 DEF AttemptInv, KeyHeld, InTransaction, SameKey, CompletedRecord
      <4>2. RecordsFor(cmd[q])' = {}
        BY <1>1, <2>0, <2>1, <3>1, <4>1 DEF AttemptInv, KeyHeld, RecordsFor, SameKey
      <4>3. QED BY <1>1, <2>0, <2>1, <3>1, <4>2 DEF AttemptInv, KeyHeld, InTransaction,
                   OthersKept, RecordsFor
    <3>2. QED BY <2>1, <3>1 DEF KeyHeld, InTransaction
  <2>6. LockHeld(q)'
    <3>1. CASE Reviewing(q) /\ pc[q] \in HoldingPlaces
      <4>1. FieldOf(q) \in Fields /\ lock[FieldOf(q)] = q
        BY <2>0, <3>1, ReviewCarries DEF AttemptInv, LockHeld, Working, HoldingPlaces
      <4>2. QED BY <2>1, <4>1 DEF LockHeld, FieldOf, OthersKept
    <3>2. QED BY <2>1, <3>1 DEF LockHeld, Reviewing
  <2>7. DecisionReserved(q)'
    <3>1. PendingDecisions(p)' = {} /\ \A r \in Attempts \ {p} : PendingDecisions(r)' = PendingDecisions(r)
      BY <1>1 DEF OthersKept, PendingDecisions
    <3>2. \A d \in PendingDecisions(q), e \in PendingDecisions(p) : ~DecisionsClash(d, e)
      BY <2>0 DEF AttemptInv, DecisionReserved
    <3>3. QED BY <1>1, <2>0, <3>1, <3>2 DEF AttemptInv, DecisionReserved
  <2>8. RejectionStands(q)'
    <3>1. CASE Reviewing(q) /\ pc[q] \in Checked
      <4>1. lock[FieldOf(q)] = q /\ (Reviewing(p) => lock[FieldOf(p)] = p)
        BY <1>1, <2>0, <3>1 DEF AttemptInv, LockHeld, HoldingPlaces, Checked
      <4>2. \A r \in PendingFacts(p) : r.field = FieldOf(q) => r.origin = "reverification"
        BY <4>1
      <4>3. QED BY <1>1, <2>0, <2>1, <4>2 DEF AttemptInv, RejectionStands, Reviewing, FieldOf
    <3>2. QED BY <2>1, <3>1 DEF RejectionStands, Reviewing
  <2>9. QED BY <2>2, <2>3, <2>4, <2>5, <2>6, <2>7, <2>8 DEF AttemptInv
<1>4. QED BY <1>2, <1>3

\* The rows a commit publishes are the next of their field and candidate.
LEMMA FactExtends ==
  ASSUME TypeInv, HistoryInv, NEW p \in Attempts, NEW r \in PendingFacts(p)
  PROVE  r \in FactRow /\ Extends(r, RowsOf(facts, r.field))
<1> DEFINE S == RowsOf(facts, r.field)
<1>1. r \in FactRow /\ Grounded(r, facts) /\ \A s \in facts : ~FactsClash(r, s)
  BY DEF PendingFacts, TypeInv, TypeOK, Plan, HistoryInv, PlansGrounded, PendingReserved
<1>2. \A s \in S : s.version \in Nat /\ s.version # r.version
  BY <1>1 DEF RowsOf, FactsClash, TypeInv, TypeOK, FactRow
<1>3. r.version = 1 \/ \E s \in S : s.version + 1 = r.version
  BY <1>1 DEF Grounded, RowsOf
<1>4. r.version \in Nat
  BY <1>1 DEF FactRow
<1>5. QED BY <1>1, <1>2, <1>3, <1>4 DEF Extends

LEMMA DecisionExtendsRows ==
  ASSUME TypeInv, EffectInv, NEW p \in Attempts, pc[p] = "commit",
         Reviewing(p) \/ Reverifying(p), NEW d \in PendingDecisions(p)
  PROVE  d \in DecisionRow /\ Extends(d, DecisionsOf(decisions, d.candidate))
<1> DEFINE S == DecisionsOf(decisions, d.candidate)
<1>1. Reviewing(p)
  BY ReverificationRows
<1>2. d \in DecisionRow /\ d = plan[p].decision /\ \A e \in decisions : ~DecisionsClash(d, e)
  BY DEF PendingDecisions, TypeInv, TypeOK, Plan, EffectInv, AttemptInv, DecisionReserved
<1>3. \A e \in S : e.version \in Nat /\ e.version # d.version
  BY <1>2 DEF DecisionsOf, DecisionsClash, TypeInv, TypeOK, DecisionRow
<1>4. d.version = 1 \/ \E e \in S : e.version + 1 = d.version
  BY <1>1, <1>2 DEF EffectInv, AttemptInv, DecisionFounded, Checked, DecisionsOf
<1>5. d.version \in Nat
  BY <1>2 DEF DecisionRow
<1>6. QED BY <1>2, <1>3, <1>4, <1>5 DEF Extends

LEMMA CommitCounted ==
  ASSUME TypeInv, HistoryInv, EffectInv, NEW p \in Attempts, pc[p] = "commit",
         Reviewing(p) \/ Reverifying(p),
         facts' = facts \cup PendingFacts(p), decisions' = decisions \cup PendingDecisions(p)
  PROVE  Counted'
<1>1. ASSUME NEW f \in Fields PROVE (IsFiniteSet(RowsOf(facts, f)) /\ Numbered(RowsOf(facts, f)))'
  <2> DEFINE S == RowsOf(facts, f)
  <2>1. IsFiniteSet(S) /\ Numbered(S)
    BY DEF EffectInv, Counted
  <2>2. CASE RowsOf(facts', f) = S
    BY <2>1, <2>2
  <2>3. ASSUME NEW r \in PendingFacts(p), r.field = f, RowsOf(facts', f) = S \cup {r}
        PROVE  IsFiniteSet(RowsOf(facts', f)) /\ Numbered(RowsOf(facts', f))
    <3>1. Extends(r, S)
      BY <2>3, FactExtends
    <3> HIDE DEF S
    <3>2. IsFiniteSet(S \cup {r}) /\ Numbered(S \cup {r})
      BY <2>1, <3>1, NumberedGrows
    <3>3. QED BY <2>3, <3>2
  <2>4. \/ RowsOf(facts', f) = S
        \/ \E r \in PendingFacts(p) : r.field = f /\ RowsOf(facts', f) = S \cup {r}
    BY DEF RowsOf, PendingFacts
  <2>5. QED BY <2>2, <2>3, <2>4
<1>2. ASSUME NEW k \in Candidates
      PROVE  (IsFiniteSet(DecisionsOf(decisions, k)) /\ Numbered(DecisionsOf(decisions, k)))'
  <2> DEFINE S == DecisionsOf(decisions, k)
  <2>1. IsFiniteSet(S) /\ Numbered(S)
    BY DEF EffectInv, Counted
  <2>2. CASE DecisionsOf(decisions', k) = S
    BY <2>1, <2>2
  <2>3. ASSUME NEW d \in PendingDecisions(p), d.candidate = k,
               DecisionsOf(decisions', k) = S \cup {d}
        PROVE  IsFiniteSet(DecisionsOf(decisions', k)) /\ Numbered(DecisionsOf(decisions', k))
    <3>1. Extends(d, S)
      BY <2>3, DecisionExtendsRows
    <3> HIDE DEF S
    <3>2. IsFiniteSet(S \cup {d}) /\ Numbered(S \cup {d})
      BY <2>1, <3>1, NumberedGrows
    <3>3. QED BY <2>3, <3>2
  <2>4. \/ DecisionsOf(decisions', k) = S
        \/ \E d \in PendingDecisions(p) : d.candidate = k /\ DecisionsOf(decisions', k) = S \cup {d}
    BY DEF DecisionsOf, PendingDecisions
  <2>5. QED BY <2>2, <2>3, <2>4
<1>3. QED BY <1>1, <1>2 DEF Counted

\* A row that is inserted was not there before.
LEMMA PendingIsNew ==
  ASSUME TypeInv, HistoryInv, EffectInv, NEW p \in Attempts
  PROVE  /\ \A r \in PendingFacts(p), s \in facts : r.id # s.id
         /\ \A r \in PendingFacts(p) : r \notin SeedFacts
         /\ \A d \in PendingDecisions(p), e \in decisions : d.id # e.id
BY DEF HistoryInv, PendingReserved, EffectInv, AttemptInv, DecisionReserved,
       FactsClash, DecisionsClash

\* An effect that is recorded stays in the tables.
LEMMA EffectedGrows ==
  ASSUME facts \subseteq facts', decisions \subseteq decisions', NEW r, Effected(r)
  PROVE  Effected(r)'
BY DEF Effected

\* The state after the commit of a command whose effect is in the tables.
LEMMA CommitOnce ==
  ASSUME TypeInv, HistoryInv, EffectInv, NEW p \in Attempts, OthersKept(p),
         NEW ref, Commit(p, cmd[p].request, ref)
  PROVE  /\ AnsweredOnce'
         /\ \A r \in records, s \in records' \ records : ~SameKey(r, s) /\ ~SameKey(s, r)
         /\ LET rec == CompletedRecord(cmd[p], cmd[p].request, ref) IN
            records' = records \cup {rec} /\ rec.scope = cmd[p].scope /\ rec.ref = ref
<1> DEFINE rec == CompletedRecord(cmd[p], cmd[p].request, ref)
<1>1. /\ records' = records \cup {rec} /\ pc[p] = "commit" /\ cmd' = cmd
      /\ reply'[p] = Answer("committed", ref)
  BY DEF Commit, Finish, TypeInv, TypeOK
<1>2. /\ SameKey(rec, cmd[p]) /\ rec.hash = cmd[p].request /\ rec.ref = ref
      /\ rec.scope = cmd[p].scope
  BY DEF CompletedRecord, SameKey
<1>3. \A r \in records : ~SameKey(r, cmd[p])
  BY <1>1 DEF EffectInv, AttemptInv, KeyHeld, InTransaction, RecordsFor
<1>4. \A r \in records : ~SameKey(r, rec) /\ ~SameKey(rec, r)
  BY <1>2, <1>3 DEF SameKey
<1>5. \A q \in Attempts \ {p} : reply[q].outcome = "committed" => ~SameKey(cmd[p], cmd[q])
  BY <1>3 DEF EffectInv, AnsweredOnce, SameKey
<1>6. \A q \in Attempts \ {p} : reply'[q] = reply[q]
  BY DEF OthersKept
<1>7. AnsweredOnce'
  <2> SUFFICES ASSUME NEW q \in Attempts, reply'[q].outcome \in {"committed", "replayed"}
               PROVE  /\ \E r \in records' : /\ SameKey(r, cmd[q]) /\ r.hash = cmd[q].request
                                            /\ r.ref = reply'[q].ref
                      /\ \A o \in Attempts \ {q} :
                           reply'[o].outcome = "committed" /\ reply'[q].outcome = "committed"
                             => ~SameKey(cmd[q], cmd[o])
    BY <1>1 DEF AnsweredOnce
  <2>1. CASE q = p
    BY <1>1, <1>2, <1>5, <1>6, <2>1 DEF Answer
  <2>2. CASE q # p
    <3>1. reply'[q] = reply[q]
      BY <1>6, <2>2
    <3>2. \E r \in records : SameKey(r, cmd[q]) /\ r.hash = cmd[q].request /\ r.ref = reply'[q].ref
      BY <3>1 DEF EffectInv, AnsweredOnce
    <3>3. ASSUME NEW o \in Attempts \ {q}, reply'[o].outcome = "committed",
                 reply'[q].outcome = "committed"
          PROVE  ~SameKey(cmd[q], cmd[o])
      <4>1. CASE o = p
        BY <1>5, <2>2, <3>1, <3>3, <4>1, SameKeySymmetric
      <4>2. CASE o # p
        BY <1>6, <3>1, <3>3, <4>2 DEF EffectInv, AnsweredOnce
      <4>3. QED BY <4>1, <4>2
    <3>4. QED BY <1>1, <3>2, <3>3
  <2>3. QED BY <2>1, <2>2
<1>8. QED BY <1>1, <1>2, <1>4, <1>7

LEMMA CommitReviewEffects ==
  ASSUME TypeInv, HistoryInv, EffectInv, NEW p \in Attempts, OthersKept(p), CommitReview(p)
  PROVE  DecisionHistory' /\ AllOrNothing' /\ ReverificationPreserves'
<1> DEFINE request == cmd[p].request
           d == plan[p].decision
           rec == CompletedRecord(cmd[p], request, request.decisionId)
           aud == [scope |-> cmd[p].scope, key |-> cmd[p].key, target |-> request.decisionId]
<1>1. /\ Reviewing(p) /\ pc[p] = "commit" /\ Commit(p, request, request.decisionId)
      /\ cmd[p].scope = ReviewScope
  BY DEF CommitReview, Commit, Reviewing, Reviews
<1>2. /\ facts' = facts \cup PendingFacts(p) /\ decisions' = decisions \cup {d}
      /\ audit' = audit \cup {aud} /\ PendingDecisions(p) = {d}
  BY <1>1, ReviewRows DEF Commit
<1>3. /\ d.id = request.decisionId /\ d.candidate = request.candidate
      /\ d.version = request.expectedDecision + 1 /\ d.action = request.action
      /\ request.action = "reject" => d.factId = Null /\ PendingFacts(p) = {}
      /\ request.action # "reject" =>
           \E r : /\ d.factId = request.factId /\ d.factId # Null /\ PendingFacts(p) = {r}
                  /\ r.id = request.factId /\ r.candidate = request.candidate
                  /\ r.origin = "review" /\ r.version = request.expectedFact + 1
  BY <1>1, ReviewRows
<1>4. /\ \A r \in PendingFacts(p) : r \notin SeedFacts
      /\ \A e \in decisions : d.id # e.id
  BY <1>2, PendingIsNew
<1>5. /\ records' = records \cup {rec} /\ rec.scope = ReviewScope /\ rec.ref = request.decisionId
      /\ \A r \in records, s \in records' \ records : ~SameKey(r, s) /\ ~SameKey(s, r)
  BY <1>1, CommitOnce
<1>6. SameKey(aud, rec) /\ rec.hash = request /\ aud.target = rec.ref
  BY DEF CompletedRecord, SameKey
<1> HIDE DEF rec, aud, d, request
<1>7. DecisionHistory'
  <2>1. \A e \in decisions : ~DecisionsClash(d, e) /\ ~DecisionsClash(e, d)
    BY <1>2 DEF EffectInv, AttemptInv, DecisionReserved, DecisionsClash
  <2>2. d.version = 1 \/ \E e \in decisions : e.candidate = d.candidate /\ e.version + 1 = d.version
    BY <1>1 DEF EffectInv, AttemptInv, DecisionFounded, Checked, d
  <2>3. \A e, f \in decisions' : DecisionsClash(e, f) => e = f
    BY <1>2, <2>1 DEF EffectInv, DecisionHistory
  <2>4. ASSUME NEW e \in decisions'
        PROVE  /\ e.version = 1 \/ \E f \in decisions' : f.candidate = e.candidate /\ f.version + 1 = e.version
               /\ (e.factId # Null) = (e.action # "reject")
               /\ e.factId # Null =>
                    \E r \in facts' \ SeedFacts : r.id = e.factId /\ r.candidate = e.candidate /\ r.origin = "review"
    <3>1. CASE e = d
      BY <1>2, <1>3, <1>4, <2>2, <3>1
    <3>2. CASE e \in decisions
      <4>1. /\ e.version = 1 \/ \E f \in decisions : f.candidate = e.candidate /\ f.version + 1 = e.version
            /\ (e.factId # Null) = (e.action # "reject")
            /\ e.factId # Null =>
                 \E r \in facts \ SeedFacts : r.id = e.factId /\ r.candidate = e.candidate /\ r.origin = "review"
        BY <3>2 DEF EffectInv, DecisionHistory
      <4>2. QED BY <1>2, <4>1
    <3>3. QED BY <1>2, <3>1, <3>2
  <2>5. ASSUME NEW r \in facts' \ SeedFacts, r.origin = "review"
        PROVE  \E e \in decisions' : e.factId = r.id /\ e.candidate = r.candidate
    <3>1. CASE r \in facts
      BY <1>2, <2>5, <3>1 DEF EffectInv, DecisionHistory
    <3>2. CASE r \in PendingFacts(p)
      BY <1>2, <1>3, <3>2
    <3>3. QED BY <1>2, <3>1, <3>2
  <2>6. QED BY <2>3, <2>4, <2>5 DEF DecisionHistory
<1>8. AllOrNothing'
  <2>1. ASSUME NEW r \in records' PROVE Effected(r)'
    <3>1. CASE r \in records
      BY <1>2, <3>1, EffectedGrows DEF EffectInv, AllOrNothing
    <3>2. CASE r = rec
      BY <1>2, <1>3, <1>5, <1>6, <3>2 DEF Effected, ReviewScope, ReverifyScope
    <3>3. QED BY <1>5, <3>1, <3>2
  <2>2. \A r \in records' : \E a \in audit' : SameKey(a, r) /\ a.target = r.ref
    BY <1>2, <1>5, <1>6 DEF EffectInv, AllOrNothing
  <2>3. \A r \in records : ~(r.scope = ReviewScope /\ r.ref = request.decisionId)
    BY <1>3, <1>4 DEF EffectInv, AllOrNothing, Effected, ReviewScope, ReverifyScope
  <2>4. \A r, s \in records' : SameKey(r, s) \/ (r.scope = s.scope /\ r.ref = s.ref) => r = s
    BY <1>5, <2>3 DEF EffectInv, AllOrNothing
  <2>5. \A a \in audit' : \E r \in records' : SameKey(a, r) /\ a.target = r.ref
    BY <1>2, <1>5, <1>6 DEF EffectInv, AllOrNothing
  <2>6. \A e \in decisions' : \E r \in records' : r.scope = ReviewScope /\ r.ref = e.id
    BY <1>2, <1>3, <1>5 DEF EffectInv, AllOrNothing
  <2>7. \A s \in facts' \ SeedFacts :
          s.origin = "reverification" => \E r \in records' : r.scope = ReverifyScope /\ r.ref = s.id
    BY <1>2, <1>3, <1>5 DEF EffectInv, AllOrNothing
  <2>8. QED BY <2>1, <2>2, <2>4, <2>5, <2>6, <2>7 DEF AllOrNothing
<1>9. ReverificationPreserves'
  BY <1>2, <1>3 DEF EffectInv, ReverificationPreserves
<1>10. QED BY <1>7, <1>8, <1>9

LEMMA CommitReverificationEffects ==
  ASSUME TypeInv, HistoryInv, EffectInv, NEW p \in Attempts, OthersKept(p), CommitReverification(p)
  PROVE  DecisionHistory' /\ AllOrNothing' /\ ReverificationPreserves'
<1> DEFINE request == cmd[p].request
           r == plan[p].fact
           rec == CompletedRecord(cmd[p], request, cmd[p].newFactId)
           aud == [scope |-> cmd[p].scope, key |-> cmd[p].key, target |-> cmd[p].newFactId]
<1>1. /\ Reverifying(p) /\ pc[p] = "commit" /\ Commit(p, request, cmd[p].newFactId)
      /\ cmd[p].scope = ReverifyScope
  BY DEF CommitReverification, Commit, Reverifying, Reverifies
<1>2. PendingDecisions(p) = {} /\ PendingFacts(p) = {r}
  BY <1>1, ReverificationRows
<1>3. /\ facts' = facts \cup {r} /\ decisions' = decisions /\ audit' = audit \cup {aud}
  BY <1>1, <1>2 DEF Commit
<1>4. /\ r.id = cmd[p].newFactId /\ r.origin = "reverification"
      /\ r.supersedes = request.factId /\ r.version = request.expectedVersion + 1
      /\ \E s \in facts : /\ s.id = r.supersedes
                         /\ s.value = r.value /\ s.candidate = r.candidate
                         /\ s.governance = r.governance
                         /\ r.expiresAt = r.verifiedAt + Window
                         /\ s.verifiedAt + Window <= r.verifiedAt + DueSoon
  BY <1>1, ReverificationRows
<1>5. r \notin SeedFacts /\ \A s \in facts : r.id # s.id
  BY <1>2, PendingIsNew
<1>6. /\ records' = records \cup {rec} /\ rec.scope = ReverifyScope /\ rec.ref = cmd[p].newFactId
      /\ \A s \in records, t \in records' \ records : ~SameKey(s, t) /\ ~SameKey(t, s)
  BY <1>1, CommitOnce
<1>7. SameKey(aud, rec) /\ rec.hash = request /\ aud.target = rec.ref
  BY DEF CompletedRecord, SameKey
<1> HIDE DEF rec, aud, r, request
<1>8. DecisionHistory'
  BY <1>3, <1>4 DEF EffectInv, DecisionHistory
<1>9. AllOrNothing'
  <2>1. ASSUME NEW s \in records' PROVE Effected(s)'
    <3>1. CASE s \in records
      BY <1>3, <3>1, EffectedGrows DEF EffectInv, AllOrNothing
    <3>2. CASE s = rec
      BY <1>3, <1>4, <1>6, <1>7, <3>2 DEF Effected
    <3>3. QED BY <1>6, <3>1, <3>2
  <2>2. \A s \in records' : \E a \in audit' : SameKey(a, s) /\ a.target = s.ref
    BY <1>3, <1>6, <1>7 DEF EffectInv, AllOrNothing
  <2>3. \A s \in records : ~(s.scope = ReverifyScope /\ s.ref = cmd[p].newFactId)
    BY <1>4, <1>5 DEF EffectInv, AllOrNothing, Effected
  <2>4. \A s, t \in records' : SameKey(s, t) \/ (s.scope = t.scope /\ s.ref = t.ref) => s = t
    BY <1>6, <2>3 DEF EffectInv, AllOrNothing
  <2>5. \A a \in audit' : \E s \in records' : SameKey(a, s) /\ a.target = s.ref
    BY <1>3, <1>6, <1>7 DEF EffectInv, AllOrNothing
  <2>6. \A e \in decisions' : \E s \in records' : s.scope = ReviewScope /\ s.ref = e.id
    BY <1>3, <1>6 DEF EffectInv, AllOrNothing
  <2>7. \A s \in facts' \ SeedFacts :
          s.origin = "reverification" => \E t \in records' : t.scope = ReverifyScope /\ t.ref = s.id
    BY <1>3, <1>4, <1>6 DEF EffectInv, AllOrNothing
  <2>8. QED BY <2>1, <2>2, <2>4, <2>5, <2>6, <2>7 DEF AllOrNothing
<1>10. ReverificationPreserves'
  BY <1>3, <1>4 DEF EffectInv, ReverificationPreserves
<1>11. QED BY <1>8, <1>9, <1>10

LEMMA CommitReviewStep ==
  ASSUME TypeInv, HistoryInv, EffectInv, NEW p \in Attempts, OthersKept(p), CommitReview(p)
  PROVE  EffectInv'
<1>1. /\ Reviewing(p) /\ pc[p] = "commit"
      /\ Commit(p, cmd[p].request, cmd[p].request.decisionId)
  BY DEF CommitReview, Commit
<1>2. \A r \in PendingFacts(p) : r.field = FieldOf(p)
  BY <1>1, ReviewRows
<1>3. \A q \in Attempts : AttemptInv(q)'
  BY <1>1, <1>2, CommitAttempts
<1>4. facts' = facts \cup PendingFacts(p) /\ decisions' = decisions \cup PendingDecisions(p)
  BY <1>1 DEF Commit
<1>5. Counted' /\ AnsweredOnce'
  BY <1>1, <1>4, CommitCounted, CommitOnce
<1>6. QED BY <1>3, <1>4, <1>5, CommitReviewEffects DEF EffectInv

LEMMA CommitReverificationStep ==
  ASSUME TypeInv, HistoryInv, EffectInv, NEW p \in Attempts, OthersKept(p), CommitReverification(p)
  PROVE  EffectInv'
<1>1. /\ Reverifying(p) /\ pc[p] = "commit"
      /\ Commit(p, cmd[p].request, cmd[p].newFactId)
  BY DEF CommitReverification, Commit
<1>2. \A r \in PendingFacts(p) : r.origin = "reverification"
  BY <1>1, ReverificationRows
<1>3. \A q \in Attempts : AttemptInv(q)'
  BY <1>1, <1>2, CommitAttempts
<1>4. facts' = facts \cup PendingFacts(p) /\ decisions' = decisions \cup PendingDecisions(p)
  BY <1>1 DEF Commit
<1>5. Counted' /\ AnsweredOnce'
  BY <1>1, <1>4, CommitCounted, CommitOnce
<1>6. QED BY <1>3, <1>4, <1>5, CommitReverificationEffects DEF EffectInv

LEMMA InitEffects == Init => EffectInv
<1> SUFFICES ASSUME Init PROVE EffectInv
  OBVIOUS
<1> USE DEF Init, StoreInit
<1>1. \A p \in Attempts : AttemptInv(p)
  BY DEF AttemptInv, Unanswered, KeyHeld, InTransaction, PlanFits, Reviewing, Reverifying,
     LockHeld, DecisionReserved, PendingDecisions, DecisionFounded, RejectionStands
<1>2. Counted
  <2>1. \A f \in Fields : IsFiniteSet(RowsOf(facts, f)) /\ Numbered(RowsOf(facts, f))
    BY SeedAssumption
  <2>2. ASSUME NEW k \in Candidates
        PROVE  IsFiniteSet(DecisionsOf(decisions, k)) /\ Numbered(DecisionsOf(decisions, k))
    <3>1. DecisionsOf(decisions, k) = {}
      BY DEF DecisionsOf
    <3>2. IsFiniteSet({}) /\ Cardinality({}) = 0
      BY FS_EmptySet
    <3>3. QED BY <3>1, <3>2 DEF Numbered
  <2>3. QED BY <2>1, <2>2 DEF Counted
<1>3. DecisionHistory /\ AllOrNothing /\ ReverificationPreserves /\ AnsweredOnce
  BY DEF DecisionHistory, AllOrNothing, ReverificationPreserves, AnsweredOnce, NoReply
<1>4. QED BY <1>1, <1>2, <1>3 DEF EffectInv

LEMMA EffectStep == TypeInv /\ HistoryInv /\ EffectInv /\ [Next]_vars => EffectInv'
<1> SUFFICES ASSUME TypeInv, HistoryInv, EffectInv, [Next]_vars PROVE EffectInv'
  OBVIOUS
<1>1. ASSUME NEW p \in Attempts, AttemptStep(p) \/ Crash(p) PROVE EffectInv'
  <2>0. OthersKept(p)
    BY <1>1, StepKeepsOthers
  <2>1. CASE ReviewStep(p)
    <3>1. CASE StartReview(p)
      BY <2>0, <3>1, StartReviewQuiet
    <3>2. CASE DecideReview(p)
      BY <2>0, <3>2, DecideReviewQuiet
    <3>3. CASE ClaimReview(p)
      BY <2>0, <3>3, ClaimQuiet DEF ClaimReview
    <3>4. CASE LockReviewedField(p)
      BY <2>0, <3>4, LockQuiet
    <3>5. CASE CheckReview(p)
      BY <2>0, <3>5, CheckReviewQuiet
    <3>6. CASE InsertReviewedFact(p)
      BY <2>0, <3>6, InsertFactQuiet DEF InsertReviewedFact
    <3>7. CASE InsertDecision(p)
      BY <2>0, <3>7, InsertDecisionQuiet
    <3>8. CASE CommitReview(p)
      BY <2>0, <3>8, CommitReviewStep
    <3>9. QED
      BY <2>1, <3>1, <3>2, <3>3, <3>4, <3>5, <3>6, <3>7, <3>8 DEF ReviewStep, ContinueReview
  <2>2. CASE ReverificationStep(p)
    <3>1. CASE StartReverification(p)
      BY <2>0, <3>1, StartReverificationQuiet
    <3>2. CASE DecideReverification(p)
      BY <2>0, <3>2, DecideReverificationQuiet
    <3>3. CASE ClaimReverification(p)
      BY <2>0, <3>3, ClaimQuiet DEF ClaimReverification
    <3>4. CASE CheckReverification(p)
      BY <2>0, <3>4, CheckReverificationQuiet
    <3>5. CASE InsertReverifiedFact(p)
      BY <2>0, <3>5, InsertFactQuiet DEF InsertReverifiedFact
    <3>6. CASE CommitReverification(p)
      BY <2>0, <3>6, CommitReverificationStep
    <3>7. QED
      BY <2>2, <3>1, <3>2, <3>3, <3>4, <3>5, <3>6 DEF ReverificationStep, ContinueReverification
  <2>3. CASE Crash(p)
    BY <2>0, <2>3, Refusals, FinishSettles DEF Crash
  <2>4. QED BY <1>1, <2>1, <2>2, <2>3 DEF AttemptStep
<1>2. CASE UNCHANGED vars
  <2>1. \A p \in Attempts : AttemptInv(p)'
    BY <1>2 DEF vars, EffectInv, AttemptInv, Unanswered, KeyHeld, InTransaction, RecordsFor,
       PlanFits, ReviewFits, ReverificationFits, Reviewing, Reverifying, FieldOf, LockHeld,
       DecisionReserved, PendingDecisions, DecisionFounded, RejectionStands
  <2>2. (SeedFacts \subseteq facts)' /\ Counted'
    BY <1>2 DEF vars, EffectInv, Counted
  <2>3. DecisionHistory' /\ AllOrNothing' /\ ReverificationPreserves' /\ AnsweredOnce'
    BY <1>2 DEF vars, EffectInv, DecisionHistory, AllOrNothing, Effected,
       ReverificationPreserves, AnsweredOnce
  <2>4. QED BY <2>1, <2>2, <2>3 DEF EffectInv
<1>3. QED BY <1>1, <1>2 DEF Next, Quiescent

LEMMA EffectInvariance == Spec => []EffectInv
BY TypeInvariance, HistoryInvariance, InitEffects, EffectStep, PTL DEF Spec

\* A candidate's decisions are a gap-free history, and an approval and its fact
\* version exist together or not at all.
THEOREM DecisionsCorrect == Spec => []DecisionHistory
<1>1. EffectInv => DecisionHistory
  BY DEF EffectInv
<1>2. QED BY <1>1, EffectInvariance, PTL

\* A command leaves all of its rows or none, whatever crashes and whoever races.
THEOREM EffectsAtomic == Spec => []AllOrNothing
<1>1. EffectInv => AllOrNothing
  BY DEF EffectInv
<1>2. QED BY <1>1, EffectInvariance, PTL

\* However often a command is retried, it takes effect once, and every
\* success that is told is that effect, for the request that was sent.
THEOREM AnswersCorrect == Spec => []AnsweredOnce
<1>1. EffectInv => AnsweredOnce
  BY DEF EffectInv
<1>2. QED BY <1>1, EffectInvariance, PTL

\* A reverification, which takes no lock, changes nothing but the time a fact
\* was verified at.
THEOREM ContentPreserved == Spec => []ReverificationPreserves
<1>1. EffectInv => ReverificationPreserves
  BY DEF EffectInv
<1>2. QED BY <1>1, EffectInvariance, PTL

-----------------------------------------------------------------------------
(* Waiting.  Every wait leads to an attempt at a later statement.          *)

\* Only a review is ever at a statement that a reverification does not have.
PlacesFit == \A p \in Attempts : pc[p] \in {"lock", "insert_decision"} => Reviewing(p)

\* Where the attempts may be that one at this place waits for.
Ahead(place) ==
  CASE place = "claim" -> {"lock", "check", "insert_fact", "insert_decision", "commit"}
    [] place = "lock" -> {"check", "insert_fact", "insert_decision", "commit"}
    [] place = "insert_fact" -> {"insert_decision", "commit"}
    [] place = "insert_decision" -> {"commit"}
    [] OTHER -> {}

LEMMA PlacesStep ==
  ASSUME TypeInv, PlacesFit, NEW p \in Attempts, AttemptStep(p) \/ Crash(p)
  PROVE  PlacesFit'
<1>0. OthersKept(p) /\ pc \in [Attempts -> Places] /\ cmd \in [Attempts -> Commands \cup {Null}]
  BY StepKeepsOthers DEF TypeInv, TypeOK
<1>1. \A q \in Attempts \ {p} : pc'[q] \in {"lock", "insert_decision"} => Reviewing(q)'
  BY <1>0 DEF PlacesFit, OthersKept, Reviewing
<1>2. pc'[p] \in {"lock", "insert_decision"} => Reviewing(p)'
  <2>1. CASE ReviewStep(p)
    <3>1. CASE StartReview(p)
      BY <1>0, <3>1 DEF StartReview, Start
    <3>2. CASE ContinueReview(p)
      BY <1>0, <3>2 DEF ContinueReview, DecideReview, ClaimReview, Claim, LockReviewedField,
         CheckReview, InsertReviewedFact, InsertFact, InsertDecision, CommitReview, Commit,
         Goto, Intend, Finish, Reviewing
    <3>3. QED BY <2>1, <3>1, <3>2 DEF ReviewStep
  <2>2. CASE ReverificationStep(p)
    BY <1>0, <2>2 DEF ReverificationStep, ContinueReverification, StartReverification, Start,
       DecideReverification, ClaimReverification, Claim, CheckReverification,
       InsertReverifiedFact, InsertFact, CommitReverification, Commit, Goto, Intend, Finish
  <2>3. CASE Crash(p)
    BY <1>0, <2>3 DEF Crash, Finish
  <2>4. QED BY <2>1, <2>2, <2>3 DEF AttemptStep
<1>3. QED BY <1>1, <1>2 DEF PlacesFit

LEMMA PlacesInvariance == Spec => []PlacesFit
<1>1. Init => PlacesFit
  BY DEF Init, StoreInit, PlacesFit
<1>2. TypeInv /\ PlacesFit /\ [Next]_vars => PlacesFit'
  <2>1. UNCHANGED vars /\ PlacesFit => PlacesFit'
    BY DEF vars, PlacesFit, Reviewing
  <2>2. QED BY <2>1, PlacesStep DEF Next, Quiescent
<1>3. QED BY <1>1, <1>2, TypeInvariance, PTL DEF Spec

LEMMA WaitsLeadForward ==
  ASSUME TypeInv, EffectInv, PlacesFit, NEW p \in Attempts, NEW q \in Attempts, Blocks(q, p)
  PROVE  pc[q] \in Ahead(pc[p])
<1>1. CASE pc[p] = "claim" /\ InTransaction(q)
  BY <1>1 DEF Ahead, InTransaction
<1>2. CASE pc[p] = "lock" /\ lock[CandidateField(cmd[p].request.candidate)] = q
  <2>1. FieldOf(p) \in Fields /\ lock[FieldOf(p)] = q
    BY <1>2, ReviewCarries DEF PlacesFit, Working, FieldOf
  <2>2. pc[q] \in HoldingPlaces
    BY <2>1, NullAssumption DEF TypeInv, TypeOK
  <2>3. QED BY <1>2, <2>2 DEF Ahead, HoldingPlaces
<1>3. CASE pc[p] = "insert_fact" /\ PendingFacts(q) # {}
  BY <1>3 DEF Ahead, PendingFacts
<1>4. CASE pc[p] = "insert_decision" /\ PendingDecisions(q) # {}
  BY <1>4 DEF Ahead, PendingDecisions
<1>5. QED BY <1>1, <1>2, <1>3, <1>4 DEF Blocks

\* While any attempt is in progress, one is in progress that waits for nobody:
\* the one that has come furthest.
THEOREM NoWaitCycle == Spec => []NeverAllWait
<1>1. TypeInv /\ EffectInv /\ PlacesFit => NeverAllWait
  <2> SUFFICES ASSUME TypeInv, EffectInv, PlacesFit, NEW a \in Attempts, InProgress(a),
                      \A p \in Attempts : InProgress(p) => \E q \in Attempts : Blocks(q, p)
               PROVE  FALSE
    BY DEF NeverAllWait
  <2>1. \A p \in Attempts : InProgress(p) => \E q \in Attempts : pc[q] \in Ahead(pc[p])
    BY WaitsLeadForward
  <2>2. \A p \in Attempts : pc[p] # "commit"
    BY <2>1 DEF InProgress, Ahead
  <2>3. \A p \in Attempts : pc[p] # "insert_decision"
    BY <2>1, <2>2 DEF InProgress, Ahead
  <2>4. \A p \in Attempts : pc[p] # "insert_fact"
    BY <2>1, <2>2, <2>3 DEF InProgress, Ahead
  <2>5. \A p \in Attempts : pc[p] # "check"
    BY <2>1 DEF InProgress, Ahead
  <2>6. \A p \in Attempts : pc[p] # "lock"
    BY <2>1, <2>2, <2>3, <2>4, <2>5 DEF InProgress, Ahead
  <2>7. \A p \in Attempts : pc[p] # "claim"
    BY <2>1, <2>2, <2>3, <2>4, <2>5, <2>6 DEF InProgress, Ahead
  <2>8. pc[a] = "decide"
    BY <2>2, <2>3, <2>4, <2>5, <2>6, <2>7 DEF InProgress, TypeInv, TypeOK, Places
  <2>9. QED BY <2>1, <2>8 DEF InProgress, Ahead
<1>2. QED BY <1>1, TypeInvariance, EffectInvariance, PlacesInvariance, PTL

-----------------------------------------------------------------------------
(* The ledger's view of the rows.                                          *)

\* The rows of one field, and the decisions of one candidate, by version.
FieldLog(S) ==
  [v \in 1 .. Cardinality(S) |-> {Entry(r) : r \in {s \in S : s.version = v}}]
DecisionLog(S) ==
  [v \in 1 .. Cardinality(S) |-> {Judgement(d) : d \in {e \in S : e.version = v}}]

Applied == {[key |-> <<r.scope, r.key>>, request |-> r.hash, ref |-> r.ref] : r \in records}
Answered == [p \in Attempts |-> Told(p)]

\* The next version of the rows is the log's next entry.
LEMMA FieldLogAppends ==
  ASSUME NEW S, IsFiniteSet(S), Numbered(S), NEW r, Extends(r, S)
  PROVE  /\ Len(FieldLog(S)) = r.version - 1
         /\ FieldLog(S \cup {r}) = Append(FieldLog(S), {Entry(r)})
<1> DEFINE n == Cardinality(S)
           T == SUBSET {Entry(s) : s \in S \cup {r}}
           log == FieldLog(S)
           longer == FieldLog(S \cup {r})
<1>1. n \in Nat /\ r.version = n + 1 /\ Cardinality(S \cup {r}) = n + 1
  BY NumberedGrows, FS_CardinalityType
<1>2. log \in [1 .. n -> T]
  BY DEF FieldLog
<1>3. longer \in [1 .. n + 1 -> T]
  BY <1>1 DEF FieldLog
<1>4. ASSUME NEW v \in 1 .. n PROVE longer[v] = log[v]
  <2>1. v # r.version /\ v \in 1 .. n + 1
    BY <1>1
  <2>2. {s \in S \cup {r} : s.version = v} = {s \in S : s.version = v}
    BY <2>1
  <2>3. QED BY <1>1, <2>1, <2>2 DEF FieldLog
<1>5. longer[n + 1] = {Entry(r)} /\ {Entry(r)} \in T
  <2>1. {s \in S \cup {r} : s.version = n + 1} = {r}
    BY <1>1 DEF Extends
  <2>2. n + 1 \in 1 .. n + 1
    BY <1>1
  <2>3. QED BY <1>1, <2>1, <2>2 DEF FieldLog
<1> HIDE DEF n, T, log, longer
<1>6. Len(log) = n
  BY <1>1, <1>2
<1>7. longer = Append(log, {Entry(r)})
  BY <1>1, <1>2, <1>3, <1>4, <1>5
<1>8. n = r.version - 1
  BY <1>1
<1>9. QED BY <1>6, <1>7, <1>8 DEF log, longer

LEMMA DecisionLogAppends ==
  ASSUME NEW S, IsFiniteSet(S), Numbered(S), NEW d, Extends(d, S)
  PROVE  /\ Len(DecisionLog(S)) = d.version - 1
         /\ DecisionLog(S \cup {d}) = Append(DecisionLog(S), {Judgement(d)})
<1> DEFINE n == Cardinality(S)
           T == SUBSET {Judgement(e) : e \in S \cup {d}}
           log == DecisionLog(S)
           longer == DecisionLog(S \cup {d})
<1>1. n \in Nat /\ d.version = n + 1 /\ Cardinality(S \cup {d}) = n + 1
  BY NumberedGrows, FS_CardinalityType
<1>2. log \in [1 .. n -> T]
  BY DEF DecisionLog
<1>3. longer \in [1 .. n + 1 -> T]
  BY <1>1 DEF DecisionLog
<1>4. ASSUME NEW v \in 1 .. n PROVE longer[v] = log[v]
  <2>1. v # d.version /\ v \in 1 .. n + 1
    BY <1>1
  <2>2. {e \in S \cup {d} : e.version = v} = {e \in S : e.version = v}
    BY <2>1
  <2>3. QED BY <1>1, <2>1, <2>2 DEF DecisionLog
<1>5. longer[n + 1] = {Judgement(d)} /\ {Judgement(d)} \in T
  <2>1. {e \in S \cup {d} : e.version = n + 1} = {d}
    BY <1>1 DEF Extends
  <2>2. n + 1 \in 1 .. n + 1
    BY <1>1
  <2>3. QED BY <1>1, <2>1, <2>2 DEF DecisionLog
<1> HIDE DEF n, T, log, longer
<1>6. Len(log) = n
  BY <1>1, <1>2
<1>7. longer = Append(log, {Judgement(d)})
  BY <1>1, <1>2, <1>3, <1>4, <1>5
<1>8. n = d.version - 1
  BY <1>1
<1>9. QED BY <1>6, <1>7, <1>8 DEF log, longer

\* A new fact extends the history of its field and no other.
LEMMA HistoryExtends ==
  ASSUME TypeInv, HistoryInv, EffectInv, NEW p \in Attempts, NEW r, PendingFacts(p) = {r}
  PROVE  /\ r.field \in Fields
         /\ Len(HistoryOf(facts)[r.field]) = r.version - 1
         /\ HistoryOf(facts \cup {r}) =
              [HistoryOf(facts) EXCEPT ![r.field] = Append(@, {Entry(r)})]
<1> DEFINE f == r.field
<1>1. r \in FactRow /\ Extends(r, RowsOf(facts, f))
  BY FactExtends
<1>2. f \in Fields
  BY <1>1 DEF FactRow
<1>3. /\ Len(FieldLog(RowsOf(facts, f))) = r.version - 1
      /\ FieldLog(RowsOf(facts, f) \cup {r}) = Append(FieldLog(RowsOf(facts, f)), {Entry(r)})
  BY <1>1, <1>2, FieldLogAppends DEF EffectInv, Counted
<1>4. \A g \in Fields : RowsOf(facts \cup {r}, g) =
        IF g = f THEN RowsOf(facts, f) \cup {r} ELSE RowsOf(facts, g)
  BY DEF RowsOf
<1>5. \A rows : HistoryOf(rows) = [g \in Fields |-> FieldLog(RowsOf(rows, g))]
  BY DEF HistoryOf, FieldLog
<1> HIDE DEF f
<1>6. HistoryOf(facts \cup {r}) =
        [HistoryOf(facts) EXCEPT ![f] = Append(@, {Entry(r)})]
  BY <1>2, <1>3, <1>4, <1>5
<1>7. QED BY <1>2, <1>3, <1>5, <1>6 DEF f

LEMMA JudgementsExtend ==
  ASSUME TypeInv, HistoryInv, EffectInv, NEW p \in Attempts, pc[p] = "commit", Reviewing(p),
         NEW d, PendingDecisions(p) = {d}
  PROVE  /\ d.candidate \in Candidates
         /\ Len(JudgementsOf(decisions)[d.candidate]) = d.version - 1
         /\ JudgementsOf(decisions \cup {d}) =
              [JudgementsOf(decisions) EXCEPT ![d.candidate] = Append(@, {Judgement(d)})]
<1> DEFINE k == d.candidate
<1>1. d \in DecisionRow /\ Extends(d, DecisionsOf(decisions, k))
  BY DecisionExtendsRows
<1>2. k \in Candidates
  BY <1>1 DEF DecisionRow
<1>3. /\ Len(DecisionLog(DecisionsOf(decisions, k))) = d.version - 1
      /\ DecisionLog(DecisionsOf(decisions, k) \cup {d})
           = Append(DecisionLog(DecisionsOf(decisions, k)), {Judgement(d)})
  BY <1>1, <1>2, DecisionLogAppends DEF EffectInv, Counted
<1>4. \A j \in Candidates : DecisionsOf(decisions \cup {d}, j) =
        IF j = k THEN DecisionsOf(decisions, k) \cup {d} ELSE DecisionsOf(decisions, j)
  BY DEF DecisionsOf
<1>5. \A rows : JudgementsOf(rows) = [j \in Candidates |-> DecisionLog(DecisionsOf(rows, j))]
  BY DEF JudgementsOf, DecisionLog
<1> HIDE DEF k
<1>6. JudgementsOf(decisions \cup {d}) =
        [JudgementsOf(decisions) EXCEPT ![k] = Append(@, {Judgement(d)})]
  BY <1>2, <1>3, <1>4, <1>5
<1>7. QED BY <1>2, <1>3, <1>5, <1>6 DEF k

-----------------------------------------------------------------------------
(* Steps that change no table.                                             *)

\* What p is told changes, and nothing of what the others were told.
LEMMA TellsOne ==
  ASSUME NEW p \in Attempts, OthersKept(p)
  PROVE  Answered' = [Answered EXCEPT ![p] = Told(p)']
<1>1. \A q \in Attempts \ {p} : Told(q)' = Told(q)
  BY DEF OthersKept, Told, Use
<1>2. QED BY <1>1 DEF Answered

LEMMA NotYetTold ==
  ASSUME EffectInv, NEW p \in Attempts, pc[p] # "done"
  PROVE  Answered[p] = {}
<1>1. reply[p] = NoReply
  BY DEF EffectInv, AttemptInv, Unanswered
<1>2. QED BY <1>1 DEF Answered, Told, NoReply

\* A step that changes no table refuses, replays, or is not seen.
LEMMA QuietRefines ==
  ASSUME EffectInv, EffectInv', NEW p \in Attempts, OthersKept(p), UNCHANGED tables,
         pc[p] # "done"
  PROVE  Ledger!Refuse(p) \/ Ledger!Replay(p) \/ UNCHANGED Ledger!ledgerVars
<1>1. /\ Answered' = [Answered EXCEPT ![p] = Told(p)'] /\ Answered[p] = {}
      /\ UNCHANGED <<facts, decisions, records>>
  BY TellsOne, NotYetTold DEF tables
<1>2. HistoryOf(facts)' = HistoryOf(facts) /\ JudgementsOf(decisions)' = JudgementsOf(decisions)
      /\ Applied' = Applied
  BY <1>1 DEF Applied
<1>3. CASE reply'[p].outcome = "none"
  <2>1. Told(p)' = {}
    BY <1>3 DEF Told
  <2>2. Answered' = Answered
    BY <1>1, <2>1 DEF Answered
  <2>3. QED BY <1>2, <2>2 DEF Ledger!ledgerVars, Applied, Answered
<1>4. CASE reply'[p].outcome \in {"committed", "replayed"}
  <2>1. PICK r \in records :
          SameKey(r, cmd'[p]) /\ r.hash = cmd'[p].request /\ r.ref = reply'[p].ref
    BY <1>1, <1>4 DEF EffectInv, AnsweredOnce
  <2>2. Told(p)' = {[key |-> <<r.scope, r.key>>, request |-> r.hash, ref |-> r.ref]}
    BY <1>4, <2>1 DEF Told, Use, SameKey
  <2>3. \E u \in Applied : Told(p)' = {u}
    BY <2>2 DEF Applied
  <2>4. QED BY <1>1, <1>2, <2>3 DEF Ledger!Replay, Applied, Answered
<1>5. CASE reply'[p].outcome \notin {"none", "committed", "replayed"}
  <2>1. Told(p)' = {Ledger!Refusal}
    BY <1>5 DEF Told, Ledger!Refusal
  <2>2. QED BY <1>1, <1>2, <2>1 DEF Ledger!Refuse, Applied, Answered
<1>6. QED BY <1>3, <1>4, <1>5

-----------------------------------------------------------------------------
(* The commits.                                                            *)

\* A commit takes the effect of its key, and is told it.
LEMMA CommitApplies ==
  ASSUME TypeInv, HistoryInv, EffectInv, NEW p \in Attempts, OthersKept(p),
         NEW ref, Commit(p, cmd[p].request, ref)
  PROVE  LET u == Use(cmd[p], ref) IN
         /\ Answered[p] = {} /\ Answered' = [Answered EXCEPT ![p] = {u}]
         /\ \A w \in Applied : w.key # u.key
         /\ Applied' = Applied \cup {u}
<1> DEFINE rec == CompletedRecord(cmd[p], cmd[p].request, ref)
           u == Use(cmd[p], ref)
<1>1. /\ records' = records \cup {rec} /\ pc[p] = "commit" /\ cmd' = cmd
      /\ reply'[p] = Answer("committed", ref)
  BY DEF Commit, Finish, TypeInv, TypeOK
<1>2. u = [key |-> <<rec.scope, rec.key>>, request |-> rec.hash, ref |-> rec.ref]
  BY DEF Use, CompletedRecord
<1>3. Applied' = Applied \cup {u}
  BY <1>1, <1>2 DEF Applied
<1>4. \A r \in records : ~SameKey(r, cmd[p])
  BY <1>1 DEF EffectInv, AttemptInv, KeyHeld, InTransaction, RecordsFor
<1>5. \A w \in Applied : w.key # u.key
  BY <1>4 DEF Applied, Use, SameKey
<1>6. Told(p)' = {u}
  BY <1>1 DEF Told, Answer
<1>7. QED BY <1>1, <1>3, <1>5, <1>6, TellsOne, NotYetTold

LEMMA CommitIsApply ==
  ASSUME TypeInv, HistoryInv, EffectInv, NEW p \in Attempts, OthersKept(p),
         NEW ref, Commit(p, cmd[p].request, ref), NEW c, c.use = Use(cmd[p], ref)
  PROVE  Ledger!Apply(p, c)
BY CommitApplies DEF Ledger!Apply, Ledger!Unused, Applied, Answered

\* The row a review commits, as the ledger's command has it.
LEMMA ReviewEntries ==
  ASSUME TypeInv, EffectInv, NEW p \in Attempts, Reviewing(p), pc[p] = "commit"
  PROVE  LET request == cmd[p].request
             c == ReviewEntry(cmd[p])
         IN  /\ request.candidate \in Candidates /\ request.expectedFact \in Nat
             /\ c.judgement = Judgement(plan[p].decision)
             /\ request.action # "reject" => c.entry = Entry(plan[p].fact) /\ c \in Approvals
             /\ request.action = "reject" => c \in Rejections
<1> DEFINE request == cmd[p].request
           c == ReviewEntry(cmd[p])
<1>1. ReviewFits(p) /\ request \in ReviewRequest
  BY ReviewCarries DEF Working
<1>2. PICK cur : plan[p] = ReviewPlan(request, cur, now[p])
  BY <1>1 DEF ReviewFits
<1>3. /\ plan[p].decision = ReviewDecision(request, cur, now[p])
      /\ request.action # "reject" => plan[p].fact = ReviewedFact(request, cur, now[p])
  BY <1>2 DEF ReviewPlan
<1>4. /\ Judgement(ReviewDecision(request, Null, 0)) = Judgement(ReviewDecision(request, cur, now[p]))
      /\ Entry(ReviewedFact(request, Null, 0)) = Entry(ReviewedFact(request, cur, now[p]))
  BY DEF Judgement, ReviewDecision, Entry, ReviewedFact
<1>5. c.judgement = Judgement(ReviewDecision(request, Null, 0))
      /\ c.entry = Entry(ReviewedFact(request, Null, 0))
  BY DEF ReviewEntry
<1>6. cmd[p] \in Commands
  BY DEF TypeInv, Begun
<1>7. cmd[p] \in KnownReviews
  BY <1>1, <1>6 DEF KnownReviews, Reviewing, ReviewFits
<1>8. /\ request.action # "reject" => c \in Approvals
      /\ request.action = "reject" => c \in Rejections
  BY <1>7 DEF Approvals, Rejections
<1>9. request.candidate \in Candidates /\ request.expectedFact \in Nat
  BY <1>1 DEF ReviewFits, ReviewRequest
<1>10. QED BY <1>3, <1>4, <1>5, <1>8, <1>9

\* What ReviewEntry makes of a command, field by field.
LEMMA EntryParts ==
  ASSUME NEW c
  PROVE  /\ ReviewEntry(c).use = Use(c, c.request.decisionId)
         /\ ReviewEntry(c).field = CandidateField(c.request.candidate)
         /\ ReviewEntry(c).candidate = c.request.candidate
         /\ ReviewEntry(c).expectedFact = c.request.expectedFact
         /\ ReviewEntry(c).expectedDecision = c.request.expectedDecision
BY DEF ReviewEntry

LEMMA CommitApprovalRefines ==
  ASSUME TypeInv, HistoryInv, EffectInv, NEW p \in Attempts, OthersKept(p), CommitReview(p),
         cmd[p].request.action # "reject"
  PROVE  Ledger!Approve(p)
<1> DEFINE request == cmd[p].request
           d == plan[p].decision
           r == plan[p].fact
<1>0. PICK c : c = ReviewEntry(cmd[p])
  OBVIOUS
<1>1. Reviewing(p) /\ pc[p] = "commit" /\ Commit(p, request, request.decisionId)
  BY DEF CommitReview, Commit
<1>2. /\ PendingDecisions(p) = {d} /\ PendingFacts(p) = {r}
      /\ d.candidate = request.candidate /\ d.version = request.expectedDecision + 1
      /\ r.field = c.field /\ r.version = request.expectedFact + 1
  BY <1>0, <1>1, ReviewRows, EntryParts DEF FieldOf
<1>3. /\ c \in Approvals /\ c.entry = Entry(r) /\ c.judgement = Judgement(d)
  BY <1>0, <1>1, ReviewEntries
<1>4. /\ c.use = Use(cmd[p], request.decisionId) /\ c.candidate = request.candidate
      /\ c.expectedFact = request.expectedFact /\ c.expectedDecision = request.expectedDecision
  BY <1>0, EntryParts
<1>5. facts' = facts \cup {r} /\ decisions' = decisions \cup {d}
  BY <1>1, <1>2 DEF Commit
<1>6. request.expectedFact \in Nat /\ request.expectedDecision \in Nat
  BY <1>1, ReviewCarries DEF Working, ReviewRequest
<1> HIDE DEF request, d, r
<1>7. /\ Len(HistoryOf(facts)[c.field]) = c.expectedFact
      /\ HistoryOf(facts)' = [HistoryOf(facts) EXCEPT ![c.field] = Append(@, {c.entry})]
  <2>1. /\ Len(HistoryOf(facts)[r.field]) = r.version - 1
        /\ HistoryOf(facts \cup {r}) =
             [HistoryOf(facts) EXCEPT ![r.field] = Append(@, {Entry(r)})]
    BY <1>2, HistoryExtends
  <2>2. QED BY <1>2, <1>3, <1>4, <1>5, <1>6, <2>1
<1>8. Ledger!Judge(c)
  <2>1. /\ Len(JudgementsOf(decisions)[d.candidate]) = d.version - 1
        /\ JudgementsOf(decisions \cup {d}) =
             [JudgementsOf(decisions) EXCEPT ![d.candidate] = Append(@, {Judgement(d)})]
    BY <1>1, <1>2, JudgementsExtend
  <2>2. QED BY <1>2, <1>3, <1>4, <1>5, <1>6, <2>1 DEF Ledger!Judge
<1>9. Ledger!Apply(p, c)
  BY <1>1, <1>4, CommitIsApply DEF request
<1>10. QED BY <1>3, <1>7, <1>8, <1>9 DEF Ledger!Approve

LEMMA CommitRejectionRefines ==
  ASSUME TypeInv, HistoryInv, EffectInv, NEW p \in Attempts, OthersKept(p), CommitReview(p),
         cmd[p].request.action = "reject"
  PROVE  Ledger!Reject(p)
<1> DEFINE request == cmd[p].request
           d == plan[p].decision
<1>0. PICK c : c = ReviewEntry(cmd[p])
  OBVIOUS
<1>1. Reviewing(p) /\ pc[p] = "commit" /\ Commit(p, request, request.decisionId)
  BY DEF CommitReview, Commit
<1>2. /\ PendingDecisions(p) = {d} /\ PendingFacts(p) = {}
      /\ d.candidate = request.candidate /\ d.version = request.expectedDecision + 1
  BY <1>1, ReviewRows
<1>3. c \in Rejections /\ c.judgement = Judgement(d)
  BY <1>0, <1>1, ReviewEntries
<1>4. /\ c.use = Use(cmd[p], request.decisionId) /\ c.candidate = request.candidate
      /\ c.expectedFact = request.expectedFact /\ c.expectedDecision = request.expectedDecision
      /\ c.field = FieldOf(p)
  BY <1>0, EntryParts DEF FieldOf
<1>5. facts' = facts /\ decisions' = decisions \cup {d}
  BY <1>1, <1>2 DEF Commit
<1>6. /\ request.expectedFact \in Nat /\ request.expectedDecision \in Nat
      /\ ReviewFits(p) /\ FieldOf(p) \in Fields
  BY <1>1, ReviewCarries DEF Working, ReviewRequest
<1>7. HistoryOf(facts)' = HistoryOf(facts)
  BY <1>5
<1> DEFINE S == RowsOf(facts, FieldOf(p))
           n == Cardinality(S)
<1>8. HistoryOf(facts)[FieldOf(p)] = FieldLog(S) /\ n \in Nat
  BY <1>6, FS_CardinalityType DEF HistoryOf, FieldLog, EffectInv, Counted
<1>9. c.expectedFact <= Len(HistoryOf(facts)[c.field])
  <2>1. PICK cur \in facts \cup {Null} :
          /\ cur # Null => cur.field = FieldOf(p)
          /\ VersionOf(cur) = request.expectedFact
    BY <1>6 DEF ReviewFits
  <2>2. request.expectedFact <= n
    <3>1. CASE cur = Null
      BY <1>8, <2>1, <3>1 DEF VersionOf
    <3>2. CASE cur # Null
      <4>1. cur \in S /\ cur.version = request.expectedFact
        BY <2>1, <3>2 DEF RowsOf, VersionOf
      <4>2. cur.version \in 1 .. n
        BY <1>6, <4>1 DEF EffectInv, Counted, Numbered
      <4>3. QED BY <4>1, <4>2
    <3>3. QED BY <3>1, <3>2
  <2>3. Len(FieldLog(S)) = n
    BY <1>8 DEF FieldLog
  <2>4. QED BY <1>4, <1>8, <2>2, <2>3
<1>10. Ledger!OnlyReverifiedSince(c.field, c.expectedFact)
  <2>1. \A r \in S : r.version > request.expectedFact => r.origin = "reverification"
    BY <1>1 DEF EffectInv, AttemptInv, RejectionStands, Checked, RowsOf
  <2>2. DOMAIN FieldLog(S) = 1 .. n
    BY DEF FieldLog
  <2>3. ASSUME NEW i \in 1 .. n, i > request.expectedFact, NEW e \in FieldLog(S)[i]
        PROVE  e.origin = "reverification"
    <3>1. PICK r \in S : r.version = i /\ e = Entry(r)
      BY <2>3 DEF FieldLog
    <3>2. QED BY <2>1, <2>3, <3>1 DEF Entry
  <2> HIDE DEF request, S, n
  <2>4. QED BY <1>4, <1>8, <2>2, <2>3 DEF Ledger!OnlyReverifiedSince
<1> HIDE DEF request, d, S, n
<1>11. Ledger!Judge(c)
  <2>1. /\ Len(JudgementsOf(decisions)[d.candidate]) = d.version - 1
        /\ JudgementsOf(decisions \cup {d}) =
             [JudgementsOf(decisions) EXCEPT ![d.candidate] = Append(@, {Judgement(d)})]
    BY <1>1, <1>2, JudgementsExtend
  <2>2. QED BY <1>2, <1>3, <1>4, <1>5, <1>6, <2>1 DEF Ledger!Judge
<1>12. Ledger!Apply(p, c)
  BY <1>1, <1>4, CommitIsApply DEF request
<1>13. QED BY <1>3, <1>7, <1>9, <1>10, <1>11, <1>12 DEF Ledger!Reject

\* A reverified row's entry differs from its predecessor's in id and origin.
LEMMA EntryReverified ==
  ASSUME NEW r, NEW s,
         r.value = s.value, r.candidate = s.candidate, r.governance = s.governance
  PROVE  Entry(r) = [Entry(s) EXCEPT !.id = r.id, !.origin = r.origin]
<1> DEFINE e == Entry(s)
           t == [e EXCEPT !.id = r.id, !.origin = r.origin]
           names == {"id", "origin", "value", "candidate", "governance"}
<1>1. /\ DOMAIN e = names /\ DOMAIN Entry(r) = names /\ DOMAIN t = names
      /\ Entry(r) = [x \in names |-> Entry(r)[x]] /\ t = [x \in names |-> t[x]]
  BY DEF Entry
<1>2. /\ t.id = r.id /\ t.origin = r.origin
      /\ t.value = e.value /\ t.candidate = e.candidate /\ t.governance = e.governance
  BY <1>1
<1>3. /\ Entry(r).id = r.id /\ Entry(r).origin = r.origin /\ Entry(r).value = e.value
      /\ Entry(r).candidate = e.candidate /\ Entry(r).governance = e.governance
  BY DEF Entry
<1>4. \A x \in names : t[x] = Entry(r)[x]
  BY <1>2, <1>3
<1> HIDE DEF t, names
<1>5. QED BY <1>1, <1>4 DEF t

LEMMA CommitReverificationRefines ==
  ASSUME TypeInv, HistoryInv, EffectInv, NEW p \in Attempts, OthersKept(p), CommitReverification(p)
  PROVE  Ledger!Reverify(p)
<1> DEFINE request == cmd[p].request
           r == plan[p].fact
<1>0. PICK c : c = [use |-> Use(cmd[p], cmd[p].newFactId), factId |-> request.factId,
                    newFactId |-> cmd[p].newFactId, expectedFact |-> request.expectedVersion]
  OBVIOUS
<1>1. /\ Reverifying(p) /\ pc[p] = "commit" /\ Commit(p, request, cmd[p].newFactId)
      /\ cmd[p] \in Commands /\ Reverifies(cmd[p])
  BY DEF CommitReverification, Commit, Reverifying, TypeInv, Begun
<1>2. c \in Reverifications
  BY <1>0, <1>1 DEF Reverifications
<1>3. /\ PendingDecisions(p) = {} /\ PendingFacts(p) = {r}
      /\ r.id = cmd[p].newFactId /\ r.origin = "reverification"
      /\ r.supersedes = request.factId /\ r.version = request.expectedVersion + 1
  BY <1>1, ReverificationRows
<1>4. PICK s \in facts : /\ s.id = r.supersedes /\ s.field = r.field /\ s.version + 1 = r.version
                         /\ s.value = r.value /\ s.candidate = r.candidate
                         /\ s.governance = r.governance
  BY <1>1, ReverificationRows
<1>5. facts' = facts \cup {r} /\ decisions' = decisions
  BY <1>1, <1>3 DEF Commit
<1>6. PICK f : f = r.field
  OBVIOUS
<1>7. /\ f \in Fields /\ Len(HistoryOf(facts)[f]) = r.version - 1
      /\ HistoryOf(facts \cup {r}) = [HistoryOf(facts) EXCEPT ![f] = Append(@, {Entry(r)})]
  BY <1>3, <1>6, HistoryExtends
<1>8. request.expectedVersion \in Nat \ {0} /\ s.version = request.expectedVersion
  <2>1. cmd[p] \in ReverifyCommand /\ s \in FactRow
    BY <1>1, CommandTypes DEF TypeInv, TypeOK
  <2>2. request.expectedVersion \in Nat \ {0} /\ s.version \in Nat
    BY <2>1 DEF ReverifyCommand, ReverifyRequest, FactRow
  <2>3. QED BY <1>3, <1>4, <2>2
<1>9. PICK e : e = Entry(s)
  OBVIOUS
<1>10. e \in HistoryOf(facts)[f][c.expectedFact] /\ e.id = c.factId
  <2>1. s \in RowsOf(facts, f) /\ c.expectedFact = s.version
    BY <1>0, <1>4, <1>6, <1>8 DEF RowsOf
  <2>2. s.version \in 1 .. Cardinality(RowsOf(facts, f))
    BY <1>7, <2>1 DEF EffectInv, Counted, Numbered
  <2>3. e \in HistoryOf(facts)[f][c.expectedFact]
    BY <1>7, <1>9, <2>1, <2>2 DEF HistoryOf
  <2>4. e.id = c.factId
    BY <1>0, <1>3, <1>4, <1>9 DEF Entry
  <2>5. QED BY <2>3, <2>4
<1>11. Entry(r) = [e EXCEPT !.id = c.newFactId, !.origin = "reverification"]
  <2>1. /\ r.id = c.newFactId /\ r.origin = "reverification"
        /\ r.value = s.value /\ r.candidate = s.candidate /\ r.governance = s.governance
    BY <1>0, <1>3, <1>4
  <2>2. Entry(r) = [Entry(s) EXCEPT !.id = r.id, !.origin = r.origin]
    BY <2>1, EntryReverified
  <2>3. QED BY <1>9, <2>1, <2>2
<1>12. c.expectedFact = request.expectedVersion /\ c.use = Use(cmd[p], cmd[p].newFactId)
  BY <1>0
<1> HIDE DEF request, r
<1>13. /\ Len(HistoryOf(facts)[f]) = c.expectedFact
       /\ HistoryOf(facts)' =
            [HistoryOf(facts) EXCEPT ![f] =
               Append(@, {[e EXCEPT !.id = c.newFactId, !.origin = "reverification"]})]
  BY <1>3, <1>5, <1>7, <1>8, <1>11, <1>12
<1>14. JudgementsOf(decisions)' = JudgementsOf(decisions)
  BY <1>5
<1>15. Ledger!Apply(p, c)
  BY <1>1, <1>12, CommitIsApply DEF request
<1>16. QED BY <1>2, <1>7, <1>10, <1>13, <1>14, <1>15 DEF Ledger!Reverify

-----------------------------------------------------------------------------
(* Every step of an attempt is a step of the ledger or is not seen.        *)

LEMMA TablesKept ==
  ASSUME NEW p \in Attempts, AttemptStep(p) \/ Crash(p)
  PROVE  UNCHANGED tables \/ CommitReview(p) \/ CommitReverification(p)
<1>1. CASE ReviewStep(p)
  BY <1>1 DEF ReviewStep, ContinueReview, StartReview, Start, DecideReview, ClaimReview, Claim, LockReviewedField,
     CheckReview, InsertReviewedFact, InsertFact, InsertDecision, tables
<1>2. CASE ReverificationStep(p)
  BY <1>2 DEF ReverificationStep, ContinueReverification, StartReverification, Start, DecideReverification,
     ClaimReverification, Claim, CheckReverification, InsertReverifiedFact, InsertFact, tables
<1>3. CASE Crash(p)
  BY <1>3 DEF Crash
<1>4. QED BY <1>1, <1>2, <1>3 DEF AttemptStep

LEMMA NotDone ==
  ASSUME NEW p \in Attempts, AttemptStep(p) \/ Crash(p)
  PROVE  pc[p] # "done"
<1>1. CASE ReviewStep(p)
  BY <1>1 DEF ReviewStep, ContinueReview, StartReview, Start, DecideReview, ClaimReview, Claim, LockReviewedField,
     CheckReview, InsertReviewedFact, InsertFact, InsertDecision, CommitReview, Commit
<1>2. CASE ReverificationStep(p)
  BY <1>2 DEF ReverificationStep, ContinueReverification, StartReverification, Start, DecideReverification,
     ClaimReverification, Claim, CheckReverification, InsertReverifiedFact, InsertFact,
     CommitReverification, Commit
<1>3. CASE Crash(p)
  BY <1>3 DEF Crash
<1>4. QED BY <1>1, <1>2, <1>3 DEF AttemptStep

LEMMA StepRefines ==
  ASSUME TypeInv, HistoryInv, EffectInv, EffectInv', NEW p \in Attempts,
         AttemptStep(p) \/ Crash(p)
  PROVE  [Ledger!Next]_(Ledger!ledgerVars)
<1>1. OthersKept(p) /\ pc[p] # "done"
  BY StepKeepsOthers, NotDone
<1>2. CASE UNCHANGED tables
  BY <1>1, <1>2, QuietRefines DEF Ledger!Next
<1>3. CASE CommitReview(p)
  BY <1>1, <1>3, CommitApprovalRefines, CommitRejectionRefines DEF Ledger!Next
<1>4. CASE CommitReverification(p)
  BY <1>1, <1>4, CommitReverificationRefines DEF Ledger!Next
<1>5. QED BY <1>2, <1>3, <1>4, TablesKept

LEMMA InitRefines == Init => Ledger!Init
<1> SUFFICES ASSUME Init PROVE Ledger!Init
  OBVIOUS
<1>1. facts = SeedFacts /\ decisions = {} /\ records = {} /\ reply = [p \in Attempts |-> NoReply]
  BY DEF Init, StoreInit
<1>2. JudgementsOf(decisions) = [k \in Candidates |-> <<>>]
  <2>1. \A k \in Candidates : DecisionsOf(decisions, k) = {}
    BY <1>1 DEF DecisionsOf
  <2>2. Cardinality({}) = 0
    BY FS_EmptySet
  <2>3. DecisionLog({}) = <<>>
    BY <2>2 DEF DecisionLog
  <2>4. JudgementsOf(decisions) = [k \in Candidates |-> DecisionLog(DecisionsOf(decisions, k))]
    BY DEF JudgementsOf, DecisionLog
  <2>5. QED BY <2>1, <2>3, <2>4
<1>3. [p \in Attempts |-> Told(p)] = [p \in Attempts |-> {}]
  BY <1>1 DEF Told, NoReply
<1>4. QED BY <1>1, <1>2, <1>3 DEF Ledger!Init

\* Whatever the interleaving of reviews, reverifications, retries and crashes,
\* and whatever the commands, an attempt's transaction is one atomic step of
\* the ledger or none.
THEOREM LedgerImplemented == Spec => ImplementsLedger
<1>1. TypeInv /\ HistoryInv /\ EffectInv /\ EffectInv' /\ [Next]_vars
        => [Ledger!Next]_(Ledger!ledgerVars)
  <2> SUFFICES ASSUME TypeInv, HistoryInv, EffectInv, EffectInv', [Next]_vars
               PROVE  [Ledger!Next]_(Ledger!ledgerVars)
    OBVIOUS
  <2>1. CASE UNCHANGED vars
    BY <2>1 DEF vars, Ledger!ledgerVars, Told, Use
  <2>2. ASSUME NEW p \in Attempts, AttemptStep(p) \/ Crash(p)
        PROVE  [Ledger!Next]_(Ledger!ledgerVars)
    BY <2>2, StepRefines
  <2>3. QED BY <2>1, <2>2 DEF Next, Quiescent
<1>2. QED BY <1>1, InitRefines, TypeInvariance, HistoryInvariance, EffectInvariance, PTL
          DEF Spec, ImplementsLedger, Ledger!Spec
=============================================================================
