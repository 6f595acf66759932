----------------------------- MODULE ProposalProofs -----------------------------
(***************************************************************************)
(* Theorems about source proposals: what is stored, in what versions and   *)
(* under which keys, for every set of attempts, commands and extractions.  *)
(***************************************************************************)
EXTENDS SourceProposals, FiniteSetTheorems, SequenceTheorems, TLAPS

-----------------------------------------------------------------------------
(* The inductive invariant.                                                *)

\* What an attempt plans is what its command asks for, and worth storing.
PlanFits(p) ==
  /\ pc[p] # "idle" => cmd[p] \in Commands
  /\ pc[p] \in {"extract", "source"} \cup (PastSource \ {"commit"}) => cmd[p].kind = "propose"
  /\ pc[p] \in {"check_decision", "insert_decision"} => cmd[p].kind = "decide"
  /\ Proposing(p) => Sound(plan[p])
  /\ Deciding(p) => plan[p] = DecisionOf(cmd[p])
  /\ Proposing(p) /\ pc[p] = "commit" => row[p] = Len(plan[p].candidates)

\* No running transaction holds a key that is committed or held by another.
KeysHeld(p) ==
  \A index \in Indexes :
    /\ Held(p)[index] \cap Stored[index] = {}
    /\ \A q \in Attempts \ {p} : Held(p)[index] \cap Held(q)[index] = {}

\* A source or capture that was stored before is the one the batch names.
OriginFits(p) ==
  Proposing(p) =>
    /\ pc[p] \in PastSource => \A s \in sources : s.id = plan[p].source.id => s = plan[p].source
    /\ pc[p] \in PastCapture => \A c \in captures : c.id = plan[p].capture.id => c = plan[p].capture

\* A checked decision is of a stored candidate and follows a stored version.
DecisionFits(p) ==
  Deciding(p) /\ pc[p] \in {"insert_decision", "commit"} =>
    /\ plan[p].candidate \in Ids(candidates)
    /\ plan[p].version = 1 \/ \E d \in decisions :
         d.candidate = plan[p].candidate /\ d.version + 1 = plan[p].version

AttemptInv(p) == PlanFits(p) /\ KeysHeld(p) /\ OriginFits(p) /\ DecisionFits(p)

\* A record is of a sound batch or a decision, and names it.
RecordsTell ==
  \A r \in records :
    /\ \/ r.scope = "propose" /\ Sound(r.hash)
       \/ r.scope = "decide" /\ r.hash \in Decision
    /\ r.status = "succeeded" /\ r.ref = r.hash.id

DecisionsOf(k) == {d \in decisions : d.candidate = k}
Numbered(S) == {d.version : d \in S} = 1 .. Cardinality(S)
Counted == \A k : IsFiniteSet(DecisionsOf(k)) /\ Numbered(DecisionsOf(k))

VersionsUnique == \A d, e \in decisions : VersionKey(d) = VersionKey(e) => d = e

ProposalInv ==
  /\ TypeOK /\ DOMAIN reply = Attempts
  /\ \A p \in Attempts : AttemptInv(p)
  /\ RecordsTell /\ AllOrNothing /\ VersionsUnique /\ Counted

-----------------------------------------------------------------------------
(* Batches and decisions.                                                  *)

\* What is extracted without a problem is worth storing.
LEMMA ExtractedIsSound ==
  ASSUME NEW c \in Commands, c.kind = "propose", NEW e \in Extractions, Problem(c, e) = {}
  PROVE  Sound(BatchOf(c, e))
<1> DEFINE b == BatchOf(c, e)
           n == Len(e.proposals)
           Row == [id : STRING, field : STRING, valid : BOOLEAN, shaped : BOOLEAN]
<1>1. c.source \in Source
  BY CommandAssumption
<1>2. e.status # "threw" /\ e.status # "failure"
  BY DEF Problem
<1>3. /\ e.captureId \in STRING /\ e.batchId \in STRING /\ e.digest \in STRING
      /\ e.origin \in STRING \cup {Null} /\ e.reference \in STRING
      /\ e.capturedAt \in Nat /\ e.bytes \in Int
      /\ e.proposals \in Seq(Row)
  BY <1>2, ExtractionAssumption
<1>4. CaptureProblem(c.source, e) = {} /\ BatchProblem(e) = {}
  BY DEF Problem
<1>5. /\ n \in Nat /\ DOMAIN e.proposals = 1 .. n
      /\ \A i \in 1 .. n : e.proposals[i] \in Row
  <2> HIDE DEF Row
  <2>1. e.proposals \in Seq(Row)
    BY <1>3
  <2>2. QED BY <2>1, LenProperties
<1>6. /\ n # 0
      /\ \A i, j \in 1 .. n : e.proposals[i].id = e.proposals[j].id => i = j
  <2>1. e.proposals # <<>> /\ Distinct(ProposedIds(e))
    BY <1>4 DEF BatchProblem
  <2>2. n # 0
    BY <2>1, <1>3, EmptySeq, LenProperties
  <2>3. QED BY <2>1, <2>2, <1>5 DEF Distinct, ProposedIds
<1>7. b.capture \in Capture
  BY <1>1, <1>3 DEF BatchOf, CaptureOf, Capture, Source
<1>8. /\ b.candidates \in [1 .. n -> Candidate]
      /\ \A i \in 1 .. n : /\ b.candidates[i].id = e.proposals[i].id
                           /\ b.candidates[i].field = e.proposals[i].field
                           /\ b.candidates[i].batch = b.id
                           /\ b.candidates[i].source = c.source.id
                           /\ b.candidates[i].capture = e.captureId
  BY <1>1, <1>3, <1>5 DEF BatchOf, Candidate, Source
<1>9. b.candidates \in Seq(Candidate) /\ b.candidates # <<>>
  BY <1>5, <1>6, <1>8
<1>10. b \in Batch /\ b.source = c.source /\ b.id = e.batchId
  BY <1>1, <1>3, <1>7, <1>9 DEF BatchOf, Batch
<1>11. /\ b.capture.source = c.source.id /\ b.capture.kind = c.source.kind
       /\ b.capture.id = e.captureId /\ b.capture.origin = e.origin
       /\ b.capture.reference = e.reference /\ b.capture.capturedAt = e.capturedAt
       /\ b.capture.bytes = e.bytes
  BY DEF BatchOf, CaptureOf
<1>12. /\ e.capturedAt >= c.source.approvedAt /\ e.bytes \in 1 .. MaxBytes
       /\ c.source.kind = "business_website" => e.origin = c.source.origin
       /\ c.source.kind = "booking_route_metadata" => e.reference = c.source.reference
  <2>1. ~(e.capturedAt < c.source.approvedAt)
    BY <1>4 DEF CaptureProblem
  <2>2. c.source.kind = "business_website" => RedirectProblem(c.source, e.origin) = {}
    BY <1>4 DEF CaptureProblem
  <2>3. RedirectProblem(c.source, e.origin) = {} => e.origin = c.source.origin
    BY DEF RedirectProblem
  <2>4. c.source.kind = "booking_route_metadata" => e.reference = c.source.reference
    BY <1>4 DEF CaptureProblem
  <2>5. ~(e.bytes <= 0) /\ ~(e.bytes > MaxBytes)
    BY <1>4 DEF CaptureProblem
  <2>6. c.source.approvedAt \in Nat /\ MaxBytes \in Nat
    BY <1>1, ExtractionAssumption DEF Source
  <2>7. QED BY <1>3, <2>1, <2>2, <2>3, <2>4, <2>5, <2>6
<1>13. c.source.kind = "booking_route_metadata" =>
         \A i \in 1 .. n : e.proposals[i].field \notin ProviderOwned
  BY <1>5 DEF Problem
<1>14. \A k \in CandidatesOf(b) : \E i \in 1 .. n : k = b.candidates[i]
  BY <1>8 DEF CandidatesOf
<1> HIDE DEF b
<1>15. \A k \in CandidatesOf(b) :
         /\ k.batch = b.id /\ k.source = b.source.id /\ k.capture = b.capture.id
         /\ c.source.kind = "booking_route_metadata" => k.field \notin ProviderOwned
  BY <1>8, <1>10, <1>11, <1>13, <1>14
<1>16. DOMAIN b.candidates = 1 .. n
  BY <1>8
<1>17. Sound(b)
  BY <1>6, <1>8, <1>9, <1>10, <1>11, <1>12, <1>15, <1>16 DEF Sound
<1>18. QED BY <1>17 DEF b

LEMMA DecisionType ==
  ASSUME NEW c \in Commands, c.kind = "decide"
  PROVE  DecisionOf(c) \in Decision /\ c.expected \in Nat
BY CommandAssumption

\* What an attempt in its transaction works on.
LEMMA PlanType ==
  ASSUME TypeOK, NEW p \in Attempts, PlanFits(p), pc[p] \in Working
  PROVE  /\ cmd[p] \in Commands /\ cmd[p].kind \in {"propose", "decide"}
         /\ plan[p] # Null /\ plan[p] \in Batch \cup Decision
         /\ cmd[p].kind = "propose" =>
              /\ Proposing(p) /\ plan[p] \in Batch /\ Sound(plan[p])
              /\ Len(plan[p].candidates) \in Nat
              /\ DOMAIN plan[p].candidates = 1 .. Len(plan[p].candidates)
         /\ cmd[p].kind = "decide" =>
              Deciding(p) /\ plan[p] \in Decision /\ plan[p] = DecisionOf(cmd[p])
<1>1. cmd[p] \in Commands /\ pc[p] \notin {"idle", "extract", "done"}
  BY DEF PlanFits, Working
<1>2. cmd[p].kind \in {"propose", "decide"} /\ plan[p] # Null /\ plan[p] \in Batch \cup Decision
  BY <1>1, CommandAssumption DEF TypeOK
<1>3. ASSUME cmd[p].kind = "propose"
      PROVE  /\ Proposing(p) /\ plan[p] \in Batch /\ Sound(plan[p])
             /\ Len(plan[p].candidates) \in Nat
             /\ DOMAIN plan[p].candidates = 1 .. Len(plan[p].candidates)
  <2>1. Proposing(p) /\ Sound(plan[p])
    BY <1>3 DEF Proposing, PlanFits
  <2>2. plan[p] \in Batch /\ plan[p].candidates \in Seq(Candidate)
    BY <2>1 DEF Sound, Batch
  <2>3. QED BY <2>1, <2>2
<1>4. ASSUME cmd[p].kind = "decide"
      PROVE  Deciding(p) /\ plan[p] \in Decision /\ plan[p] = DecisionOf(cmd[p])
  BY <1>1, <1>4, DecisionType DEF Deciding, PlanFits
<1>5. QED BY <1>1, <1>2, <1>3, <1>4

-----------------------------------------------------------------------------
(* Steps that change no table.                                             *)

Kept(q) ==
  pc'[q] = pc[q] /\ cmd'[q] = cmd[q] /\ plan'[q] = plan[q] /\ row'[q] = row[q]

OthersKept(p) == \A q \in Attempts \ {p} : Kept(q) /\ reply'[q] = reply[q]

LEMMA HeldKept ==
  ASSUME NEW q, Kept(q), UNCHANGED tables
  PROVE  Held(q)' = Held(q)
BY DEF Kept, tables, Held, If, InTransaction, Proposing, Deciding, RequestKey, VersionKey,
       Stored, Ids

LEMMA StoredKept == UNCHANGED tables => Stored' = Stored
BY DEF tables, Stored, Ids, VersionKey

\* p holds what it held before, and what it wanted while nobody had it.
MayHold(p) ==
  \A index \in Indexes :
    Held(p)'[index] \subseteq Held(p)[index] \cup
      {key \in Wanted(p)[index] \ Stored[index] :
         \A q \in Attempts \ {p} : key \notin Held(q)[index]}

\* While no table changes, what holds of p's own state holds for all.
LEMMA QuietStep ==
  ASSUME ProposalInv, NEW p \in Attempts, OthersKept(p), UNCHANGED tables,
         TypeOK', DOMAIN reply' = Attempts,
         PlanFits(p)', OriginFits(p)', DecisionFits(p)', MayHold(p)
  PROVE  ProposalInv'
<1>1. Stored' = Stored
  BY StoredKept
<1>2. ASSUME NEW q \in Attempts \ {p} PROVE Held(q)' = Held(q)
  BY HeldKept DEF OthersKept
<1>3. KeysHeld(p)'
  <2>1. ASSUME NEW index \in Indexes PROVE Held(p)'[index] \cap Stored'[index] = {}
    BY <1>1 DEF MayHold, ProposalInv, AttemptInv, KeysHeld
  <2>2. ASSUME NEW index \in Indexes, NEW q \in Attempts \ {p}
        PROVE  Held(p)'[index] \cap Held(q)'[index] = {}
    BY <1>2 DEF MayHold, ProposalInv, AttemptInv, KeysHeld
  <2>3. QED BY <2>1, <2>2 DEF KeysHeld, Indexes
<1>4. ASSUME NEW q \in Attempts \ {p} PROVE AttemptInv(q)'
  <2>0. AttemptInv(q) /\ Kept(q)
    BY DEF ProposalInv, OthersKept
  <2>1. PlanFits(q)' /\ OriginFits(q)' /\ DecisionFits(q)'
    BY <2>0 DEF Kept, tables, AttemptInv, PlanFits, OriginFits, DecisionFits, Proposing, Deciding, Ids
  <2>2. ASSUME NEW index \in Indexes
        PROVE  /\ Held(q)'[index] \cap Stored'[index] = {}
               /\ \A o \in Attempts \ {q} : Held(q)'[index] \cap Held(o)'[index] = {}
    <3>1. Held(q)'[index] \cap Stored'[index] = {}
      BY <1>1, <1>2, <2>0 DEF AttemptInv, KeysHeld
    <3>2. ASSUME NEW o \in Attempts \ {q} PROVE Held(q)'[index] \cap Held(o)'[index] = {}
      <4>1. CASE o = p
        BY <4>1, <1>3 DEF KeysHeld, Indexes
      <4>2. CASE o # p
        BY <4>2, <1>2, <2>0 DEF AttemptInv, KeysHeld
      <4>3. QED BY <4>1, <4>2
    <3>3. QED BY <3>1, <3>2
  <2>3. KeysHeld(q)'
    BY <2>2 DEF KeysHeld, Indexes
  <2>4. QED BY <2>1, <2>3 DEF AttemptInv
<1>5. RecordsTell' /\ AllOrNothing' /\ VersionsUnique' /\ Counted'
  <2> USE DEF tables, ProposalInv
  <2>1. RecordsTell' /\ VersionsUnique'
    BY DEF RecordsTell, VersionsUnique, VersionKey
  <2>2. AllOrNothing'
    BY DEF AllOrNothing
  <2>3. Counted'
    BY DEF Counted, Numbered, DecisionsOf
  <2>4. QED BY <2>1, <2>2, <2>3
<1>6. AttemptInv(p)'
  BY <1>3 DEF AttemptInv
<1>7. QED BY <1>4, <1>5, <1>6 DEF ProposalInv

\* The tables keep their types when they do not change.
LEMMA TablesKept ==
  ASSUME TypeOK, UNCHANGED tables
  PROVE  /\ \A rows \in {sources', captures', batches', candidates', decisions'} : UniqueIds(rows)
         /\ \A c \in captures' : c.source \in Ids(sources')
         /\ \A b \in batches' : \E c \in captures' : c.id = b.capture /\ c.source = b.source
         /\ \A k \in candidates' : k.batch \in Ids(batches')
         /\ \A d \in decisions' : d.candidate \in Ids(candidates')
         /\ \A r, s \in records' : r.scope = s.scope /\ r.key = s.key => r = s
BY DEF TypeOK, tables

\* An attempt that ends holds nothing, whatever it answers.
LEMMA FinishQuiet ==
  ASSUME ProposalInv, NEW p \in Attempts, pc[p] # "idle", UNCHANGED tables,
         NEW answer, Finish(p, answer)
  PROVE  ProposalInv'
<1>1. TypeOK
  BY DEF ProposalInv
<1>2. /\ pc' = [pc EXCEPT ![p] = "done"] /\ plan' = [plan EXCEPT ![p] = Null]
      /\ row' = [row EXCEPT ![p] = 0] /\ cmd' = cmd /\ reply' = [reply EXCEPT ![p] = answer]
  BY DEF Finish
<1>3. /\ pc' \in [Attempts -> Steps] /\ plan' \in [Attempts -> Batch \cup Decision \cup {Null}]
      /\ row' \in [Attempts -> Nat] /\ cmd' \in [Attempts -> Commands \cup {Null}]
      /\ DOMAIN reply' = Attempts
      /\ pc'[p] = "done" /\ plan'[p] = Null /\ row'[p] = 0
  BY <1>1, <1>2 DEF TypeOK, Steps, ProposalInv
<1>4. OthersKept(p)
  BY <1>1, <1>2 DEF TypeOK, OthersKept, Kept
<1>5. TypeOK'
  <2>1. ASSUME NEW q \in Attempts
        PROVE  (/\ plan[q] = Null <=> pc[q] \in {"idle", "extract", "done"}
                /\ IF Proposing(q) /\ pc[q] \in PastBatch
                   THEN row[q] \in 0 .. Len(plan[q].candidates) ELSE row[q] = 0)'
    <3>1. CASE q = p
      BY <1>3, <3>1 DEF PastBatch
    <3>2. CASE q # p
      BY <1>1, <1>4, <3>2 DEF TypeOK, OthersKept, Kept, Proposing
    <3>3. QED BY <3>1, <3>2
  <2>2. QED BY <1>1, <1>3, <2>1, TablesKept DEF TypeOK
<1>6. PlanFits(p)' /\ OriginFits(p)' /\ DecisionFits(p)'
  <2>1. cmd'[p] \in Commands
    BY <1>2 DEF ProposalInv, AttemptInv, PlanFits
  <2>2. QED BY <1>3, <2>1 DEF PlanFits, OriginFits, DecisionFits, Proposing, Deciding, Working, PastSource,
                             PastCapture, PastBatch
<1>7. MayHold(p)
  <2>1. \A index \in Indexes : Held(p)'[index] = {}
    BY <1>3 DEF Indexes, Held, If, InTransaction, Proposing, Deciding, Working, PastBatch
  <2>2. QED BY <2>1 DEF MayHold, Indexes
<1>8. QED BY <1>3, <1>4, <1>5, <1>6, <1>7, QuietStep

\* What the statements of a transaction have in common.
LEMMA GotoQuiet ==
  ASSUME ProposalInv, NEW p \in Attempts, pc[p] \in Working, NEW to \in Working, Goto(p, to),
         UNCHANGED tables,
         cmd[p].kind = "propose" =>
           /\ to \notin {"check_decision", "insert_decision"}
           /\ to \in PastBatch <=> pc[p] \in {"insert_batch"} \cup PastBatch
           /\ to = "commit" => row[p] = Len(plan[p].candidates),
         cmd[p].kind = "decide" => to \in {"check_decision", "insert_decision", "commit"},
         OriginFits(p)', DecisionFits(p)', MayHold(p)
  PROVE  ProposalInv'
<1>1. TypeOK /\ PlanFits(p)
  BY DEF ProposalInv, AttemptInv
<1>2. /\ pc' = [pc EXCEPT ![p] = to] /\ cmd' = cmd /\ plan' = plan /\ row' = row /\ reply' = reply
  BY DEF Goto
<1>3. /\ pc' \in [Attempts -> Steps] /\ DOMAIN reply' = Attempts /\ pc'[p] = to
      /\ pc[p] \notin {"idle", "extract", "done"} /\ to \notin {"idle", "extract", "done"}
  BY <1>1, <1>2 DEF TypeOK, Steps, ProposalInv, Working
<1>4. OthersKept(p)
  BY <1>1, <1>2 DEF TypeOK, OthersKept, Kept
<1>5. TypeOK'
  <2>1. ASSUME NEW q \in Attempts
        PROVE  (/\ plan[q] = Null <=> pc[q] \in {"idle", "extract", "done"}
                /\ IF Proposing(q) /\ pc[q] \in PastBatch
                   THEN row[q] \in 0 .. Len(plan[q].candidates) ELSE row[q] = 0)'
    <3>1. CASE q = p
      <4>1. plan'[p] = Null <=> pc'[p] \in {"idle", "extract", "done"}
        BY <1>1, <1>2, <1>3 DEF TypeOK
      <4>2. CASE cmd[p].kind = "propose"
        <5>1. Proposing(p) /\ Proposing(p)'
          BY <4>2, <1>2, <1>3 DEF Proposing
        <5>2. Len(plan[p].candidates) \in Nat
          BY <1>1, <4>2, PlanType
        <5>3. CASE to \in PastBatch
          <6>1. row[p] = 0 \/ row[p] \in 0 .. Len(plan[p].candidates)
            BY <1>1 DEF TypeOK
          <6>2. QED BY <1>2, <1>3, <3>1, <4>1, <5>1, <5>2, <5>3, <6>1
        <5>4. CASE to \notin PastBatch
          <6>1. pc[p] \notin PastBatch
            BY <4>2, <5>4
          <6>2. row[p] = 0
            BY <1>1, <6>1 DEF TypeOK
          <6>3. QED BY <1>2, <1>3, <3>1, <4>1, <5>4, <6>2
        <5>5. QED BY <5>3, <5>4
      <4>3. CASE cmd[p].kind # "propose"
        <5>1. ~Proposing(p) /\ ~Proposing(p)'
          BY <4>3, <1>2 DEF Proposing
        <5>2. row[p] = 0
          BY <1>1, <5>1 DEF TypeOK
        <5>3. QED BY <1>2, <3>1, <4>1, <5>1, <5>2
      <4>4. QED BY <4>2, <4>3
    <3>2. CASE q # p
      BY <1>1, <1>4, <3>2 DEF TypeOK, OthersKept, Kept, Proposing
    <3>3. QED BY <3>1, <3>2
  <2>2. QED BY <1>1, <1>2, <1>3, <2>1, TablesKept DEF TypeOK
<1>6. PlanFits(p)'
  <2>1. cmd[p] \in Commands /\ cmd[p].kind \in {"propose", "decide"}
    BY <1>1, PlanType
  <2>2. CASE cmd[p].kind = "propose"
    BY <1>1, <1>2, <1>3, <2>1, <2>2, PlanType
    DEF PlanFits, Proposing, Deciding
  <2>3. CASE cmd[p].kind = "decide"
    BY <1>1, <1>2, <1>3, <2>1, <2>3, PlanType
    DEF PlanFits, Proposing, Deciding, PastSource, PastCapture, PastBatch
  <2>4. QED BY <2>1, <2>2, <2>3
<1>7. QED BY <1>3, <1>4, <1>5, <1>6, QuietStep

\* A batch at its statements, and a decision at its.
LEMMA KindAt ==
  ASSUME TypeOK, NEW p \in Attempts, PlanFits(p)
  PROVE  /\ pc[p] \in {"source", "capture", "batch_exists", "insert_batch", "insert_candidates"} =>
              cmd[p].kind = "propose" /\ Proposing(p)
         /\ pc[p] \in {"check_decision", "insert_decision"} => cmd[p].kind = "decide" /\ Deciding(p)
BY DEF PlanFits, PastSource, PastCapture, PastBatch, Proposing, Deciding, Working

LEMMA ClaimStep ==
  ASSUME ProposalInv, NEW p \in Attempts, Claim(p)
  PROVE  ProposalInv'
<1>1. pc[p] = "claim" /\ UNCHANGED tables /\ pc[p] \in Working /\ Blockers(p) = {}
  BY DEF Claim, Working
<1>2. ASSUME RecordsFor(p) = {}, Goto(p, AfterClaim(p)) PROVE ProposalInv'
  <2>1. /\ cmd[p].kind \in {"propose", "decide"} /\ TypeOK /\ PlanFits(p)
    BY <1>1, PlanType DEF ProposalInv, AttemptInv
  <2>2. /\ pc'[p] = AfterClaim(p) /\ cmd' = cmd /\ plan' = plan /\ row' = row
        /\ AfterClaim(p) \in Working
    BY <1>2, <2>1 DEF Goto, TypeOK, AfterClaim, Working
  <2>3. OriginFits(p)' /\ DecisionFits(p)'
    BY <2>1, <2>2 DEF OriginFits, DecisionFits, AfterClaim, PastSource, PastCapture, PastBatch
  <2>4. RequestKey(p) \notin Stored.record
    BY <1>2 DEF RecordsFor, Stored, RequestKey
  <2>5. row[p] = 0
    BY <1>1, <2>1 DEF TypeOK, PastBatch
  <2>6. ASSUME NEW q \in Attempts \ {p} PROVE RequestKey(p) \notin Held(q).record
    BY <1>1 DEF Blockers, Wanted, If, Indexes
  <2>7. MayHold(p)
    <3>1. ASSUME NEW index \in Indexes, index # "record" PROVE Held(p)'[index] = {}
      BY <2>2, <2>5, <3>1 DEF Indexes, Held, If, AfterClaim, PastSource, PastCapture, PastBatch
    <3>2. Held(p)'.record \subseteq {RequestKey(p)}
      BY <2>2 DEF Held, If, RequestKey
    <3>3. Wanted(p).record = {RequestKey(p)}
      BY <1>1 DEF Wanted, If
    <3>4. QED BY <2>4, <2>6, <3>1, <3>2, <3>3 DEF MayHold, Indexes
  <2>8. QED BY <1>1, <1>2, <2>1, <2>2, <2>3, <2>7, GotoQuiet DEF AfterClaim, PastBatch
<1>3. ASSUME NEW r \in RecordsFor(p), Finish(p, ReplayAnswer(p, r)) PROVE ProposalInv'
  BY <1>1, <1>3, FinishQuiet
<1>4. QED BY <1>1, <1>2, <1>3 DEF Claim

\* A statement that inserts nothing yet leaves its attempt what it had.
LEMMA HeldStays ==
  ASSUME NEW p, NEW to, pc'[p] = to, cmd' = cmd, plan' = plan, row' = row, UNCHANGED tables,
         pc[p] \in Working \ {"claim"}, to \in Working \ {"claim"},
         pc[p] \in PastSource <=> to \in PastSource,
         pc[p] \in PastCapture <=> to \in PastCapture,
         pc[p] \in PastBatch <=> to \in PastBatch,
         Deciding(p) => (pc[p] = "commit" <=> to = "commit")
  PROVE  Held(p)' = Held(p)
<1>1. Stored' = Stored
  BY StoredKept
<1>2. /\ InTransaction(p)' = InTransaction(p) /\ Proposing(p)' = Proposing(p)
      /\ Deciding(p)' = Deciding(p) /\ RequestKey(p)' = RequestKey(p)
  BY DEF InTransaction, Proposing, Deciding, RequestKey
<1>3. QED BY <1>1, <1>2 DEF Held, If, VersionKey

LEMMA SourceStep ==
  ASSUME ProposalInv, NEW p \in Attempts, EnsureSource(p)
  PROVE  ProposalInv'
<1>1. pc[p] = "source" /\ UNCHANGED tables /\ pc[p] \in Working /\ Blockers(p) = {}
  BY DEF EnsureSource, Working
<1>2. /\ TypeOK /\ PlanFits(p) /\ cmd[p].kind = "propose" /\ Proposing(p)
  BY <1>1, KindAt DEF ProposalInv, AttemptInv
<1>3. CASE Finish(p, Answer("source_conflict", Null))
  BY <1>1, <1>3, FinishQuiet
<1>4. CASE Goto(p, "capture") /\ \A s \in sources : s.id = plan[p].source.id => s = plan[p].source
  <2>1. /\ pc'[p] = "capture" /\ cmd' = cmd /\ plan' = plan /\ row' = row
        /\ "capture" \in Working
    BY <1>2, <1>4 DEF Goto, TypeOK, Working
  <2>2. OriginFits(p)' /\ DecisionFits(p)'
    BY <1>1, <1>2, <1>4, <2>1 DEF OriginFits, DecisionFits, PastCapture, PastBatch, tables
  <2>3. ASSUME NEW q \in Attempts \ {p} PROVE plan[p].source.id \notin Held(q).source
    BY <1>1 DEF Blockers, Wanted, If, Indexes
  <2>4. MayHold(p)
    <3>0. Stored' = Stored
      BY <1>1, StoredKept
    <3>1. row[p] = 0
      BY <1>1, <1>2 DEF TypeOK, PastBatch
    <3>2. ASSUME NEW index \in Indexes, index \notin {"source", "record"}
          PROVE  Held(p)'[index] = {}
      BY <1>2, <2>1, <3>1, <3>2 DEF Indexes, Held, If, Deciding, PastCapture, PastBatch
    <3>3. Held(p)'.record \subseteq Held(p).record
      BY <1>1, <2>1 DEF Held, If, RequestKey, InTransaction, Working
    <3>4. Held(p)'.source \subseteq {plan[p].source.id} \ Stored.source
      BY <2>1, <3>0 DEF Held, If
    <3>5. Wanted(p).source = {plan[p].source.id}
      BY <1>1 DEF Wanted, If
    <3>6. QED BY <2>3, <3>2, <3>3, <3>4, <3>5 DEF MayHold, Indexes
  <2>5. QED BY <1>1, <1>2, <1>4, <2>1, <2>2, <2>4, GotoQuiet DEF PastBatch
<1>5. QED BY <1>1, <1>3, <1>4 DEF EnsureSource

LEMMA CaptureStep ==
  ASSUME ProposalInv, NEW p \in Attempts, EnsureCapture(p)
  PROVE  ProposalInv'
<1>1. pc[p] = "capture" /\ UNCHANGED tables /\ pc[p] \in Working /\ Blockers(p) = {}
  BY DEF EnsureCapture, Working
<1>2. TypeOK /\ PlanFits(p) /\ OriginFits(p) /\ cmd[p].kind = "propose" /\ Proposing(p)
  BY <1>1, KindAt DEF ProposalInv, AttemptInv
<1>3. CASE Finish(p, Answer("source_conflict", Null))
  BY <1>1, <1>3, FinishQuiet
<1>4. CASE Goto(p, "batch_exists")
           /\ \A c \in captures : c.id = plan[p].capture.id => c = plan[p].capture
  <2>1. /\ pc'[p] = "batch_exists" /\ cmd' = cmd /\ plan' = plan /\ row' = row
        /\ "batch_exists" \in Working
    BY <1>2, <1>4 DEF Goto, TypeOK, Working
  <2>2. OriginFits(p)' /\ DecisionFits(p)'
    BY <1>1, <1>2, <1>4, <2>1 DEF OriginFits, DecisionFits, PastSource, tables
  <2>3. ASSUME NEW q \in Attempts \ {p} PROVE plan[p].capture.id \notin Held(q).capture
    BY <1>1 DEF Blockers, Wanted, If, Indexes
  <2>4. MayHold(p)
    <3>0. Stored' = Stored
      BY <1>1, StoredKept
    <3>1. row[p] = 0
      BY <1>1, <1>2 DEF TypeOK, PastBatch
    <3>2. ASSUME NEW index \in Indexes, index \notin {"source", "record", "capture"}
          PROVE  Held(p)'[index] = {}
      BY <1>2, <2>1, <3>1, <3>2 DEF Indexes, Held, If, Deciding, PastBatch
    <3>3. Held(p)'.record \subseteq Held(p).record
      BY <1>1, <2>1 DEF Held, If, RequestKey, InTransaction, Working
    <3>4. Held(p)'.source \subseteq Held(p).source
      BY <1>1, <1>2, <2>1, <3>0 DEF Held, If, PastSource
    <3>5. Held(p)'.capture \subseteq {plan[p].capture.id} \ Stored.capture
      BY <2>1, <3>0 DEF Held, If
    <3>6. Wanted(p).capture = {plan[p].capture.id}
      BY <1>1 DEF Wanted, If
    <3>7. QED BY <2>3, <3>2, <3>3, <3>4, <3>5, <3>6 DEF MayHold, Indexes
  <2>5. QED BY <1>1, <1>2, <1>4, <2>1, <2>2, <2>4, GotoQuiet DEF PastBatch
<1>5. QED BY <1>1, <1>3, <1>4 DEF EnsureCapture

LEMMA BatchExistsStep ==
  ASSUME ProposalInv, NEW p \in Attempts, BatchExists(p)
  PROVE  ProposalInv'
<1>1. pc[p] = "batch_exists" /\ UNCHANGED tables /\ pc[p] \in Working
  BY DEF BatchExists, Working
<1>2. TypeOK /\ PlanFits(p) /\ OriginFits(p) /\ cmd[p].kind = "propose" /\ Proposing(p)
  BY <1>1, KindAt DEF ProposalInv, AttemptInv
<1>3. CASE Finish(p, Answer("version_conflict", Null))
  BY <1>1, <1>3, FinishQuiet
<1>4. CASE Goto(p, "insert_batch")
  <2>1. /\ pc'[p] = "insert_batch" /\ cmd' = cmd /\ plan' = plan /\ row' = row
        /\ "insert_batch" \in Working
    BY <1>2, <1>4 DEF Goto, TypeOK, Working
  <2>2. OriginFits(p)' /\ DecisionFits(p)'
    BY <1>1, <1>2, <2>1 DEF OriginFits, DecisionFits, PastSource, PastCapture, tables,
                            Proposing, Deciding
  <2>3. Held(p)' = Held(p)
    BY <1>1, <1>2, <2>1, HeldStays DEF Working, PastSource, PastCapture, PastBatch
  <2>4. MayHold(p)
    BY <2>3 DEF MayHold
  <2>5. QED BY <1>1, <1>2, <1>4, <2>1, <2>2, <2>4, GotoQuiet DEF PastBatch
<1>5. QED BY <1>3, <1>4 DEF BatchExists

LEMMA InsertBatchStep ==
  ASSUME ProposalInv, NEW p \in Attempts, InsertBatch(p)
  PROVE  ProposalInv'
<1>1. pc[p] = "insert_batch" /\ UNCHANGED tables /\ pc[p] \in Working /\ Blockers(p) = {}
  BY DEF InsertBatch, Working
<1>2. TypeOK /\ PlanFits(p) /\ OriginFits(p) /\ cmd[p].kind = "propose" /\ Proposing(p)
  BY <1>1, KindAt DEF ProposalInv, AttemptInv
<1>3. CASE Finish(p, Answer("unique_violation", Null))
  BY <1>1, <1>3, FinishQuiet
<1>4. CASE Goto(p, "insert_candidates") /\ plan[p].id \notin Stored.batch
  <2>1. /\ pc'[p] = "insert_candidates" /\ cmd' = cmd /\ plan' = plan /\ row' = row
        /\ "insert_candidates" \in Working
    BY <1>2, <1>4 DEF Goto, TypeOK, Working
  <2>2. OriginFits(p)' /\ DecisionFits(p)'
    BY <1>1, <1>2, <2>1 DEF OriginFits, DecisionFits, PastSource, PastCapture, tables,
                            Proposing, Deciding
  <2>3. ASSUME NEW q \in Attempts \ {p} PROVE plan[p].id \notin Held(q).batch
    BY <1>1 DEF Blockers, Wanted, If, Indexes
  <2>4. MayHold(p)
    <3>0. Stored' = Stored
      BY <1>1, StoredKept
    <3>1. row[p] = 0
      BY <1>1, <1>2 DEF TypeOK, PastBatch
    <3>2. ASSUME NEW index \in Indexes, index \notin {"source", "record", "capture", "batch"}
          PROVE  Held(p)'[index] = {}
      BY <1>2, <2>1, <3>1, <3>2 DEF Indexes, Held, If, Deciding
    <3>3. /\ Held(p)'.record \subseteq Held(p).record
          /\ Held(p)'.source \subseteq Held(p).source
          /\ Held(p)'.capture \subseteq Held(p).capture
      BY <1>1, <1>2, <2>1, <3>0 DEF Held, If, RequestKey, InTransaction, Working, PastSource, PastCapture
    <3>4. Held(p)'.batch \subseteq {plan[p].id}
      BY <2>1 DEF Held, If
    <3>5. Wanted(p).batch = {plan[p].id}
      BY <1>1 DEF Wanted, If
    <3>6. QED BY <1>4, <2>3, <3>2, <3>3, <3>4, <3>5 DEF MayHold, Indexes
  <2>5. QED BY <1>1, <1>2, <1>4, <2>1, <2>2, <2>4, GotoQuiet DEF PastBatch
<1>5. QED BY <1>1, <1>3, <1>4 DEF InsertBatch

LEMMA InsertCandidateStep ==
  ASSUME ProposalInv, NEW p \in Attempts, InsertCandidate(p)
  PROVE  ProposalInv'
<1> DEFINE n == Len(plan[p].candidates)
<1>1. pc[p] = "insert_candidates" /\ UNCHANGED tables /\ pc[p] \in Working /\ Blockers(p) = {}
  BY DEF InsertCandidate, Working
<1>2. TypeOK /\ PlanFits(p) /\ OriginFits(p) /\ cmd[p].kind = "propose" /\ Proposing(p)
  BY <1>1, KindAt DEF ProposalInv, AttemptInv
<1>3. n \in Nat /\ row[p] \in 0 .. n
  BY <1>1, <1>2, PlanType DEF TypeOK, PastBatch
<1>4. CASE Finish(p, Answer("check_violation", Null)) \/ Finish(p, Answer("unique_violation", Null))
  BY <1>1, <1>4, FinishQuiet
<1>5. CASE row[p] = n /\ Goto(p, "commit")
  <2>1. /\ pc'[p] = "commit" /\ cmd' = cmd /\ plan' = plan /\ row' = row
        /\ "commit" \in Working
    BY <1>2, <1>5 DEF Goto, TypeOK, Working
  <2>2. ~Deciding(p) /\ ~Deciding(p)'
    BY <1>2, <2>1 DEF Deciding
  <2>3. OriginFits(p)' /\ DecisionFits(p)'
    BY <1>1, <1>2, <2>1, <2>2 DEF OriginFits, DecisionFits, PastSource, PastCapture, PastBatch,
                                  tables, Proposing
  <2>4. Held(p)' = Held(p)
    BY <1>1, <1>2, <2>1, <2>2, HeldStays DEF Working, PastSource, PastCapture, PastBatch
  <2>5. MayHold(p)
    BY <2>4 DEF MayHold
  <2>6. QED BY <1>1, <1>2, <1>5, <2>1, <2>3, <2>5, GotoQuiet DEF PastBatch
<1>6. CASE /\ row[p] # n /\ NextRow(p).id \notin Stored.candidate
           /\ row' = [row EXCEPT ![p] = @ + 1] /\ UNCHANGED <<pc, cmd, plan, reply>>
  <2>1. /\ row' \in [Attempts -> Nat] /\ row'[p] = row[p] + 1 /\ row'[p] \in 0 .. n
        /\ OthersKept(p) /\ pc' = pc /\ cmd' = cmd /\ plan' = plan /\ reply' = reply
    BY <1>2, <1>3, <1>6 DEF TypeOK, OthersKept, Kept
  <2>2. TypeOK'
    <3>1. ASSUME NEW q \in Attempts
          PROVE  (/\ plan[q] = Null <=> pc[q] \in {"idle", "extract", "done"}
                  /\ IF Proposing(q) /\ pc[q] \in PastBatch
                     THEN row[q] \in 0 .. Len(plan[q].candidates) ELSE row[q] = 0)'
      <4>1. CASE q = p
        BY <1>1, <1>2, <2>1, <4>1 DEF TypeOK, Proposing, PastBatch
      <4>2. CASE q # p
        BY <1>2, <2>1, <4>2 DEF TypeOK, OthersKept, Kept, Proposing
      <4>3. QED BY <4>1, <4>2
    <3>2. QED BY <1>1, <1>2, <2>1, <3>1, TablesKept DEF TypeOK
  <2>3. PlanFits(p)' /\ OriginFits(p)' /\ DecisionFits(p)'
    BY <1>1, <1>2, <2>1 DEF PlanFits, OriginFits, DecisionFits, Proposing, Deciding, tables
  <2>4. ASSUME NEW q \in Attempts \ {p} PROVE NextRow(p).id \notin Held(q).candidate
    <3>1. Wanted(p).candidate = {NextRow(p).id}
      BY <1>1, <1>3, <1>6 DEF Wanted, If
    <3>2. QED BY <1>1, <3>1 DEF Blockers, Indexes
  <2>5. MayHold(p)
    <3>0. Stored' = Stored
      BY <1>1, StoredKept
    <3>1. ASSUME NEW index \in Indexes, index # "candidate"
          PROVE  Held(p)'[index] = Held(p)[index]
      <4>1. /\ InTransaction(p)' = InTransaction(p) /\ Proposing(p)' = Proposing(p)
            /\ Deciding(p)' = Deciding(p) /\ RequestKey(p)' = RequestKey(p)
        BY <2>1 DEF InTransaction, Proposing, Deciding, RequestKey
      <4>2. /\ Held(p)'.record = Held(p).record /\ Held(p)'.source = Held(p).source
            /\ Held(p)'.capture = Held(p).capture /\ Held(p)'.batch = Held(p).batch
            /\ Held(p)'.decision = Held(p).decision /\ Held(p)'.version = Held(p).version
        BY <2>1, <3>0, <4>1 DEF Held, If, VersionKey
      <4>3. QED BY <3>1, <4>2 DEF Indexes
    <3>2. Held(p)'.candidate \subseteq Held(p).candidate \cup {NextRow(p).id}
      <4>1. ASSUME NEW i \in 1 .. row[p] + 1
            PROVE  plan[p].candidates[i].id \in
                     {plan[p].candidates[j].id : j \in 1 .. row[p]} \cup {NextRow(p).id}
        <5>1. i \in 1 .. row[p] \/ i = row[p] + 1
          BY <1>3
        <5>2. QED BY <5>1 DEF NextRow
      <4>2. QED BY <2>1, <4>1 DEF Held
    <3>3. Wanted(p).candidate = {NextRow(p).id}
      BY <1>1, <1>3, <1>6 DEF Wanted, If
    <3>4. QED BY <1>6, <2>4, <3>1, <3>2, <3>3 DEF MayHold, Indexes
  <2>6. QED BY <1>1, <2>1, <2>2, <2>3, <2>5, QuietStep DEF ProposalInv
<1>7. QED BY <1>1, <1>4, <1>5, <1>6 DEF InsertCandidate

LEMMA CheckDecisionStep ==
  ASSUME ProposalInv, NEW p \in Attempts, CheckDecision(p)
  PROVE  ProposalInv'
<1>1. pc[p] = "check_decision" /\ UNCHANGED tables /\ pc[p] \in Working
  BY DEF CheckDecision, Working
<1>2. TypeOK /\ PlanFits(p) /\ cmd[p].kind = "decide" /\ Deciding(p)
  BY <1>1, KindAt DEF ProposalInv, AttemptInv
<1>3. CASE Finish(p, Answer("not_found", Null)) \/ Finish(p, Answer("version_conflict", Null))
  BY <1>1, <1>3, FinishQuiet
<1>4. CASE /\ cmd[p].candidate \in Stored.candidate
           /\ LatestVersion(cmd[p].candidate, cmd[p].expected) /\ Goto(p, "insert_decision")
  <2>1. /\ pc'[p] = "insert_decision" /\ cmd' = cmd /\ plan' = plan /\ row' = row
        /\ "insert_decision" \in Working
    BY <1>2, <1>4 DEF Goto, TypeOK, Working
  <2>2. /\ cmd[p] \in Commands /\ plan[p] = DecisionOf(cmd[p]) /\ cmd[p].expected \in Nat
    BY <1>1, <1>2, PlanType, DecisionType
  <2>3. OriginFits(p)'
    BY <1>2, <2>1 DEF OriginFits, Proposing
  <2>4. DecisionFits(p)'
    <3>1. plan[p].candidate = cmd[p].candidate /\ plan[p].version = cmd[p].expected + 1
      BY <2>2 DEF DecisionOf
    <3>2. plan[p].candidate \in Ids(candidates)
      BY <1>4, <3>1 DEF Stored
    <3>3. plan[p].version = 1 \/ \E d \in decisions :
            d.candidate = plan[p].candidate /\ d.version + 1 = plan[p].version
      BY <1>4, <2>2, <3>1 DEF LatestVersion
    <3>4. QED BY <1>1, <2>1, <3>2, <3>3 DEF DecisionFits, tables, Ids
  <2>5. Held(p)' = Held(p)
    BY <1>1, <2>1, HeldStays DEF Working, PastSource, PastCapture, PastBatch
  <2>6. MayHold(p)
    BY <2>5 DEF MayHold
  <2>7. QED BY <1>1, <1>2, <1>4, <2>1, <2>3, <2>4, <2>6, GotoQuiet
<1>5. QED BY <1>3, <1>4 DEF CheckDecision

LEMMA InsertDecisionStep ==
  ASSUME ProposalInv, NEW p \in Attempts, InsertDecision(p)
  PROVE  ProposalInv'
<1>1. pc[p] = "insert_decision" /\ UNCHANGED tables /\ pc[p] \in Working /\ Blockers(p) = {}
  BY DEF InsertDecision, Working
<1>2. TypeOK /\ PlanFits(p) /\ DecisionFits(p) /\ cmd[p].kind = "decide" /\ Deciding(p)
  BY <1>1, KindAt DEF ProposalInv, AttemptInv
<1>3. CASE Finish(p, Answer("unique_violation", Null))
  BY <1>1, <1>3, FinishQuiet
<1>4. CASE /\ plan[p].id \notin Stored.decision /\ VersionKey(plan[p]) \notin Stored.version
           /\ Goto(p, "commit")
  <2>1. /\ pc'[p] = "commit" /\ cmd' = cmd /\ plan' = plan /\ row' = row
        /\ "commit" \in Working
    BY <1>2, <1>4 DEF Goto, TypeOK, Working
  <2>2. OriginFits(p)' /\ DecisionFits(p)'
    BY <1>1, <1>2, <2>1 DEF OriginFits, DecisionFits, Proposing, Deciding, tables, Ids
  <2>3. Wanted(p).decision = {plan[p].id} /\ Wanted(p).version = {VersionKey(plan[p])}
    BY <1>1 DEF Wanted, If
  <2>4. ASSUME NEW q \in Attempts \ {p}
        PROVE  plan[p].id \notin Held(q).decision /\ VersionKey(plan[p]) \notin Held(q).version
    BY <1>1, <2>3 DEF Blockers, Indexes
  <2>5. MayHold(p)
    <3>1. row[p] = 0 /\ ~Proposing(p)'
      BY <1>1, <1>2, <2>1 DEF TypeOK, PastBatch, Proposing
    <3>2. ASSUME NEW index \in Indexes, index \notin {"decision", "record", "version"}
          PROVE  Held(p)'[index] = {}
      BY <2>1, <3>1, <3>2 DEF Indexes, Held, If
    <3>3. Held(p)'.record \subseteq Held(p).record
      BY <1>1, <2>1 DEF Held, If, RequestKey, InTransaction, Working
    <3>4. Held(p)'.decision \subseteq {plan[p].id} /\ Held(p)'.version \subseteq {VersionKey(plan[p])}
      BY <2>1 DEF Held, If, VersionKey
    <3>5. QED BY <1>4, <2>3, <2>4, <3>2, <3>3, <3>4 DEF MayHold, Indexes
  <2>6. QED BY <1>1, <1>2, <1>4, <2>1, <2>2, <2>5, GotoQuiet
<1>5. QED BY <1>1, <1>3, <1>4 DEF InsertDecision

-----------------------------------------------------------------------------
(* Steps outside a transaction.                                            *)

LEMMA OutsideStep ==
  ASSUME ProposalInv, NEW p \in Attempts, pc[p] \in {"idle", "extract"}, OthersKept(p),
         UNCHANGED tables, pc' \in [Attempts -> Steps], cmd' \in [Attempts -> Commands \cup {Null}],
         plan' \in [Attempts -> Batch \cup Decision \cup {Null}], row' = row,
         DOMAIN reply' = Attempts, pc'[p] \in {"extract", "claim", "done"},
         plan'[p] = Null <=> pc'[p] # "claim", PlanFits(p)'
  PROVE  ProposalInv'
<1>1. TypeOK /\ row[p] = 0 /\ row'[p] = 0
  BY DEF ProposalInv, TypeOK, PastBatch
<1>2. TypeOK'
  <2>1. ASSUME NEW q \in Attempts
        PROVE  (/\ plan[q] = Null <=> pc[q] \in {"idle", "extract", "done"}
                /\ IF Proposing(q) /\ pc[q] \in PastBatch
                   THEN row[q] \in 0 .. Len(plan[q].candidates) ELSE row[q] = 0)'
    <3>1. CASE q = p
      BY <1>1, <3>1 DEF PastBatch
    <3>2. CASE q # p
      BY <1>1, <3>2 DEF TypeOK, OthersKept, Kept, Proposing
    <3>3. QED BY <3>1, <3>2
  <2>2. row' \in [Attempts -> Nat]
    BY <1>1 DEF TypeOK
  <2>3. QED BY <1>1, <2>1, <2>2, TablesKept DEF TypeOK
<1>3. OriginFits(p)' /\ DecisionFits(p)'
  BY DEF OriginFits, DecisionFits, PastSource, PastCapture, PastBatch
<1>4. \A index \in Indexes : Held(p)'[index] = {}
  BY <1>1 DEF Indexes, Held, If, InTransaction, PastSource, PastCapture, PastBatch, Working
<1>5. MayHold(p)
  BY <1>4 DEF MayHold, Indexes
<1>6. QED BY <1>2, <1>3, <1>5, QuietStep

LEMMA BeginStep ==
  ASSUME ProposalInv, NEW p \in Attempts, NEW c \in Commands, Begin(p, c)
  PROVE  ProposalInv'
<1>1. /\ TypeOK /\ DOMAIN reply = Attempts /\ pc[p] = "idle" /\ UNCHANGED tables /\ row' = row
      /\ cmd' = [cmd EXCEPT ![p] = c] /\ plan[p] = Null
  BY DEF ProposalInv, Begin, TypeOK
<1>2. c.kind \in {"propose", "decide"} /\ c # Null
  BY CommandAssumption
<1>3. cmd'[p] = c /\ cmd' \in [Attempts -> Commands \cup {Null}]
  BY <1>1 DEF TypeOK
<1>4. CASE Denied(c) = {} /\ c.kind = "propose"
  <2>1. /\ pc' = [pc EXCEPT ![p] = "extract"] /\ plan' = [plan EXCEPT ![p] = Null] /\ reply' = reply
    BY <1>4 DEF Begin
  <2>2. /\ pc' \in [Attempts -> Steps] /\ plan' \in [Attempts -> Batch \cup Decision \cup {Null}]
        /\ pc'[p] = "extract" /\ plan'[p] = Null /\ OthersKept(p)
    BY <1>1, <2>1 DEF TypeOK, Steps, OthersKept, Kept
  <2>3. PlanFits(p)'
    BY <1>3, <1>4, <2>2 DEF PlanFits, Proposing, Deciding, Working
  <2>4. QED BY <1>1, <1>3, <2>1, <2>2, <2>3, OutsideStep
<1>5. CASE Denied(c) = {} /\ c.kind = "decide"
  <2>0. DecisionOf(c) \in Decision /\ DecisionOf(c) # Null
    BY <1>5, DecisionType, CommandAssumption
  <2>1. /\ pc' = [pc EXCEPT ![p] = "claim"] /\ plan' = [plan EXCEPT ![p] = DecisionOf(c)]
        /\ reply' = reply
    BY <1>5 DEF Begin
  <2>2. /\ pc' \in [Attempts -> Steps] /\ plan' \in [Attempts -> Batch \cup Decision \cup {Null}]
        /\ pc'[p] = "claim" /\ plan'[p] = DecisionOf(c) /\ OthersKept(p)
    BY <1>1, <2>0, <2>1 DEF TypeOK, Steps, OthersKept, Kept, Working
  <2>3. PlanFits(p)'
    BY <1>3, <1>5, <2>2 DEF PlanFits, Proposing, Deciding, Working, PastSource, PastCapture, PastBatch
  <2>4. QED BY <1>1, <1>3, <2>0, <2>1, <2>2, <2>3, OutsideStep
<1>6. CASE \E code \in Denied(c) : /\ pc' = [pc EXCEPT ![p] = "done"] /\ plan' = plan
                                   /\ reply' = [reply EXCEPT ![p] = Answer("denied", code)]
  <2>2. /\ pc' \in [Attempts -> Steps] /\ plan' \in [Attempts -> Batch \cup Decision \cup {Null}]
        /\ pc'[p] = "done" /\ plan'[p] = Null /\ OthersKept(p) /\ DOMAIN reply' = Attempts
    BY <1>1, <1>6 DEF TypeOK, Steps, OthersKept, Kept
  <2>3. PlanFits(p)'
    BY <1>3, <2>2 DEF PlanFits, Proposing, Deciding, Working, PastSource, PastCapture, PastBatch
  <2>4. QED BY <1>1, <1>3, <2>2, <2>3, OutsideStep
<1>7. QED BY <1>2, <1>4, <1>5, <1>6 DEF Begin

LEMMA ExtractStep ==
  ASSUME ProposalInv, NEW p \in Attempts, Extract(p)
  PROVE  ProposalInv'
<1>1. /\ TypeOK /\ PlanFits(p) /\ DOMAIN reply = Attempts /\ pc[p] = "extract" /\ UNCHANGED tables
  BY DEF ProposalInv, Extract, AttemptInv
<1>2. PICK e \in Extractions :
        \/ \E code \in Problem(cmd[p], e) : Finish(p, Answer("failed", code))
        \/ /\ Problem(cmd[p], e) = {}
           /\ pc' = [pc EXCEPT ![p] = "claim"]
           /\ plan' = [plan EXCEPT ![p] = BatchOf(cmd[p], e)]
           /\ UNCHANGED <<cmd, row, reply>>
  BY DEF Extract
<1>3. CASE \E code \in Problem(cmd[p], e) : Finish(p, Answer("failed", code))
  BY <1>1, <1>3, FinishQuiet
<1>4. CASE /\ Problem(cmd[p], e) = {}
           /\ pc' = [pc EXCEPT ![p] = "claim"]
           /\ plan' = [plan EXCEPT ![p] = BatchOf(cmd[p], e)]
           /\ UNCHANGED <<cmd, row, reply>>
  <2>1. cmd[p] \in Commands /\ cmd[p].kind = "propose"
    BY <1>1 DEF PlanFits
  <2>2. Sound(BatchOf(cmd[p], e))
    BY <1>4, <2>1, ExtractedIsSound
  <2>3. BatchOf(cmd[p], e) \in Batch /\ BatchOf(cmd[p], e) # Null
    BY <2>2, CommandAssumption DEF Sound
  <2>4. /\ pc' \in [Attempts -> Steps] /\ plan' \in [Attempts -> Batch \cup Decision \cup {Null}]
        /\ pc'[p] = "claim" /\ plan'[p] = BatchOf(cmd[p], e) /\ OthersKept(p)
        /\ cmd' \in [Attempts -> Commands \cup {Null}]
    BY <1>1, <1>4, <2>3 DEF TypeOK, Steps, OthersKept, Kept, Working
  <2>5. PlanFits(p)'
    BY <1>4, <2>1, <2>2, <2>4 DEF PlanFits, Proposing, Deciding, Working, PastSource, PastCapture, PastBatch
  <2>6. QED BY <1>1, <1>4, <2>3, <2>4, <2>5, OutsideStep
<1>5. QED BY <1>2, <1>3, <1>4

-----------------------------------------------------------------------------
(* Commits.                                                                *)

RecordOf(p) ==
  [scope |-> cmd[p].kind, key |-> cmd[p].key, hash |-> plan[p], status |-> "succeeded",
   ref |-> plan[p].id]

\* In a transaction there is no record under its key.
LEMMA KeyUnused ==
  ASSUME ProposalInv, NEW p \in Attempts, InTransaction(p)
  PROVE  RecordsFor(p) = {}
<1>1. RequestKey(p) \in Held(p).record
  BY DEF Held, If
<1>2. RequestKey(p) \notin Stored.record
  BY <1>1 DEF ProposalInv, AttemptInv, KeysHeld, Indexes
<1>3. QED BY <1>2 DEF Stored, RecordsFor, RequestKey

\* What a commit of p leaves to itself and to the others.
LEMMA CommitEnds ==
  ASSUME ProposalInv, NEW p \in Attempts, Commit(p)
  PROVE  /\ pc[p] = "commit" /\ pc' \in [Attempts -> Steps] /\ row' \in [Attempts -> Nat]
         /\ plan' \in [Attempts -> Batch \cup Decision \cup {Null}] /\ DOMAIN reply' = Attempts
         /\ cmd' = cmd /\ pc'[p] = "done" /\ plan'[p] = Null /\ row'[p] = 0 /\ OthersKept(p)
         /\ records' = records \cup {RecordOf(p)}
         /\ audit' = audit \cup {AuditOf(cmd[p], plan[p])}
         /\ RecordsFor(p) = {}
         /\ \A index \in Indexes : Held(p)'[index] = {}
<1>1. TypeOK /\ DOMAIN reply = Attempts /\ KeysHeld(p) /\ pc[p] = "commit"
  BY DEF ProposalInv, AttemptInv, Commit
<1>2. Finish(p, Answer("committed", plan[p].id))
  BY DEF Commit
<1>3. /\ pc' \in [Attempts -> Steps] /\ row' \in [Attempts -> Nat] /\ DOMAIN reply' = Attempts
      /\ plan' \in [Attempts -> Batch \cup Decision \cup {Null}]
      /\ cmd' = cmd /\ pc'[p] = "done" /\ plan'[p] = Null /\ row'[p] = 0 /\ OthersKept(p)
  BY <1>1, <1>2 DEF Finish, TypeOK, Steps, OthersKept, Kept
<1>4. records' = records \cup {RecordOf(p)} /\ audit' = audit \cup {AuditOf(cmd[p], plan[p])}
  BY DEF Commit, Hash, RecordOf
<1>5. RecordsFor(p) = {}
  BY <1>1, KeyUnused DEF InTransaction, Working
<1>6. \A index \in Indexes : Held(p)'[index] = {}
  BY <1>3 DEF Indexes, Held, If, InTransaction, Proposing, Deciding, Working
<1>7. QED BY <1>1, <1>3, <1>4, <1>5, <1>6

\* The transaction of a batch adds its rows, all of them new but for a source
\* and capture that may have been there.
LEMMA CommitBatchRows ==
  ASSUME ProposalInv, NEW p \in Attempts, Commit(p), cmd[p].kind = "propose"
  PROVE  /\ Sound(plan[p]) /\ UNCHANGED decisions
         /\ sources' = sources \cup {plan[p].source} /\ captures' = captures \cup {plan[p].capture}
         /\ batches' = batches \cup {BatchRow(plan[p])}
         /\ candidates' = candidates \cup CandidatesOf(plan[p])
         /\ plan[p].id \notin Ids(batches)
         /\ \A k \in CandidatesOf(plan[p]) : k.id \notin Ids(candidates)
         /\ \A s \in sources : s.id = plan[p].source.id => s = plan[p].source
         /\ \A c \in captures : c.id = plan[p].capture.id => c = plan[p].capture
         /\ plan[p].source \notin sources => plan[p].source.id \in Held(p).source
         /\ plan[p].capture \notin captures => plan[p].capture.id \in Held(p).capture
<1> DEFINE b == plan[p]
<1>1. TypeOK /\ PlanFits(p) /\ KeysHeld(p) /\ OriginFits(p) /\ pc[p] = "commit" /\ pc[p] \in Working
  BY DEF ProposalInv, AttemptInv, Commit, Working
<1>2. /\ Proposing(p) /\ Sound(b) /\ row[p] = Len(b.candidates)
      /\ DOMAIN b.candidates = 1 .. Len(b.candidates)
  BY <1>1, PlanType DEF PlanFits
<1>3. /\ \A s \in sources : s.id = b.source.id => s = b.source
      /\ \A c \in captures : c.id = b.capture.id => c = b.capture
  BY <1>1, <1>2 DEF OriginFits, PastSource, PastCapture, PastBatch
<1>4. /\ Held(p).source = {b.source.id} \ Ids(sources)
      /\ Held(p).capture = {b.capture.id} \ Ids(captures)
      /\ Held(p).batch = {b.id}
  BY <1>1, <1>2 DEF Held, If, Stored, PastSource, PastCapture, PastBatch
<1>5. b.source \notin sources => b.source.id \in Held(p).source
  BY <1>3, <1>4 DEF Ids
<1>6. b.capture \notin captures => b.capture.id \in Held(p).capture
  BY <1>3, <1>4 DEF Ids
<1>7. sources' = sources \cup {b.source}
  <2>1. sources' = sources \cup If(Held(p).source # {}, {b.source})
    BY DEF Commit
  <2>2. CASE Held(p).source # {}
    BY <2>1, <2>2 DEF If
  <2>3. CASE Held(p).source = {}
    BY <2>1, <2>3, <1>5 DEF If
  <2>4. QED BY <2>2, <2>3
<1>8. captures' = captures \cup {b.capture}
  <2>1. captures' = captures \cup If(Held(p).capture # {}, {b.capture})
    BY DEF Commit
  <2>2. CASE Held(p).capture # {}
    BY <2>1, <2>2 DEF If
  <2>3. CASE Held(p).capture = {}
    BY <2>1, <2>3, <1>6 DEF If
  <2>4. QED BY <2>2, <2>3
<1>9. RowsInserted(p) = CandidatesOf(b)
  BY <1>2 DEF RowsInserted, CandidatesOf
<1>10. batches' = batches \cup {BatchRow(b)} /\ candidates' = candidates \cup CandidatesOf(b)
       /\ UNCHANGED decisions
  BY <1>9 DEF Commit
<1>11. b.id \notin Ids(batches)
  BY <1>1, <1>4 DEF KeysHeld, Indexes, Stored
<1>12. ASSUME NEW k \in CandidatesOf(b) PROVE k.id \notin Ids(candidates)
  <2>1. k.id \in Held(p).candidate
    BY <1>2 DEF Held, CandidatesOf
  <2>2. QED BY <1>1, <2>1 DEF KeysHeld, Indexes, Stored
<1>13. QED BY <1>2, <1>3, <1>5, <1>6, <1>7, <1>8, <1>10, <1>11, <1>12

LEMMA CommitDecisionRow ==
  ASSUME ProposalInv, NEW p \in Attempts, Commit(p), cmd[p].kind = "decide"
  PROVE  /\ plan[p] \in Decision /\ UNCHANGED <<sources, captures, batches, candidates>>
         /\ decisions' = decisions \cup {plan[p]}
         /\ plan[p].id \notin Ids(decisions)
         /\ \A d \in decisions : VersionKey(d) # VersionKey(plan[p])
         /\ plan[p].candidate \in Ids(candidates)
         /\ plan[p].version = 1 \/ \E d \in decisions :
              d.candidate = plan[p].candidate /\ d.version + 1 = plan[p].version
<1>1. TypeOK /\ PlanFits(p) /\ KeysHeld(p) /\ DecisionFits(p) /\ pc[p] = "commit" /\ pc[p] \in Working
  BY DEF ProposalInv, AttemptInv, Commit, Working
<1>2. Deciding(p) /\ plan[p] \in Decision
  BY <1>1, PlanType
<1>3. Held(p).decision = {plan[p].id} /\ Held(p).version = {VersionKey(plan[p])}
  BY <1>1, <1>2 DEF Held, If
<1>4. plan[p].id \notin Ids(decisions) /\ \A d \in decisions : VersionKey(d) # VersionKey(plan[p])
  BY <1>1, <1>3 DEF KeysHeld, Indexes, Stored
<1>5. /\ UNCHANGED <<sources, captures, batches, candidates>>
      /\ decisions' = decisions \cup {plan[p]}
  BY DEF Commit
<1>6. QED BY <1>1, <1>2, <1>4, <1>5 DEF DecisionFits

\* What a commit stores is what it held.
LEMMA StoredGrows ==
  ASSUME ProposalInv, NEW p \in Attempts, Commit(p), NEW index \in Indexes
  PROVE  Stored[index] \subseteq Stored'[index] /\ Stored'[index] \subseteq Stored[index] \cup Held(p)[index]
<1>1. TypeOK /\ PlanFits(p) /\ pc[p] = "commit" /\ pc[p] \in Working
  BY DEF ProposalInv, AttemptInv, Commit, Working
<1>2. cmd[p].kind \in {"propose", "decide"}
  BY <1>1, PlanType
<1>3. Stored.record \subseteq Stored'.record /\ Stored'.record \subseteq Stored.record \cup Held(p).record
  <2>1. Stored'.record = Stored.record \cup {RequestKey(p)}
    <3>1. records' = records \cup {RecordOf(p)}
      BY CommitEnds
    <3>2. RecordOf(p).scope = cmd[p].kind /\ RecordOf(p).key = cmd[p].key
      BY DEF RecordOf
    <3>3. QED BY <3>1, <3>2 DEF Stored, RequestKey
  <2>2. Held(p).record = {RequestKey(p)}
    BY <1>1 DEF Held, If, InTransaction, Working
  <2>3. QED BY <2>1, <2>2
<1>4. CASE cmd[p].kind = "propose"
  <2>1. Proposing(p) /\ row[p] = Len(plan[p].candidates)
        /\ DOMAIN plan[p].candidates = 1 .. Len(plan[p].candidates)
    BY <1>1, <1>4, PlanType DEF PlanFits
  <2>2. Stored.source \subseteq Stored'.source /\ Stored'.source \subseteq Stored.source \cup Held(p).source
    BY <1>4, CommitBatchRows DEF Stored, Ids
  <2>3. /\ Stored.capture \subseteq Stored'.capture
        /\ Stored'.capture \subseteq Stored.capture \cup Held(p).capture
    BY <1>4, CommitBatchRows DEF Stored, Ids
  <2>4. Held(p).batch = {plan[p].id}
    BY <1>1, <2>1 DEF Held, If, PastBatch
  <2>5. Stored.batch \subseteq Stored'.batch /\ Stored'.batch \subseteq Stored.batch \cup Held(p).batch
    BY <1>4, <2>4, CommitBatchRows DEF Stored, Ids, BatchRow
  <2>6. Held(p).candidate = Ids(CandidatesOf(plan[p]))
    BY <2>1 DEF Held, Ids, CandidatesOf
  <2>7. /\ Stored.candidate \subseteq Stored'.candidate
        /\ Stored'.candidate \subseteq Stored.candidate \cup Held(p).candidate
    BY <1>4, <2>6, CommitBatchRows DEF Stored, Ids
  <2>8. Stored'.decision = Stored.decision /\ Stored'.version = Stored.version
    BY <1>4, CommitBatchRows DEF Stored, Ids, VersionKey
  <2>9. QED BY <1>3, <2>2, <2>3, <2>5, <2>7, <2>8 DEF Indexes
<1>5. CASE cmd[p].kind = "decide"
  <2>1. Deciding(p)
    BY <1>1, <1>5, PlanType
  <2>2. Held(p).decision = {plan[p].id} /\ Held(p).version = {VersionKey(plan[p])}
    BY <1>1, <2>1 DEF Held, If
  <2>3. /\ Stored'.source = Stored.source /\ Stored'.capture = Stored.capture
        /\ Stored'.batch = Stored.batch /\ Stored'.candidate = Stored.candidate
    BY <1>5, CommitDecisionRow DEF Stored, Ids
  <2>4. /\ Stored'.decision = Stored.decision \cup {plan[p].id}
        /\ Stored'.version = Stored.version \cup {VersionKey(plan[p])}
    BY <1>5, CommitDecisionRow DEF Stored, Ids, VersionKey
  <2>5. QED BY <1>3, <2>2, <2>3, <2>4 DEF Indexes
<1>6. QED BY <1>2, <1>4, <1>5

\* The other attempts rely on nothing that a commit of p could take away.
LEMMA CommitLeavesOthers ==
  ASSUME ProposalInv, NEW p \in Attempts, Commit(p), NEW q \in Attempts \ {p}
  PROVE  AttemptInv(q)'
<1>1. Kept(q) /\ cmd' = cmd /\ AttemptInv(q)
  BY CommitEnds DEF OthersKept, ProposalInv
<1>2. cmd[p].kind \in {"propose", "decide"}
  <2>1. TypeOK /\ PlanFits(p) /\ pc[p] \in Working
    BY DEF ProposalInv, AttemptInv, Commit, Working
  <2>2. QED BY <2>1, PlanType
<1>3. PlanFits(q)'
  BY <1>1 DEF AttemptInv, PlanFits, Kept, Proposing, Deciding
<1>4. ASSUME NEW o \in Attempts \ {p}, NEW index \in Indexes
      PROVE  Held(o)'[index] \subseteq Held(o)[index]
  <2>1. Kept(o)
    BY CommitEnds DEF OthersKept
  <2>2. /\ InTransaction(o)' = InTransaction(o) /\ Proposing(o)' = Proposing(o)
        /\ Deciding(o)' = Deciding(o) /\ RequestKey(o)' = RequestKey(o)
    BY <2>1 DEF Kept, InTransaction, Proposing, Deciding, RequestKey
  <2>3. Stored.source \subseteq Stored'.source /\ Stored.capture \subseteq Stored'.capture
    BY StoredGrows DEF Indexes
  <2>4. /\ Held(o)'.record = Held(o).record /\ Held(o)'.batch = Held(o).batch
        /\ Held(o)'.candidate = Held(o).candidate
        /\ Held(o)'.decision = Held(o).decision /\ Held(o)'.version = Held(o).version
    BY <2>1, <2>2 DEF Held, If, VersionKey, Kept
  <2>5. Held(o)'.source \subseteq Held(o).source /\ Held(o)'.capture \subseteq Held(o).capture
    BY <2>1, <2>2, <2>3 DEF Held, If, Kept
  <2>6. QED BY <2>4, <2>5 DEF Indexes
<1>5. KeysHeld(q)'
  <2>1. ASSUME NEW index \in Indexes
        PROVE  /\ Held(q)'[index] \cap Stored'[index] = {}
               /\ \A o \in Attempts \ {q} : Held(q)'[index] \cap Held(o)'[index] = {}
    <3>1. /\ Held(q)[index] \cap Stored[index] = {}
          /\ \A o \in Attempts \ {q} : Held(q)[index] \cap Held(o)[index] = {}
      BY <1>1 DEF AttemptInv, KeysHeld
    <3>2. Stored'[index] \subseteq Stored[index] \cup Held(p)[index]
      BY StoredGrows
    <3>3. Held(q)'[index] \subseteq Held(q)[index]
      BY <1>4
    <3>4. Held(q)'[index] \cap Stored'[index] = {}
      BY <3>1, <3>2, <3>3
    <3>5. ASSUME NEW o \in Attempts \ {q} PROVE Held(q)'[index] \cap Held(o)'[index] = {}
      <4>1. CASE o = p
        BY <4>1, CommitEnds
      <4>2. CASE o # p
        BY <4>2, <1>4, <3>1, <3>3
      <4>3. QED BY <4>1, <4>2
    <3>6. QED BY <3>4, <3>5
  <2>2. QED BY <2>1 DEF KeysHeld, Indexes
<1>6. OriginFits(q)'
  <2>1. CASE cmd[p].kind = "decide"
    BY <1>1, <2>1, CommitDecisionRow DEF AttemptInv, OriginFits, Kept, Proposing
  <2>2. CASE cmd[p].kind = "propose"
    <3> SUFFICES ASSUME Proposing(q)
                 PROVE  /\ pc[q] \in PastSource =>
                             \A s \in sources' : s.id = plan[q].source.id => s = plan[q].source
                        /\ pc[q] \in PastCapture =>
                             \A c \in captures' : c.id = plan[q].capture.id => c = plan[q].capture
      BY <1>1 DEF OriginFits, Kept, Proposing
    <3>0. /\ Held(q).source \cap Held(p).source = {} /\ Held(q).capture \cap Held(p).capture = {}
      BY <1>1 DEF AttemptInv, KeysHeld, Indexes
    <3>1. ASSUME pc[q] \in PastSource, NEW s \in sources', s.id = plan[q].source.id
          PROVE  s = plan[q].source
      <4>1. CASE s \in sources
        BY <1>1, <3>1, <4>1 DEF AttemptInv, OriginFits
      <4>2. CASE s \notin sources
        <5>1. s = plan[p].source /\ s.id \in Held(p).source
          BY <2>2, <3>1, <4>2, CommitBatchRows
        <5>2. s.id \notin Stored.source
          BY <5>1 DEF ProposalInv, AttemptInv, KeysHeld, Indexes
        <5>3. s.id \in Held(q).source
          BY <3>1, <5>2 DEF Held, If
        <5>4. QED BY <3>0, <5>1, <5>3
      <4>3. QED BY <4>1, <4>2
    <3>2. ASSUME pc[q] \in PastCapture, NEW c \in captures', c.id = plan[q].capture.id
          PROVE  c = plan[q].capture
      <4>1. CASE c \in captures
        BY <1>1, <3>2, <4>1 DEF AttemptInv, OriginFits
      <4>2. CASE c \notin captures
        <5>1. c = plan[p].capture /\ c.id \in Held(p).capture
          BY <2>2, <3>2, <4>2, CommitBatchRows
        <5>2. c.id \notin Stored.capture
          BY <5>1 DEF ProposalInv, AttemptInv, KeysHeld, Indexes
        <5>3. c.id \in Held(q).capture
          BY <3>2, <5>2 DEF Held, If
        <5>4. QED BY <3>0, <5>1, <5>3
      <4>3. QED BY <4>1, <4>2
    <3>3. QED BY <3>1, <3>2
  <2>3. QED BY <1>2, <2>1, <2>2
<1>7. DecisionFits(q)'
  <2>1. decisions \subseteq decisions' /\ Ids(candidates) \subseteq Ids(candidates')
    BY <1>2, CommitBatchRows, CommitDecisionRow DEF Ids
  <2>2. QED BY <1>1, <2>1 DEF AttemptInv, DecisionFits, Kept, Deciding
<1>8. QED BY <1>3, <1>5, <1>6, <1>7 DEF AttemptInv

LEMMA CommitOwn ==
  ASSUME ProposalInv, NEW p \in Attempts, Commit(p)
  PROVE  AttemptInv(p)'
<1>1. pc'[p] = "done" /\ cmd' = cmd /\ cmd[p] \in Commands
  BY CommitEnds DEF ProposalInv, AttemptInv, PlanFits
<1>2. PlanFits(p)' /\ OriginFits(p)' /\ DecisionFits(p)'
  BY <1>1 DEF PlanFits, OriginFits, DecisionFits, Proposing, Deciding, Working, PastSource,
              PastCapture, PastBatch
<1>3. KeysHeld(p)'
  BY CommitEnds DEF KeysHeld, Indexes
<1>4. QED BY <1>2, <1>3 DEF AttemptInv

LEMMA CommitType ==
  ASSUME ProposalInv, NEW p \in Attempts, Commit(p)
  PROVE  TypeOK'
<1>1. TypeOK /\ cmd[p].kind \in {"propose", "decide"}
  <2>1. TypeOK /\ PlanFits(p) /\ pc[p] \in Working
    BY DEF ProposalInv, AttemptInv, Commit, Working
  <2>2. QED BY <2>1, PlanType
<1>2. \A r, s \in records' : r.scope = s.scope /\ r.key = s.key => r = s
  <2>1. RecordOf(p).scope = cmd[p].kind /\ RecordOf(p).key = cmd[p].key
    BY DEF RecordOf
  <2>2. \A r \in records : ~(r.scope = cmd[p].kind /\ r.key = cmd[p].key)
    BY CommitEnds DEF RecordsFor
  <2>3. records' = records \cup {RecordOf(p)}
    BY CommitEnds
  <2>4. \A r, s \in records : r.scope = s.scope /\ r.key = s.key => r = s
    BY <1>1 DEF TypeOK
  <2>5. QED BY <2>1, <2>2, <2>3, <2>4
<1>3. ASSUME NEW q \in Attempts
      PROVE  (/\ plan[q] = Null <=> pc[q] \in {"idle", "extract", "done"}
              /\ IF Proposing(q) /\ pc[q] \in PastBatch
                 THEN row[q] \in 0 .. Len(plan[q].candidates) ELSE row[q] = 0)'
  <2>1. CASE q = p
    BY <2>1, CommitEnds DEF PastBatch
  <2>2. CASE q # p
    BY <1>1, <2>2, CommitEnds DEF TypeOK, OthersKept, Kept, Proposing
  <2>3. QED BY <2>1, <2>2
<1>4. CASE cmd[p].kind = "propose"
  <2> DEFINE b == plan[p]
  <2>1. /\ b.capture.source = b.source.id /\ \A k \in CandidatesOf(b) : k.batch = b.id
        /\ \A k, l \in CandidatesOf(b) : k.id = l.id => k = l
    BY <1>4, CommitBatchRows DEF Sound, CandidatesOf
  <2> HIDE DEF b
  <2>2. /\ sources' = sources \cup {b.source} /\ captures' = captures \cup {b.capture}
        /\ batches' = batches \cup {BatchRow(b)} /\ candidates' = candidates \cup CandidatesOf(b)
        /\ decisions' = decisions /\ b.id \notin Ids(batches)
        /\ \A k \in CandidatesOf(b) : k.id \notin Ids(candidates)
        /\ \A s \in sources : s.id = b.source.id => s = b.source
        /\ \A c \in captures : c.id = b.capture.id => c = b.capture
    BY <1>4, CommitBatchRows DEF b
  <2>3. /\ BatchRow(b).id = b.id /\ BatchRow(b).source = b.source.id
        /\ BatchRow(b).capture = b.capture.id
    BY DEF BatchRow
  <2>4. UniqueIds(sources') /\ UniqueIds(captures')
    BY <1>1, <2>2 DEF TypeOK, UniqueIds
  <2>5. UniqueIds(batches')
    BY <1>1, <2>2, <2>3 DEF TypeOK, UniqueIds, Ids
  <2>6. UniqueIds(candidates')
    BY <1>1, <2>1, <2>2 DEF TypeOK, UniqueIds, Ids
  <2>7. \A c \in captures' : c.source \in Ids(sources')
    BY <1>1, <2>1, <2>2 DEF TypeOK, Ids
  <2>8. \A x \in batches' : \E c \in captures' : c.id = x.capture /\ c.source = x.source
    BY <1>1, <2>1, <2>2, <2>3 DEF TypeOK
  <2>9. \A k \in candidates' : k.batch \in Ids(batches')
    BY <1>1, <2>1, <2>2, <2>3 DEF TypeOK, Ids
  <2>10. UniqueIds(decisions') /\ \A d \in decisions' : d.candidate \in Ids(candidates')
    BY <1>1, <2>2 DEF TypeOK, Ids
  <2>11. QED BY <1>1, <1>2, <1>3, <2>4, <2>5, <2>6, <2>7, <2>8, <2>9, <2>10, CommitEnds DEF TypeOK
<1>5. CASE cmd[p].kind = "decide"
  <2>1. UniqueIds(decisions')
    BY <1>1, <1>5, CommitDecisionRow DEF TypeOK, UniqueIds, Ids
  <2>2. \A d \in decisions' : d.candidate \in Ids(candidates')
    BY <1>1, <1>5, CommitDecisionRow DEF TypeOK, Ids
  <2>3. UNCHANGED <<sources, captures, batches, candidates>>
    BY <1>5, CommitDecisionRow
  <2>4. QED BY <1>1, <1>2, <1>3, <2>1, <2>2, <2>3, CommitEnds DEF TypeOK
<1>6. QED BY <1>1, <1>4, <1>5

\* One more version after the last leaves no gap.
LEMMA NumberedGrows ==
  ASSUME NEW S, IsFiniteSet(S), Numbered(S), NEW d, d.version \in Nat \ {0},
         \A e \in S : e.version # d.version,
         d.version = 1 \/ \E e \in S : e.version + 1 = d.version
  PROVE  IsFiniteSet(S \cup {d}) /\ Numbered(S \cup {d})
<1> DEFINE n == Cardinality(S)
<1>1. n \in Nat /\ {e.version : e \in S} = 1 .. n
  BY FS_CardinalityType DEF Numbered
<1>2. d \notin S
  OBVIOUS
<1>3. IsFiniteSet(S \cup {d}) /\ Cardinality(S \cup {d}) = n + 1
  BY <1>2, FS_AddElement
<1>4. d.version \notin 1 .. n
  BY <1>1
<1>5. d.version = 1 \/ d.version - 1 \in 1 .. n
  <2>1. ASSUME NEW e \in S, e.version + 1 = d.version PROVE d.version - 1 \in 1 .. n
    <3>1. e.version \in 1 .. n
      BY <1>1
    <3>2. QED BY <1>1, <2>1, <3>1
  <2>2. QED BY <2>1
<1>6. d.version = n + 1
  BY <1>1, <1>4, <1>5
<1>7. {e.version : e \in S \cup {d}} = {e.version : e \in S} \cup {d.version}
  OBVIOUS
<1>8. (1 .. n) \cup {n + 1} = 1 .. n + 1
  BY <1>1
<1>9. QED BY <1>1, <1>3, <1>6, <1>7, <1>8 DEF Numbered

LEMMA CommitCounted ==
  ASSUME ProposalInv, NEW p \in Attempts, Commit(p), cmd[p].kind = "decide"
  PROVE  Counted' /\ VersionsUnique'
<1>1. /\ plan[p] \in Decision /\ plan[p].version \in Nat \ {0}
      /\ decisions' = decisions \cup {plan[p]}
      /\ \A d \in decisions : VersionKey(d) # VersionKey(plan[p])
      /\ plan[p].version = 1 \/ \E d \in decisions :
           d.candidate = plan[p].candidate /\ d.version + 1 = plan[p].version
  BY CommitDecisionRow DEF Decision
<1>2. VersionsUnique'
  BY <1>1 DEF ProposalInv, VersionsUnique, VersionKey
<1>3. ASSUME NEW k PROVE (IsFiniteSet(DecisionsOf(k)) /\ Numbered(DecisionsOf(k)))'
  <2> DEFINE S == DecisionsOf(k)
  <2>1. IsFiniteSet(S) /\ Numbered(S)
    BY DEF ProposalInv, Counted
  <2>2. CASE plan[p].candidate = k
    <3>1. DecisionsOf(k)' = S \cup {plan[p]}
      BY <1>1, <2>2 DEF DecisionsOf
    <3>2. /\ \A e \in S : e.version # plan[p].version
          /\ plan[p].version = 1 \/ \E e \in S : e.version + 1 = plan[p].version
      BY <1>1, <2>2 DEF DecisionsOf, VersionKey
    <3> HIDE DEF S
    <3>3. IsFiniteSet(S \cup {plan[p]}) /\ Numbered(S \cup {plan[p]})
      BY <1>1, <2>1, <3>2, NumberedGrows
    <3>4. QED BY <3>1, <3>3 DEF Numbered
  <2>3. CASE plan[p].candidate # k
    <3>1. DecisionsOf(k)' = S
      BY <1>1, <2>3 DEF DecisionsOf
    <3>2. QED BY <2>1, <3>1 DEF Numbered
  <2>4. QED BY <2>2, <2>3
<1>4. QED BY <1>2, <1>3 DEF Counted

\* The tables go on telling what the records say was stored.
LEMMA CommitAllOrNothing ==
  ASSUME ProposalInv, NEW p \in Attempts, Commit(p)
  PROVE  AllOrNothing' /\ RecordsTell'
<1> DEFINE new == RecordOf(p)
           stored(scope) == {r.hash : r \in {x \in records : x.scope = scope}}
           then(scope) == {r.hash : r \in {x \in records' : x.scope = scope}}
<1>1. /\ cmd[p].kind \in {"propose", "decide"} /\ AllOrNothing /\ RecordsTell /\ pc[p] \in Working
      /\ TypeOK /\ PlanFits(p)
  <2>1. TypeOK /\ PlanFits(p) /\ pc[p] \in Working /\ AllOrNothing /\ RecordsTell
    BY DEF ProposalInv, AttemptInv, Commit, Working
  <2>2. QED BY <2>1, PlanType
<1>2. /\ new.scope = cmd[p].kind /\ new.key = cmd[p].key /\ new.hash = plan[p]
      /\ new.status = "succeeded" /\ new.ref = plan[p].id
  BY DEF RecordOf
<1>3. records' = records \cup {new} /\ audit' = audit \cup {AuditOf(cmd[p], plan[p])}
  BY CommitEnds
<1>4. /\ then(cmd[p].kind) = stored(cmd[p].kind) \cup {plan[p]}
      /\ \A scope : scope # cmd[p].kind => then(scope) = stored(scope)
  <2> HIDE DEF new
  <2>1. QED BY <1>2, <1>3
<1>5. /\ sources = {b.source : b \in stored("propose")}
      /\ captures = {b.capture : b \in stored("propose")}
      /\ batches = {BatchRow(b) : b \in stored("propose")}
      /\ candidates = UNION {CandidatesOf(b) : b \in stored("propose")}
      /\ decisions = stored("decide")
      /\ audit = {AuditOf([kind |-> r.scope, key |-> r.key], r.hash) : r \in records}
      /\ \A r, s \in records : r.scope = s.scope /\ r.hash.id = s.hash.id => r = s
  BY <1>1 DEF AllOrNothing
<1>6. audit' = {AuditOf([kind |-> r.scope, key |-> r.key], r.hash) : r \in records'}
  <2>1. AuditOf([kind |-> new.scope, key |-> new.key], new.hash) = AuditOf(cmd[p], plan[p])
    BY <1>2 DEF AuditOf
  <2> HIDE DEF new
  <2>2. QED BY <1>3, <1>5, <2>1
<1>7. \A r, s \in records' : r.scope = s.scope /\ r.hash.id = s.hash.id => r = s
  <2>1. ASSUME NEW r \in records, r.scope = cmd[p].kind PROVE r.hash.id # plan[p].id
    <3>1. r.hash \in stored(cmd[p].kind)
      BY <2>1
    <3>2. CASE cmd[p].kind = "propose"
      <4>1. BatchRow(r.hash) \in batches /\ BatchRow(r.hash).id = r.hash.id
        BY <1>5, <3>1, <3>2 DEF BatchRow
      <4>2. QED BY <3>2, <4>1, CommitBatchRows DEF Ids
    <3>3. CASE cmd[p].kind = "decide"
      <4>1. r.hash \in decisions
        BY <1>5, <3>1, <3>3
      <4>2. QED BY <3>3, <4>1, CommitDecisionRow DEF Ids
    <3>4. QED BY <1>1, <3>2, <3>3
  <2> HIDE DEF new
  <2>2. QED BY <1>2, <1>3, <1>5, <2>1
<1>8. /\ sources' = {b.source : b \in then("propose")}
      /\ captures' = {b.capture : b \in then("propose")}
      /\ batches' = {BatchRow(b) : b \in then("propose")}
      /\ candidates' = UNION {CandidatesOf(b) : b \in then("propose")}
      /\ decisions' = then("decide")
  <2> HIDE DEF stored, then
  <2>1. CASE cmd[p].kind = "propose"
    <3>1. /\ then("propose") = stored("propose") \cup {plan[p]} /\ then("decide") = stored("decide")
      BY <1>4, <2>1
    <3>2. /\ sources' = sources \cup {plan[p].source} /\ captures' = captures \cup {plan[p].capture}
          /\ batches' = batches \cup {BatchRow(plan[p])}
          /\ candidates' = candidates \cup CandidatesOf(plan[p]) /\ decisions' = decisions
      BY <2>1, CommitBatchRows
    <3>3. sources' = {b.source : b \in then("propose")}
      BY <1>5, <3>1, <3>2
    <3>4. captures' = {b.capture : b \in then("propose")}
      BY <1>5, <3>1, <3>2
    <3>5. batches' = {BatchRow(b) : b \in then("propose")}
      BY <1>5, <3>1, <3>2
    <3>6. candidates' = UNION {CandidatesOf(b) : b \in then("propose")}
      BY <1>5, <3>1, <3>2
    <3>7. QED BY <1>5, <3>1, <3>2, <3>3, <3>4, <3>5, <3>6
  <2>2. CASE cmd[p].kind = "decide"
    <3>1. /\ then("decide") = stored("decide") \cup {plan[p]} /\ then("propose") = stored("propose")
      BY <1>4, <2>2
    <3>2. QED BY <1>5, <2>2, <3>1, CommitDecisionRow
  <2>3. QED BY <1>1, <2>1, <2>2
<1>9. AllOrNothing'
  BY <1>6, <1>7, <1>8 DEF AllOrNothing
<1>10. RecordsTell'
  <2>1. \/ new.scope = "propose" /\ Sound(new.hash)
        \/ new.scope = "decide" /\ new.hash \in Decision
    BY <1>1, <1>2, CommitBatchRows, CommitDecisionRow
  <2> HIDE DEF new
  <2>2. QED BY <1>1, <1>2, <1>3, <2>1 DEF RecordsTell
<1>11. QED BY <1>9, <1>10

LEMMA CommitStep ==
  ASSUME ProposalInv, NEW p \in Attempts, Commit(p)
  PROVE  ProposalInv'
<1>1. \A q \in Attempts : AttemptInv(q)'
  BY CommitOwn, CommitLeavesOthers
<1>2. cmd[p].kind \in {"propose", "decide"}
  <2>1. TypeOK /\ PlanFits(p) /\ pc[p] \in Working
    BY DEF ProposalInv, AttemptInv, Commit, Working
  <2>2. QED BY <2>1, PlanType
<1>3. Counted' /\ VersionsUnique'
  <2>1. CASE cmd[p].kind = "propose"
    <3>1. decisions' = decisions
      BY <2>1, CommitBatchRows
    <3>2. QED BY <3>1 DEF ProposalInv, Counted, VersionsUnique, DecisionsOf, Numbered, VersionKey
  <2>2. QED BY <1>2, <2>1, CommitCounted
<1>4. QED BY <1>1, <1>3, CommitType, CommitAllOrNothing, CommitEnds DEF ProposalInv

-----------------------------------------------------------------------------
(* The invariant.                                                          *)

LEMMA InitInv == Init => ProposalInv
<1> SUFFICES ASSUME Init PROVE ProposalInv
  OBVIOUS
<1> DEFINE seed(b) == [scope |-> "propose", key |-> b.id, hash |-> b, status |-> "succeeded",
                       ref |-> b.id]
<1>1. /\ sources = {b.source : b \in SeedBatches} /\ captures = {b.capture : b \in SeedBatches}
      /\ batches = {BatchRow(b) : b \in SeedBatches}
      /\ candidates = UNION {CandidatesOf(b) : b \in SeedBatches}
      /\ decisions = {} /\ records = {seed(b) : b \in SeedBatches}
      /\ audit = {AuditOf([kind |-> "propose", key |-> b.id], b) : b \in SeedBatches}
  BY DEF Init
<1>2. \A p \in Attempts : pc[p] = "idle" /\ plan[p] = Null /\ row[p] = 0
  BY DEF Init
<1>3. TypeOK
  <2>1. UniqueIds(sources) /\ UniqueIds(captures) /\ UniqueIds(candidates) /\ UniqueIds(decisions)
    BY <1>1, SeedAssumption DEF UniqueIds
  <2>2. UniqueIds(batches)
    BY <1>1, SeedAssumption DEF UniqueIds, BatchRow
  <2>3. \A c \in captures : c.source \in Ids(sources)
    BY <1>1, SeedAssumption DEF Ids, Sound
  <2>4. \A b \in batches : \E c \in captures : c.id = b.capture /\ c.source = b.source
    BY <1>1, SeedAssumption DEF BatchRow, Sound
  <2>5. \A k \in candidates : k.batch \in Ids(batches)
    <3>1. ASSUME NEW b \in SeedBatches, NEW k \in CandidatesOf(b) PROVE k.batch \in Ids(batches)
      <4>1. k.batch = b.id
        BY SeedAssumption DEF Sound
      <4>2. BatchRow(b) \in batches /\ BatchRow(b).id = b.id
        BY <1>1 DEF BatchRow
      <4>3. QED BY <4>1, <4>2 DEF Ids
    <3>2. QED BY <1>1, <3>1
  <2>6. \A r, s \in records : r.scope = s.scope /\ r.key = s.key => r = s
    BY <1>1, SeedAssumption DEF UniqueIds
  <2>7. /\ pc \in [Attempts -> Steps] /\ cmd \in [Attempts -> Commands \cup {Null}]
        /\ plan \in [Attempts -> Batch \cup Decision \cup {Null}] /\ row \in [Attempts -> Nat]
    BY DEF Init, Steps
  <2>8. QED BY <1>1, <1>2, <2>1, <2>2, <2>3, <2>4, <2>5, <2>6, <2>7 DEF TypeOK, PastBatch
<1>4. \A p \in Attempts, index \in Indexes : Held(p)[index] = {}
  BY <1>2 DEF Indexes, Held, If, InTransaction, Proposing, Deciding, Working
<1>5. \A p \in Attempts : AttemptInv(p)
  BY <1>2, <1>4 DEF AttemptInv, PlanFits, KeysHeld, OriginFits, DecisionFits, Proposing, Deciding,
                    Working, PastSource, PastCapture, PastBatch, Indexes
<1>6. RecordsTell
  BY <1>1, SeedAssumption DEF RecordsTell
<1>7. AllOrNothing
  <2> DEFINE stored(scope) == {r.hash : r \in {x \in records : x.scope = scope}}
  <2>0. \A b : seed(b).scope = "propose" /\ seed(b).hash = b /\ seed(b).key = b.id
    OBVIOUS
  <2>1. stored("propose") = SeedBatches /\ stored("decide") = {}
    <3> HIDE DEF seed
    <3>1. QED BY <1>1, <2>0
  <2>2. audit = {AuditOf([kind |-> r.scope, key |-> r.key], r.hash) : r \in records}
    <3> DEFINE told(r) == AuditOf([kind |-> r.scope, key |-> r.key], r.hash)
               first(b) == AuditOf([kind |-> "propose", key |-> b.id], b)
    <3>1. \A b : told(seed(b)) = first(b)
      BY <2>0 DEF AuditOf
    <3>2. audit = {first(b) : b \in SeedBatches} /\ records = {seed(b) : b \in SeedBatches}
      BY <1>1
    <3> HIDE DEF seed, told, first
    <3>3. audit = {told(r) : r \in records}
      BY <3>1, <3>2
    <3>4. QED BY <3>3 DEF told
  <2>3. \A r, s \in records : r.scope = s.scope /\ r.hash.id = s.hash.id => r = s
    BY <1>1, SeedAssumption DEF UniqueIds
  <2> HIDE DEF stored
  <2>4. /\ sources = {b.source : b \in stored("propose")}
        /\ captures = {b.capture : b \in stored("propose")}
        /\ batches = {BatchRow(b) : b \in stored("propose")}
        /\ candidates = UNION {CandidatesOf(b) : b \in stored("propose")}
        /\ decisions = stored("decide")
    BY <1>1, <2>1
  <2>5. QED BY <2>2, <2>3, <2>4 DEF AllOrNothing, stored
<1>8. VersionsUnique /\ Counted
  <2>1. \A k : DecisionsOf(k) = {}
    BY <1>1 DEF DecisionsOf
  <2>2. IsFiniteSet({}) /\ Cardinality({}) = 0
    BY FS_EmptySet
  <2>3. Numbered({})
    BY <2>2 DEF Numbered
  <2>4. Counted
    BY <2>1, <2>2, <2>3 DEF Counted
  <2>5. QED BY <1>1, <2>4 DEF VersionsUnique
<1>9. DOMAIN reply = Attempts
  BY DEF Init
<1>10. QED BY <1>3, <1>5, <1>6, <1>7, <1>8, <1>9 DEF ProposalInv

LEMMA StutterStep == ProposalInv /\ UNCHANGED vars => ProposalInv'
<1> SUFFICES ASSUME ProposalInv, UNCHANGED vars PROVE ProposalInv'
  OBVIOUS
<1>1. UNCHANGED tables /\ pc' = pc /\ cmd' = cmd /\ plan' = plan /\ row' = row /\ reply' = reply
  BY DEF vars
<1>2. \A q \in Attempts : Held(q)' = Held(q)
  BY <1>1, HeldKept DEF Kept
<1>3. TypeOK' /\ DOMAIN reply' = Attempts
  BY <1>1, TablesKept DEF ProposalInv, TypeOK, Proposing
<1>4. ASSUME NEW p \in Attempts PROVE AttemptInv(p)'
  <2>1. PlanFits(p)' /\ OriginFits(p)' /\ DecisionFits(p)'
    BY <1>1 DEF ProposalInv, AttemptInv, PlanFits, OriginFits, DecisionFits, Proposing, Deciding,
                tables, Ids
  <2>2. KeysHeld(p)'
    BY <1>1, <1>2, StoredKept DEF ProposalInv, AttemptInv, KeysHeld, Indexes
  <2>3. QED BY <2>1, <2>2 DEF AttemptInv
<1>5. RecordsTell' /\ VersionsUnique'
  BY <1>1 DEF ProposalInv, RecordsTell, VersionsUnique, VersionKey, tables
<1>6. AllOrNothing'
  BY <1>1 DEF ProposalInv, AllOrNothing, tables
<1>7. Counted'
  BY <1>1 DEF ProposalInv, Counted, Numbered, DecisionsOf, tables
<1>8. QED BY <1>3, <1>4, <1>5, <1>6, <1>7 DEF ProposalInv

LEMMA NextInv == ProposalInv /\ [Next]_vars => ProposalInv'
<1> SUFFICES ASSUME ProposalInv, [Next]_vars PROVE ProposalInv'
  OBVIOUS
<1>1. ASSUME NEW p \in Attempts, NEW c \in Commands, Begin(p, c) PROVE ProposalInv'
  BY <1>1, BeginStep
<1>2. ASSUME NEW p \in Attempts, Extract(p) \/ Claim(p) PROVE ProposalInv'
  BY <1>2, ExtractStep, ClaimStep
<1>3. ASSUME NEW p \in Attempts, PersistBatch(p) PROVE ProposalInv'
  BY <1>3, SourceStep, CaptureStep, BatchExistsStep, InsertBatchStep, InsertCandidateStep
  DEF PersistBatch
<1>4. ASSUME NEW p \in Attempts, RecordDecision(p) PROVE ProposalInv'
  BY <1>4, CheckDecisionStep, InsertDecisionStep DEF RecordDecision
<1>5. ASSUME NEW p \in Attempts, Commit(p) PROVE ProposalInv'
  BY <1>5, CommitStep
<1>6. ASSUME NEW p \in Attempts, DeadlockVictim(p) PROVE ProposalInv'
  <2>1. pc[p] # "idle"
    <3>1. Blockers(p) # {}
      BY <1>6 DEF DeadlockVictim
    <3>2. PICK index \in Indexes : Wanted(p)[index] # {}
      BY <3>1 DEF Blockers
    <3>3. QED BY <3>2 DEF Wanted, If, Indexes
  <2>2. QED BY <1>6, <2>1, FinishQuiet DEF DeadlockVictim
<1>7. ASSUME NEW p \in Attempts, Crash(p) PROVE ProposalInv'
  BY <1>7, FinishQuiet DEF Crash
<1>8. CASE Quiescent \/ UNCHANGED vars
  BY <1>8, StutterStep DEF Quiescent
<1>9. QED BY <1>1, <1>2, <1>3, <1>4, <1>5, <1>6, <1>7, <1>8 DEF Next

LEMMA ProposalInvariance == Spec => []ProposalInv
BY InitInv, NextInv, PTL DEF Spec

-----------------------------------------------------------------------------
(* Theorems.                                                               *)

\* Primary and foreign keys hold in every table, and a running attempt has the
\* rows its step works on (TypeOK).
THEOREM TypeCorrect == Spec => []TypeOK
<1>1. ProposalInv => TypeOK
  BY DEF ProposalInv
<1>2. QED BY <1>1, ProposalInvariance, PTL

\* A batch and all that belongs to it, or a decision, is stored with its record
\* and its audit event or not at all (AllOrNothing).
THEOREM StoredWhole == Spec => []AllOrNothing
<1>1. ProposalInv => AllOrNothing
  BY DEF ProposalInv
<1>2. QED BY <1>1, ProposalInvariance, PTL

\* The decisions of a candidate are numbered without a gap (DecisionHistory).
THEOREM DecisionsCorrect == Spec => []DecisionHistory
<1>1. ProposalInv => DecisionHistory
  BY DEF ProposalInv, Counted, DecisionHistory, DecisionsOf, Numbered
<1>2. QED BY <1>1, ProposalInvariance, PTL

\* What a stored candidate says of its source and capture holds of the stored
\* rows (ProvenanceHolds).
THEOREM ProvenanceCorrect == Spec => []ProvenanceHolds
<1>1. ProposalInv => ProvenanceHolds
  <2> SUFFICES ASSUME ProposalInv, NEW k \in candidates
               PROVE  \E s \in sources, c \in captures :
                        /\ s.id = k.source /\ c.id = k.capture /\ c.source = s.id /\ c.kind = s.kind
                        /\ c.capturedAt >= s.approvedAt
                        /\ c.bytes \in 1 .. MaxBytes
                        /\ s.kind = "business_website" => c.origin = s.origin
                        /\ s.kind = "booking_route_metadata" =>
                             c.reference = s.reference /\ k.field \notin ProviderOwned
    BY DEF ProvenanceHolds
  <2>1. PICK r \in records : r.scope = "propose" /\ k \in CandidatesOf(r.hash)
    BY DEF ProposalInv, AllOrNothing
  <2>2. r.hash.source \in sources /\ r.hash.capture \in captures
    BY <2>1 DEF ProposalInv, AllOrNothing
  <2>3. Sound(r.hash)
    BY <2>1 DEF ProposalInv, RecordsTell
  <2>4. QED BY <2>1, <2>2, <2>3 DEF Sound
<1>2. QED BY <1>1, ProposalInvariance, PTL

\* A step of one attempt moves no other.
LEMMA StepKeepsOthers ==
  ASSUME TypeOK, NEW q \in Attempts, NEW p \in Attempts \ {q},
         \/ \E c \in Commands : Begin(q, c)
         \/ Extract(q) \/ Claim(q) \/ PersistBatch(q) \/ RecordDecision(q) \/ Commit(q)
         \/ DeadlockVictim(q) \/ Crash(q)
  PROVE  pc'[p] = pc[p]
<1>1. (\E to : Goto(q, to)) => pc'[p] = pc[p]
  BY DEF Goto, TypeOK
<1>2. (\E answer : Finish(q, answer)) => pc'[p] = pc[p]
  BY DEF Finish, TypeOK
<1>3. (\E c \in Commands : Begin(q, c)) => pc'[p] = pc[p]
  BY DEF Begin, TypeOK
<1>4. Extract(q) => pc'[p] = pc[p]
  BY <1>2 DEF Extract, TypeOK
<1>5. Claim(q) \/ RecordDecision(q) => pc'[p] = pc[p]
  BY <1>1, <1>2 DEF Claim, RecordDecision, CheckDecision, InsertDecision
<1>6. PersistBatch(q) => pc'[p] = pc[p]
  BY <1>1, <1>2 DEF PersistBatch, EnsureSource, EnsureCapture, BatchExists, InsertBatch, InsertCandidate
<1>7. Commit(q) \/ DeadlockVictim(q) \/ Crash(q) => pc'[p] = pc[p]
  BY <1>2 DEF Commit, DeadlockVictim, Crash
<1>8. QED BY <1>3, <1>4, <1>5, <1>6, <1>7

Ends(p) ==
  pc'[p] = "done" /\ pc[p] # "done" /\ reply'[p].outcome \notin {"denied", "failed", "crashed"}
Truth(p) ==
  /\ reply'[p].outcome \in {"committed", "replayed"} <=>
       \E r \in records' : r.scope = cmd[p].kind /\ r.key = cmd[p].key /\ r.hash = plan[p]
  /\ reply'[p].ref \in {plan[p].id, Null}

\* What an attempt is answered when it ends.
LEMMA Answered ==
  ASSUME ProposalInv, NEW p \in Attempts, NEW o, NEW ref, Finish(p, Answer(o, ref))
  PROVE  reply'[p].outcome = o /\ reply'[p].ref = ref
BY DEF ProposalInv, Finish, Answer

LEMMA RefusedTruly ==
  ASSUME ProposalInv, NEW p \in Attempts, UNCHANGED tables, RecordsFor(p) = {},
         NEW o, o \notin {"committed", "replayed"}, Finish(p, Answer(o, Null))
  PROVE  Truth(p)
<1>1. reply'[p].outcome = o /\ reply'[p].ref = Null
  BY Answered
<1>2. \A r \in records' : ~(r.scope = cmd[p].kind /\ r.key = cmd[p].key)
  BY DEF RecordsFor, tables
<1>3. QED BY <1>1, <1>2 DEF Truth

\* A record with the hash of the request is replayed, one with another is not.
LEMMA ReplayTruly ==
  ASSUME ProposalInv, NEW p \in Attempts, UNCHANGED tables, NEW r \in RecordsFor(p),
         Finish(p, ReplayAnswer(p, r))
  PROVE  Truth(p)
<1>1. /\ r \in records /\ r.scope = cmd[p].kind /\ r.key = cmd[p].key
      /\ r.status = "succeeded" /\ r.ref = r.hash.id
  BY DEF RecordsFor, ProposalInv, RecordsTell
<1>2. CASE r.hash # plan[p]
  <2>1. Finish(p, Answer("idempotency_conflict", Null))
    BY <1>2 DEF ReplayAnswer, Hash
  <2>2. reply'[p].outcome = "idempotency_conflict" /\ reply'[p].ref = Null
    BY <2>1, Answered
  <2>3. \A z \in records' : z.scope = cmd[p].kind /\ z.key = cmd[p].key => z = r
    BY <1>1 DEF ProposalInv, TypeOK, tables
  <2>4. QED BY <1>2, <2>2, <2>3 DEF Truth
<1>3. CASE r.hash = plan[p]
  <2>1. ReplayAnswer(p, r) = Answer("replayed", r.ref)
    <3>1. CASE r.scope = "decide"
      <4>1. r.hash \in decisions
        BY <1>1, <3>1 DEF ProposalInv, AllOrNothing
      <4>2. QED BY <1>1, <1>3, <3>1, <4>1 DEF ReplayAnswer, Hash
    <3>2. CASE r.scope = "propose"
      <4>1. Sound(r.hash)
        BY <1>1, <3>2 DEF ProposalInv, RecordsTell
      <4>2. /\ r.hash.source \in sources /\ r.hash.capture \in captures
            /\ BatchRow(r.hash) \in batches /\ CandidatesOf(r.hash) \subseteq candidates
        BY <1>1, <3>2 DEF ProposalInv, AllOrNothing
      <4>3. /\ BatchRow(r.hash).id = r.ref /\ BatchRow(r.hash).source = r.hash.source.id
            /\ BatchRow(r.hash).capture = r.hash.capture.id
        BY <1>1 DEF BatchRow
      <4>4. PICK k \in CandidatesOf(r.hash) : k.batch = r.ref
        <5>1. r.hash.candidates \in Seq(Candidate) /\ r.hash.candidates # <<>>
          BY <4>1 DEF Sound, Batch
        <5>2. 1 \in DOMAIN r.hash.candidates
          BY <5>1, EmptySeq, LenProperties
        <5>3. r.hash.candidates[1] \in CandidatesOf(r.hash)
          BY <5>2 DEF CandidatesOf
        <5>4. QED BY <1>1, <4>1, <5>3 DEF Sound
      <4>5. GraphLoads(BatchRow(r.hash))
        BY <4>2, <4>3, <4>4 DEF GraphLoads
      <4>6. \A b \in batches : b.id = r.ref => b = BatchRow(r.hash)
        BY <4>2, <4>3 DEF ProposalInv, TypeOK, UniqueIds
      <4>7. \A b \in batches : b.id = r.ref => GraphLoads(b)
        BY <4>5, <4>6
      <4>8. ~(\A b \in batches : b.id # r.ref)
        BY <4>2, <4>3
      <4>9. QED BY <1>1, <1>3, <3>2, <4>7, <4>8 DEF ReplayAnswer, Hash
    <3>3. QED BY <1>1, <3>1, <3>2 DEF ProposalInv, RecordsTell
  <2>2. reply'[p].outcome = "replayed" /\ reply'[p].ref = r.ref
    BY <2>1, Answered
  <2>3. r \in records'
    BY <1>1 DEF tables
  <2>4. QED BY <1>1, <1>3, <2>2, <2>3 DEF Truth
<1>4. QED BY <1>2, <1>3

LEMMA StepTells ==
  ASSUME ProposalInv, NEW p \in Attempts, Ends(p),
         \/ \E c \in Commands : Begin(p, c)
         \/ Extract(p) \/ Claim(p) \/ PersistBatch(p) \/ RecordDecision(p) \/ Commit(p)
         \/ DeadlockVictim(p) \/ Crash(p)
  PROVE  Truth(p)
<1>0. TypeOK
  BY DEF ProposalInv
<1>1. ASSUME NEW c \in Commands, Begin(p, c) PROVE FALSE
  BY <1>0, <1>1 DEF Begin, Ends, ProposalInv, TypeOK, Answer
<1>2. ASSUME NEW to \in Working, Goto(p, to) PROVE FALSE
  BY <1>0, <1>2 DEF Goto, Ends, TypeOK, Working
<1>3. ASSUME Extract(p) PROVE FALSE
  <2>1. \A code : Finish(p, Answer("failed", code)) => FALSE
    BY Answered DEF Ends
  <2>2. pc' = [pc EXCEPT ![p] = "claim"] => FALSE
    BY <1>0 DEF Ends, TypeOK
  <2>3. QED BY <1>3, <2>1, <2>2 DEF Extract
<1>4. ASSUME Claim(p) PROVE Truth(p)
  <2>1. UNCHANGED tables /\ AfterClaim(p) \in Working
    BY <1>4 DEF Claim, AfterClaim, Working
  <2>2. PICK r \in RecordsFor(p) : Finish(p, ReplayAnswer(p, r))
    BY <1>2, <1>4, <2>1 DEF Claim
  <2>3. QED BY <2>1, <2>2, ReplayTruly
<1>5. ASSUME PersistBatch(p) PROVE Truth(p)
  <2>1. UNCHANGED tables /\ InTransaction(p)
    BY <1>5 DEF PersistBatch, EnsureSource, EnsureCapture, BatchExists, InsertBatch, InsertCandidate,
                InTransaction, Working
  <2>2. ~(pc' = pc)
    BY DEF Ends
  <2>3. \E o \in {"source_conflict", "version_conflict", "unique_violation", "check_violation"} :
          Finish(p, Answer(o, Null))
    BY <1>2, <1>5, <2>2 DEF PersistBatch, EnsureSource, EnsureCapture, BatchExists, InsertBatch,
                            InsertCandidate, Working
  <2>4. QED BY <2>1, <2>3, KeyUnused, RefusedTruly
<1>6. ASSUME RecordDecision(p) PROVE Truth(p)
  <2>1. UNCHANGED tables /\ InTransaction(p)
    BY <1>6 DEF RecordDecision, CheckDecision, InsertDecision, InTransaction, Working
  <2>2. \E o \in {"not_found", "version_conflict", "unique_violation"} : Finish(p, Answer(o, Null))
    BY <1>2, <1>6 DEF RecordDecision, CheckDecision, InsertDecision, Working
  <2>3. QED BY <2>1, <2>2, KeyUnused, RefusedTruly
<1>7. ASSUME Commit(p) PROVE Truth(p)
  <2>1. reply'[p].outcome = "committed" /\ reply'[p].ref = plan[p].id
    BY <1>7, Answered DEF Commit
  <2>2. RecordOf(p) \in records' /\ RecordOf(p).scope = cmd[p].kind /\ RecordOf(p).key = cmd[p].key
        /\ RecordOf(p).hash = plan[p]
    BY <1>7, CommitEnds DEF RecordOf
  <2>3. QED BY <2>1, <2>2 DEF Truth
<1>8. ASSUME DeadlockVictim(p) PROVE Truth(p)
  <2>1. UNCHANGED tables /\ Finish(p, Answer("deadlock_detected", Null)) /\ Blockers(p) # {}
    BY <1>8 DEF DeadlockVictim
  <2>2. PICK q \in Attempts \ {p}, index \in Indexes : Wanted(p)[index] \cap Held(q)[index] # {}
    BY <2>1 DEF Blockers
  <2>3. CASE index = "record"
    <3>1. RequestKey(p) \in Held(q).record
      BY <2>2, <2>3 DEF Wanted, If
    <3>2. RequestKey(p) \notin Stored.record
      BY <3>1 DEF ProposalInv, AttemptInv, KeysHeld, Indexes
    <3>3. RecordsFor(p) = {}
      BY <3>2 DEF Stored, RecordsFor, RequestKey
    <3>4. QED BY <2>1, <3>3, RefusedTruly
  <2>4. CASE index # "record"
    <3>1. InTransaction(p)
      BY <2>2, <2>4 DEF Wanted, If, Indexes, InTransaction, Working
    <3>2. QED BY <2>1, <3>1, KeyUnused, RefusedTruly
  <2>5. QED BY <2>3, <2>4
<1>9. ASSUME Crash(p) PROVE FALSE
  BY <1>9, Answered DEF Crash, Ends
<1>10. QED BY <1>1, <1>3, <1>4, <1>5, <1>6, <1>7, <1>8, <1>9

\* An attempt is told success exactly when its own request is stored under its
\* key, and then under which id (TruthfulAnswers).
THEOREM AnswersCorrect == Spec => TruthfulAnswers
<1> DEFINE A == \A p \in Attempts : Ends(p) => Truth(p)
<1>1. ProposalInv /\ [Next]_vars => [A]_vars
  <2> SUFFICES ASSUME ProposalInv, Next, NEW p \in Attempts, Ends(p) PROVE Truth(p)
    OBVIOUS
  <2>1. TypeOK
    BY DEF ProposalInv
  <2>2. CASE Quiescent
    BY <2>2 DEF Quiescent, vars, Ends
  <2>3. ASSUME NEW q \in Attempts,
               \/ \E c \in Commands : Begin(q, c)
               \/ Extract(q) \/ Claim(q) \/ PersistBatch(q) \/ RecordDecision(q) \/ Commit(q)
               \/ DeadlockVictim(q) \/ Crash(q)
        PROVE  Truth(p)
    <3>1. CASE q = p
      BY <2>3, <3>1, StepTells
    <3>2. CASE q # p
      BY <2>1, <2>3, <3>2, StepKeepsOthers DEF Ends
    <3>3. QED BY <3>1, <3>2
  <2>4. QED BY <2>2, <2>3 DEF Next
<1>2. TruthfulAnswers <=> [][A]_vars
  BY DEF TruthfulAnswers, Ends, Truth
<1>3. QED BY <1>1, <1>2, ProposalInvariance, PTL DEF Spec
=============================================================================
