------------------------------- MODULE LeadProofs -------------------------------
(***************************************************************************)
(* Theorems about lead lifecycles, for every number of servers and leads   *)
(* and every set of commands.                                              *)
(***************************************************************************)
EXTENDS LeadLifecycle, FiniteSetTheorems, TLAPS

-----------------------------------------------------------------------------
(* The inductive invariant.                                                *)

\* What a transition decided on still holds of the lead unless the lead has
\* moved on to a later version since.
Decided(w, c, row) ==
  /\ c.kind = "transition" /\ row # Null
  /\ c.expectedVersion <= row.version
  /\ row.version = c.expectedVersion => Acceptable(row, c) /\ expected[w] = Moved(row, c)

\* So does the row the repository's transaction has read.
Reread(w, c, row) ==
  /\ seen[w] # Null
  /\ row.version = c.expectedVersion => seen[w] = row

\* What a transaction that holds the lead is about to commit.
Grounded(w, c, row) ==
  /\ seen[w] = row
  /\ expected[w] = Written(row, c)
  /\ \/ c.kind = "create" /\ row = Null
     \/ /\ c.kind = "transition" /\ row # Null
        /\ row.version = c.expectedVersion /\ Acceptable(row, c)

WorkerOK(w) ==
  LET c == cmd[w]
      row == leads[c.lead] IN
  /\ pc[w] = "idle" <=> c = Null
  /\ pc[w] \in {"idle", "insert", "read"} => seen[w] = Null
  /\ pc[w] = "insert" => c.kind = "create" /\ expected[w] = NewLead(c)
  /\ pc[w] = "read" => c.kind = "transition"
  /\ pc[w] \in {"select", "update"} => Decided(w, c, row)
  /\ pc[w] = "update" => Reread(w, c, row)
  /\ pc[w] = "commit" => Grounded(w, c, row)
  /\ pc[w] = "answer" => Consistent(w)

\* A lead is written by one running transaction at a time.
Exclusive ==
  \A w, q \in Workers :
    pc[w] = "commit" /\ pc[q] = "commit" /\ cmd[w].lead = cmd[q].lead => w = q

WorkerInv == (\A w \in Workers : WorkerOK(w)) /\ Exclusive

TypeInv == TypeOK /\ IsFiniteSet(audit) /\ WorkerInv

-----------------------------------------------------------------------------
(* Commands, rows and the stage machine.                                   *)

LEMMA CommandTypes ==
  ASSUME NEW c \in Commands
  PROVE  /\ c \in Command /\ c # Null
         /\ c.kind \in {"create", "transition"} /\ c.lead \in Leads /\ c.at \in Nat
         /\ c.expectedVersion \in Nat \ {0} /\ c.to \in Stages /\ c.reason \in BOOLEAN
         /\ c.key \in STRING
BY CommandAssumption, NullAssumption DEF Command

LEMMA NewLeadType ==
  ASSUME NEW c \in Commands
  PROVE  NewLead(c) \in LeadRow
BY CommandTypes DEF NewLead, LeadRow, Stages

LEMMA MovedType ==
  ASSUME NEW c \in Commands, NEW row \in LeadRow
  PROVE  /\ Moved(row, c) \in LeadRow
         /\ Moved(row, c).stage = c.to
         /\ Moved(row, c).version = row.version + 1
         /\ Moved(row, c).openedAt = row.openedAt
         /\ Moved(row, c).updatedAt = c.at
<1>1. c.to \in Stages /\ c.at \in Nat /\ row.version + 1 \in Nat \ {0}
  BY CommandTypes DEF LeadRow
<1>2. QED BY <1>1 DEF Moved, LeadRow

\* No stage follows itself: the trigger's check that a stage changes is idle.
LEMMA NoStageFollowsItself ==
  ASSUME NEW s \in Stages
  PROVE  ~CanTransition(s, s)
BY DEF CanTransition, Successors, Stages, TerminalStages

-----------------------------------------------------------------------------
(* What a step does to the workers that do not take it.                    *)

\* The state of control of one worker.
Same(q) == /\ pc'[q] = pc[q] /\ cmd'[q] = cmd[q]
           /\ expected'[q] = expected[q] /\ seen'[q] = seen[q]

LEMMA OthersSame ==
  ASSUME TypeOK, NEW w \in Workers, Step(w), NEW q \in Workers, q # w
  PROVE  Same(q)
<1> USE DEF TypeOK, Same, Goto, Finish
<1>1. CASE Begin(w)
  BY <1>1 DEF Begin
<1>2. CASE Read(w)
  BY <1>2 DEF Read
<1>3. CASE InsertLead(w)
  BY <1>3 DEF InsertLead
<1>4. CASE Select(w)
  BY <1>4 DEF Select
<1>5. CASE Update(w)
  BY <1>5 DEF Update
<1>6. CASE Commit(w)
  BY <1>6 DEF Commit
<1>7. CASE AnswerCommand(w) \/ Crash(w)
  BY <1>7 DEF AnswerCommand, Crash
<1>8. QED BY <1>1, <1>2, <1>3, <1>4, <1>5, <1>6, <1>7 DEF Step

\* Only a commit changes the tables.
LEMMA TablesSame ==
  ASSUME NEW w \in Workers, Step(w), ~Commit(w)
  PROVE  UNCHANGED tables
BY DEF Step, Begin, Read, InsertLead, Select, Update, AnswerCommand, Crash

LEMMA WorkerUndisturbed ==
  ASSUME NEW q \in Workers, WorkerOK(q), Same(q), UNCHANGED leads
  PROVE  WorkerOK(q)'
BY DEF WorkerOK, Same, Decided, Reread, Grounded, Consistent

\* A worker that ends its command has nothing to keep.
LEMMA FinishWorker ==
  ASSUME TypeOK, NEW w \in Workers, NEW o \in Outcomes, Finish(w, o)
  PROVE  WorkerOK(w)'
BY DEF TypeOK, Finish, WorkerOK

LEMMA FinishType ==
  ASSUME TypeOK, UNCHANGED tables, NEW w \in Workers, NEW o \in Outcomes, Finish(w, o)
  PROVE  TypeOK'
BY DEF TypeOK, Finish, tables

LEMMA GotoType ==
  ASSUME TypeOK, UNCHANGED <<tables, cmd, expected, reply>>, NEW w \in Workers,
         NEW to \in {"insert", "read", "select", "update", "commit", "answer"}, Goto(w, to),
         seen' \in [Workers -> LeadRow \cup {Null}]
  PROVE  TypeOK'
BY DEF TypeOK, Goto, tables

-----------------------------------------------------------------------------
(* What a step does to the types and to the worker that takes it.          *)

\* A worker that is busy has a command of its kind, on a lead.
LEMMA BusyWorker ==
  ASSUME TypeOK, NEW w \in Workers, WorkerOK(w), pc[w] # "idle"
  PROVE  cmd[w] \in Commands /\ cmd[w].lead \in Leads
BY CommandTypes DEF TypeOK, WorkerOK

LEMMA BeginPreserves ==
  ASSUME TypeInv, NEW w \in Workers, Begin(w)
  PROVE  TypeOK' /\ WorkerOK(w)'
<1>1. WorkerOK(w) /\ pc[w] = "idle" /\ TypeOK /\ UNCHANGED tables
  BY DEF TypeInv, WorkerInv, Begin
<1>2. CASE Finish(w, "denied")
  BY <1>1, <1>2, FinishType, FinishWorker DEF Outcomes
<1>3. ASSUME NEW c \in Commands,
             Goto(w, IF c.kind = "create" THEN "insert" ELSE "read"),
             cmd' = [cmd EXCEPT ![w] = c],
             expected' = [expected EXCEPT ![w] = IF c.kind = "create" THEN NewLead(c) ELSE Null],
             reply' = [reply EXCEPT ![w] = "none"], UNCHANGED seen
      PROVE  TypeOK' /\ WorkerOK(w)'
  <2>1. NewLead(c) \in LeadRow /\ c # Null /\ c.kind \in {"create", "transition"}
    BY NewLeadType, CommandTypes
  <2>2. TypeOK'
    BY <1>1, <1>3, <2>1 DEF TypeOK, Goto, Outcomes, tables
  <2>3. seen[w] = Null
    BY <1>1 DEF WorkerOK
  <2>4. QED BY <1>1, <1>3, <2>1, <2>2, <2>3 DEF TypeOK, WorkerOK, Goto
<1>4. QED BY <1>2, <1>3 DEF Begin

LEMMA ReadPreserves ==
  ASSUME TypeInv, NEW w \in Workers, Read(w)
  PROVE  TypeOK' /\ WorkerOK(w)'
<1> DEFINE row == leads[cmd[w].lead]
<1>1. WorkerOK(w) /\ pc[w] = "read" /\ TypeOK /\ UNCHANGED tables
  BY DEF TypeInv, WorkerInv, Read
<1>2. CASE \E o \in Outcomes : Finish(w, o)
  BY <1>1, <1>2, FinishType, FinishWorker
<1>3. CASE /\ row # Null /\ row.version = cmd[w].expectedVersion /\ Acceptable(row, cmd[w])
           /\ Goto(w, "select")
           /\ expected' = [expected EXCEPT ![w] = Moved(row, cmd[w])]
           /\ UNCHANGED <<cmd, seen, reply>>
  <2>1. cmd[w] \in Commands /\ cmd[w].lead \in Leads /\ cmd[w].expectedVersion \in Nat
    BY <1>1, BusyWorker, CommandTypes
  <2>2. row \in LeadRow /\ Moved(row, cmd[w]) \in LeadRow
    BY <1>1, <1>3, <2>1, MovedType DEF TypeOK
  <2>3. TypeOK'
    BY <1>1, <1>3, <2>2 DEF TypeOK, Goto, tables
  <2>4. cmd[w].kind = "transition" /\ cmd[w] # Null
    BY <1>1 DEF WorkerOK
  <2>5. QED BY <1>1, <1>3, <2>1, <2>3, <2>4 DEF TypeOK, WorkerOK, Decided, Goto, tables
<1>4. QED BY <1>2, <1>3 DEF Read, Outcomes

LEMMA InsertLeadPreserves ==
  ASSUME TypeInv, NEW w \in Workers, InsertLead(w)
  PROVE  TypeOK' /\ WorkerOK(w)'
<1>1. WorkerOK(w) /\ pc[w] = "insert" /\ TypeOK /\ UNCHANGED tables
  BY DEF TypeInv, WorkerInv, InsertLead
<1>2. CASE Finish(w, "already_exists")
  BY <1>1, <1>2, FinishType, FinishWorker DEF Outcomes
<1>3. CASE leads[cmd[w].lead] = Null /\ Goto(w, "commit") /\ UNCHANGED <<cmd, expected, seen, reply>>
  <2>1. TypeOK'
    BY <1>1, <1>3, GotoType DEF TypeOK
  <2>2. QED BY <1>1, <1>3, <2>1 DEF TypeOK, WorkerOK, Grounded, Written, Goto, tables
<1>4. QED BY <1>2, <1>3 DEF InsertLead

LEMMA SelectPreserves ==
  ASSUME TypeInv, NEW w \in Workers, Select(w)
  PROVE  TypeOK' /\ WorkerOK(w)'
<1> DEFINE row == leads[cmd[w].lead]
<1>1. WorkerOK(w) /\ pc[w] = "select" /\ TypeOK /\ UNCHANGED tables
  BY DEF TypeInv, WorkerInv, Select
<1>2. CASE \E o \in Outcomes : Finish(w, o)
  BY <1>1, <1>2, FinishType, FinishWorker
<1>3. CASE /\ row.version = cmd[w].expectedVersion
           /\ Goto(w, "update") /\ seen' = [seen EXCEPT ![w] = row]
           /\ UNCHANGED <<cmd, expected, reply>>
  <2>1. cmd[w].lead \in Leads
    BY <1>1, BusyWorker
  <2>2. row \in LeadRow /\ row # Null
    BY <1>1, <2>1 DEF TypeOK, WorkerOK, Decided
  <2>3. seen' \in [Workers -> LeadRow \cup {Null}]
    BY <1>1, <1>3, <2>2 DEF TypeOK
  <2>4. TypeOK'
    BY <1>1, <1>3, <2>3, GotoType
  <2>5. QED BY <1>1, <1>3, <2>2, <2>4 DEF TypeOK, WorkerOK, Decided, Reread, Goto, tables
<1>4. QED BY <1>2, <1>3 DEF Select, Outcomes

LEMMA UpdatePreserves ==
  ASSUME TypeInv, NEW w \in Workers, Update(w)
  PROVE  TypeOK' /\ WorkerOK(w)'
<1> DEFINE c == cmd[w]
           row == leads[c.lead]
<1>1. WorkerOK(w) /\ pc[w] = "update" /\ TypeOK /\ UNCHANGED tables
  BY DEF TypeInv, WorkerInv, Update
<1>2. CASE \E o \in Outcomes : Finish(w, o)
  BY <1>1, <1>2, FinishType, FinishWorker
<1>3. CASE Matches(w, row) /\ Goto(w, "commit") /\ UNCHANGED <<cmd, expected, seen, reply>>
  <2>1. TypeOK'
    BY <1>1, <1>3, GotoType DEF TypeOK
  <2>2. Grounded(w, c, row)
    BY <1>1, <1>3 DEF WorkerOK, Decided, Reread, Matches, Grounded, Written
  <2>3. QED BY <1>1, <1>3, <2>1, <2>2 DEF TypeOK, WorkerOK, Grounded, Goto, tables
<1>4. QED BY <1>2, <1>3 DEF Update, Outcomes

LEMMA AnswerPreserves ==
  ASSUME TypeInv, NEW w \in Workers, AnswerCommand(w) \/ Crash(w)
  PROVE  TypeOK' /\ WorkerOK(w)'
<1>1. TypeOK /\ UNCHANGED tables
  BY DEF TypeInv, AnswerCommand, Crash
<1>2. \E o \in Outcomes : Finish(w, o)
  BY DEF AnswerCommand, Crash, Outcomes
<1>3. QED BY <1>1, <1>2, FinishType, FinishWorker

-----------------------------------------------------------------------------
(* The commit.                                                             *)

\* The row that is committed: one version more, of a stage that differs and no
\* earlier than the row before it.
LEMMA CommittedRow ==
  ASSUME TypeInv, NEW w \in Workers, pc[w] = "commit"
  PROVE  LET c == cmd[w]
             row == leads[c.lead]
             new == Written(row, c)
         IN
         /\ c \in Commands /\ c.lead \in Leads /\ seen[w] = row /\ expected[w] = new
         /\ new \in LeadRow /\ new # Null /\ new.updatedAt = c.at
         /\ \/ c.kind = "create" /\ row = Null /\ new = NewLead(c) /\ new.version = 1
            \/ /\ c.kind = "transition" /\ row \in LeadRow /\ new = Moved(row, c)
               /\ row.version = c.expectedVersion /\ Acceptable(row, c)
               /\ new.version = row.version + 1 /\ new.stage = c.to
               /\ new.openedAt = row.openedAt
<1> DEFINE c == cmd[w]
           row == leads[c.lead]
<1>1. WorkerOK(w) /\ TypeOK
  BY DEF TypeInv, WorkerInv
<1>2. c \in Commands /\ c.lead \in Leads
  BY <1>1, BusyWorker
<1>3. Grounded(w, c, row) /\ row \in LeadRow \cup {Null}
  BY <1>1, <1>2 DEF WorkerOK, TypeOK
<1>4. CASE c.kind = "create" /\ row = Null
  BY <1>2, <1>3, <1>4, NewLeadType, NullAssumption DEF Grounded, Written, NewLead
<1>5. CASE c.kind = "transition" /\ row # Null /\ row.version = c.expectedVersion /\ Acceptable(row, c)
  BY <1>2, <1>3, <1>5, MovedType, NullAssumption DEF Grounded, Written
<1>6. QED BY <1>3, <1>4, <1>5 DEF Grounded

LEMMA CommitType ==
  ASSUME TypeInv, NEW w \in Workers, Commit(w)
  PROVE  TypeOK' /\ IsFiniteSet(audit)'
<1> DEFINE c == cmd[w]
           row == leads[c.lead]
           new == Written(row, c)
           step == TransitionRow(row, c)
<1>1. TypeOK /\ pc[w] = "commit" /\ IsFiniteSet(audit)
  BY DEF TypeInv, Commit
<1>2. /\ c \in Commands /\ c.lead \in Leads /\ seen[w] = row /\ new \in LeadRow
      /\ \/ c.kind = "create" /\ row = Null /\ new = NewLead(c) /\ new.version = 1
         \/ c.kind = "transition" /\ row \in LeadRow /\ new.version = row.version + 1
  BY <1>1, CommittedRow
<1>3. /\ c.reason \in BOOLEAN /\ c.at \in Nat /\ c.key \in STRING
  BY <1>2, CommandTypes
<1>4. /\ step \in [lead : Leads, version : Nat \ {0}, from : Stages \cup {Null}, to : Stages,
                    reason : BOOLEAN, at : Nat]
      /\ (step.version = 1) = (step.from = Null)
      /\ step.from = Null => step.to = "new"
  <2>1. new.version \in Nat \ {0} /\ new.stage \in Stages
    BY <1>2 DEF LeadRow
  <2>2. CASE c.kind = "create" /\ row = Null /\ new = NewLead(c) /\ new.version = 1
    BY <1>2, <1>3, <2>1, <2>2 DEF TransitionRow, NewLead
  <2>3. CASE c.kind = "transition" /\ row \in LeadRow /\ new.version = row.version + 1
    <3>1. row # Null /\ row.stage \in Stages /\ row.stage # Null /\ row.version \in Nat \ {0}
      BY <2>3, NullAssumption DEF LeadRow
    <3>2. QED BY <1>2, <1>3, <2>1, <2>3, <3>1 DEF TransitionRow
  <2>4. QED BY <1>2, <2>2, <2>3
<1>5. Cardinality(audit) + 1 \in Nat
  BY <1>1, FS_CardinalityType
<1>6. AuditRow(Cardinality(audit) + 1, row, c)
        \in [id : Nat, lead : Leads, version : Nat \ {0}, key : STRING]
  BY <1>2, <1>3, <1>5 DEF AuditRow, LeadRow
<1>7. leads' \in [Leads -> LeadRow \cup {Null}]
  BY <1>1, <1>2 DEF Commit, TypeOK
<1>8. IsFiniteSet(audit)'
  BY <1>1, <1>2, FS_AddElement DEF Commit
<1>9. pc' \in [Workers -> {"idle", "insert", "read", "select", "update", "commit", "answer"}]
  BY <1>1 DEF TypeOK, Commit, Goto
<1>10. QED BY <1>1, <1>2, <1>4, <1>6, <1>7, <1>8, <1>9 DEF Commit, TypeOK

\* A commit takes the lead to a version that no other worker has decided on.
LEMMA CommitWorkers ==
  ASSUME TypeInv, NEW w \in Workers, Commit(w), NEW q \in Workers
  PROVE  WorkerOK(q)'
<1> DEFINE c == cmd[w]
           row == leads[c.lead]
           new == Written(row, c)
<1>1. /\ c.lead \in Leads /\ seen[w] = row /\ expected[w] = new /\ new # Null
      /\ row = Null \/ (row \in LeadRow /\ new.version = row.version + 1)
      /\ leads' = [leads EXCEPT ![c.lead] = new]
  BY CommittedRow DEF Commit
<1>2. TypeOK /\ WorkerOK(q) /\ WorkerOK(w) /\ pc[w] = "commit"
  BY DEF TypeInv, WorkerInv, Commit
<1>3. CASE q = w
  <2>1. pc'[w] = "answer" /\ UNCHANGED <<cmd, expected, seen>> /\ cmd[w] # Null
    BY <1>2 DEF Commit, Goto, TypeOK, WorkerOK
  <2>2. Consistent(w)'
    BY <1>1, <2>1 DEF Consistent
  <2>3. QED BY <1>3, <2>1, <2>2 DEF WorkerOK
<1>4. CASE q # w
  <2>1. Same(q)
    BY <1>2, <1>4, OthersSame DEF Step
  <2>2. CASE pc[q] = "idle" \/ cmd[q].lead # c.lead
    <3>1. pc[q] # "idle" => leads'[cmd[q].lead] = leads[cmd[q].lead]
      BY <1>1, <1>2, <2>2, BusyWorker DEF TypeOK
    <3>2. QED BY <1>2, <2>1, <3>1 DEF WorkerOK, Same, Decided, Reread, Grounded, Consistent
  <2>3. CASE pc[q] # "idle" /\ cmd[q].lead = c.lead
    <3>1. leads'[cmd[q].lead] = new
      BY <1>1, <1>2, <2>3 DEF TypeOK
    <3>2. pc[q] # "commit"
      BY <1>2, <1>4, <2>3 DEF TypeInv, WorkerInv, Exclusive
    <3>3. pc[q] \in {"select", "update"} =>
            cmd[q].expectedVersion < new.version /\ cmd[q].kind = "transition" /\ cmd[q].expectedVersion \in Nat
      <4>1. cmd[q].expectedVersion \in Nat
        BY <1>2, <2>3, BusyWorker, CommandTypes
      <4>2. QED BY <1>1, <1>2, <2>3, <4>1 DEF WorkerOK, Decided, LeadRow
    <3>4. new \in LeadRow
      BY <1>2, CommittedRow
    <3>5. pc'[q] \in {"select", "update"} =>
            /\ cmd'[q].kind = "transition" /\ leads'[cmd'[q].lead] # Null
            /\ cmd'[q].expectedVersion <= leads'[cmd'[q].lead].version
            /\ leads'[cmd'[q].lead].version # cmd'[q].expectedVersion
      BY <1>1, <2>1, <3>1, <3>3, <3>4 DEF Same, LeadRow
    <3>6. (pc[q] = "answer" => Consistent(q)) /\ pc'[q] # "commit"
      BY <1>2, <2>1, <3>2 DEF WorkerOK, Same
    <3>7. QED BY <1>2, <2>1, <3>5, <3>6 DEF WorkerOK, Same, Decided, Reread, Consistent
  <2>4. QED BY <2>2, <2>3
<1>5. QED BY <1>3, <1>4

-----------------------------------------------------------------------------
(* The invariance of types and control.                                    *)

\* A worker reaches its commit only past rows that are not held.
LEMMA ExclusiveStep ==
  ASSUME TypeInv, NEW w \in Workers, Step(w)
  PROVE  Exclusive'
<1>1. TypeOK /\ Exclusive
  BY DEF TypeInv, WorkerInv
<1>2. \A q \in Workers \ {w} : Same(q)
  BY <1>1, OthersSame
<1>3. pc'[w] = "commit" => ~Held(w) /\ cmd'[w] = cmd[w]
  <2>1. CASE InsertLead(w) \/ Update(w)
    BY <1>1, <2>1 DEF InsertLead, Update, TypeOK, Goto, Finish
  <2>2. CASE Begin(w) \/ Read(w) \/ Select(w) \/ Commit(w) \/ AnswerCommand(w) \/ Crash(w)
    BY <1>1, <2>2 DEF Begin, Read, Select, Commit, AnswerCommand, Crash, TypeOK, Goto, Finish
  <2>3. QED BY <2>1, <2>2 DEF Step
<1>4. QED BY <1>1, <1>2, <1>3 DEF Exclusive, Same, Held

LEMMA InitType == Init => TypeInv
<1> SUFFICES ASSUME Init PROVE TypeInv
  OBVIOUS
<1>1. TypeOK
  BY DEF Init, TypeOK, Outcomes
<1>2. WorkerInv
  BY DEF Init, WorkerInv, WorkerOK, Exclusive
<1>3. IsFiniteSet(audit)
  BY FS_EmptySet DEF Init
<1>4. QED BY <1>1, <1>2, <1>3 DEF TypeInv

LEMMA TypeStep == TypeInv /\ [Next]_vars => TypeInv'
<1> SUFFICES ASSUME TypeInv, [Next]_vars PROVE TypeInv'
  OBVIOUS
<1>1. ASSUME NEW w \in Workers, Step(w)
      PROVE  TypeInv'
  <2>1. Exclusive'
    BY <1>1, ExclusiveStep
  <2>2. CASE Commit(w)
    BY <2>1, <2>2, CommitType, CommitWorkers DEF TypeInv, WorkerInv
  <2>3. CASE ~Commit(w)
    <3>1. UNCHANGED tables /\ TypeOK
      BY <1>1, <2>3, TablesSame DEF TypeInv
    <3>2. TypeOK' /\ WorkerOK(w)'
      BY <1>1, <2>3, BeginPreserves, ReadPreserves, InsertLeadPreserves, SelectPreserves,
         UpdatePreserves, AnswerPreserves DEF Step
    <3>3. \A q \in Workers \ {w} : WorkerOK(q)'
      BY <1>1, <3>1, OthersSame, WorkerUndisturbed DEF TypeInv, WorkerInv, tables
    <3>4. QED BY <2>1, <3>1, <3>2, <3>3 DEF TypeInv, WorkerInv, tables
  <2>4. QED BY <2>2, <2>3
<1>2. CASE UNCHANGED vars
  BY <1>2 DEF vars, TypeInv, TypeOK, WorkerInv, WorkerOK, Exclusive, Decided, Reread,
              Grounded, Consistent
<1>3. QED BY <1>1, <1>2 DEF Next

LEMMA TypeInvariance == Spec => []TypeInv
<1>1. QED BY InitType, TypeStep, PTL DEF Spec

\* Type correctness, with the shape constraint of a lead's first transition.
THEOREM TypeCorrect == Spec => []TypeOK
<1>1. TypeInv => TypeOK
  BY DEF TypeInv
<1>2. QED BY <1>1, TypeInvariance, PTL

-----------------------------------------------------------------------------
(* The refinement.                                                         *)

\* The ledger's domain is this one.
LEMMA SameDomain ==
  ASSUME NEW row, NEW c, NEW id
  PROVE  /\ Ledger!Acceptable(row, c) = Acceptable(row, c)
         /\ Ledger!Written(row, c) = Written(row, c)
         /\ Ledger!TransitionRow(row, c) = TransitionRow(row, c)
         /\ Ledger!AuditRow(id, row, c) = AuditRow(id, row, c)
<1>1. Ledger!CanTransition(row.stage, c.to) = CanTransition(row.stage, c.to)
  BY DEF Ledger!CanTransition, CanTransition, Ledger!Successors, Successors,
         Ledger!TerminalStages, TerminalStages, Ledger!Stages, Stages
<1>2. Ledger!Acceptable(row, c) = Acceptable(row, c)
  BY <1>1 DEF Ledger!Acceptable, Acceptable, Ledger!ReasonRequired, ReasonRequired
<1>3. Ledger!Written(row, c) = Written(row, c)
  BY DEF Ledger!Written, Written, Ledger!NewLead, NewLead, Ledger!Moved, Moved
<1>4. QED BY <1>2, <1>3 DEF Ledger!TransitionRow, TransitionRow, Ledger!AuditRow, AuditRow

LEMMA SameCardinality == \A S : Ledger!Cardinality(S) = Cardinality(S)
BY DEF Ledger!Cardinality, Cardinality, Ledger!IsFiniteSet, IsFiniteSet

LEMMA FinishTells ==
  ASSUME TypeOK, NEW w \in Workers, NEW o, Finish(w, o), UNCHANGED tables
  PROVE  Ledger!Tell(w, o)
BY DEF TypeOK, Finish, Ledger!Tell, Ledger!records, tables

\* Until the commit, a step that ends no command is one the ledger does not see.
LEMMA GotoStutters ==
  ASSUME TypeOK, NEW w \in Workers, NEW to, to # "answer", pc[w] # "answer", Goto(w, to),
         UNCHANGED <<tables, cmd, reply>>
  PROVE  UNCHANGED Ledger!ledgerVars
BY DEF TypeOK, Goto, Ledger!ledgerVars, tables

LEMMA BeginRefines ==
  ASSUME TypeInv, NEW w \in Workers, Begin(w)
  PROVE  Ledger!Take(w) \/ Ledger!Deny(w)
<1>1. TypeOK /\ pc[w] = "idle" /\ cmd[w] = Null /\ UNCHANGED tables
  BY DEF TypeInv, WorkerInv, WorkerOK, Begin
<1>2. ASSUME NEW c \in Commands, c.sessionExpiresAt <= c.at, Finish(w, "denied")
      PROVE  Ledger!Deny(w)
  BY <1>1, <1>2, FinishTells DEF Ledger!Deny
<1>3. ASSUME NEW c \in Commands, NEW to \in {"insert", "read"}, Goto(w, to),
             cmd' = [cmd EXCEPT ![w] = c], reply' = [reply EXCEPT ![w] = "none"]
      PROVE  Ledger!Take(w)
  BY <1>1, <1>3 DEF TypeOK, Goto, Ledger!Take, Ledger!records, tables
<1>4. QED BY <1>2, <1>3 DEF Begin

\* Every refusal is the one the lead as it is warrants.
LEMMA RefusalRefines ==
  ASSUME TypeInv, NEW w \in Workers, NEW o, Finish(w, o), UNCHANGED tables,
         pc[w] \notin {"idle", "answer"},
         ~Ledger!Takes(leads[cmd[w].lead], cmd[w]),
         o = Ledger!Reason(leads[cmd[w].lead], cmd[w])
  PROVE  Ledger!Refuse(w)
<1>1. TypeOK /\ cmd[w] # Null
  BY DEF TypeInv, WorkerInv, WorkerOK
<1>2. ~([q \in Workers |-> pc[q] = "answer"][w])
  OBVIOUS
<1>3. Ledger!Tell(w, o) /\ Ledger!Tell(w, o) = Ledger!Tell(w, Ledger!Reason(leads[cmd[w].lead], cmd[w]))
  BY <1>1, FinishTells DEF Ledger!Tell
<1>4. QED BY <1>1, <1>2, <1>3 DEF Ledger!Refuse

LEMMA TransitionRefused ==
  ASSUME NEW c, c.kind = "transition", NEW row, NEW o,
         \/ row = Null /\ o = "not_found"
         \/ row # Null /\ row.version # c.expectedVersion /\ o = "version_conflict"
         \/ row # Null /\ row.version = c.expectedVersion /\ ~Acceptable(row, c) /\ o = "refused"
  PROVE  ~Ledger!Takes(row, c) /\ o = Ledger!Reason(row, c)
<1>1. Ledger!Acceptable(row, c) = Acceptable(row, c)
  BY SameDomain
<1>2. QED BY <1>1 DEF Ledger!Takes, Ledger!Reason

\* The update trigger accepts what matches the row that was read.
LEMMA TriggerIdle ==
  ASSUME TypeInv, NEW w \in Workers, pc[w] = "update",
         Matches(w, leads[cmd[w].lead])
  PROVE  TriggerAccepts(leads[cmd[w].lead], Written(seen[w], cmd[w]))
<1> DEFINE c == cmd[w]
           row == leads[c.lead]
<1>1. TypeOK /\ WorkerOK(w) /\ c \in Commands /\ c.lead \in Leads
  BY BusyWorker DEF TypeInv, WorkerInv
<1>2. seen[w] = row /\ row \in LeadRow /\ c.kind = "transition" /\ Acceptable(row, c)
  BY <1>1 DEF WorkerOK, Decided, Reread, Matches, TypeOK
<1>3. Written(seen[w], c) = Moved(row, c)
  BY <1>2 DEF Written
<1>4. c.to # row.stage /\ row.updatedAt <= c.at
  BY <1>2, NoStageFollowsItself DEF Acceptable, LeadRow
<1>5. QED BY <1>1, <1>2, <1>3, <1>4, MovedType DEF TriggerAccepts

LEMMA StepRefines ==
  ASSUME TypeInv, NEW w \in Workers, Step(w)
  PROVE  Ledger!Step(w) \/ UNCHANGED Ledger!ledgerVars
<1> DEFINE c == cmd[w]
           row == leads[c.lead]
<1>1. TypeOK /\ WorkerOK(w)
  BY DEF TypeInv, WorkerInv
<1>2. CASE Begin(w)
  BY <1>2, BeginRefines DEF Ledger!Step
<1>3. CASE Read(w)
  <2>1. c.kind = "transition" /\ pc[w] = "read" /\ UNCHANGED tables
    BY <1>1, <1>3 DEF WorkerOK, Read
  <2>2. CASE \E o \in Outcomes :
               /\ Finish(w, o)
               /\ \/ row = Null /\ o = "not_found"
                  \/ row # Null /\ row.version # c.expectedVersion /\ o = "version_conflict"
                  \/ row # Null /\ row.version = c.expectedVersion /\ ~Acceptable(row, c) /\ o = "refused"
    BY <2>1, <2>2, TransitionRefused, RefusalRefines DEF Ledger!Step
  <2>3. CASE Goto(w, "select") /\ UNCHANGED <<cmd, reply>>
    BY <1>1, <2>1, <2>3, GotoStutters
  <2>4. QED BY <1>3, <2>2, <2>3 DEF Read, Outcomes
<1>4. CASE InsertLead(w)
  <2>1. c.kind = "create" /\ pc[w] = "insert" /\ UNCHANGED tables
    BY <1>1, <1>4 DEF WorkerOK, InsertLead
  <2>2. CASE row # Null /\ Finish(w, "already_exists")
    <3>1. ~Ledger!Takes(row, c) /\ Ledger!Reason(row, c) = "already_exists"
      BY <2>1, <2>2 DEF Ledger!Takes, Ledger!Reason
    <3>2. QED BY <2>1, <2>2, <3>1, RefusalRefines DEF Ledger!Step
  <2>3. CASE Goto(w, "commit") /\ UNCHANGED <<cmd, reply>>
    BY <1>1, <2>1, <2>3, GotoStutters
  <2>4. QED BY <1>4, <2>2, <2>3 DEF InsertLead
<1>5. CASE Select(w)
  <2>1. c.kind = "transition" /\ pc[w] = "select" /\ row # Null /\ UNCHANGED tables
    BY <1>1, <1>5 DEF WorkerOK, Decided, Select
  <2>2. CASE row.version # c.expectedVersion /\ Finish(w, "version_conflict")
    BY <2>1, <2>2, TransitionRefused, RefusalRefines DEF Ledger!Step
  <2>3. CASE /\ row.version = c.expectedVersion /\ Finish(w, "refused")
             /\ c.at < row.updatedAt \/ ~CanTransition(row.stage, c.to)
    <3>1. ~Acceptable(row, c)
      <4>1. c \in Commands /\ c.at \in Nat /\ row \in LeadRow
        BY <1>1, <2>1, BusyWorker, CommandTypes DEF TypeOK
      <4>2. QED BY <2>3, <4>1 DEF Acceptable, LeadRow
    <3>2. QED BY <2>1, <2>3, <3>1, TransitionRefused, RefusalRefines DEF Ledger!Step
  <2>4. CASE Goto(w, "update") /\ UNCHANGED <<cmd, reply>>
    BY <1>1, <2>1, <2>4, GotoStutters
  <2>5. QED BY <1>5, <2>2, <2>3, <2>4 DEF Select
<1>6. CASE Update(w)
  <2>1. /\ c.kind = "transition" /\ pc[w] = "update" /\ row # Null /\ UNCHANGED tables
        /\ row.version = c.expectedVersion => seen[w] = row
    BY <1>1, <1>6 DEF WorkerOK, Decided, Reread, Update
  <2>2. CASE ~Matches(w, row) /\ Finish(w, "version_conflict")
    <3>1. row.version # c.expectedVersion
      BY <2>1, <2>2 DEF Matches
    <3>2. QED BY <2>1, <2>2, <3>1, TransitionRefused, RefusalRefines DEF Ledger!Step
  <2>3. CASE Goto(w, "commit") /\ UNCHANGED <<cmd, reply>>
    BY <1>1, <2>1, <2>3, GotoStutters
  <2>4. QED BY <1>6, <2>1, <2>2, <2>3, TriggerIdle DEF Update
<1>7. CASE Commit(w)
  <2>1. /\ c # Null /\ pc[w] = "commit" /\ seen[w] = row
        /\ \/ c.kind = "create" /\ row = Null
           \/ c.kind = "transition" /\ row # Null /\ row.version = c.expectedVersion /\ Acceptable(row, c)
    BY <1>1, <1>7 DEF Commit, WorkerOK, Grounded
  <2>2. Ledger!Takes(row, c)
    BY <2>1, SameDomain DEF Ledger!Takes
  <2>3. /\ leads' = [leads EXCEPT ![c.lead] = Ledger!Written(row, c)]
        /\ transitions' = transitions \cup {Ledger!TransitionRow(row, c)}
        /\ audit' = audit \cup {Ledger!AuditRow(Cardinality(audit) + 1, row, c)}
    BY <1>7, <2>1, SameDomain DEF Commit
  <2>4. Ledger!Apply(w)
    <3>1. ~([q \in Workers |-> pc[q] = "answer"][w])
      BY <2>1
    <3>2. [q \in Workers |-> pc[q] = "answer"]'
            = [[q \in Workers |-> pc[q] = "answer"] EXCEPT ![w] = TRUE]
      BY <1>1, <1>7 DEF Commit, Goto, TypeOK
    <3>3. UNCHANGED <<cmd, reply>>
      BY <1>7 DEF Commit
    <3>4. QED BY <2>1, <2>2, <2>3, <3>1, <3>2, <3>3, SameCardinality DEF Ledger!Apply
  <2>5. QED BY <2>4 DEF Ledger!Step
<1>8. CASE AnswerCommand(w)
  <2>1. c # Null /\ pc[w] = "answer" /\ Finish(w, "committed") /\ UNCHANGED tables
    BY <1>1, <1>8 DEF AnswerCommand, WorkerOK
  <2>2. QED BY <1>1, <2>1, FinishTells DEF Ledger!Confirm, Ledger!Step
<1>9. CASE Crash(w)
  <2>1. c # Null /\ Finish(w, "crashed") /\ UNCHANGED tables
    BY <1>1, <1>9 DEF Crash, WorkerOK
  <2>2. QED BY <1>1, <2>1, FinishTells DEF Ledger!Fail, Ledger!Step
<1>10. QED BY <1>2, <1>3, <1>4, <1>5, <1>6, <1>7, <1>8, <1>9 DEF Step

\* Whatever the interleaving, the commands of the service take effect as the
\* atomic commands of the ledger do, and are refused for reasons that hold.
THEOREM LedgerImplemented == Spec => ImplementsLedger
<1>1. Init => Ledger!Init
  BY DEF Init, Ledger!Init
<1>2. TypeInv /\ [Next]_vars => [Ledger!Next]_(Ledger!ledgerVars)
  <2> SUFFICES ASSUME TypeInv, [Next]_vars PROVE [Ledger!Next]_(Ledger!ledgerVars)
    OBVIOUS
  <2>1. CASE UNCHANGED vars
    BY <2>1 DEF vars, Ledger!ledgerVars
  <2>2. CASE Next
    BY <2>2, StepRefines DEF Next, Ledger!Next
  <2>3. QED BY <2>1, <2>2
<1>3. QED BY <1>1, <1>2, TypeInvariance, PTL DEF Spec, ImplementsLedger, Ledger!Spec

-----------------------------------------------------------------------------
(* The history.                                                            *)

\* The audit trail never runs ahead of the row.
TrailBounded ==
  \A a \in audit : leads[a.lead] # Null /\ a.version <= leads[a.lead].version

HistoryInv == HistoryMatches /\ TrailBounded

\* What a commit adds: a transition row and an audit event of the new version,
\* which no row of either table has had.
LEMMA CommitAdds ==
  ASSUME TypeInv, HistoryInv, NEW w \in Workers, Commit(w)
  PROVE  LET c == cmd[w]
             row == leads[c.lead]
             new == Written(row, c)
             step == TransitionRow(row, c)
             event == AuditRow(Cardinality(audit) + 1, row, c)
         IN
         /\ c \in Commands /\ c.lead \in Leads /\ new \in LeadRow /\ new # Null
         /\ leads' = [leads EXCEPT ![c.lead] = new]
         /\ transitions' = transitions \cup {step} /\ audit' = audit \cup {event}
         /\ step.lead = c.lead /\ step.version = new.version
         /\ step.to = new.stage /\ step.at = new.updatedAt
         /\ event.lead = c.lead /\ event.version = new.version /\ event.key = c.key
         /\ \A t \in transitions : t.lead = c.lead => t.version < new.version
         /\ \A a \in audit : a.lead = c.lead => a.version < new.version
<1> DEFINE c == cmd[w]
           row == leads[c.lead]
           new == Written(row, c)
<1>1. /\ c \in Commands /\ c.lead \in Leads /\ seen[w] = row /\ new \in LeadRow /\ new # Null
      /\ new.updatedAt = c.at
      /\ row = Null \/ (row \in LeadRow /\ row # Null /\ new.version = row.version + 1)
  BY CommittedRow, NullAssumption DEF Commit
<1>2. \A t \in transitions : t.lead = c.lead => t.version < new.version
  BY <1>1 DEF HistoryInv, HistoryMatches, TypeInv, TypeOK, LeadRow
<1>3. \A a \in audit : a.lead = c.lead => a.version < new.version
  BY <1>1 DEF HistoryInv, TrailBounded, TypeInv, TypeOK, LeadRow
<1>4. QED BY <1>1, <1>2, <1>3 DEF Commit, TransitionRow, AuditRow

LEMMA CommitHistory ==
  ASSUME TypeInv, HistoryInv, NEW w \in Workers, Commit(w)
  PROVE  HistoryInv'
<1> DEFINE c == cmd[w]
           row == leads[c.lead]
           new == Written(row, c)
           step == TransitionRow(row, c)
           event == AuditRow(Cardinality(audit) + 1, row, c)
           Trail(l, v) == {a \in audit : a.lead = l /\ a.version = v}
<1>1. TypeOK /\ c \in Commands /\ c.lead \in Leads /\ new \in LeadRow /\ new # Null
  BY CommitAdds DEF TypeInv
<1>2. /\ leads' = [leads EXCEPT ![c.lead] = new]
      /\ transitions' = transitions \cup {step} /\ audit' = audit \cup {event}
  BY CommitAdds
<1>3. /\ step.lead = c.lead /\ step.version = new.version
      /\ step.to = new.stage /\ step.at = new.updatedAt
      /\ event.lead = c.lead /\ event.version = new.version
  BY CommitAdds
<1>4. /\ \A t \in transitions : t.lead = c.lead => t.version < new.version
      /\ \A a \in audit : a.lead = c.lead => a.version < new.version
  BY CommitAdds
<1>5. /\ leads'[c.lead] = new
      /\ \A l \in Leads : l # c.lead => leads'[l] = leads[l]
  BY <1>1, <1>2 DEF TypeOK
<1>6. ASSUME NEW l \in Leads, NEW v, l # c.lead \/ v # new.version
      PROVE  At(l, v)' = At(l, v) /\ Trail(l, v)' = Trail(l, v)
  BY <1>2, <1>3, <1>6 DEF At
<1>7. ASSUME NEW l, NEW v, l = c.lead, v = new.version
      PROVE  At(l, v)' = {step} /\ Trail(l, v)' = {event}
  BY <1>1, <1>2, <1>3, <1>4, <1>7 DEF At, LeadRow
<1>8. TrailBounded'
  BY <1>1, <1>2, <1>3, <1>4, <1>5 DEF HistoryInv, TrailBounded, TypeInv, TypeOK, LeadRow
<1>9. ASSUME NEW l \in Leads, l # c.lead
      PROVE  IF leads'[l] = Null THEN \A t \in transitions' : t.lead # l
             ELSE /\ \A t \in transitions' : t.lead = l => t.version <= leads'[l].version
                  /\ \A v \in 1 .. leads'[l].version : Recorded(l, v)'
  <2>1. ASSUME NEW v, Recorded(l, v)
        PROVE  Recorded(l, v)'
    <3>1. At(l, v)' = At(l, v) /\ At(l, v - 1)' = At(l, v - 1) /\ Trail(l, v)' = Trail(l, v)
      BY <1>6, <1>9
    <3>2. leads'[l] = leads[l] /\ transitions \subseteq transitions'
      BY <1>2, <1>5, <1>9
    <3>3. QED BY <2>1, <3>1, <3>2 DEF Recorded
  <2>2. QED BY <1>2, <1>3, <1>5, <1>9, <2>1 DEF HistoryInv, HistoryMatches
<1>10. ASSUME NEW l \in Leads, l = c.lead, row # Null, NEW v \in 1 .. row.version
       PROVE  Recorded(l, v)'
  <2>1. Recorded(l, v)
    BY <1>10 DEF HistoryInv, HistoryMatches
  <2>2. row \in LeadRow /\ new.version = row.version + 1 /\ new.openedAt = row.openedAt
    BY <1>10, CommittedRow DEF Commit
  <2>3. v \in Nat /\ v # new.version /\ v - 1 # new.version
    BY <2>2 DEF LeadRow
  <2>4. At(l, v)' = At(l, v) /\ At(l, v - 1)' = At(l, v - 1) /\ Trail(l, v)' = Trail(l, v)
    BY <1>6, <1>10, <2>3
  <2>5. leads'[l].openedAt = leads[l].openedAt /\ v # leads'[l].version /\ transitions \subseteq transitions'
    BY <1>2, <1>5, <1>10, <2>2, <2>3
  <2>6. QED BY <2>1, <2>4, <2>5 DEF Recorded
<1>11. ASSUME NEW l \in Leads, l = c.lead, NEW v, v = new.version
       PROVE  Recorded(l, v)'
  <2>1. At(l, v)' = {step} /\ Cardinality({a \in audit' : a.lead = l /\ a.version = v}) = 1
    <3>1. At(l, v)' = {step} /\ {a \in audit' : a.lead = l /\ a.version = v} = {event}
      BY <1>7, <1>11
    <3>2. Cardinality({event}) = 1
      BY FS_Singleton
    <3>3. QED BY <3>1, <3>2
  <2>2. /\ step \in transitions' /\ leads'[l] = new
        /\ step.to = leads'[l].stage /\ step.at = leads'[l].updatedAt
    BY <1>2, <1>3, <1>5, <1>11
  <2>3. CASE c.kind = "create" /\ row = Null /\ new = NewLead(c) /\ new.version = 1
    <3>1. v = 1 /\ step.at = leads'[l].openedAt
      BY <1>3, <1>11, <2>2, <2>3 DEF NewLead
    <3>2. ~(v > 1)
      BY <3>1
    <3>3. \E t \in transitions' :
            /\ At(l, v)' = {t} /\ (v = 1 => t.at = leads'[l].openedAt)
            /\ t.to = leads'[l].stage /\ t.at = leads'[l].updatedAt
      BY <2>1, <2>2, <3>1
    <3>4. QED BY <2>1, <3>2, <3>3 DEF Recorded
  <2>4. CASE row \in LeadRow /\ row # Null /\ new.version = row.version + 1 /\ Acceptable(row, c)
             /\ new.updatedAt = c.at
    <3>1. v # 1 /\ v - 1 = row.version /\ row.version \in 1 .. row.version
      BY <1>11, <2>4 DEF LeadRow
    <3>2. PICK s \in At(l, v - 1) : s.to = row.stage /\ s.at = row.updatedAt
      <4>1. leads[l] = row /\ Recorded(l, row.version)
        BY <1>11, <2>4, <3>1 DEF HistoryInv, HistoryMatches
      <4>2. \E s \in At(l, row.version) : s.to = row.stage /\ s.at = row.updatedAt
        BY <4>1 DEF Recorded
      <4>3. QED BY <3>1, <4>2
    <3>3. At(l, v - 1)' = At(l, v - 1)
      BY <1>6, <1>11, <2>4, <3>1 DEF LeadRow
    <3>4. step.from = row.stage /\ s.at <= step.at
      <4>1. step.from = row.stage
        BY <2>4 DEF TransitionRow
      <4>2. s.at = row.updatedAt /\ step.at = c.at /\ row.updatedAt <= c.at
        BY <1>3, <2>4, <3>2 DEF Acceptable
      <4>3. QED BY <4>1, <4>2
    <3>5. \E t \in transitions' :
            /\ At(l, v)' = {t}
            /\ \E z \in At(l, v - 1)' : z.to = t.from /\ z.at <= t.at
            /\ t.to = leads'[l].stage /\ t.at = leads'[l].updatedAt
      <4>1. s \in At(l, v - 1)' /\ s.to = step.from /\ s.at <= step.at
        BY <3>2, <3>3, <3>4
      <4>2. QED BY <2>1, <2>2, <4>1
    <3>6. QED BY <2>1, <3>1, <3>5 DEF Recorded
  <2>5. QED BY <2>3, <2>4, CommittedRow, NullAssumption DEF Commit
<1>12. ASSUME NEW l \in Leads, l = c.lead
       PROVE  /\ leads'[l] # Null
              /\ \A t \in transitions' : t.lead = l => t.version <= leads'[l].version
              /\ \A v \in 1 .. leads'[l].version : Recorded(l, v)'
  <2>1. leads'[l] = new
    BY <1>5, <1>12
  <2>2. \A t \in transitions' : t.lead = l => t.version <= new.version
    BY <1>1, <1>2, <1>3, <1>4, <1>12 DEF TypeOK, LeadRow
  <2>3. \A v \in 1 .. new.version : v = new.version \/ (row # Null /\ v \in 1 .. row.version)
    BY <1>1, CommittedRow, NullAssumption DEF LeadRow, Commit
  <2>4. QED BY <1>1, <1>10, <1>11, <1>12, <2>1, <2>2, <2>3
<1>13. HistoryMatches'
  BY <1>9, <1>12 DEF HistoryMatches
<1>14. QED BY <1>8, <1>13 DEF HistoryInv

LEMMA InitHistory == Init => HistoryInv
BY DEF Init, HistoryInv, HistoryMatches, TrailBounded

LEMMA HistoryStep == TypeInv /\ HistoryInv /\ [Next]_vars => HistoryInv'
<1> SUFFICES ASSUME TypeInv, HistoryInv, [Next]_vars PROVE HistoryInv'
  OBVIOUS
<1>1. CASE UNCHANGED tables
  BY <1>1 DEF tables, HistoryInv, HistoryMatches, TrailBounded, Recorded, At
<1>2. ASSUME NEW w \in Workers, Commit(w)
      PROVE  HistoryInv'
  BY <1>2, CommitHistory
<1>3. UNCHANGED tables \/ \E w \in Workers : Commit(w)
  BY TablesSame DEF Next, vars, tables
<1>4. QED BY <1>1, <1>2, <1>3

LEMMA HistoryInvariance == Spec => []HistoryInv
<1>1. QED BY TypeInvariance, InitHistory, HistoryStep, PTL DEF Spec

\* A lead's row and its history never disagree, however its commands
\* interleave, crash and are retried.
THEOREM HistoryCorrect == Spec => []HistoryMatches
<1>1. HistoryInv => HistoryMatches
  BY DEF HistoryInv
<1>2. QED BY <1>1, HistoryInvariance, PTL

-----------------------------------------------------------------------------
(* Retries.                                                                *)

\* The version a command makes, which does not depend on when it is tried.
VersionOf(c) == IF c.kind = "create" THEN 1 ELSE c.expectedVersion + 1

\* Every audit event is that of a command, the only one of its lead and version.
TrailInv ==
  /\ \A a \in audit : \E c \in Commands :
       a.key = c.key /\ a.lead = c.lead /\ a.version = VersionOf(c)
  /\ \A a, b \in audit : a.lead = b.lead /\ a.version = b.version => a = b

LEMMA TrailStep == TypeInv /\ HistoryInv /\ TrailInv /\ [Next]_vars => TrailInv'
<1> SUFFICES ASSUME TypeInv, HistoryInv, TrailInv, [Next]_vars PROVE TrailInv'
  OBVIOUS
<1>1. CASE UNCHANGED tables
  BY <1>1 DEF tables, TrailInv
<1>2. ASSUME NEW w \in Workers, Commit(w)
      PROVE  TrailInv'
  <2> DEFINE c == cmd[w]
             row == leads[c.lead]
             new == Written(row, c)
             event == AuditRow(Cardinality(audit) + 1, row, c)
  <2>1. /\ c \in Commands /\ audit' = audit \cup {event}
        /\ event.lead = c.lead /\ event.version = new.version /\ event.key = c.key
        /\ \A a \in audit : a.lead = c.lead => a.version < new.version
        /\ new \in LeadRow
    BY <1>2, CommitAdds
  <2>2. new.version = VersionOf(c)
    BY <1>2, CommittedRow DEF VersionOf, Commit
  <2>3. \A a \in audit : a.lead = c.lead => a.version # event.version
    BY <2>1 DEF LeadRow, TypeInv, TypeOK
  <2>4. QED BY <2>1, <2>2, <2>3 DEF TrailInv
<1>3. UNCHANGED tables \/ \E w \in Workers : Commit(w)
  BY TablesSame DEF Next, vars, tables
<1>4. QED BY <1>1, <1>2, <1>3

\* A command sent any number of times takes effect at most once, given that no
\* two commands share a key: the version it expects does what a look-up of the
\* key would.
THEOREM RetryOnce ==
  ASSUME \A c, d \in Commands : c.key = d.key => c = d
  PROVE  Spec => []RetryTakesEffectOnce
<1>1. Init => TrailInv
  BY DEF Init, TrailInv
<1>2. TrailInv => RetryTakesEffectOnce
  <2> SUFFICES ASSUME TrailInv, NEW a \in audit, NEW b \in audit, a.key = b.key
               PROVE  a = b
    BY DEF RetryTakesEffectOnce
  <2>1. PICK c \in Commands : a.key = c.key /\ a.lead = c.lead /\ a.version = VersionOf(c)
    BY DEF TrailInv
  <2>2. PICK d \in Commands : b.key = d.key /\ b.lead = d.lead /\ b.version = VersionOf(d)
    BY DEF TrailInv
  <2>3. c = d
    BY <2>1, <2>2
  <2>4. QED BY <2>1, <2>2, <2>3 DEF TrailInv
<1>3. QED BY <1>1, <1>2, TypeInvariance, HistoryInvariance, TrailStep, PTL DEF Spec

-----------------------------------------------------------------------------
(* Conversions.                                                            *)

\* The stages a lead reaches only through a confirmation it has not given up.
AfterConfirmation ==
  {"booking_confirmed", "outcome_verified", "outcome_missed", "conversion_follow_up", "converted"}

LEMMA WayToConversion ==
  ASSUME NEW from \in Stages, NEW to \in AfterConfirmation, CanTransition(from, to)
  PROVE  to = "booking_confirmed" \/ from \in AfterConfirmation
BY DEF CanTransition, Successors, Stages, TerminalStages, AfterConfirmation

ConfirmedBy(s, t) ==
  /\ s.lead = t.lead /\ s.version <= t.version /\ s.to = "booking_confirmed"
  /\ \A u \in transitions :
       u.lead = t.lead /\ u.to = "booking_proposed" /\ u.version <= t.version =>
         u.version < s.version

ConfirmInv ==
  \A t \in transitions :
    /\ t.to \in ReasonRequired => t.reason
    /\ t.to \in AfterConfirmation => \E s \in transitions : ConfirmedBy(s, t)

LEMMA CommitConfirm ==
  ASSUME TypeInv, HistoryInv, ConfirmInv, NEW w \in Workers, Commit(w)
  PROVE  ConfirmInv'
<1> DEFINE c == cmd[w]
           row == leads[c.lead]
           new == Written(row, c)
           step == TransitionRow(row, c)
<1>1. /\ c.lead \in Leads /\ transitions' = transitions \cup {step}
      /\ step.lead = c.lead /\ step.version = new.version /\ step.to = new.stage
      /\ \A t \in transitions : t.lead = c.lead => t.version < new.version
      /\ new.version \in Nat
  BY CommitAdds DEF LeadRow
<1>2. \A t \in transitions : t.version \in Nat
  BY DEF TypeInv, TypeOK
<1>3. ASSUME NEW t \in transitions, NEW s \in transitions, ConfirmedBy(s, t)
      PROVE  ConfirmedBy(s, t)'
  BY <1>1, <1>2, <1>3 DEF ConfirmedBy
<1>4. CASE c.kind = "create" /\ new = NewLead(c)
  <2>1. step.to = "new"
    BY <1>1, <1>4 DEF NewLead
  <2>2. QED BY <1>1, <1>3, <2>1 DEF ConfirmInv, AfterConfirmation, ReasonRequired
<1>5. CASE /\ c.kind = "transition" /\ row \in LeadRow /\ row # Null /\ Acceptable(row, c)
           /\ new.stage = c.to /\ new.version = row.version + 1
  <2>1. step.to \in ReasonRequired => step.reason
    BY <1>1, <1>5 DEF Acceptable, TransitionRow
  <2>2. ASSUME NEW z, z = step, step.to = "booking_confirmed"
        PROVE  ConfirmedBy(z, z)'
    BY <1>1, <1>2, <2>2 DEF ConfirmedBy
  <2>3. ASSUME NEW z, z = step, step.to \in AfterConfirmation, step.to # "booking_confirmed"
        PROVE  \E s \in transitions : ConfirmedBy(s, z)'
    <3>1. row.stage \in AfterConfirmation
      BY <1>1, <1>5, <2>3, WayToConversion DEF Acceptable, LeadRow
    <3>2. row.version \in 1 .. row.version
      BY <1>5 DEF LeadRow
    <3>3. Recorded(c.lead, row.version)
      BY <1>1, <1>5, <3>2 DEF HistoryInv, HistoryMatches
    <3>4. PICK t \in transitions : t.lead = c.lead /\ t.version = row.version /\ t.to = row.stage
      BY <3>3 DEF Recorded, At
    <3>5. PICK s \in transitions : ConfirmedBy(s, t)
      BY <3>1, <3>4 DEF ConfirmInv
    <3>6. ASSUME NEW u \in transitions', u.lead = step.lead, u.to = "booking_proposed",
                 u.version <= step.version
          PROVE  u.version < s.version
      <4>1. u # step
        BY <2>3, <3>6 DEF AfterConfirmation
      <4>2. u \in transitions /\ u.version <= t.version
        BY <1>1, <1>2, <1>5, <3>4, <3>6, <4>1 DEF LeadRow
      <4>3. QED BY <1>1, <3>4, <3>5, <3>6, <4>2 DEF ConfirmedBy
    <3>7. s.lead = step.lead /\ s.version <= step.version /\ s.to = "booking_confirmed"
      BY <1>1, <1>2, <3>4, <3>5 DEF ConfirmedBy
    <3>8. QED BY <2>3, <3>6, <3>7 DEF ConfirmedBy
  <2>4. QED BY <1>1, <1>3, <2>1, <2>2, <2>3 DEF ConfirmInv
<1>6. QED BY <1>4, <1>5, CommittedRow, NullAssumption DEF Commit

LEMMA ConfirmStep == TypeInv /\ HistoryInv /\ ConfirmInv /\ [Next]_vars => ConfirmInv'
<1> SUFFICES ASSUME TypeInv, HistoryInv, ConfirmInv, [Next]_vars PROVE ConfirmInv'
  OBVIOUS
<1>1. CASE UNCHANGED tables
  BY <1>1 DEF tables, ConfirmInv, ConfirmedBy
<1>2. UNCHANGED tables \/ \E w \in Workers : Commit(w)
  BY TablesSame DEF Next, vars, tables
<1>3. QED BY <1>1, <1>2, CommitConfirm

\* A converted lead was confirmed for its latest booking, after any number of
\* rebookings and follow-ups.
THEOREM ConversionConfirmed == Spec => []ConvertedWasConfirmed
<1>1. Init => ConfirmInv
  BY DEF Init, ConfirmInv
<1>2. TypeInv /\ HistoryInv /\ ConfirmInv => ConvertedWasConfirmed
  <2> SUFFICES ASSUME TypeInv, HistoryInv, ConfirmInv, NEW t \in transitions
               PROVE  /\ t.to \in ReasonRequired => t.reason
                      /\ t.to = "converted" =>
                           \E s \in transitions :
                             /\ s.lead = t.lead /\ s.version < t.version
                             /\ s.to = "booking_confirmed"
                             /\ \A u \in transitions :
                                  u.lead = t.lead /\ u.to = "booking_proposed" /\ u.version < t.version
                                    => u.version < s.version
    BY SMT DEF ConvertedWasConfirmed
  <2>1. t.to \in ReasonRequired => t.reason
    BY DEF ConfirmInv
  <2>2. ASSUME t.to = "converted", NEW s \in transitions, ConfirmedBy(s, t)
        PROVE  s.version # t.version
    <3>1. t.lead \in Leads /\ leads[t.lead] # Null /\ t.version \in 1 .. leads[t.lead].version
      BY DEF HistoryInv, HistoryMatches, TypeInv, TypeOK, LeadRow
    <3>2. Recorded(t.lead, t.version)
      BY <3>1 DEF HistoryInv, HistoryMatches
    <3>3. PICK z \in transitions : At(t.lead, t.version) = {z}
      BY <3>2 DEF Recorded
    <3>4. s.version = t.version => s \in At(t.lead, t.version) /\ t \in At(t.lead, t.version)
      BY <2>2 DEF At, ConfirmedBy
    <3>5. s.to # t.to
      BY <2>2 DEF ConfirmedBy
    <3>6. s = t => s.to = t.to
      OBVIOUS
    <3>7. QED BY <3>3, <3>4, <3>5, <3>6
  <2>3. \A u \in transitions : u.version \in Nat
    BY DEF TypeInv, TypeOK
  <2>4. ASSUME t.to = "converted"
        PROVE  \E s \in transitions :
                 /\ s.lead = t.lead /\ s.version < t.version /\ s.to = "booking_confirmed"
                 /\ \A u \in transitions :
                      u.lead = t.lead /\ u.to = "booking_proposed" /\ u.version < t.version
                        => u.version < s.version
    <3>1. PICK s \in transitions : ConfirmedBy(s, t)
      BY <2>4 DEF ConfirmInv, AfterConfirmation
    <3>2. s.version < t.version /\ s.lead = t.lead /\ s.to = "booking_confirmed"
      BY <2>2, <2>3, <2>4, <3>1 DEF ConfirmedBy
    <3>3. \A u \in transitions :
            u.lead = t.lead /\ u.to = "booking_proposed" /\ u.version < t.version
              => u.version < s.version
      BY <2>3, <3>1 DEF ConfirmedBy
    <3>4. QED BY <3>2, <3>3
  <2>5. QED BY <2>1, <2>4
<1>3. QED BY <1>1, <1>2, TypeInvariance, HistoryInvariance, ConfirmStep, PTL DEF Spec
=============================================================================
