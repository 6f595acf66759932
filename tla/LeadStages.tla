------------------------------ MODULE LeadStages ------------------------------
(***************************************************************************)
(* The domain of a lead's lifecycle: its stages, the commands that open    *)
(* and move a lead, and the rows that record a move.                       *)
(***************************************************************************)
EXTENDS Integers, FiniteSets

CONSTANTS
  Leads,
  Commands,  \* the commands that may be sent, any number of times
  Null

-----------------------------------------------------------------------------
(* The stage machine of the domain.                                        *)

Stages == {"new", "contacted", "qualified", "booking_proposed", "booked", "booking_confirmed",
           "outcome_verified", "outcome_missed", "conversion_follow_up",
           "converted", "closed_not_converted"}

TerminalStages == {"converted", "closed_not_converted"}
ReasonRequired == {"outcome_missed", "closed_not_converted"}

\* ALLOWED_LEAD_STAGE_TRANSITIONS.
Successors ==
  [s \in Stages |->
    CASE s = "new"                  -> {"contacted"}
      [] s = "contacted"            -> {"qualified"}
      [] s = "qualified"            -> {"booking_proposed"}
      [] s = "booking_proposed"     -> {"booked"}
      [] s = "booked"               -> {"booking_confirmed", "booking_proposed"}
      [] s = "booking_confirmed"    -> {"outcome_verified", "outcome_missed", "booking_proposed"}
      [] s = "outcome_verified"     -> {"conversion_follow_up", "converted"}
      [] s = "outcome_missed"       -> {"booking_proposed", "conversion_follow_up"}
      [] s = "conversion_follow_up" -> {"booking_proposed", "converted"}
      [] OTHER                      -> {}]

\* Variant for a mutant: a booking may be verified without its confirmation.
CanSkipConfirmation(from, to) ==
  \/ to \in Successors[from]
  \/ from = "booked" /\ to = "outcome_verified"
  \/ from \notin TerminalStages /\ to = "closed_not_converted"

\* canTransitionLeadLifecycle; every open stage may be closed.
CanTransition(from, to) ==
  \/ to \in Successors[from]
  \/ from \notin TerminalStages /\ to = "closed_not_converted"

-----------------------------------------------------------------------------
(* Commands and rows.                                                      *)

Command ==
  [kind : {"create", "transition"}, lead : Leads, expectedVersion : Nat \ {0}, to : Stages,
   reason : BOOLEAN, at : Nat, key : STRING, sessionExpiresAt : Nat]

ASSUME CommandAssumption == Commands \subseteq Command
LeadRow == [stage : Stages, version : Nat \ {0}, openedAt : Nat, updatedAt : Nat]

ASSUME NullAssumption ==
  Null \notin Leads \cup Stages /\ Null \notin Commands /\ Null \notin LeadRow

\* Variant for a mutant: the first version of a lead is 0.
UnversionedLead(c) == [stage |-> "new", version |-> 0, openedAt |-> c.at, updatedAt |-> c.at]

NewLead(c) == [stage |-> "new", version |-> 1, openedAt |-> c.at, updatedAt |-> c.at]

\* Variant for a mutant: the update leaves updated_at alone.
MovedSilently(row, c) == [row EXCEPT !.stage = c.to, !.version = row.version + 1]

\* The row a transition leaves.
Moved(row, c) ==
  [row EXCEPT !.stage = c.to, !.version = row.version + 1, !.updatedAt = c.at]

\* The row the transaction of a command writes, from the one it read.
Written(row, c) == IF c.kind = "create" THEN NewLead(c) ELSE Moved(row, c)

TransitionRow(row, c) ==
  [lead |-> c.lead, version |-> Written(row, c).version,
   from |-> IF row = Null THEN Null ELSE row.stage, to |-> Written(row, c).stage,
   reason |-> c.kind = "transition" /\ c.reason, at |-> c.at]

\* The audit event of a command; its id is a fresh one.
AuditRow(id, row, c) ==
  [id |-> id, lead |-> c.lead, version |-> Written(row, c).version, key |-> c.key]

\* transitionLeadLifecycle, once the version is the expected one.
Acceptable(row, c) ==
  /\ CanTransition(row.stage, c.to)
  /\ row.updatedAt <= c.at
  /\ c.to \in ReasonRequired => c.reason
=============================================================================
