------------------------------ MODULE LeadLedger ------------------------------
(***************************************************************************)
(* What the lead service promises its callers, whatever the interleaving:  *)
(* a command takes effect in one step on the lead as it is, or is refused  *)
(* for a reason that holds of the lead as it is.  A caller whose server    *)
(* dies cannot tell which.                                                 *)
(***************************************************************************)
EXTENDS LeadStages

CONSTANT Workers

VARIABLES
  leads, transitions, audit,
  cmd,   \* the command each worker handles, or Null
  done,  \* whether it has taken effect
  told   \* the last answer of each worker; "none" while it handles a command

records == <<leads, transitions, audit>>
ledgerVars == <<leads, transitions, audit, cmd, done, told>>

-----------------------------------------------------------------------------
Take(w) ==
  /\ cmd[w] = Null
  /\ \E c \in Commands : cmd' = [cmd EXCEPT ![w] = c]
  /\ told' = [told EXCEPT ![w] = "none"]
  /\ UNCHANGED <<records, done>>

\* A lead is opened once, and moved from exactly the version its owner saw.
Takes(row, c) ==
  \/ c.kind = "create" /\ row = Null
  \/ c.kind = "transition" /\ row # Null /\ row.version = c.expectedVersion /\ Acceptable(row, c)

Apply(w) ==
  LET c == cmd[w]
      row == leads[c.lead] IN
  /\ c # Null /\ ~done[w] /\ Takes(row, c)
  /\ leads' = [leads EXCEPT ![c.lead] = Written(row, c)]
  /\ transitions' = transitions \cup {TransitionRow(row, c)}
  /\ audit' = audit \cup {AuditRow(Cardinality(audit) + 1, row, c)}
  /\ done' = [done EXCEPT ![w] = TRUE]
  /\ UNCHANGED <<cmd, told>>

Tell(w, answer) ==
  /\ cmd' = [cmd EXCEPT ![w] = Null]
  /\ done' = [done EXCEPT ![w] = FALSE]
  /\ told' = [told EXCEPT ![w] = answer]
  /\ UNCHANGED records

Confirm(w) == cmd[w] # Null /\ done[w] /\ Tell(w, "committed")

\* The reason why the lead as it is does not take a command.
Reason(row, c) ==
  CASE c.kind = "create"               -> "already_exists"
    [] c.kind # "create" /\ row = Null -> "not_found"
    [] c.kind # "create" /\ row # Null /\ row.version # c.expectedVersion -> "version_conflict"
    [] OTHER                           -> "refused"

Refuse(w) ==
  LET c == cmd[w]
      row == leads[c.lead] IN
  /\ c # Null /\ ~done[w] /\ ~Takes(row, c)
  /\ Tell(w, Reason(row, c))

\* A session that has ended is refused whatever the state of the lead.
Deny(w) ==
  /\ cmd[w] = Null /\ \E c \in Commands : c.sessionExpiresAt <= c.at
  /\ Tell(w, "denied")

\* The caller gets no answer; the command has taken effect or never will.
Fail(w) == cmd[w] # Null /\ Tell(w, "crashed")

-----------------------------------------------------------------------------
Init ==
  /\ leads = [l \in Leads |-> Null]
  /\ transitions = {}
  /\ audit = {}
  /\ cmd = [w \in Workers |-> Null]
  /\ done = [w \in Workers |-> FALSE]
  /\ told = [w \in Workers |-> "none"]

Step(w) == Take(w) \/ Apply(w) \/ Confirm(w) \/ Refuse(w) \/ Deny(w) \/ Fail(w)

Next == \E w \in Workers : Step(w)

Spec == Init /\ [][Next]_ledgerVars
=============================================================================
