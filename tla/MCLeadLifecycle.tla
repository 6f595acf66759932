--------------------------- MODULE MCLeadLifecycle ---------------------------
(* Two sets of commands: a race of several workers for the first versions of *)
(* a lead, and every path of the stage machine up to a version.              *)
EXTENDS LeadLifecycle, TLC

Create(lead, at, key) ==
  [kind |-> "create", lead |-> lead, expectedVersion |-> 1, to |-> "new", reason |-> FALSE,
   at |-> at, key |-> key, sessionExpiresAt |-> 3]
Transition(lead, version, to, reason, at, key) ==
  [kind |-> "transition", lead |-> lead, expectedVersion |-> version, to |-> to,
   reason |-> reason, at |-> at, key |-> key, sessionExpiresAt |-> 3]

\* Two openings; rival moves from each version, with times that go back, a
\* missing reason and a session that has expired.
RacingCommands ==
  UNION {
    {Create(l, 1, "open"), Create(l, 2, "reopen"),
     Transition(l, 1, "contacted", FALSE, 2, "contact"),
     Transition(l, 1, "contacted", FALSE, 1, "contact early"),
     Transition(l, 1, "closed_not_converted", TRUE, 1, "close"),
     Transition(l, 2, "closed_not_converted", FALSE, 2, "close without reason"),
     Transition(l, 2, "qualified", FALSE, 1, "qualify early"),
     Transition(l, 2, "qualified", FALSE, 2, "qualify"),
     Transition(l, 3, "contacted", FALSE, 2, "contact again"),
     Transition(l, 3, "booking_proposed", FALSE, 3, "propose late")} : l \in Leads}

\* The way on to a conversion, with the detours and the shortcuts: a booking
\* confirmed, given up and made again, an outcome that was verified or missed
\* without a confirmation, a follow-up.
LateCommands ==
  UNION {
    {Transition(l, 3, "booking_proposed", FALSE, 2, "propose"),
     Transition(l, 4, "booked", FALSE, 2, "book"),
     Transition(l, 5, "booking_confirmed", FALSE, 2, "confirm"),
     Transition(l, 5, "outcome_verified", FALSE, 2, "verify unconfirmed"),
     Transition(l, 6, "outcome_verified", FALSE, 2, "verify"),
     Transition(l, 6, "outcome_missed", TRUE, 2, "miss"),
     Transition(l, 6, "booking_proposed", FALSE, 2, "rebook"),
     Transition(l, 7, "converted", FALSE, 2, "convert"),
     Transition(l, 7, "conversion_follow_up", FALSE, 2, "follow up"),
     Transition(l, 7, "booked", FALSE, 2, "book again"),
     Transition(l, 8, "outcome_verified", FALSE, 2, "verify again"),
     Transition(l, 8, "converted", FALSE, 2, "convert after follow-up"),
     Transition(l, 9, "converted", FALSE, 2, "convert again")} : l \in Leads}

AllCommands == RacingCommands \cup LateCommands

WorkerSymmetry == Permutations(Workers)
=============================================================================
