------------------------ MODULE MCReverificationPages ------------------------
(* The owner's tabs over the small profile of MCFactCommands: the price is    *)
(* due, and its form races with a second submission or with any command.     *)
EXTENDS ReverificationPages, MCFactCommands, Sequences

\* Server invocations, by the row ids they draw.
PageAttempts == {"f7", "f8"}

\* The rows that two invocations can leave due.
PageFormKeys ==
  [x \in {<<"f1", 1>>} \cup ({"f2", "f3", "f5", "f6", "f7", "f8"} \X {2}) |->
     "fact-reverification:" \o x[1] \o ":" \o ToString(x[2])]
PageIds == MCIds \cup PageAttempts \cup {PageFormKeys[x] : x \in DOMAIN PageFormKeys}

PageTimes == {2, 4}
PageSession == [owner |-> TRUE, sessionExpiresAt |-> 5]

\* Other reverifications have keys of their own; the forms' commands complete the set.
PageCommands ==
  AllCommands \cup
  {[scope |-> ReverifyScope, key |-> PageFormKeys[x], owner |-> PageSession.owner,
    sessionExpiresAt |-> PageSession.sessionExpiresAt,
    request |-> [factId |-> x[1], expectedVersion |-> x[2]], newFactId |-> p] :
      x \in DOMAIN PageFormKeys, p \in PageAttempts}
=============================================================================
