-------------------------- MODULE MCBusinessProfile --------------------------
(* Two versions of a playbook; the second one drops a field.  Owners create  *)
(* the draft, change and delete fields, and reuse keys.                      *)
EXTENDS BusinessProfile, TLC

MCPlaybooks == {"yoga@1", "yoga@2"}
MCFieldsOf == "yoga@1" :> {"studio", "offer"} @@ "yoga@2" :> {"studio"}
MCValues == {"a", "b"}
MCTimes == {1, 2}

Create(changes, playbook, key) ==
  [kind |-> "create", expectedVersion |-> 0, changes |-> changes, playbook |-> playbook,
   key |-> key, allowed |-> TRUE]
Revise(version, changes, playbook, key) ==
  [kind |-> "revise", expectedVersion |-> version, changes |-> changes, playbook |-> playbook,
   key |-> key, allowed |-> TRUE]

MCCommands ==
  {Create("studio" :> "a" @@ "offer" :> "a", "yoga@1", "c1"),
   Create("studio" :> "b", "yoga@2", "c2"),
   Create("offer" :> "b", "yoga@2", "c2"),
   Revise(1, "offer" :> "b", "yoga@1", "r1"),
   Revise(1, "offer" :> Null, "yoga@1", "r2"),
   Revise(1, "studio" :> "a", "yoga@2", "r3"),
   Revise(2, "studio" :> "b", "yoga@1", "r1"),
   Revise(2, "studio" :> "b" @@ "offer" :> Null, "yoga@1", "r4"),
   [Revise(1, "studio" :> "b", "yoga@1", "r5") EXCEPT !.allowed = FALSE]}

AttemptSymmetry == Permutations(Attempts)
=============================================================================
