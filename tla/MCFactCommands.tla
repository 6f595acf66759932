---------------------------- MODULE MCFactCommands ----------------------------
(* A small profile: one time-sensitive field with an old approved price, one *)
(* stable field without a fact; three candidates; commands that race.        *)
EXTENDS FactCommands, TLC

MCFields == {"offer.price", "studio.name"}
MCTimeSensitive == {"offer.price"}
MCValues == {"v1", "v2"}
MCTimes == {1, 2, 4}
MCIds == {"f1", "f2", "f3", "f4", "f5", "f6", "d1", "d2", "d3", "d4", "d5",
          "k1", "k2", "k3", "k4", "K1", "K2", "K3", "K4", "K5"}

\* k1 agrees with its sources, k2 conflicts with the current value, k3 has no
\* decidable value for its stable field; k4 does not exist.
MCCandidates == {"k1", "k2", "k3"}
MCCandidateRow ==
  "k1" :> [field |-> "offer.price", value |-> "v1", conflict |-> FALSE, capturedAt |-> 0] @@
  "k2" :> [field |-> "offer.price", value |-> "v2", conflict |-> TRUE, capturedAt |-> 3] @@
  "k3" :> [field |-> "studio.name", value |-> Null, conflict |-> FALSE, capturedAt |-> 0]

\* An approved price from before migration 0011: restricted, without an expiry.
MCSeedFacts ==
  {[id |-> "f1", field |-> "offer.price", version |-> 1, value |-> "v2", candidate |-> "k2",
    supersedes |-> Null, origin |-> "review", governance |-> "restricted",
    verifiedAt |-> 0, expiresAt |-> Null]}

Review(key, k, fact, decision, action, value, reason, d, f) ==
  [scope |-> ReviewScope, key |-> key, owner |-> TRUE, sessionExpiresAt |-> 5,
   request |-> [candidate |-> k, expectedFact |-> fact, expectedDecision |-> decision,
                action |-> action, value |-> value, reason |-> reason,
                decisionId |-> d, factId |-> f]]
Reverification(key, fact, version, new, owner) ==
  [scope |-> ReverifyScope, key |-> key, owner |-> owner, sessionExpiresAt |-> 3,
   request |-> [factId |-> fact, expectedVersion |-> version], newFactId |-> new]

\* Two approvals and two rejections of price candidates, a reverification that
\* is retried with a fresh row id, and a key reused for another request.
Verify1 == Review("K1", "k1", 1, 0, "verify", Null, FALSE, "d1", "f2")
Resolve2 == Review("K2", "k2", 1, 0, "resolve_conflict", "v1", TRUE, "d2", "f3")
Reject1 == Review("K3", "k1", 1, 0, "reject", Null, TRUE, "d3", "f4")
Reject2 == Review("K2", "k2", 2, 0, "reject", Null, TRUE, "d4", "f4")
Again1 == Review("K4", "k1", 2, 1, "correct_and_verify", "v2", TRUE, "d4", "f4")
Reverify1 == Reverification("K1", "f1", 1, "f5", TRUE)
Reverify1b == Reverification("K1", "f1", 1, "f6", TRUE)
Reverify2 == Reverification("K1", "f2", 2, "f6", TRUE)

RacingCommands == {Verify1, Resolve2, Reject1, Reject2, Again1, Reverify1, Reverify1b, Reverify2}

\* The refusals: an unknown candidate, an undecidable value, a foreign session.
RefusedCommands ==
  {Review("K5", "k4", 0, 0, "verify", Null, FALSE, "d5", "f4"),
   Review("K5", "k3", 0, 0, "verify", Null, FALSE, "d5", "f4"),
   Reverification("K5", "f4", 1, "f5", TRUE),
   Reverification("K5", "f1", 1, "f5", FALSE)}

AllCommands == RacingCommands \cup RefusedCommands

AttemptSymmetry == Permutations(Attempts)
=============================================================================
