-------------------------- MODULE FactReverification --------------------------
(***************************************************************************)
(* An owner's reverification of a current fact that is due:                *)
(* executeFactReverification and the repository's commitReverification.    *)
(* It takes no advisory lock; the request hash leaves the new row's id out. *)
(***************************************************************************)
EXTENDS FactStore

ReverifyScope == "fact_reverification"

ReverifyRequest == [factId : Ids, expectedVersion : Nat \ {0}]

ReverifyCommand ==
  [scope : {ReverifyScope}, key : Ids, request : ReverifyRequest, newFactId : Ids,
   owner : BOOLEAN, sessionExpiresAt : Nat]

Reverifies(c) == c.scope = ReverifyScope
Reverifying(p) == cmd[p] # Null /\ Reverifies(cmd[p])

-----------------------------------------------------------------------------
\* The row with this id, when it is the current one of its field.
CurrentById(id) ==
  {r \in facts : r.id = id /\ r \in CurrentFacts(r.field)}

\* classifyFactFreshness is not "current": expired or due soon.
Due(row, t) ==
  LET expiry == IF row.expiresAt = Null THEN row.verifiedAt + Window ELSE row.expiresAt
  IN  expiry <= t + DueSoon

ReverifyVerdict(request, row, t) ==
  IF row.version # request.expectedVersion THEN "stale_version"
  ELSE IF row.field \notin TimeSensitive THEN "not_time_sensitive"
  ELSE IF ~Due(row, t) THEN "not_due"
  ELSE "accepted"

\* Variant for a mutant: the new row takes the column default of governance_status.
ReverifiedAsAvailable(row, id, t) ==
  [row EXCEPT !.id = id, !.version = row.version + 1, !.supersedes = row.id,
              !.origin = "reverification", !.governance = "available",
              !.verifiedAt = t, !.expiresAt = ExpiresAt(row.field, t)]

\* The next version of row: its content, with a new verification time.
Reverified(row, id, t) ==
  [row EXCEPT !.id = id, !.version = row.version + 1, !.supersedes = row.id,
              !.origin = "reverification", !.verifiedAt = t,
              !.expiresAt = ExpiresAt(row.field, t)]

-----------------------------------------------------------------------------
\* findReverificationByIdempotency finds succeeded records by key alone; the
\* service compares the row it refers to with the request.
ReplayReverification(request, r) ==
  {IF row.supersedes = request.factId /\ row.version = request.expectedVersion + 1
   THEN Answer("replayed", row.id) ELSE Answer("invalid_request", Null) :
     row \in {s \in facts : s.id = r.ref}}

FoundReverification(c) ==
  LET succeeded == {r \in RecordsFor(c) : r.status = "succeeded"} IN
  IF succeeded = {} THEN {NoReply}
  ELSE UNION {ReplayReverification(c.request, r) : r \in succeeded}

StartReverification(p) ==
  \E c \in Commands, t \in Times :
    /\ Reverifies(c)
    /\ \/ ~Authorized(c, t) /\ Start(p, c, t, Answer("denied", Null), "done")
       \/ /\ Authorized(c, t)
          /\ \E answer \in FoundReverification(c) : Start(p, c, t, answer, "decide")

\* listCurrentFacts and the freshness rules.
DecideReverification(p) ==
  LET request == cmd[p].request IN
  /\ pc[p] = "decide" /\ Reverifying(p)
  /\ \/ CurrentById(request.factId) = {} /\ Finish(p, Answer("not_found", Null))
     \/ \E row \in CurrentById(request.factId) :
          LET verdict == ReverifyVerdict(request, row, now[p]) IN
          IF verdict = "accepted"
          THEN Intend(p, "claim", [fact |-> Reverified(row, cmd[p].newFactId, now[p]),
                                   decision |-> Null])
          ELSE Finish(p, Answer(verdict, Null))
  /\ UNCHANGED tables

-----------------------------------------------------------------------------
(* commitReverification: one transaction.                                  *)

ClaimReverification(p) == Reverifying(p) /\ Claim(p, cmd[p].request, "check")

\* The row read here is the one whose content the insert copies.
CheckReverification(p) ==
  LET fact == plan[p].fact IN
  /\ pc[p] = "check" /\ Reverifying(p)
  /\ \E cur \in CurrentFact(fact.field) :
       IF cur # Null /\ IdOf(cur) = fact.supersedes /\ VersionOf(cur) + 1 = fact.version
       THEN Intend(p, "insert_fact", [fact |-> Reverified(cur, fact.id, fact.verifiedAt),
                                      decision |-> Null])
       ELSE Finish(p, Answer("version_conflict", Null))
  /\ UNCHANGED tables

InsertReverifiedFact(p) == Reverifying(p) /\ InsertFact(p, "commit")

CommitReverification(p) ==
  Reverifying(p) /\ Commit(p, cmd[p].request, cmd[p].newFactId)

\* A reverification that began goes on.
ContinueReverification(p) ==
  \/ DecideReverification(p)
  \/ ClaimReverification(p)
  \/ CheckReverification(p)
  \/ InsertReverifiedFact(p)
  \/ CommitReverification(p)

ReverificationStep(p) == StartReverification(p) \/ ContinueReverification(p)
=============================================================================
