------------------------------ MODULE FactLedger ------------------------------
(***************************************************************************)
(* What owner review and reverification promise a caller, whatever the     *)
(* interleaving: each command takes effect in one step, at most once per   *)
(* idempotency key, on the versions it expected; every other answer leaves *)
(* the histories as they are.                                              *)
(***************************************************************************)
EXTENDS Integers, Sequences

CONSTANTS Attempts, Fields, Candidates, InitialHistory,
          Approvals, Rejections, Reverifications

VARIABLES
  history,    \* per field, the approved versions, oldest first
  judgements, \* per candidate, the decisions, oldest first
  applied,    \* the uses of idempotency keys: [key, request, ref]
  answered    \* what each attempt was told: {}, {Refusal} or the use, as a set

Refusal == [refused |-> TRUE]

ledgerVars == <<history, judgements, applied, answered>>

-----------------------------------------------------------------------------
(* A command is [use, field, candidate, expectedFact, expectedDecision,    *)
(* factId, entry, judgement]: use is its key, its request and the id of    *)
(* the row it makes, entry what it appends to a field and judgement to a   *)
(* candidate.                                                              *)

Unused(u) == \A w \in applied : w.key # u.key

\* Every version of field f after the n-th confirms it and changes nothing.
OnlyReverifiedSince(f, n) ==
  \A i \in DOMAIN history[f] : i > n => \A e \in history[f][i] : e.origin = "reverification"

\* The command takes effect and is the only one of its key that ever will.
Apply(p, c) ==
  /\ answered[p] = {} /\ answered' = [answered EXCEPT ![p] = {c.use}]
  /\ Unused(c.use) /\ applied' = applied \cup {c.use}

Judge(c) ==
  /\ Len(judgements[c.candidate]) = c.expectedDecision
  /\ judgements' = [judgements EXCEPT ![c.candidate] = Append(@, {c.judgement})]

\* An approval extends exactly the version its owner saw.
Approve(p) == \E c \in Approvals :
  /\ Apply(p, c) /\ Judge(c)
  /\ Len(history[c.field]) = c.expectedFact
  /\ history' = [history EXCEPT ![c.field] = Append(@, {c.entry})]

\* A rejection leaves the facts alone; since the version its owner saw, the
\* value has at most been reverified.
Reject(p) == \E c \in Rejections :
  /\ Apply(p, c) /\ Judge(c)
  /\ c.expectedFact <= Len(history[c.field])
  /\ OnlyReverifiedSince(c.field, c.expectedFact)
  /\ UNCHANGED history

\* A reverification extends the very row the owner saw with the same content.
Reverify(p) == \E c \in Reverifications, f \in Fields :
  /\ Apply(p, c)
  /\ Len(history[f]) = c.expectedFact
  /\ \E e \in history[f][c.expectedFact] :
       /\ e.id = c.factId
       /\ history' = [history EXCEPT ![f] =
                        Append(@, {[e EXCEPT !.id = c.newFactId, !.origin = "reverification"]})]
  /\ UNCHANGED judgements

\* A retry is told the effect its key had.
Replay(p) ==
  /\ answered[p] = {}
  /\ \E u \in applied : answered' = [answered EXCEPT ![p] = {u}]
  /\ UNCHANGED <<history, judgements, applied>>

Refuse(p) ==
  /\ answered[p] = {} /\ answered' = [answered EXCEPT ![p] = {Refusal}]
  /\ UNCHANGED <<history, judgements, applied>>

Init ==
  /\ history = InitialHistory
  /\ judgements = [k \in Candidates |-> <<>>]
  /\ applied = {}
  /\ answered = [p \in Attempts |-> {}]

Next == \E p \in Attempts :
  Approve(p) \/ Reject(p) \/ Reverify(p) \/ Replay(p) \/ Refuse(p)

Spec == Init /\ [][Next]_ledgerVars
=============================================================================
