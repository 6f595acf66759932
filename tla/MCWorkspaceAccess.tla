--------------------------- MODULE MCWorkspaceAccess ---------------------------
(* Constants for model-checking WorkspaceAccess: an owner, a support operator  *)
(* and the system actor in two workspaces.                                     *)
EXTENDS WorkspaceAccess, TLC

CONSTANTS q1, q2

Symmetry == Permutations({q1, q2})

Human(id) == [id |-> id, type |-> "human", subject |-> id, status |-> "active"]
Actors == {Human("owner"), Human("operator"),
           [id |-> "worker", type |-> "system", subject |-> Null, status |-> "active"]}
Workspaces == [w \in {"studio", "other"} |-> "active"]

Member(a, w, r) == [actor |-> a, workspace |-> w, role |-> r, status |-> "active"]
Memberships == {Member("owner", "studio", "owner"), Member("owner", "other", "staff"),
                Member("operator", "studio", "internal_operator")}
\* The owner leaves the studio or steps down, the operator or the worker is made
\* an owner, and the owner's revoked membership comes back.
LaterMemberships ==
  {[Member("owner", "studio", "owner") EXCEPT !.status = "revoked"],
   Member("owner", "studio", "owner"), Member("owner", "studio", "staff"),
   Member("operator", "studio", "owner"), Member("worker", "studio", "owner")}

Grant(id, from, to) ==
  [id |-> id, actor |-> "operator", workspace |-> "studio", startsAt |-> from,
   expiresAt |-> to, revoked |-> FALSE]
\* The first grant ends while the second, given later, still runs.
Grants == {Grant("g1", 0, 1)}
LaterGrants == {Grant("g2", 1, 3)}

Token(s, aal, from, to) == [subject |-> s, aal |-> aal, issuedAt |-> from, expiresAt |-> to]
Call(kind, w, t) == [kind |-> kind, workspace |-> w, token |-> t]

\* An owner's sessions (one that ends, one issued in the future of a lagging
\* server) and an operator's with and without a second factor.
CallSet ==
  {Call("directory", "studio", Token("owner", "aal1", 0, 2)),
   Call("reverify", "studio", Token("owner", "aal1", 0, 2)),
   Call("reverify", "other", Token("owner", "aal1", 2, 4)),
   Call("reverify", "studio", Token("operator", "aal1", 0, 4)),
   Call("context", "studio", Token("operator", "aal2", 0, 2))}
=============================================================================
