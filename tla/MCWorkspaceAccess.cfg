\* Two requests while access changes twice and sessions and grants run out.
CONSTANTS
  q1 = q1
  q2 = q2
  Requests = {q1, q2}
  Calls <- CallSet
  SeedActors <- Actors
  SeedWorkspaces <- Workspaces
  SeedMemberships <- Memberships
  SeedGrants <- Grants
  NewMemberships <- LaterMemberships
  NewGrants <- LaterGrants
  Lags = {0, 2}
  Tolerance = 1
  MaxTime = 2
  MaxChanges = 2
  Null = Null
SPECIFICATION Spec
SYMMETRY Symmetry
INVARIANT TypeOK
INVARIANT DirectoryAgrees
PROPERTY AdmittedAccessWasHeld
PROPERTY DenialsAreWarranted
