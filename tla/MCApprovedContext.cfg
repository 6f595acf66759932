SPECIFICATION Spec
CONSTANTS
  Queries = {q1, q2}
  Null = Null
  Requests <- MCRequests
  Fields <- MCFields
  TimeSensitive <- MCTimeSensitive
  Window = 1
  DueSoon = 0
  ValuesOf <- MCValuesOf
  TextValues <- MCTextValues
  SeedFacts <- MCSeedFacts
  MaxTime = 2
  MaxFacts = 4
SYMMETRY QuerySymmetry
INVARIANTS
  TypeOK
  AssertsOneInstant
  ReasonsAreActionable
  AuditedOnce
