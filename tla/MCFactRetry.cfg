SPECIFICATION Spec
CONSTANTS
  Attempts = {a1, a2}
  Null = Null
  Ids <- MCIds
  Fields <- MCFields
  TimeSensitive <- MCTimeSensitive
  Values <- MCValues
  Times <- MCTimes
  Window = 3
  DueSoon = 1
  Candidates <- MCCandidates
  CandidateRow <- MCCandidateRow
  SeedFacts <- MCSeedFacts
  Commands <- AllCommands
PROPERTY NoFalseStale
