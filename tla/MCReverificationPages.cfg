SPECIFICATION PagesFairSpec
CONSTANTS
  Attempts <- PageAttempts
  Tabs = {b1}
  Null = Null
  Ids <- PageIds
  Fields <- MCFields
  TimeSensitive <- MCTimeSensitive
  Values <- MCValues
  Times <- PageTimes
  Window = 3
  DueSoon = 1
  Candidates <- MCCandidates
  CandidateRow <- MCCandidateRow
  SeedFacts <- MCSeedFacts
  Commands <- PageCommands
  OtherCommands <- AllCommands
  FormKeys <- PageFormKeys
  Session <- PageSession
INVARIANTS
  PagesTypeOK
  NoticeIsTrue
  OfferHonoured
PROPERTY EveryAttemptAnswers
