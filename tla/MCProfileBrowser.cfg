SPECIFICATION Spec
CONSTANTS
  Playbooks <- MCPlaybooks
  FieldsOf <- MCFieldsOf
  Sections <- MCSections
  SectionOf <- MCSectionOf
  Values <- MCValues
  Times <- MCTimes
  InitialTime = 1
  MaxVersion = 4
  Null = Null
INVARIANTS
  TypeOK
  StatusTellsTruth
PROPERTY SavedDraftSurvives
