SPECIFICATION Spec
CONSTANTS
  Workers = {w1, w2}
  Leads = {l1}
  Null = Null
  Commands <- AllCommands
SYMMETRY WorkerSymmetry
INVARIANTS
  TypeOK
  HistoryMatches
  RetryTakesEffectOnce
  ConvertedWasConfirmed
PROPERTY ImplementsLedger
