SPECIFICATION Spec
CONSTANTS
  Attempts = {a1, a2, a3}
  Null = Null
  Playbooks <- MCPlaybooks
  FieldsOf <- MCFieldsOf
  Values <- MCValues
  Times <- MCTimes
  Commands <- MCCommands
SYMMETRY AttemptSymmetry
INVARIANTS
  TypeOK
  DraftIsLastVersion
  NoLostChange
  AcceptedOnce
PROPERTY ImplementsLedger
