SPECIFICATION Spec
CONSTANTS
  Attempts = {a1, a2}
  Null = Null
  Playbooks <- MCPlaybooks
  FieldsOf <- MCFieldsOf
  Values <- MCValues
  Times <- MCTimes
  Commands <- MCCommands
INVARIANT PlaybookKept
