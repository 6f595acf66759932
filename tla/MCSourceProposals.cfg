SPECIFICATION Spec
CONSTANTS
  p1 = p1
  p2 = p2
  p3 = p3
  Attempts = {p1, p2, p3}
  Null = Null
  Commands <- MCCommands
  Extractions <- MCExtractions
  ProviderOwned <- MCProviderOwned
  MaxBytes <- MCMaxBytes
  SeedBatches <- MCSeedBatches
SYMMETRY Symmetric
INVARIANTS TypeOK AllOrNothing ProvenanceHolds DecisionHistory
PROPERTY TruthfulAnswers
