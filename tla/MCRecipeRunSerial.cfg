SPECIFICATION Spec
CONSTANTS
  N = 2
  Keys = {k1}
  NoKey = NoKey
  Groups = {g1}
  NoGroup = NoGroup
  MaxWorkers = 1
  MaxTotalSteps = 2
  StepDefs <- SerialSteps
  Options <- SerialOptions
INVARIANTS
  OutcomesAreReported
  CheckpointIsSound
PROPERTIES
  KeepsContract
