SPECIFICATION FairSpec
CONSTANTS
  N = 2
  Keys = {k1}
  NoKey = NoKey
  Groups = {g1, g2}
  NoGroup = NoGroup
  MaxWorkers = 2
  MaxTotalSteps = 9
  StepDefs <- NestedSteps
  Options <- NestedOptions
PROPERTIES
  KeepsContract
  RunReturns
