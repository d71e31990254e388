SPECIFICATION Spec
CONSTANTS
  Recipes <- Circle
  Root <- RootName
  MaxDepth = 2
  MaxTotal = 3
  MaxRuns = 3
INVARIANTS
  NestedRunsAreContained
  SkippedWasDone
  SuccessCoversAll
