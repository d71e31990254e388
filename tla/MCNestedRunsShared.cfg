SPECIFICATION Spec
CONSTANTS
  Recipes <- SharedId
  Root <- RootName
  MaxDepth = 2
  MaxTotal = 5
  MaxRuns = 2
INVARIANT
  SkippedWasDone
