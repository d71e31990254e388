CONSTANTS
  home = home  tree = tree  recipe = recipe  option = option  word = word  ambient = ambient
  Names <- MCNames
  Protected <- MCProtected
  Spillable <- MCSpillable
  Own <- MCOwn
  Fallbacks <- MCFallbacks
  Rank <- MCRank
  Allowed <- MCAllowed
  Parents <- MCParents
  Steps <- MCSteps
  Limit = 5
  Cap = 4
  ArgMax = 13
  Stack = 48
  Floor = 6
  Reserve = 2
  Modes = {"kill", "report", "none"}
SPECIFICATION FairSpec
INVARIANTS
  EnvironmentArrives
  OverrunReportedOnce
PROPERTIES
  CallReturns
