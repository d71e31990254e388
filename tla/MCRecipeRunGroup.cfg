SPECIFICATION Spec
CONSTANTS
  N = 3
  Keys = {k1}
  NoKey = NoKey
  Groups = {g1}
  NoGroup = NoGroup
  MaxWorkers = 2
  MaxTotalSteps = 2
  StepDefs <- GroupSteps
  Options <- GroupOptions
INVARIANTS
  AtMostOneLateAdmission
  WorkersContained
  ContextFromSuccess
  PairedNotifications
  BudgetOvershoot
