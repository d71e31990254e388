SPECIFICATION FairSpec
CONSTANT MaxRetries = 1
INVARIANTS
  SignalsStayHome
  FaultsAreReported
  SuccessIsClean
PROPERTIES
  CallReturns
