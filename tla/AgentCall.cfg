SPECIFICATION FairSpec
CONSTANTS
  Limits = {"none", "kill", "report"}
  MaxRetries = 2
  MaxOut = 2
INVARIANTS
  AttemptContained
  AtMostOneStaleClaim
  StreamedAtMostTwice
  OutcomeIsEarned
PROPERTY
  CallReturns
