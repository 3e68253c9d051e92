SPECIFICATION FairSpec
CONSTANTS
  NumUpdates = 4
  Workers = 1
  BatchLimit = 2
  BackoffCap = 2
INVARIANTS
  TypeOK
  ForgottenWasStarted
PROPERTIES
  OncePerProcess
  EveryUpdateStarted
  CancelledReturns
