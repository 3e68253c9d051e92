SPECIFICATION FairSpec
CONSTANTS
  w1 = w1
  w2 = w2
  Workers <- TwoWorkers
  Jobs = {j1}
  NoJob = NoJob
  NoWorker = NoWorker
  NumOps = 2
  FileIdOps = {2}
  MaxDelayed = 1
INVARIANTS
  TypeOK
  NoDuplicate
  RecordedBeforeSend
  FailureIsDefinite
  DeliveredIsWhole
  InPlanOrder
  RefsTrue
PROPERTIES
  KeepsPromise
  EveryPlanEnds
CHECK_DEADLOCK TRUE
