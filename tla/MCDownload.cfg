SPECIFICATION FairSpec
CONSTANTS
  alice = alice
  bob = bob
  t1 = t1
  t2 = t2
  Users <- TwoUsers
  Owner = alice
  Taps = {t1}
  MaxJobs = 2
  MaxPosts = 2
  MaxStops = 1
  CacheRoot <- Root
  Disk <- Files
  Escapes <- Escaped
  MaxTelegramFileBytes = 8
  SamplePlans <- Plans
CHECK_DEADLOCK FALSE
INVARIANTS
  TypeOK
  UnboundNeedsExcuse
  NoticesKept
  RetryOffered
PROPERTIES
  FailureIsTold
