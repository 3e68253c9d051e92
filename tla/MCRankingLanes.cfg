SPECIFICATION Spec
CONSTANTS
  Query <- Fox
  TrustedOrigin = {"flickr"}
  HttpsUpgradeHosts = {"bili"}
  Environments <- SomeEnvironments
  Replies <- SomeReplies
  CategoryLists <- Lists
  FirstPage = 4
  WeakBelow = 3
  MinRelevant = 2
  DegradedBelow = 4
CHECK_DEADLOCK FALSE
INVARIANT
  LanesKept
