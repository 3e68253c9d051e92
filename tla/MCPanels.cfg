SPECIFICATION FairSpec
CONSTANTS
  v1 = v1
  v2 = v2
  v3 = v3
  Viewers = {v1, v2, v3}
  StatsKeys = {0}
  EnvTTL = 0
  TTLFloor = 4
  FetchTime = 2
  MaxClock = 11
  Totals = {1, 2, 3, 5}
  PageSize = 2
  Tappers = {1, 2}
CHECK_DEADLOCK FALSE
INVARIANTS
  TypeOK
  GridTells
PROPERTIES
  RefreshStands
  StaleIsRefreshed
