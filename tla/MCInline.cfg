SPECIFICATION FairSpec
CONSTANTS
  NumQueries = 3
  Users = {u1, u2}
INVARIANTS
  TypeOK
  OneLive
  OnlySupersededAbandoned
PROPERTIES
  EntriesGo
CHECK_DEADLOCK FALSE
