SPECIFICATION Spec
CONSTANTS
  NumQueries = 3
  Users = {u1}
INVARIANTS
  AbandonedForNewer
CHECK_DEADLOCK FALSE
