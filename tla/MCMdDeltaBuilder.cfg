SPECIFICATION Spec
CONSTANTS
  INT_DELTA_SIZE = 2
  DBL_DELTA_SIZE = 3
  MaxNum = 5
  Programs <- MCPrograms
INVARIANTS
  TypeOK
  PublishedFaithfully
  NothingElseLost
  AsManyAsNeeded
CHECK_DEADLOCK FALSE
