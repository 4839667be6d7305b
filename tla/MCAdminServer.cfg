SPECIFICATION LiveSpec
CONSTANTS
  c1 = c1
  c2 = c2
  NoClient = NoClient
  Clients <- MCClients
  Lines <- MCLines
  ARCHIVE_BUFF_CAPACITY = 2048
  MAX_NUM_VEC_SIZE = 200
  INT_DELTA_SIZE = 6
  DBL_DELTA_SIZE = 18
  STAMP_DELTA_SIZE = 2
  SNAPSHOT_FIELDS_NUM = 32
CHECK_DEADLOCK FALSE
INVARIANTS TypeOK WholeOrCutShort OneRequestAtATime SnapshotMirrored DanglingOnlyAfterTakeOver ReadRequestAnswered
PROPERTY WaitingEnds
