SPECIFICATION LiveSpec
CONSTANTS
  t1 = t1
  t2 = t2
  c1 = c1
  c2 = c2
  NoThread = NoThread
  Schema = Schema
  Thread <- threads
  Conn <- conns
  NoTable <- noTable
  Configs <- configs
  MaxAttempts = 2
INVARIANTS
  PendingCovers
  MergesOwnRows
  TempTablesAccounted
  AcknowledgedIsDecided
PROPERTIES
  RequestsEnd
CHECK_DEADLOCK FALSE
