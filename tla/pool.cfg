SPECIFICATION FairClientSpec
CONSTANTS
  w1 = w1
  w2 = w2
  w3 = w3
  Threads = {w1, w2, w3}
  NoThread = NoThread
  NoConn = NoConn
  Size = 2
  MaxInits = 2
  MaxStatements = 2
CHECK_DEADLOCK FALSE
INVARIANTS NeverShared NeverLeaked NoLostWakeup RowsAreOwn
PROPERTY NoWorkerLeftWaiting
