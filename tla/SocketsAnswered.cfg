SPECIFICATION FairSpec
CONSTANTS
  Sockets = {w1, w2}
  Nobody = Nobody
  MaxStarts = 3
  MaxReadFaults = 0
  MaxRecordingDeletes = 0
PROPERTY SocketsSettle
CHECK_DEADLOCK FALSE
