CONSTANTS
  MaxThreads = 1
  MaxConns = 1
  MaxFiles = 1
SPECIFICATION SharedSpec
INVARIANTS HandlesLiveOnly
CHECK_DEADLOCK FALSE
