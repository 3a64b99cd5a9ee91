CONSTANTS
  MaxThreads = 2
  MaxConns = 3
  MaxFiles = 2
SPECIFICATION Spec
INVARIANTS TypeOK FairTurns HandlesLiveOnly  ServerUsedAlive
PROPERTIES DownUnlessLeft ImplementsConnectionLife PeerCloseFrees DestructionEnds
CHECK_DEADLOCK FALSE
