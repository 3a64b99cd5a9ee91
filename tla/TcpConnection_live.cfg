CONSTANTS
  Messages = {m1}
  Garbage = garbage
  Senders = {t1}
  Closers = {t1}
SPECIFICATION Spec
PROPERTIES PeerCloseDestroys ShutdownCompletes
CHECK_DEADLOCK FALSE
