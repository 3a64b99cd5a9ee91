CONSTANTS
  Messages = {m1, m2}
  Garbage = garbage
  Senders = {t1}
  Closers = {t1}
SPECIFICATION SafeSpec
INVARIANTS IndInv StreamInOrder NothingStuck DownOnce NeverAddsNothing
PROPERTIES FinAfterData
CHECK_DEADLOCK FALSE
