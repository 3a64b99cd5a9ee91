CONSTANTS
  Messages = {m1}
  Garbage = garbage
  Senders = {t1}
  Closers = {t2}
SPECIFICATION SafeSpec
PROPERTY GivesUpWriting
CHECK_DEADLOCK FALSE
