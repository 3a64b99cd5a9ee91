CONSTANTS
  Messages = {m1}
  Garbage = garbage
  Senders = {t1}
  Closers = {}
SPECIFICATION SafeSpec
INVARIANT SendsWhatItWasGiven
CHECK_DEADLOCK FALSE
