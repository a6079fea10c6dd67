SPECIFICATION LiveSpec
CONSTANTS
  Chatters = {c1, c2}
  Texts = {t1, t2}
  MaxSubmissions = 2
  MaxAttempts = 2
  MaxPool = 2
INVARIANTS
  GateFailsClosed
  OneFate
PROPERTIES
  EveryTextDecided
CHECK_DEADLOCK FALSE
