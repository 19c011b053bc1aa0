SPECIFICATION FairSpec
CONSTANTS
  w1 = w1
  w2 = w2
  Flusher = Flusher
  Closer = Closer
  Writers <- OneWriter
  Levels = {2, 5}
  Settings = {5}
  Forms = {"empty", "bare", "slash"}
  MaxLines = 2
  MaxDay = 1
PROPERTIES EveryLineLeaves CloseReturns
CHECK_DEADLOCK FALSE
