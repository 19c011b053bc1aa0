SPECIFICATION Spec
CONSTANTS
  w1 = w1
  w2 = w2
  Flusher = Flusher
  Closer = Closer
  Writers <- TwoWriters
  Levels = {2, 5}
  Settings = {5}
  Forms = {"slash"}
  MaxLines = 2
  MaxDay = 2
SYMMETRY Symmetry
INVARIANTS TypeOK EachLineOnce InOrder NothingLeftBehind
PROPERTIES ImplementsContract
CHECK_DEADLOCK FALSE
