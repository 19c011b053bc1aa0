SPECIFICATION Spec
CONSTANTS
  w = w
  r = r
  f1 = f1
  f2 = f2
  Threads = {w, r}
  RootThread = r
  Root = Root
  Fibers = {Root, f1, f2}
  None = None
SYMMETRY Symmetry
INVARIANTS TypeOK RunningIsThis WaitingIsResumable FailuresAreKnown QueuedIsTickled
PROPERTY BackToCaller
CHECK_DEADLOCK FALSE
