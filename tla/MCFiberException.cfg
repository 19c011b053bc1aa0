SPECIFICATION Spec
CONSTANTS
  w = w
  r = r
  f1 = f1
  f2 = f2
  Threads = {w, r}
  RootThread = r
  Root = Root
  Fibers = {Root, f1, f2}
  None = None
SYMMETRY Symmetry
INVARIANT OverIsFinished
CHECK_DEADLOCK FALSE
