SPECIFICATION Spec
CONSTANTS
  t1 = t1
  t2 = t2
  a = a
  b = b
  toB = toB
  Threads = {t1, t2}
  Names = {a, b}
  Values = {0, 1}
  Bad = Bad
  Listeners = {toB}
  Sets <- MCSets
  None = None
  MaxCalls = 4
  MaxDepth = 2
INVARIANT OneVarPerName
CHECK_DEADLOCK FALSE
