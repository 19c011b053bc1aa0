SPECIFICATION Spec
CONSTANTS
  c1 = c1
  c2 = c2
  d1 = d1
  d2 = d2
  NoTimer = NoTimer
  Timers = {1}
  Clients <- OneClient
  Drivers <- OneDriver
  Conditional = {}
  Periods = {1}
  StartTime = 2
  MaxTime = 4
  BackSteps = {}
  Hour = 2
  Word = 64
INVARIANT NeverPastTheEnd
CHECK_DEADLOCK FALSE
