SPECIFICATION FairSpec
CONSTANTS
  c1 = c1
  c2 = c2
  d1 = d1
  d2 = d2
  NoTimer = NoTimer
  Timers = {1, 2}
  Clients <- TwoClients
  Drivers <- OneDriver
  Conditional = {}
  Periods = {1}
  StartTime = 1
  MaxTime = 3
  BackSteps = {}
  Hour = 1
  Word = 64
INVARIANT NoLostWakeup
PROPERTY OneShotConcludes
CHECK_DEADLOCK FALSE
