SPECIFICATION Spec
CONSTANTS
  c1 = c1
  c2 = c2
  d1 = d1
  d2 = d2
  NoTimer = NoTimer
  Timers = {1}
  Clients <- TwoClients
  Drivers <- TwoDrivers
  Conditional = {1}
  Periods = {1}
  StartTime = 1
  MaxTime = 3
  BackSteps = {2}
  Hour = 1
  Word = 64
SYMMETRY Threads
INVARIANTS TypeOK QueuedIffArmed OneShotFate CancelledStaysOut
PROPERTIES ImplementsContract NoEarlyExpiry
CHECK_DEADLOCK FALSE
