SPECIFICATION FairSpec
CONSTANTS
  a = a
  b = b
  c = c
  Threads <- MCThreads
  Locks <- MCLocks
  Guards <- MCGuards
  Owner <- MCOwner
  Target <- MCTarget
  Kind <- MCKind
  NoThread = NoThread
  NoGuard = NoGuard
INVARIANTS
  TypeOK
  Exclusion
  GuardsMatchLocks
PROPERTY
  CallsReturnOrStick
CHECK_DEADLOCK FALSE
