SPECIFICATION FairSpec
CONSTANTS
  t1 = t1
  t2 = t2
  t3 = t3
  Threads = {t1, t2, t3}
  Main = Main
INVARIANTS TypeOK HandshakeSafe ReleasedOnce
PROPERTY CallsReturn
CHECK_DEADLOCK FALSE
