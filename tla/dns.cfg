\* One flow to two targets; Next may fail, and a goroutine of it closes.
CONSTANTS
  Raws = {r1}
  Targets = {t1, t2}
  Conns = {c1, c2, c3}
  Closers = {k1}
  None = None
  ReadCap = 1
  MaxMsgs = 3
  NextFails = TRUE
SPECIFICATION FairSpec
INVARIANTS OpenIsRegistered PerTargetFifo
PROPERTY AllServed
CHECK_DEADLOCK FALSE
