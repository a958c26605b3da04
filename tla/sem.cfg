\* Two threads that wait, with or without a timeout, one that signals.
CONSTANTS
  Waiters = {w1, w2}
  Signallers = {s1}
  Nobody = Nobody
  Timeout = 1
  NsPerMs = 2
  MsPerSec = 2
  MaxTime = 5
  MaxCalls = 2
SPECIFICATION FairSpec
INVARIANTS NoSleeperWithToken
PROPERTIES HonestTimes IsBinarySemaphore TokenTaken
CHECK_DEADLOCK FALSE
