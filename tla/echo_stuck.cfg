\* A FIN while a Write waits.
CONSTANTS
  Conns = {c1}
  Writers = {w1}
  Blocks = {b1}
  Heap = {h1}
  None = None
  RecvCap = 1
  QueueCap = 1
  TcpWnd = 1
  SndBuf = 2
  Segs = 2
  MaxData = 1
  MaxWrites = 0
  MaxCloses = 0
  Env = {"fin"}
SPECIFICATION EchoFairSpec
PROPERTY PassivelyCloses
CHECK_DEADLOCK FALSE
