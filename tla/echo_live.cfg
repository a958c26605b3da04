\* recvQueued holds a whole receive window: every chunk is echoed.
CONSTANTS
  Conns = {c1, c2}
  Writers = {w1}
  Blocks = {b1, b2}
  Heap = {h1, h2}
  None = None
  RecvCap = 2
  QueueCap = 1
  TcpWnd = 2
  SndBuf = 2
  Segs = 2
  MaxData = 2
  MaxWrites = 0
  MaxCloses = 0
  Env = {}
SPECIFICATION EchoFairSpec
PROPERTY AllBytesEchoed
CHECK_DEADLOCK FALSE
