\* A late Close, after the block has been reused.
CONSTANTS
  Conns = {c1, c2}
  Writers = {w1}
  Blocks = {b1}
  Heap = {h1, h2}
  None = None
  RecvCap = 1
  QueueCap = 1
  TcpWnd = 1
  SndBuf = 1
  Segs = 1
  MaxData = 1
  MaxWrites = 1
  MaxCloses = 1
  Env = {"fin"}
SPECIFICATION Spec
PROPERTY CloseOwnBlock
CHECK_DEADLOCK FALSE
