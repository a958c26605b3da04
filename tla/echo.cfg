\* Two echoed connections one after the other on one block.
CONSTANTS
  Conns = {c1, c2}
  Writers = {w1}
  Blocks = {b1}
  Heap = {h1, h2}
  None = None
  RecvCap = 1
  QueueCap = 1
  TcpWnd = 2
  SndBuf = 2
  Segs = 2
  MaxData = 3
  MaxWrites = 0
  MaxCloses = 0
  Env = {"fin", "rst"}
SPECIFICATION EchoSpec
INVARIANTS LiveHandles TokenMeansAccepted NoFault RegistryMatchesHeap CallbackArgLive
PROPERTY EchoImplements
CHECK_DEADLOCK FALSE
