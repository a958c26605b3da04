\* One connection, everything an application and a peer may do to it.
CONSTANTS
  Conns = {c1}
  Writers = {w1, w2}
  Blocks = {b1}
  Heap = {h1}
  None = None
  RecvCap = 1
  QueueCap = 2
  TcpWnd = 2
  SndBuf = 3
  Segs = 2
  MaxData = 2
  MaxWrites = 3
  MaxCloses = 2
  Env = {"fin", "rst", "kill", "nomem", "small"}
SPECIFICATION Spec
SYMMETRY Symmetry
INVARIANTS TypeOK SendCredit TokenHasRoom RegistryMatchesHeap CallbackArgLive ClosingIsTransient WindowConserved
CHECK_DEADLOCK FALSE
