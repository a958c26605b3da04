\* Two connections one after the other on one block, and late Closes.
CONSTANTS
  Conns = {c1, c2}
  Writers = {w1}
  Blocks = {b1}
  Heap = {h1}
  None = None
  RecvCap = 1
  QueueCap = 1
  TcpWnd = 1
  SndBuf = 2
  Segs = 2
  MaxData = 1
  MaxWrites = 1
  MaxCloses = 1
  Env = {"fin", "rst", "kill", "nomem", "small"}
SPECIFICATION Spec
SYMMETRY Symmetry
INVARIANTS TypeOK SendCredit TokenHasRoom RegistryMatchesHeap CallbackArgLive ClosingIsTransient WindowConserved
CHECK_DEADLOCK FALSE
