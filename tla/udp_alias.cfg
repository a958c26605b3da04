\* A reply leaves after the next datagram has been read into the buffer.
CONSTANTS
  Conns = {c1, c2}
  Remotes <- V4Remotes
  CharSigned = TRUE
  Locals = {l1}
  None = None
  RecvCap = 1
  QueueCap = 2
  MaxData = 2
  MaxCloses = 0
  MaxInputs = 2
  Env = {}
SPECIFICATION Spec
INVARIANT EchoFaithful
CHECK_DEADLOCK FALSE
