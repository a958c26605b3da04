\* Two IPv6 hosts whose addresses cs_ip_get turns into the same bytes.
CONSTANTS
  Conns = {c1, c2}
  Remotes <- V6Remotes
  CharSigned = TRUE
  Locals = {l1}
  None = None
  RecvCap = 1
  QueueCap = 2
  MaxData = 2
  MaxCloses = 0
  MaxInputs = 2
  Env = {}
SPECIFICATION Spec
INVARIANT ExactReply
CHECK_DEADLOCK FALSE
