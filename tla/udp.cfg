\* An IPv4 client and two IPv6 clients with the same key; PCBs are closed once
\* while datagrams arrive, and every queue can be full.
CONSTANTS
  Conns = {c1, c2}
  Remotes <- MixedRemotes
  CharSigned = TRUE
  Locals = {l1}
  None = None
  RecvCap = 1
  QueueCap = 1
  MaxData = 4
  MaxCloses = 1
  MaxInputs = 4
  Env = {"nomem", "noroute", "empty"}
SPECIFICATION FairSpec
INVARIANTS TypeOK OpenIsRegistered PerRemoteFifo ReplyToSender
PROPERTY AllRead
CHECK_DEADLOCK FALSE
