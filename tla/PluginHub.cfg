SPECIFICATION Spec
CONSTANTS
  Conns = {c1, c2}
  Fds = {1, 2}
  PluginMax = 3
  Events = {e1}
  NamesOf <- OneName
  Traffic <- Broken
  MaxMsgs <- TwoAndOne
  MaxFired = 1
  SockBuf = 1
  Stalled = {}
  Free = Free
  Nobody = Nobody
CHECK_DEADLOCK FALSE
INVARIANTS TypeOK RepliesInOrder  
