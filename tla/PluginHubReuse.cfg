SPECIFICATION Spec
CONSTANTS
  Conns = {c1, c2}
  Fds = {1, 2}
  PluginMax = 2
  Events = {e1}
  NamesOf <- OneName
  Traffic <- Subscriptions
  MaxMsgs <- OneEach
  MaxFired = 0
  SockBuf = 1
  Stalled = {}
  Free = Free
  Nobody = Nobody
SYMMETRY Symmetry
CHECK_DEADLOCK FALSE
INVARIANT SubscriberListed
