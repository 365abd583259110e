CONSTANTS
  Fds = {2, 3}
  Listener = 1
  MaxConn = 2
  NoItem = NoItem
  ListenSock = ListenSock
  NoProxy = NoProxy
  Addrs = {p1}
  p1 = p1
  Loads = {0}
  AlwaysProxy = FALSE
  MaxExpire = 1
SPECIFICATION FairServerSpec
INVARIANTS ServerTypeOK WatchedOpen NoExtraAnswer
PROPERTIES LoopSpec Answered LastCloses
