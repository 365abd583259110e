CONSTANTS
  Fds = {2, 3}
  Listener = 1
  MaxConn = 3
  NoItem = NoItem
  ListenSock = ListenSock
SPECIFICATION FairSpec
INVARIANTS TypeOK BoundsExact HashmapLive
PROPERTIES SweepComplete Served
