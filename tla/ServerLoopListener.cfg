CONSTANTS
  Fds = {2, 3}
  Listener = 1
  MaxConn = 2
  NoItem = NoItem
  ListenSock = ListenSock
SPECIFICATION Spec
PROPERTIES ListenerKept
