CONSTANTS
  Nums = {1, 2, 3, 4}
  Proxies = {p1, p2}
  p1 = p1
  p2 = p2
  PSocks = {1, 2}
  Tables <- Lists
  NULL = NULL
  Self = Self
  NoFd = NoFd
  Foreign = Foreign
  NoProxy = NoProxy
  MaxQueue = 2
  MaxSocks = 1
  Socks = {s1, s2}
  s1 = s1
  s2 = s2
  Peers = {peer}
  peer = peer
  NoAddr = NoAddr
  MaxNet = 1
  MaxTcp = 3
  MaxPort = 2
SPECIFICATION MCSpec
CONSTRAINT Small
PROPERTIES AskSucceeds
