CONSTANTS
  NoProxy = NoProxy
  Addrs = {p1, p2, p3}
  p1 = p1
  p2 = p2
  p3 = p3
  MaxClients = 2
SPECIFICATION TableSpec
INVARIANTS AnotherProxy
