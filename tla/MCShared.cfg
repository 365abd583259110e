CONSTANTS
  Keys = {3, 4, 5}
  Values = {a, b}
  a = a
  b = b
  Readers = {t1}
  t1 = t1
  Buckets = 2
  NULL = NULL
  NoProxy = NoProxy
  Addrs = {p1, p2, p3, p4}
  p1 = p1
  p2 = p2
  p3 = p3
  p4 = p4
  MaxClients = 2
  InitialCapacity = 3
  Junk = Junk
  Socks = {1, 2, 3, 4, 5}
  Threads = {t1, t2, t3}
  t2 = t2
  t3 = t3
  Fds = {3, 4}
  LockKind = "critical_section"
SPECIFICATION SharedSpec
INVARIANTS
  TypeOK QuietExact LockCounts SemaphoreCounts
  UniqueAddresses ChoosesWell ListIsTable PoolFinds GetsCurrent WalksAll
PROPERTIES RefinesAtomic RefinesMap
