CONSTANTS
  Threads = {t1, t2}
  t1 = t1
  t2 = t2
  Fds = {3, 4}
  LockKind = "semaphore"
SPECIFICATION Spec
INVARIANTS QuietExact
