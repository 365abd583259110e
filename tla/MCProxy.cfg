CONSTANTS
  Fds = {1, 2, 3}
  Recs = {1, 2, 3}
  MaxClients = 2
  KeyPair = FALSE
  NoRec = NoRec
  Gone = Gone
SPECIFICATION Spec
CONSTRAINT UntilFailure
ACTION_CONSTRAINT ThenFails
INVARIANTS TypeOK WatchedOpen CountBounded
PROPERTIES ControlKept
