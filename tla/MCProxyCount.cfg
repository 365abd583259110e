CONSTANTS
  Fds = {1, 2}
  Recs = {1, 2, 3}
  MaxClients = 2
  KeyPair = TRUE
  NoRec = NoRec
  Gone = Gone
SPECIFICATION Spec
CONSTRAINT UntilLate
INVARIANTS CountBounded
