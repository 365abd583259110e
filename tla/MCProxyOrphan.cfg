CONSTANTS
  Fds = {1, 2, 3}
  Recs = {1, 2, 3}
  MaxClients = 1
  KeyPair = FALSE
  NoRec = NoRec
  Gone = Gone
SPECIFICATION Spec
CONSTRAINT UntilLate
INVARIANTS OurClient
