CONSTANTS
  Fds = {1, 2}
  Recs = {1, 2, 3}
  MaxClients = 1
  KeyPair = TRUE
  NoRec = NoRec
  Gone = Gone
SPECIFICATION FairSpec
CONSTRAINT UntilLate
PROPERTIES AttemptEnds BindAnswered
