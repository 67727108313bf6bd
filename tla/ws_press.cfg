SPECIFICATION Spec
CONSTANTS
  Conns = {c1}
  Clients = {phone}
  Profiles = {p, q}
  NoProfile = none
  Requests = {r1, r2, r3}
  NoRequest = norequest
  BuiltinProfile = p
  MaxRevision = 2
  MaxGeneration = 2
  MaxConnections = 1
  MaxCachedResponses = 2
  MaxDeletes = 0
  MaxOutbox = 1
  MaxClaims = 1
SYMMETRY Symmetry
INVARIANTS ChannelTypeOK RememberedNeverRuns AnswersAreRemembered RevokedPressNeverRuns
