SPECIFICATION FairSpec
CONSTANTS
  Conns = {c1, c2}
  Clients = {phone}
  Profiles = {p}
  NoProfile = none
  Requests = {}
  NoRequest = norequest
  BuiltinProfile = p
  MaxRevision = 1
  MaxGeneration = 2
  MaxConnections = 1
  MaxCachedResponses = 1
  MaxDeletes = 0
  MaxOutbox = 1
  MaxClaims = 1
INVARIANTS RevokedSessionsClosed ConnectionLimit
PROPERTIES RevokedSessionsLeave OnlyHungTargetsBlock
