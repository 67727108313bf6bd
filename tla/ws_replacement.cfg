SPECIFICATION Spec
CONSTANTS
  Conns = {c1}
  Clients = {phone}
  Profiles = {p, q, r}
  NoProfile = none
  Requests = {}
  NoRequest = norequest
  BuiltinProfile = p
  MaxRevision = 2
  MaxGeneration = 1
  MaxConnections = 1
  MaxCachedResponses = 1
  MaxDeletes = 1
  MaxOutbox = 2
  MaxClaims = 0
INVARIANT ChangesAreAnnounced
