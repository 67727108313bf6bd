SPECIFICATION Spec
CONSTANTS
  Calls = {a, b}
  Clients = {phone}
  Origins = {lan, wan}
  Limiters = {"claims", "admin"}
  MaxAttempts = 2
  Window = 2
  MaxOrigins = 1
  MaxLag = 1
  MaxGeneration = 1
  MaxSessions = 0
  Ttl = 1
  Early = 0
  RetiredLimit = 1
SYMMETRY Symmetry
INVARIANTS TablesBounded ClaimsBounded
