SPECIFICATION FairSpec
CONSTANTS
  Calls = {a, b}
  Clients = {phone}
  Origins = {o}
  Limiters = {}
  MaxAttempts = 1
  Window = 1
  MaxOrigins = 1
  MaxLag = 1
  MaxGeneration = 2
  MaxSessions = 2
  Ttl = 2
  Early = 1
  RetiredLimit = 1
INVARIANTS RoutesTypeOK HonestEndings OneTokenPerSession SecretsHeld OneTimer UsedIsRemembered
PROPERTIES PairingIsOneTime SecretsAreCleared
