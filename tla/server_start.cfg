SPECIFICATION FairSpec
CONSTANTS
  Procs = {p, q}
  Addresses = {home, work}
  Home = home
  Backdate = 1
  LeafValidity = 4
  CaValidity = 3
  Margin = 2
  MaxLag = 1
  Clients = {phone}
  MaxGeneration = 2
  Versions = {0, 1, 2, 3, 4, 5, 6}
  Budgets <- FoundBudgets
CHECK_DEADLOCK FALSE
INVARIANTS ControlTypeOK TornOnlyByFailure SchemaIsWhole ServedChainVerifies ServedLeafIsFresh ChildrenAreOwned
PROPERTIES AuthorityIsKept MigrationsKeepCredentials StartsEnd WindowsReturn
