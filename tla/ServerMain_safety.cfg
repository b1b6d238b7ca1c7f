SPECIFICATION FairSpec
CONSTANTS
  Requests = {r1, r2}
  Hosts = {"", "0.0.0.0", "127.0.0.1", "::"}
  Ports <- SomePorts
  Files <- AllFiles
  BindMayFail = TRUE
  None = None
INVARIANTS
  TypeOK
  RequestsFindEverything
  NothingLeft
PROPERTIES
  EndsWhenTold
  InputKeepsServing
