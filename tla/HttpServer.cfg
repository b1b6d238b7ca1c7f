SPECIFICATION FairSpec
CONSTANTS
  Workers = {w1}
  Requests = {r1, r2}
  Routes = {"write_file"}
  StatusStreams = {s1}
  CallStreams = {s2}
  SlowClients = {s2}
  MaxBatch = 1
  MaxStarts = 2
  None = None
INVARIANTS
  TypeOK
  NoThreadOutlivesServer
PROPERTIES
  StopReturns
  RequestsAnswered
  StatusKeepsComing
