SPECIFICATION Spec
CONSTANTS
  Ids = {i1, i2}
  NoId = NoId
  Null = Null
  Methods = {"tools/call", "resources/read", "nothing"}
  MaxBatch = 3
INVARIANTS
  TypeOK
  BatchAnswersMatch
  EveryElementHandledOnce
  ResponseForm
