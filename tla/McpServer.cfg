SPECIFICATION FairSpec
CONSTANTS
  Tasks = {t1, t2}
  Kinds = {"resource", "tool"}
  Names = {n1}
  Regs = {r1, r2}
  None = None
  MaxDepth = 4
  MaxOps = 4
INVARIANTS
  TypeOK
  UserCodeUnlocked
  MapsAgree
  EventsDescribeVisibleNames
PROPERTIES
  RefinesAtomicRegistry
  EveryOperationReturns
