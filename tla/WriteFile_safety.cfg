SPECIFICATION Spec
CONSTANTS
  Calls = {c1, c2}
  Names = {"a", "b"}
  MaxParts = 3
  Chunks = 2
  DiskMayFail = TRUE
  Hole = Hole
INVARIANTS
  TypeOK
  StaysUnderRoot
  SoleWriteStands
