SPECIFICATION Spec
CONSTANTS
  Names = {n1, n2}
  Levels = {info, debug}
  Info = info
  Foreign = Foreign
  Free = Free
  MaxLoggers = 3
INVARIANTS
  TypeOK
  RegisteredWhileInitialized
PROPERTIES
  ForeignLoggersStay
