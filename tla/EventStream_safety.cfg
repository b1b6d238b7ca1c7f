SPECIFICATION Spec
CONSTANTS
  HttpCalls = {}
  StdioCalls = {c1, c2}
  BadTexts = {c1}
  Streams = {s1, s2}
SYMMETRY Symmetry
INVARIANTS
  TypeOK
  NothingVanishes
PROPERTIES
  RefinesEventDelivery
