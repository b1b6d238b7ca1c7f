SPECIFICATION DemoSpec
CONSTANTS
  Absent = Absent
INVARIANTS
  NothingAbsentIsRead
  SchemaDecides
