SPECIFICATION Spec
CONSTANTS
  a = a
  b = b
  Tasks = {a, b}
  Commands <- Either
  Overlap = {"configure_ios"}
INVARIANTS TypeOK  BlockKeepsContext SavedIsDurable
PROPERTIES  LeavesConfiguration
CHECK_DEADLOCK FALSE
