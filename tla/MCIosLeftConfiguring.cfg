SPECIFICATION Spec
CONSTANTS
  a = a
  b = b
  Tasks = {a, b}
  Commands <- Either
  Overlap = {}
PROPERTIES NeverLeftConfiguring
CHECK_DEADLOCK FALSE
