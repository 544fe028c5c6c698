SPECIFICATION Spec
CONSTANTS
  a = a
  b = b
  Tasks = {a, b}
  Commands <- Either
  Overlap = {}
PROPERTIES PasswordErrorsLeavePrompt
CHECK_DEADLOCK FALSE
