CONSTANTS
  Tasks = {t1}
  NoName = "no name"
  Grid <- MCGrid
  Picks <- MCPicks
  Requests <- MCOneByOne
  MaxCalls = 4
  MaxMade = 3
SPECIFICATION Spec
CHECK_DEADLOCK FALSE
PROPERTY GridSlotIsFree
