CONSTANTS
  Tasks = {t1, t2}
  NoName = "no name"
  Grid <- MCGrid
  Picks <- MCPicks
  Requests <- MCRequests
  MaxCalls = 4
  MaxMade = 3
  Asks <- MCAsks
  Busy <- MCBusy
  MaxToolCalls <- MCToolCalls
  Parts = {"links", "hosts", "services", "desktop", "physical", "wireless", "simulation", "preferences", "activity", "canvas", "modules", "ipc"}
  MaxAgain = 1
  MaxPlan = 40
  KindOf <- MCKindOf
  PortsOf <- MCPortsOf
  Hosts = {"PC", "Laptop"}
  AddressBits = 4
  LEASE_POLLS = 2
  Lease <- MCLease
  Desktops = {"PC"}
  VPN_POLLS = 2
  MaxMails = 2
  Scene <- MCScene
  MAX_CLIMB = 12
  MAX_DEVICES = 200
  AccessPoints = {"AP1", "AP2"}
  Clients = {"Laptop", "PC"}
  Placements <- MCPlacements
  RoomWidth = 3444
  ASSOCIATION_POLLS = 2
  Stations = {"PC", "R1"}
  MAX_STEPS = 3
  DEFAULT_LIMIT = 2
  MAX_LIMIT = 2
  PREFERENCES <- MCPreferences
  WorkspaceFlags = {"workspace_rulers"}
  TwoArgumentSetters = {"workspace_rulers"}
  Password = "cisco"
  Instructions = 2
  Tests = 2
  COLOURS = {"red", "blue"}
  PortLabels = {"Gig0/0"}
  Catalog <- MCCatalog
  Supported <- MCSupported
  SlotKinds <- MCSlotKinds
  SameLetters <- MCSameLetters
  SameLook <- MCSameLook
  ApiClasses <- MCApiClasses
  ApiRoots <- MCApiRoots
  ApiEnums <- MCApiEnums
  AnyCase <- MCAnyCase
  IntMax = 15
  Machines <- MCMachines
SPECIFICATION NetworkSpec
SYMMETRY TaskSymmetry
CHECK_DEADLOCK FALSE
INVARIANTS NetworkIsSound
PROPERTIES SharedNamesComeFromRaces RefusalsChangeNothing NothingLeftDark DoneIsDone
PROPERTIES ToolRefusalsChangeNothing ToolDoneIsDone RetriesGetThrough
