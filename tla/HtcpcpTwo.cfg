\* Two slots, three clients, requests that get in each other's way.
CONSTANTS
  c1 = c1
  c2 = c2
  c3 = c3
  NoConn = NoConn
  Before = Before
  Conn = {c1, c2, c3}
  Slots = 2
  PotCount = 1
  Requests <- MCBrewGet
  InitPots <- MCBrewed
  StartTime = 10
  MaxTime = 10
  MayFail = FALSE
  BrewSecs = 1
  ColdSecs = 2
  FreeUnits = 1
SPECIFICATION Spec
INVARIANTS
  OwnSlot
  OwnAnswer
SYMMETRY Symmetry
