\* Two slots: two brews in one pot.
CONSTANTS
  c1 = c1
  c2 = c2
  c3 = c3
  NoConn = NoConn
  Before = Before
  Conn = {c1, c2}
  Slots = 2
  PotCount = 1
  Requests <- MCBrews
  InitPots <- MCEmpty
  StartTime = 10
  MaxTime = 10
  MayFail = FALSE
  BrewSecs = 1
  ColdSecs = 2
  FreeUnits = 1
SPECIFICATION Spec
INVARIANT NoBrewLost
