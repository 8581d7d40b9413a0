\* One slot: brew, pour for long, look.
CONSTANTS
  c1 = c1
  c2 = c2
  c3 = c3
  NoConn = NoConn
  Before = Before
  Conn = {c1, c2, c3}
  Slots = 1
  PotCount = 1
  Requests <- MCPour
  InitPots <- MCEmpty
  StartTime = 10
  MaxTime = 13
  MayFail = FALSE
  BrewSecs = 1
  ColdSecs = 9
  FreeUnits = 1
SPECIFICATION Spec
INVARIANT LongPourOverflows
