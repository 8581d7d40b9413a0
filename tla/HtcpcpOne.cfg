\* One slot, two clients that may leave, time passing between any two steps.
CONSTANTS
  c1 = c1
  c2 = c2
  c3 = c3
  NoConn = NoConn
  Before = Before
  Conn = {c1, c2}
  Slots = 1
  PotCount = 1
  Requests <- MCRequests
  InitPots <- MCUsed
  StartTime = 10
  MaxTime = 11
  MayFail = TRUE
  BrewSecs = 1
  ColdSecs = 1
  FreeUnits = 1
SPECIFICATION FairSpec
INVARIANTS
  TypeOK
  StatusIsCurrent
PROPERTIES
  ServesForEver
