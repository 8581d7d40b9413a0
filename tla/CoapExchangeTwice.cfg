\* Duplicates of a request in progress.
CONSTANTS
  r1 = r1
  r2 = r2
  r3 = r3
  NoReq = NoReq
  Req = {r1}
  ConReq = {r1}
  ReqMid <- MCOneMid
  MidSpace = 4
  StartMids = {3}
  OddReq = {}
  StrayIds = {}
  MaxRetransmit = 2
  EmptyTypes = {"ACK", "RST", "CON", "NON"}
  CanGarble = FALSE
  CanClose = FALSE
  MaxRx = 4
  MaxWorkers = 3
SPECIFICATION Spec
INVARIANTS
  AtMostOneExecution
